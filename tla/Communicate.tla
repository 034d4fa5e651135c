----------------------------- MODULE Communicate -----------------------------
(***************************************************************************)
(* process::communicate(): close the child's stdin, wait for its exit and  *)
(* drain its stdout and stderr, each as work on libuv's pool, while the    *)
(* calling fiber polls and yields.  Extends ProcessWait with the pipes and *)
(* with what the child does to them; the wait work, collect_wait() and the *)
(* destructor are ProcessWait's.                                           *)
(*                                                                         *)
(* A stream <<p, "out">> or <<p, "err">> is identified with the work item  *)
(* that reads it.  Its data are counted, not kept.                         *)
(***************************************************************************)
EXTENDS ProcessWait

CONSTANTS
    Piped,               \* streams whose read end the parent holds
    Filters,             \* children that exit only after EOF on stdin
    Holders,             \* children with a descendant that keeps the pipes
    Failing,             \* streams on which a read may fail
    Capacity,            \* units a pipe holds before its writer blocks
    MaxOutput            \* units a child writes to each stream

Streams == Procs \X {"out", "err"}

ASSUME PipeAssumption ==
    /\ Piped \subseteq Streams
    /\ Filters \subseteq Procs
    /\ Holders \subseteq Procs
    /\ Failing \subseteq Streams
    /\ Capacity \in Nat \ {0}
    /\ MaxOutput \in Nat

VARIABLES
    stdin_open,          \* the parent's end of the child's stdin is open
    writer_open,         \* someone still holds the write end of the stream
    written,             \* units written to the stream so far
    drained,             \* units the reader took out of the pipe
    delivered,           \* units handed to callers of communicate()
    cut,                 \* streams whose reader once stopped before the end
    skipped              \* readers a communicate() under way was refused

pipeVars == <<stdin_open, writer_open, written, drained, delivered, cut, skipped>>
commVars == <<vars, pipeVars>>

StreamsOf(p) == {<<p, "out">>, <<p, "err">>} \cap Piped

-----------------------------------------------------------------------------
(* The child and its descendants.                                          *)

\* write(2) to a pipe blocks while the pipe is full.
ChildWrites(i) ==
    /\ i \in Piped /\ writer_open[i]
    /\ child[i[1]] = "running" \/ i[1] \in Holders
    /\ written[i] < MaxOutput
    /\ written[i] - drained[i] < Capacity
    /\ written' = [written EXCEPT ![i] = @ + 1]
    /\ UNCHANGED <<vars, stdin_open, writer_open, drained, delivered, cut, skipped>>

\* A child may close a stream and run on; a descendant closes it last.
WriterCloses(i) ==
    /\ i \in Piped /\ writer_open[i]
    /\ written[i] = MaxOutput \/ child[i[1]] # "running"
    /\ writer_open' = [writer_open EXCEPT ![i] = FALSE]
    /\ UNCHANGED <<vars, stdin_open, written, drained, delivered, cut, skipped>>

\* A child exits by itself when it has written all and, if it is a filter,
\* has seen EOF on its stdin; a signal ends it anywhere.  Its ends of the
\* pipes close with it unless a descendant inherited them.
ChildEnds(p) ==
    /\ ChildExits(p)
    /\ fate'[p].code = "CLD_EXITED" =>
          /\ \A i \in StreamsOf(p) : written[i] = MaxOutput
          /\ p \in Filters => ~stdin_open[p]
    /\ writer_open' = [i \in Streams |->
                         writer_open[i] /\ (i[1] = p => p \in Holders)]
    /\ UNCHANGED <<stdin_open, written, drained, delivered, cut, skipped>>

-----------------------------------------------------------------------------
(* The reader on a pool thread.                                            *)

\* read_work_cb: `ss << stream->rdbuf()' reads until EOF.
read_some_NoCountCheck(i) ==
    /\ work[i] = "running"
    /\ drained' = [drained EXCEPT ![i] = @ + 1]
    /\ UNCHANGED <<vars, stdin_open, writer_open, written, delivered, cut, skipped>>

read_some(i) ==
    /\ work[i] = "running"
    /\ drained[i] < written[i]
    /\ drained' = [drained EXCEPT ![i] = @ + 1]
    /\ UNCHANGED <<vars, stdin_open, writer_open, written, delivered, cut, skipped>>

read_work_cb_EmptyIsEof(i) ==
    /\ drained[i] = written[i]
    /\ WorkerReturns(i)
    /\ UNCHANGED <<childVars, handle, holderVars, work_code, callVars, pipeVars>>

read_work_cb(i) ==
    /\ drained[i] = written[i] /\ ~writer_open[i]
    /\ WorkerReturns(i)
    /\ UNCHANGED <<childVars, handle, holderVars, work_code, callVars, pipeVars>>

\* underflow() takes every read that gives nothing for the end of the stream,
\* one that failed or was interrupted by a signal, too; it does not retry and
\* reports no error.  What is in the pipe stays there.
read_failed(i) ==
    /\ i \in Failing
    /\ WorkerReturns(i)
    /\ cut' = cut \cup {i}
    /\ UNCHANGED <<childVars, handle, holderVars, work_code, callVars>>
    /\ UNCHANGED <<stdin_open, writer_open, written, drained, delivered, skipped>>

-----------------------------------------------------------------------------
(* The call.                                                               *)

\* Close stdin once; the descriptor goes with it.
close_stdin_Skipped(p) == UNCHANGED stdin_open

close_stdin(p) == stdin_open' = [stdin_open EXCEPT ![p] = FALSE]

\* What begin_communicate() submits: the wait work unless the code is cached,
\* a reader for each stream the parent holds; each only if it is not in
\* flight.
Submissions_IgnoresCode(p) ==
    {i \in {WaitWork(p)} \cup StreamsOf(p) : work[i] = "null"}

Submissions(p) ==
    {i \in {WaitWork(p)} \cup StreamsOf(p) :
        /\ work[i] = "null"
        /\ i = WaitWork(p) => exit_code[p] = NoCode}

InOrder(p, items) ==
    LET Item(k) == IF <<p, k>> \in items THEN << <<p, k>> >> ELSE << >> IN
    Item("wait") \o Item("out") \o Item("err")

\* uv_queue_work for each; a refused one is logged and left out.
submit_all(p, refused) ==
    LET items == Submissions(p) \ refused IN
    /\ refused \in IF "submit_fail" \in Faults THEN SUBSET Submissions(p) ELSE {{}}
    /\ work' = [i \in Items |-> IF i \in items THEN "queued" ELSE work[i]]
    /\ queue' = queue \o InOrder(p, items)
    /\ UNCHANGED stop_flag

communicate(c, p) ==
    /\ handle[p] = "live"
    /\ Enter(c, p, "communicate", "none",
             IF c \in Fibers THEN "comm_poll" ELSE "comm_out")
    /\ close_stdin(p)
    /\ \E refused \in SUBSET Submissions(p) :
          /\ submit_all(p, refused)
          /\ skipped' = [skipped EXCEPT ![c] = refused \cap Streams]
    /\ UNCHANGED <<childVars, handle, holderVars, work_code,
                   writer_open, written, drained, delivered, cut>>

\* The C++ call on its own.  What it starts is collected by a later
\* communicate() or joined by the destructor.
begin_communicate(c, p) ==
    /\ "begin_communicate" \in Ops
    /\ cur = NoOne /\ pc[c] = "idle" /\ handle[p] = "live"
    /\ close_stdin(p)
    /\ \E refused \in SUBSET Submissions(p) : submit_all(p, refused)
    /\ UNCHANGED <<childVars, handle, holderVars, work_code, callVars,
                   writer_open, written, drained, delivered, cut, skipped>>

\* poll_communicate(): both readers done?  If not, the fiber yields.
poll_communicate(c) ==
    /\ pc[c] = "comm_poll" /\ MayRun(c)
    /\ uv_run_nowait
    /\ IF \A k \in {"out", "err"} : Driven[<<on[c], k>>] \in {"null", "done"}
       THEN Goto(c, "comm_out")
       ELSE Pause(NoOne)
    /\ UNCHANGED <<childVars, handle, holderVars, work_code, pipeVars>>

\* end_communicate(): stdout, then stderr, then collect_wait().  A stream
\* without work yields nothing; work that is not done is awaited with the
\* loop driven but the OS thread kept.
EndAt == [out |-> "comm_out", err |-> "comm_err"]
After == [out |-> "comm_err", err |-> "collect"]

end_communicate(c, k) ==
    /\ pc[c] = EndAt[k] /\ MayRun(c)
    /\ LET i == <<on[c], k>> IN
       \/ /\ work[i] = "null"
          /\ Goto(c, After[k])
          /\ UNCHANGED <<poolVars, delivered>>
       \/ /\ work[i] \notin {"null", "done"}
          /\ uv_run_nowait
          /\ Pause(c)
          /\ UNCHANGED delivered
       \/ /\ work[i] = "done"
          /\ delivered' = [delivered EXCEPT ![i] = drained[i]]
          /\ work' = [work EXCEPT ![i] = "null"]
          /\ Goto(c, After[k])
          /\ UNCHANGED <<queue, stop_flag>>
    /\ UNCHANGED <<childVars, handle, holderVars, work_code,
                   stdin_open, writer_open, written, drained, cut, skipped>>

\* With the call ends what is known of its refused readers.
CollectStep(c) ==
    /\ collect_wait(c)
    /\ skipped' = [skipped EXCEPT ![c] = IF op'[c] = "none" THEN {} ELSE @]
    /\ UNCHANGED <<stdin_open, writer_open, written, drained, delivered, cut>>

\* close_process() at the end of the destructor closes what is left.
DestructorStep(c, k) ==
    /\ await_work(c, k)
    /\ stdin_open' = [p \in Procs |-> stdin_open[p] /\ handle'[p] # "destroyed"]
    /\ UNCHANGED <<writer_open, written, drained, delivered, cut, skipped>>

-----------------------------------------------------------------------------

CommInit ==
    /\ Init
    /\ stdin_open = [p \in Procs |-> TRUE]
    /\ writer_open = [i \in Streams |-> i \in Piped]
    /\ written = [i \in Streams |-> 0]
    /\ drained = [i \in Streams |-> 0]
    /\ delivered = [i \in Streams |-> 0]
    /\ cut = {}
    /\ skipped = [c \in Callers |-> {}]

CommStep(c) ==
    \/ poll_communicate(c)
    \/ \E k \in {"out", "err"} : end_communicate(c, k)
    \/ Poll(c) /\ UNCHANGED pipeVars
    \/ CollectStep(c)
    \/ \E k \in Kinds : DestructorStep(c, k)

WaitCall(c, p) ==
    /\ wait(c, p) \/ wait_poll(c, p) \/ destroy(c, p)
    /\ UNCHANGED pipeVars

Work(i) ==
    \/ Take(i) /\ UNCHANGED pipeVars
    \/ i \in Streams /\ (read_some(i) \/ read_work_cb(i))
    \/ \E p \in Procs : i = WaitWork(p) /\ wait_work_cb(p) /\ UNCHANGED pipeVars

CommNext ==
    \/ \E p \in Procs : ChildEnds(p)
    \/ \E i \in Streams : ChildWrites(i) \/ WriterCloses(i)
    \/ \E i \in Items : Work(i)
    \/ \E i \in Streams : read_failed(i)
    \/ \E c \in Callers, p \in Procs :
          communicate(c, p) \/ begin_communicate(c, p) \/ WaitCall(c, p)
    \/ \E c \in Callers : CommStep(c)
    \/ async_poll /\ UNCHANGED pipeVars

CommSpec == CommInit /\ [][CommNext]_commVars

\* As in ProcessWait; a child writes on while it can and then exits, but no
\* signal need ever come; descendants let go.  No read need ever fail.
CommFairness ==
    /\ \A p \in Procs :
          WF_commVars(ChildEnds(p) /\ fate'[p].code = "CLD_EXITED")
    /\ \A i \in Streams : /\ WF_commVars(ChildWrites(i))
                          /\ WF_commVars(WriterCloses(i) /\ child[i[1]] # "running")
    /\ \A i \in Items : WF_commVars(Work(i))
    /\ \A c \in Callers : SF_commVars(CommStep(c))

CommFairSpec == CommSpec /\ CommFairness

-----------------------------------------------------------------------------
(* Properties.                                                             *)

\* Counters stay in range: no more is drained than written, no more is in a
\* pipe than it holds, no more is handed out than was drained.
CommTypeOK ==
    /\ stdin_open \in [Procs -> BOOLEAN]
    /\ writer_open \in [Streams -> BOOLEAN]
    /\ \A i \in Streams :
          /\ written[i] \in 0..MaxOutput
          /\ written[i] - drained[i] \in 0..Capacity
          /\ delivered[i] \in 0..drained[i]
    /\ cut \subseteq Failing

\* When end_communicate() is past its readers, the callers have been handed
\* every unit the child or a descendant wrote to a captured stream, and no
\* more can come: nobody holds the write end.  That is so unless the pool
\* refused the reader or a read from the stream failed, of which the callers
\* learn nothing.  Even then nothing has been taken and lost: it is still in
\* the pipe, or another caller's reader has it, or it was handed out.
OutputComplete ==
    \A c \in Callers :
        (op[c] = "communicate" /\ pc[c] = "collect") =>
            \A i \in StreamsOf(on[c]) :
                IF i \notin skipped[c] \cup cut
                THEN ~writer_open[i] /\ delivered[i] = written[i]
                ELSE work[i] # "null" \/ delivered[i] = drained[i]

\* communicate() returns, given a child that exits once its output is taken
\* and its stdin is closed, descendants that let go of the pipes and a pool
\* that accepted the readers; unless a read failed, after which the child may
\* block for ever on a pipe that nobody drains, or another caller communicates with the
\* same process before it is over, which begin_communicate() forbids (its
\* readers would restart each time).
CommunicateReturns ==
    \A c \in Callers :
        (op[c] = "communicate" /\ on[c] \notin Daemons /\ skipped[c] = {}) ~>
            \/ op[c] = "none"
            \/ StreamsOf(on[c]) \cap cut # {}
            \/ \E d \in Callers \ {c} : op[d] = "communicate" /\ on[d] = on[c]

=============================================================================
