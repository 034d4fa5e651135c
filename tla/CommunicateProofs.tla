--------------------------- MODULE CommunicateProofs ---------------------------
(***************************************************************************)
(* What communicate() promises for any number of processes, callers, pool  *)
(* threads and units: nothing of a captured stream is lost or handed out   *)
(* before the stream has ended, the destructor joins the readers, too, and *)
(* to its callers communicate() is a wait (ExitPromise).  The invariant of *)
(* the waits (AlwaysInv) is kept by the steps added here; the pipes have   *)
(* theirs beside it.                                                       *)
(***************************************************************************)
EXTENDS Communicate, ProcessWaitAlwaysProofs, ProcessWaitPromiseProofs

-----------------------------------------------------------------------------
(* The inductive invariant.                                                *)

CommPCs == {"comm_poll", "comm_out", "comm_err"}

PipeTypes ==
    /\ stdin_open \in [Procs -> BOOLEAN]
    /\ writer_open \in [Streams -> BOOLEAN]
    /\ written \in [Streams -> Nat]
    /\ drained \in [Streams -> Nat]
    /\ delivered \in [Streams -> Nat]
    /\ cut \subseteq Failing
    /\ skipped \in [Callers -> SUBSET Streams]

Counts ==
    \A i \in Streams :
        /\ written[i] <= MaxOutput
        /\ drained[i] <= written[i] /\ written[i] - drained[i] <= Capacity
        /\ delivered[i] <= drained[i]

\* A communicate() under way keeps its handle alive.
CommCalls ==
    \A c \in Callers :
        /\ pc[c] \in CommPCs => op[c] = "communicate" /\ handle[on[c]] = "live"
        /\ op[c] = "communicate" => pc[c] \in CommPCs \cup {"collect"}

\* Without a reader nothing is held back; a reader that is through saw the end
\* of its stream, all of it read, or a read of its failed.
ReaderSees(i) ==
    handle[i[1]] = "live" =>
        /\ work[i] = "null" => delivered[i] = drained[i]
        /\ work[i] \in {"returned", "done"} =>
              i \in cut \/ (~writer_open[i] /\ drained[i] = written[i])

ReadersSee == \A i \in Streams : ReaderSees(i)

\* The stream has ended and a caller has it all; that is not said of a stream
\* of which a read failed.
Served(i) == i \in cut \/ (~writer_open[i] /\ delivered[i] = written[i])

\* A step that takes a served stream from nobody.
ServedStay == \A i \in Streams : Served(i) => Served(i)'

\* A reader returns, at the end of its stream or because a read failed.
ReaderReturns(i) == read_work_cb(i) \/ read_failed(i)

\* Where a call has yet to look after the reader of a stream.
Before == [out |-> {"comm_poll", "comm_out"}, err |-> CommPCs]

\* A stream whose reader the pool accepted was handed out, or it has a reader
\* the call will look after.
CallServed(c) ==
    op[c] = "communicate" =>
        \A k \in {"out", "err"} :
            (<<on[c], k>> \in Piped /\ <<on[c], k>> \notin skipped[c]) =>
                \/ Served(<<on[c], k>>)
                \/ work[<<on[c], k>>] # "null" /\ pc[c] \in Before[k]

CallsServed == \A c \in Callers : CallServed(c)

PipeInv == PipeTypes /\ Counts /\ CommCalls /\ ReadersSee /\ CallsServed

CommInv == AlwaysInv /\ PipeInv

\* A stream is the item of its reader, and never that of a wait.
LEMMA StreamIsItem ==
    ASSUME NEW p \in Procs, NEW k \in {"out", "err"}
    PROVE  <<p, k>> \in Streams /\ <<p, k>> \in Items
BY DEF Streams, Items, Kinds

LEMMA StreamParts ==
    ASSUME NEW i \in Streams
    PROVE  /\ i = <<i[1], i[2]>> /\ i[1] \in Procs /\ i[2] \in {"out", "err"}
           /\ i \in Items
           /\ \A q : i # WaitWork(q)
<1>1. PICK p \in Procs, k \in {"out", "err"} : i = <<p, k>>
  BY DEF Streams
<1>2. i[1] = p /\ i[2] = k
  BY <1>1
<1>3. k # "wait"
  OBVIOUS
<1>. QED
  BY <1>1, <1>2, <1>3 DEF Items, Kinds, WaitWork

-----------------------------------------------------------------------------
(* What the steps of ProcessWait do to readers and to communicate().       *)

\* They move a reader along the pool, no more, while its handle is live.
ReaderMoves(i) ==
    \/ work'[i] = work[i]
    \/ work[i] = "queued" /\ work'[i] = "running"
    \/ work[i] = "returned" /\ work'[i] = "done"

ReadersMove == \A i \in Streams : handle[i[1]] = "live" => ReaderMoves(i)

LEMMA DrivenMoves ==
    ASSUME PoolTypeOK, NEW i \in Streams
    PROVE  Driven[i] = work[i] \/ (work[i] = "returned" /\ Driven[i] = "done")
BY StreamParts DEF PoolTypeOK, Driven

LEMMA DriveWaitMoves ==
    ASSUME PoolTypeOK, NEW p \in Procs, NEW r \in BOOLEAN, drive_wait(p, r)
    PROVE  ReadersMove
<1> SUFFICES ASSUME NEW i \in Streams
             PROVE  ReaderMoves(i)
  BY DEF ReadersMove
<1>1. Driven \in [Items -> WorkStates]
  BY DEF Driven, PoolTypeOK, WorkStates
<1>2. i \in Items /\ i # WaitWork(p)
  BY StreamParts
<1>3. work' = Driven \/ work' = [Driven EXCEPT ![WaitWork(p)] = "null"]
  BY DEF drive_wait, take_result
<1>4. work'[i] = Driven[i]
  BY <1>1, <1>2, <1>3
<1>. QED
  BY <1>4, DrivenMoves DEF ReaderMoves

LEMMA BeginWaitMoves ==
    ASSUME PoolTypeOK, NEW p \in Procs, begin_wait(p)
    PROVE  ReadersMove
<1> SUFFICES ASSUME NEW i \in Streams
             PROVE  work'[i] = work[i]
  BY DEF ReadersMove, ReaderMoves
<1>1. i \in Items /\ i # WaitWork(p)
  BY StreamParts
<1>2. UNCHANGED work \/ work' = [work EXCEPT ![WaitWork(p)] = "queued"]
  BY DEF begin_wait, uv_queue_work, poolVars
<1>. QED
  BY <1>1, <1>2 DEF PoolTypeOK

LEMMA NextMoves ==
    ASSUME AlwaysInv, [Next]_vars
    PROVE  ReadersMove
<1> USE DEF AlwaysInv, WellFormed, TypeOK
<1>1. ASSUME UNCHANGED work
      PROVE  ReadersMove
  BY <1>1 DEF ReadersMove, ReaderMoves
<1>2. ASSUME work' = Driven
      PROVE  ReadersMove
  BY <1>2, DrivenMoves DEF ReadersMove, ReaderMoves
<1>3. ASSUME NEW i \in Items, Take(i)
      PROVE  ReadersMove
  <2>1. work[i] = "queued" /\ work' = [work EXCEPT ![i] = "running"]
    BY <1>3 DEF Take, WorkerTakes
  <2>2. \A j \in Streams : j \in Items
    BY StreamParts
  <2>. QED
    BY <2>1, <2>2 DEF PoolTypeOK, ReadersMove, ReaderMoves
<1>4. ASSUME NEW p \in Procs, ChildExits(p) \/ ExternalReap(p) \/ wait_work_cb(p)
      PROVE  ReadersMove
  <2>1. UNCHANGED work \/ work' = [work EXCEPT ![WaitWork(p)] = "returned"]
    BY <1>4 DEF ChildExits, ExternalReap, wait_work_cb, WorkerReturns, poolVars
  <2>2. ASSUME NEW i \in Streams
        PROVE  work'[i] = work[i]
    <3>1. i \in Items /\ i # WaitWork(p)
      BY StreamParts
    <3>. QED
      BY <2>1, <3>1 DEF PoolTypeOK
  <2>. QED
    BY <2>2 DEF ReadersMove, ReaderMoves
<1>5. ASSUME NEW c \in Callers, NEW p \in Procs, Call(c, p)
      PROVE  ReadersMove
  <2>1. UNCHANGED poolVars \/ begin_wait(p)
    BY <1>5 DEF Call, wait, try_wait, has_exited, wait_poll, wait_with,
                wait_timeout_ms, destroy
  <2>. QED
    BY <1>1, <2>1, BeginWaitMoves DEF poolVars
<1>6. ASSUME NEW c \in Callers, Poll(c) \/ collect_wait(c)
      PROVE  ReadersMove
  <2>1. on[c] \in Procs
    BY <1>6 DEF Poll, collect_wait, CallsHaveProcs
  <2>2. UNCHANGED poolVars \/ \E r \in BOOLEAN : drive_wait(on[c], r)
    <3>1. CASE Poll(c)
      <4>1. PICK r \in BOOLEAN : poll_wait(on[c], r)
        BY <3>1, Zenon DEF Poll
      <4>. QED
        BY <4>1 DEF poll_wait
    <3>2. CASE collect_wait(c)
      BY <3>2 DEF collect_wait, collect_cached, collect_work, collect_sync
    <3>. QED
      BY <1>6, <3>1, <3>2
  <2>. QED
    BY <1>1, <2>1, <2>2, DriveWaitMoves DEF poolVars
<1>7. ASSUME NEW c \in Callers, timed_poll(c) \/ timed_reap(c) \/ async_poll_once(c)
      PROVE  UNCHANGED work
  BY <1>7 DEF timed_poll, timed_reap, timed_cached, timed_forever, timed_seen,
              timed_gone, timed_out, StoreAndReturn, async_poll_once, poolVars
<1>8. ASSUME NEW c \in Callers, NEW k \in Kinds, await_work(c, k)
      PROVE  ReadersMove
  <2> SUFFICES ASSUME NEW i \in Streams, handle[i[1]] = "live"
               PROVE  ReaderMoves(i)
    BY DEF ReadersMove
  <2>1. on[c] \in Procs /\ handle[on[c]] = "closing"
    BY <1>8 DEF await_work, JoinAt, Kinds, CallsHaveProcs, CallsKeepHandles
  <2>2. i \in Items /\ i # <<on[c], k>>
    BY <2>1, StreamParts
  <2>3. \/ UNCHANGED work \/ work' = Driven
        \/ \E s \in {"returned", "null"} : work' = [work EXCEPT ![<<on[c], k>>] = s]
    BY <1>8 DEF await_work, uv_cancel, uv_run_nowait, poolVars
  <2>4. work'[i] = work[i] \/ work'[i] = Driven[i]
    BY <2>2, <2>3 DEF PoolTypeOK
  <2>. QED
    BY <2>4, DrivenMoves DEF ReaderMoves
<1>9. ASSUME \/ \E c \in Callers : poll_once(c)
             \/ \E p \in Procs : TakesPid(p) \/ TakerExits(p) \/ TakerReaped(p)
             \/ async_poll \/ async_stop
             \/ UNCHANGED vars
      PROVE  work' = Driven \/ UNCHANGED work
  BY <1>9 DEF TakesPid, TakerExits, TakerReaped, poll_once, uv_run_once, uv_run_nowait, async_poll, async_stop,
              uv_stop, vars, poolVars
<1>. QED
  BY <1>1, <1>2, <1>3, <1>4, <1>5, <1>6, <1>7, <1>8, <1>9 DEF Next, Step

\* They neither start nor move a communicate() but in its collect_wait(), and
\* its handle stays as it is.
CallStays(c) ==
    pc'[c] = pc[c] /\ op'[c] = op[c] /\ on'[c] = on[c]

CommunicateStays ==
    \A c \in Callers :
        /\ pc'[c] \in CommPCs => CallStays(c)
        /\ op'[c] = "communicate" => CallStays(c)
        /\ pc[c] \in CommPCs => handle'[on[c]] = handle[on[c]]

HandlesOpenNever ==
    \A p \in Procs : handle'[p] = "live" => handle[p] = "live"

LEMMA NextStays ==
    ASSUME AlwaysInv, CommCalls, [Next]_vars
    PROVE  CommunicateStays /\ HandlesOpenNever
<1> USE DEF AlwaysInv, WellFormed, TypeOK, CallTypeOK, HolderTypeOK
<1>1. ASSUME UNCHANGED <<pc, op, on, handle>>
      PROVE  CommunicateStays /\ HandlesOpenNever
  BY <1>1 DEF CommunicateStays, HandlesOpenNever, CallStays
<1>2. ASSUME NEW c \in Callers, UNCHANGED handle,
             \A d \in Callers \ {c} : CallStays(d),
             CallStays(c) \/ (pc'[c] \notin CommPCs /\ op'[c] # "communicate")
      PROVE  CommunicateStays /\ HandlesOpenNever
  BY <1>2 DEF CommunicateStays, HandlesOpenNever
<1>3. ASSUME NEW c \in Callers, NEW p, NEW o \in AllOps \ {"communicate"}, NEW l,
             NEW w \in PCs \ CommPCs, Enter(c, p, o, l, w)
      PROVE  /\ \A d \in Callers \ {c} : CallStays(d)
             /\ pc'[c] \notin CommPCs /\ op'[c] # "communicate"
  BY <1>3 DEF Enter, CallStays
<1>4. ASSUME NEW c \in Callers, NEW is, NEW code, Return(c, is, code)
      PROVE  /\ \A d \in Callers \ {c} : CallStays(d)
             /\ pc'[c] \notin CommPCs /\ op'[c] # "communicate"
  BY <1>4 DEF Return, CallStays, CommPCs
<1>5. ASSUME NEW c \in Callers, NEW h, Pause(h)
      PROVE  \A d \in Callers : CallStays(d)
  BY <1>5 DEF Pause, CallStays
<1>6. ASSUME NEW c \in Callers, NEW w \in PCs \ CommPCs, Goto(c, w),
             op[c] # "communicate"
      PROVE  /\ \A d \in Callers \ {c} : CallStays(d)
             /\ pc'[c] \notin CommPCs /\ op'[c] # "communicate"
  BY <1>6 DEF Goto, CallStays
<1>7. ASSUME NEW c \in Callers, NEW p \in Procs, Call(c, p)
      PROVE  CommunicateStays /\ HandlesOpenNever
  <2>1. PICK o \in AllOps \ {"communicate"}, l \in Limits,
             w \in {"poll", "collect", "timed", "join_wait"} : Enter(c, p, o, l, w)
    BY <1>7 DEF Call, wait, try_wait, has_exited, wait_poll, wait_with,
                wait_timeout_ms, destroy, Limits, AllOps
  <2>2. /\ \A d \in Callers \ {c} : CallStays(d)
        /\ pc'[c] \notin CommPCs /\ op'[c] # "communicate"
    BY <1>3, <2>1 DEF PCs, CommPCs
  <2>3. CASE UNCHANGED handle
    BY <1>2, <2>2, <2>3
  <2>4. CASE destroy(c, p)
    <3>1. /\ handle' = [handle EXCEPT ![p] = "closing"]
          /\ \A d \in Callers : pc[d] # "idle" => on[d] # p
      BY <2>4 DEF destroy
    <3>. QED
      BY <2>2, <3>1 DEF CommunicateStays, HandlesOpenNever, CommPCs
  <2>. QED
    BY <1>7, <2>3, <2>4 DEF Call, wait, try_wait, has_exited, wait_poll,
                            wait_with, wait_timeout_ms
<1>8. ASSUME NEW c \in Callers, Poll(c)
      PROVE  CommunicateStays /\ HandlesOpenNever
  <2>1. pc[c] = "poll" /\ op[c] # "communicate" /\ UNCHANGED handle
    BY <1>8 DEF Poll, CommCalls, CommPCs
  <2>2. \/ \E is, code : Return(c, is, code)
        \/ \E h : Pause(h)
        \/ Goto(c, "collect")
    BY <1>8 DEF Poll, on_hit, on_miss, cs_runtime_yield
  <2>3. "collect" \in PCs \ CommPCs
    BY DEF PCs, CommPCs
  <2>. QED
    BY <1>2, <1>4, <1>5, <1>6, <2>1, <2>2, <2>3
<1>9. ASSUME NEW c \in Callers, collect_wait(c) \/ timed_poll(c) \/ timed_reap(c)
      PROVE  CommunicateStays /\ HandlesOpenNever
  <2>1. UNCHANGED handle
    BY <1>9 DEF collect_wait, timed_poll, timed_reap, timed_cached,
                timed_forever, timed_seen, timed_gone, timed_out, StoreAndReturn
  <2>2. CASE \E is, code : Return(c, is, code)
    BY <1>2, <1>4, <2>1, <2>2
  <2>3. CASE \E h : Pause(h)
    BY <1>2, <1>5, <2>1, <2>3
  <2>4. CASE timed_poll(c) /\ timed_seen(c)
    <3>1. op[c] # "communicate"
      BY <2>4 DEF timed_poll, CommCalls, CommPCs
    <3>2. /\ \A d \in Callers \ {c} : CallStays(d)
          /\ pc'[c] \notin CommPCs /\ op'[c] # "communicate"
      BY <2>4, <3>1 DEF timed_seen, CallStays, CommPCs
    <3>. QED
      BY <1>2, <2>1, <3>2
  <2>. QED
    BY <1>9, <2>2, <2>3, <2>4
    DEF collect_wait, collect_cached, collect_work, collect_sync, timed_poll,
        timed_reap, timed_cached, timed_forever, timed_gone, timed_out,
        StoreAndReturn
<1>10. ASSUME NEW c \in Callers, poll_once(c) \/ async_poll_once(c)
       PROVE  CommunicateStays /\ HandlesOpenNever
  <2>1. UNCHANGED handle
    BY <1>10 DEF poll_once, async_poll_once
  <2>2. CASE \E is, code : Return(c, is, code)
    BY <1>2, <1>4, <2>1, <2>2
  <2>3. CASE Enter(c, NoProc, "poll_once", "none", "poll_once")
    BY <1>2, <1>3, <2>1, <2>3 DEF AllOps, PCs, CommPCs
  <2>. QED
    BY <1>10, <2>2, <2>3 DEF poll_once, async_poll_once
<1>11. ASSUME NEW c \in Callers, NEW k \in Kinds, await_work(c, k)
       PROVE  CommunicateStays /\ HandlesOpenNever
  <2>1. /\ pc[c] \in {"join_wait", "join_out", "join_err"}
        /\ on[c] \in Procs /\ handle[on[c]] = "closing" /\ op[c] # "communicate"
    BY <1>11 DEF await_work, JoinAt, Kinds, CallsHaveProcs, CallsKeepHandles,
                 CommCalls, CommPCs
  <2>2. CASE Pause(c) /\ UNCHANGED handle
    BY <1>2, <1>5, <2>2
  <2>3. CASE (Goto(c, "join_out") \/ Goto(c, "join_err")) /\ UNCHANGED handle
    <3>1. "join_out" \in PCs \ CommPCs /\ "join_err" \in PCs \ CommPCs
      BY DEF PCs, CommPCs
    <3>. QED
      BY <1>2, <1>6, <2>1, <2>3, <3>1
  <2>4. CASE /\ Return(c, "nothing", 0)
             /\ handle' = [handle EXCEPT ![on[c]] = "destroyed"]
    <3>1. /\ \A d \in Callers \ {c} : CallStays(d)
          /\ pc'[c] \notin CommPCs /\ op'[c] # "communicate"
      BY <1>4, <2>4
    <3>2. \A d \in Callers : pc[d] \in CommPCs => on[d] # on[c]
      BY <2>1 DEF CommCalls
    <3>. QED
      BY <2>1, <2>4, <3>1, <3>2 DEF CommunicateStays, HandlesOpenNever
  <2>. QED
    BY <1>11, <2>2, <2>3, <2>4 DEF await_work, joined
<1>12. ASSUME \/ \E p \in Procs : ChildExits(p) \/ ExternalReap(p) \/ wait_work_cb(p)
              \/ \E p \in Procs : TakesPid(p) \/ TakerExits(p) \/ TakerReaped(p)
              \/ \E i \in Items : Take(i)
              \/ async_poll \/ async_stop
              \/ UNCHANGED vars
       PROVE  UNCHANGED <<pc, op, on, handle>>
  BY <1>12 DEF ChildExits, ExternalReap, wait_work_cb, Take, TakesPid,
               TakerExits, TakerReaped, async_poll, async_stop, vars, callVars
<1>. QED
  BY <1>1, <1>7, <1>8, <1>9, <1>10, <1>11, <1>12 DEF Next, Step

-----------------------------------------------------------------------------
(* Steps of ProcessWait.                                                   *)

\* They keep the pipes' invariant; meanwhile write ends may close.
LEMMA WaitsKeep ==
    ASSUME CommInv, [Next]_vars,
           stdin_open' \in [Procs -> BOOLEAN],
           writer_open' \in [Streams -> BOOLEAN],
           \A i \in Streams : writer_open'[i] => writer_open[i],
           skipped' \in [Callers -> SUBSET Streams],
           \A c \in Callers : op'[c] = "communicate" => skipped'[c] = skipped[c],
           UNCHANGED <<written, drained, delivered, cut>>
    PROVE  CommInv'
<1> USE DEF CommInv, PipeInv
<1>1. AlwaysInv'
  BY AlwaysStep
<1>2. ReadersMove /\ CommunicateStays /\ HandlesOpenNever
  BY NextMoves, NextStays
<1>3. PipeTypes' /\ Counts'
  BY DEF PipeTypes, Counts
<1>4. CommCalls'
  BY <1>2 DEF CommCalls, CommunicateStays, CallStays
<1>5. ReadersSee'
  <2> SUFFICES ASSUME NEW i \in Streams, handle'[i[1]] = "live"
               PROVE  /\ work'[i] = "null" => delivered'[i] = drained'[i]
                      /\ work'[i] \in {"returned", "done"} =>
                            i \in cut' \/ (~writer_open'[i] /\ drained'[i] = written'[i])
    BY DEF ReadersSee, ReaderSees
  <2>1. handle[i[1]] = "live"
    BY <1>2, StreamParts DEF HandlesOpenNever
  <2>2. ReaderSees(i) /\ ReaderMoves(i)
    BY <1>2, <2>1 DEF ReadersSee, ReadersMove
  <2>. QED
    BY <2>1, <2>2 DEF ReaderSees, ReaderMoves
<1>6. ASSUME NEW c \in Callers, op'[c] = "communicate", NEW k \in {"out", "err"},
             <<on'[c], k>> \in Piped, <<on'[c], k>> \notin skipped'[c]
      PROVE  \/ Served(<<on[c], k>>)'
             \/ work'[<<on[c], k>>] # "null" /\ pc'[c] \in Before[k]
  <2>1. pc'[c] = pc[c] /\ op'[c] = op[c] /\ on'[c] = on[c]
    BY <1>2, <1>6 DEF CommunicateStays, CallStays
  <2>2. pc[c] \in CommPCs \cup {"collect"}
    BY <1>6, <2>1 DEF CommCalls
  <2>3. on[c] \in Procs
    BY <2>2 DEF AlwaysInv, WellFormed, CallsHaveProcs, CommPCs
  <2>4. handle[on[c]] = "live"
    BY <2>2 DEF CommCalls, AlwaysInv, CallsKeepHandles
  <2> DEFINE i == <<on[c], k>>
  <2>5. i \in Streams /\ i[1] = on[c]
    BY <2>3, StreamIsItem
  <2>6. Served(i) \/ (work[i] # "null" /\ pc[c] \in Before[k])
    BY <1>6, <2>1 DEF CallsServed, CallServed
  <2>7. ReaderMoves(i)
    BY <1>2, <2>4, <2>5 DEF ReadersMove
  <2>. QED
    BY <2>1, <2>5, <2>6, <2>7 DEF Served, ReaderMoves
<1>7. CallsServed'
  <2> SUFFICES ASSUME NEW c \in Callers
               PROVE  CallServed(c)'
    BY DEF CallsServed
  <2>1. op'[c] = "communicate" => on'[c] = on[c]
    BY <1>2 DEF CommunicateStays, CallStays
  <2>. QED
    BY <1>6, <2>1 DEF CallServed, Served
<1>. QED
  BY <1>1, <1>3, <1>4, <1>5, <1>7

-----------------------------------------------------------------------------
(* The child and the reader of a stream.                                   *)

\* Steps that leave the processes and the calls alone.
LEMMA AsideKeeps ==
    ASSUME CommInv, UNCHANGED vars, UNCHANGED skipped,
           PipeTypes', Counts', ReadersSee', ServedStay
    PROVE  CommInv'
<1>1. AlwaysInv'
  BY AlwaysStep DEF CommInv
<1>2. UNCHANGED <<work, handle, pc, op, on>>
  BY DEF vars, poolVars, callVars
<1>3. CommCalls'
  BY <1>2 DEF CommInv, PipeInv, CommCalls
<1>4. CallsServed'
  <2> SUFFICES ASSUME NEW c \in Callers, op[c] = "communicate",
                      NEW k \in {"out", "err"},
                      <<on[c], k>> \in Piped, <<on[c], k>> \notin skipped[c]
               PROVE  \/ Served(<<on[c], k>>)'
                      \/ work[<<on[c], k>>] # "null" /\ pc[c] \in Before[k]
    BY <1>2 DEF CallsServed, CallServed, Served
  <2>1. \/ Served(<<on[c], k>>)
        \/ work[<<on[c], k>>] # "null" /\ pc[c] \in Before[k]
    BY DEF CommInv, PipeInv, CallsServed, CallServed
  <2>2. <<on[c], k>> \in Streams
    BY PipeAssumption
  <2>. QED
    BY <1>2, <2>1, <2>2 DEF Served, ServedStay
<1>. QED
  BY <1>1, <1>3, <1>4 DEF CommInv, PipeInv

LEMMA ChildWritesKeeps ==
    ASSUME CommInv, NEW i \in Streams, ChildWrites(i)
    PROVE  CommInv'
<1>1. /\ writer_open[i] /\ written[i] < MaxOutput
      /\ written[i] - drained[i] < Capacity
      /\ written' = [written EXCEPT ![i] = @ + 1]
      /\ UNCHANGED <<vars, stdin_open, writer_open, drained, delivered, cut, skipped>>
  BY DEF ChildWrites
<1>2. MaxOutput \in Nat /\ Capacity \in Nat
  BY PipeAssumption
<1>3. PipeTypes /\ Counts /\ ReadersSee
  BY DEF CommInv, PipeInv
<1>4. PipeTypes'
  BY <1>1, <1>3 DEF PipeTypes
<1>5. Counts'
  <2> SUFFICES ASSUME NEW j \in Streams
               PROVE  /\ written'[j] <= MaxOutput
                      /\ drained'[j] <= written'[j]
                      /\ written'[j] - drained'[j] <= Capacity
                      /\ delivered'[j] <= drained'[j]
    BY DEF Counts
  <2>1. /\ written[j] \in Nat /\ drained[j] \in Nat /\ delivered[j] \in Nat
        /\ written'[j] = IF j = i THEN written[j] + 1 ELSE written[j]
        /\ drained'[j] = drained[j] /\ delivered'[j] = delivered[j]
    BY <1>1, <1>3 DEF PipeTypes
  <2>. QED
    BY <1>1, <1>2, <1>3, <2>1 DEF Counts
<1>6. ReadersSee' /\ ServedStay
  BY <1>1, <1>3
  DEF PipeTypes, ReadersSee, ReaderSees, ServedStay, Served, vars, poolVars
<1>. QED
  BY <1>1, <1>4, <1>5, <1>6, AsideKeeps

LEMMA WriterClosesKeeps ==
    ASSUME CommInv, NEW i \in Streams, WriterCloses(i)
    PROVE  CommInv'
<1>1. /\ writer_open' = [writer_open EXCEPT ![i] = FALSE]
      /\ UNCHANGED <<vars, stdin_open, written, drained, delivered, cut, skipped>>
  BY DEF WriterCloses
<1>2. PipeTypes
  BY DEF CommInv, PipeInv
<1>3. writer_open' \in [Streams -> BOOLEAN]
  BY <1>1, <1>2 DEF PipeTypes
<1>4. \A j \in Streams : writer_open'[j] => writer_open[j]
  BY <1>1, <1>2 DEF PipeTypes
<1>. QED
  BY <1>1, <1>2, <1>3, <1>4, WaitsKeep DEF PipeTypes

\* `ss << stream->rdbuf()' takes a unit.
LEMMA ReadSomeKeeps ==
    ASSUME CommInv, NEW i \in Streams, read_some(i)
    PROVE  CommInv'
<1>1. /\ work[i] = "running" /\ drained[i] < written[i]
      /\ drained' = [drained EXCEPT ![i] = @ + 1]
      /\ UNCHANGED <<vars, stdin_open, writer_open, written, delivered, cut, skipped>>
  BY DEF read_some
<1>2. PipeTypes /\ Counts /\ ReadersSee /\ Capacity \in Nat
  BY PipeAssumption DEF CommInv, PipeInv
<1>3. PipeTypes'
  BY <1>1, <1>2 DEF PipeTypes
<1>4. \A j \in Streams :
        /\ written[j] \in Nat /\ drained[j] \in Nat /\ delivered[j] \in Nat
        /\ drained'[j] = IF j = i THEN drained[j] + 1 ELSE drained[j]
        /\ written'[j] = written[j] /\ delivered'[j] = delivered[j]
  BY <1>1, <1>2 DEF PipeTypes
<1>5. Counts'
  BY <1>1, <1>2, <1>4 DEF Counts
<1>6. ReadersSee'
  BY <1>1, <1>2, <1>4 DEF ReadersSee, ReaderSees, vars, poolVars
<1>7. ServedStay
  BY <1>1 DEF ServedStay, Served
<1>. QED
  BY <1>1, <1>3, <1>5, <1>6, <1>7, AsideKeeps

\* The reader returns; the waits do not see it.
LEMMA ReadReturnsAlways ==
    ASSUME AlwaysInv, NEW i \in Streams, ReaderReturns(i)
    PROVE  AlwaysInv'
<1> USE DEF AlwaysInv, WellFormed, TypeOK
<1>1. /\ i \in Items /\ \A q : i # WaitWork(q)
  BY StreamParts
<1>2. /\ work[i] = "running" /\ work' = [work EXCEPT ![i] = "returned"]
      /\ UNCHANGED <<queue, stop_flag, childVars, handle, holderVars, work_code,
                     callVars>>
  BY DEF ReaderReturns, read_work_cb, read_failed, WorkerReturns
<1>3. /\ work' \in [Items -> WorkStates]
      /\ \A j \in Items : j # i => work'[j] = work[j]
      /\ \A j \in Items : work[j] = "null" => work'[j] = "null"
  BY <1>1, <1>2 DEF PoolTypeOK, WorkStates
<1>4. \A p \in Procs : work'[WaitWork(p)] = work[WaitWork(p)]
  BY <1>1, <1>3, WaitWorkIsItem
<1>5. WellFormed'
  BY <1>2, <1>3
  DEF PoolTypeOK, ChildTypeOK, HolderTypeOK, CallTypeOK, EndedHaveEndings,
      CallsHaveProcs, childVars, pidVars, holderVars, callVars
<1>6. CallsKeepHandles'
  BY <1>2, KeepsKept
<1>7. OnlyAfterEnd'
  BY <1>2, <1>4
  DEF OnlyAfterEnd, SeenAfterEnd, ToldAfterEnd, RightOrZero, childVars, pidVars,
      holderVars, callVars
<1>8. WorkJoinedBeforeFree'
  <2>1. \A p \in Procs, k \in Kinds :
          work[<<p, k>>] = "null" => work'[<<p, k>>] = "null"
    BY <1>3, ItemOf
  <2>2. \A c \in Callers : pc[c] \in {"join_out", "join_err"} => on[c] \in Procs
    BY DEF CallsHaveProcs
  <2>3. "wait" \in Kinds /\ "out" \in Kinds
    BY DEF Kinds
  <2>. QED
    BY <1>2, <2>1, <2>2, <2>3
    DEF WorkJoinedBeforeFree, HasWork, WaitWork, callVars
<1>. QED
  BY <1>5, <1>6, <1>7, <1>8

LEMMA ReadReturnsKeeps ==
    ASSUME CommInv, NEW i \in Streams, ReaderReturns(i)
    PROVE  CommInv'
<1> USE DEF CommInv, PipeInv
<1>1. AlwaysInv'
  BY ReadReturnsAlways
<1>2. /\ i \in Items
      /\ work[i] = "running" /\ work' = [work EXCEPT ![i] = "returned"]
      /\ work \in [Items -> WorkStates]
      /\ UNCHANGED <<handle, pc, op, on, stdin_open, writer_open, written,
                     drained, delivered, skipped>>
      /\ cut \subseteq cut' /\ cut' \subseteq Failing
      /\ i \in cut' \/ (drained[i] = written[i] /\ ~writer_open[i])
  BY StreamParts
  DEF ReaderReturns, read_work_cb, read_failed, WorkerReturns, callVars,
      pipeVars, AlwaysInv, WellFormed, TypeOK, PoolTypeOK, PipeTypes
<1>3. /\ \A j \in Items : j # i => work'[j] = work[j]
      /\ work'[i] = "returned"
      /\ \A j \in Streams : j \in Items
  BY <1>2, StreamParts
<1>4. PipeTypes' /\ Counts' /\ CommCalls'
  BY <1>2 DEF PipeTypes, Counts, CommCalls
<1>5. ReadersSee'
  BY <1>2, <1>3 DEF ReadersSee, ReaderSees
<1>6. CallsServed'
  <2> SUFFICES ASSUME NEW c \in Callers, op[c] = "communicate",
                      NEW k \in {"out", "err"},
                      <<on[c], k>> \in Piped, <<on[c], k>> \notin skipped[c]
               PROVE  \/ Served(<<on[c], k>>)'
                      \/ work'[<<on[c], k>>] # "null" /\ pc[c] \in Before[k]
    BY <1>2 DEF CallsServed, CallServed, Served
  <2>1. \/ Served(<<on[c], k>>)
        \/ work[<<on[c], k>>] # "null" /\ pc[c] \in Before[k]
    BY DEF CallsServed, CallServed
  <2>2. <<on[c], k>> \in Streams
    BY PipeAssumption
  <2>. QED
    BY <1>2, <1>3, <2>1, <2>2 DEF Served
<1>. QED
  BY <1>1, <1>4, <1>5, <1>6

-----------------------------------------------------------------------------
(* communicate() itself.                                                   *)

\* What uv_queue_work accepted of what begin_communicate() wanted.
LEMMA SubmitAllIs ==
    ASSUME PoolTypeOK, NEW p \in Procs, NEW refused \in SUBSET Submissions(p),
           submit_all(p, refused)
    PROVE  /\ PoolTypeOK'
           /\ \A i \in Items :
                 \/ work'[i] = work[i]
                 \/ work[i] = "null" /\ work'[i] = "queued" /\ i[1] = p
           /\ \A i \in StreamsOf(p) : i \in refused \/ work'[i] # "null"
<1>1. /\ work' = [i \in Items |->
                    IF i \in Submissions(p) \ refused THEN "queued" ELSE work[i]]
      /\ queue' = queue \o InOrder(p, Submissions(p) \ refused)
      /\ UNCHANGED stop_flag
  BY DEF submit_all
<1>2. /\ WaitWork(p) \in Items /\ WaitWork(p)[1] = p
      /\ \A i \in StreamsOf(p) : i \in Items /\ i[1] = p
      /\ \A i \in StreamsOf(p) : i # WaitWork(p)
  <2>1. \A i \in StreamsOf(p) : i \in Streams /\ i[1] = p
    BY PipeAssumption DEF StreamsOf
  <2>. QED
    BY <2>1, WaitWorkIsItem, StreamParts DEF WaitWork
<1>3. \A i \in Submissions(p) : i \in Items /\ i[1] = p /\ work[i] = "null"
  BY <1>2 DEF Submissions
<1>4. InOrder(p, Submissions(p) \ refused) \in Seq(Items)
  BY ItemOf DEF InOrder, Kinds
<1>5. PoolTypeOK'
  <2>1. work' \in [Items -> WorkStates]
    BY <1>1 DEF PoolTypeOK, WorkStates
  <2>2. queue' \in Seq(Items)
    <3>1. \A s, t \in Seq(Items) : s \o t \in Seq(Items)
      OBVIOUS
    <3>2. queue \in Seq(Items)
      BY DEF PoolTypeOK
    <3>. HIDE DEF InOrder
    <3>. QED
      BY <1>1, <1>4, <3>1, <3>2
  <2>3. stop_flag' \in BOOLEAN
    BY <1>1 DEF PoolTypeOK
  <2>. QED
    BY <2>1, <2>2, <2>3 DEF PoolTypeOK
<1>6. \A i \in StreamsOf(p) : i \in refused \/ work'[i] # "null"
  <2> SUFFICES ASSUME NEW i \in StreamsOf(p), work[i] = "null", i \notin refused
               PROVE  work'[i] # "null"
    BY <1>1, <1>2
  <2>1. i \in Submissions(p)
    BY <1>2 DEF Submissions
  <2>. QED
    BY <1>1, <1>2, <2>1
<1>. QED
  BY <1>1, <1>3, <1>5, <1>6

\* What the two calls that submit have in common: they are made on a live handle
\* and leave what is known of children, caches and streams alone.
Submits(p) ==
    /\ handle[p] = "live"
    /\ \E refused \in SUBSET Submissions(p) : submit_all(p, refused)
    /\ UNCHANGED <<childVars, handle, holderVars, work_code>>

LEMMA SubmitItems ==
    ASSUME PoolTypeOK, NEW p \in Procs, Submits(p)
    PROVE  /\ PoolTypeOK'
           /\ ItemsStep
           /\ \A i \in Items : \/ work'[i] = work[i]
                               \/ work[i] = "null" /\ work'[i] = "queued"
<1>1. PICK refused \in SUBSET Submissions(p) : submit_all(p, refused)
  BY DEF Submits
<1>2. /\ PoolTypeOK'
      /\ \A i \in Items :
            \/ work'[i] = work[i]
            \/ work[i] = "null" /\ work'[i] = "queued" /\ i[1] = p
  BY <1>1, SubmitAllIs
<1>3. ASSUME NEW q \in Procs, NEW k \in Kinds
      PROVE  ItemStep(q, k)
  <2>1. <<q, k>> \in Items /\ <<q, k>>[1] = q
    BY ItemOf
  <2>2. \/ work'[<<q, k>>] = work[<<q, k>>]
        \/ work[<<q, k>>] = "null" /\ work'[<<q, k>>] = "queued" /\ q = p
    BY <1>2, <2>1
  <2>. QED
    BY <2>2 DEF ItemStep, Submits
<1>. QED
  BY <1>2, <1>3 DEF ItemsStep

\* The call starts on a live handle.
LEMMA CommunicateAlways ==
    ASSUME CommInv, NEW c \in Callers, NEW p \in Procs, communicate(c, p)
    PROVE  AlwaysInv'
<1> USE DEF CommInv, PipeInv, AlwaysInv, WellFormed, TypeOK
<1>1. Submits(p) /\ UNCHANGED <<childVars, handle, holderVars, work_code>>
  BY DEF communicate, Submits
<1>2. PICK w \in {"comm_poll", "comm_out"} :
        Enter(c, p, "communicate", "none", w)
  BY DEF communicate
<1>3. PoolTypeOK'
  BY <1>1, SubmitItems
<1>4. WellFormed'
  <2>1. CallsOK
    BY DEF CallsOK
  <2>2. w \in PCs /\ "none" \in Limits
    BY DEF PCs, Limits
  <2>3. CallsOK'
    BY <1>2, <2>1, <2>2, EnterTyped
  <2>. QED
    BY <1>1, <1>3, <2>3
    DEF CallsOK, ChildTypeOK, HolderTypeOK, EndedHaveEndings, childVars, pidVars,
        holderVars
<1>5. ItemsStep
  BY <1>1, SubmitItems
<1>6. /\ NobodyJoins /\ HandlesOnlyClose /\ EndingsStay
  BY <1>1, <1>2
  DEF NobodyJoins, HandlesOnlyClose, EndingsStay, EndedStayEnded, Enter,
      CallTypeOK, childVars, pidVars
<1>7. WorkJoinedBeforeFree'
  BY <1>5, <1>6, JoinedKept
<1>8. \A q \in Procs : SeenAfterEnd(q)'
  BY <1>1, <1>5, <1>6, SeenKept
<1>9. \A d \in Callers : ToldAfterEnd(d)'
  <2>1. w \in PCs \ {"timed_reap"} /\ w # "collect"
    BY DEF PCs
  <2>. QED
    BY <1>1, <1>2, <2>1, EnterTold
<1>10. CallsKeepHandles'
  BY <1>1, <1>2, ProcessAssumption DEF Enter, CallsKeepHandles, CallTypeOK
<1>. QED
  BY <1>4, <1>7, <1>8, <1>9, <1>10 DEF OnlyAfterEnd

LEMMA CommunicateKeeps ==
    ASSUME CommInv, NEW c \in Callers, NEW p \in Procs, communicate(c, p)
    PROVE  CommInv'
<1> USE DEF CommInv, PipeInv
<1>1. AlwaysInv'
  BY CommunicateAlways
<1>2. PICK refused \in SUBSET Submissions(p) :
        /\ submit_all(p, refused)
        /\ skipped' = [skipped EXCEPT ![c] = refused \cap Streams]
        /\ stdin_open' = [stdin_open EXCEPT ![p] = FALSE]
        /\ handle[p] = "live"
        /\ UNCHANGED <<handle, writer_open, written, drained, delivered, cut>>
  BY DEF communicate, close_stdin
<1>3. PICK w \in {"comm_poll", "comm_out"} :
        Enter(c, p, "communicate", "none", w)
  BY DEF communicate
<1>4. /\ pc'[c] = w /\ op'[c] = "communicate" /\ on'[c] = p
      /\ \A d \in Callers \ {c} : CallStays(d)
      /\ \A d \in Callers : op[d] = "communicate" => d # c
  BY <1>3
  DEF Enter, CallStays, AlwaysInv, WellFormed, TypeOK, CallTypeOK, CommCalls,
      CommPCs
<1>5. /\ \A i \in Items :
            \/ work'[i] = work[i]
            \/ work[i] = "null" /\ work'[i] = "queued"
      /\ skipped' \in [Callers -> SUBSET Streams]
      /\ \A d \in Callers \ {c} : skipped'[d] = skipped[d]
      /\ \A i \in StreamsOf(p) : i \in skipped'[c] \/ work'[i] # "null"
  <2>1. /\ \A i \in Items :
              \/ work'[i] = work[i]
              \/ work[i] = "null" /\ work'[i] = "queued"
        /\ \A i \in StreamsOf(p) : i \in refused \/ work'[i] # "null"
    BY <1>2, SubmitAllIs DEF AlwaysInv, WellFormed, TypeOK
  <2>2. /\ skipped' \in [Callers -> SUBSET Streams]
        /\ \A d \in Callers \ {c} : skipped'[d] = skipped[d]
        /\ skipped'[c] = refused \cap Streams
    BY <1>2 DEF PipeTypes
  <2>3. \A i \in StreamsOf(p) : i \in Streams
    BY PipeAssumption DEF StreamsOf
  <2>. QED
    BY <2>1, <2>2, <2>3
<1>6. PipeTypes' /\ Counts'
  BY <1>2, <1>5 DEF PipeTypes, Counts
<1>7. CommCalls'
  BY <1>2, <1>4 DEF CommCalls, CallStays, CommPCs
<1>8. ReadersSee'
  BY <1>2, <1>5, StreamParts DEF ReadersSee, ReaderSees
<1>9. ASSUME NEW d \in Callers
      PROVE  CallServed(d)'
  <2>1. CASE d = c
    <3>1. \A k \in {"out", "err"} : pc'[c] \in Before[k]
      BY <1>4 DEF Before, CommPCs
    <3>2. \A k \in {"out", "err"} :
            <<p, k>> \in Piped => <<p, k>> \in StreamsOf(p)
      BY DEF StreamsOf
    <3>. QED
      BY <1>4, <1>5, <2>1, <3>1, <3>2 DEF CallServed
  <2>2. CASE d # c
    <3> SUFFICES ASSUME op[d] = "communicate", NEW k \in {"out", "err"},
                        <<on[d], k>> \in Piped, <<on[d], k>> \notin skipped[d]
                 PROVE  \/ Served(<<on[d], k>>)'
                        \/ work'[<<on[d], k>>] # "null" /\ pc[d] \in Before[k]
      BY <1>4, <1>5, <2>2 DEF CallServed, CallStays, Served
    <3>1. \/ Served(<<on[d], k>>)
          \/ work[<<on[d], k>>] # "null" /\ pc[d] \in Before[k]
      BY DEF CallsServed, CallServed
    <3>2. <<on[d], k>> \in Items
      BY PipeAssumption, StreamParts
    <3>3. on'[d] = on[d]
      BY <1>4, <2>2 DEF CallStays
    <3>. QED
      BY <1>2, <1>5, <3>1, <3>2, <3>3 DEF Served
  <2>. QED
    BY <2>1, <2>2
<1>. QED
  BY <1>1, <1>6, <1>7, <1>8, <1>9 DEF CallsServed

\* begin_communicate() on its own: the same, but nobody is in a call for it.
LEMMA BeginAlways ==
    ASSUME CommInv, NEW c \in Callers, NEW p \in Procs, begin_communicate(c, p)
    PROVE  AlwaysInv'
<1> USE DEF CommInv, PipeInv, AlwaysInv, WellFormed, TypeOK
<1>1. /\ Submits(p)
      /\ UNCHANGED <<childVars, handle, holderVars, work_code, callVars>>
  BY DEF begin_communicate, Submits
<1>2. PoolTypeOK' /\ ItemsStep
  BY <1>1, SubmitItems
<1>3. WellFormed'
  BY <1>1, <1>2
  DEF CallTypeOK, CallsHaveProcs, ChildTypeOK, HolderTypeOK, EndedHaveEndings,
      childVars, pidVars, holderVars, callVars
<1>4. /\ NobodyJoins /\ HandlesOnlyClose /\ EndingsStay
  BY <1>1
  DEF NobodyJoins, HandlesOnlyClose, EndingsStay, EndedStayEnded, childVars,
      pidVars, callVars
<1>5. WorkJoinedBeforeFree'
  BY <1>2, <1>4, JoinedKept
<1>6. \A q \in Procs : SeenAfterEnd(q)'
  BY <1>1, <1>2, <1>4, SeenKept
<1>7. \A d \in Callers : ToldAfterEnd(d)'
  BY <1>1 DEF OnlyAfterEnd, ToldAfterEnd, childVars, pidVars, holderVars, callVars,
              RightOrZero
<1>8. CallsKeepHandles'
  BY <1>1 DEF CallsKeepHandles, callVars
<1>. QED
  BY <1>3, <1>5, <1>6, <1>7, <1>8 DEF OnlyAfterEnd

LEMMA BeginKeeps ==
    ASSUME CommInv, NEW c \in Callers, NEW p \in Procs, begin_communicate(c, p)
    PROVE  CommInv'
<1> USE DEF CommInv, PipeInv
<1>1. AlwaysInv'
  BY BeginAlways
<1>2. /\ Submits(p)
      /\ stdin_open' = [stdin_open EXCEPT ![p] = FALSE]
      /\ UNCHANGED <<handle, callVars>>
      /\ UNCHANGED <<writer_open, written, drained, delivered, cut, skipped>>
  BY DEF begin_communicate, Submits, close_stdin
<1>3. \A i \in Items : \/ work'[i] = work[i]
                       \/ work[i] = "null" /\ work'[i] = "queued"
  BY <1>2, SubmitItems DEF AlwaysInv, WellFormed, TypeOK
<1>4. PipeTypes' /\ Counts' /\ CommCalls'
  BY <1>2 DEF PipeTypes, Counts, CommCalls, callVars
<1>5. ReadersSee'
  BY <1>2, <1>3, StreamParts DEF ReadersSee, ReaderSees
<1>6. ASSUME NEW d \in Callers, op[d] = "communicate", NEW k \in {"out", "err"},
             <<on[d], k>> \in Piped, <<on[d], k>> \notin skipped[d]
      PROVE  \/ Served(<<on[d], k>>)'
             \/ work'[<<on[d], k>>] # "null" /\ pc[d] \in Before[k]
  <2>1. \/ Served(<<on[d], k>>)
        \/ work[<<on[d], k>>] # "null" /\ pc[d] \in Before[k]
    BY <1>6 DEF CallsServed, CallServed
  <2>2. <<on[d], k>> \in Items
    BY <1>6, PipeAssumption, StreamParts
  <2>. QED
    BY <1>2, <1>3, <2>1, <2>2 DEF Served, callVars
<1>7. CallsServed'
  BY <1>2, <1>6 DEF CallsServed, CallServed, Served, callVars
<1>. QED
  BY <1>1, <1>4, <1>5, <1>7

\* The steps of the call keep the waits' invariant: they only move along.
LEMMA CommStepAlways ==
    ASSUME CommInv, NEW c \in Callers, pc[c] \in CommPCs, MayRun(c),
           \/ \E w \in {"comm_out", "comm_err", "collect"} : Goto(c, w)
           \/ \E h \in {c, NoOne} : Pause(h),
           PoolTypeOK', ItemsStep,
           UNCHANGED <<childVars, handle, holderVars, work_code>>
    PROVE  AlwaysInv'
<1> USE DEF CommInv, PipeInv, AlwaysInv, WellFormed, TypeOK, CallTypeOK
<1>1. /\ op[c] = "communicate" /\ on[c] \in Procs /\ handle[on[c]] = "live"
  BY DEF CommCalls, CallsHaveProcs, CommPCs
<1>2. /\ \A d \in Callers \ {c} : pc'[d] = pc[d]
      /\ pc'[c] = pc[c] \/ pc'[c] \in {"comm_out", "comm_err", "collect"}
      /\ UNCHANGED <<op, on, limit, ret>>
      /\ pc' \in [Callers -> PCs] /\ cur' \in Callers \cup {NoOne}
  BY DEF Goto, Pause, PCs
<1>3. WellFormed'
  BY <1>1, <1>2
  DEF ChildTypeOK, HolderTypeOK, EndedHaveEndings, CallsHaveProcs, childVars,
      pidVars, holderVars
<1>4. NobodyJoins /\ HandlesOnlyClose /\ EndingsStay
  BY <1>2 DEF NobodyJoins, HandlesOnlyClose, EndingsStay, EndedStayEnded, CommPCs,
              childVars, pidVars
<1>5. WorkJoinedBeforeFree'
  BY <1>4, JoinedKept
<1>6. \A p \in Procs : SeenAfterEnd(p)'
  BY <1>4, SeenKept
<1>7. \A d \in Callers \ {c} : ToldAfterEnd(d)'
  BY <1>2, <1>4, ToldKept
<1>8. ToldAfterEnd(c)'
  <2>1. ToldAfterEnd(c)
    BY DEF OnlyAfterEnd
  <2>2. pc'[c] # "timed_reap"
    BY <1>2 DEF CommPCs
  <2>. QED
    BY <1>1, <1>2, <2>1, <2>2 DEF ToldAfterEnd, childVars, pidVars, RightOrZero
<1>9. CallsKeepHandles'
  <2>1. \A d \in Callers \ {c} :
          pc[d] \notin {"timed", "timed_reap", "join_wait", "join_out", "join_err"}
    BY OthersHoldNothing
  <2>. QED
    BY <1>1, <1>2, <2>1 DEF CallsKeepHandles, CommPCs
<1>. QED
  BY <1>3, <1>5, <1>6, <1>7, <1>8, <1>9 DEF OnlyAfterEnd

\* So they keep the invariant of the pipes if the readers stay, or go when
\* their streams are served.
LEMMA CommStepKeeps ==
    ASSUME CommInv, NEW c \in Callers, pc[c] \in CommPCs, MayRun(c),
           NEW w \in CommPCs \cup {"collect"},
           pc' = [pc EXCEPT ![c] = w],
           \/ w # "comm_poll" /\ Goto(c, w)
           \/ w = pc[c] /\ \E h \in {c, NoOne} : Pause(h),
           PoolTypeOK', ItemsStep, PipeTypes', Counts',
           UNCHANGED <<childVars, handle, holderVars, work_code, writer_open,
                       written, drained, cut, skipped>>,
           \A i \in Streams :
              handle[i[1]] = "live" =>
                 \/ ReaderMoves(i) /\ delivered'[i] = delivered[i]
                 \/ /\ work[i] = "done" /\ work'[i] = "null"
                    /\ delivered'[i] = drained[i],
           \A k \in {"out", "err"} :
              w \notin Before[k] => pc[c] \notin Before[k] \/ work'[<<on[c], k>>] = "null"
    PROVE  CommInv'
<1> USE DEF CommInv, PipeInv
<1>1. AlwaysInv'
  <2>1. CASE \E h \in {c, NoOne} : Pause(h)
    BY <2>1, CommStepAlways
  <2>2. CASE w \in {"comm_out", "comm_err", "collect"} /\ Goto(c, w)
    BY <2>2, CommStepAlways
  <2>. QED
    BY <2>1, <2>2 DEF CommPCs
<1>2. /\ \A d \in Callers \ {c} : pc'[d] = pc[d]
      /\ pc'[c] = w /\ UNCHANGED <<op, on>>
      /\ op[c] = "communicate" /\ handle[on[c]] = "live" /\ on[c] \in Procs
  BY DEF Goto, Pause, AlwaysInv, WellFormed, TypeOK, CallTypeOK, CommCalls,
         CallsHaveProcs, CommPCs
<1>3. CommCalls'
  BY <1>2 DEF CommCalls
<1>4. ReadersSee'
  <2> SUFFICES ASSUME NEW i \in Streams, handle[i[1]] = "live"
               PROVE  /\ work'[i] = "null" => delivered'[i] = drained[i]
                      /\ work'[i] \in {"returned", "done"} =>
                            i \in cut \/ (~writer_open[i] /\ drained[i] = written[i])
    BY DEF ReadersSee, ReaderSees
  <2>1. ReaderSees(i)
    BY DEF ReadersSee
  <2>. QED
    BY <2>1 DEF ReaderSees, ReaderMoves
<1>5. ASSUME NEW d \in Callers, op[d] = "communicate", NEW k \in {"out", "err"},
             <<on[d], k>> \in Piped, <<on[d], k>> \notin skipped[d]
      PROVE  \/ Served(<<on[d], k>>)'
             \/ work'[<<on[d], k>>] # "null" /\ pc'[d] \in Before[k]
  <2> DEFINE i == <<on[d], k>>
  <2>1. Served(i) \/ (work[i] # "null" /\ pc[d] \in Before[k])
    BY <1>5 DEF CallsServed, CallServed
  <2>2. i \in Streams /\ i[1] = on[d]
    BY <1>5, PipeAssumption
  <2>3. handle[on[d]] = "live"
    BY <1>5 DEF CommCalls, AlwaysInv, CallsKeepHandles
  <2>4. ReaderSees(i)
    BY <2>2 DEF ReadersSee
  <2>5. \/ ReaderMoves(i) /\ delivered'[i] = delivered[i]
        \/ /\ work[i] = "done" /\ work'[i] = "null"
           /\ delivered'[i] = drained[i]
    BY <2>2, <2>3
  <2>6. /\ delivered[i] \in Nat /\ drained[i] \in Nat /\ written[i] \in Nat
        /\ delivered[i] <= drained[i] /\ drained[i] <= written[i]
    BY <2>2 DEF PipeTypes, Counts
  <2>7. CASE Served(i)
    <3>1. i \in cut \/ delivered'[i] = written[i]
      BY <2>2, <2>3, <2>5, <2>6, <2>7 DEF Served
    <3>. QED
      BY <1>2, <2>7, <3>1 DEF Served
  <2>8. CASE work[i] # "null" /\ pc[d] \in Before[k]
    <3>1. CASE work'[i] = "null"
      <4>1. work[i] = "done" /\ delivered'[i] = drained[i]
        BY <2>5, <2>8, <3>1 DEF ReaderMoves
      <4>2. i \in cut \/ (~writer_open[i] /\ drained[i] = written[i])
        BY <2>2, <2>3, <2>4, <4>1 DEF ReaderSees
      <4>. QED
        BY <1>2, <4>1, <4>2 DEF Served
    <3>2. CASE work'[i] # "null"
      BY <1>2, <2>8, <3>2
    <3>. QED
      BY <3>1, <3>2
  <2>. QED
    BY <2>1, <2>7, <2>8
<1>6. CallsServed'
  <2> SUFFICES ASSUME NEW d \in Callers
               PROVE  CallServed(d)'
    BY DEF CallsServed
  <2>1. UNCHANGED <<op, on, skipped>>
    BY <1>2
  <2>. QED
    BY <1>5, <2>1 DEF CallServed, Served
<1>. QED
  BY <1>1, <1>3, <1>4, <1>6

\* poll_communicate() drives the loop; readers that are through are seen.
LEMMA PollKeeps ==
    ASSUME CommInv, NEW c \in Callers, poll_communicate(c)
    PROVE  CommInv'
<1> USE DEF CommInv, PipeInv, AlwaysInv, WellFormed, TypeOK, CallTypeOK
<1>1. /\ pc[c] = "comm_poll" /\ MayRun(c) /\ work' = Driven
      /\ UNCHANGED <<childVars, handle, holderVars, work_code, pipeVars>>
  BY DEF poll_communicate, uv_run_nowait
<1>2. PoolTypeOK' /\ ItemsStep
  <2>1. on[c] \in Procs
    BY <1>1 DEF CallsHaveProcs
  <2>2. <<on[c], "out">> \in Items
    BY <2>1, StreamIsItem
  <2>3. PoolTypeOK'
    BY <2>2, PoolTyped DEF poll_communicate
  <2>. QED
    BY <1>1, <2>3, DrivenItems
<1>3. PipeTypes' /\ Counts'
  BY <1>1 DEF PipeTypes, Counts, pipeVars
<1>4. \A i \in Streams : ReaderMoves(i) /\ delivered'[i] = delivered[i]
  BY <1>1, DrivenMoves DEF ReaderMoves, pipeVars
<1>5. on[c] \in Procs
  BY <1>1 DEF CallsHaveProcs
<1>6. CASE Goto(c, "comm_out")
  <2>1. pc' = [pc EXCEPT ![c] = "comm_out"]
    BY <1>6 DEF Goto
  <2>2. \A k \in {"out", "err"} : "comm_out" \in Before[k]
    BY DEF Before, CommPCs
  <2>. QED
    BY <1>1, <1>2, <1>3, <1>4, <1>6, <2>1, <2>2, CommStepKeeps
    DEF pipeVars, CommPCs
<1>7. CASE Pause(NoOne)
  <2>1. pc' = [pc EXCEPT ![c] = "comm_poll"]
    BY <1>1, <1>7 DEF Pause
  <2>2. \A k \in {"out", "err"} : "comm_poll" \in Before[k]
    BY DEF Before, CommPCs
  <2>. QED
    BY <1>1, <1>2, <1>3, <1>4, <1>7, <2>1, <2>2, CommStepKeeps
    DEF pipeVars, CommPCs
<1>. QED
  BY <1>6, <1>7 DEF poll_communicate

\* end_communicate() hands out what the reader of a stream took.
LEMMA EndKeeps ==
    ASSUME CommInv, NEW c \in Callers, NEW k \in {"out", "err"},
           end_communicate(c, k)
    PROVE  CommInv'
<1> USE DEF CommInv, PipeInv, AlwaysInv, WellFormed, TypeOK, CallTypeOK
<1> DEFINE i == <<on[c], k>>
<1>1. /\ pc[c] = EndAt[k] /\ MayRun(c) /\ pc[c] \in CommPCs
      /\ UNCHANGED <<childVars, handle, holderVars, work_code, stdin_open,
                     writer_open, written, drained, cut, skipped>>
  BY DEF end_communicate, EndAt, CommPCs
<1>2. on[c] \in Procs /\ handle[on[c]] = "live" /\ i \in Streams /\ i \in Items
  BY <1>1, StreamIsItem DEF CommCalls, CallsHaveProcs, CommPCs
<1>3. /\ After[k] \in CommPCs \cup {"collect"} /\ After[k] # "comm_poll"
      /\ \A l \in {"out", "err"} :
            After[k] \notin Before[l] => pc[c] \notin Before[l] \/ l = k
  BY <1>1 DEF After, EndAt, Before, CommPCs
<1>4. CASE work[i] = "null" /\ Goto(c, After[k]) /\ UNCHANGED <<poolVars, delivered>>
  <2>1. /\ PoolTypeOK' /\ ItemsStep /\ PipeTypes' /\ Counts' /\ work' = work
        /\ \A j \in Streams : ReaderMoves(j) /\ delivered'[j] = delivered[j]
    BY <1>1, <1>4, PoolUnchangedItems
    DEF poolVars, PoolTypeOK, PipeTypes, Counts, ReaderMoves
  <2>2. pc' = [pc EXCEPT ![c] = After[k]]
    BY <1>4 DEF Goto
  <2>3. \A l \in {"out", "err"} :
          After[k] \notin Before[l] =>
             pc[c] \notin Before[l] \/ work'[<<on[c], l>>] = "null"
    BY <1>3, <1>4, <2>1
  <2>. QED
    BY <1>1, <1>3, <1>4, <2>1, <2>2, <2>3, CommStepKeeps
<1>5. CASE uv_run_nowait /\ Pause(c) /\ UNCHANGED delivered
  <2>1. work' = Driven
    BY <1>5 DEF uv_run_nowait
  <2>2. PoolTypeOK' /\ ItemsStep
    <3>1. PoolTypeOK'
      BY <1>2, <1>5, PoolTyped
    <3>. QED
      BY <2>1, <3>1, DrivenItems
  <2>3. PipeTypes' /\ Counts'
    BY <1>1, <1>5 DEF PipeTypes, Counts
  <2>4. \A j \in Streams : ReaderMoves(j) /\ delivered'[j] = delivered[j]
    BY <1>5, <2>1, DrivenMoves DEF ReaderMoves
  <2>5. pc' = [pc EXCEPT ![c] = pc[c]]
    BY <1>5 DEF Pause
  <2>. QED
    BY <1>1, <1>5, <2>2, <2>3, <2>4, <2>5, CommStepKeeps
<1>6. CASE /\ work[i] = "done"
           /\ delivered' = [delivered EXCEPT ![i] = drained[i]]
           /\ work' = [work EXCEPT ![i] = "null"]
           /\ Goto(c, After[k])
           /\ UNCHANGED <<queue, stop_flag>>
  <2>1. PoolTypeOK'
    BY <1>6 DEF PoolTypeOK, WorkStates
  <2>2. ItemsStep
    BY <1>2, <1>6, ItemOf DEF PoolTypeOK, ItemsStep, ItemStep
  <2>3. PipeTypes' /\ Counts'
    <3>1. \A j \in Streams :
            /\ delivered[j] \in Nat /\ drained[j] \in Nat
            /\ delivered'[j] = IF j = i THEN drained[j] ELSE delivered[j]
      BY <1>6 DEF PipeTypes
    <3>2. delivered' \in [Streams -> Nat]
      BY <1>6, <3>1 DEF PipeTypes
    <3>. QED
      BY <1>1, <3>1, <3>2 DEF PipeTypes, Counts
  <2>4. \A j \in Streams :
           \/ ReaderMoves(j) /\ delivered'[j] = delivered[j]
           \/ /\ work[j] = "done" /\ work'[j] = "null"
              /\ delivered'[j] = drained[j]
    <3>1. work'[i] = "null" /\ delivered'[i] = drained[i]
      BY <1>2, <1>6 DEF PoolTypeOK, PipeTypes
    <3>2. ASSUME NEW j \in Streams, j # i
          PROVE  work'[j] = work[j] /\ delivered'[j] = delivered[j]
      BY <1>6, <3>2, StreamParts DEF PoolTypeOK, PipeTypes
    <3>. QED
      BY <1>6, <3>1, <3>2 DEF ReaderMoves
  <2>5. pc' = [pc EXCEPT ![c] = After[k]]
    BY <1>6 DEF Goto
  <2>6. \A l \in {"out", "err"} :
          After[k] \notin Before[l] =>
             pc[c] \notin Before[l] \/ work'[<<on[c], l>>] = "null"
    <3>1. work'[i] = "null"
      BY <1>2, <1>6 DEF PoolTypeOK
    <3>. QED
      BY <1>3, <3>1
  <2>. QED
    BY <1>1, <1>3, <1>6, <2>1, <2>2, <2>3, <2>4, <2>5, <2>6, CommStepKeeps
<1>. QED
  BY <1>4, <1>5, <1>6 DEF end_communicate

-----------------------------------------------------------------------------
(* The theorems.                                                           *)

\* The steps of ProcessWait, and the child's end.
LEMMA WaitStepsKeep ==
    ASSUME CommInv, [Next]_vars, UNCHANGED pipeVars
    PROVE  CommInv'
<1>1. PipeTypes
  BY DEF CommInv, PipeInv
<1>. QED
  BY <1>1, WaitsKeep DEF pipeVars, PipeTypes

LEMMA ChildEndsKeeps ==
    ASSUME CommInv, NEW p \in Procs, ChildEnds(p)
    PROVE  CommInv'
<1>1. /\ [Next]_vars
      /\ writer_open' = [i \in Streams |->
                           writer_open[i] /\ (i[1] = p => p \in Holders)]
      /\ UNCHANGED <<stdin_open, written, drained, delivered, cut, skipped>>
  BY DEF ChildEnds, Next
<1>2. PipeTypes
  BY DEF CommInv, PipeInv
<1>3. writer_open' \in [Streams -> BOOLEAN]
  BY <1>1, <1>2 DEF PipeTypes
<1>4. \A i \in Streams : writer_open'[i] => writer_open[i]
  BY <1>1
<1>. QED
  BY <1>1, <1>2, <1>3, <1>4, WaitsKeep DEF PipeTypes

LEMMA DestructorKeeps ==
    ASSUME CommInv, NEW c \in Callers, NEW k \in Kinds, DestructorStep(c, k)
    PROVE  CommInv'
<1>1. /\ [Next]_vars
      /\ stdin_open' = [p \in Procs |-> stdin_open[p] /\ handle'[p] # "destroyed"]
      /\ UNCHANGED <<writer_open, written, drained, delivered, cut, skipped>>
  BY DEF DestructorStep, Next, Step
<1>2. PipeTypes
  BY DEF CommInv, PipeInv
<1>3. stdin_open' \in [Procs -> BOOLEAN]
  BY <1>1, <1>2 DEF PipeTypes
<1>. QED
  BY <1>1, <1>2, <1>3, WaitsKeep DEF PipeTypes

\* At the end of a communicate() its refused readers are forgotten.
LEMMA CollectKeeps ==
    ASSUME CommInv, NEW c \in Callers, CollectStep(c)
    PROVE  CommInv'
<1>1. /\ [Next]_vars
      /\ skipped' = [skipped EXCEPT ![c] = IF op'[c] = "none" THEN {} ELSE @]
      /\ UNCHANGED <<stdin_open, writer_open, written, drained, delivered, cut>>
  BY DEF CollectStep, Next, Step
<1>2. PipeTypes
  BY DEF CommInv, PipeInv
<1>3. /\ skipped' \in [Callers -> SUBSET Streams]
      /\ \A d \in Callers : op'[d] = "communicate" => skipped'[d] = skipped[d]
  BY <1>1, <1>2 DEF PipeTypes
<1>. QED
  BY <1>1, <1>2, <1>3, WaitsKeep DEF PipeTypes

\* Every step keeps the invariant.
LEMMA CommStepHolds == CommInv /\ [CommNext]_commVars => CommInv'
<1> SUFFICES ASSUME CommInv, [CommNext]_commVars
             PROVE  CommInv'
  OBVIOUS
<1>1. ASSUME NEW p \in Procs, ChildEnds(p)
      PROVE  CommInv'
  BY <1>1, ChildEndsKeeps
<1>2. ASSUME NEW i \in Streams, ChildWrites(i) \/ WriterCloses(i)
      PROVE  CommInv'
  BY <1>2, ChildWritesKeeps, WriterClosesKeeps
<1>3. ASSUME NEW i \in Items, Work(i)
      PROVE  CommInv'
  <2>1. CASE i \in Streams /\ (read_some(i) \/ read_work_cb(i))
    BY <2>1, ReadSomeKeeps, ReadReturnsKeeps DEF ReaderReturns
  <2>2. CASE Take(i) /\ UNCHANGED pipeVars
    BY <2>2, WaitStepsKeep DEF Next
  <2>3. CASE /\ \E p \in Procs : wait_work_cb(p)
             /\ UNCHANGED pipeVars
    BY <2>3, WaitStepsKeep DEF Next
  <2>. QED
    BY <1>3, <2>1, <2>2, <2>3 DEF Work
<1>4. ASSUME NEW c \in Callers, NEW p \in Procs, communicate(c, p)
      PROVE  CommInv'
  BY <1>4, CommunicateKeeps
<1>5. ASSUME NEW c \in Callers, NEW p \in Procs, WaitCall(c, p)
      PROVE  CommInv'
  BY <1>5, WaitStepsKeep DEF WaitCall, Next, Call
<1>6. ASSUME NEW c \in Callers, CommStep(c)
      PROVE  CommInv'
  <2>1. CASE poll_communicate(c)
    BY <2>1, PollKeeps
  <2>2. CASE \E k \in {"out", "err"} : end_communicate(c, k)
    BY <2>2, EndKeeps
  <2>3. CASE Poll(c) /\ UNCHANGED pipeVars
    BY <2>3, WaitStepsKeep DEF Next, Step
  <2>4. CASE CollectStep(c)
    BY <2>4, CollectKeeps
  <2>5. CASE \E k \in Kinds : DestructorStep(c, k)
    BY <2>5, DestructorKeeps
  <2>. QED
    BY <1>6, <2>1, <2>2, <2>3, <2>4, <2>5 DEF CommStep
<1>7. CASE async_poll /\ UNCHANGED pipeVars
  BY <1>7, WaitStepsKeep DEF Next
<1>8. CASE UNCHANGED commVars
  BY <1>8, WaitStepsKeep DEF commVars, pipeVars
<1>9. ASSUME NEW i \in Streams, read_failed(i)
      PROVE  CommInv'
  BY <1>9, ReadReturnsKeeps DEF ReaderReturns
<1>10. ASSUME NEW c \in Callers, NEW p \in Procs, begin_communicate(c, p)
       PROVE  CommInv'
  BY <1>10, BeginKeeps
<1>. QED
  BY <1>1, <1>2, <1>3, <1>4, <1>5, <1>6, <1>7, <1>8, <1>9, <1>10 DEF CommNext

LEMMA CommInitHolds == CommInit => CommInv
<1> SUFFICES ASSUME CommInit
             PROVE  CommInv
  OBVIOUS
<1>1. AlwaysInv
  BY AlwaysInit DEF CommInit
<1>2. PipeTypes
  BY DEF CommInit, PipeTypes
<1>3. Counts
  BY PipeAssumption DEF CommInit, Counts
<1>4. CommCalls
  BY DEF CommInit, Init, CommCalls, CommPCs
<1>5. \A i \in Streams : work[i] = "null" /\ delivered[i] = drained[i]
  BY StreamParts DEF CommInit, Init, PoolInit
<1>6. ReadersSee
  BY <1>5 DEF ReadersSee, ReaderSees
<1>7. CallsServed
  BY DEF CommInit, Init, CallsServed, CallServed
<1>. QED
  BY <1>1, <1>2, <1>3, <1>4, <1>6, <1>7 DEF CommInv, PipeInv

LEMMA CommInvHolds == CommSpec => []CommInv
<1>. QED
  BY CommInitHolds, CommStepHolds, PTL DEF CommSpec

\* The counters stay in range: a reader takes no unit that was not written, a
\* pipe holds no more than its capacity, and no unit is handed out that no
\* reader took, for any number of callers, processes and pool threads.
THEOREM CountersStayInRange == CommSpec => []CommTypeOK
<1>1. CommInv => CommTypeOK
  <2> SUFFICES ASSUME CommInv
               PROVE  CommTypeOK
    OBVIOUS
  <2>1. /\ PipeTypes /\ Counts /\ Capacity \in Nat /\ MaxOutput \in Nat
    BY PipeAssumption DEF CommInv, PipeInv
  <2>. QED
    BY <2>1 DEF PipeTypes, Counts, CommTypeOK
<1>. QED
  BY <1>1, CommInvHolds, PTL

\* What end_communicate() hands out is complete: past its readers, every unit
\* of a captured stream was delivered and no more can come, whoever collected
\* it, unless the pool refused the reader or a read failed and underflow() took
\* that for the end.  Of such a stream nothing that was taken is lost: what was
\* drained is handed out or with another caller's reader.
THEOREM OutputIsComplete == CommSpec => []OutputComplete
<1>1. CommInv => OutputComplete
  <2> SUFFICES ASSUME CommInv, NEW c \in Callers, op[c] = "communicate",
                      pc[c] = "collect", NEW i \in StreamsOf(on[c])
               PROVE  IF i \notin skipped[c] \cup cut
                      THEN ~writer_open[i] /\ delivered[i] = written[i]
                      ELSE work[i] # "null" \/ delivered[i] = drained[i]
    BY DEF OutputComplete
  <2>1. PICK k \in {"out", "err"} : i = <<on[c], k>> /\ i \in Piped
    BY DEF StreamsOf
  <2>2. i \in Streams /\ i[1] = on[c]
    BY <2>1, PipeAssumption
  <2>3. handle[on[c]] = "live"
    BY DEF CommInv, AlwaysInv, CallsKeepHandles
  <2>4. pc[c] \notin Before[k]
    BY DEF Before, CommPCs
  <2>5. CASE i \notin skipped[c] \cup cut
    BY <2>1, <2>4, <2>5 DEF CommInv, PipeInv, CallsServed, CallServed, Served
  <2>6. CASE i \in skipped[c] \cup cut
    BY <2>2, <2>3, <2>6 DEF CommInv, PipeInv, ReadersSee, ReaderSees
  <2>. QED
    BY <2>5, <2>6
<1>. QED
  BY <1>1, CommInvHolds, PTL

\* The destructor joins the readers, too, before the streams they read from
\* are freed.
THEOREM DestructorJoinsItsReaders == CommSpec => []WorkJoinedBeforeFree
<1>1. CommInv => WorkJoinedBeforeFree
  BY DEF CommInv, AlwaysInv
<1>. QED
  BY <1>1, CommInvHolds, PTL

-----------------------------------------------------------------------------
(* Faithful exit codes: the readers and the call leave the status to the   *)
(* one who owns it.                                                        *)

\* The wait work of a process only becomes done.
WaitWorksMove ==
    \A p \in Procs : LET i == WaitWork(p) IN
        work'[i] = work[i] \/ (work[i] = "returned" /\ work'[i] = "done")

LEMMA OwnersStay ==
    ASSUME StatusHasOneOwner, WaitWorksMove,
           UNCHANGED <<childVars, handle, holderVars, work_code>>
    PROVE  StatusHasOneOwner'
BY DEF StatusHasOneOwner, OneOwner, HasWork, WaitWorksMove, childVars, holderVars

\* The reader's return.
LEMMA ReadReturnsSafe ==
    ASSUME CommInv, Safe, NEW i \in Streams, ReaderReturns(i)
    PROVE  Safe'
<1>1. /\ work' = [work EXCEPT ![i] = "returned"] /\ work \in [Items -> WorkStates]
      /\ UNCHANGED <<childVars, handle, holderVars, work_code, callVars>>
  BY DEF ReaderReturns, read_work_cb, read_failed, WorkerReturns, CommInv,
         AlwaysInv, WellFormed, TypeOK, PoolTypeOK
<1>2. WaitWorksMove
  BY <1>1, StreamParts, WaitWorkIsItem DEF WaitWorksMove
<1>3. CallsOwnHandles' /\ AnswersStayTrue'
  BY <1>1 DEF Safe, CallsOwnHandles, AnswersStayTrue, callVars, childVars
<1>. QED
  BY <1>1, <1>2, <1>3, OwnersStay DEF Safe

\* The start of the call: a wait is submitted only for a status nobody took.
LEMMA SubmitOwners ==
    ASSUME CommInv, Safe, NEW p \in Procs, Submits(p)
    PROVE  StatusHasOneOwner'
<1> USE DEF CommInv, PipeInv, AlwaysInv, WellFormed, TypeOK, CallTypeOK
<1>1. /\ \E refused \in SUBSET Submissions(p) : submit_all(p, refused)
      /\ UNCHANGED <<childVars, handle, holderVars, work_code>>
  BY DEF Submits
<1>2. \A q \in Procs :
        LET i == WaitWork(q) IN
        \/ work'[i] = work[i]
        \/ work[i] = "null" /\ work'[i] = "queued" /\ q = p /\ exit_code[q] = NoCode
  <2> SUFFICES ASSUME NEW q \in Procs
               PROVE  LET i == WaitWork(q) IN
                      \/ work'[i] = work[i]
                      \/ /\ work[i] = "null" /\ work'[i] = "queued"
                         /\ q = p /\ exit_code[q] = NoCode
    OBVIOUS
  <2>1. PICK refused : work' = [i \in Items |->
                         IF i \in Submissions(p) \ refused THEN "queued" ELSE work[i]]
    BY <1>1 DEF submit_all
  <2>2. ASSUME WaitWork(q) \in Submissions(p)
        PROVE  q = p /\ work[WaitWork(q)] = "null" /\ exit_code[q] = NoCode
    <3>1. WaitWork(q) \notin StreamsOf(p)
      BY StreamParts, PipeAssumption DEF StreamsOf
    <3>. QED
      BY <2>2, <3>1, WaitWorkInjective DEF Submissions
  <2>. QED
    BY <2>1, <2>2, WaitWorkIsItem
<1>. SUFFICES ASSUME NEW q \in Procs
              PROVE  OneOwner(q)'
  BY DEF StatusHasOneOwner
<1>3. OneOwner(q)
  BY DEF Safe, StatusHasOneOwner
<1>4. CASE work'[WaitWork(q)] = work[WaitWork(q)]
  BY <1>1, <1>3, <1>4 DEF OneOwner, HasWork, childVars, holderVars
<1>5. CASE /\ work[WaitWork(q)] = "null" /\ work'[WaitWork(q)] = "queued"
           /\ q = p /\ exit_code[q] = NoCode
  <2>1. child[q] # "reaped"
    BY <1>1, <1>3, <1>5 DEF OneOwner, Submits
  <2>. QED
    BY <1>1, <1>3, <1>5, <2>1 DEF OneOwner, HasWork, childVars, holderVars, Submits
<1>. QED
  BY <1>2, <1>4, <1>5

LEMMA CommunicateSafe ==
    ASSUME CommInv, Safe, NEW c \in Callers, NEW p \in Procs, communicate(c, p)
    PROVE  Safe'
<1> USE DEF CommInv, PipeInv, AlwaysInv, WellFormed, TypeOK, CallTypeOK
<1>1. /\ Submits(p) /\ handle[p] = "live"
      /\ UNCHANGED <<childVars, handle, holderVars, work_code>>
  BY DEF communicate, Submits
<1>2. PICK w \in {"comm_poll", "comm_out"} :
        Enter(c, p, "communicate", "none", w)
  BY DEF communicate
<1>3. CallsOwnHandles'
  BY <1>1, <1>2, ProcessAssumption DEF Enter, Safe, CallsOwnHandles
<1>4. AnswersStayTrue'
  BY <1>1, <1>2 DEF Enter, Safe, AnswersStayTrue, childVars, Nothing, Returned
<1>. QED
  BY <1>1, <1>3, <1>4, SubmitOwners DEF Safe

LEMMA BeginSafe ==
    ASSUME CommInv, Safe, NEW c \in Callers, NEW p \in Procs, begin_communicate(c, p)
    PROVE  Safe'
<1>1. /\ Submits(p)
      /\ UNCHANGED <<childVars, handle, holderVars, work_code, callVars>>
  BY DEF begin_communicate, Submits
<1>2. CallsOwnHandles' /\ AnswersStayTrue'
  BY <1>1 DEF Safe, CallsOwnHandles, AnswersStayTrue, callVars, childVars
<1>. QED
  BY <1>1, <1>2, SubmitOwners DEF Safe

\* The steps of the call.
LEMMA CommStepSafe ==
    ASSUME CommInv, Safe, NEW c \in Callers,
           poll_communicate(c) \/ \E k \in {"out", "err"} : end_communicate(c, k)
    PROVE  Safe'
<1> USE DEF CommInv, PipeInv, AlwaysInv, WellFormed, TypeOK, CallTypeOK
<1>1. /\ pc[c] \in CommPCs /\ MayRun(c)
      /\ UNCHANGED <<childVars, handle, holderVars, work_code>>
      /\ \/ \E w \in {"comm_out", "comm_err", "collect"} : Goto(c, w)
         \/ \E h \in {c, NoOne} : Pause(h)
  BY DEF poll_communicate, end_communicate, EndAt, After, CommPCs
<1>2. /\ \A d \in Callers \ {c} : pc'[d] = pc[d]
      /\ pc'[c] \in CommPCs \cup {"collect"}
      /\ UNCHANGED <<op, on, ret>>
  BY <1>1 DEF Goto, Pause, CommPCs
<1>3. op[c] = "communicate" /\ on[c] \in Procs /\ handle[on[c]] = "live"
  BY <1>1 DEF CommCalls, CallsHaveProcs, CommPCs
<1>4. CallsOwnHandles'
  <2>1. \A d \in Callers \ {c} : pc[d] \notin {"join_wait", "join_out", "join_err"}
    BY <1>1, OthersHoldNothing
  <2>. QED
    BY <1>1, <1>2, <1>3, <2>1 DEF Safe, CallsOwnHandles, CommPCs
<1>5. AnswersStayTrue'
  BY <1>1, <1>2, <1>3 DEF Safe, AnswersStayTrue, childVars
<1>6. \/ work' = Driven \/ UNCHANGED work
      \/ \E i \in Streams : work' = [work EXCEPT ![i] = "null"]
  BY <1>3, StreamIsItem
  DEF poll_communicate, end_communicate, uv_run_nowait, poolVars
<1>7. WaitWorksMove
  <2>1. CASE work' = Driven
    BY <2>1, WaitWorkIsItem DEF PoolTypeOK, Driven, WaitWorksMove
  <2>2. CASE UNCHANGED work
    BY <2>2 DEF WaitWorksMove
  <2>3. ASSUME NEW i \in Streams, work' = [work EXCEPT ![i] = "null"]
        PROVE  WaitWorksMove
    BY <2>3, StreamParts, WaitWorkIsItem DEF PoolTypeOK, WaitWorksMove
  <2>. QED
    BY <1>6, <2>1, <2>2, <2>3
<1>. QED
  BY <1>1, <1>4, <1>5, <1>7, OwnersStay DEF Safe

\* The steps that are not those of ProcessWait.
LEMMA CommNextIs ==
    ASSUME [CommNext]_commVars
    PROVE  \/ [Next]_vars
           \/ \E i \in Streams : ReaderReturns(i)
           \/ \E c \in Callers, p \in Procs : communicate(c, p) \/ begin_communicate(c, p)
           \/ \E c \in Callers : \/ poll_communicate(c)
                                 \/ \E k \in {"out", "err"} : end_communicate(c, k)
<1>1. ASSUME NEW i \in Items, Work(i)
      PROVE  [Next]_vars \/ (i \in Streams /\ ReaderReturns(i))
  BY <1>1 DEF Work, Next, read_some, ReaderReturns
<1>2. ASSUME NEW c \in Callers, NEW p \in Procs, WaitCall(c, p)
      PROVE  [Next]_vars
  BY <1>2 DEF WaitCall, Next, Call
<1>3. ASSUME NEW c \in Callers, CommStep(c)
      PROVE  \/ [Next]_vars
             \/ poll_communicate(c)
             \/ \E k \in {"out", "err"} : end_communicate(c, k)
  BY <1>3 DEF CommStep, CollectStep, DestructorStep, Next, Step
<1>4. ASSUME \/ \E p \in Procs : ChildEnds(p)
             \/ \E i \in Streams : ChildWrites(i) \/ WriterCloses(i)
             \/ async_poll
             \/ UNCHANGED commVars
      PROVE  [Next]_vars
  BY <1>4 DEF ChildEnds, ChildWrites, WriterCloses, commVars, Next
<1>. QED
  BY <1>1, <1>2, <1>3, <1>4 DEF CommNext, ReaderReturns

\* No step takes a status from its owner.
LEMMA SafeKept ==
    ASSUME LibraryReapsAlone, CommInv, Safe, [CommNext]_commVars
    PROVE  Safe'
<1>1. ASSUME [Next]_vars
      PROVE  Safe'
  BY <1>1, SafeStep DEF IInv, Safe, CommInv, AlwaysInv
<1>. QED
  BY <1>1, CommNextIs, ReadReturnsSafe, CommunicateSafe, BeginSafe, CommStepSafe

\* It holds throughout.
LEMMA CommSafeHolds ==
    ASSUME LibraryReapsAlone
    PROVE  CommSpec => []Safe
<1>1. CommInit => Safe
  BY SafeInit DEF CommInit
<1>2. CommInv /\ Safe /\ [CommNext]_commVars => Safe'
  BY SafeKept
<1>. QED
  BY <1>1, <1>2, CommInvHolds, PTL DEF CommSpec

\* communicate() gives the right code, too, and so does every wait beside it,
\* while nobody outside the library reaps.
THEOREM CommunicateCodesAreFaithful ==
    ASSUME LibraryReapsAlone
    PROVE  CommSpec => []ExitCodeFaithful
<1>1. Safe => ExitCodeFaithful
  BY DEF Safe, ExitCodeFaithful, StatusHasOneOwner, OneOwner, AnswersStayTrue
<1>. QED
  BY <1>1, CommSafeHolds, PTL

\* Under the same condition the wait communicate() submits beside its readers,
\* and the one it makes when they are through, never name a PID that was given
\* up.
THEOREM CommunicateSparesReapedPids ==
    ASSUME LibraryReapsAlone
    PROVE  CommSpec => []NeverWaitsForReapedPid
<1>1. Safe => NeverWaitsForReapedPid
  BY DEF Safe, NeverWaitsForReapedPid, StatusHasOneOwner, OneOwner,
         CallsOwnHandles, HasWork
<1>. QED
  BY <1>1, CommSafeHolds, PTL

\* Under the same condition the status is not lost when communicate() and
\* waits share the work that reaps.
THEOREM CommunicateLosesNoStatus ==
    ASSUME LibraryReapsAlone
    PROVE  CommSpec => []StatusNeverLost
<1>1. Safe => StatusNeverLost
  BY DEF Safe, StatusNeverLost, StatusHasOneOwner, OneOwner
<1>. QED
  BY <1>1, CommSafeHolds, PTL

\* No handle notes an exit, caches a code or tells a caller so before the child
\* has ended, however early the child closes its streams.
THEOREM CommunicateSaysExitedWhenGone == CommSpec => []ExitedOnlyIfGone
<1>1. CommInv => ExitedOnlyIfGone
  BY DEF CommInv, AlwaysInv, ExitedOnlyIfGone, OnlyAfterEnd, SeenAfterEnd,
         ToldAfterEnd
<1>. QED
  BY <1>1, CommInvHolds, PTL

-----------------------------------------------------------------------------
(* A cached code never changes.                                            *)

\* communicate() leaves the cache alone until it collects.
LEMMA CommWritesOnce ==
    ASSUME CommInv, TimedHoldsThread, [CommNext]_commVars
    PROVE  TimedHoldsThread' /\ [NewCodesOnly]_vars
<1> USE DEF CommInv, PipeInv, AlwaysInv, WellFormed, TypeOK, CallTypeOK
<1>1. CASE [Next]_vars
  <2>1. TimedHoldsThread'
    BY <1>1, TimedStep
  <2>2. [NewCodesOnly]_vars
    BY <1>1, StepWritesOnce, OthersLeaveCodes DEF NewCodesOnly
  <2>. QED
    BY <2>1, <2>2
<1>2. ASSUME NEW i \in Streams, ReaderReturns(i)
      PROVE  TimedHoldsThread' /\ NewCodesOnly
  BY <1>2 DEF ReaderReturns, read_work_cb, read_failed, TimedHoldsThread,
              NewCodesOnly, holderVars, callVars
<1>3. ASSUME NEW c \in Callers, NEW p \in Procs, communicate(c, p)
      PROVE  TimedHoldsThread' /\ NewCodesOnly
  <2>1. /\ cur = NoOne /\ exit_code' = exit_code
        /\ pc'[c] \in {"comm_poll", "comm_out"}
        /\ \A d \in Callers \ {c} : pc'[d] = pc[d]
    BY <1>3 DEF communicate, Enter, holderVars
  <2>. QED
    BY <2>1, ProcessAssumption DEF TimedHoldsThread, NewCodesOnly
<1>4. ASSUME NEW c \in Callers,
             poll_communicate(c) \/ \E k \in {"out", "err"} : end_communicate(c, k)
      PROVE  TimedHoldsThread' /\ NewCodesOnly
  <2>1. /\ MayRun(c) /\ exit_code' = exit_code /\ pc[c] # "timed_reap"
        /\ \/ \E w \in {"comm_out", "comm_err", "collect"} : Goto(c, w)
           \/ \E h \in {c, NoOne} : Pause(h)
    BY <1>4 DEF poll_communicate, end_communicate, EndAt, After, holderVars
  <2>2. /\ \A d \in Callers \ {c} : pc'[d] = pc[d]
        /\ pc'[c] # "timed_reap"
    BY <2>1 DEF Goto, Pause
  <2>3. \A d \in Callers \ {c} : pc[d] # "timed_reap"
    BY <2>1, OthersHoldNothing
  <2>. QED
    BY <2>1, <2>2, <2>3 DEF TimedHoldsThread, NewCodesOnly
<1>5. ASSUME NEW c \in Callers, NEW p \in Procs, begin_communicate(c, p)
      PROVE  TimedHoldsThread' /\ NewCodesOnly
  BY <1>5 DEF begin_communicate, TimedHoldsThread, NewCodesOnly, holderVars, callVars
<1>. QED
  BY <1>1, <1>2, <1>3, <1>4, <1>5, CommNextIs

\* The code cached for a process is never overwritten, whoever communicates
\* with it and collects it.
THEOREM CommunicateNeverChangesCodes == CommSpec => CodeNeverChanges
<1>1. CommInit => TimedHoldsThread
  BY DEF CommInit, Init, TimedHoldsThread
<1>2. CommInv /\ TimedHoldsThread /\ [CommNext]_commVars =>
        TimedHoldsThread' /\ [NewCodesOnly]_vars
  BY CommWritesOnce
<1>3. CodeNeverChanges <=> [][NewCodesOnly]_vars
  BY DEF CodeNeverChanges, NewCodesOnly
<1>. QED
  BY <1>1, <1>2, <1>3, CommInvHolds, PTL DEF CommSpec

-----------------------------------------------------------------------------
(* The promise, kept by communicate().                                     *)

\* The call asks for the code.
LEMMA CommunicateMaps ==
    ASSUME CommInv, OpsMatch, NEW c \in Callers, NEW p \in Procs, communicate(c, p)
    PROVE  OpsMatch' /\ Promise!Ask(c, p)
<1> USE DEF CommInv, AlwaysInv, WellFormed, TypeOK
<1>1. PICK w \in {"comm_poll", "comm_out"} :
        Enter(c, p, "communicate", "none", w)
  BY DEF communicate
<1>2. /\ handle[p] = "live"
      /\ UNCHANGED <<childVars, handle, holderVars>>
  BY DEF communicate
<1>3. OpsMatch'
  BY <1>1 DEF Enter, OpsMatch, CallTypeOK
<1>4. Promise!Begin(c, p, "communicate", "none")
  BY <1>1, <1>2, EnterMaps
<1>5. Open[p] /\ UNCHANGED Open
  BY <1>2, OpenSame DEF Open
<1>. QED
  BY <1>3, <1>4, <1>5 DEF Promise!Ask, Promise!Waits

\* What it does before it collects its callers do not see.
LEMMA ReadersUnseen ==
    ASSUME CommInv, OpsMatch,
           \/ \E i \in Streams : ReaderReturns(i)
           \/ \E c \in Callers, p \in Procs : begin_communicate(c, p)
           \/ \E c \in Callers : \/ poll_communicate(c)
                                 \/ \E k \in {"out", "err"} : end_communicate(c, k)
    PROVE  OpsMatch' /\ Unseen
<1> USE DEF CommInv, PipeInv, AlwaysInv, WellFormed, TypeOK, CallTypeOK
<1>1. ASSUME UNCHANGED <<childVars, handle, holderVars, op, on, limit, ret>>
      PROVE  Unseen
  BY <1>1, EndedSame, KnownSame, OpenSame DEF Unseen, childVars
<1>2. ASSUME NEW i \in Streams, ReaderReturns(i)
      PROVE  OpsMatch' /\ Unseen
  BY <1>1, <1>2 DEF ReaderReturns, read_work_cb, read_failed, OpsMatch, callVars
<1>3. ASSUME NEW c \in Callers,
             poll_communicate(c) \/ \E k \in {"out", "err"} : end_communicate(c, k)
      PROVE  OpsMatch' /\ Unseen
  <2>1. /\ pc[c] \in CommPCs
        /\ UNCHANGED <<childVars, handle, holderVars, op, on, limit, ret>>
        /\ \/ \E w \in {"comm_out", "comm_err", "collect"} : pc' = [pc EXCEPT ![c] = w]
           \/ UNCHANGED pc
    BY <1>3 DEF poll_communicate, end_communicate, EndAt, After, CommPCs, Goto, Pause
  <2>2. op[c] = "communicate"
    BY <2>1 DEF CommCalls
  <2>3. OpsMatch'
    BY <2>1, <2>2 DEF OpsMatch
  <2>. QED
    BY <1>1, <2>1, <2>3
<1>4. ASSUME NEW c \in Callers, NEW p \in Procs, begin_communicate(c, p)
      PROVE  OpsMatch' /\ Unseen
  BY <1>1, <1>4 DEF begin_communicate, OpsMatch, callVars
<1>. QED
  BY <1>2, <1>3, <1>4

\* Seen from its callers communicate() is a wait: it is answered with the code
\* the child ended with, nobody is told that a child runs after it returned,
\* and readers, pipes and what the child does to them do not show, while only
\* the library reaps.
THEOREM CommunicateKeepsPromise ==
    ASSUME LibraryReapsAlone
    PROVE  CommSpec => KeepsPromise
<1>1. CommInit => Promise!PromiseInit /\ OpsMatch
  BY InitMaps DEF CommInit, Init, OpsMatch
<1>2. ASSUME CommInv, Safe, OpsMatch, [CommNext]_commVars
      PROVE  OpsMatch' /\ [Promise!PromiseNext]_(Promise!promiseVars)
  <2>1. CASE [Next]_vars
    BY <1>2, <2>1, OpsStep, StepMaps DEF IInv, Safe, CommInv, AlwaysInv
  <2>2. ASSUME NEW c \in Callers, NEW p \in Procs, communicate(c, p)
        PROVE  OpsMatch' /\ Promise!PromiseNext
    BY <1>2, <2>2, CommunicateMaps DEF Promise!PromiseNext
  <2>3. CASE \/ \E i \in Streams : ReaderReturns(i)
             \/ \E c \in Callers, p \in Procs : begin_communicate(c, p)
             \/ \E c \in Callers : \/ poll_communicate(c)
                                   \/ \E k \in {"out", "err"} : end_communicate(c, k)
    BY <1>2, <2>3, ReadersUnseen, UnseenStutters
  <2>. QED
    BY <1>2, <2>1, <2>2, <2>3, CommNextIs
<1>3. CommInv /\ Safe /\ OpsMatch /\ [CommNext]_commVars =>
        OpsMatch' /\ [Promise!PromiseNext]_(Promise!promiseVars)
  BY <1>2
<1>. QED
  BY <1>1, <1>3, CommInvHolds, CommSafeHolds, PTL
  DEF CommSpec, KeepsPromise, Promise!PromiseSafe

=============================================================================
