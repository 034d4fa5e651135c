----------------------- MODULE ProcessWaitAlwaysProofs -----------------------
(***************************************************************************)
(* What holds of ProcessWait whatever is mixed in: wait_timeout_ms() beside *)
(* the work on the pool, a reaper outside the library, refused submissions, *)
(* any number of processes, fibers and pool threads.  Nothing is assumed    *)
(* but ProcessAssumption and the size of the pool.                          *)
(***************************************************************************)
EXTENDS ProcessWaitProofs

-----------------------------------------------------------------------------
(* The inductive invariant, which nothing that is mixed in breaks.         *)

\* A call under way keeps the handle alive; wait_timeout_ms() and a join keep
\* the OS thread, so a process has one destructor at most.
CallsKeepHandles ==
    \A c \in Callers :
        /\ pc[c] \in {"poll", "collect", "timed", "timed_reap"}
              => handle[on[c]] = "live"
        /\ pc[c] \in {"timed", "timed_reap"} => cur = c
        /\ pc[c] \in {"join_wait", "join_out", "join_err"}
              => handle[on[c]] = "closing" /\ cur = c

\* Nor does it undo the ending of a child, or forget a code that came with its
\* PID.
EndingsStay ==
    /\ EndedStayEnded
    /\ \A p \in Procs : taker_codes[p] \subseteq taker_codes'[p]

\* What the handle knows of p, and the work may tell it, happened.
SeenAfterEnd(p) ==
    /\ exit_code[p] # NoCode =>
          child[p] # "running" /\ RightOrZero(p, exit_code[p])
    /\ observed_exited[p] => child[p] # "running"
    /\ handle[p] = "live" /\ work[WaitWork(p)] \in {"returned", "done"} =>
          child[p] # "running" /\ RightOrZero(p, work_code[p])

\* So did what c was told, or is about to be told by wait_timeout_ms().  (The
\* collect_wait() of communicate() awaits the readers, not the child.)
ToldAfterEnd(c) ==
    /\ ret[c].is \in {"code", "true"} =>
          on[c] \in Procs /\ child[on[c]] # "running"
    /\ ret[c].is = "code" => RightOrZero(on[c], ret[c].code)
    /\ pc[c] = "timed_reap" =>
          child[on[c]] # "running" /\ RightOrZero(on[c], ret[c].code)
    /\ c \in Fibers /\ pc[c] = "collect" /\ op[c] # "communicate" =>
          child[on[c]] # "running"

OnlyAfterEnd ==
    /\ \A p \in Procs : SeenAfterEnd(p)
    /\ \A c \in Callers : ToldAfterEnd(c)

AlwaysInv ==
    WellFormed /\ CallsKeepHandles /\ OnlyAfterEnd /\ WorkJoinedBeforeFree

-----------------------------------------------------------------------------
(* What a step may do to a work item, by the state of its handle.          *)

\* Null items of a handle that is not live stay null, and an item is cancelled
\* only in the destructor.  Every step but a pool thread's return obeys this.
ItemStep(p, k) ==
    LET i == <<p, k>> IN
    \/ work'[i] = work[i]
    \/ work[i] = "null" /\ work'[i] = "queued" /\ handle[p] = "live"
    \/ work[i] = "queued" /\ work'[i] = "running"
    \/ work[i] = "returned" /\ work'[i] = "done"
    \/ handle[p] = "closing" /\ work[i] = "queued" /\ work'[i] = "returned"
    \/ work[i] \in {"returned", "done"} /\ work'[i] = "null"

ItemsStep == \A p \in Procs, k \in Kinds : ItemStep(p, k)

\* An item of a pair is the pair's alone.
LEMMA ItemOf ==
    ASSUME NEW p \in Procs, NEW k \in Kinds
    PROVE  <<p, k>> \in Items
BY DEF Items

\* What uv_run does to every item.
LEMMA DrivenItems ==
    ASSUME PoolTypeOK, work' = Driven
    PROVE  ItemsStep
BY ItemOf DEF PoolTypeOK, Driven, ItemsStep, ItemStep

\* begin_wait() queues work of a live handle only.
LEMMA BeginWaitItems ==
    ASSUME PoolTypeOK, NEW p \in Procs, handle[p] = "live", begin_wait(p)
    PROVE  ItemsStep
<1>1. CASE UNCHANGED poolVars
  BY <1>1 DEF poolVars, ItemsStep, ItemStep
<1>2. CASE ~HasWork(p) /\ uv_queue_work(WaitWork(p))
  BY <1>2, ItemOf
  DEF PoolTypeOK, HasWork, uv_queue_work, WaitWork, ItemsStep, ItemStep
<1> QED BY <1>1, <1>2 DEF begin_wait

\* drive_wait() runs the loop and may release the finished work.
LEMMA DriveWaitItems ==
    ASSUME PoolTypeOK, NEW p \in Procs, NEW r \in BOOLEAN, drive_wait(p, r)
    PROVE  ItemsStep
<1>1. Driven \in [Items -> WorkStates] BY DEF Driven, PoolTypeOK, WorkStates
<1>2. \A q \in Procs, k \in Kinds :
        \/ Driven[<<q, k>>] = work[<<q, k>>]
        \/ work[<<q, k>>] = "returned" /\ Driven[<<q, k>>] = "done"
  BY ItemOf DEF PoolTypeOK, Driven
<1>3. CASE r
  <2>1. take_result(p) /\ Driven[WaitWork(p)] = "done"
    BY <1>3, Zenon DEF drive_wait
  <2> QED BY <1>1, <1>2, <2>1, ItemOf
          DEF take_result, WaitWork, ItemsStep, ItemStep
<1>4. CASE ~r
  BY <1>2, <1>4 DEF drive_wait, ItemsStep, ItemStep
<1> QED BY <1>3, <1>4

\* poll_wait() asks the OS or drives the loop.
LEMMA PollWaitItems ==
    ASSUME PoolTypeOK, NEW p \in Procs, NEW r \in BOOLEAN, poll_wait(p, r)
    PROVE  ItemsStep
<1>1. CASE UNCHANGED poolVars
  BY <1>1 DEF poolVars, ItemsStep, ItemStep
<1>2. CASE drive_wait(p, r)
  BY <1>2, DriveWaitItems
<1> QED BY <1>1, <1>2 DEF poll_wait

\* The other steps that touch the pool.
LEMMA PoolItems ==
    ASSUME PoolTypeOK, NEW i \in Items,
           Take(i) \/ async_poll \/ async_stop \/ uv_run_once
    PROVE  ItemsStep
<1>1. CASE Take(i)
  BY <1>1 DEF Take, WorkerTakes, PoolTypeOK, ItemsStep, ItemStep
<1>2. CASE work' = Driven
  BY <1>2, DrivenItems
<1>3. CASE UNCHANGED work
  BY <1>3 DEF ItemsStep, ItemStep
<1> QED BY <1>1, <1>2, <1>3
        DEF async_poll, async_stop, uv_run_once, uv_run_nowait, uv_stop

\* A step that leaves the pool alone leaves the items alone.
LEMMA PoolUnchangedItems ==
    ASSUME UNCHANGED poolVars
    PROVE  ItemsStep
BY DEF poolVars, ItemsStep, ItemStep

-----------------------------------------------------------------------------
(* The three parts of the invariant, kept.                                 *)

\* No caller reaches join_out or join_err in this step.
NobodyJoins ==
    \A c \in Callers :
        pc'[c] \in {"join_out", "join_err"} => pc'[c] = pc[c] /\ on'[c] = on[c]

\* Handles only close.
HandlesOnlyClose ==
    \A p \in Procs : /\ handle'[p] = "live" => handle[p] = "live"
                     /\ handle'[p] = "destroyed" => handle[p] = "destroyed"

\* What was joined stays joined: nobody submits work of a handle that is going.
LEMMA JoinedKept ==
    ASSUME AlwaysInv, ItemsStep, NobodyJoins, HandlesOnlyClose
    PROVE  WorkJoinedBeforeFree'
<1> USE DEF AlwaysInv, WorkJoinedBeforeFree, ItemsStep, ItemStep
<1>1. ASSUME NEW p \in Procs, NEW k \in Kinds, handle'[p] = "destroyed"
      PROVE  work'[<<p, k>>] = "null"
  <2>1. handle[p] = "destroyed" BY <1>1 DEF HandlesOnlyClose
  <2> QED BY <2>1
<1>2. ASSUME NEW c \in Callers, pc'[c] \in {"join_out", "join_err"}
      PROVE  /\ ~HasWork(on[c])'
             /\ pc'[c] = "join_err" => work'[<<on'[c], "out">>] = "null"
  <2>1. /\ pc'[c] = pc[c] /\ on'[c] = on[c]
        /\ on[c] \in Procs /\ handle[on[c]] = "closing"
    BY <1>2 DEF NobodyJoins, CallsKeepHandles, WellFormed, CallsHaveProcs
  <2>2. "wait" \in Kinds /\ "out" \in Kinds BY DEF Kinds
  <2> QED BY <1>2, <2>1, <2>2 DEF HasWork, WaitWork
<1> QED BY <1>1, <1>2

\* A child that ended before the step is seen to have ended after it.
LEMMA SeenKeptClosing ==
    ASSUME OnlyAfterEnd, ItemsStep, EndingsStay,
           \A p \in Procs : handle'[p] = "live" => handle[p] = "live",
           UNCHANGED <<holderVars, work_code>>
    PROVE  \A p \in Procs : SeenAfterEnd(p)'
<1> SUFFICES ASSUME NEW p \in Procs PROVE SeenAfterEnd(p)'
  OBVIOUS
<1>1. SeenAfterEnd(p) BY DEF OnlyAfterEnd
<1>2. ItemStep(p, "wait") BY DEF ItemsStep, Kinds
<1> QED BY <1>1, <1>2
        DEF SeenAfterEnd, ItemStep, WaitWork, EndingsStay, EndedStayEnded, holderVars,
            RightOrZero

\* In particular when no handle is freed.
LEMMA SeenKept ==
    ASSUME OnlyAfterEnd, ItemsStep, HandlesOnlyClose, EndingsStay,
           UNCHANGED <<holderVars, work_code>>
    PROVE  \A p \in Procs : SeenAfterEnd(p)'
BY SeenKeptClosing DEF HandlesOnlyClose

\* What a caller was told stays true while it does nothing.
LEMMA ToldKept ==
    ASSUME WellFormed, OnlyAfterEnd, EndingsStay, NEW c \in Callers,
           pc'[c] = pc[c], on'[c] = on[c], op'[c] = op[c], ret'[c] = ret[c]
    PROVE  ToldAfterEnd(c)'
<1>1. ToldAfterEnd(c) BY DEF OnlyAfterEnd
<1>2. pc[c] \in {"timed_reap", "collect"} => on[c] \in Procs
  BY DEF WellFormed, CallsHaveProcs
<1> QED BY <1>1, <1>2
        DEF ToldAfterEnd, EndingsStay, EndedStayEnded, RightOrZero

\* Callers that do nothing keep their handles, if the thread is not taken from
\* a caller that holds it.
LEMMA KeepsKept ==
    ASSUME AlwaysInv, UNCHANGED <<handle, callVars>>
    PROVE  CallsKeepHandles'
BY DEF AlwaysInv, CallsKeepHandles, callVars

Rest == CallsKeepHandles /\ OnlyAfterEnd /\ WorkJoinedBeforeFree

\* A step that moves work along the pool and does nothing else.
LEMMA PoolStepAlways ==
    ASSUME AlwaysInv, ItemsStep, EndingsStay,
           UNCHANGED <<handle, holderVars, work_code, callVars>>
    PROVE  Rest'
<1>1. HandlesOnlyClose /\ NobodyJoins
  BY DEF HandlesOnlyClose, NobodyJoins, callVars
<1>2. WorkJoinedBeforeFree' BY <1>1, JoinedKept
<1>3. OnlyAfterEnd'
  <2>1. \A p \in Procs : SeenAfterEnd(p)' BY <1>1, SeenKept DEF AlwaysInv
  <2>2. \A c \in Callers : ToldAfterEnd(c)'
    BY ToldKept DEF AlwaysInv, callVars
  <2> QED BY <2>1, <2>2 DEF OnlyAfterEnd
<1> QED BY <1>2, <1>3, KeepsKept DEF Rest

\* When a child ends nobody has seen it end before.
LEMMA ChildExitsAlways ==
    ASSUME AlwaysInv, NEW p \in Procs, ChildExits(p)
    PROVE  Rest'
<1> USE DEF AlwaysInv, WellFormed, TypeOK, ChildTypeOK
<1>1. ItemsStep /\ HandlesOnlyClose /\ NobodyJoins
  BY PoolUnchangedItems DEF ChildExits, HandlesOnlyClose, NobodyJoins, callVars
<1>2. WorkJoinedBeforeFree' BY <1>1, JoinedKept
<1>3. /\ \A q \in Procs \ {p} : fate'[q] = fate[q] /\ child'[q] = child[q]
      /\ child[p] = "running" /\ child'[p] = "zombie"
      /\ UNCHANGED <<work, handle, exit_code, observed_exited, work_code>>
      /\ UNCHANGED <<pc, op, on, ret, taker_codes>>
  BY DEF ChildExits, poolVars, holderVars, callVars, pidVars
<1>4. ASSUME NEW q \in Procs PROVE SeenAfterEnd(q)'
  <2>1. SeenAfterEnd(q) BY DEF OnlyAfterEnd
  <2> QED BY <1>3, <2>1 DEF SeenAfterEnd, RightOrZero
<1>5. ASSUME NEW c \in Callers PROVE ToldAfterEnd(c)'
  <2>1. ToldAfterEnd(c) BY DEF OnlyAfterEnd
  <2>2. pc[c] \in {"timed_reap", "collect"} => on[c] \in Procs
    BY DEF CallsHaveProcs
  <2> QED BY <1>3, <2>1, <2>2 DEF ToldAfterEnd, RightOrZero
<1>6. CallsKeepHandles' BY KeepsKept DEF ChildExits
<1> QED BY <1>2, <1>4, <1>5, <1>6 DEF Rest, OnlyAfterEnd

\* What wait_for() answers of a child that is gone is its code, or that of
\* whoever has its PID, or 0.
LEMMA WaitForRight ==
    ASSUME ChildOK, NEW p \in Procs
    PROVE  RightOrZero(p, wait_for_result(p))
BY StatusOfEnding
DEF wait_for_result, reported_status, Zombie, RightOrZero, ChildOK,
    EndedHaveEndings

\* The pool thread hands over such a code.
LEMMA WaitWorkAlways ==
    ASSUME AlwaysInv, NEW p \in Procs, wait_work_cb(p)
    PROVE  Rest'
<1> USE DEF AlwaysInv, WellFormed, TypeOK, ChildTypeOK, PoolTypeOK, HolderTypeOK
<1>1. /\ fate' = fate /\ child[p] # "running" /\ child'[p] = "reaped"
      /\ \A q \in Procs \ {p} : child'[q] = child[q]
      /\ work[WaitWork(p)] = "running"
      /\ work' = [work EXCEPT ![WaitWork(p)] = "returned"]
      /\ work_code' = [work_code EXCEPT ![p] = wait_for_result(p)]
      /\ UNCHANGED <<handle, exit_code, observed_exited, pc, op, on, ret>>
      /\ UNCHANGED taker_codes
  BY WaitForKeepsChild
  DEF wait_work_cb, WorkerReturns, holderVars, callVars, ChildOK
<1>2. \A i \in Items : work'[i] = IF i = WaitWork(p) THEN "returned" ELSE work[i]
  BY <1>1
<1>3. EndingsStay BY <1>1 DEF EndingsStay, EndedStayEnded
<1>4. WorkJoinedBeforeFree'
  <2>1. \A q \in Procs, k \in Kinds :
          work[<<q, k>>] = "null" => work'[<<q, k>>] = "null"
    BY <1>1, <1>2, ItemOf
  <2>2. "wait" \in Kinds /\ "out" \in Kinds BY DEF Kinds
  <2>3. \A c \in Callers : pc[c] \in {"join_out", "join_err"} => on[c] \in Procs
    BY DEF CallsHaveProcs
  <2> QED BY <1>1, <2>1, <2>2, <2>3 DEF WorkJoinedBeforeFree, HasWork, WaitWork
<1>5. ASSUME NEW q \in Procs PROVE SeenAfterEnd(q)'
  <2>1. SeenAfterEnd(q) BY DEF OnlyAfterEnd
  <2>2. CASE q = p
    <3>1. RightOrZero(p, wait_for_result(p)) BY WaitForRight DEF ChildOK
    <3> QED BY <1>1, <2>1, <2>2, <3>1 DEF SeenAfterEnd, RightOrZero
  <2>3. CASE q # p
    <3>1. work'[WaitWork(q)] = work[WaitWork(q)]
      BY <1>2, <2>3, WaitWorkIsItem, WaitWorkInjective
    <3> QED BY <1>1, <2>1, <2>3, <3>1 DEF SeenAfterEnd, RightOrZero
  <2> QED BY <2>2, <2>3
<1>6. \A c \in Callers : ToldAfterEnd(c)' BY <1>1, <1>3, ToldKept
<1>7. CallsKeepHandles' BY KeepsKept DEF wait_work_cb
<1> QED BY <1>4, <1>5, <1>6, <1>7 DEF Rest, OnlyAfterEnd

\* So do the steps of the OS, the pool and the loop.
LEMMA EnvironmentAlways ==
    ASSUME AlwaysInv,
           \/ \E p \in Procs : ChildExits(p) \/ ExternalReap(p) \/ wait_work_cb(p)
           \/ \E p \in Procs : TakerSteps(p)
           \/ \E i \in Items : Take(i)
           \/ async_poll \/ async_stop
           \/ UNCHANGED vars
    PROVE  Rest'
<1>1. ASSUME NEW p \in Procs, ExternalReap(p) PROVE Rest'
  <2>1. EndingsStay
    BY <1>1 DEF ExternalReap, EndingsStay, EndedStayEnded, pidVars, AlwaysInv,
                WellFormed, TypeOK,
                ChildTypeOK
  <2> QED BY <1>1, <2>1, PoolUnchangedItems, PoolStepAlways DEF ExternalReap
<1>2. ASSUME \/ \E i \in Items : Take(i)
             \/ async_poll \/ async_stop
             \/ UNCHANGED vars
      PROVE  Rest'
  <2>1. UNCHANGED <<childVars, handle, holderVars, work_code, callVars>>
    BY <1>2 DEF Take, async_poll, async_stop, vars
  <2>2. ItemsStep
    <3>1. CASE \E i \in Items : Take(i)
      BY <3>1, PoolItems DEF AlwaysInv, WellFormed, TypeOK
    <3>2. CASE async_poll \/ async_stop
      BY <3>2, DrivenItems DEF async_poll, async_stop, uv_run_nowait, uv_stop,
               AlwaysInv, WellFormed, TypeOK, ItemsStep, ItemStep
    <3>3. CASE UNCHANGED vars
      BY <3>3, PoolUnchangedItems DEF vars
    <3> QED BY <1>2, <3>1, <3>2, <3>3
  <2>3. EndingsStay BY <2>1 DEF EndingsStay, EndedStayEnded, childVars, pidVars
  <2> QED BY <2>1, <2>2, <2>3, PoolStepAlways
<1>3. ASSUME NEW p \in Procs, TakerSteps(p) PROVE Rest'
  <2>1. /\ UNCHANGED <<child, fate>>
        /\ UNCHANGED <<poolVars, handle, holderVars, work_code, callVars>>
        /\ \A q \in Procs : taker_codes[q] \subseteq taker_codes'[q]
    BY <1>3, TakersKeepChild DEF AlwaysInv, WellFormed, TypeOK, ChildOK
  <2>2. EndingsStay BY <2>1 DEF EndingsStay, EndedStayEnded
  <2> QED BY <2>1, <2>2, PoolUnchangedItems, PoolStepAlways
<1> QED BY <1>1, <1>2, <1>3, ChildExitsAlways, WaitWorkAlways

-----------------------------------------------------------------------------
(* The start of a call.                                                    *)

\* A new call was told nothing yet.
LEMMA EnterTold ==
    ASSUME AlwaysInv, NEW c \in Callers, NEW p, NEW o, NEW l,
           NEW w \in PCs \ {"timed_reap"}, Enter(c, p, o, l, w),
           w = "collect" => c \notin Fibers, UNCHANGED childVars
    PROVE  \A d \in Callers : ToldAfterEnd(d)'
<1> USE DEF AlwaysInv, WellFormed, TypeOK, CallTypeOK
<1>1. EndingsStay BY DEF EndingsStay, EndedStayEnded, childVars, pidVars
<1>2. \A d \in Callers \ {c} : ToldAfterEnd(d)' BY <1>1, ToldKept DEF Enter
<1>3. ToldAfterEnd(c)' BY DEF Enter, ToldAfterEnd, Nothing, Returned
<1> QED BY <1>2, <1>3

\* A call other than the destructor starts on a live handle.
LEMMA EnterAlways ==
    ASSUME AlwaysInv, NEW c \in Callers, NEW p, NEW o, NEW l,
           NEW w \in {"poll", "collect", "timed", "poll_once"},
           Enter(c, p, o, l, w),
           w # "poll_once" => handle[p] = "live",
           w = "collect" => c \notin Fibers, ItemsStep,
           UNCHANGED <<childVars, handle, holderVars, work_code>>
    PROVE  Rest'
<1>1. NobodyJoins /\ HandlesOnlyClose
  BY DEF NobodyJoins, HandlesOnlyClose, Enter, AlwaysInv, WellFormed, TypeOK,
         CallTypeOK
<1>2. WorkJoinedBeforeFree' BY <1>1, JoinedKept
<1>3. EndingsStay BY DEF EndingsStay, EndedStayEnded, childVars, pidVars
<1>4. \A q \in Procs : SeenAfterEnd(q)' BY <1>1, <1>3, SeenKept DEF AlwaysInv
<1>5. \A d \in Callers : ToldAfterEnd(d)' BY EnterTold DEF PCs
<1>6. CallsKeepHandles'
  BY ProcessAssumption
  DEF Enter, CallsKeepHandles, AlwaysInv, WellFormed, TypeOK, CallTypeOK
<1> QED BY <1>2, <1>4, <1>5, <1>6 DEF Rest, OnlyAfterEnd

\* The destructor starts when no call on its process is under way.
LEMMA DestroyAlways ==
    ASSUME AlwaysInv, NEW c \in Callers, NEW p \in Procs, destroy(c, p)
    PROVE  Rest'
<1> USE DEF AlwaysInv, WellFormed, TypeOK, CallTypeOK, HolderTypeOK
<1>1. NobodyJoins /\ HandlesOnlyClose
  BY DEF destroy, NobodyJoins, HandlesOnlyClose, Enter
<1>2. ItemsStep BY PoolUnchangedItems DEF destroy
<1>3. WorkJoinedBeforeFree' BY <1>1, <1>2, JoinedKept
<1>4. EndingsStay BY DEF destroy, EndingsStay, EndedStayEnded, childVars, pidVars
<1>5. \A q \in Procs : SeenAfterEnd(q)' BY <1>1, <1>2, <1>4, SeenKept DEF destroy
<1>6. \A d \in Callers : ToldAfterEnd(d)' BY EnterTold DEF destroy, PCs
<1>7. CallsKeepHandles'
  BY ProcessAssumption DEF destroy, Enter, CallsKeepHandles, CallsHaveProcs
<1> QED BY <1>3, <1>5, <1>6, <1>7 DEF Rest, OnlyAfterEnd

\* So any call starts on a live handle.
LEMMA CallAlways ==
    ASSUME AlwaysInv, NEW c \in Callers, NEW p \in Procs, Call(c, p)
    PROVE  Rest'
<1>1. CASE wait(c, p)
  <2>1. ItemsStep
    BY <1>1, BeginWaitItems, PoolUnchangedItems
    DEF wait, AlwaysInv, WellFormed, TypeOK
  <2> QED BY <1>1, <2>1, EnterAlways DEF wait
<1>2. CASE try_wait(c, p) \/ has_exited(c, p)
  BY <1>2, EnterAlways, PoolUnchangedItems DEF try_wait, has_exited
<1>3. CASE wait_poll(c, p) \/ wait_with(c, p)
  <2>1. ItemsStep
    BY <1>3, BeginWaitItems
    DEF wait_poll, wait_with, AlwaysInv, WellFormed, TypeOK
  <2> QED BY <1>3, <2>1, EnterAlways DEF wait_poll, wait_with
<1>4. CASE wait_timeout_ms(c, p)
  BY <1>4, EnterAlways, PoolUnchangedItems DEF wait_timeout_ms
<1>5. CASE destroy(c, p)
  BY <1>5, DestroyAlways
<1> QED BY <1>1, <1>2, <1>3, <1>4, <1>5 DEF Call

-----------------------------------------------------------------------------
(* A step of a call under way.                                             *)

\* The caller that runs is the only one that can hold the OS thread.
LEMMA OthersHoldNothing ==
    ASSUME AlwaysInv, NEW c \in Callers, MayRun(c), NEW d \in Callers \ {c}
    PROVE  pc[d] \notin {"timed", "timed_reap", "join_wait", "join_out", "join_err"}
BY ProcessAssumption DEF AlwaysInv, CallsKeepHandles, MayRun

\* A call may return what is true.
LEMMA ReturnAlways ==
    ASSUME AlwaysInv, NEW c \in Callers, NEW is, NEW code, MayRun(c),
           Return(c, is, code), UNCHANGED handle, EndingsStay,
           is \in {"code", "true"} => on[c] \in Procs /\ child'[on[c]] # "running",
           is = "code" => RightOrZero(on[c], code)
    PROVE  /\ CallsKeepHandles' /\ NobodyJoins /\ HandlesOnlyClose
           /\ \A d \in Callers : ToldAfterEnd(d)'
<1> USE DEF AlwaysInv, WellFormed, TypeOK, CallTypeOK
<1>1. CallsKeepHandles'
  BY OthersHoldNothing DEF Return, CallsKeepHandles
<1>2. NobodyJoins /\ HandlesOnlyClose
  BY DEF Return, NobodyJoins, HandlesOnlyClose
<1>3. \A d \in Callers \ {c} : ToldAfterEnd(d)' BY ToldKept DEF Return
<1>4. ToldAfterEnd(c)'
  BY DEF Return, Returned, ToldAfterEnd, EndingsStay, EndedStayEnded, RightOrZero
<1> QED BY <1>1, <1>2, <1>3, <1>4

\* A polling or collecting call may hand the thread over or keep it.
LEMMA PauseAlways ==
    ASSUME AlwaysInv, NEW c \in Callers, MayRun(c), NEW h \in {c, NoOne},
           Pause(h), h = c \/ pc[c] \in {"poll", "collect"},
           UNCHANGED handle, EndingsStay
    PROVE  /\ CallsKeepHandles' /\ NobodyJoins /\ HandlesOnlyClose
           /\ \A d \in Callers : ToldAfterEnd(d)'
<1>1. CallsKeepHandles'
  BY OthersHoldNothing DEF AlwaysInv, Pause, CallsKeepHandles
<1>2. NobodyJoins /\ HandlesOnlyClose
  BY DEF Pause, NobodyJoins, HandlesOnlyClose
<1>3. \A d \in Callers : ToldAfterEnd(d)' BY ToldKept DEF AlwaysInv, Pause
<1> QED BY <1>1, <1>2, <1>3

\* drive_wait() caches what the work knows, of a child that is gone.
LEMMA DriveWaitSeen ==
    ASSUME AlwaysInv, NEW p \in Procs, NEW r \in BOOLEAN, handle[p] = "live",
           drive_wait(p, r), UNCHANGED <<childVars, handle, work_code>>
    PROVE  /\ \A q \in Procs : SeenAfterEnd(q)'
           /\ r => child[p] # "running" /\ RightOrZero(p, work_code[p])
<1> USE DEF AlwaysInv, WellFormed, TypeOK, PoolTypeOK, HolderTypeOK
<1>1. ItemsStep BY DriveWaitItems
<1>2. EndingsStay /\ HandlesOnlyClose
  BY DEF EndingsStay, EndedStayEnded, HandlesOnlyClose, childVars, pidVars
<1>3. CASE r
  <2>1. take_result(p) /\ Driven[WaitWork(p)] = "done"
    BY <1>3, Zenon DEF drive_wait
  <2>2. work[WaitWork(p)] \in {"returned", "done"}
    BY <2>1, WaitWorkIsItem DEF Driven
  <2>3. child[p] # "running" /\ RightOrZero(p, work_code[p])
    BY <2>2 DEF OnlyAfterEnd, SeenAfterEnd
  <2>4. ASSUME NEW q \in Procs PROVE SeenAfterEnd(q)'
    <3>1. SeenAfterEnd(q) BY DEF OnlyAfterEnd
    <3>2. ItemStep(q, "wait") BY <1>1 DEF ItemsStep, Kinds
    <3>3. /\ exit_code' = [exit_code EXCEPT ![p] = work_code[p]]
          /\ observed_exited' = [observed_exited EXCEPT ![p] = TRUE]
      BY <2>1 DEF take_result
    <3> QED BY <2>3, <3>1, <3>2, <3>3
            DEF SeenAfterEnd, ItemStep, WaitWork, RightOrZero, childVars, pidVars
  <2> QED BY <2>3, <2>4
<1>4. CASE ~r
  <2>1. UNCHANGED holderVars BY <1>4 DEF drive_wait
  <2> QED BY <1>1, <1>2, <1>4, <2>1, SeenKept
<1> QED BY <1>3, <1>4

\* poll_wait() says yes, and remembers it, only of a child that is gone.
LEMMA PollWaitSeen ==
    ASSUME AlwaysInv, NEW p \in Procs, NEW r \in BOOLEAN, handle[p] = "live",
           poll_wait(p, r), UNCHANGED <<childVars, handle, work_code>>
    PROVE  /\ \A q \in Procs : SeenAfterEnd(q)'
           /\ r => child[p] # "running"
<1>1. EndingsStay /\ HandlesOnlyClose
  BY DEF EndingsStay, EndedStayEnded, HandlesOnlyClose, childVars, pidVars
<1>2. CASE /\ exit_code[p] # NoCode \/ observed_exited[p]
           /\ UNCHANGED <<holderVars, poolVars>>
  BY <1>1, <1>2, PoolUnchangedItems, SeenKept
  DEF AlwaysInv, OnlyAfterEnd, SeenAfterEnd
<1>3. CASE /\ r = process_exited(p)
           /\ observed_exited' = [observed_exited EXCEPT ![p] = r]
           /\ UNCHANGED <<exit_code, poolVars>>
  <2>1. r => child[p] # "running" BY <1>3 DEF process_exited, Running
  <2>2. ASSUME NEW q \in Procs PROVE SeenAfterEnd(q)'
    <3>1. SeenAfterEnd(q) BY DEF AlwaysInv, OnlyAfterEnd
    <3> QED BY <1>3, <2>1, <3>1
            DEF SeenAfterEnd, RightOrZero, childVars, pidVars, poolVars, AlwaysInv,
                WellFormed, TypeOK, HolderTypeOK
  <2> QED BY <2>1, <2>2
<1>4. CASE drive_wait(p, r)
  BY <1>4, DriveWaitSeen
<1> QED BY <1>2, <1>3, <1>4 DEF poll_wait

\* One round of a polling loop.
LEMMA PollAlways ==
    ASSUME AlwaysInv, NEW c \in Callers, Poll(c)
    PROVE  Rest'
<1>1. /\ on[c] \in Procs /\ handle[on[c]] = "live"
      /\ pc[c] = "poll" /\ MayRun(c)
      /\ UNCHANGED <<childVars, handle, work_code>>
  BY DEF Poll, AlwaysInv, WellFormed, CallsHaveProcs, CallsKeepHandles
<1>2. PICK r \in BOOLEAN : /\ poll_wait(on[c], r)
                           /\ IF r THEN on_hit(c) ELSE on_miss(c)
  BY Zenon DEF Poll
<1>3. ItemsStep BY <1>1, <1>2, PollWaitItems DEF AlwaysInv, WellFormed, TypeOK
<1>4. /\ \A q \in Procs : SeenAfterEnd(q)'
      /\ r => child[on[c]] # "running"
  BY <1>1, <1>2, PollWaitSeen
<1>5. EndingsStay BY <1>1 DEF EndingsStay, EndedStayEnded, childVars, pidVars
<1> DEFINE Calls == /\ CallsKeepHandles' /\ NobodyJoins /\ HandlesOnlyClose
                    /\ \A d \in Callers : ToldAfterEnd(d)'
<1>6. Calls
  <2>1. CASE r
    <3>1. on_hit(c) BY <1>2, <2>1, Zenon
    <3>2. CASE Return(c, "true", 0)
      BY <1>1, <1>4, <1>5, <2>1, <3>2, ReturnAlways DEF childVars, pidVars
    <3>3. CASE Goto(c, "collect")
      <4> USE DEF AlwaysInv, WellFormed, TypeOK, CallTypeOK
      <4>1. CallsKeepHandles'
        BY <1>1, <3>3, OthersHoldNothing DEF Goto, CallsKeepHandles
      <4>2. NobodyJoins /\ HandlesOnlyClose
        BY <1>1, <3>3 DEF Goto, NobodyJoins, HandlesOnlyClose
      <4>3. \A d \in Callers \ {c} : ToldAfterEnd(d)'
        BY <1>5, <3>3, ToldKept DEF Goto
      <4>4. ToldAfterEnd(c)'
        BY <1>1, <1>4, <2>1, <3>3
        DEF Goto, OnlyAfterEnd, ToldAfterEnd, RightOrZero, childVars, pidVars
      <4> QED BY <4>1, <4>2, <4>3, <4>4
    <3> QED BY <3>1, <3>2, <3>3 DEF on_hit
  <2>2. CASE ~r
    <3>1. on_miss(c) BY <1>2, <2>2, Zenon
    <3>2. CASE \E is \in {"null", "false", "throw"} : Return(c, is, 0)
      BY <1>1, <1>5, <3>2, ReturnAlways
    <3>3. CASE Pause(NoOne) \/ Pause(c)
      BY <1>1, <1>5, <3>3, PauseAlways
    <3> QED BY <3>1, <3>2, <3>3 DEF on_miss, cs_runtime_yield
  <2> QED BY <2>1, <2>2
<1>7. WorkJoinedBeforeFree' BY <1>3, <1>6, JoinedKept
<1> QED BY <1>4, <1>6, <1>7 DEF Rest, OnlyAfterEnd

\* Caching a code of a child that is gone.
LEMMA StoreSeen ==
    ASSUME AlwaysInv, NEW p \in Procs, NEW code, RightOrZero(p, code),
           exit_code' = [exit_code EXCEPT ![p] = code],
           child'[p] # "running", EndingsStay,
           UNCHANGED <<poolVars, handle, observed_exited, work_code>>
    PROVE  \A q \in Procs : SeenAfterEnd(q)'
<1> SUFFICES ASSUME NEW q \in Procs PROVE SeenAfterEnd(q)'
  OBVIOUS
<1>1. SeenAfterEnd(q) BY DEF AlwaysInv, OnlyAfterEnd
<1> QED BY <1>1
        DEF SeenAfterEnd, EndingsStay, EndedStayEnded, RightOrZero, poolVars, AlwaysInv,
            WellFormed, TypeOK, HolderTypeOK

\* A call that caches and returns a code of a child that is gone.
LEMMA StoreAndReturnAlways ==
    ASSUME AlwaysInv, NEW c \in Callers, NEW code, MayRun(c), on[c] \in Procs,
           exit_code' = [exit_code EXCEPT ![on[c]] = code],
           Return(c, "code", code), RightOrZero(on[c], code),
           child'[on[c]] # "running", EndingsStay,
           UNCHANGED <<poolVars, handle, observed_exited, work_code>>
    PROVE  Rest'
<1>1. \A q \in Procs : SeenAfterEnd(q)' BY StoreSeen
<1>2. /\ CallsKeepHandles' /\ NobodyJoins /\ HandlesOnlyClose
      /\ \A d \in Callers : ToldAfterEnd(d)'
  BY ReturnAlways
<1>3. WorkJoinedBeforeFree' BY <1>2, PoolUnchangedItems, JoinedKept
<1> QED BY <1>1, <1>2, <1>3 DEF Rest, OnlyAfterEnd

\* A call that returns and caches nothing.
LEMMA JustReturnAlways ==
    ASSUME AlwaysInv, NEW c \in Callers, NEW is, NEW code, MayRun(c),
           Return(c, is, code),
           is = "code" => /\ on[c] \in Procs /\ child[on[c]] # "running"
                          /\ RightOrZero(on[c], code),
           is # "true", ItemsStep,
           UNCHANGED <<childVars, handle, holderVars, work_code>>
    PROVE  Rest'
<1>1. EndingsStay BY DEF EndingsStay, EndedStayEnded, childVars, pidVars
<1>2. /\ CallsKeepHandles' /\ NobodyJoins /\ HandlesOnlyClose
      /\ \A d \in Callers : ToldAfterEnd(d)'
  BY <1>1, ReturnAlways DEF childVars, pidVars
<1>3. WorkJoinedBeforeFree' BY <1>2, JoinedKept
<1>4. \A q \in Procs : SeenAfterEnd(q)' BY <1>1, <1>2, SeenKept DEF AlwaysInv
<1> QED BY <1>2, <1>3, <1>4 DEF Rest, OnlyAfterEnd

\* wait_for() leaves a child that is gone, with the ending it had.
LEMMA WaitForEnds ==
    ASSUME WellFormed, NEW p \in Procs, wait_for(p)
    PROVE  /\ EndingsStay /\ child'[p] # "running"
           /\ RightOrZero(p, wait_for_result(p))
BY WaitForRight, WaitForKeepsChild
DEF EndingsStay, EndedStayEnded, WellFormed, TypeOK, ChildTypeOK, ChildOK

\* collect_wait() by any of its three ways.
LEMMA CollectAlways ==
    ASSUME AlwaysInv, NEW c \in Callers, collect_wait(c)
    PROVE  Rest'
<1>1. /\ on[c] \in Procs /\ handle[on[c]] = "live"
      /\ pc[c] = "collect" /\ MayRun(c)
      /\ UNCHANGED <<handle, work_code>>
  BY DEF collect_wait, AlwaysInv, WellFormed, CallsHaveProcs, CallsKeepHandles
<1>2. SeenAfterEnd(on[c]) BY <1>1 DEF AlwaysInv, OnlyAfterEnd
<1>3. CASE collect_cached(c)
  BY <1>1, <1>2, <1>3, PoolUnchangedItems, JustReturnAlways
  DEF collect_cached, SeenAfterEnd
<1>4. CASE collect_work(c)
  <2>1. PICK ready \in BOOLEAN :
          /\ drive_wait(on[c], ready)
          /\ IF ready THEN Return(c, "code", work_code[on[c]]) ELSE Pause(c)
    BY <1>4, Zenon DEF collect_work
  <2>2. UNCHANGED childVars BY <1>4 DEF collect_work
  <2>3. EndingsStay BY <2>2 DEF EndingsStay, EndedStayEnded, childVars, pidVars
  <2>4. /\ \A q \in Procs : SeenAfterEnd(q)'
        /\ ready => /\ child[on[c]] # "running"
                    /\ RightOrZero(on[c], work_code[on[c]])
    BY <1>1, <2>1, <2>2, DriveWaitSeen
  <2>5. ItemsStep BY <1>1, <2>1, DriveWaitItems DEF AlwaysInv, WellFormed, TypeOK
  <2>6. /\ CallsKeepHandles' /\ NobodyJoins /\ HandlesOnlyClose
        /\ \A d \in Callers : ToldAfterEnd(d)'
    <3>1. CASE ready
      <4>1. Return(c, "code", work_code[on[c]]) BY <2>1, <3>1, Zenon
      <4> QED BY <1>1, <2>2, <2>3, <2>4, <3>1, <4>1, ReturnAlways DEF childVars, pidVars
    <3>2. CASE ~ready
      <4>1. Pause(c) BY <2>1, <3>2, Zenon
      <4> QED BY <1>1, <2>3, <4>1, PauseAlways
    <3> QED BY <3>1, <3>2
  <2>7. WorkJoinedBeforeFree' BY <2>5, <2>6, JoinedKept
  <2> QED BY <2>4, <2>6, <2>7 DEF Rest, OnlyAfterEnd
<1>5. CASE collect_sync(c)
  <2>1. /\ EndingsStay /\ child'[on[c]] # "running"
        /\ RightOrZero(on[c], wait_for_result(on[c]))
    BY <1>1, <1>5, WaitForEnds DEF collect_sync, AlwaysInv
  <2> QED BY <1>1, <1>5, <2>1, StoreAndReturnAlways DEF collect_sync
<1> QED BY <1>3, <1>4, <1>5 DEF collect_wait

\* wait_timeout_ms(), which does not look at the work.
LEMMA TimedAlways ==
    ASSUME AlwaysInv, NEW c \in Callers, timed_poll(c) \/ timed_reap(c)
    PROVE  Rest'
<1>1. on[c] \in Procs /\ handle[on[c]] = "live" /\ MayRun(c)
  BY DEF timed_poll, timed_reap, AlwaysInv, WellFormed, CallsHaveProcs,
         CallsKeepHandles
<1>2. SeenAfterEnd(on[c]) /\ ToldAfterEnd(c)
  BY <1>1 DEF AlwaysInv, OnlyAfterEnd
<1>3. CASE timed_cached(c) \/ timed_out(c)
  BY <1>1, <1>2, <1>3, PoolUnchangedItems, JustReturnAlways
  DEF timed_cached, timed_out, SeenAfterEnd
<1>4. CASE timed_forever(c)
  <2>1. /\ EndingsStay /\ child'[on[c]] # "running"
        /\ RightOrZero(on[c], wait_for_result(on[c]))
    BY <1>1, <1>4, WaitForEnds DEF timed_forever, AlwaysInv
  <2> QED BY <1>1, <1>4, <2>1, StoreAndReturnAlways
          DEF timed_forever, StoreAndReturn
<1>5. CASE timed_seen(c)
  <2> USE DEF AlwaysInv, WellFormed, TypeOK, CallTypeOK
  <2>1. /\ UNCHANGED <<poolVars, childVars, handle, holderVars, work_code>>
        /\ \A d \in Callers \ {c} : pc'[d] = pc[d] /\ ret'[d] = ret[d]
        /\ pc'[c] = "timed_reap" /\ cur' = c /\ on' = on /\ op' = op
        /\ ret'[c] = Returned("pending", reported_status(on[c]))
        /\ Zombie(on[c])
    BY <1>5 DEF timed_seen
  <2>2. EndingsStay BY <2>1 DEF EndingsStay, EndedStayEnded, childVars, pidVars
  <2>3. NobodyJoins /\ HandlesOnlyClose
    BY <2>1 DEF NobodyJoins, HandlesOnlyClose
  <2>4. WorkJoinedBeforeFree' BY <2>1, <2>3, PoolUnchangedItems, JoinedKept
  <2>5. \A q \in Procs : SeenAfterEnd(q)'
    BY <2>1, <2>2, <2>3, PoolUnchangedItems, SeenKept
  <2>6. \A d \in Callers \ {c} : ToldAfterEnd(d)' BY <2>1, <2>2, ToldKept
  <2>7. ToldAfterEnd(c)'
    <3>1. RightOrZero(on[c], reported_status(on[c]))
      BY <1>1, <2>1, WaitForRight DEF ChildOK, wait_for_result
    <3>2. child[on[c]] # "running"
      BY <1>1, <2>1 DEF Zombie, EndedHaveEndings
    <3> QED BY <3>2, <1>1, <2>1, <3>1
            DEF ToldAfterEnd, Returned, RightOrZero, childVars, pidVars
  <2>8. CallsKeepHandles'
    BY <1>1, <2>1, OthersHoldNothing DEF CallsKeepHandles
  <2> QED BY <2>4, <2>5, <2>6, <2>7, <2>8 DEF Rest, OnlyAfterEnd
<1>6. CASE timed_gone(c)
  <2>1. EndingsStay /\ child'[on[c]] # "running" /\ RightOrZero(on[c], 0)
    BY <1>6 DEF timed_gone, Running, EndingsStay, EndedStayEnded, childVars, pidVars, RightOrZero
  <2> QED BY <1>1, <1>6, <2>1, StoreAndReturnAlways
          DEF timed_gone, StoreAndReturn
<1>7. CASE timed_reap(c)
  <2>1. child[on[c]] # "running" /\ RightOrZero(on[c], ret[c].code)
    BY <1>2, <1>7 DEF timed_reap, ToldAfterEnd
  <2>2. EndingsStay /\ child'[on[c]] # "running"
    BY <1>1, <1>7, <2>1, ReapKeepsChild
    DEF timed_reap, ChildOK, EndingsStay, EndedStayEnded, AlwaysInv, WellFormed, TypeOK, ChildTypeOK
  <2> QED BY <1>1, <1>7, <2>1, <2>2, StoreAndReturnAlways
          DEF timed_reap, StoreAndReturn
<1> QED BY <1>3, <1>4, <1>5, <1>6, <1>7 DEF timed_poll

\* process.async.poll_once() only runs completions.
LEMMA PollOnceAlways ==
    ASSUME AlwaysInv, NEW c \in Callers, async_poll_once(c) \/ poll_once(c)
    PROVE  Rest'
<1>1. CASE async_poll_once(c)
  BY <1>1, EnterAlways, PoolUnchangedItems DEF async_poll_once
<1>2. CASE poll_once(c)
  <2>1. ItemsStep
    BY <1>2, DrivenItems
    DEF poll_once, uv_run_once, uv_run_nowait, AlwaysInv, WellFormed, TypeOK
  <2> QED BY <1>2, <2>1, JustReturnAlways DEF poll_once
<1> QED BY <1>1, <1>2

\* What a join may do to the items.
LEMMA AwaitItems ==
    ASSUME AlwaysInv, NEW c \in Callers, NEW k \in Kinds, await_work(c, k)
    PROVE  /\ ItemsStep
           /\ joined(c, k) => work'[<<on[c], k>>] = "null"
<1> DEFINE i == <<on[c], k>>
<1> USE DEF AlwaysInv, WellFormed, TypeOK, PoolTypeOK
<1>1. /\ on[c] \in Procs /\ handle[on[c]] = "closing"
      /\ pc[c] = JoinAt[k] /\ JoinAt[k] \in {"join_wait", "join_out", "join_err"}
  BY DEF await_work, JoinAt, Kinds, CallsHaveProcs, CallsKeepHandles
<1>2. i \in Items BY <1>1 DEF Items
<1>3. joined(c, k) => pc' # pc \/ handle' # handle
  BY <1>1 DEF joined, Goto, Return, JoinAt, Kinds, CallTypeOK
<1>4. CASE work[i] = "null" /\ UNCHANGED poolVars
  BY <1>4, PoolUnchangedItems DEF poolVars
<1>5. CASE uv_cancel(i) /\ Pause(c) /\ UNCHANGED handle
  <2>1. ~joined(c, k) BY <1>3, <1>5 DEF Pause
  <2>2. ItemsStep
    BY <1>1, <1>2, <1>5, ItemOf DEF uv_cancel, ItemsStep, ItemStep
  <2> QED BY <2>1, <2>2
<1>6. CASE uv_run_nowait /\ Pause(c) /\ UNCHANGED handle
  <2>1. ~joined(c, k) BY <1>3, <1>6 DEF Pause
  <2> QED BY <1>6, <2>1, DrivenItems DEF uv_run_nowait
<1>7. CASE work[i] = "done" /\ work' = [work EXCEPT ![i] = "null"]
  BY <1>1, <1>2, <1>7, ItemOf DEF ItemsStep, ItemStep
<1> QED BY <1>4, <1>5, <1>6, <1>7 DEF await_work

\* The destructor frees the handle after its last join.
LEMMA AwaitAlways ==
    ASSUME AlwaysInv, NEW c \in Callers, NEW k \in Kinds, await_work(c, k)
    PROVE  Rest'
<1> USE DEF AlwaysInv, WellFormed, TypeOK, CallTypeOK, HolderTypeOK
<1>1. /\ on[c] \in Procs /\ handle[on[c]] = "closing" /\ cur = c /\ MayRun(c)
      /\ pc[c] = JoinAt[k] /\ JoinAt[k] \in {"join_wait", "join_out", "join_err"}
      /\ UNCHANGED <<childVars, holderVars, work_code>>
  BY DEF await_work, JoinAt, Kinds, CallsHaveProcs, CallsKeepHandles
<1>2. ItemsStep /\ (joined(c, k) => work'[<<on[c], k>>] = "null")
  BY AwaitItems
<1>3. EndingsStay BY <1>1 DEF EndingsStay, EndedStayEnded, childVars, pidVars
<1>4. joined(c, k) \/ (Pause(c) /\ UNCHANGED handle)
  BY DEF await_work
<1>5. CASE Pause(c) /\ UNCHANGED handle
  <2>1. /\ CallsKeepHandles' /\ NobodyJoins /\ HandlesOnlyClose
        /\ \A d \in Callers : ToldAfterEnd(d)'
    BY <1>1, <1>3, <1>5, PauseAlways
  <2>2. WorkJoinedBeforeFree' BY <1>2, <2>1, JoinedKept
  <2> QED BY <1>1, <1>2, <1>3, <2>1, <2>2, SeenKept DEF Rest, OnlyAfterEnd
<1>6. ASSUME NEW w \in {"join_out", "join_err"}, Goto(c, w), UNCHANGED handle,
             work'[<<on[c], k>>] = "null",
             w = "join_out" => k = "wait",
             w = "join_err" => k = "out" /\ pc[c] = "join_out"
      PROVE  Rest'
  <2>1. CallsKeepHandles'
    BY <1>1, <1>6, OthersHoldNothing DEF Goto, CallsKeepHandles
  <2>2. \A d \in Callers \ {c} : ToldAfterEnd(d)'
    BY <1>3, <1>6, ToldKept DEF Goto
  <2>3. ToldAfterEnd(c)'
    BY <1>1, <1>6
    DEF Goto, OnlyAfterEnd, ToldAfterEnd, RightOrZero, childVars, pidVars
  <2>4. \A q \in Procs : SeenAfterEnd(q)'
    BY <1>1, <1>2, <1>3, <1>6, SeenKept DEF HandlesOnlyClose
  <2>5. ASSUME NEW p \in Procs, NEW m \in Kinds, handle[p] # "live",
               work[<<p, m>>] = "null"
        PROVE  work'[<<p, m>>] = "null"
    BY <1>2, <2>5 DEF ItemsStep, ItemStep
  <2>6. WorkJoinedBeforeFree'
    <3>1. \A d \in Callers \ {c} : pc'[d] \notin {"join_out", "join_err"}
      BY <1>1, <1>6, OthersHoldNothing DEF Goto
    <3>2. pc[c] = "join_out" => work[<<on[c], "wait">>] = "null"
      BY DEF WorkJoinedBeforeFree, HasWork, WaitWork
    <3>3. "wait" \in Kinds /\ "out" \in Kinds BY DEF Kinds
    <3>4. on'[c] = on[c] /\ pc'[c] = w BY <1>6 DEF Goto
    <3>5. work'[<<on[c], "wait">>] = "null"
      BY <1>1, <1>6, <2>5, <3>2, <3>3
    <3>6. w = "join_err" => work'[<<on[c], "out">>] = "null"
      BY <1>6
    <3>7. \A p \in Procs, m \in Kinds :
            handle'[p] = "destroyed" => work'[<<p, m>>] = "null"
      BY <1>6, <2>5 DEF WorkJoinedBeforeFree
    <3> QED BY <3>1, <3>4, <3>5, <3>6, <3>7
            DEF WorkJoinedBeforeFree, HasWork, WaitWork
  <2> QED BY <2>1, <2>2, <2>3, <2>4, <2>6 DEF Rest, OnlyAfterEnd
<1>7. CASE /\ joined(c, k) /\ k = "err" /\ Return(c, "nothing", 0)
           /\ handle' = [handle EXCEPT ![on[c]] = "destroyed"]
  <2>1. /\ pc[c] = "join_err" /\ work'[<<on[c], "err">>] = "null"
        /\ \A p \in Procs : handle'[p] = IF p = on[c] THEN "destroyed" ELSE handle[p]
    BY <1>1, <1>2, <1>7 DEF JoinAt
  <2>2. \A d \in Callers \ {c} :
          /\ pc'[d] = pc[d] /\ on'[d] = on[d] /\ op'[d] = op[d]
          /\ ret'[d] = ret[d]
          /\ pc[d] \notin {"timed", "timed_reap", "join_wait", "join_out", "join_err"}
          /\ pc[d] \in {"poll", "collect"} =>
                on[d] \in Procs /\ handle[on[d]] = "live"
    BY <1>1, <1>7, OthersHoldNothing DEF Return, CallsKeepHandles, CallsHaveProcs
  <2>3. pc'[c] = "idle" /\ ret'[c] = Returned("nothing", 0)
    BY <1>7 DEF Return
  <2>4. CallsKeepHandles'
    BY <1>1, <2>1, <2>2, <2>3 DEF CallsKeepHandles
  <2>5. \A d \in Callers : ToldAfterEnd(d)'
    BY <1>3, <2>2, <2>3, ToldKept DEF ToldAfterEnd, Returned
  <2>6. \A q \in Procs : SeenAfterEnd(q)'
    BY <1>1, <1>2, <1>3, <2>1, SeenKeptClosing
  <2>7. WorkJoinedBeforeFree'
    <3>1. ASSUME NEW p \in Procs, NEW m \in Kinds, handle[p] # "live",
                 work[<<p, m>>] = "null"
          PROVE  work'[<<p, m>>] = "null"
      BY <1>2, <3>1 DEF ItemsStep, ItemStep
    <3>2. \A m \in Kinds : work'[<<on[c], m>>] = "null"
      <4>1. work[<<on[c], "wait">>] = "null" /\ work[<<on[c], "out">>] = "null"
        BY <2>1 DEF WorkJoinedBeforeFree, HasWork, WaitWork
      <4>2. \A m \in {"wait", "out"} : work'[<<on[c], m>>] = "null"
        BY <1>1, <3>1, <4>1 DEF Kinds
      <4> QED BY <2>1, <4>2 DEF Kinds
    <3>3. \A p \in Procs, m \in Kinds :
            handle'[p] = "destroyed" => work'[<<p, m>>] = "null"
      BY <2>1, <3>1, <3>2 DEF WorkJoinedBeforeFree
    <3>4. \A d \in Callers : pc'[d] \notin {"join_out", "join_err"}
      BY <2>2, <2>3
    <3> QED BY <3>3, <3>4 DEF WorkJoinedBeforeFree
  <2> QED BY <2>4, <2>5, <2>6, <2>7 DEF Rest, OnlyAfterEnd
<1> QED BY <1>1, <1>2, <1>4, <1>5, <1>6, <1>7 DEF joined, JoinAt, Kinds

-----------------------------------------------------------------------------
(* The theorems.                                                           *)

\* Every step keeps the invariant, whatever is mixed in.
LEMMA AlwaysStep == AlwaysInv /\ [Next]_vars => AlwaysInv'
<1> SUFFICES ASSUME AlwaysInv, [Next]_vars PROVE AlwaysInv'
  OBVIOUS
<1>1. WellFormed' BY TypeStep DEF AlwaysInv
<1>2. Rest'
  <2>1. ASSUME NEW c \in Callers, NEW p \in Procs, Call(c, p) PROVE Rest'
    BY <2>1, CallAlways
  <2>2. ASSUME NEW c \in Callers, Step(c) PROVE Rest'
    BY <2>2, PollAlways, CollectAlways, TimedAlways, PollOnceAlways, AwaitAlways
    DEF Step
  <2>3. ASSUME NEW c \in Callers, async_poll_once(c) PROVE Rest'
    BY <2>3, PollOnceAlways
  <2>4. CASE \/ \E p \in Procs : ChildExits(p) \/ ExternalReap(p) \/ wait_work_cb(p)
             \/ \E p \in Procs : TakerSteps(p)
             \/ \E i \in Items : Take(i)
             \/ async_poll \/ async_stop
             \/ UNCHANGED vars
    BY <2>4, EnvironmentAlways
  <2> QED BY <2>1, <2>2, <2>3, <2>4 DEF Next, TakerSteps
<1> QED BY <1>1, <1>2 DEF AlwaysInv, Rest

\* The invariant holds throughout.
LEMMA AlwaysInit == Init => AlwaysInv
BY TypeInit
DEF AlwaysInv, Init, PoolInit, CallsKeepHandles, OnlyAfterEnd, SeenAfterEnd,
    ToldAfterEnd, WorkJoinedBeforeFree, Nothing, Returned, WaitWork, Items,
    Kinds

LEMMA AlwaysInvHolds == Spec => []AlwaysInv
<1> QED BY AlwaysInit, AlwaysStep, PTL DEF Spec

\* Whoever reaps a child, and whoever gets its PID next, the library caches and
\* returns the child's true code, or 0, or the code of another child of the
\* program that was given the PID once the child was reaped: with
\* wait_timeout_ms() racing the pool thread, or a SIGCHLD handler racing both,
\* no caller is ever given a code of another origin.
THEOREM CodesAreRightOrZero == Spec => []ExitCodeRightOrZero
<1>1. AlwaysInv => ExitCodeRightOrZero
  BY DEF AlwaysInv, ExitCodeRightOrZero, OnlyAfterEnd, SeenAfterEnd, ToldAfterEnd
<1> QED BY <1>1, AlwaysInvHolds, PTL

\* No call and no cached observation ever says of a running child that it
\* exited.
THEOREM ExitedIsNeverSaidOfTheRunning == Spec => []ExitedOnlyIfGone
<1>1. AlwaysInv => ExitedOnlyIfGone
  BY DEF AlwaysInv, ExitedOnlyIfGone, OnlyAfterEnd, SeenAfterEnd, ToldAfterEnd
<1> QED BY <1>1, AlwaysInvHolds, PTL

\* The destructor leaves no work that refers to the handle it frees, for any
\* number of handles destroyed in any order.
THEOREM DestructorJoinsItsWork == Spec => []WorkJoinedBeforeFree
<1>1. AlwaysInv => WorkJoinedBeforeFree BY DEF AlwaysInv
<1> QED BY <1>1, AlwaysInvHolds, PTL

\* Nothing in this module calls communicate().
NobodyCommunicates == \A c \in Callers : op[c] # "communicate"

LEMMA NobodyStarts ==
    ASSUME WellFormed, NobodyCommunicates, [Next]_vars
    PROVE  NobodyCommunicates'
<1> USE DEF WellFormed, TypeOK, CallTypeOK, NobodyCommunicates
<1>1. CASE UNCHANGED op
  BY <1>1
<1>2. ASSUME NEW c \in Callers, NEW p, NEW o, NEW l, NEW w, Enter(c, p, o, l, w),
             o # "communicate"
      PROVE  NobodyCommunicates'
  BY <1>2 DEF Enter
<1>3. ASSUME NEW c \in Callers, NEW is, NEW code, Return(c, is, code)
      PROVE  NobodyCommunicates'
  BY <1>3 DEF Return
<1>4. ASSUME NEW c \in Callers, NEW p \in Procs, Call(c, p)
      PROVE  NobodyCommunicates'
  BY <1>2, <1>4 DEF Call, wait, try_wait, has_exited, wait_poll, wait_with,
                    wait_timeout_ms, destroy
<1>5. ASSUME NEW c \in Callers, Step(c)
      PROVE  NobodyCommunicates'
  <2>1. UNCHANGED op \/ \E is, code : Return(c, is, code)
    <3>1. CASE Poll(c)
      BY <3>1 DEF Poll, on_hit, on_miss, Goto, Pause, cs_runtime_yield
    <3>2. CASE collect_wait(c)
      BY <3>2 DEF collect_wait, collect_cached, collect_work, collect_sync,
                  Pause
    <3>3. CASE timed_poll(c) \/ timed_reap(c)
      BY <3>3 DEF timed_poll, timed_reap, timed_cached, timed_forever,
                  timed_seen, timed_gone, timed_out, StoreAndReturn
    <3>4. CASE poll_once(c)
      BY <3>4 DEF poll_once
    <3>5. ASSUME NEW k \in Kinds, await_work(c, k)
          PROVE  UNCHANGED op \/ \E is, code : Return(c, is, code)
      BY <3>5 DEF await_work, joined, Goto, Pause
    <3>. QED
      BY <1>5, <3>1, <3>2, <3>3, <3>4, <3>5 DEF Step
  <2>. QED
    BY <1>1, <1>3, <2>1
<1>6. ASSUME NEW c \in Callers, async_poll_once(c)
      PROVE  NobodyCommunicates'
  BY <1>2, <1>6 DEF async_poll_once
<1>7. ASSUME \/ \E p \in Procs : ChildExits(p) \/ ExternalReap(p) \/ wait_work_cb(p)
             \/ \E p \in Procs : TakerSteps(p)
             \/ \E i \in Items : Take(i)
             \/ async_poll \/ async_stop
             \/ UNCHANGED vars
      PROVE  UNCHANGED op
  BY <1>7 DEF ChildExits, ExternalReap, wait_work_cb, TakerSteps, TakesPid,
              TakerExits, TakerReaped, Take, async_poll, async_stop, vars,
              callVars
<1>. QED
  BY <1>1, <1>4, <1>5, <1>6, <1>7 DEF Next, TakerSteps

\* A fiber enters the non-yielding collect_wait() only for a child that is
\* gone, whoever reaped it.
THEOREM FibersCollectTheGone == Spec => []FibersCollectOnlyTheGone
<1>1. AlwaysInv /\ NobodyCommunicates => FibersCollectOnlyTheGone
  BY ProcessAssumption
  DEF AlwaysInv, FibersCollectOnlyTheGone, OnlyAfterEnd, ToldAfterEnd,
      NobodyCommunicates
<1>2. Init => NobodyCommunicates
  BY DEF Init, NobodyCommunicates
<1>3. AlwaysInv /\ NobodyCommunicates /\ [Next]_vars => NobodyCommunicates'
  BY NobodyStarts DEF AlwaysInv
<1>. QED
  BY <1>1, <1>2, <1>3, AlwaysInvHolds, PTL DEF Spec

=============================================================================
