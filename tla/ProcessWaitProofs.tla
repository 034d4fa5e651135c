-------------------------- MODULE ProcessWaitProofs --------------------------
(***************************************************************************)
(* Proofs about ProcessWait, for any set of processes, callers and fibers  *)
(* and any pool size: type correctness, and that exit codes are faithful.  *)
(***************************************************************************)
EXTENDS ProcessWait, TLAPS

-----------------------------------------------------------------------------
(* The inductive invariant.                                                *)

\* What the types of the steps rest on: a child that ended has an ending, its
\* PID is taken only once it was reaped, a call that needs a process has one.
EndedHaveEndings ==
    \A p \in Procs :
        /\ child[p] # "running" => fate[p] \in Endings
        /\ taker[p] # "none" => child[p] = "reaped"
        /\ taker[p] = "zombie" =>
              /\ taker_fate[p] \in Endings
              /\ ConventionalCode(taker_fate[p]) \in taker_codes[p]

CallsHaveProcs ==
    \A c \in Callers : pc[c] \notin {"idle", "poll_once"} => on[c] \in Procs

WellFormed == TypeOK /\ EndedHaveEndings /\ CallsHaveProcs

\* A call under way keeps the handle alive; a join belongs to the destructor.
CallsOwnHandles ==
    \A c \in Callers :
        /\ pc[c] \in {"poll", "collect"} => handle[on[c]] = "live"
        /\ pc[c] \in {"join_wait", "join_out", "join_err"}
              => handle[on[c]] = "closing" /\ cur = c
        /\ pc[c] \notin {"timed", "timed_reap"}

\* The status of p has one owner: the kernel until it is reaped, then the work
\* that reaped it or the cache.
OneOwner(p) ==
    /\ exit_code[p] # NoCode =>
          /\ child[p] = "reaped"
          /\ exit_code[p] = ConventionalCode(fate[p])
          /\ ~HasWork(p)
    /\ observed_exited[p] => child[p] # "running"
    /\ work[WaitWork(p)] \in {"queued", "running"} => child[p] # "reaped"
    /\ handle[p] = "live" =>
          /\ work[WaitWork(p)] \in {"returned", "done"} =>
                /\ child[p] = "reaped"
                /\ work_code[p] = ConventionalCode(fate[p])
          /\ child[p] = "reaped" =>
                \/ exit_code[p] # NoCode
                \/ work[WaitWork(p)] \in {"returned", "done"}

StatusHasOneOwner == \A p \in Procs : OneOwner(p)

\* What a call returned stays true, and a fiber collects only the gone.
AnswersStayTrue ==
    \A c \in Callers :
        /\ ret[c].is = "code" =>
              /\ on[c] \in Procs
              /\ child[on[c]] # "running"
              /\ ret[c].code = ConventionalCode(fate[on[c]])
        /\ ret[c].is = "true" => on[c] \in Procs /\ child[on[c]] # "running"
        /\ c \in Fibers /\ pc[c] = "collect" /\ op[c] # "communicate" =>
              child[on[c]] # "running"

\* wait_timeout_ms() keeps the OS thread between looking at a status and
\* storing it, so nobody caches a code meanwhile.
TimedHoldsThread ==
    \A c \in Callers :
        pc[c] = "timed_reap" => cur = c /\ exit_code[on[c]] = NoCode

IInv == WellFormed /\ CallsOwnHandles /\ StatusHasOneOwner /\ AnswersStayTrue

-----------------------------------------------------------------------------
(* The operators the steps are built from.                                 *)

\* The code made of an ending is the conventional one, and is a code.
LEMMA StatusOfEnding ==
    ASSUME NEW e \in Endings
    PROVE  status_of(e) = ConventionalCode(e) /\ status_of(e) \in Codes
BY DEF status_of, ConventionalCode, Codes, Endings

\* The code 0 that wait_for() answers on ECHILD is a code.
LEMMA ZeroIsCode == 0 \in Codes
BY DEF Codes

\* A code is never mistaken for the empty optional.
LEMMA CodeIsNotNoCode == NoCode \notin Codes
<1>1. \A s \in Statuses : s \in Int BY ProcessAssumption
<1>2. \A s \in Signals : 128 + s \in Int BY ProcessAssumption
<1>3. \A x \in Codes : x \in Int BY <1>1, <1>2 DEF Codes
<1>4. NoCode \notin Int BY ProcessAssumption
<1> QED BY <1>3, <1>4

\* wait_for() of a child that ended yields a code.
LEMMA WaitForTyped ==
    ASSUME ChildTypeOK, EndedHaveEndings, NEW p \in Procs
    PROVE  wait_for_result(p) \in Codes
BY StatusOfEnding, ZeroIsCode
DEF wait_for_result, reported_status, Zombie, EndedHaveEndings

\* Every libuv call keeps the pool well typed.
LEMMA PoolTyped ==
    ASSUME PoolTypeOK, NEW i \in Items,
           \/ uv_queue_work(i) \/ WorkerTakes(i) \/ WorkerReturns(i)
           \/ uv_cancel(i) \/ uv_run_nowait \/ uv_run_once \/ uv_stop
           \/ UNCHANGED poolVars
    PROVE  PoolTypeOK'
<1> USE DEF PoolTypeOK, WorkStates
<1>1. CASE uv_queue_work(i) BY <1>1 DEF uv_queue_work
<1>2. CASE WorkerTakes(i) BY <1>2 DEF WorkerTakes
<1>3. CASE WorkerReturns(i) BY <1>3 DEF WorkerReturns
<1>4. CASE uv_cancel(i) BY <1>4 DEF uv_cancel, RemoveAt
<1>5. CASE uv_run_nowait BY <1>5 DEF uv_run_nowait, Driven
<1>6. CASE uv_run_once BY <1>6 DEF uv_run_once, uv_run_nowait, Driven
<1>7. CASE uv_stop BY <1>7 DEF uv_stop
<1>8. CASE UNCHANGED poolVars BY <1>8 DEF poolVars
<1> QED BY <1>1, <1>2, <1>3, <1>4, <1>5, <1>6, <1>7, <1>8

\* The wait work of a process is one of the pool's items.
LEMMA WaitWorkIsItem ==
    ASSUME NEW p \in Procs
    PROVE  WaitWork(p) \in Items
BY DEF WaitWork, Items, Kinds

\* begin_wait() keeps the pool well typed, submitted or refused.
LEMMA BeginWaitTyped ==
    ASSUME PoolTypeOK, NEW p \in Procs, begin_wait(p)
    PROVE  PoolTypeOK'
BY PoolTyped, WaitWorkIsItem DEF begin_wait

\* Entering, leaving and pausing a call keep the callers well typed.
CallsOK == CallTypeOK /\ CallsHaveProcs

\* Entering a call keeps the callers well typed.
LEMMA EnterTyped ==
    ASSUME CallsOK, NEW c \in Callers, NEW p \in Procs \cup {NoProc},
           NEW o, NEW l \in Limits, NEW w \in PCs, Enter(c, p, o, l, w),
           p \in Procs \/ w = "poll_once"
    PROVE  CallsOK'
<1>1. o \in AllOps BY ProcessAssumption DEF Enter
<1>2. Nothing \in [is : Answers, code : Codes]
  BY ZeroIsCode DEF Nothing, Returned, Answers
<1>3. CallTypeOK' BY <1>1, <1>2 DEF CallsOK, CallTypeOK, Enter
<1>4. CallsHaveProcs' BY <1>3 DEF CallsOK, CallTypeOK, CallsHaveProcs, Enter
<1> QED BY <1>3, <1>4 DEF CallsOK

\* Returning from a call keeps the callers well typed.
LEMMA ReturnTyped ==
    ASSUME CallsOK, NEW c \in Callers, NEW is \in Answers, NEW code \in Codes,
           Return(c, is, code)
    PROVE  CallsOK'
<1>1. Returned(is, code) \in [is : Answers, code : Codes] BY DEF Returned
<1> QED BY <1>1 DEF CallsOK, CallTypeOK, CallsHaveProcs, Return, PCs, Limits

\* So does moving on within a call that has a process.
LEMMA GotoTyped ==
    ASSUME CallsOK, NEW c \in Callers, NEW w \in PCs, Goto(c, w),
           on[c] \in Procs
    PROVE  CallsOK'
BY DEF CallsOK, CallTypeOK, CallsHaveProcs, Goto

\* So does handing the OS thread over.
LEMMA PauseTyped ==
    ASSUME CallsOK, NEW h \in Callers \cup {NoOne}, Pause(h)
    PROVE  CallsOK'
BY DEF CallsOK, CallTypeOK, CallsHaveProcs, Pause

\* A step that touches no call keeps the callers well typed.
LEMMA CallsUnchanged ==
    ASSUME CallsOK, UNCHANGED callVars
    PROVE  CallsOK'
BY DEF CallsOK, CallTypeOK, CallsHaveProcs, callVars

-----------------------------------------------------------------------------
(* Type correctness.                                                       *)

ChildOK == ChildTypeOK /\ EndedHaveEndings

\* Whoever has the PID is reaped if it ended.
LEMMA ReapKeepsChild ==
    ASSUME ChildOK, NEW p \in Procs, Reap(p)
    PROVE  /\ ChildOK' /\ UNCHANGED <<fate, taker_codes>>
           /\ child' = [child EXCEPT ![p] = IF @ = "zombie" THEN "reaped" ELSE @]
<1> USE DEF ChildOK, ChildTypeOK
<1>1. NoEnding \in Endings \cup {NoEnding}
  OBVIOUS
<1>2. ChildTypeOK'
  BY <1>1 DEF Reap
<1>3. ASSUME NEW q \in Procs \ {p}
      PROVE  /\ child'[q] = child[q] /\ taker'[q] = taker[q]
             /\ taker_fate'[q] = taker_fate[q]
  BY DEF Reap
<1>4. /\ child[p] # "running" <=> child'[p] # "running"
      /\ child[p] = "reaped" => child'[p] = "reaped"
      /\ taker'[p] # "zombie"
      /\ taker'[p] # "none" => taker[p] # "none"
  BY DEF Reap
<1>5. UNCHANGED <<fate, taker_codes>>
  BY DEF Reap
<1>6. EndedHaveEndings'
  BY <1>3, <1>4, <1>5 DEF EndedHaveEndings
<1> QED BY <1>2, <1>5, <1>6 DEF Reap

\* wait_for() reaps a child that has an ending.
LEMMA WaitForKeepsChild ==
    ASSUME ChildOK, NEW p \in Procs, wait_for(p)
    PROVE  /\ ChildOK' /\ UNCHANGED <<fate, taker_codes>>
           /\ child[p] # "running" /\ child' = [child EXCEPT ![p] = "reaped"]
<1>1. child[p] # "running" /\ Reap(p)
  BY DEF wait_for, Running
<1> QED BY <1>1, ReapKeepsChild DEF ChildOK, ChildTypeOK

\* Until a child is reaped wait_for() speaks of that child.
LEMMA WaitForOfOwn ==
    ASSUME ChildOK, NEW p \in Procs, child[p] = "zombie"
    PROVE  /\ fate[p] \in Endings
           /\ wait_for_result(p) = ConventionalCode(fate[p])
BY StatusOfEnding
DEF ChildOK, EndedHaveEndings, wait_for_result, reported_status, Zombie

\* The PID of a child that was reaped changes hands.
TakerSteps(p) == TakesPid(p) \/ TakerExits(p) \/ TakerReaped(p)

LEMMA TakersKeepChild ==
    ASSUME ChildOK, NEW p \in Procs, TakerSteps(p)
    PROVE  /\ ChildOK' /\ UNCHANGED <<child, fate>>
           /\ UNCHANGED <<poolVars, handle, holderVars, work_code, callVars>>
           /\ \A q \in Procs : taker_codes[q] \subseteq taker_codes'[q]
<1> USE DEF ChildOK, ChildTypeOK
<1>1. CASE TakesPid(p)
  BY <1>1 DEF TakesPid, EndedHaveEndings
<1>2. CASE TakerExits(p)
  <2>1. PICK e \in Endings :
          /\ taker_fate' = [taker_fate EXCEPT ![p] = e]
          /\ taker_codes' = [taker_codes EXCEPT ![p] = @ \cup {ConventionalCode(e)}]
    BY <1>2 DEF TakerExits
  <2>2. ConventionalCode(e) \in Codes
    BY StatusOfEnding
  <2>3. /\ taker[p] = "running" /\ taker' = [taker EXCEPT ![p] = "zombie"]
        /\ UNCHANGED <<child, fate>>
        /\ UNCHANGED <<poolVars, handle, holderVars, work_code, callVars>>
    BY <1>2 DEF TakerExits
  <2>. HIDE DEF Endings, Codes
  <2>4. ChildTypeOK'
    BY <2>1, <2>2, <2>3
  <2>5. \A q \in Procs : taker_codes[q] \subseteq taker_codes'[q]
    BY <2>1
  <2>6. EndedHaveEndings'
    BY <2>1, <2>3 DEF EndedHaveEndings
  <2> QED BY <2>3, <2>4, <2>5, <2>6
<1>3. CASE TakerReaped(p)
  <2>1. /\ taker[p] = "zombie" /\ Reap(p)
        /\ UNCHANGED <<poolVars, handle, holderVars, work_code, callVars>>
    BY <1>3 DEF TakerReaped
  <2>2. child[p] = "reaped"
    BY <2>1 DEF EndedHaveEndings
  <2> QED BY <2>1, <2>2, ReapKeepsChild
<1> QED BY <1>1, <1>2, <1>3 DEF TakerSteps

\* A step that touches no child keeps them well typed.
LEMMA ChildUnchanged ==
    ASSUME ChildOK, UNCHANGED childVars
    PROVE  ChildOK'
BY DEF ChildOK, ChildTypeOK, EndedHaveEndings, childVars, pidVars

\* A step that touches no member_holder keeps them well typed.
LEMMA HolderUnchanged ==
    ASSUME HolderTypeOK, UNCHANGED <<handle, holderVars, work_code>>
    PROVE  HolderTypeOK'
BY DEF HolderTypeOK, holderVars

\* drive_wait moves a code from the work to the cache.
LEMMA DriveWaitTyped ==
    ASSUME PoolTypeOK, HolderTypeOK, NEW p \in Procs, NEW r \in BOOLEAN,
           drive_wait(p, r), UNCHANGED <<handle, work_code>>
    PROVE  PoolTypeOK' /\ HolderTypeOK'
<1>1. Driven \in [Items -> WorkStates]
  BY DEF Driven, PoolTypeOK, WorkStates
<1>2. PoolTypeOK'
  <2>1. CASE r
    BY <1>1, <2>1, WaitWorkIsItem
    DEF PoolTypeOK, drive_wait, take_result, WorkStates
  <2>2. CASE ~r
    BY <1>1, <2>2 DEF PoolTypeOK, drive_wait
  <2> QED BY <2>1, <2>2
<1>3. HolderTypeOK'
  <2>1. CASE r
    <3>1. take_result(p) BY <2>1, Zenon DEF drive_wait
    <3> QED BY <3>1 DEF HolderTypeOK, take_result
  <2>2. CASE ~r
    BY <2>2 DEF HolderTypeOK, drive_wait, holderVars
  <2> QED BY <2>1, <2>2
<1> QED BY <1>2, <1>3

\* poll_wait() keeps the pool and the holders well typed.
LEMMA PollWaitTyped ==
    ASSUME PoolTypeOK, HolderTypeOK, NEW p \in Procs, NEW r \in BOOLEAN,
           poll_wait(p, r), UNCHANGED <<handle, work_code>>
    PROVE  PoolTypeOK' /\ HolderTypeOK'
<1>1. CASE /\ UNCHANGED <<exit_code, poolVars>>
           /\ \/ UNCHANGED observed_exited
              \/ observed_exited' = [observed_exited EXCEPT ![p] = r]
  BY <1>1 DEF PoolTypeOK, HolderTypeOK, poolVars
<1>2. CASE drive_wait(p, r)
  BY <1>2, DriveWaitTyped
<1> QED BY <1>1, <1>2 DEF poll_wait, holderVars

\* WellFormed, regrouped by component.
LEMMA WellFormedParts ==
    WellFormed <=> PoolTypeOK /\ ChildOK /\ HolderTypeOK /\ CallsOK
BY DEF WellFormed, TypeOK, ChildOK, CallsOK

\* The same regrouping for the next state.
LEMMA WellFormedPartsPrime ==
    WellFormed' <=> PoolTypeOK' /\ ChildOK' /\ HolderTypeOK' /\ CallsOK'
BY Zenon DEF WellFormed, TypeOK, ChildOK, CallsOK

\* The initial state is well formed.
LEMMA TypeInit == Init => WellFormed
<1> SUFFICES ASSUME Init PROVE WellFormed
  OBVIOUS
<1>1. PoolTypeOK
  <2>1. work \in [Items -> WorkStates]
    BY DEF Init, PoolInit, WorkStates
  <2>2. queue \in Seq(Items)
    BY DEF Init, PoolInit
  <2> QED BY <2>1, <2>2 DEF Init, PoolInit, PoolTypeOK
<1>2. ChildOK
  BY DEF Init, ChildOK, ChildTypeOK, EndedHaveEndings
<1>3. HolderTypeOK
  BY ZeroIsCode DEF Init, HolderTypeOK
<1>4. Nothing \in [is : Answers, code : Codes]
  BY ZeroIsCode DEF Nothing, Returned, Answers
<1>5. CallsOK
  BY <1>4 DEF Init, CallsOK, CallTypeOK, CallsHaveProcs, PCs, Limits
<1> QED BY <1>1, <1>2, <1>3, <1>5, WellFormedParts

\* No step of a child, a pool thread or the event loop breaks a type.
LEMMA EnvironmentTyped ==
    ASSUME WellFormed,
           \/ \E p \in Procs : ChildExits(p) \/ ExternalReap(p) \/ wait_work_cb(p)
           \/ \E p \in Procs : TakerSteps(p)
           \/ \E i \in Items : Take(i)
           \/ async_poll \/ async_stop
    PROVE  WellFormed'
<1> USE WellFormedParts, WellFormedPartsPrime
<1>1. ASSUME NEW p \in Procs, ChildExits(p) PROVE WellFormed'
  <2>1. ChildOK'
    BY <1>1 DEF ChildExits, ChildOK, ChildTypeOK, EndedHaveEndings, pidVars
  <2>2. PoolTypeOK'
    BY <1>1 DEF ChildExits, PoolTypeOK, poolVars
  <2>3. HolderTypeOK'
    BY <1>1, HolderUnchanged DEF ChildExits
  <2>4. CallsOK'
    BY <1>1, CallsUnchanged DEF ChildExits
  <2> QED BY <2>1, <2>2, <2>3, <2>4
<1>2. ASSUME NEW p \in Procs, ExternalReap(p) PROVE WellFormed'
  <2>1. ChildOK'
    BY <1>2 DEF ExternalReap, ChildOK, ChildTypeOK, EndedHaveEndings, pidVars
  <2>2. PoolTypeOK'
    BY <1>2 DEF ExternalReap, PoolTypeOK, poolVars
  <2>3. HolderTypeOK'
    BY <1>2, HolderUnchanged DEF ExternalReap
  <2>4. CallsOK'
    BY <1>2, CallsUnchanged DEF ExternalReap
  <2> QED BY <2>1, <2>2, <2>3, <2>4
<1>3. ASSUME NEW p \in Procs, wait_work_cb(p) PROVE WellFormed'
  <2>1. PoolTypeOK'
    BY <1>3, PoolTyped, WaitWorkIsItem DEF wait_work_cb
  <2>2. ChildOK'
    BY <1>3, WaitForKeepsChild DEF wait_work_cb
  <2>3. HolderTypeOK'
    BY <1>3, WaitForTyped DEF wait_work_cb, HolderTypeOK, holderVars, ChildOK
  <2>4. CallsOK'
    BY <1>3, CallsUnchanged DEF wait_work_cb
  <2> QED BY <2>1, <2>2, <2>3, <2>4
<1>0. ASSUME NEW p \in Procs, TakerSteps(p) PROVE WellFormed'
  <2>1. /\ ChildOK'
        /\ UNCHANGED <<poolVars, handle, holderVars, work_code, callVars>>
    BY <1>0, TakersKeepChild
  <2>2. PoolTypeOK'
    BY <2>1 DEF PoolTypeOK, poolVars
  <2> QED BY <2>1, <2>2, HolderUnchanged, CallsUnchanged
<1>4. ASSUME NEW i \in Items, Take(i) PROVE WellFormed'
  BY <1>4, PoolTyped, ChildUnchanged, HolderUnchanged, CallsUnchanged DEF Take
<1>5. ASSUME async_poll \/ async_stop PROVE WellFormed'
  <2>1. PoolTypeOK'
    BY <1>5 DEF async_poll, async_stop, uv_run_nowait, uv_stop, Driven,
                PoolTypeOK, WorkStates
  <2>2. UNCHANGED <<childVars, handle, holderVars, work_code, callVars>>
    BY <1>5 DEF async_poll, async_stop
  <2> QED BY <2>1, <2>2, ChildUnchanged, HolderUnchanged, CallsUnchanged
<1> QED BY <1>0, <1>1, <1>2, <1>3, <1>4, <1>5

\* Nor does the start of a call.
LEMMA CallTyped ==
    ASSUME WellFormed, NEW c \in Callers, NEW p \in Procs,
           Call(c, p)
    PROVE  WellFormed'
<1> USE WellFormedParts, WellFormedPartsPrime DEF PCs, Limits
<1>1. CASE wait(c, p)
  <2>1. CallsOK' BY <1>1, EnterTyped DEF wait
  <2>2. PoolTypeOK' BY <1>1, BeginWaitTyped DEF wait, PoolTypeOK, poolVars
  <2> QED BY <1>1, <2>1, <2>2, ChildUnchanged, HolderUnchanged DEF wait
<1>2. CASE try_wait(c, p)
  <2>1. CallsOK' BY <1>2, EnterTyped DEF try_wait
  <2>2. PoolTypeOK' BY <1>2 DEF try_wait, PoolTypeOK, poolVars
  <2> QED BY <1>2, <2>1, <2>2, ChildUnchanged, HolderUnchanged DEF try_wait
<1>3. CASE has_exited(c, p)
  <2>1. CallsOK' BY <1>3, EnterTyped DEF has_exited
  <2>2. PoolTypeOK' BY <1>3 DEF has_exited, PoolTypeOK, poolVars
  <2> QED BY <1>3, <2>1, <2>2, ChildUnchanged, HolderUnchanged DEF has_exited
<1>4. CASE wait_poll(c, p)
  <2>1. CallsOK' BY <1>4, EnterTyped DEF wait_poll
  <2>2. PoolTypeOK' BY <1>4, BeginWaitTyped DEF wait_poll
  <2> QED BY <1>4, <2>1, <2>2, ChildUnchanged, HolderUnchanged DEF wait_poll
<1>5. CASE wait_with(c, p)
  <2>1. CallsOK' BY <1>5, EnterTyped DEF wait_with
  <2>2. PoolTypeOK' BY <1>5, BeginWaitTyped DEF wait_with
  <2> QED BY <1>5, <2>1, <2>2, ChildUnchanged, HolderUnchanged DEF wait_with
<1>6. CASE wait_timeout_ms(c, p)
  <2>1. CallsOK' BY <1>6, EnterTyped DEF wait_timeout_ms
  <2>2. PoolTypeOK' BY <1>6 DEF wait_timeout_ms, PoolTypeOK, poolVars
  <2> QED BY <1>6, <2>1, <2>2, ChildUnchanged, HolderUnchanged
          DEF wait_timeout_ms
<1>7. CASE destroy(c, p)
  <2>1. CallsOK' BY <1>7, EnterTyped DEF destroy
  <2>2. PoolTypeOK' BY <1>7 DEF destroy, PoolTypeOK, poolVars
  <2>3. HolderTypeOK' BY <1>7 DEF destroy, HolderTypeOK, holderVars
  <2> QED BY <1>7, <2>1, <2>2, <2>3, ChildUnchanged DEF destroy
<1> QED BY <1>1, <1>2, <1>3, <1>4, <1>5, <1>6, <1>7 DEF Call

\* Nor does the start of process.async.poll_once().
LEMMA AsyncPollOnceTyped ==
    ASSUME WellFormed, NEW c \in Callers, async_poll_once(c)
    PROVE  WellFormed'
<1> USE WellFormedParts, WellFormedPartsPrime DEF PCs, Limits
<1>1. CallsOK' BY EnterTyped DEF async_poll_once
<1>2. PoolTypeOK' BY DEF async_poll_once, PoolTypeOK, poolVars
<1> QED BY <1>1, <1>2, ChildUnchanged, HolderUnchanged DEF async_poll_once

\* Nor does a step of a call under way.
LEMMA OnMissTyped ==
    ASSUME CallsOK, NEW c \in Callers, on_miss(c)
    PROVE  CallsOK'
<1>1. CASE \E is \in {"null", "false", "throw"} : Return(c, is, 0)
  BY <1>1, ReturnTyped, ZeroIsCode DEF Answers
<1>2. CASE Pause(NoOne) \/ Pause(c)
  BY <1>2, PauseTyped
<1> QED BY <1>1, <1>2 DEF on_miss, cs_runtime_yield

\* Nor does one round of a polling loop.
LEMMA PollTyped ==
    ASSUME WellFormed, NEW c \in Callers, Poll(c)
    PROVE  WellFormed'
<1> USE WellFormedParts, WellFormedPartsPrime
<1>1. on[c] \in Procs
  BY DEF Poll, CallsOK, CallsHaveProcs
<1>2. PICK r \in BOOLEAN : /\ poll_wait(on[c], r)
                           /\ IF r THEN on_hit(c) ELSE on_miss(c)
  BY Zenon DEF Poll
<1>3. UNCHANGED <<childVars, handle, work_code>>
  BY DEF Poll
<1>4. PoolTypeOK' /\ HolderTypeOK'
  BY <1>1, <1>2, <1>3, PollWaitTyped
<1>5. CASE on_hit(c)
  <2>1. CASE Return(c, "true", 0)
    BY <1>3, <1>4, <2>1, ReturnTyped, ZeroIsCode, ChildUnchanged DEF Answers
  <2>2. CASE Goto(c, "collect")
    BY <1>1, <1>3, <1>4, <2>2, GotoTyped, ChildUnchanged DEF PCs
  <2> QED BY <1>5, <2>1, <2>2 DEF on_hit
<1>6. CASE on_miss(c)
  BY <1>3, <1>4, <1>6, OnMissTyped, ChildUnchanged
<1> QED BY <1>2, <1>5, <1>6, Zenon

\* Nor does collect_wait(), by any of its three ways.
LEMMA CollectTyped ==
    ASSUME WellFormed, NEW c \in Callers, collect_wait(c)
    PROVE  WellFormed'
<1> USE WellFormedParts, WellFormedPartsPrime
<1>1. on[c] \in Procs
  BY DEF collect_wait, CallsOK, CallsHaveProcs
<1>2. "code" \in Answers BY DEF Answers
<1>3. UNCHANGED <<handle, work_code>> BY DEF collect_wait
<1>4. CASE collect_cached(c)
  <2>1. exit_code[on[c]] \in Codes
    BY <1>1, <1>4 DEF collect_cached, HolderTypeOK
  <2>2. CallsOK' BY <1>2, <1>4, <2>1, ReturnTyped DEF collect_cached
  <2>3. PoolTypeOK' BY <1>4 DEF collect_cached, PoolTypeOK, poolVars
  <2> QED BY <1>3, <1>4, <2>2, <2>3, ChildUnchanged, HolderUnchanged
          DEF collect_cached
<1>5. CASE collect_work(c)
  <2>1. PICK ready \in BOOLEAN :
          /\ drive_wait(on[c], ready)
          /\ IF ready THEN Return(c, "code", work_code[on[c]]) ELSE Pause(c)
    BY <1>5, Zenon DEF collect_work
  <2>2. PoolTypeOK' /\ HolderTypeOK'
    BY <1>1, <1>3, <2>1, DriveWaitTyped
  <2>3. work_code[on[c]] \in Codes
    BY <1>1 DEF HolderTypeOK
  <2>4. Return(c, "code", work_code[on[c]]) \/ Pause(c)
    BY <2>1, Zenon
  <2>5. CallsOK'
    BY <1>2, <2>3, <2>4, ReturnTyped, PauseTyped
  <2> QED BY <1>5, <2>2, <2>5, ChildUnchanged DEF collect_work
<1>6. CASE collect_sync(c)
  <2>1. wait_for_result(on[c]) \in Codes
    BY <1>1, WaitForTyped DEF ChildOK
  <2>2. CallsOK' BY <1>2, <1>6, <2>1, ReturnTyped DEF collect_sync
  <2>3. HolderTypeOK' BY <1>3, <1>6, <2>1 DEF collect_sync, HolderTypeOK
  <2>4. ChildOK' BY <1>1, <1>6, WaitForKeepsChild DEF collect_sync
  <2>5. PoolTypeOK' BY <1>6 DEF collect_sync, PoolTypeOK, poolVars
  <2> QED BY <2>2, <2>3, <2>4, <2>5
<1> QED BY <1>4, <1>5, <1>6 DEF collect_wait

\* wait_timeout_ms() caches and returns a code.
LEMMA StoreAndReturnTyped ==
    ASSUME PoolTypeOK, HolderTypeOK, CallsOK, NEW c \in Callers,
           NEW code \in Codes, StoreAndReturn(c, code)
    PROVE  PoolTypeOK' /\ HolderTypeOK' /\ CallsOK'
<1>1. CallsOK' BY ReturnTyped DEF StoreAndReturn, Answers
<1>2. HolderTypeOK' BY DEF StoreAndReturn, HolderTypeOK
<1>3. PoolTypeOK' BY DEF StoreAndReturn, PoolTypeOK, poolVars
<1> QED BY <1>1, <1>2, <1>3

\* Nor does a step of wait_timeout_ms().
LEMMA TimedTyped ==
    ASSUME WellFormed, NEW c \in Callers, timed_poll(c) \/ timed_reap(c)
    PROVE  WellFormed'
<1> USE WellFormedParts, WellFormedPartsPrime
<1>1. on[c] \in Procs
  BY DEF timed_poll, timed_reap, CallsOK, CallsHaveProcs
<1>2. CASE timed_cached(c)
  <2>1. exit_code[on[c]] \in Codes
    BY <1>1, <1>2 DEF timed_cached, HolderTypeOK
  <2>2. CallsOK' BY <1>2, <2>1, ReturnTyped DEF timed_cached, Answers
  <2>3. PoolTypeOK' BY <1>2 DEF timed_cached, PoolTypeOK, poolVars
  <2> QED BY <1>2, <2>2, <2>3, ChildUnchanged, HolderUnchanged
          DEF timed_cached
<1>3. CASE timed_forever(c)
  BY <1>1, <1>3, WaitForTyped, WaitForKeepsChild, StoreAndReturnTyped
  DEF timed_forever, ChildOK
<1>4. CASE timed_seen(c)
  <2>1. reported_status(on[c]) \in Codes
    BY <1>1, <1>4, StatusOfEnding
    DEF timed_seen, Zombie, reported_status, ChildOK, EndedHaveEndings
  <2>2. Returned("pending", reported_status(on[c])) \in [is : Answers, code : Codes]
    BY <2>1 DEF Returned, Answers
  <2>3. CallTypeOK'
    BY <1>4, <2>2 DEF timed_seen, CallsOK, CallTypeOK, PCs
  <2>4. CallsHaveProcs'
    BY <1>1, <1>4 DEF timed_seen, CallsOK, CallTypeOK, CallsHaveProcs
  <2>5. PoolTypeOK' BY <1>4 DEF timed_seen, PoolTypeOK, poolVars
  <2> QED BY <1>4, <2>3, <2>4, <2>5, ChildUnchanged, HolderUnchanged
          DEF timed_seen, CallsOK
<1>5. CASE timed_gone(c)
  BY <1>5, ZeroIsCode, StoreAndReturnTyped, ChildUnchanged DEF timed_gone
<1>6. CASE timed_out(c)
  <2>1. CallsOK' BY <1>6, ReturnTyped, ZeroIsCode DEF timed_out, Answers
  <2>2. PoolTypeOK' BY <1>6 DEF timed_out, PoolTypeOK, poolVars
  <2> QED BY <1>6, <2>1, <2>2, ChildUnchanged, HolderUnchanged DEF timed_out
<1>7. CASE timed_reap(c)
  <2>1. ret[c].code \in Codes BY DEF CallsOK, CallTypeOK
  <2>2. ChildOK' BY <1>1, <1>7, ReapKeepsChild DEF timed_reap
  <2> QED BY <1>7, <2>1, <2>2, StoreAndReturnTyped DEF timed_reap
<1> QED BY <1>2, <1>3, <1>4, <1>5, <1>6, <1>7 DEF timed_poll

\* Nor does a join in the destructor.
LEMMA AwaitTyped ==
    ASSUME WellFormed, NEW c \in Callers, NEW k \in Kinds, await_work(c, k)
    PROVE  WellFormed'
<1> USE WellFormedParts, WellFormedPartsPrime
<1> DEFINE i == <<on[c], k>>
<1>1. on[c] \in Procs
  BY DEF await_work, JoinAt, Kinds, CallsOK, CallsHaveProcs
<1>2. i \in Items BY <1>1 DEF Items
<1>3. ChildOK' BY ChildUnchanged DEF await_work
<1>4. PoolTypeOK'
  <2>1. CASE UNCHANGED poolVars \/ uv_cancel(i) \/ uv_run_nowait
    BY <1>2, <2>1, PoolTyped
  <2>2. CASE work' = [work EXCEPT ![i] = "null"] /\ UNCHANGED <<queue, stop_flag>>
    BY <1>2, <2>2 DEF PoolTypeOK, WorkStates
  <2> QED BY <2>1, <2>2 DEF await_work
<1>5. joined(c, k) \/ (Pause(c) /\ UNCHANGED handle)
  BY DEF await_work
<1>6. UNCHANGED <<holderVars, work_code>> BY DEF await_work
<1>7. CASE joined(c, k)
  <2>1. ASSUME Goto(c, "join_out") \/ Goto(c, "join_err") PROVE CallsOK'
    BY <1>1, <2>1, GotoTyped DEF PCs
  <2>2. ASSUME Return(c, "nothing", 0) PROVE CallsOK'
    BY <2>2, ReturnTyped, ZeroIsCode DEF Answers
  <2>3. CallsOK' BY <1>7, <2>1, <2>2 DEF joined
  <2>4. HolderTypeOK' BY <1>1, <1>6, <1>7 DEF joined, HolderTypeOK, holderVars
  <2> QED BY <1>3, <1>4, <2>3, <2>4
<1>8. CASE Pause(c) /\ UNCHANGED handle
  BY <1>3, <1>4, <1>6, <1>8, PauseTyped, HolderUnchanged
<1> QED BY <1>5, <1>7, <1>8

\* Nor does the return of process.async.poll_once().
LEMMA PollOnceTyped ==
    ASSUME WellFormed, NEW c \in Callers, poll_once(c)
    PROVE  WellFormed'
<1> USE WellFormedParts, WellFormedPartsPrime
<1>1. PoolTypeOK'
  BY DEF poll_once, uv_run_once, uv_run_nowait, Driven, PoolTypeOK, WorkStates
<1>2. CallsOK' BY ReturnTyped, ZeroIsCode DEF poll_once, Answers
<1> QED BY <1>1, <1>2, ChildUnchanged, HolderUnchanged DEF poll_once

\* Every step keeps the state well formed.
LEMMA TypeStep == WellFormed /\ [Next]_vars => WellFormed'
<1> SUFFICES ASSUME WellFormed, [Next]_vars PROVE WellFormed'
  OBVIOUS
<1>1. CASE UNCHANGED vars
  <2>1. UNCHANGED <<poolVars, childVars, handle, holderVars, work_code, callVars>>
    BY <1>1 DEF vars
  <2>2. PoolTypeOK' BY <2>1, WellFormedParts DEF PoolTypeOK, poolVars
  <2> QED BY <2>1, <2>2, WellFormedParts, WellFormedPartsPrime,
             ChildUnchanged, HolderUnchanged, CallsUnchanged
<1>2. CASE Next
  <2>1. CASE \/ \E p \in Procs : ChildExits(p) \/ ExternalReap(p) \/ wait_work_cb(p)
             \/ \E p \in Procs : TakerSteps(p)
             \/ \E i \in Items : Take(i)
             \/ async_poll \/ async_stop
    BY <2>1, EnvironmentTyped
  <2>2. ASSUME NEW c \in Callers, NEW p \in Procs, Call(c, p)
        PROVE  WellFormed'
    BY <2>2, CallTyped
  <2>3. ASSUME NEW c \in Callers, Step(c) PROVE WellFormed'
    BY <2>3, PollTyped, CollectTyped, TimedTyped, PollOnceTyped, AwaitTyped
    DEF Step
  <2>4. ASSUME NEW c \in Callers, async_poll_once(c) PROVE WellFormed'
    BY <2>4, AsyncPollOnceTyped
  <2> QED BY <1>2, <2>1, <2>2, <2>3, <2>4 DEF Next, TakerSteps
<1> QED BY <1>1, <1>2

\* Every reachable state of ProcessWait is well typed, whatever calls the
\* script makes and whatever the environment does: exit codes, cached or
\* returned, are codes, and every call under way has a process.
THEOREM TypeCorrect == Spec => []TypeOK
<1>1. Init => WellFormed BY TypeInit
<1>2. WellFormed /\ [Next]_vars => WellFormed' BY TypeStep
<1>3. WellFormed => TypeOK BY DEF WellFormed
<1> QED BY <1>1, <1>2, <1>3, PTL DEF Spec

-----------------------------------------------------------------------------
(* Faithful exit codes.                                                    *)

\* The C++-only wait_timeout_ms() is not mixed in and nothing outside the
\* library reaps the children.
LibraryReapsAlone == "wait_timeout_ms" \notin Ops /\ "external_reap" \notin Faults

Safe == CallsOwnHandles /\ StatusHasOneOwner /\ AnswersStayTrue

\* The initial state is safe.
LEMMA SafeInit == Init => Safe
BY DEF Init, PoolInit, Safe, CallsOwnHandles, StatusHasOneOwner, OneOwner,
       AnswersStayTrue, Nothing, Returned, HasWork, WaitWork, Items, Kinds

\* The items of different processes are different.
LEMMA WaitWorkInjective ==
    ASSUME NEW p, NEW q, WaitWork(p) = WaitWork(q)
    PROVE  p = q
BY DEF WaitWork

\* A child that ends was reaped by nobody and has no code.
LEMMA ChildExitsSafe ==
    ASSUME IInv, NEW p \in Procs, ChildExits(p)
    PROVE  Safe'
<1> USE DEF IInv, WellFormed, TypeOK, ChildTypeOK, CallTypeOK
<1>1. CallsOwnHandles'
  BY DEF ChildExits, CallsOwnHandles, callVars
<1>2. StatusHasOneOwner'
  BY DEF ChildExits, StatusHasOneOwner, OneOwner, HasWork, poolVars, holderVars
<1>3. AnswersStayTrue'
  BY DEF ChildExits, AnswersStayTrue, callVars
<1> QED BY <1>1, <1>2, <1>3 DEF Safe

\* Who has the PID of a reaped child matters to no status.
LEMMA TakersSafe ==
    ASSUME IInv, NEW p \in Procs, TakerSteps(p)
    PROVE  Safe'
<1>1. /\ UNCHANGED <<child, fate>>
      /\ UNCHANGED <<poolVars, handle, holderVars, work_code, callVars>>
  BY TakersKeepChild, WellFormedParts DEF IInv
<1>2. CallsOwnHandles'
  BY <1>1 DEF IInv, CallsOwnHandles, callVars
<1>3. StatusHasOneOwner'
  BY <1>1 DEF IInv, StatusHasOneOwner, OneOwner, HasWork, poolVars, holderVars
<1>4. AnswersStayTrue'
  BY <1>1 DEF IInv, AnswersStayTrue, callVars
<1> QED BY <1>2, <1>3, <1>4 DEF Safe

\* The pool thread is the only one to reap: the child was a zombie.
LEMMA WaitWorkSafe ==
    ASSUME IInv, NEW p \in Procs, wait_work_cb(p)
    PROVE  Safe'
<1> USE DEF IInv, WellFormed, TypeOK, ChildTypeOK, CallTypeOK
<1>1. CallsOwnHandles'
  BY DEF wait_work_cb, CallsOwnHandles, callVars
<1>6. ChildOK BY DEF ChildOK
<1>7. /\ child[p] # "running" /\ child' = [child EXCEPT ![p] = "reaped"]
      /\ UNCHANGED fate
  BY <1>6, WaitForKeepsChild DEF wait_work_cb
<1>2. child[p] = "zombie"
  BY <1>7 DEF wait_work_cb, WorkerReturns, StatusHasOneOwner, OneOwner
<1>3. wait_for_result(p) = ConventionalCode(fate[p])
  BY <1>2, <1>6, WaitForOfOwn
<1>4. StatusHasOneOwner'
  BY <1>2, <1>3, <1>7, WaitWorkIsItem, WaitWorkInjective
  DEF wait_work_cb, WorkerReturns, StatusHasOneOwner, OneOwner, HasWork,
      holderVars, PoolTypeOK, HolderTypeOK
<1>5. AnswersStayTrue'
  BY <1>7 DEF wait_work_cb, AnswersStayTrue, callVars
<1> QED BY <1>1, <1>4, <1>5 DEF Safe

\* Steps that only move work along the pool, or run completions.
LEMMA PoolStepSafe ==
    ASSUME IInv, (\E i \in Items : Take(i)) \/ async_poll \/ async_stop
    PROVE  Safe'
<1> USE DEF IInv, WellFormed, TypeOK, PoolTypeOK
<1>1. UNCHANGED <<childVars, handle, holderVars, work_code, callVars>>
  BY DEF Take, async_poll, async_stop
<1>2. CallsOwnHandles' /\ AnswersStayTrue'
  BY <1>1 DEF CallsOwnHandles, AnswersStayTrue, callVars, childVars
<1>3. \A p \in Procs :
        LET i == WaitWork(p) IN
        \/ work'[i] = work[i]
        \/ work[i] = "queued" /\ work'[i] = "running"
        \/ work[i] = "returned" /\ work'[i] = "done"
  BY WaitWorkIsItem
  DEF Take, WorkerTakes, async_poll, uv_run_nowait, Driven, async_stop, uv_stop
<1>4. StatusHasOneOwner'
  BY <1>1, <1>3 DEF StatusHasOneOwner, OneOwner, HasWork, holderVars, childVars
<1> QED BY <1>2, <1>4 DEF Safe

\* Starting a call on a live handle, other than the destructor.
LEMMA EnterSafe ==
    ASSUME IInv, NEW c \in Callers, NEW p \in Procs, NEW o, NEW l,
           NEW w \in {"poll", "collect"}, handle[p] = "live",
           Enter(c, p, o, l, w), w = "collect" => c \notin Fibers,
           UNCHANGED <<childVars, handle>>
    PROVE  CallsOwnHandles' /\ AnswersStayTrue'
<1> USE DEF IInv, WellFormed, TypeOK, CallTypeOK
<1>1. CallsOwnHandles'
  BY ProcessAssumption DEF Enter, CallsOwnHandles
<1>2. AnswersStayTrue'
  BY DEF Enter, AnswersStayTrue, childVars, Nothing, Returned
<1> QED BY <1>1, <1>2

\* begin_wait() submits only for a child nobody has reaped.
LEMMA BeginWaitSafe ==
    ASSUME IInv, NEW p \in Procs, handle[p] = "live", begin_wait(p),
           UNCHANGED <<childVars, handle, holderVars, work_code>>
    PROVE  StatusHasOneOwner'
<1> USE DEF IInv, WellFormed, TypeOK, PoolTypeOK
<1>1. CASE UNCHANGED poolVars
  BY <1>1 DEF StatusHasOneOwner, OneOwner, HasWork, childVars, holderVars, poolVars
<1>2. CASE exit_code[p] = NoCode /\ ~HasWork(p) /\ uv_queue_work(WaitWork(p))
  <2>1. child[p] # "reaped"
    BY <1>2 DEF StatusHasOneOwner, OneOwner, HasWork
  <2> QED
    BY <1>2, <2>1, WaitWorkIsItem, WaitWorkInjective
    DEF StatusHasOneOwner, OneOwner, HasWork, uv_queue_work, childVars, holderVars
<1> QED BY <1>1, <1>2 DEF begin_wait

\* A step that leaves a status and its possible owners alone keeps them.
LEMMA OwnerUnchanged ==
    ASSUME StatusHasOneOwner,
           UNCHANGED <<poolVars, childVars, handle, holderVars, work_code>>
    PROVE  StatusHasOneOwner'
BY DEF StatusHasOneOwner, OneOwner, HasWork, poolVars, childVars, holderVars

\* The destructor starts only when no call on the process is under way.
LEMMA DestroySafe ==
    ASSUME IInv, NEW c \in Callers, NEW p \in Procs, destroy(c, p)
    PROVE  Safe'
<1> USE DEF IInv, WellFormed, TypeOK, CallTypeOK, HolderTypeOK
<1>1. CallsOwnHandles'
  BY ProcessAssumption DEF destroy, Enter, CallsOwnHandles, CallsHaveProcs
<1>2. AnswersStayTrue'
  BY DEF destroy, Enter, AnswersStayTrue, childVars, Nothing, Returned
<1>3. StatusHasOneOwner'
  BY DEF destroy, StatusHasOneOwner, OneOwner, HasWork, poolVars, childVars, holderVars
<1> QED BY <1>1, <1>2, <1>3 DEF Safe

\* The start of any call is safe.
LEMMA CallSafe ==
    ASSUME LibraryReapsAlone, IInv, NEW c \in Callers, NEW p \in Procs,
           Call(c, p)
    PROVE  Safe'
<1>1. CASE wait(c, p)
  <2>1. CallsOwnHandles' /\ AnswersStayTrue'
    BY <1>1, EnterSafe DEF wait
  <2>2. StatusHasOneOwner'
    BY <1>1, BeginWaitSafe, OwnerUnchanged DEF wait, IInv
  <2> QED BY <2>1, <2>2 DEF Safe
<1>2. CASE try_wait(c, p) \/ has_exited(c, p)
  BY <1>2, EnterSafe, OwnerUnchanged DEF try_wait, has_exited, Safe, IInv
<1>3. CASE wait_poll(c, p) \/ wait_with(c, p)
  BY <1>3, EnterSafe, BeginWaitSafe DEF wait_poll, wait_with, Safe
<1>4. CASE wait_timeout_ms(c, p)
  BY <1>4 DEF wait_timeout_ms, Enter, LibraryReapsAlone
<1>5. CASE destroy(c, p)
  BY <1>5, DestroySafe
<1> QED BY <1>1, <1>2, <1>3, <1>4, <1>5 DEF Call

\* process.async.poll_once() only runs completions.
LEMMA AsyncPollOnceSafe ==
    ASSUME IInv, NEW c \in Callers, async_poll_once(c) \/ poll_once(c)
    PROVE  Safe'
<1> USE DEF IInv, WellFormed, TypeOK, CallTypeOK, PoolTypeOK
<1>1. CASE async_poll_once(c)
  <2>1. CallsOwnHandles'
    BY <1>1, ProcessAssumption DEF async_poll_once, Enter, CallsOwnHandles
  <2>2. AnswersStayTrue'
    BY <1>1 DEF async_poll_once, Enter, AnswersStayTrue, childVars, Nothing,
                Returned
  <2> QED BY <1>1, <2>1, <2>2, OwnerUnchanged DEF async_poll_once, Safe
<1>2. CASE poll_once(c)
  <2>1. CallsOwnHandles'
    BY <1>2, ProcessAssumption DEF poll_once, Return, CallsOwnHandles, MayRun
  <2>2. AnswersStayTrue'
    BY <1>2 DEF poll_once, Return, AnswersStayTrue, childVars, Returned
  <2>3. \A p \in Procs :
          LET i == WaitWork(p) IN
          \/ work'[i] = work[i]
          \/ work[i] = "returned" /\ work'[i] = "done"
    BY <1>2, WaitWorkIsItem DEF poll_once, uv_run_once, uv_run_nowait, Driven
  <2>4. StatusHasOneOwner'
    BY <1>2, <2>3 DEF poll_once, StatusHasOneOwner, OneOwner, HasWork, holderVars,
                      childVars
  <2> QED BY <2>1, <2>2, <2>4 DEF Safe
<1> QED BY <1>1, <1>2

\* A child that ended stays ended, with the ending it had.
EndedStayEnded ==
    /\ fate' = fate
    /\ \A p \in Procs : child[p] # "running" => child'[p] # "running"

\* Returning a true answer is safe.
LEMMA ReturnSafe ==
    ASSUME IInv, NEW c \in Callers, NEW is, NEW code, MayRun(c),
           on[c] \in Procs, Return(c, is, code), UNCHANGED handle,
           EndedStayEnded,
           is \in {"code", "true"} => child'[on[c]] # "running",
           is = "code" => code = ConventionalCode(fate[on[c]])
    PROVE  CallsOwnHandles' /\ AnswersStayTrue'
<1> USE DEF IInv, WellFormed, TypeOK, CallTypeOK
<1>1. CallsOwnHandles'
  BY ProcessAssumption DEF Return, CallsOwnHandles, MayRun
<1>2. AnswersStayTrue'
  BY ProcessAssumption
  DEF Return, Returned, AnswersStayTrue, EndedStayEnded, CallsHaveProcs
<1> QED BY <1>1, <1>2

\* Yielding or keeping the OS thread is safe.
LEMMA PauseSafe ==
    ASSUME IInv, NEW c \in Callers, NEW h \in {c, NoOne}, MayRun(c), Pause(h),
           pc[c] \in {"poll", "collect"}, UNCHANGED <<handle, childVars>>
    PROVE  CallsOwnHandles' /\ AnswersStayTrue'
<1> USE DEF IInv, WellFormed, TypeOK, CallTypeOK
<1>1. CallsOwnHandles'
  BY ProcessAssumption DEF Pause, CallsOwnHandles, MayRun
<1>2. AnswersStayTrue'
  BY DEF Pause, AnswersStayTrue, childVars
<1> QED BY <1>1, <1>2

\* Going on to collect_wait() is safe once the child is gone.
LEMMA GotoCollectSafe ==
    ASSUME IInv, NEW c \in Callers, MayRun(c), pc[c] = "poll",
           Goto(c, "collect"), child[on[c]] # "running",
           UNCHANGED <<handle, childVars>>
    PROVE  CallsOwnHandles' /\ AnswersStayTrue'
<1> USE DEF IInv, WellFormed, TypeOK, CallTypeOK
<1>1. CallsOwnHandles'
  BY ProcessAssumption DEF Goto, CallsOwnHandles, MayRun
<1>2. AnswersStayTrue'
  BY DEF Goto, AnswersStayTrue, childVars
<1> QED BY <1>1, <1>2

\* Taking the work's result moves the one status from the work to the cache.
LEMMA DriveWaitSafe ==
    ASSUME IInv, NEW p \in Procs, NEW r \in BOOLEAN, handle[p] = "live",
           HasWork(p), drive_wait(p, r), UNCHANGED <<childVars, handle, work_code>>
    PROVE  /\ StatusHasOneOwner'
           /\ r => /\ child[p] = "reaped"
                   /\ work_code[p] = ConventionalCode(fate[p])
<1> USE DEF IInv, WellFormed, TypeOK, PoolTypeOK
<1>1. \A q \in Procs :
        LET i == WaitWork(q) IN
        \/ Driven[i] = work[i]
        \/ work[i] = "returned" /\ Driven[i] = "done"
  BY WaitWorkIsItem DEF Driven
<1>2. Driven \in [Items -> WorkStates] BY DEF Driven, WorkStates
<1>3. CASE r
  <2>1. take_result(p) /\ Driven[WaitWork(p)] = "done"
    BY <1>3, Zenon DEF drive_wait
  <2>2. child[p] = "reaped" /\ work_code[p] = ConventionalCode(fate[p])
    BY <1>1, <2>1 DEF StatusHasOneOwner, OneOwner
  <2>3. /\ exit_code' = [exit_code EXCEPT ![p] = work_code[p]]
        /\ observed_exited' = [observed_exited EXCEPT ![p] = TRUE]
        /\ work'[WaitWork(p)] = "null"
        /\ \A q \in Procs \ {p} : work'[WaitWork(q)] = Driven[WaitWork(q)]
    BY <1>2, <2>1, WaitWorkIsItem, WaitWorkInjective DEF take_result
  <2>4. OneOwner(p)'
    <3>1. exit_code'[p] = work_code[p] /\ child' = child /\ fate' = fate
      BY <2>3 DEF HolderTypeOK, childVars
    <3>2. work'[WaitWork(p)] = "null" BY <2>3
    <3>3. work_code[p] # NoCode BY CodeIsNotNoCode DEF HolderTypeOK
    <3> QED BY <2>2, <3>1, <3>2, <3>3 DEF OneOwner, HasWork
  <2>5. ASSUME NEW q \in Procs \ {p} PROVE OneOwner(q)'
    <3>1. OneOwner(q) BY DEF StatusHasOneOwner
    <3> QED BY <1>1, <2>3, <3>1 DEF OneOwner, HasWork, childVars, HolderTypeOK
  <2> QED BY <2>2, <2>4, <2>5 DEF StatusHasOneOwner
<1>4. CASE ~r
  <2>1. work' = Driven /\ UNCHANGED holderVars
    BY <1>4 DEF drive_wait
  <2> QED BY <1>1, <1>4, <2>1
          DEF StatusHasOneOwner, OneOwner, HasWork, childVars, holderVars
<1> QED BY <1>3, <1>4

\* poll_wait() moves the status from the work to the cache, and says yes
\* only of a child that is gone.
LEMMA PollWaitSafe ==
    ASSUME IInv, NEW p \in Procs, NEW r \in BOOLEAN, handle[p] = "live",
           poll_wait(p, r), UNCHANGED <<childVars, handle, work_code>>
    PROVE  StatusHasOneOwner' /\ (r => child[p] # "running")
<1> USE DEF IInv
<1>1. CASE /\ exit_code[p] # NoCode \/ observed_exited[p]
           /\ UNCHANGED <<holderVars, poolVars>>
  BY <1>1, OwnerUnchanged DEF StatusHasOneOwner, OneOwner
<1>2. CASE /\ r = process_exited(p)
           /\ observed_exited' = [observed_exited EXCEPT ![p] = r]
           /\ UNCHANGED <<exit_code, poolVars>>
  <2>1. r => child[p] # "running"
    BY <1>2 DEF process_exited, Running
  <2> QED BY <1>2, <2>1 DEF StatusHasOneOwner, OneOwner, HasWork, childVars,
                            poolVars, WellFormed, TypeOK, HolderTypeOK
<1>3. CASE HasWork(p) /\ drive_wait(p, r)
  BY <1>3, DriveWaitSafe
<1> QED BY <1>1, <1>2, <1>3 DEF poll_wait

\* One round of a polling loop is safe.
LEMMA PollSafe ==
    ASSUME IInv, NEW c \in Callers, Poll(c)
    PROVE  Safe'
<1>1. /\ on[c] \in Procs /\ handle[on[c]] = "live"
      /\ pc[c] = "poll" /\ MayRun(c)
      /\ UNCHANGED <<childVars, handle, work_code>>
  BY DEF Poll, IInv, WellFormed, CallsHaveProcs, CallsOwnHandles
<1>2. PICK r \in BOOLEAN : /\ poll_wait(on[c], r)
                           /\ IF r THEN on_hit(c) ELSE on_miss(c)
  BY Zenon DEF Poll
<1>3. StatusHasOneOwner' /\ (r => child[on[c]] # "running")
  BY <1>1, <1>2, PollWaitSafe
<1>4. EndedStayEnded BY <1>1 DEF EndedStayEnded, childVars
<1>5. CASE r
  <2>1. on_hit(c) BY <1>2, <1>5, Zenon
  <2>2. CASE Return(c, "true", 0)
    BY <1>1, <1>3, <1>4, <1>5, <2>2, ReturnSafe DEF Safe, childVars
  <2>3. CASE Goto(c, "collect")
    BY <1>1, <1>3, <1>5, <2>3, GotoCollectSafe DEF Safe
  <2> QED BY <2>1, <2>2, <2>3 DEF on_hit
<1>6. CASE ~r
  <2>1. on_miss(c) BY <1>2, <1>6, Zenon
  <2>2. CASE \E is \in {"null", "false", "throw"} : Return(c, is, 0)
    BY <1>1, <1>3, <1>4, <2>2, ReturnSafe DEF Safe
  <2>3. CASE Pause(NoOne) \/ Pause(c)
    BY <1>1, <1>3, <2>3, PauseSafe DEF Safe
  <2> QED BY <2>1, <2>2, <2>3 DEF on_miss, cs_runtime_yield
<1> QED BY <1>5, <1>6

\* collect_wait() is safe: whichever way it takes, it is the only owner.
LEMMA CollectSafe ==
    ASSUME IInv, NEW c \in Callers, collect_wait(c)
    PROVE  Safe'
<1>1. /\ on[c] \in Procs /\ handle[on[c]] = "live"
      /\ pc[c] = "collect" /\ MayRun(c)
      /\ UNCHANGED <<handle, work_code>>
  BY DEF collect_wait, IInv, WellFormed, CallsHaveProcs, CallsOwnHandles
<1>2. OneOwner(on[c]) BY <1>1 DEF IInv, StatusHasOneOwner
<1>3. CASE collect_cached(c)
  <2>1. UNCHANGED <<poolVars, childVars, holderVars>>
    BY <1>3 DEF collect_cached
  <2>2. EndedStayEnded BY <2>1 DEF EndedStayEnded, childVars
  <2>3. /\ child'[on[c]] # "running"
        /\ exit_code[on[c]] = ConventionalCode(fate[on[c]])
    BY <1>2, <1>3, <2>1 DEF collect_cached, OneOwner, childVars
  <2>4. CallsOwnHandles' /\ AnswersStayTrue'
    BY <1>1, <1>3, <2>2, <2>3, ReturnSafe DEF collect_cached
  <2> QED BY <1>1, <2>1, <2>4, OwnerUnchanged DEF Safe, IInv
<1>4. CASE collect_work(c)
  <2>1. PICK ready \in BOOLEAN :
          /\ drive_wait(on[c], ready)
          /\ IF ready THEN Return(c, "code", work_code[on[c]]) ELSE Pause(c)
    BY <1>4, Zenon DEF collect_work
  <2>2. HasWork(on[c]) /\ UNCHANGED childVars BY <1>4 DEF collect_work
  <2>3. /\ StatusHasOneOwner'
        /\ ready => /\ child[on[c]] = "reaped"
                    /\ work_code[on[c]] = ConventionalCode(fate[on[c]])
    BY <1>1, <2>1, <2>2, DriveWaitSafe
  <2>4. EndedStayEnded BY <2>2 DEF EndedStayEnded, childVars
  <2>5. CASE ready
    <3>1. Return(c, "code", work_code[on[c]]) BY <2>1, <2>5, Zenon
    <3> QED BY <1>1, <2>2, <2>3, <2>4, <2>5, <3>1, ReturnSafe
            DEF Safe, childVars
  <2>6. CASE ~ready
    <3>1. Pause(c) BY <2>1, <2>6, Zenon
    <3> QED BY <1>1, <2>2, <2>3, <3>1, PauseSafe DEF Safe
  <2> QED BY <2>5, <2>6
<1>5. CASE collect_sync(c)
  <2> USE DEF IInv, WellFormed, TypeOK, ChildTypeOK, HolderTypeOK, PoolTypeOK
  <2>7. ChildOK BY DEF ChildOK
  <2>8. /\ child[on[c]] # "running" /\ child' = [child EXCEPT ![on[c]] = "reaped"]
        /\ UNCHANGED fate
    BY <1>1, <1>5, <2>7, WaitForKeepsChild DEF collect_sync
  <2>1. child[on[c]] = "zombie"
    BY <1>1, <1>2, <1>5, <2>8 DEF collect_sync, OneOwner, HasWork
  <2>2. wait_for_result(on[c]) = ConventionalCode(fate[on[c]])
    BY <1>1, <2>1, <2>7, WaitForOfOwn
  <2>3. EndedStayEnded /\ child'[on[c]] = "reaped"
    BY <1>1, <2>8 DEF EndedStayEnded
  <2>4. CallsOwnHandles' /\ AnswersStayTrue'
    BY <1>1, <1>5, <2>2, <2>3, ReturnSafe DEF collect_sync
  <2>5. wait_for_result(on[c]) # NoCode
    BY <1>1, WaitForTyped, CodeIsNotNoCode
  <2>6. ASSUME NEW q \in Procs PROVE OneOwner(q)'
    <3>1. CASE q = on[c]
      BY <1>1, <1>2, <1>5, <2>2, <2>3, <2>5, <3>1
      DEF collect_sync, OneOwner, HasWork, poolVars, EndedStayEnded
    <3>2. CASE q # on[c]
      <4>1. OneOwner(q) BY DEF StatusHasOneOwner
      <4> QED BY <1>1, <1>5, <2>8, <3>2, <4>1
              DEF collect_sync, OneOwner, HasWork, poolVars
    <3> QED BY <3>1, <3>2
  <2> QED BY <2>4, <2>6 DEF Safe, StatusHasOneOwner
<1> QED BY <1>3, <1>4, <1>5 DEF collect_wait

\* The destructor cancels and joins; its handle is no longer live.
LEMMA AwaitSafe ==
    ASSUME IInv, NEW c \in Callers, NEW k \in Kinds, await_work(c, k)
    PROVE  Safe'
<1> DEFINE i == <<on[c], k>>
<1> USE DEF IInv, WellFormed, TypeOK, CallTypeOK, PoolTypeOK
<1>1. /\ pc[c] \in {"join_wait", "join_out", "join_err"}
      /\ on[c] \in Procs /\ handle[on[c]] = "closing" /\ cur = c
      /\ UNCHANGED <<childVars, holderVars, work_code>>
  BY DEF await_work, JoinAt, Kinds, CallsHaveProcs, CallsOwnHandles
<1>2. joined(c, k) \/ (Pause(c) /\ UNCHANGED handle)
  BY DEF await_work
<1>3. \A q \in Procs \ {on[c]} : handle'[q] = handle[q]
  BY <1>1, <1>2 DEF joined, HolderTypeOK
<1>4. handle'[on[c]] # "live"
  BY <1>1, <1>2 DEF joined, HolderTypeOK
<1>5. CallsOwnHandles'
  <2>1. CASE Pause(c) /\ UNCHANGED handle
    BY <1>1, <2>1, ProcessAssumption DEF Pause, CallsOwnHandles
  <2>2. CASE (Goto(c, "join_out") \/ Goto(c, "join_err")) /\ UNCHANGED handle
    BY <1>1, <2>2, ProcessAssumption DEF Goto, CallsOwnHandles
  <2>3. CASE Return(c, "nothing", 0)
    BY <1>1, <1>3, <2>3, ProcessAssumption
    DEF Return, CallsOwnHandles, CallsHaveProcs
  <2> QED BY <1>2, <2>1, <2>2, <2>3 DEF joined
<1>6. AnswersStayTrue'
  BY <1>1, <1>2, ProcessAssumption
  DEF joined, Pause, Goto, Return, Returned, AnswersStayTrue, childVars
<1>7. \A q \in Procs :
        LET j == WaitWork(q) IN
        \/ work'[j] = work[j]
        \/ work[j] = "returned" /\ work'[j] = "done"
        \/ q = on[c] /\ work[j] = "queued" /\ work'[j] = "returned"
        \/ q = on[c] /\ work[j] = "done" /\ work'[j] = "null"
  BY <1>1, WaitWorkIsItem
  DEF await_work, uv_cancel, uv_run_nowait, Driven, poolVars, WaitWork, Items
<1>8. StatusHasOneOwner'
  BY <1>1, <1>3, <1>4, <1>7
  DEF StatusHasOneOwner, OneOwner, HasWork, holderVars, childVars
<1> QED BY <1>5, <1>6, <1>8 DEF Safe

\* Every step is safe when the library is the only one to reap.
LEMMA SafeStep ==
    ASSUME LibraryReapsAlone, IInv, [Next]_vars
    PROVE  IInv'
<1>1. WellFormed' BY TypeStep DEF IInv
<1>2. CASE UNCHANGED vars
  <2>1. UNCHANGED <<poolVars, childVars, handle, holderVars, work_code, callVars>>
    BY <1>2 DEF vars
  <2>2. CallsOwnHandles' /\ AnswersStayTrue'
    BY <2>1 DEF IInv, CallsOwnHandles, AnswersStayTrue, childVars, callVars
  <2> QED BY <1>1, <2>1, <2>2, OwnerUnchanged DEF IInv
<1>3. CASE Next
  <2>1. ASSUME NEW p \in Procs, ChildExits(p) PROVE Safe'
    BY <2>1, ChildExitsSafe
  <2>2. ASSUME NEW p \in Procs, ExternalReap(p) PROVE Safe'
    BY <2>2 DEF ExternalReap, LibraryReapsAlone
  <2>3. ASSUME NEW p \in Procs, wait_work_cb(p) PROVE Safe'
    BY <2>3, WaitWorkSafe
  <2>4. ASSUME (\E i \in Items : Take(i)) \/ async_poll \/ async_stop PROVE Safe'
    BY <2>4, PoolStepSafe
  <2>5. ASSUME NEW c \in Callers, NEW p \in Procs, Call(c, p) PROVE Safe'
    BY <2>5, CallSafe
  <2>6. ASSUME NEW c \in Callers, Step(c) PROVE Safe'
    <3>1. ~(timed_poll(c) \/ timed_reap(c))
      BY DEF timed_poll, timed_reap, IInv, CallsOwnHandles
    <3> QED BY <2>6, <3>1, PollSafe, CollectSafe, AsyncPollOnceSafe, AwaitSafe
            DEF Step
  <2>7. ASSUME NEW c \in Callers, async_poll_once(c) PROVE Safe'
    BY <2>7, AsyncPollOnceSafe
  <2>9. ASSUME NEW p \in Procs, TakerSteps(p) PROVE Safe'
    BY <2>9, TakersSafe
  <2>8. Safe' BY <1>3, <2>1, <2>2, <2>3, <2>4, <2>5, <2>6, <2>7, <2>9
              DEF Next, TakerSteps
  <2> QED BY <1>1, <2>8 DEF IInv, Safe
<1> QED BY <1>2, <1>3

\* The inductive invariant holds throughout.
LEMMA IInvHolds ==
    ASSUME LibraryReapsAlone
    PROVE  Spec => []IInv
<1>1. Init => IInv BY TypeInit, SafeInit DEF IInv, Safe
<1>2. IInv /\ [Next]_vars => IInv' BY SafeStep
<1> QED BY <1>1, <1>2, PTL DEF Spec

\* As long as only the library reaps its children and wait_timeout_ms() is
\* not mixed in, every exit code cached or returned is the conventional code
\* of how that child ended: for any number of processes, fibers and pool
\* threads, whether or not libuv refuses submissions.
THEOREM ExitCodesAreFaithful ==
    ASSUME LibraryReapsAlone
    PROVE  Spec => []ExitCodeFaithful
<1>1. IInv => ExitCodeFaithful
  BY DEF IInv, ExitCodeFaithful, StatusHasOneOwner, OneOwner, AnswersStayTrue
<1> QED BY <1>1, IInvHolds, PTL

\* Under the same condition no blocking waitid() is ever outstanding for a
\* child that was already reaped.
THEOREM ReapedPidsAreLeftAlone ==
    ASSUME LibraryReapsAlone
    PROVE  Spec => []NeverWaitsForReapedPid
<1>1. IInv => NeverWaitsForReapedPid
  BY DEF IInv, NeverWaitsForReapedPid, StatusHasOneOwner, OneOwner,
         CallsOwnHandles, HasWork
<1> QED BY <1>1, IInvHolds, PTL

\* Under the same condition the status of a reaped child is never lost while
\* its handle lives.
THEOREM StatusIsNeverLost ==
    ASSUME LibraryReapsAlone
    PROVE  Spec => []StatusNeverLost
<1>1. IInv => StatusNeverLost
  BY DEF IInv, StatusNeverLost, StatusHasOneOwner, OneOwner
<1> QED BY <1>1, IInvHolds, PTL

-----------------------------------------------------------------------------
(* A cached code never changes.                                            *)

NewCodesOnly ==
    \A p \in Procs : exit_code[p] # NoCode => exit_code'[p] = exit_code[p]

\* Only a step of a call under way writes the cache, and it writes an empty
\* one.
LEMMA StepWritesOnce ==
    ASSUME WellFormed, TimedHoldsThread, NEW c \in Callers, Step(c)
    PROVE  NewCodesOnly
<1> USE DEF WellFormed, TypeOK, HolderTypeOK, NewCodesOnly
<1>1. CASE Poll(c)
  <2>1. PICK r \in BOOLEAN : poll_wait(on[c], r) BY <1>1, Zenon DEF Poll
  <2>2. CASE UNCHANGED exit_code BY <2>2
  <2>3. CASE exit_code[on[c]] = NoCode /\ drive_wait(on[c], r)
    BY <2>3 DEF drive_wait, take_result, holderVars
  <2> QED BY <2>1, <2>2, <2>3 DEF poll_wait, holderVars
<1>2. CASE collect_wait(c)
  <2>1. CASE collect_cached(c) BY <2>1 DEF collect_cached, holderVars
  <2>2. CASE collect_work(c)
    BY <2>2 DEF collect_work, drive_wait, take_result, holderVars
  <2>3. CASE collect_sync(c) BY <2>3 DEF collect_sync
  <2> QED BY <1>2, <2>1, <2>2, <2>3 DEF collect_wait
<1>3. CASE timed_poll(c) \/ timed_reap(c)
  BY <1>3 DEF timed_poll, timed_cached, timed_forever, timed_seen, timed_gone,
              timed_out, timed_reap, StoreAndReturn, holderVars,
              TimedHoldsThread
<1>4. CASE poll_once(c) \/ \E k \in Kinds : await_work(c, k)
  BY <1>4 DEF poll_once, await_work, holderVars
<1> QED BY <1>1, <1>2, <1>3, <1>4 DEF Step

\* Only a step of a call under way touches a cached code.
LEMMA OthersLeaveCodes ==
    ASSUME Next, ~ \E c \in Callers : Step(c)
    PROVE  UNCHANGED exit_code
<1>1. ASSUME NEW c \in Callers, NEW p \in Procs, Call(c, p)
      PROVE  UNCHANGED exit_code
  BY <1>1 DEF Call, wait, try_wait, has_exited, wait_poll, wait_with,
              wait_timeout_ms, destroy, holderVars
<1>2. ASSUME NEW p \in Procs, ChildExits(p) \/ ExternalReap(p) \/ wait_work_cb(p)
      PROVE  UNCHANGED exit_code
  BY <1>2 DEF ChildExits, ExternalReap, wait_work_cb, holderVars
<1>3. ASSUME \/ \E p \in Procs : TakerSteps(p)
             \/ \E i \in Items : Take(i)
             \/ \E c \in Callers : async_poll_once(c)
             \/ async_poll \/ async_stop
      PROVE  UNCHANGED exit_code
  BY <1>3 DEF TakerSteps, TakesPid, TakerExits, TakerReaped, Take, async_poll,
              async_stop, async_poll_once, holderVars
<1> QED BY <1>1, <1>2, <1>3 DEF Next, TakerSteps

\* Whoever takes a step while c is about to reap, it is not another caller.
LEMMA TimedStep ==
    ASSUME WellFormed, TimedHoldsThread, [Next]_vars
    PROVE  TimedHoldsThread'
<1> USE DEF WellFormed, TypeOK, CallTypeOK, HolderTypeOK, TimedHoldsThread
<1> SUFFICES ASSUME NEW d \in Callers, pc'[d] = "timed_reap"
             PROVE  cur' = d /\ exit_code'[on'[d]] = NoCode
  OBVIOUS
<1>1. CASE UNCHANGED vars
  BY <1>1 DEF vars, callVars, holderVars
<1>2. ASSUME NEW c \in Callers, NEW p \in Procs \cup {NoProc}, NEW o, NEW l,
             NEW w \in PCs \ {"timed_reap"}, Enter(c, p, o, l, w)
      PROVE  FALSE
  BY <1>2, ProcessAssumption DEF Enter
<1>3. ASSUME NEW c \in Callers, NEW p \in Procs, Call(c, p) PROVE FALSE
  <2> USE <1>2 DEF PCs
  <2> QED BY <1>3 DEF Call, wait, try_wait, has_exited, wait_poll, wait_with,
                      wait_timeout_ms, destroy
<1>4. ASSUME NEW c \in Callers, async_poll_once(c) PROVE FALSE
  BY <1>2, <1>4 DEF async_poll_once, PCs
<1>5. ASSUME UNCHANGED <<holderVars, callVars>>
      PROVE  cur' = d /\ exit_code'[on'[d]] = NoCode
  BY <1>5 DEF callVars, holderVars
<1>6. ASSUME NEW c \in Callers, Step(c)
      PROVE  cur' = d /\ exit_code'[on'[d]] = NoCode
  <2>1. MayRun(c) BY <1>6 DEF Step, Poll, collect_wait, timed_poll, timed_reap,
                              poll_once, await_work
  <2>2. ASSUME d # c PROVE FALSE
    <3>1. pc'[d] = pc[d]
      BY <1>6, <2>2 DEF Step, Poll, on_hit, on_miss, cs_runtime_yield,
         collect_wait, collect_cached, collect_work, collect_sync, timed_poll,
         timed_cached, timed_forever, timed_seen, timed_gone, timed_out,
         timed_reap, StoreAndReturn, poll_once, await_work, joined,
         Return, Goto, Pause
    <3> QED BY <2>1, <2>2, <3>1, ProcessAssumption DEF MayRun
  <2>3. CASE timed_poll(c)
    <3>1. timed_seen(c) /\ exit_code[on[c]] = NoCode
      BY <2>2, <2>3 DEF timed_poll, timed_cached, timed_forever, timed_gone,
                        timed_out, StoreAndReturn, Return
    <3> QED BY <2>2, <3>1 DEF timed_seen, holderVars
  <2>4. CASE ~timed_poll(c)
    <3>1. pc'[c] # "timed_reap"
      BY <1>6, <2>4 DEF Step, Poll, on_hit, on_miss, cs_runtime_yield,
         collect_wait, collect_cached, collect_work, collect_sync,
         timed_reap, StoreAndReturn, poll_once, await_work, joined, JoinAt,
         Kinds, Return, Goto, Pause
    <3> QED BY <2>2, <3>1
  <2> QED BY <2>3, <2>4
<1>7. CASE Next
  <2>1. CASE \E c \in Callers, p \in Procs : Call(c, p) BY <1>3, <2>1
  <2>2. CASE \E c \in Callers : Step(c) BY <1>6, <2>2
  <2>3. CASE \E c \in Callers : async_poll_once(c) BY <1>4, <2>3
  <2>4. CASE \/ \E p \in Procs : ChildExits(p) \/ ExternalReap(p) \/ wait_work_cb(p)
             \/ \E p \in Procs : TakerSteps(p)
             \/ \E i \in Items : Take(i)
             \/ async_poll \/ async_stop
    BY <1>5, <2>4 DEF ChildExits, ExternalReap, wait_work_cb, TakerSteps,
                      TakesPid, TakerExits, TakerReaped, Take, async_poll,
                      async_stop
  <2> QED BY <1>7, <2>1, <2>2, <2>3, <2>4 DEF Next, TakerSteps
<1> QED BY <1>1, <1>7

\* Whatever the script calls, wait_timeout_ms() included, and whoever reaps,
\* the code cached for a process is never overwritten.
THEOREM CodesNeverChange == Spec => CodeNeverChanges
<1> DEFINE Inv == WellFormed /\ TimedHoldsThread
<1>1. Init => Inv
  BY TypeInit DEF Init, TimedHoldsThread
<1>2. Inv /\ [Next]_vars => Inv'
  BY TypeStep, TimedStep
<1>3. Inv /\ [Next]_vars => [NewCodesOnly]_vars
  BY StepWritesOnce, OthersLeaveCodes DEF NewCodesOnly
<1>4. CodeNeverChanges <=> [][NewCodesOnly]_vars
  BY DEF CodeNeverChanges, NewCodesOnly
<1> QED BY <1>1, <1>2, <1>3, <1>4, PTL DEF Spec

=============================================================================
