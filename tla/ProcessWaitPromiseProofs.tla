----------------------- MODULE ProcessWaitPromiseProofs -----------------------
(***************************************************************************)
(* ProcessWait implements the safety part of ExitPromise: its initial      *)
(* states map to initial states, and every step of a child, a pool thread, *)
(* the event loop or a call maps to one step of the promise or to none.    *)
(***************************************************************************)
EXTENDS ProcessWaitProofs

-----------------------------------------------------------------------------
(* Where a caller is tells what it called.                                 *)

OpsMatch ==
    \A c \in Callers :
        /\ pc[c] = "idle" <=> op[c] = "none"
        /\ pc[c] = "poll" =>
              op[c] \in {"wait", "try_wait", "has_exited", "wait_poll", "wait_with"}
        /\ pc[c] = "collect" =>
              op[c] \in {"wait", "try_wait", "wait_poll", "wait_with", "communicate"}
        /\ pc[c] = "poll_once" => op[c] = "poll_once"
        /\ pc[c] \in {"join_wait", "join_out", "join_err"} => op[c] = "destroy"

\* Entering a call at its first place.
LEMMA EnterMatches ==
    ASSUME WellFormed, OpsMatch, NEW c \in Callers, NEW p, NEW o, NEW l, NEW w,
           Enter(c, p, o, l, w),
           \/ /\ w = "poll"
              /\ o \in {"wait", "try_wait", "has_exited", "wait_poll", "wait_with"}
           \/ w = "collect" /\ o = "wait"
           \/ w = "timed" /\ o = "wait_timeout_ms"
           \/ w = "poll_once" /\ o = "poll_once"
           \/ w = "join_wait" /\ o = "destroy"
    PROVE  OpsMatch'
BY DEF WellFormed, TypeOK, CallTypeOK, OpsMatch, Enter

\* Returning, pausing, and moving on within the same call.
LEMMA ReturnMatches ==
    ASSUME WellFormed, OpsMatch, NEW c \in Callers, NEW is, NEW code,
           Return(c, is, code)
    PROVE  OpsMatch'
BY DEF WellFormed, TypeOK, CallTypeOK, OpsMatch, Return

\* Yielding or sleeping changes no call.
LEMMA PauseMatches ==
    ASSUME OpsMatch, NEW h, Pause(h)
    PROVE  OpsMatch'
BY DEF OpsMatch, Pause

\* A destructor goes from join to join, a wait from polling to collecting.
LEMMA GotoMatches ==
    ASSUME WellFormed, OpsMatch, NEW c \in Callers, NEW w, Goto(c, w),
           \/ pc[c] = "poll" /\ op[c] # "has_exited" /\ w = "collect"
           \/ /\ pc[c] \in {"join_wait", "join_out", "join_err"}
              /\ w \in {"join_out", "join_err"}
    PROVE  OpsMatch'
BY DEF WellFormed, TypeOK, CallTypeOK, OpsMatch, Goto

\* Every step keeps the match.
LEMMA OpsStep ==
    ASSUME WellFormed, OpsMatch, [Next]_vars
    PROVE  OpsMatch'
<1>1. ASSUME UNCHANGED callVars PROVE OpsMatch'
  BY <1>1 DEF OpsMatch, callVars
<1>2. ASSUME NEW c \in Callers, NEW p \in Procs, Call(c, p) PROVE OpsMatch'
  BY <1>2, EnterMatches
  DEF Call, wait, try_wait, has_exited, wait_poll, wait_with, wait_timeout_ms,
      destroy
<1>3. ASSUME NEW c \in Callers, async_poll_once(c) PROVE OpsMatch'
  BY <1>3, EnterMatches DEF async_poll_once
<1>4. ASSUME NEW c \in Callers, Poll(c) PROVE OpsMatch'
  <2>1. on_hit(c) \/ on_miss(c) BY <1>4 DEF Poll
  <2>2. CASE on_hit(c)
    BY <1>4, <2>2, ReturnMatches, GotoMatches DEF on_hit, Poll
  <2>3. CASE on_miss(c)
    BY <2>3, ReturnMatches, PauseMatches DEF on_miss, cs_runtime_yield
  <2> QED BY <2>1, <2>2, <2>3
<1>5. ASSUME NEW c \in Callers, collect_wait(c) PROVE OpsMatch'
  BY <1>5, ReturnMatches, PauseMatches
  DEF collect_wait, collect_cached, collect_work, collect_sync
<1>6. ASSUME NEW c \in Callers, timed_poll(c) \/ timed_reap(c) PROVE OpsMatch'
  <2>1. CASE timed_seen(c)
    <3>1. CASE timed_poll(c)
      BY <2>1, <3>1
      DEF timed_poll, timed_seen, OpsMatch, WellFormed, TypeOK, CallTypeOK
    <3>2. CASE timed_reap(c)
      BY <3>2, ReturnMatches DEF timed_reap, StoreAndReturn
    <3> QED BY <1>6, <3>1, <3>2
  <2>2. CASE ~timed_seen(c)
    BY <1>6, <2>2, ReturnMatches
    DEF timed_poll, timed_cached, timed_forever, timed_gone, timed_out,
        timed_reap, StoreAndReturn
  <2> QED BY <2>1, <2>2
<1>7. ASSUME NEW c \in Callers, poll_once(c) PROVE OpsMatch'
  BY <1>7, ReturnMatches DEF poll_once
<1>8. ASSUME NEW c \in Callers, NEW k \in Kinds, await_work(c, k)
      PROVE  OpsMatch'
  <2>1. pc[c] \in {"join_wait", "join_out", "join_err"}
    BY <1>8 DEF await_work, JoinAt, Kinds
  <2> QED BY <1>8, <2>1, ReturnMatches, PauseMatches, GotoMatches
          DEF await_work, joined
<1>9. ASSUME NEW c \in Callers, Step(c) PROVE OpsMatch'
  BY <1>4, <1>5, <1>6, <1>7, <1>8, <1>9 DEF Step
<1>10. CASE UNCHANGED vars
  BY <1>1, <1>10 DEF vars
<1>11. CASE Next
  BY <1>1, <1>2, <1>3, <1>9, <1>11
  DEF Next, ChildExits, ExternalReap, wait_work_cb, TakesPid, TakerExits,
      TakerReaped, Take, async_poll, async_stop
<1> QED BY <1>10, <1>11

-----------------------------------------------------------------------------
(* The mapping: how a step looks from the promise.                         *)

\* The children that ended are the same, with the same codes.
LEMMA EndedSame ==
    ASSUME fate' = fate,
           \A p \in Procs : child'[p] = "running" <=> child[p] = "running"
    PROVE  UNCHANGED Ended
BY DEF Ended

\* What has ended has a code.
LEMMA EndedCode ==
    ASSUME WellFormed, NEW p \in Procs
    PROVE  /\ Ended[p] = NoCode <=> child[p] = "running"
           /\ child[p] # "running" =>
                 /\ Ended[p] = ConventionalCode(fate[p])
                 /\ Ended[p] \in Codes
<1>1. child[p] # "running" =>
        /\ ConventionalCode(fate[p]) \in Codes
        /\ ConventionalCode(fate[p]) # NoCode
  BY StatusOfEnding, CodeIsNotNoCode DEF WellFormed, EndedHaveEndings
<1> QED BY <1>1 DEF Ended

\* A step that the promise does not see.
Unseen == UNCHANGED <<Ended, Known, Open, op, on, limit, ret>>

\* It is a stutter there.
LEMMA UnseenStutters == ASSUME Unseen PROVE UNCHANGED Promise!promiseVars
BY DEF Unseen, Promise!promiseVars

\* What the handles know does not change with the caches.
LEMMA KnownSame == ASSUME UNCHANGED holderVars PROVE UNCHANGED Known
BY DEF holderVars, Known

\* Nor what can be called with the handles.
LEMMA OpenSame == ASSUME UNCHANGED handle PROVE UNCHANGED Open
BY DEF Open

\* The initial states.
LEMMA InitMaps == Init => Promise!PromiseInit
<1> SUFFICES ASSUME Init PROVE Promise!PromiseInit
  OBVIOUS
<1>1. Ended = [p \in Procs |-> NoCode] BY DEF Init, Ended
<1>2. Known = [p \in Procs |-> FALSE] BY DEF Init, Known
<1>3. Open = [p \in Procs |-> TRUE] BY DEF Init, Open
<1> QED BY <1>1, <1>2, <1>3
        DEF Init, Nothing, Returned, Promise!PromiseInit, Promise!NoAnswer,
            Promise!Answer

\* A child that ends fulfils its promise.
LEMMA ChildExitsMaps ==
    ASSUME WellFormed, NEW p \in Procs, ChildExits(p)
    PROVE  Promise!End(p)
<1> USE DEF WellFormed, TypeOK, ChildTypeOK
<1>1. PICK e \in Endings : fate' = [fate EXCEPT ![p] = e]
  BY DEF ChildExits
<1>2. ConventionalCode(e) \in Codes BY StatusOfEnding
<1>3. Ended[p] = NoCode BY DEF Ended, ChildExits
<1>4. Ended' = [Ended EXCEPT ![p] = ConventionalCode(e)]
  BY <1>1 DEF Ended, ChildExits
<1>5. UNCHANGED <<Known, Open, op, on, limit, ret>>
  BY KnownSame, OpenSame DEF ChildExits, callVars
<1> QED BY <1>2, <1>3, <1>4, <1>5 DEF Promise!End

\* The pool, the loop and the reaping are not seen, nor is who has the PID of
\* a child that was reaped.
LEMMA PoolMaps ==
    ASSUME WellFormed,
           \/ \E p \in Procs : wait_work_cb(p) \/ TakerSteps(p)
           \/ \E i \in Items : Take(i)
           \/ async_poll \/ async_stop
           \/ UNCHANGED vars
    PROVE  Unseen
<1> USE DEF WellFormed, TypeOK
<1>1. UNCHANGED <<handle, holderVars, callVars>>
  BY DEF wait_work_cb, TakerSteps, TakesPid, TakerExits, TakerReaped, Take,
         async_poll, async_stop, vars
<1>2. /\ fate' = fate
      /\ \A p \in Procs : child'[p] = "running" <=> child[p] = "running"
  <2>1. CASE UNCHANGED childVars BY <2>1 DEF childVars
  <2>2. CASE \E p \in Procs : wait_work_cb(p)
    BY <2>2, WaitForKeepsChild DEF wait_work_cb, ChildTypeOK, ChildOK
  <2>3. CASE \E p \in Procs : TakerSteps(p)
    BY <2>3, TakersKeepChild DEF ChildOK
  <2> QED BY <2>1, <2>2, <2>3 DEF Take, async_poll, async_stop, vars
<1> QED BY <1>1, <1>2, EndedSame, KnownSame, OpenSame DEF Unseen, callVars

\* The start of a call.
LEMMA EnterMaps ==
    ASSUME OpsMatch, NEW c \in Callers, NEW p, NEW o, NEW l, NEW w,
           Enter(c, p, o, l, w), UNCHANGED <<childVars, holderVars>>
    PROVE  Promise!Begin(c, p, o, l)
<1>1. op[c] = "none" BY DEF Enter, OpsMatch
<1>2. UNCHANGED <<Ended, Known>>
  BY EndedSame, KnownSame DEF childVars
<1> QED BY <1>1, <1>2
        DEF Enter, Promise!Begin, Promise!NoAnswer, Promise!Answer, Nothing,
            Returned

\* A call other than the destructor asks a handle that is open.
LEMMA CallMaps ==
    ASSUME LibraryReapsAlone, OpsMatch, WellFormed,
           NEW c \in Callers, NEW p \in Procs, Call(c, p)
    PROVE  Promise!Ask(c, p) \/ Promise!Drop(c, p)
<1> USE DEF Promise!Ask, Promise!Waits, Promise!Looks
<1>1. ASSUME NEW o, NEW l, NEW w, Enter(c, p, o, l, w), handle[p] = "live",
             \/ /\ o \in Promise!Waits \cup Promise!Looks
                /\ l = "none"
             \/ /\ o \in {"wait_poll", "wait_with"}
                /\ l = "finite",
             UNCHANGED <<childVars, holderVars, handle>>
      PROVE  Promise!Ask(c, p)
  <2>1. Promise!Begin(c, p, o, l) BY <1>1, EnterMaps
  <2>2. Open[p] /\ UNCHANGED Open BY <1>1, OpenSame DEF Open
  <2> QED BY <1>1, <2>1, <2>2
<1>2. CASE wait(c, p) BY <1>1, <1>2 DEF wait
<1>3. CASE try_wait(c, p) BY <1>1, <1>3 DEF try_wait
<1>4. CASE has_exited(c, p) BY <1>1, <1>4 DEF has_exited
<1>5. CASE wait_poll(c, p) BY <1>1, <1>5 DEF wait_poll, Limits
<1>6. CASE wait_with(c, p) BY <1>1, <1>6 DEF wait_with, Limits
<1>7. CASE wait_timeout_ms(c, p)
  BY <1>7 DEF wait_timeout_ms, Enter, LibraryReapsAlone
<1>8. CASE destroy(c, p)
  <2>1. Promise!Begin(c, p, "destroy", "none") BY <1>8, EnterMaps DEF destroy
  <2>2. \A d \in Callers : op[d] = "none" \/ on[d] # p
    BY <1>8 DEF destroy, OpsMatch
  <2>3. Open[p] /\ Open' = [Open EXCEPT ![p] = FALSE]
    BY <1>8 DEF destroy, Open, WellFormed, TypeOK, HolderTypeOK
  <2> QED BY <2>1, <2>2, <2>3 DEF Promise!Drop
<1> QED BY <1>2, <1>3, <1>4, <1>5, <1>6, <1>7, <1>8 DEF Call

-----------------------------------------------------------------------------
(* A step of a call under way.                                             *)

\* drive_wait() that takes the result learns of the end.
LEMMA DriveWaitKnows ==
    ASSUME WellFormed, NEW p \in Procs, NEW r \in BOOLEAN, drive_wait(p, r)
    PROVE  /\ r => Known' = [Known EXCEPT ![p] = TRUE]
           /\ ~r => UNCHANGED Known
<1> USE DEF WellFormed, TypeOK, HolderTypeOK
<1>1. CASE r
  <2>1. take_result(p) BY <1>1, Zenon DEF drive_wait
  <2>2. work_code[p] # NoCode BY CodeIsNotNoCode
  <2> QED BY <1>1, <2>1, <2>2 DEF take_result, Known
<1>2. CASE ~r
  BY <1>2, KnownSame DEF drive_wait
<1> QED BY <1>1, <1>2

\* poll_wait() says yes when it knows or learns, and no only when it does not
\* know.
LEMMA PollWaitKnows ==
    ASSUME WellFormed, NEW p \in Procs, NEW r \in BOOLEAN, poll_wait(p, r)
    PROVE  /\ r => Known' = [Known EXCEPT ![p] = TRUE]
           /\ ~r => ~Known[p] /\ UNCHANGED Known
<1> USE DEF WellFormed, TypeOK, HolderTypeOK
<1>1. CASE /\ exit_code[p] # NoCode \/ observed_exited[p]
           /\ r = TRUE
           /\ UNCHANGED <<holderVars, poolVars>>
  <2>1. Known[p] = TRUE BY <1>1 DEF Known
  <2> QED BY <1>1, <2>1, KnownSame DEF Known
<1>2. CASE /\ exit_code[p] = NoCode /\ ~observed_exited[p]
           /\ observed_exited' = [observed_exited EXCEPT ![p] = r]
           /\ UNCHANGED exit_code
  <2>1. Known[p] = FALSE BY <1>2 DEF Known
  <2>2. Known' = [Known EXCEPT ![p] = r] BY <1>2 DEF Known
  <2> QED BY <2>1, <2>2 DEF Known
<1>3. CASE /\ exit_code[p] = NoCode /\ ~observed_exited[p]
           /\ drive_wait(p, r)
  <2>1. Known[p] = FALSE BY <1>3 DEF Known
  <2> QED BY <1>3, <2>1, DriveWaitKnows
<1> QED BY <1>1, <1>2, <1>3 DEF poll_wait

\* A return is an answer, when it is one the promise allows.
LEMMA ReturnMaps ==
    ASSUME WellFormed, OpsMatch, NEW c \in Callers, NEW is, NEW code,
           Return(c, is, code), pc[c] # "idle",
           Promise!MayTell(c, Promise!Answer(is, code)),
           Promise!Answer(is, code) \in Promise!Told,
           UNCHANGED <<Ended, Open>>,
           Known' = IF is \in {"code", "true"}
                    THEN [Known EXCEPT ![on[c]] = TRUE] ELSE Known
    PROVE  \E a \in Promise!Told : Promise!Tell(c, a)
<1> DEFINE a == Promise!Answer(is, code)
<1>1. a.is = is /\ a = Returned(is, code) BY DEF Promise!Answer, Returned
<1>2. op[c] # "none" BY DEF OpsMatch
<1>3. Promise!Tell(c, a) BY <1>1, <1>2 DEF Return, Promise!Tell
<1> QED BY <1>3

\* One round of a polling loop answers, learns of the end, or is not seen.
LEMMA PollMaps ==
    ASSUME IInv, OpsMatch, NEW c \in Callers, Poll(c)
    PROVE  \/ \E a \in Promise!Told : Promise!Tell(c, a)
           \/ Promise!Learn(on[c]) /\ on[c] \in Procs
           \/ Unseen
<1>1. /\ on[c] \in Procs /\ handle[on[c]] = "live"
      /\ pc[c] = "poll" /\ pc[c] # "idle"
      /\ UNCHANGED <<childVars, handle, work_code>>
  BY DEF Poll, IInv, WellFormed, CallsHaveProcs, CallsOwnHandles
<1>2. PICK r \in BOOLEAN : /\ poll_wait(on[c], r)
                           /\ IF r THEN on_hit(c) ELSE on_miss(c)
  BY Zenon DEF Poll
<1>3. UNCHANGED <<Ended, Open>> BY <1>1, EndedSame, OpenSame DEF childVars
<1>4. /\ r => Known' = [Known EXCEPT ![on[c]] = TRUE]
      /\ ~r => ~Known[on[c]] /\ UNCHANGED Known
  BY <1>1, <1>2, PollWaitKnows DEF IInv
<1>5. r => Ended[on[c]] # NoCode
  BY <1>1, <1>2, PollWaitSafe, EndedCode DEF IInv
<1>6. CASE r
  <2>1. on_hit(c) BY <1>2, <1>6, Zenon
  <2>2. CASE op[c] = "has_exited" /\ Return(c, "true", 0)
    <3>1. Promise!MayTell(c, Promise!Answer("true", 0))
      BY <1>5, <1>6, <2>2 DEF Promise!MayTell
    <3>2. Promise!Answer("true", 0) \in Promise!Told BY DEF Promise!Told
    <3> QED BY <1>1, <1>3, <1>4, <1>6, <2>2, <3>1, <3>2, ReturnMaps DEF IInv
  <2>3. CASE Goto(c, "collect")
    BY <1>1, <1>3, <1>4, <1>5, <1>6, <2>3 DEF Goto, Promise!Learn
  <2> QED BY <2>1, <2>2, <2>3 DEF on_hit
<1>7. CASE ~r
  <2>1. on_miss(c) BY <1>2, <1>7, Zenon
  <2>2. ASSUME NEW is \in {"null", "false", "throw"}, Return(c, is, 0),
               \/ is = "null" /\ (op[c] = "try_wait" \/ limit[c] = "finite")
               \/ is = "false" /\ op[c] = "has_exited"
               \/ is = "throw" /\ op[c] = "wait_with"
        PROVE  \E a \in Promise!Told : Promise!Tell(c, a)
    <3>1. Promise!MayTell(c, Promise!Answer(is, 0))
      BY <1>4, <1>7, <2>2 DEF Promise!MayTell
    <3>2. Promise!Answer(is, 0) \in Promise!Told BY DEF Promise!Told
    <3> QED BY <1>1, <1>3, <1>4, <1>7, <2>2, <3>1, <3>2, ReturnMaps DEF IInv
  <2>3. CASE Pause(NoOne) \/ Pause(c)
    BY <1>3, <1>4, <1>7, <2>3 DEF Pause, Unseen
  <2> QED BY <2>1, <2>2, <2>3 DEF on_miss, cs_runtime_yield
<1> QED BY <1>6, <1>7

\* A code that is returned is the one the child ended with.
LEMMA CodeMaps ==
    ASSUME IInv, OpsMatch, NEW c \in Callers, NEW code, pc[c] = "collect",
           Return(c, "code", code), child[on[c]] # "running",
           code = ConventionalCode(fate[on[c]]),
           UNCHANGED <<Ended, Open>>, Known' = [Known EXCEPT ![on[c]] = TRUE]
    PROVE  \E a \in Promise!Told : Promise!Tell(c, a)
<1>1. on[c] \in Procs BY DEF IInv, WellFormed, CallsHaveProcs
<1>2. code = Ended[on[c]] /\ code \in Codes /\ Ended[on[c]] # NoCode
  BY <1>1, EndedCode DEF IInv
<1>3. op[c] \in {"wait", "try_wait", "wait_poll", "wait_with", "communicate"}
  BY DEF OpsMatch
<1>4. Promise!MayTell(c, Promise!Answer("code", code))
  BY <1>2, <1>3 DEF Promise!MayTell, Promise!Waits
<1>5. Promise!Answer("code", code) \in Promise!Told
  BY <1>2 DEF Promise!Told
<1> QED BY <1>4, <1>5, ReturnMaps DEF IInv

\* collect_wait() answers with the code, or is not seen.
LEMMA CollectMaps ==
    ASSUME IInv, OpsMatch, NEW c \in Callers, collect_wait(c)
    PROVE  (\E a \in Promise!Told : Promise!Tell(c, a)) \/ Unseen
<1> USE DEF IInv, WellFormed
<1>1. /\ on[c] \in Procs /\ handle[on[c]] = "live" /\ pc[c] = "collect"
      /\ UNCHANGED <<handle, work_code>>
  BY DEF collect_wait, CallsHaveProcs, CallsOwnHandles
<1>2. UNCHANGED Open BY <1>1, OpenSame
<1>3. OneOwner(on[c]) BY <1>1 DEF StatusHasOneOwner
<1>4. CASE collect_cached(c)
  <2>1. /\ child[on[c]] # "running"
        /\ exit_code[on[c]] = ConventionalCode(fate[on[c]])
        /\ Known[on[c]] = TRUE
    BY <1>1, <1>3, <1>4 DEF collect_cached, OneOwner, Known
  <2>2. UNCHANGED <<Ended, Known>>
    BY <1>4, EndedSame, KnownSame DEF collect_cached, childVars
  <2>3. Known' = [Known EXCEPT ![on[c]] = TRUE] BY <2>1, <2>2 DEF Known
  <2> QED BY <1>1, <1>2, <1>4, <2>1, <2>2, <2>3, CodeMaps DEF collect_cached
<1>5. CASE collect_work(c)
  <2>1. PICK ready \in BOOLEAN :
          /\ drive_wait(on[c], ready)
          /\ IF ready THEN Return(c, "code", work_code[on[c]]) ELSE Pause(c)
    BY <1>5, Zenon DEF collect_work
  <2>2. HasWork(on[c]) /\ UNCHANGED childVars BY <1>5 DEF collect_work
  <2>3. UNCHANGED Ended BY <2>2, EndedSame DEF childVars
  <2>4. /\ ready => Known' = [Known EXCEPT ![on[c]] = TRUE]
        /\ ~ready => UNCHANGED Known
    BY <1>1, <2>1, DriveWaitKnows
  <2>5. CASE ready
    <3>1. Return(c, "code", work_code[on[c]]) BY <2>1, <2>5, Zenon
    <3>2. /\ child[on[c]] # "running"
          /\ work_code[on[c]] = ConventionalCode(fate[on[c]])
      BY <1>1, <2>1, <2>2, <2>5, DriveWaitSafe
    <3> QED BY <1>1, <1>2, <2>3, <2>4, <2>5, <3>1, <3>2, CodeMaps
  <2>6. CASE ~ready
    <3>1. Pause(c) BY <2>1, <2>6, Zenon
    <3> QED BY <1>2, <2>3, <2>4, <2>6, <3>1 DEF Pause, Unseen
  <2> QED BY <2>5, <2>6
<1>6. CASE collect_sync(c)
  <2> USE DEF TypeOK, ChildTypeOK, HolderTypeOK
  <2>7. ChildOK /\ wait_for(on[c])
    BY <1>6 DEF ChildOK, collect_sync
  <2>8. /\ child[on[c]] # "running" /\ child' = [child EXCEPT ![on[c]] = "reaped"]
        /\ UNCHANGED fate
    BY <1>1, <2>7, WaitForKeepsChild
  <2>1. child[on[c]] = "zombie" /\ fate[on[c]] \in Endings
    BY <1>1, <1>3, <1>6, <2>8
    DEF collect_sync, OneOwner, HasWork, EndedHaveEndings
  <2>2. wait_for_result(on[c]) = ConventionalCode(fate[on[c]])
    BY <1>1, <2>1, <2>7, WaitForOfOwn
  <2>3. UNCHANGED Ended
    BY <1>1, <2>1, <2>8, EndedSame
  <2>4. wait_for_result(on[c]) # NoCode
    BY <1>1, WaitForTyped, CodeIsNotNoCode
  <2>5. Known' = [Known EXCEPT ![on[c]] = TRUE]
    BY <1>1, <1>6, <2>4 DEF collect_sync, Known
  <2>6. Return(c, "code", wait_for_result(on[c])) BY <1>6 DEF collect_sync
  <2> QED BY <1>1, <1>2, <2>1, <2>2, <2>3, <2>5, <2>6, CodeMaps
<1> QED BY <1>4, <1>5, <1>6 DEF collect_wait

\* A call that is about no child is answered with nothing.
LEMMA NothingMaps ==
    ASSUME WellFormed, OpsMatch, NEW c \in Callers, pc[c] # "idle",
           Return(c, "nothing", 0), op[c] \in {"destroy", "poll_once"},
           UNCHANGED <<Ended, Known, Open>>
    PROVE  \E a \in Promise!Told : Promise!Tell(c, a)
<1>1. Promise!MayTell(c, Promise!Answer("nothing", 0))
  BY DEF Promise!MayTell, Promise!NoAnswer
<1>2. Promise!Answer("nothing", 0) \in Promise!Told BY DEF Promise!Told
<1> QED BY <1>1, <1>2, ReturnMaps

\* The destructor answers after its last join; the handle closed before.
LEMMA AwaitMaps ==
    ASSUME IInv, OpsMatch, NEW c \in Callers, NEW k \in Kinds, await_work(c, k)
    PROVE  (\E a \in Promise!Told : Promise!Tell(c, a)) \/ Unseen
<1>1. /\ pc[c] \in {"join_wait", "join_out", "join_err"} /\ pc[c] # "idle"
      /\ on[c] \in Procs /\ handle[on[c]] = "closing" /\ op[c] = "destroy"
      /\ UNCHANGED <<childVars, holderVars, work_code>>
  BY DEF await_work, JoinAt, Kinds, IInv, WellFormed, CallsHaveProcs,
         CallsOwnHandles, OpsMatch
<1>2. UNCHANGED <<Ended, Known>> BY <1>1, EndedSame, KnownSame DEF childVars
<1>3. CASE /\ UNCHANGED handle
           /\ Pause(c) \/ Goto(c, "join_out") \/ Goto(c, "join_err")
  BY <1>2, <1>3, OpenSame DEF Unseen, Pause, Goto
<1>4. CASE /\ Return(c, "nothing", 0)
           /\ handle' = [handle EXCEPT ![on[c]] = "destroyed"]
  <2>1. UNCHANGED Open
    BY <1>1, <1>4 DEF Open, IInv, WellFormed, TypeOK, HolderTypeOK
  <2> QED BY <1>1, <1>2, <1>4, <2>1, NothingMaps DEF IInv
<1> QED BY <1>3, <1>4 DEF await_work, joined

\* process.async.poll_once() begins and ends.
LEMMA PollOnceMaps ==
    ASSUME WellFormed, OpsMatch, NEW c \in Callers
    PROVE  /\ async_poll_once(c) => Promise!DriveLoop(c)
           /\ poll_once(c) => \E a \in Promise!Told : Promise!Tell(c, a)
<1>1. ASSUME async_poll_once(c) PROVE Promise!DriveLoop(c)
  BY <1>1, EnterMaps, OpenSame DEF async_poll_once, Promise!DriveLoop
<1>2. ASSUME poll_once(c) PROVE \E a \in Promise!Told : Promise!Tell(c, a)
  <2>1. UNCHANGED <<Ended, Known, Open>>
    BY <1>2, EndedSame, KnownSame, OpenSame DEF poll_once, childVars
  <2>2. op[c] = "poll_once" /\ pc[c] # "idle"
    BY <1>2 DEF poll_once, OpsMatch
  <2> QED BY <1>2, <2>1, <2>2, NothingMaps DEF poll_once
<1> QED BY <1>1, <1>2

-----------------------------------------------------------------------------
(* The refinement.                                                         *)

\* Every step is a step of the promise or a stutter.
LEMMA StepMaps ==
    ASSUME LibraryReapsAlone, IInv, OpsMatch, [Next]_vars
    PROVE  [Promise!PromiseNext]_(Promise!promiseVars)
<1> USE DEF IInv
<1>1. ASSUME NEW p \in Procs, ChildExits(p) PROVE Promise!PromiseNext
  BY <1>1, ChildExitsMaps DEF Promise!PromiseNext
<1>2. ASSUME NEW p \in Procs, ExternalReap(p) PROVE FALSE
  BY <1>2 DEF ExternalReap, LibraryReapsAlone
<1>3. CASE \/ \E p \in Procs : wait_work_cb(p) \/ TakerSteps(p)
           \/ \E i \in Items : Take(i)
           \/ async_poll \/ async_stop
           \/ UNCHANGED vars
  BY <1>3, PoolMaps, UnseenStutters
<1>4. ASSUME NEW c \in Callers, NEW p \in Procs, Call(c, p)
      PROVE  Promise!PromiseNext
  BY <1>4, CallMaps DEF Promise!PromiseNext
<1>5. ASSUME NEW c \in Callers, async_poll_once(c) PROVE Promise!PromiseNext
  BY <1>5, PollOnceMaps DEF Promise!PromiseNext
<1>6. ASSUME NEW c \in Callers, Step(c)
      PROVE  [Promise!PromiseNext]_(Promise!promiseVars)
  <2>1. ~(timed_poll(c) \/ timed_reap(c))
    BY DEF timed_poll, timed_reap, CallsOwnHandles
  <2>2. \/ \E a \in Promise!Told : Promise!Tell(c, a)
        \/ Promise!Learn(on[c]) /\ on[c] \in Procs
        \/ Unseen
    BY <1>6, <2>1, PollMaps, CollectMaps, AwaitMaps, PollOnceMaps DEF Step
  <2> QED BY <2>2, UnseenStutters DEF Promise!PromiseNext
<1> QED BY <1>1, <1>2, <1>3, <1>4, <1>5, <1>6 DEF Next, TakerSteps

\* As long as only the library reaps and wait_timeout_ms() is not mixed in,
\* process handles keep the promise of ExitPromise, for any number of
\* processes, callers, fibers and pool threads: once any caller was told that
\* a child ended no caller is told that it runs, and every wait is answered
\* with the code the child ended with and with nothing else.
THEOREM ProcessKeepsPromise ==
    ASSUME LibraryReapsAlone
    PROVE  Spec => KeepsPromise
<1>1. Init => Promise!PromiseInit BY InitMaps
<1>2. Init => OpsMatch BY DEF Init, OpsMatch
<1>3. IInv /\ OpsMatch /\ [Next]_vars => OpsMatch'
  BY OpsStep DEF IInv
<1>4. IInv /\ OpsMatch /\ [Next]_vars
        => [Promise!PromiseNext]_(Promise!promiseVars)
  BY StepMaps
<1> QED BY <1>1, <1>2, <1>3, <1>4, IInvHolds, PTL
        DEF Spec, KeepsPromise, Promise!PromiseSafe

=============================================================================
