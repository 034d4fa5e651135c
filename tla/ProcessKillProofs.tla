--------------------------- MODULE ProcessKillProofs ---------------------------
(***************************************************************************)
(* What kill() and kill_tree() promise beside the waits, for any number of *)
(* processes, callers and pool threads: a PID the child gave up is told    *)
(* from the child's own, a forced kill leaves no descendant, exit codes    *)
(* stay right when signals decide how children end, and the callers of a   *)
(* process see no more of it than an end (ExitPromise).                    *)
(***************************************************************************)
EXTENDS ProcessKill, ProcessWaitAlwaysProofs, ProcessWaitPromiseProofs

-----------------------------------------------------------------------------
(* The inductive invariant.                                                *)

TreeRecords == [at : {"exited", "verify", "root", "group"}, on : Procs,
                force : BOOLEAN, blind : BOOLEAN]

KillTypes ==
    /\ owner \in [Procs -> {"self", "nobody", "child", "stranger"}]
    /\ signalled \in [Procs -> SUBSET {SIGKILL, SIGTERM}]
    /\ kin \in [Procs -> BOOLEAN]
    /\ start_time \in [Procs -> BOOLEAN]
    /\ tree = NoTree \/ tree \in TreeRecords

Living == {"running", "zombie"}

\* A child has its PID until it is reaped; then whoever was given it has.
PidsOfTheReaped ==
    \A p \in Procs : /\ owner[p] # "self" => child[p] = "reaped"
                     /\ taker[p] \in Living => owner[p] = "child"

\* kill_tree() has the OS thread, and its caller no other call.
TreeHoldsThread == tree # NoTree => cur \in Callers /\ pc[cur] = "idle"

\* Its signal goes to the PID alone only when the child is no more, or its start
\* time could not be read again.
RootIsGone == tree.at = "root" => tree.blind \/ child[tree.on] = "reaped"

KillInv ==
    AlwaysInv /\ KillTypes /\ PidsOfTheReaped /\ TreeHoldsThread /\ RootIsGone

\* What a kill_tree() has seen of the PID still holds while it runs, if no PID
\* is given out meanwhile.
NoFastReuse == "fast_reuse" \notin KillFaults

TreeSawRight ==
    /\ tree.at \in {"verify", "root", "group"} => owner[tree.on] # "stranger"
    /\ tree.at = "group" /\ start_time[tree.on] => owner[tree.on] # "child"

SparesInv == TreeSawRight /\ TreeKillSparesStrangers

-----------------------------------------------------------------------------
(* What the steps of ProcessWait leave to kill_tree().                     *)

\* A reaped child stays reaped, and no other child is given its PID while some
\* call has the OS thread.
ReapedStayReaped ==
    /\ \A p \in Procs : child[p] = "reaped" => child'[p] = "reaped"
    /\ cur # NoOne =>
          \A p \in Procs : taker'[p] \in Living => taker[p] \in Living

LEMMA NextReaps ==
    ASSUME WellFormed, [Next]_vars
    PROVE  ReapedStayReaped
<1> USE DEF WellFormed, TypeOK, ChildTypeOK, ReapedStayReaped, Living
<1>1. CASE UNCHANGED childVars
  BY <1>1 DEF childVars, pidVars
<1>7. ASSUME NEW p \in Procs, Reap(p)
      PROVE  ReapedStayReaped
  BY <1>7 DEF Reap
<1>2. ASSUME NEW p \in Procs, ChildExits(p) \/ ExternalReap(p) \/ wait_for(p)
      PROVE  ReapedStayReaped
  BY <1>2, <1>7 DEF ChildExits, ExternalReap, wait_for, pidVars
<1>8. ASSUME NEW p \in Procs, TakerSteps(p)
      PROVE  ReapedStayReaped
  BY <1>7, <1>8 DEF TakerSteps, TakesPid, TakerExits, TakerReaped
<1>3. ASSUME NEW p \in Procs, wait_work_cb(p)
      PROVE  ReapedStayReaped
  BY <1>2, <1>3 DEF wait_work_cb
<1>4. ASSUME NEW c \in Callers, NEW p \in Procs, Call(c, p)
      PROVE  UNCHANGED childVars
  BY <1>4 DEF Call, wait, try_wait, has_exited, wait_poll, wait_with,
              wait_timeout_ms, destroy
<1>5. ASSUME NEW c \in Callers, Step(c)
      PROVE  ReapedStayReaped
  <2>1. CASE Poll(c) \/ poll_once(c) \/ \E k \in Kinds : await_work(c, k)
    BY <1>1, <2>1 DEF Poll, poll_once, await_work
  <2>2. CASE collect_wait(c)
    <3>1. on[c] \in Procs
      BY <2>2 DEF collect_wait, CallsHaveProcs
    <3>2. UNCHANGED childVars \/ wait_for(on[c])
      BY <2>2 DEF collect_wait, collect_cached, collect_work, collect_sync
    <3>. QED
      BY <1>1, <1>2, <3>1, <3>2
  <2>3. CASE timed_poll(c)
    <3>1. on[c] \in Procs
      BY <2>3 DEF timed_poll, CallsHaveProcs
    <3>2. UNCHANGED childVars \/ wait_for(on[c])
      BY <2>3 DEF timed_poll, timed_cached, timed_forever, timed_seen,
                  timed_gone, timed_out
    <3>. QED
      BY <1>1, <1>2, <3>1, <3>2
  <2>4. CASE timed_reap(c)
    BY <1>7, <2>4 DEF timed_reap, CallsHaveProcs
  <2>. QED
    BY <1>5, <2>1, <2>2, <2>3, <2>4 DEF Step
<1>6. ASSUME \/ \E i \in Items : Take(i)
             \/ \E c \in Callers : async_poll_once(c)
             \/ async_poll \/ async_stop
             \/ UNCHANGED vars
      PROVE  UNCHANGED childVars
  BY <1>6 DEF Take, async_poll_once, async_poll, async_stop, vars
<1>. QED
  BY <1>1, <1>2, <1>3, <1>4, <1>5, <1>6, <1>8 DEF Next, TakerSteps

\* Whoever has the OS thread outside any call of ProcessWait keeps it.
LEMMA NextSparesHolder ==
    ASSUME WellFormed, NEW c \in Callers, cur = c, pc[c] = "idle", [Next]_vars
    PROVE  cur' = c /\ pc'[c] = "idle"
<1>1. cur # NoOne
  BY ProcessAssumption
<1>2. ASSUME UNCHANGED callVars
      PROVE  cur' = c /\ pc'[c] = "idle"
  BY <1>2 DEF callVars
<1>3. ~(\E d \in Callers, p \in Procs : Call(d, p))
  BY <1>1 DEF Call, wait, try_wait, has_exited, wait_poll, wait_with,
              wait_timeout_ms, destroy, Enter
<1>4. ASSUME NEW d \in Callers, Step(d)
      PROVE  FALSE
  <2>1. MayRun(d) => pc[d] = "idle"
    BY <1>1 DEF MayRun
  <2>2. CASE Poll(d) \/ collect_wait(d) \/ timed_poll(d) \/ timed_reap(d) \/ poll_once(d)
    BY <2>1, <2>2 DEF Poll, collect_wait, timed_poll, timed_reap, poll_once
  <2>3. ASSUME NEW k \in Kinds, await_work(d, k)
        PROVE  FALSE
    BY <2>1, <2>3 DEF await_work, JoinAt, Kinds
  <2>. QED
    BY <1>4, <2>2, <2>3 DEF Step
<1>5. ~(\E d \in Callers : async_poll_once(d))
  BY <1>1 DEF async_poll_once, Enter
<1>6. ASSUME \/ \E p \in Procs : ChildExits(p) \/ ExternalReap(p) \/ wait_work_cb(p)
             \/ \E p \in Procs : TakerSteps(p)
             \/ \E i \in Items : Take(i)
             \/ async_poll \/ async_stop
             \/ UNCHANGED vars
      PROVE  UNCHANGED callVars
  BY <1>6 DEF ChildExits, ExternalReap, wait_work_cb, TakerSteps, TakesPid,
              TakerExits, TakerReaped, Take, async_poll, async_stop, vars
<1>. QED
  BY <1>2, <1>3, <1>4, <1>5, <1>6 DEF Next, TakerSteps

-----------------------------------------------------------------------------
(* AlwaysInv, kept by the steps this module adds.                          *)

\* It does not depend on what they change.
LEMMA WaitStateKept ==
    ASSUME AlwaysInv, UNCHANGED vars
    PROVE  AlwaysInv'
BY AlwaysStep

\* A signal makes an ending like any other.
LEMMA SignalEndsAlways ==
    ASSUME AlwaysInv, KillTypes, NEW p \in Procs, SignalEnds(p)
    PROVE  AlwaysInv'
<1> USE DEF AlwaysInv, WellFormed, TypeOK, ChildTypeOK
<1>1. PICK s \in signalled[p] :
        fate' = [fate EXCEPT ![p] = [code |-> "CLD_KILLED", status |-> s]]
  BY DEF SignalEnds
<1>2. [code |-> "CLD_KILLED", status |-> s] \in Endings
  BY KillAssumption DEF KillTypes, Endings, SIGKILL, SIGTERM
<1>3. /\ \A q \in Procs \ {p} : fate'[q] = fate[q] /\ child'[q] = child[q]
      /\ child[p] = "running" /\ child'[p] = "zombie" /\ fate'[p] \in Endings
      /\ UNCHANGED <<pidVars, poolVars, handle, holderVars, work_code, callVars>>
  BY <1>1, <1>2 DEF SignalEnds
<1>4. WellFormed'
  <2>1. ChildTypeOK' /\ EndedHaveEndings'
    BY <1>1, <1>2, <1>3 DEF SignalEnds, EndedHaveEndings, pidVars
  <2>2. PoolTypeOK' /\ HolderTypeOK' /\ CallTypeOK' /\ CallsHaveProcs'
    BY <1>3
    DEF PoolTypeOK, HolderTypeOK, CallTypeOK, CallsHaveProcs, poolVars,
        holderVars, callVars
  <2>. QED
    BY <2>1, <2>2
<1>5. ItemsStep /\ HandlesOnlyClose /\ NobodyJoins
  BY <1>3, PoolUnchangedItems DEF HandlesOnlyClose, NobodyJoins, callVars
<1>6. WorkJoinedBeforeFree'
  BY <1>5, JoinedKept
<1>7. ASSUME NEW q \in Procs
      PROVE  SeenAfterEnd(q)'
  <2>1. SeenAfterEnd(q)
    BY DEF OnlyAfterEnd
  <2>. QED
    BY <1>3, <2>1 DEF SeenAfterEnd, RightOrZero, poolVars, holderVars, pidVars
<1>8. ASSUME NEW c \in Callers
      PROVE  ToldAfterEnd(c)'
  <2>1. ToldAfterEnd(c)
    BY DEF OnlyAfterEnd
  <2>2. pc[c] \in {"timed_reap", "collect"} => on[c] \in Procs
    BY DEF CallsHaveProcs
  <2>. QED
    BY <1>3, <2>1, <2>2 DEF ToldAfterEnd, RightOrZero, callVars, pidVars
<1>9. CallsKeepHandles'
  BY <1>3, KeepsKept
<1>. QED
  BY <1>4, <1>6, <1>7, <1>8, <1>9 DEF OnlyAfterEnd

\* kill_tree() takes a thread nobody has, and gives it back.
LEMMA TreeThreadAlways ==
    ASSUME AlwaysInv,
           UNCHANGED <<poolVars, childVars, handle, holderVars, work_code,
                       pc, op, on, limit, ret>>,
           cur' \in Callers \cup {NoOne},
           cur = NoOne \/ (cur \in Callers /\ pc[cur] = "idle")
    PROVE  AlwaysInv'
<1> USE DEF AlwaysInv, WellFormed, TypeOK
<1>1. WellFormed'
  <2>1. PoolTypeOK' /\ ChildTypeOK' /\ HolderTypeOK' /\ EndedHaveEndings'
    BY DEF PoolTypeOK, ChildTypeOK, HolderTypeOK, EndedHaveEndings, poolVars,
           childVars, pidVars, holderVars
  <2>2. CallTypeOK' /\ CallsHaveProcs'
    BY DEF CallTypeOK, CallsHaveProcs
  <2>. QED
    BY <2>1, <2>2
<1>2. \A c \in Callers :
        pc[c] \notin {"timed", "timed_reap", "join_wait", "join_out", "join_err"}
  BY ProcessAssumption DEF CallsKeepHandles
<1>3. CallsKeepHandles'
  BY <1>2 DEF CallsKeepHandles
<1>4. ItemsStep /\ HandlesOnlyClose /\ NobodyJoins /\ EndingsStay
  BY PoolUnchangedItems
  DEF HandlesOnlyClose, NobodyJoins, EndingsStay, EndedStayEnded, childVars,
      pidVars
<1>5. WorkJoinedBeforeFree'
  BY <1>4, JoinedKept
<1>6. \A p \in Procs : SeenAfterEnd(p)'
  BY <1>4, SeenKept
<1>7. \A c \in Callers : ToldAfterEnd(c)'
  BY <1>4, ToldKept
<1>. QED
  BY <1>1, <1>3, <1>5, <1>6, <1>7 DEF OnlyAfterEnd

-----------------------------------------------------------------------------
(* One lemma per operation.                                                *)

\* A step of ProcessWait beside the kills.
LEMMA WaitingKeeps ==
    ASSUME KillInv, Waiting
    PROVE  KillInv' /\ (SparesInv => SparesInv')
<1> USE DEF KillInv
<1>1. AlwaysInv'
  BY AlwaysStep DEF Waiting
<1>2. ReapedStayReaped /\ WellFormed
  BY NextReaps DEF Waiting, AlwaysInv
<1>3. /\ owner' = [p \in Procs |->
                     IF child'[p] # "reaped" THEN "self"
                     ELSE IF taker'[p] \in Living THEN "child"
                     ELSE IF owner[p] = "stranger" THEN "stranger"
                     ELSE "nobody"]
      /\ UNCHANGED <<signalled, kin, start_time, tree, hit>>
  BY DEF Waiting, Living
<1>4. KillTypes'
  BY <1>3 DEF KillTypes
<1>10. EndedHaveEndings'
  BY <1>1 DEF AlwaysInv, WellFormed
<1>5. PidsOfTheReaped'
  BY <1>3, <1>10 DEF PidsOfTheReaped, EndedHaveEndings, Living
<1>6. TreeHoldsThread'
  BY <1>2, <1>3, NextSparesHolder DEF TreeHoldsThread, Waiting
<1>7. tree.at \in {"exited", "verify", "root", "group"} => tree.on \in Procs
  BY DEF KillTypes, TreeRecords, NoTree
<1>8. RootIsGone'
  BY <1>2, <1>3, <1>7 DEF RootIsGone, ReapedStayReaped
<1>9. SparesInv => SparesInv'
  <2>1. tree # NoTree => cur # NoOne
    BY ProcessAssumption DEF TreeHoldsThread
  <2>2. \A p \in Procs :
          /\ owner[p] # "stranger" => owner'[p] # "stranger"
          /\ tree # NoTree /\ owner[p] # "child" => owner'[p] # "child"
    BY <1>2, <1>3, <2>1 DEF ReapedStayReaped, PidsOfTheReaped
  <2>3. tree.at \in {"exited", "verify", "root", "group"} => tree # NoTree
    BY DEF NoTree
  <2>4. UNCHANGED <<start_time, tree, hit>>
    BY <1>3
  <2>. QED
    BY <1>7, <2>2, <2>3, <2>4
    DEF SparesInv, TreeSawRight, TreeKillSparesStrangers
<1>. QED
  BY <1>1, <1>4, <1>5, <1>6, <1>8, <1>9

\* The PID is given out again: while a kill_tree() runs, only if that is quick.
LEMMA ReuseKeeps ==
    ASSUME KillInv, NEW p \in Procs, Reuse(p)
    PROVE  KillInv' /\ (NoFastReuse /\ SparesInv => SparesInv')
<1> USE DEF KillInv
<1>1. /\ owner[p] = "nobody"
      /\ tree = NoTree \/ "fast_reuse" \in KillFaults
      /\ owner' = [owner EXCEPT ![p] = "stranger"]
      /\ UNCHANGED <<vars, signalled, kin, start_time, tree, hit>>
  BY DEF Reuse, Free
<1>2. AlwaysInv'
  BY <1>1, WaitStateKept
<1>3. KillTypes' /\ PidsOfTheReaped'
  BY <1>1 DEF KillTypes, PidsOfTheReaped, Living, vars, childVars, pidVars
<1>4. TreeHoldsThread' /\ RootIsGone'
  BY <1>1 DEF TreeHoldsThread, RootIsGone, vars, childVars, callVars
<1>5. NoFastReuse /\ SparesInv => SparesInv'
  BY <1>1 DEF NoFastReuse, SparesInv, TreeSawRight, TreeKillSparesStrangers, NoTree
<1>. QED
  BY <1>2, <1>3, <1>4, <1>5

\* The child ends by a signal, or a descendant of it ends.
LEMMA EndsKeep ==
    ASSUME KillInv, NEW p \in Procs, SignalEnds(p) \/ KinExits(p)
    PROVE  KillInv' /\ (SparesInv => SparesInv')
<1> USE DEF KillInv
<1>1. AlwaysInv'
  BY SignalEndsAlways, WaitStateKept DEF KinExits
<1>2. /\ UNCHANGED <<owner, signalled, start_time, tree, hit, cur, pc, taker>>
      /\ kin' \in [Procs -> BOOLEAN]
      /\ \A q \in Procs : child[q] = "reaped" => child'[q] = "reaped"
  BY DEF SignalEnds, KinExits, killVars, vars, childVars, pidVars, callVars,
         KillTypes, AlwaysInv, WellFormed, TypeOK, ChildTypeOK
<1>3. KillTypes' /\ PidsOfTheReaped' /\ TreeHoldsThread'
  BY <1>2 DEF KillTypes, PidsOfTheReaped, TreeHoldsThread
<1>4. tree.at = "root" => tree.on \in Procs
  BY DEF KillTypes, TreeRecords, NoTree
<1>5. RootIsGone'
  BY <1>2, <1>4 DEF RootIsGone
<1>6. SparesInv => SparesInv'
  BY <1>2 DEF SparesInv, TreeSawRight, TreeKillSparesStrangers
<1>. QED
  BY <1>1, <1>3, <1>5, <1>6

\* The signals a child is sent are those two.
LEMMA SendTyped ==
    ASSUME KillTypes, NEW p \in Procs, NEW force \in BOOLEAN,
           send(p, Signal(force))
    PROVE  signalled' \in [Procs -> SUBSET {SIGKILL, SIGTERM}]
BY DEF KillTypes, send, Signal

\* kill() only signals.
LEMMA KillKeeps ==
    ASSUME KillInv, NEW p \in Procs, NEW force \in BOOLEAN, kill(p, force)
    PROVE  KillInv' /\ (SparesInv => SparesInv')
<1> USE DEF KillInv
<1>1. AlwaysInv'
  BY WaitStateKept DEF kill
<1>2. KillTypes'
  BY SendTyped DEF kill, KillTypes
<1>3. PidsOfTheReaped' /\ TreeHoldsThread' /\ RootIsGone'
  BY DEF kill, PidsOfTheReaped, TreeHoldsThread, RootIsGone, vars, childVars,
         pidVars, callVars
<1>4. SparesInv => SparesInv'
  BY DEF kill, SparesInv, TreeSawRight, TreeKillSparesStrangers
<1>. QED
  BY <1>1, <1>2, <1>3, <1>4

\* kill_tree() takes the thread first.
LEMMA KillTreeKeeps ==
    ASSUME KillInv, NEW c \in Callers, NEW p \in Procs, NEW force \in BOOLEAN,
           kill_tree(c, p, force)
    PROVE  KillInv' /\ (SparesInv => SparesInv')
<1> USE DEF KillInv
<1>1. /\ tree' = [at |-> "exited", on |-> p, force |-> force, blind |-> FALSE]
      /\ cur = NoOne /\ cur' = c /\ pc[c] = "idle"
      /\ UNCHANGED <<poolVars, childVars, handle, holderVars, work_code,
                     pc, op, on, limit, ret>>
      /\ UNCHANGED <<owner, signalled, kin, start_time, hit>>
  BY DEF kill_tree
<1>2. AlwaysInv'
  BY <1>1, TreeThreadAlways
<1>3. KillTypes' /\ PidsOfTheReaped' /\ TreeHoldsThread' /\ RootIsGone'
  BY <1>1 DEF KillTypes, TreeRecords, PidsOfTheReaped, TreeHoldsThread,
              RootIsGone, childVars, pidVars
<1>4. SparesInv => SparesInv'
  BY <1>1 DEF SparesInv, TreeSawRight, TreeKillSparesStrangers
<1>. QED
  BY <1>2, <1>3, <1>4

\* kill_tree() goes on to its next step.
LEMMA TreeGotoKeeps ==
    ASSUME KillInv, tree # NoTree, NEW w \in {"verify", "root", "group"},
           \/ TreeGoto(w) /\ (w = "root" => child[tree.on] = "reaped")
           \/ /\ tree' = [tree EXCEPT !.at = w, !.blind = TRUE]
              /\ UNCHANGED <<vars, owner, signalled, kin, start_time, hit>>
    PROVE  /\ KillInv'
           /\ tree'.at = w /\ tree'.on = tree.on
           /\ UNCHANGED <<owner, start_time, hit>>
<1> USE DEF KillInv
<1>1. /\ UNCHANGED <<vars, owner, signalled, kin, start_time, hit>>
      /\ tree \in TreeRecords
  BY DEF TreeGoto, KillTypes
<1>2. /\ tree'.at = w /\ tree'.on = tree.on /\ tree' # NoTree
      /\ tree' \in TreeRecords
      /\ w = "root" => tree'.blind \/ child[tree.on] = "reaped"
  <2>1. CASE tree' = [tree EXCEPT !.at = w] /\ (w = "root" => child[tree.on] = "reaped")
    BY <1>1, <2>1 DEF NoTree, TreeRecords
  <2>2. CASE tree' = [tree EXCEPT !.at = w, !.blind = TRUE]
    BY <1>1, <2>2 DEF NoTree, TreeRecords
  <2>. QED
    BY <2>1, <2>2 DEF TreeGoto
<1>3. AlwaysInv'
  BY <1>1, WaitStateKept
<1>4. KillTypes' /\ PidsOfTheReaped' /\ TreeHoldsThread' /\ RootIsGone'
  BY <1>1, <1>2 DEF KillTypes, PidsOfTheReaped, TreeHoldsThread, RootIsGone,
                    vars, childVars, pidVars, callVars
<1>. QED
  BY <1>1, <1>2, <1>3, <1>4

\* The end of kill_tree().
LEMMA TreeReturnsKeeps ==
    ASSUME KillInv, tree # NoTree, TreeReturns,
           signalled' \in [Procs -> SUBSET {SIGKILL, SIGTERM}],
           kin' \in [Procs -> BOOLEAN]
    PROVE  KillInv'
<1> USE DEF KillInv
<1>1. AlwaysInv'
  BY TreeThreadAlways DEF TreeReturns, TreeHoldsThread
<1>2. KillTypes' /\ PidsOfTheReaped' /\ TreeHoldsThread' /\ RootIsGone'
  BY DEF TreeReturns, KillTypes, PidsOfTheReaped, TreeHoldsThread, RootIsGone,
         NoTree, childVars, pidVars
<1>. QED
  BY <1>1, <1>2

\* Whoever else a signal hits has the PID.
LEMMA StraysAreOwners ==
    ASSUME NEW p \in Procs, NEW how, NEW h \in Strays(p, how)
    PROVE  h.of = p /\ h.who = owner[p] /\ h.how = how
BY DEF Strays

\* kill_tree(), step by step.
LEMMA TreeStepKeeps ==
    ASSUME KillInv, TreeStep
    PROVE  KillInv' /\ (SparesInv => SparesInv')
<1> DEFINE p == tree.on
<1>1. /\ tree # NoTree /\ p \in Procs /\ tree.force \in BOOLEAN
      /\ tree \in TreeRecords
  BY DEF TreeStep, tree_exited, tree_verify, tree_root, tree_group, NoTree,
         KillInv, KillTypes, TreeRecords
<1>2. CASE tree_exited
  <2>2. CASE TreeReturns /\ UNCHANGED <<signalled, kin, hit>>
    <3>1. TreeReturns /\ UNCHANGED <<signalled, kin, hit>>
      BY <2>2
    <3>2. KillInv'
      BY <1>1, <3>1, TreeReturnsKeeps DEF KillInv, KillTypes
    <3>3. SparesInv => SparesInv'
      BY <3>1 DEF TreeReturns, SparesInv, TreeSawRight, TreeKillSparesStrangers,
                  NoTree
    <3>. QED
      BY <3>2, <3>3
  <2>3. CASE /\ ~process_exited(p)
             /\ TreeGoto(IF start_time[p] THEN "verify" ELSE "group")
    <3>1. PICK w \in {"verify", "group"} :
            TreeGoto(w) /\ w = IF start_time[p] THEN "verify" ELSE "group"
      BY <2>3
    <3>4. KillInv' /\ tree'.at = w /\ tree'.on = p
          /\ UNCHANGED <<owner, start_time, hit>>
      BY <1>1, <3>1, TreeGotoKeeps
    <3>2. KillInv'
      BY <3>4
    <3>3. owner[p] \in {"self", "child"}
      BY <1>1, <2>3
      DEF process_exited, Running, KillInv, PidsOfTheReaped, Living
    <3>5. SparesInv => SparesInv'
      BY <3>1, <3>3, <3>4 DEF SparesInv, TreeSawRight, TreeKillSparesStrangers
    <3>. QED
      BY <3>2, <3>5
  <2>. QED
    BY <1>2, <2>2, <2>3 DEF tree_exited
<1>3. CASE tree_verify
  <2>1. PICK w \in {"group", "root"} :
          /\ \/ TreeGoto(w) /\ (w = "root" => owner[p] # "self")
             \/ /\ tree' = [tree EXCEPT !.at = w, !.blind = TRUE]
                /\ UNCHANGED <<vars, owner, signalled, kin, start_time, hit>>
          /\ w = "group" => owner[p] = "self"
    BY <1>3 DEF tree_verify
  <2>2. owner[p] # "self" => child[p] = "reaped"
    BY <1>1 DEF KillInv, PidsOfTheReaped
  <2>4. /\ KillInv'
        /\ tree'.at = w /\ tree'.on = p
        /\ UNCHANGED <<owner, start_time, hit>>
    BY <1>1, <2>1, <2>2, TreeGotoKeeps
  <2>3. KillInv'
    BY <2>4
  <2>6. tree.at = "verify"
    BY <1>3 DEF tree_verify
  <2>5. SparesInv => SparesInv'
    BY <2>1, <2>4, <2>6 DEF SparesInv, TreeSawRight, TreeKillSparesStrangers
  <2>. QED
    BY <2>3, <2>5
<1>4. CASE tree_root \/ tree_group
  <2>1. PICK how \in {"root", "group"} :
          /\ tree.at = how
          /\ send(p, Signal(tree.force)) /\ TreeReturns
          /\ hit' = hit \cup Strays(p, how)
    BY <1>4 DEF tree_root, tree_group
  <2>2. kin' \in [Procs -> BOOLEAN]
    BY <1>1, <1>4 DEF tree_root, tree_group, KillInv, KillTypes
  <2>3. KillInv'
    BY <1>1, <2>1, <2>2, SendTyped, TreeReturnsKeeps DEF KillInv
  <2>4. ASSUME SparesInv
        PROVE  TreeKillSparesStrangers'
    <3> SUFFICES ASSUME NEW h \in hit'
                 PROVE  h.who = "child" /\ (start_time'[h.of] => h.how = "root")
      BY DEF TreeKillSparesStrangers
    <3>1. start_time' = start_time
      BY <2>1 DEF TreeReturns
    <3>2. CASE h \in hit
      BY <2>4, <3>1, <3>2 DEF SparesInv, TreeKillSparesStrangers
    <3>3. CASE h \in Strays(p, how)
      <4>1. h.of = p /\ h.who = owner[p] /\ h.how = how
        BY <1>1, <3>3, StraysAreOwners
      <4>2. owner[p] \in {"child", "stranger"}
        BY <3>3 DEF Strays
      <4>. QED
        BY <2>1, <2>4, <3>1, <4>1, <4>2 DEF SparesInv, TreeSawRight
    <3>. QED
      BY <2>1, <3>2, <3>3
  <2>5. TreeSawRight'
    BY <2>1 DEF TreeReturns, TreeSawRight, NoTree
  <2>. QED
    BY <2>3, <2>4, <2>5 DEF SparesInv
<1>. QED
  BY <1>2, <1>3, <1>4 DEF TreeStep

-----------------------------------------------------------------------------
(* The theorems.                                                           *)

LEMMA KillStep ==
    ASSUME KillInv, [KillNext]_allVars
    PROVE  KillInv' /\ (NoFastReuse /\ SparesInv => SparesInv')
<1>1. CASE UNCHANGED allVars
  <2>1. UNCHANGED <<vars, owner, signalled, kin, start_time, tree, hit>>
    BY <1>1 DEF allVars, killVars
  <2>2. AlwaysInv'
    BY <2>1, WaitStateKept DEF KillInv
  <2>3. KillTypes' /\ PidsOfTheReaped' /\ TreeHoldsThread' /\ RootIsGone'
    BY <2>1 DEF KillInv, KillTypes, PidsOfTheReaped, TreeHoldsThread,
                RootIsGone, vars, childVars, pidVars, callVars
  <2>4. SparesInv => SparesInv'
    BY <2>1 DEF SparesInv, TreeSawRight, TreeKillSparesStrangers
  <2>. QED
    BY <2>2, <2>3, <2>4 DEF KillInv
<1>2. ASSUME NEW p \in Procs, Reuse(p) \/ SignalEnds(p) \/ KinExits(p)
      PROVE  KillInv' /\ (NoFastReuse /\ SparesInv => SparesInv')
  BY <1>2, ReuseKeeps, EndsKeep
<1>3. ASSUME NEW p \in Procs, NEW force \in BOOLEAN, kill(p, force)
      PROVE  KillInv' /\ (NoFastReuse /\ SparesInv => SparesInv')
  BY <1>3, KillKeeps
<1>4. ASSUME NEW c \in Callers, NEW p \in Procs, NEW force \in BOOLEAN,
             kill_tree(c, p, force)
      PROVE  KillInv' /\ (NoFastReuse /\ SparesInv => SparesInv')
  BY <1>4, KillTreeKeeps
<1>. QED
  BY <1>1, <1>2, <1>3, <1>4, WaitingKeeps, TreeStepKeeps DEF KillNext

LEMMA KillStart == KillInit => KillInv /\ SparesInv
<1> SUFFICES ASSUME KillInit PROVE KillInv /\ SparesInv
  OBVIOUS
<1>1. AlwaysInv
  BY TypeInit
  DEF KillInit, AlwaysInv, Init, PoolInit, CallsKeepHandles, OnlyAfterEnd,
      SeenAfterEnd, ToldAfterEnd, WorkJoinedBeforeFree, Nothing, Returned,
      WaitWork, Items, Kinds
<1>2. KillTypes /\ PidsOfTheReaped /\ TreeHoldsThread /\ RootIsGone
  BY DEF KillInit, Init, KillTypes, PidsOfTheReaped, Living, TreeHoldsThread,
         RootIsGone, NoTree
<1>3. SparesInv
  BY DEF KillInit, SparesInv, TreeSawRight, TreeKillSparesStrangers, NoTree
<1>. QED
  BY <1>1, <1>2, <1>3 DEF KillInv

LEMMA KillInvHolds == KillSpec => []KillInv
<1>1. KillInv /\ [KillNext]_allVars => KillInv'
  BY KillStep
<1>. QED
  BY <1>1, KillStart, PTL DEF KillSpec

\* kill_tree() after the child was reaped, by whichever thread and at
\* whichever of its steps, signals no process outside this program and no
\* group but the child's own, provided no PID is given out again within the
\* call.
THEOREM StrangersAreSpared ==
    ASSUME NoFastReuse
    PROVE  KillSpec => []TreeKillSparesStrangers
<1>1. KillInv /\ SparesInv /\ [KillNext]_allVars => (KillInv /\ SparesInv)'
  BY KillStep
<1>2. SparesInv => TreeKillSparesStrangers
  BY DEF SparesInv
<1>. QED
  BY <1>1, <1>2, KillStart, PTL DEF KillSpec

\* A forced kill_tree() of a child that runs to its end leaves nobody alive in
\* the child's group: it signals the PID alone only when the child is reaped,
\* or its start time was recorded and cannot be read again.
THEOREM ForcedKillsAreComplete == KillSpec => TreeKillIsComplete
<1>1. ASSUME KillInv, [KillNext]_allVars, tree # NoTree, tree' = NoTree,
             tree.force, ~tree.blind, child[tree.on] = "running"
      PROVE  ~kin'[tree.on]
  <2>1. /\ tree.on \in Procs
        /\ tree \in TreeRecords
    BY <1>1 DEF KillInv, KillTypes, TreeRecords
  <2>2. TreeStep
    BY <1>1 DEF KillNext, Waiting, Reuse, SignalEnds, KinExits, kill, kill_tree,
                allVars, killVars, NoTree
  <2>4. ~tree_exited
    BY <1>1, <2>1
    DEF tree_exited, process_exited, Running, TreeGoto, TreeRecords, NoTree
  <2>5. ~tree_verify /\ ~tree_root
    BY <1>1, <2>1 DEF tree_verify, tree_root, TreeGoto, TreeRecords, NoTree,
                      KillInv, RootIsGone
  <2>6. tree_group
    BY <2>2, <2>4, <2>5 DEF TreeStep
  <2>. QED
    BY <1>1, <2>1, <2>6 DEF tree_group, KillInv, KillTypes
<1>2. KillInv /\ [KillNext]_allVars =>
        [(tree # NoTree /\ tree' = NoTree /\ tree.force /\ ~tree.blind
            /\ child[tree.on] = "running") => ~kin'[tree.on]]_allVars
  BY <1>1
<1>. QED
  BY <1>2, KillInvHolds, PTL DEF KillSpec, TreeKillIsComplete

\* Exit codes stay right, or 0, or those of another child that was given the PID
\* of a reaped one, when signals of kill() and kill_tree() decide how children
\* end and while kill_tree() holds the OS thread.
THEOREM KilledCodesAreRightOrZero == KillSpec => []ExitCodeRightOrZero
<1>1. KillInv => ExitCodeRightOrZero
  BY DEF KillInv, AlwaysInv, ExitCodeRightOrZero, OnlyAfterEnd, SeenAfterEnd,
         ToldAfterEnd
<1>. QED
  BY <1>1, KillInvHolds, PTL

\* No handle notes an exit, caches a code or tells a caller so before the child
\* has ended, though signals may end it at any moment and kill_tree() looks at
\* it, too.
THEOREM KilledAreSaidExitedWhenGone == KillSpec => []ExitedOnlyIfGone
<1>1. KillInv => ExitedOnlyIfGone
  BY DEF KillInv, AlwaysInv, ExitedOnlyIfGone, OnlyAfterEnd, SeenAfterEnd,
         ToldAfterEnd
<1>. QED
  BY <1>1, KillInvHolds, PTL

-----------------------------------------------------------------------------
(* One owner of a status: a signal changes how a child ends and kill_tree()*)
(* who has the OS thread, but neither touches a status.                    *)

\* A child that a signal ends was reaped by nobody and has no code.
LEMMA SignalEndsSafe ==
    ASSUME KillInv, Safe, NEW p \in Procs, SignalEnds(p)
    PROVE  Safe'
<1> USE DEF Safe
<1>1. /\ child[p] = "running" /\ child' = [child EXCEPT ![p] = "zombie"]
      /\ child \in [Procs -> {"running", "zombie", "reaped"}]
      /\ \A q \in Procs \ {p} : fate'[q] = fate[q]
      /\ UNCHANGED <<pidVars, poolVars, handle, holderVars, work_code, callVars>>
  BY DEF SignalEnds, KillInv, AlwaysInv, WellFormed, TypeOK, ChildTypeOK
<1>2. CallsOwnHandles'
  BY <1>1 DEF CallsOwnHandles, callVars
<1>3. StatusHasOneOwner'
  BY <1>1 DEF StatusHasOneOwner, OneOwner, HasWork, poolVars, holderVars
<1>4. AnswersStayTrue'
  BY <1>1 DEF AnswersStayTrue, callVars, KillInv, AlwaysInv, WellFormed, TypeOK,
              CallTypeOK, CallsHaveProcs
<1>. QED
  BY <1>2, <1>3, <1>4

\* kill_tree() takes a thread nobody has, and gives it back.
LEMMA TreeThreadSafe ==
    ASSUME KillInv, Safe,
           UNCHANGED <<poolVars, childVars, handle, holderVars, work_code,
                       pc, op, on, limit, ret>>,
           cur = NoOne \/ (cur \in Callers /\ pc[cur] = "idle")
    PROVE  Safe'
<1> USE DEF Safe
<1>1. CallsOwnHandles'
  BY ProcessAssumption DEF CallsOwnHandles
<1>2. StatusHasOneOwner'
  BY DEF StatusHasOneOwner, OneOwner, HasWork, poolVars, childVars, holderVars
<1>3. AnswersStayTrue'
  BY DEF AnswersStayTrue, childVars
<1>. QED
  BY <1>1, <1>2, <1>3

\* What a step here is to ProcessWait.
LEMMA KillNextIs ==
    ASSUME KillInv, [KillNext]_allVars
    PROVE  \/ [Next]_vars
           \/ \E p \in Procs : SignalEnds(p)
           \/ /\ UNCHANGED <<poolVars, childVars, handle, holderVars, work_code,
                             pc, op, on, limit, ret>>
              /\ cur = NoOne \/ (cur \in Callers /\ pc[cur] = "idle")
<1>1. CASE \/ Waiting
           \/ \E p \in Procs : Reuse(p) \/ KinExits(p)
           \/ \E p \in Procs, force \in BOOLEAN : kill(p, force)
           \/ UNCHANGED allVars
  BY <1>1 DEF Waiting, Reuse, KinExits, kill, allVars
<1>2. CASE \E c \in Callers, p \in Procs, force \in BOOLEAN : kill_tree(c, p, force)
  BY <1>2 DEF kill_tree
<1>3. CASE TreeStep
  <2>1. cur \in Callers /\ pc[cur] = "idle"
    BY <1>3 DEF TreeStep, tree_exited, tree_verify, tree_root, tree_group,
                KillInv, TreeHoldsThread, NoTree
  <2>2. \/ UNCHANGED vars
        \/ UNCHANGED <<poolVars, childVars, handle, holderVars, work_code,
                       pc, op, on, limit, ret>>
    BY <1>3 DEF TreeStep, tree_exited, tree_verify, tree_root, tree_group,
                TreeGoto, TreeReturns
  <2>. QED
    BY <2>1, <2>2
<1>. QED
  BY <1>1, <1>2, <1>3 DEF KillNext

\* Nor does any step of this module take a status from its owner.
LEMMA KillSafeHolds ==
    ASSUME LibraryReapsAlone
    PROVE  KillSpec => []Safe
<1>1. KillInit => Safe
  BY SafeInit DEF KillInit
<1>2. KillInv /\ Safe /\ [KillNext]_allVars => Safe'
  BY KillNextIs, SafeStep, SignalEndsSafe, TreeThreadSafe
  DEF IInv, Safe, KillInv, AlwaysInv
<1>. QED
  BY <1>1, <1>2, KillInvHolds, PTL DEF KillSpec

\* While only the library reaps, a code that is cached or returned is the one
\* of how that child ended, 128 plus the signal for those kill() and
\* kill_tree() end.
THEOREM KilledCodesAreFaithful ==
    ASSUME LibraryReapsAlone
    PROVE  KillSpec => []ExitCodeFaithful
<1>1. Safe => ExitCodeFaithful
  BY DEF Safe, ExitCodeFaithful, StatusHasOneOwner, OneOwner, AnswersStayTrue
<1>. QED
  BY <1>1, KillSafeHolds, PTL

\* Under the same condition no blocking waitid() is outstanding for a child
\* that was reaped: when its PID is then given to another child of this
\* program, as it may be, no wait can take the one for the other.
THEOREM ReusedPidsAreNotWaitedFor ==
    ASSUME LibraryReapsAlone
    PROVE  KillSpec => []NeverWaitsForReapedPid
<1>1. Safe => NeverWaitsForReapedPid
  BY DEF Safe, NeverWaitsForReapedPid, StatusHasOneOwner, OneOwner,
         CallsOwnHandles, HasWork
<1>. QED
  BY <1>1, KillSafeHolds, PTL

\* Under the same condition no status is lost while its handle lives, however
\* its child was ended.
THEOREM KilledStatusIsNeverLost ==
    ASSUME LibraryReapsAlone
    PROVE  KillSpec => []StatusNeverLost
<1>1. Safe => StatusNeverLost
  BY DEF Safe, StatusNeverLost, StatusHasOneOwner, OneOwner
<1>. QED
  BY <1>1, KillSafeHolds, PTL

\* Whatever is called and whoever reaps, the code cached for a process that is
\* killed is never overwritten.
THEOREM KilledCodesNeverChange == KillSpec => CodeNeverChanges
<1>1. KillInit => TimedHoldsThread
  BY DEF KillInit, Init, TimedHoldsThread
<1>2. ASSUME KillInv, TimedHoldsThread, [KillNext]_allVars
      PROVE  TimedHoldsThread' /\ [NewCodesOnly]_vars
  <2>1. CASE [Next]_vars
    <3>1. TimedHoldsThread'
      BY <1>2, <2>1, TimedStep DEF KillInv, AlwaysInv
    <3>2. [NewCodesOnly]_vars
      BY <1>2, <2>1, StepWritesOnce, OthersLeaveCodes
      DEF NewCodesOnly, KillInv, AlwaysInv
    <3>. QED
      BY <3>1, <3>2
  <2>2. CASE \E p \in Procs : SignalEnds(p)
    BY <1>2, <2>2 DEF SignalEnds, TimedHoldsThread, NewCodesOnly, holderVars, callVars
  <2>3. CASE /\ UNCHANGED <<poolVars, childVars, handle, holderVars, work_code,
                            pc, op, on, limit, ret>>
             /\ cur = NoOne \/ (cur \in Callers /\ pc[cur] = "idle")
    BY <1>2, <2>3, ProcessAssumption DEF TimedHoldsThread, NewCodesOnly, holderVars
  <2>. QED
    BY <1>2, <2>1, <2>2, <2>3, KillNextIs
<1>3. KillInv /\ TimedHoldsThread /\ [KillNext]_allVars =>
        TimedHoldsThread' /\ [NewCodesOnly]_vars
  BY <1>2
<1>4. CodeNeverChanges <=> [][NewCodesOnly]_vars
  BY DEF CodeNeverChanges, NewCodesOnly
<1>. QED
  BY <1>1, <1>3, <1>4, KillInvHolds, PTL DEF KillSpec

-----------------------------------------------------------------------------
(* The promise, kept while children are killed.                            *)

\* A signal that ends a child fulfils its promise.
LEMMA SignalEndsMaps ==
    ASSUME KillInv, NEW p \in Procs, SignalEnds(p)
    PROVE  Promise!End(p)
<1> USE DEF KillInv, AlwaysInv, WellFormed, TypeOK, ChildTypeOK
<1>1. PICK s \in signalled[p] :
        fate' = [fate EXCEPT ![p] = [code |-> "CLD_KILLED", status |-> s]]
  BY DEF SignalEnds
<1> DEFINE e == [code |-> "CLD_KILLED", status |-> s]
<1>2. e \in Endings
  BY KillAssumption DEF KillTypes, Endings, SIGKILL, SIGTERM
<1>3. ConventionalCode(e) \in Codes
  BY <1>2, StatusOfEnding
<1>4. Ended[p] = NoCode
  BY DEF Ended, SignalEnds
<1>5. Ended' = [Ended EXCEPT ![p] = ConventionalCode(e)]
  BY <1>1 DEF Ended, SignalEnds
<1>6. UNCHANGED <<Known, Open, op, on, limit, ret>>
  BY KnownSame, OpenSame DEF SignalEnds, callVars
<1>. QED
  BY <1>3, <1>4, <1>5, <1>6 DEF Promise!End

\* The callers of a process see no more of kill() and kill_tree() than that it
\* may end: process handles keep the promise of ExitPromise whatever is killed
\* meanwhile, while only the library reaps.
THEOREM KilledProcessKeepsPromise ==
    ASSUME LibraryReapsAlone
    PROVE  KillSpec => KeepsPromise
<1>1. KillInit => Promise!PromiseInit /\ OpsMatch
  BY InitMaps DEF KillInit, Init, OpsMatch
<1>2. ASSUME KillInv, Safe, OpsMatch, [KillNext]_allVars
      PROVE  OpsMatch' /\ [Promise!PromiseNext]_(Promise!promiseVars)
  <2>1. CASE [Next]_vars
    BY <1>2, <2>1, OpsStep, StepMaps DEF IInv, Safe, KillInv, AlwaysInv
  <2>2. ASSUME NEW p \in Procs, SignalEnds(p)
        PROVE  OpsMatch' /\ Promise!PromiseNext
    <3>1. OpsMatch'
      BY <1>2, <2>2 DEF OpsMatch, SignalEnds, callVars
    <3>. QED
      BY <1>2, <2>2, <3>1, SignalEndsMaps DEF Promise!PromiseNext
  <2>3. CASE UNCHANGED <<poolVars, childVars, handle, holderVars, work_code,
                         pc, op, on, limit, ret>>
    <3>1. OpsMatch'
      BY <1>2, <2>3 DEF OpsMatch
    <3>2. Unseen
      BY <2>3, EndedSame, KnownSame, OpenSame DEF Unseen, childVars
    <3>. QED
      BY <3>1, <3>2, UnseenStutters
  <2>. QED
    BY <1>2, <2>1, <2>2, <2>3, KillNextIs
<1>3. KillInv /\ Safe /\ OpsMatch /\ [KillNext]_allVars =>
        OpsMatch' /\ [Promise!PromiseNext]_(Promise!promiseVars)
  BY <1>2
<1>. QED
  BY <1>1, <1>3, KillInvHolds, KillSafeHolds, PTL
  DEF KillSpec, KeepsPromise, Promise!PromiseSafe

=============================================================================
