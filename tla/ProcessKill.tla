----------------------------- MODULE ProcessKill -----------------------------
(***************************************************************************)
(* kill() and kill_tree() beside the waits of ProcessWait.  Both name the  *)
(* child by its PID.  kill() sends its signal without a look; kill_tree()  *)
(* first asks whether the child exited, then compares start times, then    *)
(* signals the child's process group or, in doubt, the PID alone.  Between *)
(* those steps, and before the call, pool threads may reap the child and   *)
(* the system may give its PID to another process: to another child of the *)
(* program, which ProcessWait models ("pid_reuse"), or to a stranger.      *)
(*                                                                         *)
(* `owner' is who has the PID of a child: the child itself ("self") until  *)
(* it is reaped, then "nobody", another "child" of this program, or a      *)
(* "stranger".  A definition with a suffix is a mistaken variant.          *)
(***************************************************************************)
EXTENDS ProcessWait

CONSTANT
    KillFaults           \* "no_start_time": it cannot be read on this system;
                         \* "no_stat": nor at times where it could be before;
                         \* "fast_reuse": a stranger gets a PID within one call

ASSUME KillAssumption ==
    /\ KillFaults \subseteq {"no_start_time", "no_stat", "fast_reuse"}
    /\ {9, 15} \subseteq Signals

VARIABLES
    owner,               \* who has the PID
    signalled,           \* the signals the child was sent
    kin,                 \* a descendant in the child's process group lives
    start_time,          \* _start_time was recorded
    tree,                \* the kill_tree() under way; `blind': the start time
                         \* could not be read again
    hit                  \* whom else a kill_tree() signalled, and how

killVars == <<owner, signalled, kin, start_time, tree, hit>>
allVars == <<vars, killVars>>

SIGKILL == 9
SIGTERM == 15
Signal(force) == IF force THEN SIGKILL ELSE SIGTERM

NoTree == [at |-> "none", on |-> NoProc, force |-> FALSE, blind |-> FALSE]

-----------------------------------------------------------------------------
(* The system.                                                             *)

\* The PID of p is given out again only when nobody has it; and a process
\* group with members keeps its number.
Free(p) == owner[p] = "nobody" /\ ~kin[p]

\* A step of ProcessWait: a child that was reaped gives up its PID, to another
\* child perhaps, which gives it up in turn.
Waiting ==
    /\ Next
    /\ \A p \in Procs : taker[p] # "running" /\ taker'[p] = "running" => Free(p)
    /\ owner' = [p \in Procs |->
                   IF child'[p] # "reaped" THEN "self"
                   ELSE IF taker'[p] \in {"running", "zombie"} THEN "child"
                   ELSE IF owner[p] = "stranger" THEN "stranger"
                   ELSE "nobody"]
    /\ UNCHANGED <<signalled, kin, start_time, tree, hit>>

\* Another program gets it.
Reuse(p) ==
    /\ Free(p)
    /\ tree = NoTree \/ "fast_reuse" \in KillFaults
    /\ owner' = [owner EXCEPT ![p] = "stranger"]
    /\ UNCHANGED <<vars, signalled, kin, start_time, tree, hit>>

\* A signal the child was sent ends it: SIGKILL must, SIGTERM may.
SignalEnds(p) ==
    /\ child[p] = "running"
    /\ \E s \in signalled[p] :
          fate' = [fate EXCEPT ![p] = [code |-> "CLD_KILLED", status |-> s]]
    /\ child' = [child EXCEPT ![p] = "zombie"]
    /\ UNCHANGED <<pidVars, poolVars, handle, holderVars, work_code, callVars, killVars>>

KinExits(p) ==
    /\ kin[p]
    /\ kin' = [kin EXCEPT ![p] = FALSE]
    /\ UNCHANGED <<vars, owner, signalled, start_time, tree, hit>>

\* kill(2) with the PID of p, or with the number of its group: the child gets
\* the signal if it still has that number.
send(p, s) ==
    signalled' = [signalled EXCEPT ![p] =
                    IF owner[p] = "self" THEN @ \cup {s} ELSE @]

\* Who else gets it.
Strays(p, how) ==
    IF owner[p] \in {"child", "stranger"}
    THEN {[of |-> p, who |-> owner[p], how |-> how]} ELSE {}

-----------------------------------------------------------------------------
(* The calls.                                                              *)

\* interrupt / terminate_process.
kill(p, force) ==
    /\ cur = NoOne /\ handle[p] = "live"
    /\ send(p, Signal(force))
    /\ UNCHANGED <<vars, owner, kin, start_time, tree, hit>>

\* interrupt_tree / terminate_process_tree, which keeps the OS thread.
kill_tree(c, p, force) ==
    /\ cur = NoOne /\ pc[c] = "idle" /\ handle[p] = "live"
    /\ cur' = c
    /\ tree' = [at |-> "exited", on |-> p, force |-> force, blind |-> FALSE]
    /\ UNCHANGED <<poolVars, childVars, handle, holderVars, work_code,
                   pc, op, on, limit, ret, owner, signalled, kin, start_time, hit>>

TreeGoto(where) ==
    /\ tree' = [tree EXCEPT !.at = where]
    /\ UNCHANGED <<vars, owner, signalled, kin, start_time, hit>>

TreeReturns ==
    /\ tree' = NoTree
    /\ cur' = NoOne
    /\ UNCHANGED <<poolVars, childVars, handle, holderVars, work_code,
                   pc, op, on, limit, ret, owner, start_time>>

tree_exited ==
    /\ tree.at = "exited"
    /\ \/ /\ process_exited(tree.on)
          /\ TreeReturns /\ UNCHANGED <<signalled, kin, hit>>
       \/ /\ ~process_exited(tree.on)
          /\ TreeGoto(IF start_time[tree.on] THEN "verify" ELSE "group")

\* The start time under that PID is the recorded one only if it is still the
\* child's, running or not.  One that cannot be read matches nothing.
tree_verify_Skipped ==
    /\ tree.at = "verify"
    /\ TreeGoto("group")

tree_verify ==
    /\ tree.at = "verify"
    /\ \/ TreeGoto(IF owner[tree.on] = "self" THEN "group" ELSE "root")
       \/ /\ "no_stat" \in KillFaults
          /\ tree' = [tree EXCEPT !.at = "root", !.blind = TRUE]
          /\ UNCHANGED <<vars, owner, signalled, kin, start_time, hit>>

tree_root ==
    /\ tree.at = "root"
    /\ send(tree.on, Signal(tree.force))
    /\ hit' = hit \cup Strays(tree.on, "root")
    /\ UNCHANGED kin
    /\ TreeReturns

tree_group_RootOnly ==
    /\ tree.at = "group"
    /\ send(tree.on, Signal(tree.force))
    /\ hit' = hit \cup Strays(tree.on, "root")
    /\ UNCHANGED kin
    /\ TreeReturns

tree_group ==
    /\ tree.at = "group"
    /\ send(tree.on, Signal(tree.force))
    /\ hit' = hit \cup Strays(tree.on, "group")
    /\ kin' = [kin EXCEPT ![tree.on] = @ /\ ~tree.force]
    /\ TreeReturns

TreeStep == tree_exited \/ tree_verify \/ tree_root \/ tree_group

-----------------------------------------------------------------------------

KillInit ==
    /\ Init
    /\ owner = [p \in Procs |-> "self"]
    /\ signalled = [p \in Procs |-> {}]
    /\ kin \in [Procs -> BOOLEAN]
    /\ start_time \in [Procs -> IF "no_start_time" \in KillFaults
                                THEN BOOLEAN ELSE {TRUE}]
    /\ tree = NoTree
    /\ hit = {}

KillNext ==
    \/ Waiting
    \/ \E p \in Procs : Reuse(p) \/ SignalEnds(p) \/ KinExits(p)
    \/ \E p \in Procs, force \in BOOLEAN :
          kill(p, force) \/ \E c \in Callers : kill_tree(c, p, force)
    \/ TreeStep

KillSpec == KillInit /\ [][KillNext]_allVars

-----------------------------------------------------------------------------
(* Properties.                                                             *)

\* kill_tree() after the child was reaped, by whichever thread and at
\* whichever of its steps, signals no process outside this program, and no
\* group but the child's own: ECHILD keeps it from strangers, the start time,
\* where there is one, from the groups of other children.
TreeKillSparesStrangers ==
    \A h \in hit : h.who = "child" /\ (start_time[h.of] => h.how = "root")

\* kill_tree() checks the identity of the process and so signals nobody but
\* the child and its group, given that the start time was recorded.
TreeKillSparesOthers == \A h \in hit : ~start_time[h.of]

\* When a forced kill_tree() is through, the child was running to the end of
\* the call and its start time could be read where it could be at the start,
\* no descendant in its group is left alive.  (On a start time it cannot read
\* again the call signals the child alone.)
TreeKillIsComplete ==
    [][(/\ tree # NoTree /\ tree' = NoTree
        /\ tree.force /\ ~tree.blind /\ child[tree.on] = "running")
         => ~kin'[tree.on]]_allVars

=============================================================================
