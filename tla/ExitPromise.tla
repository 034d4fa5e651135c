---------------------------- MODULE ExitPromise ----------------------------
(***************************************************************************)
(* What a process handle promises its callers: the end of a child is a     *)
(* one-shot promise.  It is fulfilled once, with the exit code the child   *)
(* ended with; a blocking wait is answered with that code and with nothing *)
(* else; the calls that need not wait may miss the end for a while, but    *)
(* not once anybody has been told of it; a handle that is being destroyed  *)
(* takes no more calls.                                                    *)
(*                                                                         *)
(* There are no threads, work items, zombies or event loops here: that     *)
(* they do not show is what ProcessWait is checked for.                    *)
(***************************************************************************)
EXTENDS Integers

CONSTANTS Procs, Callers, ExitCodes, NoProc, NoCode

VARIABLES
    ended,               \* the code each child ended with, or NoCode
    known,               \* the handle has seen that its child ended
    open,                \* the handle can be called
    op, on, limit,       \* each caller's call, on which process, how long
    ret                  \* and the answer to its last one

promiseVars == <<ended, known, open, op, on, limit, ret>>

Answer(is, code) == [is |-> is, code |-> code]
NoAnswer == Answer("nothing", 0)

Waits ==                                         \* may block for the child
    {"wait", "wait_poll", "wait_with", "communicate"}
Looks == {"try_wait", "has_exited"}              \* never block

PromiseInit ==
    /\ ended = [p \in Procs |-> NoCode]
    /\ known = [p \in Procs |-> FALSE]
    /\ open = [p \in Procs |-> TRUE]
    /\ op = [c \in Callers |-> "none"]
    /\ on = [c \in Callers |-> NoProc]
    /\ limit = [c \in Callers |-> "none"]
    /\ ret = [c \in Callers |-> NoAnswer]

\* The promise is fulfilled, once and with a real exit code.
End(p) ==
    /\ ended[p] = NoCode
    /\ \E code \in ExitCodes : ended' = [ended EXCEPT ![p] = code]
    /\ UNCHANGED <<known, open, op, on, limit, ret>>

\* The handle learns of it.
Learn(p) ==
    /\ ended[p] # NoCode
    /\ known' = [known EXCEPT ![p] = TRUE]
    /\ UNCHANGED <<ended, open, op, on, limit, ret>>

\* A call begins.
Begin(c, p, o, l) ==
    /\ op[c] = "none"
    /\ op' = [op EXCEPT ![c] = o]
    /\ on' = [on EXCEPT ![c] = p]
    /\ limit' = [limit EXCEPT ![c] = l]
    /\ ret' = [ret EXCEPT ![c] = NoAnswer]
    /\ UNCHANGED <<ended, known>>

\* Only wait_poll and wait_with take a time-out.
Ask(c, p) ==
    /\ open[p]
    /\ \/ \E o \in Waits \cup Looks : Begin(c, p, o, "none")
       \/ \E o \in {"wait_poll", "wait_with"} : Begin(c, p, o, "finite")
    /\ UNCHANGED open

\* The handle goes when no call on it is under way.
Drop(c, p) ==
    /\ open[p]
    /\ \A d \in Callers : op[d] = "none" \/ on[d] # p
    /\ Begin(c, p, "destroy", "none")
    /\ open' = [open EXCEPT ![p] = FALSE]

\* A call that is about no process.
DriveLoop(c) ==
    /\ Begin(c, NoProc, "poll_once", "none")
    /\ UNCHANGED open

\* What call c may be answered.
MayTell(c, a) ==
    \/ /\ op[c] \in Waits \cup {"try_wait"}
       /\ ended[on[c]] # NoCode
       /\ a = Answer("code", ended[on[c]])
    \/ /\ op[c] = "has_exited"
       /\ ended[on[c]] # NoCode
       /\ a = Answer("true", 0)
    \/ /\ op[c] = "try_wait" \/ limit[c] = "finite"
       /\ ~known[on[c]]
       /\ a = Answer("null", 0)
    \/ /\ op[c] = "has_exited"
       /\ ~known[on[c]]
       /\ a = Answer("false", 0)
    \/ /\ op[c] = "wait_with"
       /\ ~known[on[c]]
       /\ a = Answer("throw", 0)
    \/ /\ op[c] \in {"destroy", "poll_once"}
       /\ a = NoAnswer

\* Once somebody has been told of the end, it is known.
Tell(c, a) ==
    /\ op[c] # "none"
    /\ MayTell(c, a)
    /\ ret' = [ret EXCEPT ![c] = a]
    /\ op' = [op EXCEPT ![c] = "none"]
    /\ limit' = [limit EXCEPT ![c] = "none"]
    /\ known' = IF a.is \in {"code", "true"}
                THEN [known EXCEPT ![on[c]] = TRUE] ELSE known
    /\ UNCHANGED <<ended, open, on>>

Told == {Answer("code", x) : x \in ExitCodes}
          \cup {Answer(w, 0) : w \in {"true", "false", "null", "throw", "nothing"}}

PromiseNext ==
    \/ \E p \in Procs : End(p) \/ Learn(p)
    \/ \E c \in Callers, p \in Procs : Ask(c, p) \/ Drop(c, p)
    \/ \E c \in Callers : DriveLoop(c) \/ \E a \in Told : Tell(c, a)

\* A wait on a child that ended is answered; so is a destructor.
Answered ==
    \A c \in Callers :
        (op[c] \in Waits \cup {"destroy"} /\ ended[on[c]] # NoCode)
            ~> op[c] = "none"

PromiseSafe == PromiseInit /\ [][PromiseNext]_promiseVars

PromiseSpec == PromiseSafe /\ Answered

=============================================================================
