----------------------------- MODULE SpawnUnix ------------------------------
(***************************************************************************)
(* create_process_impl() on Unix: the fail pipe, fork, what the child does *)
(* to its descriptors, the search for the program to execute, and the      *)
(* handshake that tells the parent whether it was executed.                *)
(***************************************************************************)
EXTENDS Spawn, CommandLine, Environment

dup2(t, from, to) == IF t[from] = Free THEN t ELSE [t EXCEPT ![to] = t[from]]

-----------------------------------------------------------------------------
(* create_process_impl, the parent.                                        *)

open_fail_pipe ==
    /\ platform = "unix" /\ pc = "impl"
    /\ \/ create_pipe(FailPipe) /\ pc' = "fork"
       \/ /\ pipe_fails /\ pc' = "rollback"
          /\ UNCHANGED <<fds, inheritable, pipes>>
    /\ UNCHANGED <<settings, info, childVars>>

\* fork; the parent closes its write end of the fail pipe.
fork_KeepsWriteEnd ==
    /\ pc = "fork"
    /\ \/ /\ "fork" \in Faults
          /\ fds' = ClosePipes({FailPipe})
          /\ pc' = "rollback"
          /\ UNCHANGED <<cfds, cstd, cpc, child>>
       \/ /\ fds' = fds
          /\ pc' = "handshake"
          /\ child' = "running" /\ cpc' = "wire"
          /\ cfds' = fds /\ cstd' = [k \in Stdio |-> k]
    /\ UNCHANGED <<settings, inheritable, pipes, info, exec, image, fail_msg>>

fork ==
    /\ pc = "fork"
    /\ \/ /\ "fork" \in Faults
          /\ fds' = ClosePipes({FailPipe})
          /\ pc' = "rollback"
          /\ UNCHANGED <<cfds, cstd, cpc, child>>
       \/ /\ fds' = close_fd(fds, pipes[FailPipe].w)
          /\ pc' = "handshake"
          /\ child' = "running" /\ cpc' = "wire"
          /\ cfds' = fds /\ cstd' = [k \in Stdio |-> k]
    /\ UNCHANGED <<settings, inheritable, pipes, info, exec, image, fail_msg>>

\* Nobody can write to the fail pipe any more: read() returns 0.
FailPipeClosed ==
    \A fd \in Fds : File("w", FailPipe) \notin {fds[fd], cfds[fd]}

\* read_fully, which retries EINTR: an errno means failure; end of file is
\* taken for success.  No third outcome is possible: the pipe is open, and the
\* four bytes of an errno are written to it at once or not at all.
read_errno ==
    /\ pc = "handshake" /\ fail_msg # NoErrno
    /\ pc' = "reap"
    /\ UNCHANGED <<settings, inheritable, fds, pipes, info, childVars>>

\* One waitpid, whatever it says: a signal that interrupts it leaves the
\* child to become a zombie.  Then throw into the rollback.
reap_failed_NoWait ==
    /\ pc = "reap"
    /\ fds' = close_fd(fds, pipes[FailPipe].r)
    /\ pc' = "rollback"
    /\ UNCHANGED <<settings, inheritable, pipes, info, childVars>>

reap_failed ==
    /\ pc = "reap" /\ child = "zombie"
    /\ \/ child' = "reaped"
       \/ "waitpid" \in Faults /\ child' = "left"
    /\ fds' = close_fd(fds, pipes[FailPipe].r)
    /\ pc' = "rollback"
    /\ UNCHANGED <<settings, inheritable, pipes, info,
                   cfds, cstd, cpc, exec, image, fail_msg>>

started_IgnoresErrno ==
    /\ pc = "handshake" /\ FailPipeClosed
    /\ keep_parent_ends({pipes[FailPipe].r})
    /\ UNCHANGED <<settings, inheritable, pipes, childVars>>

started ==
    /\ pc = "handshake" /\ fail_msg = NoErrno /\ FailPipeClosed
    /\ keep_parent_ends({pipes[FailPipe].r})
    /\ UNCHANGED <<settings, inheritable, pipes, childVars>>

-----------------------------------------------------------------------------
(* child_proc.                                                             *)

\* Close the parent's ends of the stdin and stdout pipes.
DropParentEnds(t) ==
    [fd \in Fds |->
        IF \/ fd = pipes[FailPipe].r
           \/ \E k \in {0, 1} : Pipes(k) /\ fd = ParentEnd(k)
        THEN Free ELSE t[fd]]

WireStdin(t) == IF inherited(0) THEN t ELSE dup2(t, pipes[0].r, 0)

WireStdout(t) == IF inherited(1) THEN t ELSE dup2(t, pipes[1].w, 1)

\* stderr follows stdout when merged, and merging wins over inheriting and
\* over a redirect.
WireStderr_MergeLast(t) ==
    IF inherited(2) THEN t
    ELSE IF startup.merge THEN dup2(t, 1, 2)
    ELSE IF redirected(2) THEN dup2(t, pipes[2].w, 2)
    ELSE dup2(close_fd(t, pipes[2].r), pipes[2].w, 2)

WireStderr(t) ==
    IF startup.merge THEN dup2(t, 1, 2)
    ELSE IF inherited(2) THEN t
    ELSE IF redirected(2) THEN dup2(t, pipes[2].w, 2)
    ELSE dup2(close_fd(t, pipes[2].r), pipes[2].w, 2)

\* Close what was duplicated.
DropOriginals(t) ==
    [fd \in Fds |-> IF \E k \in Stdio : Binds(k) /\ fd = ChildEnd(k)
                    THEN Free ELSE t[fd]]

\* close_all_descriptors(3, fail_fd).
close_all_descriptors(t, fail_fd) ==
    [fd \in Fds |-> IF fd >= 3 /\ fd # fail_fd THEN Free ELSE t[fd]]

FailFd == pipes[FailPipe].w

child_wires ==
    /\ cpc = "wire" /\ child = "running"
    /\ cfds' = close_all_descriptors(
                 DropOriginals(WireStderr(WireStdout(WireStdin(
                   DropParentEnds(cfds))))), FailFd)
    /\ cpc' = "chdir"
    /\ UNCHANGED <<settings, inheritable, fds, pipes, info, pc,
                   cstd, child, exec, image, fail_msg>>

\* The kernel closes everything when the child dies.
Dies ==
    /\ cfds' = [fd \in Fds |-> Free]
    /\ child' = "zombie"
    /\ cpc' = "dead"

\* Report errno through whatever fail_fd is, and _exit.
exit_with_error(errno) ==
    /\ fail_msg' = IF cfds[FailFd] = File("w", FailPipe) THEN errno ELSE NoErrno
    /\ Dies

\* chdir, then FD_CLOEXEC on the fail pipe; each may fail.
child_step(at, next) ==
    /\ cpc = at /\ child = "running"
    /\ \/ at \in Faults /\ exit_with_error(at)
       \/ /\ cpc' = next
          /\ UNCHANGED <<cfds, child, fail_msg>>
    /\ UNCHANGED <<settings, inheritable, fds, pipes, info, pc, cstd, exec, image>>

child_chdir == child_step("chdir", "fcntl")
child_fcntl == child_step("fcntl", "exec")

\* A signal from outside ends the child before exec.
ChildKilled ==
    /\ "kill" \in Faults
    /\ child = "running" /\ image = NoImage
    /\ Dies
    /\ UNCHANGED <<settings, inheritable, fds, pipes, info, pc,
                   cstd, exec, image, fail_msg>>

-----------------------------------------------------------------------------
(* mpp_execvpe.  world.execve says what execve() makes of the file found   *)
(* in each directory, "/" standing for a name with a slash in it, and      *)
(* world.sh what it makes of /bin/sh.                                      *)

Slash == "/"
Null == <<"NULL">>                      \* the end of argv
BinSh == <<Slash, "s", "h">>

\* PATH when it is not set: the builder's own default, or the C library's
\* when the search is left to execvp().
default_path_env == << "", "/bin", "/usr/bin" >>
libc_default_path == << "/bin", "/usr/bin" >>

UsesExecvp == PassedOn(startup.inherit_env, startup.env)

\* Empty components are the current directory.
effective_pathv ==
    LET path == IF world.path # NoWord THEN world.path
                ELSE IF UsesExecvp THEN libc_default_path ELSE default_path_env
    IN  [i \in 1..Len(path) |-> IF path[i] = "" THEN "." ELSE path[i]]

HasSlash(file) == \E i \in 1..Len(file) : file[i] = Slash

\* The directories to look in.
SearchPath(file) == IF HasSlash(file) THEN <<Slash>> ELSE effective_pathv

\* argv as child_proc() lays it out: one word of space behind the NULL.
InitialArgv(cmdline) ==
    [i \in 1..Len(cmdline) + 2 |-> IF i <= Len(cmdline) THEN cmdline[i] ELSE Null]

\* What a program receives: the words before the first NULL.
ArgvOf(argv) ==
    LET n == CHOOSE i \in 1..Len(argv) : argv[i] = Null /\ \A j \in 1..i - 1 : argv[j] # Null
    IN  SubSeq(argv, 1, n - 1)

ChildEnv == IF UsesExecvp THEN ParentMap("unix", world.environ)
            ELSE ChildMap("unix", world.environ, startup.inherit_env, startup.env)

\* execve() succeeds: close-on-exec closes the fail pipe.
Executes(dir, argv) ==
    /\ image' = [dir |-> dir, argv |-> ArgvOf(argv), env |-> ChildEnv]
    /\ cfds' = close_fd(cfds, FailFd)
    /\ cpc' = "execd"
    /\ UNCHANGED <<child, exec, fail_msg>>

\* The words of argv after the first move one to the right, and back.
ShiftRight(argv, file) ==
    [i \in 1..Len(argv) |-> IF i = 1 THEN BinSh ELSE IF i = 2 THEN file ELSE argv[i - 1]]

ShiftLeft(argv, argv0) ==
    [i \in 1..Len(argv) |-> IF i = 1 THEN argv0
                            ELSE IF i < Len(argv) THEN argv[i + 1] ELSE argv[i]]

Program == startup.cmdline[1]
Dir == SearchPath(Program)[exec.dir]

\* absolute_path: the directory, a slash and the name; or the name itself.
Candidate(dir) == IF dir = Slash THEN Program ELSE <<dir, Slash>> \o Program

\* The first lines of mpp_execvpe.  Without variables of its own the search
\* is left to execvp(), which is taken to go through PATH in the same way.
exec_begin ==
    /\ cpc = "exec" /\ child = "running"
    /\ \/ /\ Program = <<>>
          /\ exit_with_error("ENOENT")
          /\ UNCHANGED exec
       \/ /\ "malloc" \in Faults /\ ~UsesExecvp
          /\ Program # <<>> /\ ~HasSlash(Program)
          /\ exit_with_error("ENOMEM")
          /\ UNCHANGED exec
       \/ /\ Program # <<>>
          /\ exec' = [argv |-> InitialArgv(startup.cmdline), dir |-> 1,
                      errno |-> NoErrno, sticky_errno |-> NoErrno]
          /\ cpc' = "try"
          /\ UNCHANGED <<cfds, child, fail_msg>>
    /\ UNCHANGED <<settings, inheritable, fds, pipes, info, pc, cstd, image>>

\* execve_or_shebang on the candidate of the next directory, unless its name
\* would be longer than PATH_MAX: then it is not tried ("PATH_MAX").
exec_try ==
    /\ cpc = "try" /\ child = "running"
    /\ LET result == world.execve[Dir] IN
       \/ /\ result = "ok"
          /\ Executes(Dir, exec.argv)
       \/ /\ result = "ENOEXEC"
          /\ exec' = [exec EXCEPT !.argv = ShiftRight(@, Candidate(Dir))]
          /\ cpc' = "sh"
          /\ UNCHANGED <<cfds, child, image, fail_msg>>
       \/ /\ result \notin {"ok", "ENOEXEC"}
          /\ exec' = [exec EXCEPT !.errno = result]
          /\ cpc' = "next"
          /\ UNCHANGED <<cfds, child, image, fail_msg>>
    /\ UNCHANGED <<settings, inheritable, fds, pipes, info, pc, cstd>>

\* execve_without_shebang: /bin/sh runs the file, or argv is put back.
exec_sh ==
    /\ cpc = "sh" /\ child = "running"
    /\ \/ /\ world.sh = "ok"
          /\ Executes(Dir, exec.argv)
       \/ /\ world.sh # "ok"
          /\ exec' = [exec EXCEPT !.argv = ShiftLeft(@, Program), !.errno = world.sh]
          /\ cpc' = "next"
          /\ UNCHANGED <<cfds, child, image, fail_msg>>
    /\ UNCHANGED <<settings, inheritable, fds, pipes, info, pc, cstd>>

\* The errors after which the search goes on; ENOENT stands for those that
\* are treated alike (ENOTDIR, ELOOP, ESTALE, ENODEV, ETIMEDOUT).  A name
\* that execve() itself finds too long stops the search.
GoOn == {"EACCES", "ENOENT", "PATH_MAX"}

\* errno after a candidate that was not tried.
Errno(result) == IF result = "PATH_MAX" THEN "ENAMETOOLONG" ELSE result

\* The switch over errno, and the end of the search.

exec_next_NotSticky ==
    /\ cpc = "next" /\ child = "running"
    /\ \/ /\ exec.errno \in GoOn /\ exec.dir < Len(SearchPath(Program))
          /\ exec' = [exec EXCEPT !.dir = @ + 1]
          /\ cpc' = "try"
          /\ UNCHANGED <<cfds, child, fail_msg>>
       \/ /\ exec.errno \notin GoOn \/ exec.dir = Len(SearchPath(Program))
          /\ exit_with_error(Errno(exec.errno))
          /\ UNCHANGED exec
    /\ UNCHANGED <<settings, inheritable, fds, pipes, info, pc, cstd, image>>

exec_next ==
    /\ cpc = "next" /\ child = "running"
    /\ LET sticky == IF exec.errno = "EACCES" THEN "EACCES" ELSE exec.sticky_errno IN
       \/ /\ exec.errno \in GoOn /\ exec.dir < Len(SearchPath(Program))
          /\ exec' = [exec EXCEPT !.dir = @ + 1, !.sticky_errno = sticky]
          /\ cpc' = "try"
          /\ UNCHANGED <<cfds, child, fail_msg>>
       \/ /\ exec.errno \in GoOn /\ exec.dir = Len(SearchPath(Program))
          /\ exit_with_error(IF sticky # NoErrno THEN sticky ELSE Errno(exec.errno))
          /\ UNCHANGED exec
       \/ /\ exec.errno \notin GoOn
          /\ exit_with_error(exec.errno)
          /\ UNCHANGED exec
    /\ UNCHANGED <<settings, inheritable, fds, pipes, info, pc, cstd, image>>

UnixParent == open_fail_pipe \/ fork \/ read_errno \/ reap_failed \/ started

UnixChild == child_wires \/ child_chdir \/ child_fcntl
             \/ exec_begin \/ exec_try \/ exec_sh \/ exec_next

=============================================================================
