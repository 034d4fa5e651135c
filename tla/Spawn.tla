------------------------------- MODULE Spawn --------------------------------
(***************************************************************************)
(* create_process(): binding the three standard streams to pipes, redirect *)
(* targets or the parent's own, rollback when a later step fails, and      *)
(* close_process() in the end.  What lies between, create_process_impl(),  *)
(* differs by platform: SpawnUnix and SpawnWin32.                          *)
(*                                                                         *)
(* A descriptor table maps each descriptor, or handle, to the open file    *)
(* behind it.  Streams are numbered 0 stdin, 1 stdout, 2 stderr; 3 is the  *)
(* fail pipe of Unix.                                                      *)
(* A definition named after another with a suffix (rollback_...) is that   *)
(* one with a plausible mistake, to show that the properties notice it.    *)
(***************************************************************************)
EXTENDS Integers, FiniteSetsExt

CONSTANTS
    MaxFd,               \* descriptors are 0..MaxFd
    UserFds,             \* descriptors of files the user may redirect to
    EarlierFds,          \* the parent's ends of the pipes of earlier processes
    Faults,              \* which steps may fail
    NoWord

ASSUME SpawnAssumption ==
    /\ MaxFd \in Nat /\ MaxFd >= 2
    /\ UserFds \subseteq 3..MaxFd
    /\ EarlierFds \subseteq 3..MaxFd
    /\ UserFds \cap EarlierFds = {}
    /\ Faults \subseteq {"pipe", "fork", "chdir", "fcntl", "malloc", "kill",
                         "waitpid", "SetHandleInformation", "CreateProcess"}

VARIABLES
    platform,            \* "unix" or "win32": the create_process_impl compiled in
    world,               \* what the parent cannot choose: its environment, the
                         \* PATH in it, and which files can be executed
    script,              \* the calls of setters the script may make
    builder, asked,      \* process_builder, and what the script asked of it
    startup,             \* the process_startup of this start()
    fds,                 \* the parent's descriptors
    inheritable,         \* win32: handles with HANDLE_FLAG_INHERIT
    pipes,               \* pstdin, pstdout, pstderr, pfail: [r, w]
    info,                \* process_info: the ends the parent owns
    pc,                  \* where start() is
    cfds,                \* the child's descriptors
    cstd,                \* the descriptors that are the child's streams
    cpc,                 \* where child_proc() is
    child,               \* "none", "running", "zombie", "reaped", or "left":
                         \* waited for in vain, and by nobody any more
    exec,                \* mpp_execvpe: argv, dir, errno, sticky_errno
    image,               \* what the child executes: dir, argv, env
    fail_msg             \* the errno written into the fail pipe

settings == <<platform, world, script, builder, asked, startup>>
childVars == <<cfds, cstd, cpc, child, exec, image, fail_msg>>
vars == <<settings, fds, inheritable, pipes, info, pc, childVars>>

NoErrno == "none"
NoImage == [executed |-> FALSE]

FD_INVALID == -1
Fds == 0..MaxFd
Stdio == 0..2
FailPipe == 3

File(is, n) == [is |-> is, n |-> n]
Free == File("free", 0)
NoPipe == [r |-> FD_INVALID, w |-> FD_INVALID]

ParentTable ==
    [fd \in Fds |-> IF fd \in Stdio THEN File("std", fd)
                    ELSE IF fd \in UserFds THEN File("user", fd)
                    ELSE IF fd \in EarlierFds THEN File("earlier", fd)
                    ELSE Free]

-----------------------------------------------------------------------------
(* Descriptor tables.                                                      *)

FreeFds(t) == {fd \in Fds : t[fd] = Free}

close_fd(t, fd) == IF fd = FD_INVALID THEN t ELSE [t EXCEPT ![fd] = Free]

\* pipe(2) takes the two lowest free descriptors; CreatePipe is asked for
\* two inheritable handles.
create_pipe(k) ==
    /\ Cardinality(FreeFds(fds)) >= 2
    /\ LET r == Min(FreeFds(fds))
           w == Min(FreeFds(fds) \ {r})
       IN  /\ fds' = [fds EXCEPT ![r] = File("r", k), ![w] = File("w", k)]
           /\ pipes' = [pipes EXCEPT ![k] = [r |-> r, w |-> w]]
           /\ inheritable' = IF platform = "win32" THEN inheritable \cup {r, w}
                             ELSE inheritable

pipe_fails == "pipe" \in Faults \/ Cardinality(FreeFds(fds)) < 2

-----------------------------------------------------------------------------
(* create_process.                                                         *)

redirected(k) == startup.target[k] # FD_INVALID
inherited(k) == startup.inherit[k]

\* The streams create_process() binds to something of its own.
Binds(k) == ~inherited(k) /\ (k = 2 => ~startup.merge)

\* The streams that end up as pipes.
Pipes(k) == Binds(k) /\ ~redirected(k)

BindAt == [k \in 0..3 |-> <<"bind_stdin", "bind_stdout", "bind_stderr", "impl">>[k + 1]]

\* Close the pipes of the streams in s.
ClosePipes(s) ==
    [fd \in Fds |-> IF \E k \in s : fd \in {pipes[k].r, pipes[k].w}
                    THEN Free ELSE fds[fd]]

\* What is closed when stream k cannot be bound: the streams bound before it.
UnbindBefore(k) == ClosePipes({j \in Stdio : j < k /\ ~inherited(j)})

redirect_or_pipe(k) ==
    \/ /\ redirected(k)
       /\ pipes' = [pipes EXCEPT ![k] =
                      [r |-> startup.target[k], w |-> startup.target[k]]]
       /\ pc' = BindAt[k + 1]
       /\ UNCHANGED <<fds, inheritable>>
    \/ /\ ~redirected(k)
       /\ create_pipe(k)
       /\ pc' = BindAt[k + 1]
    \/ /\ ~redirected(k) /\ pipe_fails
       /\ fds' = UnbindBefore(k)
       /\ pc' = "threw"
       /\ UNCHANGED <<pipes, inheritable>>

bind(k) ==
    /\ pc = BindAt[k]
    /\ \/ Binds(k) /\ redirect_or_pipe(k)
       \/ /\ ~Binds(k)
          /\ pc' = BindAt[k + 1]
          /\ UNCHANGED <<fds, pipes, inheritable>>
    /\ UNCHANGED <<settings, info, childVars>>

\* The catch (...) block: close the pipes, never a redirect target.
rollback_ClosesTargets ==
    /\ pc = "rollback"
    /\ fds' = ClosePipes({k \in Stdio : Binds(k)})
    /\ pc' = "threw"
    /\ UNCHANGED <<settings, inheritable, pipes, info, childVars>>

rollback_ForgetsStderr ==
    /\ pc = "rollback"
    /\ fds' = ClosePipes({k \in {0, 1} : Pipes(k)})
    /\ pc' = "threw"
    /\ UNCHANGED <<settings, inheritable, pipes, info, childVars>>

rollback ==
    /\ pc = "rollback"
    /\ fds' = ClosePipes({k \in Stdio : Pipes(k)})
    /\ pc' = "threw"
    /\ UNCHANGED <<settings, inheritable, pipes, info, childVars>>

\* The ends of the pipe of stream k.
ChildEnd(k) == IF k = 0 THEN pipes[k].r ELSE pipes[k].w
ParentEnd(k) == IF k = 0 THEN pipes[k].w ELSE pipes[k].r

\* The last lines of create_process_impl(): the child's ends of the pipes
\* (and whatever else) are closed and the parent's recorded.
keep_parent_ends_KeepsChildEnds(rest) ==
    /\ fds' = [fd \in Fds |-> IF fd \in rest THEN Free ELSE fds[fd]]
    /\ info' = [k \in Stdio |-> IF Pipes(k) THEN ParentEnd(k) ELSE FD_INVALID]
    /\ pc' = "done"

keep_parent_ends(rest) ==
    /\ fds' = [fd \in Fds |->
                 IF fd \in rest \/ \E k \in Stdio : Pipes(k) /\ fd = ChildEnd(k)
                 THEN Free ELSE fds[fd]]
    /\ info' = [k \in Stdio |-> IF Pipes(k) THEN ParentEnd(k) ELSE FD_INVALID]
    /\ pc' = "done"

\* ~member_holder: the parent's ends go.
close_process ==
    /\ pc = "done"
    /\ fds' = close_fd(close_fd(close_fd(fds, info[0]), info[1]), info[2])
    /\ pc' = "closed"
    /\ UNCHANGED <<settings, inheritable, pipes, info, childVars>>

=============================================================================
