----------------------------- MODULE SpawnWin32 -----------------------------
(***************************************************************************)
(* create_process_impl() on Windows.  A child started with bInheritHandles *)
(* gets every handle of the parent whose HANDLE_FLAG_INHERIT is set, and   *)
(* STARTUPINFO says which of them are its standard streams.  So the flag   *)
(* is set on what the child shall have, cleared on the parent's ends of    *)
(* the new pipes, and stays as it is on every other handle.                *)
(***************************************************************************)
EXTENDS Spawn, CommandLine, Environment

WireAt == [k \in 0..3 |-> <<"impl", "wire_stdout", "wire_stderr", "create">>[k + 1]]

\* hStdInput, hStdOutput, hStdError: the parent's own handle, the redirect
\* target or the child's end of the pipe; stderr copies stdout when merged.
StdHandle(k) == IF k = 2 /\ startup.merge THEN cstd[1]
                ELSE IF inherited(k) THEN k
                ELSE ChildEnd(k)

\* HANDLE_FLAG_INHERIT after stream k is wired: an inherited handle
\* (ensure_handle_inheritable) or a redirect target gets it, the parent's
\* end of a pipe loses it.
WithFlag_KeepsParentEnd(k) ==
    IF k = 2 /\ startup.merge THEN inheritable
    ELSE IF inherited(k) THEN inheritable \cup {k}
    ELSE inheritable \cup {ChildEnd(k)}

WithFlag(k) ==
    IF k = 2 /\ startup.merge THEN inheritable
    ELSE IF inherited(k) THEN inheritable \cup {k}
    ELSE IF redirected(k) THEN inheritable \cup {ChildEnd(k)}
    ELSE inheritable \ {ParentEnd(k)}

\* Get- or SetHandleInformation is called, and so may fail, unless merged.
wire(k) ==
    /\ platform = "win32" /\ pc = WireAt[k]
    /\ \/ /\ cstd' = [cstd EXCEPT ![k] = StdHandle(k)]
          /\ inheritable' = WithFlag(k)
          /\ pc' = WireAt[k + 1]
       \/ /\ "SetHandleInformation" \in Faults
          /\ ~(k = 2 /\ startup.merge)
          /\ pc' = "rollback"
          /\ UNCHANGED <<cstd, inheritable>>
    /\ UNCHANGED <<settings, fds, pipes, info,
                   cfds, cpc, child, exec, image, fail_msg>>

\* What the child's C runtime makes of the command line and the environment
\* block it is given; no block stands for the parent's.
Win32Image ==
    [argv |-> Parsed(command_line(startup.cmdline)),
     env |-> IF PassedOn(startup.inherit_env, startup.env)
             THEN ParentMap("win32", world.environ)
             ELSE ChildMap("win32", world.environ, startup.inherit_env, startup.env)]

\* The environment block may be too large and CreateProcess may fail; or
\* the child runs, with copies of the inheritable handles.
CreateProcess ==
    /\ platform = "win32" /\ pc = "create"
    /\ \/ /\ "CreateProcess" \in Faults
          /\ pc' = "rollback"
          /\ UNCHANGED <<fds, info, cfds, child, image>>
       \/ /\ cfds' = [fd \in Fds |-> IF fd \in inheritable THEN fds[fd] ELSE Free]
          /\ child' = "running" /\ image' = Win32Image
          /\ keep_parent_ends({})
    /\ UNCHANGED <<settings, inheritable, pipes, cstd, cpc, exec, fail_msg>>

Win32Parent == (\E k \in Stdio : wire(k)) \/ CreateProcess

=============================================================================
