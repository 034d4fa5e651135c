--------------------------- MODULE CreateProcess ---------------------------
(***************************************************************************)
(* create_process() as a whole: the common part of Spawn around the        *)
(* create_process_impl() of either platform, from every setting the        *)
(* builder can produce, and what the caller and the child may rely on.     *)
(***************************************************************************)
EXTENDS Builder, SpawnUnix, SpawnWin32

CONSTANT Cases           \* what a behaviour may start from: platform, world,
                         \* script, and the inheritable handles

\* What the interpreter lets a script pass to the setters.
IsCall(c) ==
    /\ c.set \in {"command", "arguments", "environment", "inherit_env", "shell",
                  "inherit", "inherit_output", "redirect", "merge_outputs"}
    /\ c.set \in {"inherit", "redirect"} => c.at \in Stdio
    /\ c.set \in {"inherit", "inherit_output", "merge_outputs"} => c.to \in BOOLEAN
    /\ c.set = "redirect" => c.to \in UserFds \cup {FD_INVALID}
    /\ c.set = "command" => c.to \in AWord
    /\ c.set = "arguments" => c.to \in Seq(AWord)
    /\ c.set = "shell" => c.to \in AWord \cup {NoWord}

\* What can name a program: on Windows no name of a file has a quote in it,
\* and one that ends with a backslash is a directory's.
NamesProgram(pl, word) ==
    pl = "win32" => /\ \A i \in 1..Len(word) : word[i] # Quote
                    /\ word # <<>> => word[Len(word)] # Backslash

\* The handles a caller may have made inheritable are its own, a PATH that
\* is set has at least one component, though it may be empty, and whatever
\* is to be executed has a name a program can have.
ASSUME CasesAssumption ==
    \A c \in Cases :
        /\ c.platform \in {"unix", "win32"}
        /\ c.inheritable \subseteq Stdio \cup UserFds
        /\ \A s \in c.script :
              /\ IsCall(s)
              /\ s.set \in {"command", "shell"} /\ s.to # NoWord =>
                    NamesProgram(c.platform, s.to)
        /\ c.world.environ \in
              Seq([is : {"plain", "bare", "hidden"}, name : STRING, value : Nat])
        /\ c.world.path = NoWord \/ c.world.path \in Seq(STRING) \ {<<>>}

\* The parent's ends of an earlier process are not inheritable: that is
\* what ParentEndsPrivate says of every process.
Init ==
    /\ \E c \in Cases :
         /\ platform = c.platform /\ world = c.world /\ script = c.script
         /\ inheritable = c.inheritable
    /\ builder = Defaults /\ startup = Defaults
    /\ asked = NothingAsked
    /\ fds = ParentTable
    /\ pipes = [k \in 0..3 |-> NoPipe]
    /\ info = [k \in Stdio |-> FD_INVALID]
    /\ pc = "build"
    /\ cfds = [fd \in Fds |-> Free]
    /\ cstd = [k \in Stdio |-> FD_INVALID]
    /\ cpc = "none" /\ child = "none"
    /\ exec = [argv |-> <<>>, dir |-> 0, errno |-> NoErrno, sticky_errno |-> NoErrno]
    /\ image = NoImage
    /\ fail_msg = NoErrno

create_process == (\E k \in Stdio : bind(k)) \/ rollback

Parent == start \/ create_process \/ UnixParent \/ Win32Parent \/ close_process

\* When the call is over and the child has been dealt with nothing is left
\* to do.
Next == configure \/ Parent \/ UnixChild \/ ChildKilled

Spec == Init /\ [][Next]_vars

\* The script calls start() in the end, and both processes run.
FairSpec == Spec /\ WF_vars(Parent) /\ WF_vars(UnixChild)

-----------------------------------------------------------------------------
(* Properties.                                                             *)

\* What the builder's settings promise for stream k of the child: the
\* parent's stream, the redirect target or the child's end of a pipe; stderr
\* goes where stdout goes when outputs are merged.
Promised(k) ==
    LET s == IF k = 2 /\ startup.merge THEN 1 ELSE k IN
    IF startup.inherit[s] THEN ParentTable[s]
    ELSE IF startup.target[s] # FD_INVALID THEN File("user", startup.target[s])
    ELSE File(IF s = 0 THEN "r" ELSE "w", s)

\* Nothing else is open in a Unix child.  A Windows child has whatever the
\* caller made inheritable, but no end of a pipe besides its streams: none
\* of the parent's ends, its own or those of an earlier process.
NothingElseOpen ==
    \A fd \in Fds : cfds[fd] # Free =>
        \/ \E k \in Stdio : cstd[k] = fd
        \/ platform = "win32" /\ cfds[fd].is \in {"std", "user"}

\* The program the child runs finds its three streams where the builder's
\* settings put them, and no end of a pipe that would keep another reader
\* from seeing the end of its input: not the fail pipe, not the other ends
\* of its own pipes, not the pipes of a process started before it.
ChildWiring ==
    image # NoImage /\ child = "running" =>
        /\ \A k \in Stdio : cfds[cstd[k]] = Promised(k)
        /\ NothingElseOpen

\* What ChildWiring needs of the process started before: on Windows none of
\* the ends the parent keeps is inheritable, so that the next child, which
\* gets every inheritable handle, does not hold them open.
ParentEndsPrivate ==
    pc = "done" /\ platform = "win32" =>
        \A k \in Stdio : info[k] \notin inheritable

\* The parent can see the end of the child's output and the child the end of
\* its input: the parent keeps only its own ends, and info names them.
ParentHoldsItsEnds ==
    pc = "done" =>
        /\ \A fd \in Fds : fds[fd].is \in {"r", "w"} =>
              \E k \in Stdio : info[k] = fd /\ fds[fd].n = k
        /\ \A k \in Stdio : info[k] # FD_INVALID =>
              fds[info[k]] = File(IF k = 0 THEN "w" ELSE "r", k)

\* Whether create_process() throws or its process is closed later, no end of
\* a pipe stays open in the parent.
NoLeak ==
    pc \in {"threw", "closed"} =>
        \A fd \in Fds : fds[fd].is \notin {"r", "w"}

\* The parent never closes a descriptor it did not open: its own standard
\* streams and the user's redirect targets stay as they were.
UserTargetsStayOpen ==
    \A fd \in Fds : ParentTable[fd] # Free => fds[fd] = ParentTable[fd]

\* The same for every start that got as far as a child: whether the program
\* runs, fails or is rolled back, nothing that was the user's is closed.
TargetsSurviveFork == child # "none" => UserTargetsStayOpen

\* A child that failed before exec has been waited for when the exception
\* leaves, and is gone, unless a signal interrupted the one waitpid ("left").
FailureIsReaped ==
    pc = "threw" => child \in {"none", "reaped", "left"}

\* create_process() returns a process only if the child has executed the
\* program, or died without a chance to say why it did not: what a child
\* reports through the fail pipe always reaches the caller.
FailuresReachTheCaller ==
    pc \in {"done", "closed"} =>
        image # NoImage \/ (child # "running" /\ fail_msg = NoErrno)

\* create_process() comes to an end, whatever fails on either side: the
\* handshake read and the waitpid after a reported failure do not hang.
SpawnReturns == <>(pc \in {"threw", "done", "closed"})

-----------------------------------------------------------------------------
(* What the child executes.                                                *)

\* What execve() makes of the candidate in directory d, with the shell that
\* runs a script without #! taken into account.
Outcome(d) == IF world.execve[d] = "ENOEXEC" THEN world.sh ELSE world.execve[d]

\* The search of PATH is the one POSIX describes for execvp: the program is
\* the first one that can be executed, before which every candidate was
\* absent, denied or longer than PATH_MAX; and a search that fails says EACCES
\* if some candidate was denied, or what stopped it: ENAMETOOLONG, too, when it
\* is execve() that says so.
SearchFindsTheFirst ==
    LET path == SearchPath(Program)
        At(d) == path[d]
        Passed(n) == \A i \in 1..n : Outcome(At(i)) \in GoOn
    IN  /\ image # NoImage /\ platform = "unix" =>
              \E n \in 1..Len(path) :
                 /\ image.dir = At(n) /\ Outcome(At(n)) = "ok" /\ Passed(n - 1)
        /\ fail_msg \notin {NoErrno, "chdir", "fcntl", "ENOMEM"} /\ Program # <<>> =>
              IF Passed(Len(path))
              THEN fail_msg = IF \E i \in 1..Len(path) : Outcome(At(i)) = "EACCES"
                              THEN "EACCES" ELSE Errno(Outcome(At(Len(path))))
              ELSE \E n \in 1..Len(path) :
                     Passed(n - 1) /\ fail_msg = Outcome(At(n)) /\ fail_msg \notin GoOn

\* The command line the settings ask for, program first; through a shell it
\* is the words joined.
AskedLine ==
    LET words == <<asked.command>> \o asked.arguments IN
    IF builder.shell = NoWord THEN words
    ELSE <<builder.shell, IF platform = "win32" THEN SlashC ELSE DashC, Joined(words)>>

\* The words the child receives are those the script asked for, unchanged by
\* quoting and parsing on Windows and, on Unix, by the shifts of argv that
\* earlier candidates caused; a script without #! is run by /bin/sh.
Receives(words) ==
    image # NoImage =>
        image.argv = IF platform = "unix" /\ world.execve[image.dir] = "ENOEXEC"
                     THEN <<BinSh, Candidate(image.dir)>> \o Tail(words) ELSE words

\* A script that names the program before its arguments gets the command
\* line it asked for.
ArgvAsAsked == asked.command # NoWord /\ ~asked.early => Receives(AskedLine)

\* The same for every order of command() and arguments(): the last
\* arguments() count.
LastArgumentsWin == asked.command # NoWord => Receives(AskedLine)

\* Two names the child cannot tell apart.
CaseClash(names) ==
    \E m, n \in names : m # n /\ Upper(platform, m) = Upper(platform, n)

ParentNames == {world.environ[i].name : i \in 1..Len(world.environ)}

\* The child finds under every name the value the script set last, or else,
\* if it inherits, what its parent finds under it, and nothing more.  On
\* Windows only if no two names differ in case alone.
EnvironmentAsAsked ==
    image # NoImage /\ ~CaseClash(ParentNames \cup DOMAIN asked.env) =>
        \A n \in (ParentNames \cup DOMAIN asked.env) \ {NoName} :
            Lookup(platform, image.env, n) =
                IF n \in DOMAIN asked.env THEN {asked.env[n]}
                ELSE IF builder.inherit_env THEN ParentValue(platform, world.environ, n)
                ELSE {}

=============================================================================
