------------------------- MODULE CreateProcessProofs -------------------------
(***************************************************************************)
(* What holds of create_process() for every table of descriptors, every    *)
(* setting of the streams and every fault: no end of a pipe is lost or     *)
(* closed twice, the child finds its streams, and its failures reach the   *)
(* caller.                                                                 *)
(***************************************************************************)
EXTENDS CreateProcess, FiniteSetTheorems, TLAPS

-----------------------------------------------------------------------------
(* The inductive invariant.                                                *)

Files == [is : {"free", "std", "user", "earlier", "r", "w"}, n : Int]
PipeEnds == [is : {"r", "w"}, n : 0..3]

\* Where the end f of a pipe is, when it is open.
At(pp, f) == IF f.is = "r" THEN pp[f.n].r ELSE pp[f.n].w

\* The table t holds the ends in open, where pp says, and is the parent's
\* table of the beginning everywhere else.
HasEnds(t, pp, open) ==
    /\ t \in [Fds -> Files]
    /\ \A f \in open : At(pp, f) \in Fds /\ ParentTable[At(pp, f)] = Free
                       /\ t[At(pp, f)] = f
    /\ \A fd \in Fds : \/ t[fd] = ParentTable[fd]
                       \/ t[fd] \in open /\ At(pp, t[fd]) = fd

\* Stream k has been bound, and its pipe, if it has one, is open.
Bound(k) ==
    pc \in {"impl", "fork", "handshake", "reap", "wire_stdout", "wire_stderr",
            "create", "rollback"}
           \cup (IF k < 2 THEN {"bind_stderr"} ELSE {})
           \cup (IF k < 1 THEN {"bind_stdout"} ELSE {})

ParentSide(k) == IF k = 0 THEN "w" ELSE "r"
ChildSide(k) == IF k = 0 THEN "r" ELSE "w"

\* The ends of pipes that are open in the parent.
Open(f) ==
    IF f.n = FailPipe
    THEN pc = "fork" \/ (pc \in {"handshake", "reap"} /\ f.is = "r")
    ELSE Pipes(f.n) /\ (Bound(f.n) \/ (pc = "done" /\ f.is = ParentSide(f.n)))

OpenEnds == {f \in PipeEnds : Open(f)}

\* A stream that could not be bound may have taken redirect targets along.
ParentInv ==
    /\ pipes \in [0..3 -> [r : Int, w : Int]]
    /\ IF pc = "threw" /\ child = "none"
       THEN /\ fds \in [Fds -> Files]
            /\ \A fd \in Fds : fds[fd] \in {Free, ParentTable[fd]}
       ELSE HasEnds(fds, pipes, OpenEnds)
    /\ \A k \in Stdio : Bound(k) /\ Binds(k) /\ redirected(k) =>
          pipes[k] = [r |-> startup.target[k], w |-> startup.target[k]]
    /\ pc \in {"done", "closed"} =>
          info = [k \in Stdio |-> IF Pipes(k) THEN ParentEnd(k) ELSE FD_INVALID]

\* The settings of the streams keep their types.
IsSettings(b) ==
    /\ b = [cmdline |-> b.cmdline, shell |-> b.shell, env |-> b.env,
            inherit_env |-> b.inherit_env, inherit |-> b.inherit,
            target |-> b.target, merge |-> b.merge]
    /\ b.inherit \in [Stdio -> BOOLEAN]
    /\ b.target \in [Stdio -> UserFds \cup {FD_INVALID}]
    /\ b.merge \in BOOLEAN

SettingsInv ==
    /\ \A c \in script : IsCall(c)
    /\ IsSettings(builder) /\ IsSettings(startup)

\* Where the parent is when there is no child, and where the child is when
\* it has not executed anything.
Childless == {"build", "bind_stdin", "bind_stdout", "bind_stderr", "impl", "fork",
              "wire_stdout", "wire_stderr", "create", "rollback", "threw"}
BeforeExec == {"wire", "chdir", "fcntl", "exec", "try", "sh", "next"}

PhaseInv ==
    /\ platform \in {"unix", "win32"}
    /\ pc \in {"fork", "handshake", "reap"} => platform = "unix"
    /\ pc \in {"wire_stdout", "wire_stderr", "create"} => platform = "win32"
    /\ pc \in Childless \cup {"handshake", "reap", "done", "closed"}
    /\ child \in {"none", "running", "zombie", "reaped", "left"}
    /\ child = "none" => /\ pc \in Childless
                         /\ image = NoImage /\ fail_msg = NoErrno /\ cpc = "none"
    /\ child # "none" => pc \in {"handshake", "reap", "rollback", "threw",
                                 "done", "closed"}
    /\ pc \in {"rollback", "threw"} => child \in {"none", "reaped", "left"}
    /\ child \in {"reaped", "left"} => pc \in {"rollback", "threw"}
    /\ pc = "reap" => child = "zombie"
    /\ cpc \in BeforeExec <=> child = "running" /\ image = NoImage
    /\ cpc \in BeforeExec => pc = "handshake" /\ platform = "unix"
    /\ fail_msg # NoErrno => child \in {"zombie", "reaped", "left"}
                             /\ pc \in {"handshake", "reap", "rollback", "threw"}
    /\ pc \in {"done", "closed"} => image # NoImage \/ child = "zombie"

\* A Unix child's descriptors: those of the parent at first, then its
\* streams and the fail pipe, then its streams.
Wired(t) ==
    /\ t \in [Fds -> Files]
    /\ \A k \in Stdio : t[k] = Promised(k)
    /\ FailFd \in Fds \ Stdio /\ t[FailFd] = File("w", FailPipe)
    /\ \A fd \in Fds \ (Stdio \cup {FailFd}) : t[fd] = Free

UnixInv ==
    /\ cpc = "wire" => HasEnds(cfds, pipes, OpenEnds \cup {File("w", FailPipe)})
    /\ cpc \in BeforeExec \ {"wire"} => Wired(cfds)
    /\ cpc \in BeforeExec => cstd = [k \in Stdio |-> k]

\* The handles a Windows child will inherit are no parent's end of a pipe.
Handled(k) ==
    pc \in {"create", "done"} \cup (IF k < 2 THEN {"wire_stderr"} ELSE {})
                              \cup (IF k < 1 THEN {"wire_stdout"} ELSE {})

Win32Inv ==
    platform = "win32" =>
        /\ inheritable \subseteq Fds
        /\ cstd \in [Stdio -> Int]
        /\ pc \in Childless \ {"rollback", "threw"} =>
              \A h \in inheritable : h \in Stdio \cup UserFds
                                     \/ \E f \in OpenEnds : h = At(pipes, f)
        /\ pc \in Childless \ {"rollback", "threw"} =>
              \A k \in Stdio : Bound(k) /\ Pipes(k) => ChildEnd(k) \in inheritable
        /\ pc # "done" =>
              \A k \in Stdio : Handled(k) => /\ cstd[k] = StdHandle(k)
                                             /\ cstd[k] \in inheritable
        /\ \A k \in Stdio : Handled(k) /\ Pipes(k) => ParentEnd(k) \notin inheritable

IInv ==
    /\ SettingsInv /\ PhaseInv /\ ParentInv
    /\ UnixInv /\ Win32Inv /\ ChildWiring

-----------------------------------------------------------------------------
(* Descriptors.                                                            *)

LEMMA FdFacts ==
    /\ Stdio \subseteq Fds
    /\ UserFds \subseteq Fds \ Stdio
    /\ EarlierFds \subseteq Fds \ Stdio
    /\ Fds \subseteq Nat
    /\ FD_INVALID \notin Fds
BY SpawnAssumption DEF Fds, Stdio, FD_INVALID

\* The parent's own: what is neither free nor an end of a pipe of this call.
LEMMA ParentTableType ==
    /\ ParentTable \in [Fds -> [is : {"free", "std", "user", "earlier"}, n : Int]]
    /\ \A fd \in Stdio : ParentTable[fd] = File("std", fd)
    /\ \A fd \in UserFds : ParentTable[fd] = File("user", fd)
    /\ \A fd \in Fds : ParentTable[fd] = Free \/ ParentTable[fd] = File("std", fd)
                       \/ ParentTable[fd] = File("user", fd)
                       \/ ParentTable[fd] = File("earlier", fd)
BY FdFacts, SpawnAssumption DEF ParentTable, File, Free, Fds, Stdio

LEMMA FreeIsNoEnd ==
    /\ Free \in Files /\ Free \notin PipeEnds
    /\ PipeEnds \subseteq Files
    /\ \A f \in PipeEnds : f # Free /\ (\A fd \in Fds : ParentTable[fd] # f)
    /\ \A f \in PipeEnds : f = File(f.is, f.n)
<1>1. Free \in Files /\ Free \notin PipeEnds /\ PipeEnds \subseteq Files
  BY DEF Free, File, Files, PipeEnds
<1>2. \A f \in PipeEnds : f # Free /\ (\A fd \in Fds : ParentTable[fd] # f)
  BY ParentTableType DEF Free, File, Files, PipeEnds
<1>3. \A f \in PipeEnds : f = File(f.is, f.n)
  BY DEF File, PipeEnds
<1> QED  BY <1>1, <1>2, <1>3

\* The least of a set of naturals.
LEMMA MinIsIn ==
    ASSUME NEW S, S \subseteq Nat, S # {}
    PROVE  Min(S) \in S
<1> DEFINE Less == {ss \in Nat \X Nat : ss[1] < ss[2]}
<1>1. IsWellFoundedOn(Less, Nat)
  BY NatLessThanWellFounded, Zenon DEF OpToRel
<1>2. \E x \in S : \A y \in S : x =< y
  <2>1. PICK x \in S : \A y \in S : ~ (<<y, x>> \in Less)
    <3> HIDE DEF Less
    <3> QED  BY <1>1, WFMin, Zenon
  <2>2. ASSUME NEW y \in S
        PROVE  x =< y
    <3>1. x \in Nat /\ y \in Nat /\ <<y, x>> \notin Less
      BY <2>1
    <3>2. y < x => <<y, x>> \in Less
      BY <3>1
    <3> HIDE DEF Less
    <3> QED  BY <3>1, <3>2
  <2> QED  BY <2>2
<1> QED  BY <1>2 DEF Min

\* pipe() finds two different free descriptors.
LEMMA TwoFree ==
    ASSUME NEW t, Cardinality(FreeFds(t)) >= 2
    PROVE  LET r == Min(FreeFds(t))
               w == Min(FreeFds(t) \ {r})
           IN  r \in Fds /\ w \in Fds /\ r # w /\ t[r] = Free /\ t[w] = Free
<1> DEFINE S == FreeFds(t)
           r == Min(S)
<1>1. S \subseteq Fds /\ S \subseteq Nat
  BY FdFacts DEF FreeFds
<1>2. IsFiniteSet(S)
  <2>1. IsFiniteSet(Fds)
    BY FS_Interval, SpawnAssumption DEF Fds
  <2> QED  BY <1>1, <2>1, FS_Subset
<1>3. S # {}
  BY FS_EmptySet
<1>4. r \in S
  BY <1>1, <1>3, MinIsIn
<1>5. S \ {r} # {}
  <2>1. IsFiniteSet(S \ {r}) /\ Cardinality(S \ {r}) = Cardinality(S) - 1
    BY <1>2, <1>4, FS_RemoveElement
  <2>2. Cardinality(S) \in Nat
    BY <1>2, FS_CardinalityType
  <2>3. Cardinality(S \ {r}) # 0
    BY <2>1, <2>2
  <2> QED  BY <2>3, FS_EmptySet
<1>6. Min(S \ {r}) \in S \ {r}
  BY <1>1, <1>5, MinIsIn
<1> QED  BY <1>1, <1>4, <1>6 DEF FreeFds

-----------------------------------------------------------------------------
(* Tables with ends of pipes.                                              *)

\* Closing some of the ends.
LEMMA CloseEnds ==
    ASSUME NEW t, NEW t2, NEW pp, NEW open, NEW shut, open \subseteq PipeEnds,
           HasEnds(t, pp, open), t2 \in [Fds -> Files],
           \A fd \in Fds : t2[fd] = IF \E f \in shut : f \in open /\ fd = At(pp, f)
                                    THEN Free ELSE t[fd]
    PROVE  HasEnds(t2, pp, open \ shut)
<1>1. ASSUME NEW f \in open \ shut
      PROVE  At(pp, f) \in Fds /\ ParentTable[At(pp, f)] = Free /\ t2[At(pp, f)] = f
  BY DEF HasEnds
<1>2. ASSUME NEW fd \in Fds
      PROVE  \/ t2[fd] = ParentTable[fd]
             \/ t2[fd] \in open \ shut /\ At(pp, t2[fd]) = fd
  BY DEF HasEnds
<1> QED  BY <1>1, <1>2 DEF HasEnds

\* A new pipe k.
LEMMA AddPipe ==
    ASSUME NEW t, NEW pp, NEW open, open \subseteq PipeEnds,
           pp \in [0..3 -> [r : Int, w : Int]],
           HasEnds(t, pp, open), NEW k \in 0..3, \A f \in open : f.n # k,
           NEW r \in Fds, NEW w \in Fds, r # w, t[r] = Free, t[w] = Free
    PROVE  HasEnds([t EXCEPT ![r] = File("r", k), ![w] = File("w", k)],
                   [pp EXCEPT ![k] = [r |-> r, w |-> w]],
                   open \cup {File("r", k), File("w", k)})
<1> DEFINE t2 == [t EXCEPT ![r] = File("r", k), ![w] = File("w", k)]
           pp2 == [pp EXCEPT ![k] = [r |-> r, w |-> w]]
           open2 == open \cup {File("r", k), File("w", k)}
<1>1. /\ File("r", k) \in PipeEnds /\ File("w", k) \in PipeEnds
      /\ At(pp2, File("r", k)) = r /\ At(pp2, File("w", k)) = w
  BY DEF File, PipeEnds, At
<1>2. \A f \in open : At(pp2, f) = At(pp, f)
  BY DEF At, PipeEnds
<1>3. /\ t2 \in [Fds -> Files] /\ t2[r] = File("r", k) /\ t2[w] = File("w", k)
      /\ \A fd \in Fds \ {r, w} : t2[fd] = t[fd]
  BY <1>1, FreeIsNoEnd DEF HasEnds
<1>4. ParentTable[r] = Free /\ ParentTable[w] = Free
  BY FreeIsNoEnd DEF HasEnds
<1>5. ASSUME NEW f \in open2
      PROVE  At(pp2, f) \in Fds /\ ParentTable[At(pp2, f)] = Free /\ t2[At(pp2, f)] = f
  <2>1. CASE f \in open
    <3>1. At(pp2, f) \in Fds /\ ParentTable[At(pp2, f)] = Free /\ t[At(pp2, f)] = f
      BY <2>1, <1>2 DEF HasEnds
    <3>2. At(pp2, f) \notin {r, w}
      BY <2>1, <3>1, FreeIsNoEnd
    <3> QED  BY <3>1, <3>2, <1>3
  <2>2. CASE f \in {File("r", k), File("w", k)}
    BY <2>2, <1>1, <1>3, <1>4
  <2> QED  BY <2>1, <2>2
<1>6. ASSUME NEW fd \in Fds
      PROVE  t2[fd] = ParentTable[fd] \/ (t2[fd] \in open2 /\ At(pp2, t2[fd]) = fd)
  BY <1>1, <1>2, <1>3 DEF HasEnds
<1> HIDE DEF t2, pp2, open2
<1>7. HasEnds(t2, pp2, open2)
  BY <1>3, <1>5, <1>6 DEF HasEnds
<1> QED  BY <1>7 DEF t2, pp2, open2

\* Elsewhere pipes may change.
LEMMA MovePipe ==
    ASSUME NEW t, NEW pp, NEW pp2, NEW open, HasEnds(t, pp, open),
           open \subseteq PipeEnds, \A f \in open : pp2[f.n] = pp[f.n]
    PROVE  HasEnds(t, pp2, open)
<1>1. \A f \in open : At(pp2, f) = At(pp, f)
  BY DEF At
<1> QED  BY <1>1 DEF HasEnds

-----------------------------------------------------------------------------
(* The settings.                                                           *)

LEMMA DefaultSettings == IsSettings(Defaults)
BY DEF IsSettings, Defaults

\* A setter keeps the types of the settings.
LEMMA SetSettings ==
    ASSUME NEW b, IsSettings(b), NEW c, IsCall(c)
    PROVE  IsSettings(Set(b, c))
<1>1. CASE c.set = "command"
  BY <1>1 DEF IsSettings, Set, command
<1>2. CASE c.set = "arguments"
  BY <1>2 DEF IsSettings, Set, arguments
<1>3. CASE c.set = "environment"
  BY <1>3 DEF IsSettings, Set, environment
<1>4. CASE c.set = "inherit_env"
  BY <1>4 DEF IsSettings, Set
<1>5. CASE c.set = "shell"
  BY <1>5 DEF IsSettings, Set
<1>6. CASE c.set = "inherit"
  BY <1>6 DEF IsSettings, Set, IsCall, Stdio
<1>7. CASE c.set = "inherit_output"
  BY <1>7 DEF IsSettings, Set, IsCall, Stdio
<1>8. CASE c.set = "redirect"
  BY <1>8 DEF IsSettings, Set, IsCall
<1>9. CASE c.set = "merge_outputs"
  BY <1>9 DEF IsSettings, Set, IsCall
<1> QED  BY <1>1, <1>2, <1>3, <1>4, <1>5, <1>6, <1>7, <1>8, <1>9 DEF IsCall

\* So does the shell that start() wraps around the command.
LEMMA WrappedSettings ==
    ASSUME NEW b, IsSettings(b)
    PROVE  IsSettings(Wrapped(b))
BY DEF IsSettings, Wrapped

\* Only the script, before start() and in it, changes them.
LEMMA SettingsSteps == Next => configure \/ start \/ UNCHANGED settings
BY DEF Next, Parent, create_process, bind, rollback, UnixParent, open_fail_pipe, fork,
   read_errno, reap_failed, started, Win32Parent, wire, CreateProcess,
   close_process, UnixChild, child_wires, child_chdir, child_fcntl, child_step,
   exec_begin, exec_try, exec_sh, exec_next, ChildKilled

LEMMA SettingsKept == SettingsInv /\ [Next]_vars => SettingsInv'
<1> SUFFICES ASSUME SettingsInv, [Next]_vars PROVE SettingsInv'
  OBVIOUS
<1>1. CASE configure
  <2>1. PICK c \in script : builder' = Set(builder, c)
    BY <1>1 DEF configure
  <2>2. IsSettings(builder')
    BY <2>1, SetSettings DEF SettingsInv
  <2> QED  BY <1>1, <2>2 DEF SettingsInv, configure
<1>2. CASE start
  <2>1. IsSettings(startup')
    BY <1>2, WrappedSettings DEF SettingsInv, start
  <2> QED  BY <1>2, <2>1 DEF SettingsInv, start
<1>3. CASE UNCHANGED settings
  BY <1>3 DEF SettingsInv, settings
<1> QED  BY <1>1, <1>2, <1>3, SettingsSteps DEF vars, settings

-----------------------------------------------------------------------------
(* What the child may do, and where the two processes are.                 *)

\* A step of the child that opens and closes nothing.
Stays ==
    /\ cpc \in BeforeExec \ {"wire"} /\ cpc' \in BeforeExec \ {"wire"}
    /\ UNCHANGED <<cfds, child, image, fail_msg>>

\* Its death before exec, and exec.
DiesEarly == child = "running" /\ image = NoImage /\ Dies /\ image' = image

Execs ==
    /\ cpc \in BeforeExec \ {"wire"} /\ cpc' = "execd"
    /\ image' # NoImage
    /\ cfds' = close_fd(cfds, FailFd)
    /\ UNCHANGED <<child, fail_msg>>

LEMMA ImageIsExecuted ==
    ASSUME NEW d, NEW a, NEW e
    PROVE  /\ [dir |-> d, argv |-> a, env |-> e] # NoImage
           /\ [argv |-> a, env |-> e] # NoImage
<1>1. /\ "argv" \in DOMAIN [dir |-> d, argv |-> a, env |-> e]
      /\ "argv" \in DOMAIN [argv |-> a, env |-> e]
  OBVIOUS
<1>2. "argv" \notin DOMAIN NoImage
  BY DEF NoImage
<1> QED  BY <1>1, <1>2

LEMMA ChildSteps ==
    ASSUME PhaseInv, UnixChild \/ ChildKilled
    PROVE  /\ UNCHANGED <<settings, inheritable, fds, pipes, info, pc, cstd>>
           /\ child_wires \/ Stays \/ DiesEarly \/ Execs
<1> USE DEF PhaseInv, BeforeExec
<1>1. CASE child_wires
  BY <1>1 DEF child_wires
<1>2. ASSUME NEW at, NEW next, at \in {"chdir", "fcntl"}, next \in {"fcntl", "exec"},
             child_step(at, next)
      PROVE  /\ UNCHANGED <<settings, inheritable, fds, pipes, info, pc, cstd>>
             /\ Stays \/ DiesEarly
  BY <1>2 DEF child_step, exit_with_error, Stays, DiesEarly
<1>3. CASE exec_begin
  BY <1>3 DEF exec_begin, exit_with_error, Stays, DiesEarly
<1>4. ASSUME NEW d, NEW argv, Executes(d, argv), cpc \in BeforeExec \ {"wire"}
      PROVE  Execs
  BY <1>4, ImageIsExecuted DEF Executes, Execs
<1>5. CASE exec_try
  <2>1. \/ Executes(Dir, exec.argv) /\ cpc \in BeforeExec \ {"wire"}
        \/ Stays
    BY <1>5 DEF exec_try, Stays
  <2>2. UNCHANGED <<settings, inheritable, fds, pipes, info, pc, cstd>>
    BY <1>5 DEF exec_try
  <2> QED  BY <2>1, <2>2, <1>4
<1>6. CASE exec_sh
  <2>1. \/ Executes(Dir, exec.argv) /\ cpc \in BeforeExec \ {"wire"}
        \/ Stays
    BY <1>6 DEF exec_sh, Stays
  <2>2. UNCHANGED <<settings, inheritable, fds, pipes, info, pc, cstd>>
    BY <1>6 DEF exec_sh
  <2> QED  BY <2>1, <2>2, <1>4
<1>7. CASE exec_next
  BY <1>7 DEF exec_next, exit_with_error, Stays, DiesEarly
<1>8. CASE ChildKilled
  BY <1>8 DEF ChildKilled, DiesEarly
<1>9. CASE child_chdir \/ child_fcntl
  BY <1>9, <1>2 DEF child_chdir, child_fcntl
<1> QED  BY <1>1, <1>3, <1>5, <1>6, <1>7, <1>8, <1>9 DEF UnixChild

\* Until it executes the program, or dies, the child holds the fail pipe
\* open for writing.
LEMMA HoldsFailPipe ==
    ASSUME UnixInv, cpc \in BeforeExec
    PROVE  ~FailPipeClosed
<1>1. CASE cpc = "wire"
  <2>1. HasEnds(cfds, pipes, OpenEnds \cup {File("w", FailPipe)})
    BY <1>1 DEF UnixInv
  <2>2. \E fd \in Fds : cfds[fd] = File("w", FailPipe)
    BY <2>1 DEF HasEnds
  <2> QED  BY <2>2 DEF FailPipeClosed
<1>2. CASE cpc # "wire"
  <2>1. Wired(cfds)
    BY <1>2 DEF UnixInv
  <2>2. FailFd \in Fds /\ cfds[FailFd] = File("w", FailPipe)
    BY <2>1 DEF Wired
  <2> QED  BY <2>2 DEF FailPipeClosed
<1> QED  BY <1>1, <1>2

LEMMA PhasesKept == PhaseInv /\ UnixInv /\ [Next]_vars => PhaseInv'
<1> SUFFICES ASSUME PhaseInv, UnixInv, [Next]_vars PROVE PhaseInv'
  OBVIOUS
<1> USE DEF PhaseInv, Childless, BeforeExec
<1>1. CASE configure \/ start
  BY <1>1 DEF configure, start, childVars
<1>2. ASSUME NEW k \in Stdio, bind(k)
      PROVE  PhaseInv'
  <2>1. k \in {0, 1, 2}
    BY DEF Stdio
  <2> QED  BY <1>2, <2>1 DEF bind, redirect_or_pipe, create_pipe, BindAt, settings, childVars
<1>3. CASE rollback
  BY <1>3 DEF rollback, settings, childVars
<1>4. CASE open_fail_pipe
  BY <1>4 DEF open_fail_pipe, create_pipe, settings, childVars
<1>5. CASE fork
  BY <1>5 DEF fork, settings
<1>6. CASE read_errno
  BY <1>6 DEF read_errno, settings, childVars
<1>7. CASE reap_failed
  BY <1>7 DEF reap_failed, settings
<1>8. CASE started
  <2>1. cpc \notin BeforeExec
    BY <1>8, HoldsFailPipe DEF started
  <2> QED  BY <1>8, <2>1 DEF started, keep_parent_ends, settings, childVars
<1>9. ASSUME NEW k \in Stdio, wire(k)
      PROVE  PhaseInv'
  <2>1. k \in {0, 1, 2}
    BY DEF Stdio
  <2> QED  BY <1>9, <2>1 DEF wire, WireAt, settings
<1>10. CASE CreateProcess
  <2>1. CASE UNCHANGED <<fds, info, cfds, child, image>> /\ pc' = "rollback"
    BY <1>10, <2>1 DEF CreateProcess, settings
  <2>2. CASE child' = "running" /\ image' = Win32Image /\ keep_parent_ends({})
    <3>1. image' # NoImage
      BY <2>2, ImageIsExecuted DEF Win32Image
    <3> QED  BY <1>10, <2>2, <3>1 DEF CreateProcess, keep_parent_ends, settings
  <2> QED  BY <1>10, <2>1, <2>2 DEF CreateProcess
<1>11. CASE close_process
  BY <1>11 DEF close_process, settings, childVars
<1>12. CASE UnixChild \/ ChildKilled
  <2>1. UNCHANGED <<settings, inheritable, fds, pipes, info, pc, cstd>>
    BY <1>12, ChildSteps
  <2>2. CASE child_wires
    BY <2>1, <2>2 DEF child_wires, settings
  <2>3. CASE Stays
    BY <2>1, <2>3 DEF Stays, settings
  <2>4. CASE DiesEarly
    BY <2>1, <2>4 DEF DiesEarly, Dies, settings
  <2>5. CASE Execs
    BY <2>1, <2>5 DEF Execs, settings
  <2> QED  BY <1>12, ChildSteps, <2>2, <2>3, <2>4, <2>5
<1>13. CASE UNCHANGED vars
  BY <1>13 DEF vars, settings, childVars
<1> QED  BY <1>1, <1>2, <1>3, <1>4, <1>5, <1>6, <1>7, <1>8, <1>9, <1>10, <1>11, <1>12, <1>13
            DEF Next, Parent, create_process, UnixParent, Win32Parent

-----------------------------------------------------------------------------
(* The parent's descriptors.                                               *)

\* Closing both ends of the pipes in s.
LEMMA ClosePipesEnds ==
    ASSUME NEW open, open \subseteq PipeEnds, HasEnds(fds, pipes, open),
           NEW s, s \subseteq 0..3,
           \A k \in s : File("r", k) \in open /\ File("w", k) \in open
    PROVE  HasEnds(ClosePipes(s), pipes, {f \in open : f.n \notin s})
<1> DEFINE shut == {f \in open : f.n \in s}
<1>1. ClosePipes(s) \in [Fds -> Files]
  BY FreeIsNoEnd DEF ClosePipes, HasEnds
<1>2. ASSUME NEW fd \in Fds
      PROVE  (\E k \in s : fd \in {pipes[k].r, pipes[k].w})
                <=> \E f \in shut : f \in open /\ fd = At(pipes, f)
  <2>1. ASSUME NEW k \in s, fd \in {pipes[k].r, pipes[k].w}
        PROVE  \E f \in shut : f \in open /\ fd = At(pipes, f)
    <3>1. File("r", k) \in shut /\ File("w", k) \in shut
      BY DEF File
    <3>2. pipes[k].r = At(pipes, File("r", k)) /\ pipes[k].w = At(pipes, File("w", k))
      BY DEF At, File
    <3> QED  BY <2>1, <3>1, <3>2
  <2>2. ASSUME NEW f \in shut, fd = At(pipes, f)
        PROVE  \E k \in s : fd \in {pipes[k].r, pipes[k].w}
    BY <2>2 DEF At
  <2> QED  BY <2>1, <2>2
<1>3. HasEnds(ClosePipes(s), pipes, open \ shut)
  BY <1>1, <1>2, CloseEnds DEF ClosePipes
<1>4. open \ shut = {f \in open : f.n \notin s}
  OBVIOUS
<1> QED  BY <1>3, <1>4

\* As long as start() runs, or when its process is there.
LEMMA ParentHasEnds ==
    ASSUME ParentInv, PhaseInv, pc # "threw" \/ child # "none"
    PROVE  HasEnds(fds, pipes, OpenEnds)
BY DEF ParentInv

LEMMA OpenEndsType == OpenEnds \subseteq PipeEnds
BY DEF OpenEnds

\* What a step that leaves tables and pipes alone must keep.
LEMMA SameEnds ==
    ASSUME ParentInv, PhaseInv, pc # "threw" \/ child # "none", OpenEnds' = OpenEnds,
           UNCHANGED <<fds, pipes>>
    PROVE  HasEnds(fds, pipes, OpenEnds)'
BY ParentHasEnds DEF HasEnds, At

\* The pipes of bound streams follow the settings.
TargetsBound ==
    \A k \in Stdio : Bound(k) /\ Binds(k) /\ redirected(k) =>
        pipes[k] = [r |-> startup.target[k], w |-> startup.target[k]]

LEMMA BindKeeps ==
    ASSUME SettingsInv, PhaseInv, ParentInv, NEW k \in Stdio, bind(k)
    PROVE  ParentInv'
<1>k. k \in {0, 1, 2}
  BY DEF Stdio
<1>pc. pc = BindAt[k] /\ pc \in {"bind_stdin", "bind_stdout", "bind_stderr"} /\ child = "none"
  BY <1>k DEF bind, BindAt, PhaseInv
<1>ends. HasEnds(fds, pipes, OpenEnds) /\ OpenEnds \subseteq PipeEnds
  BY <1>pc, ParentHasEnds, OpenEndsType
<1>open. \A f \in OpenEnds : f.n < k /\ f.n \in Stdio /\ Pipes(f.n)
  BY <1>pc, <1>k DEF OpenEnds, Open, PipeEnds, FailPipe, Bound, BindAt, Stdio
<1>set. UNCHANGED settings /\ UNCHANGED child
  BY DEF bind, childVars
<1>1. CASE ~Binds(k) /\ pc' = BindAt[k + 1] /\ UNCHANGED <<fds, pipes, inheritable>>
  <2>1. OpenEnds' = OpenEnds
    BY <1>1, <1>k, <1>pc, <1>set
       DEF OpenEnds, Open, PipeEnds, FailPipe, Bound, BindAt, Pipes, Binds, redirected,
           inherited, settings
  <2>2. HasEnds(fds, pipes, OpenEnds)'
    BY <2>1, <1>1, <1>pc, SameEnds
  <2>3. TargetsBound'
    BY <1>1, <1>k, <1>pc, <1>set
       DEF TargetsBound, ParentInv, Bound, BindAt, Binds, redirected, inherited, settings, Stdio
  <2>4. pc' \notin {"threw", "done", "closed"}
    BY <1>1, <1>k DEF BindAt
  <2> QED  BY <2>2, <2>3, <2>4, <1>1 DEF ParentInv, TargetsBound
<1>2. CASE /\ Binds(k) /\ redirected(k) /\ pc' = BindAt[k + 1] /\ UNCHANGED <<fds, inheritable>>
           /\ pipes' = [pipes EXCEPT ![k] = [r |-> startup.target[k], w |-> startup.target[k]]]
  <2>1. OpenEnds' = OpenEnds
    BY <1>2, <1>k, <1>pc, <1>set
       DEF OpenEnds, Open, PipeEnds, FailPipe, Bound, BindAt, Pipes, Binds, redirected,
           inherited, settings
  <2>2. \A f \in OpenEnds : pipes'[f.n] = pipes[f.n]
    BY <1>2, <1>open DEF ParentInv
  <2>3. HasEnds(fds, pipes', OpenEnds)
    BY <1>ends, <2>2, MovePipe
  <2>4. HasEnds(fds, pipes, OpenEnds)'
    BY <2>1, <2>3, <1>2 DEF HasEnds, At
  <2>5. TargetsBound'
    BY <1>2, <1>k, <1>pc, <1>set
       DEF TargetsBound, ParentInv, Bound, BindAt, Binds, redirected, inherited, settings, Stdio
  <2>6. pc' \notin {"threw", "done", "closed"}
    BY <1>2, <1>k DEF BindAt
  <2>7. pipes' \in [0..3 -> [r : Int, w : Int]]
    <3>1. startup.target[k] \in Int
      BY SpawnAssumption DEF SettingsInv, IsSettings, FD_INVALID
    <3> QED  BY <3>1, <1>2, <1>k DEF ParentInv
  <2> QED  BY <2>4, <2>5, <2>6, <2>7 DEF ParentInv, TargetsBound
<1>3. CASE Binds(k) /\ ~redirected(k) /\ create_pipe(k) /\ pc' = BindAt[k + 1]
  <2> DEFINE r == Min(FreeFds(fds))
             w == Min(FreeFds(fds) \ {r})
  <2>1. /\ r \in Fds /\ w \in Fds /\ r # w /\ fds[r] = Free /\ fds[w] = Free
        /\ fds' = [fds EXCEPT ![r] = File("r", k), ![w] = File("w", k)]
        /\ pipes' = [pipes EXCEPT ![k] = [r |-> r, w |-> w]]
    BY <1>3, TwoFree DEF create_pipe
  <2> HIDE DEF r, w
  <2>2. OpenEnds' = OpenEnds \cup {File("r", k), File("w", k)}
    BY <1>3, <1>k, <1>pc, <1>set
       DEF OpenEnds, Open, PipeEnds, FailPipe, Bound, BindAt, Pipes, Binds, redirected,
           inherited, settings, File
  <2>3. HasEnds(fds', pipes', OpenEnds \cup {File("r", k), File("w", k)})
    <3>1. /\ pipes \in [0..3 -> [r : Int, w : Int]] /\ k \in 0..3
          /\ \A f \in OpenEnds : f.n # k
      BY <1>open, <1>k DEF ParentInv
    <3>2. HasEnds([fds EXCEPT ![r] = File("r", k), ![w] = File("w", k)],
                  [pipes EXCEPT ![k] = [r |-> r, w |-> w]],
                  OpenEnds \cup {File("r", k), File("w", k)})
      BY <2>1, <3>1, <1>ends, AddPipe
    <3> QED  BY <2>1, <3>2
  <2>4. HasEnds(fds, pipes, OpenEnds)'
    BY <2>2, <2>3 DEF HasEnds, At
  <2>5. TargetsBound'
    BY <2>1, <1>3, <1>k, <1>pc, <1>set
       DEF TargetsBound, ParentInv, Bound, BindAt, Binds, redirected, inherited, settings, Stdio
  <2>6. pc' \notin {"threw", "done", "closed"}
    BY <1>3, <1>k DEF BindAt
  <2>7. pipes' \in [0..3 -> [r : Int, w : Int]]
    BY <2>1, <1>k, FdFacts DEF ParentInv
  <2> QED  BY <2>4, <2>5, <2>6, <2>7 DEF ParentInv, TargetsBound
<1>4. CASE fds' = UnbindBefore(k) /\ pc' = "threw" /\ UNCHANGED <<pipes, inheritable>>
  <2>1. fds' \in [Fds -> Files]
    BY <1>4, <1>ends, FreeIsNoEnd DEF UnbindBefore, ClosePipes, HasEnds
  <2>2. ASSUME NEW fd \in Fds
        PROVE  fds'[fd] \in {Free, ParentTable[fd]}
    <3>1. CASE fds[fd] = ParentTable[fd]
      BY <3>1, <1>4 DEF UnbindBefore, ClosePipes
    <3>2. CASE fds[fd] \in OpenEnds /\ At(pipes, fds[fd]) = fd
      <4> DEFINE j == fds[fd].n
      <4>1. j < k /\ j \in Stdio /\ ~inherited(j)
        BY <3>2, <1>open DEF Pipes, Binds
      <4>2. fd \in {pipes[j].r, pipes[j].w}
        BY <3>2 DEF At
      <4> QED  BY <4>1, <4>2, <1>4 DEF UnbindBefore, ClosePipes
    <3> QED  BY <3>1, <3>2, <1>ends DEF HasEnds
  <2>3. \A j \in Stdio : ~Bound(j)'
    BY <1>4 DEF Bound
  <2> QED  BY <2>1, <2>2, <2>3, <1>4, <1>set, <1>pc DEF ParentInv
<1> QED  BY <1>1, <1>2, <1>3, <1>4 DEF bind, redirect_or_pipe

\* A step that only closes ends: what is left of the invariant to show.
LEMMA ParentCloses ==
    ASSUME ParentInv, PhaseInv, pc # "threw" \/ child # "none", UNCHANGED <<settings, pipes>>,
           HasEnds(fds', pipes, OpenEnds'), \A k \in Stdio : Bound(k)' => Bound(k),
           pc' \in {"done", "closed"} =>
              info' = [k \in Stdio |-> IF Pipes(k) THEN ParentEnd(k) ELSE FD_INVALID]
    PROVE  ParentInv'
<1>1. HasEnds(fds, pipes, OpenEnds)'
  BY DEF HasEnds, At
<1>2. pc' = "threw" => OpenEnds' = {}
  BY DEF OpenEnds, Open, PipeEnds, FailPipe, Bound
<1>3. pc' = "threw" => /\ fds' \in [Fds -> Files]
                       /\ \A fd \in Fds : fds'[fd] \in {Free, ParentTable[fd]}
  BY <1>2 DEF HasEnds
<1>4. TargetsBound'
  BY DEF ParentInv, TargetsBound, Binds, redirected, inherited, settings
<1>5. pc' \in {"done", "closed"} =>
          info' = [k \in Stdio |-> IF Pipes(k)' THEN ParentEnd(k)' ELSE FD_INVALID]
  BY DEF Pipes, Binds, redirected, inherited, ParentEnd, settings
<1> QED  BY <1>1, <1>3, <1>4, <1>5 DEF ParentInv, TargetsBound

\* The ends that are open at a place of the parent's program.
LEMMA PipesOpen ==
    ASSUME pc \in {"impl", "rollback", "fork", "handshake", "reap",
                  "wire_stdout", "wire_stderr", "create"}
    PROVE  /\ \A k \in Stdio : Pipes(k) => File("r", k) \in OpenEnds /\ File("w", k) \in OpenEnds
           /\ \A f \in OpenEnds : (f.n \in Stdio /\ Pipes(f.n)) \/ f.n = FailPipe
           /\ pc = "fork" => \A is \in {"r", "w"} : File(is, FailPipe) \in OpenEnds
           /\ pc \in {"handshake", "reap"} =>
                 \A f \in OpenEnds : f.n = FailPipe => f = File("r", FailPipe)
           /\ pc \in {"handshake", "reap"} => File("r", FailPipe) \in OpenEnds
           /\ pc \in {"impl", "rollback", "wire_stdout", "wire_stderr", "create"} =>
                 \A f \in OpenEnds : f.n # FailPipe
<1>1. \A k \in Stdio, is \in {"r", "w"} : File(is, k) \in PipeEnds /\ File(is, FailPipe) \in PipeEnds
  BY DEF File, PipeEnds, Stdio, FailPipe
<1>2. \A k \in Stdio : Bound(k) /\ k # FailPipe
  BY DEF Bound, Stdio, FailPipe
<1>3. \A f \in PipeEnds : f.n \in Stdio \/ f.n = FailPipe
  BY DEF PipeEnds, Stdio, FailPipe
<1>4. ASSUME NEW f \in OpenEnds, f.n = FailPipe, pc \in {"handshake", "reap"}
      PROVE  f = File("r", FailPipe)
  BY <1>4, <1>2 DEF OpenEnds, Open, PipeEnds, File
<1>5. ASSUME NEW k \in Stdio, Pipes(k)
      PROVE  File("r", k) \in OpenEnds /\ File("w", k) \in OpenEnds
  BY <1>1, <1>2, <1>5 DEF OpenEnds, Open, File
<1>6. pc = "fork" => \A is \in {"r", "w"} : File(is, FailPipe) \in OpenEnds
  BY <1>1 DEF OpenEnds, Open, File, Stdio
<1>7. pc \in {"handshake", "reap"} => File("r", FailPipe) \in OpenEnds
  BY <1>1 DEF OpenEnds, Open, File, Stdio
<1>8. \A f \in OpenEnds : (f.n \in Stdio /\ Pipes(f.n)) \/ f.n = FailPipe
  BY <1>3, <1>2 DEF OpenEnds, Open
<1>9. pc \in {"impl", "rollback", "wire_stdout", "wire_stderr", "create"} =>
                 \A f \in OpenEnds : f.n # FailPipe
  BY DEF OpenEnds, Open
<1> QED  BY <1>4, <1>5, <1>6, <1>7, <1>8, <1>9

LEMMA RollbackKeeps ==
    ASSUME SettingsInv, PhaseInv, ParentInv, rollback
    PROVE  ParentInv'
<1> DEFINE s == {k \in Stdio : Pipes(k)}
<1>1. HasEnds(fds, pipes, OpenEnds) /\ OpenEnds \subseteq PipeEnds /\ pc = "rollback"
  BY ParentHasEnds, OpenEndsType DEF rollback
<1>2. HasEnds(ClosePipes(s), pipes, {f \in OpenEnds : f.n \notin s})
  <2>1. s \subseteq 0..3
    BY DEF Stdio
  <2>2. \A k \in s : File("r", k) \in OpenEnds /\ File("w", k) \in OpenEnds
    BY <1>1, PipesOpen
  <2> HIDE DEF s
  <2> QED  BY <1>1, <2>1, <2>2, ClosePipesEnds
<1>3. {f \in OpenEnds : f.n \notin s} = {}
  BY <1>1, PipesOpen
<1>4. OpenEnds' = {}
  BY DEF rollback, OpenEnds, Open, PipeEnds, FailPipe, Bound
<1>5. HasEnds(fds', pipes, OpenEnds')
  BY <1>2, <1>3, <1>4 DEF rollback
<1>6. pc' = "threw" /\ UNCHANGED <<settings, pipes>> /\ \A k \in Stdio : ~Bound(k)'
  BY DEF rollback, Bound
<1> QED  BY <1>1, <1>5, <1>6, ParentCloses

LEMMA OpenFailPipeKeeps ==
    ASSUME SettingsInv, PhaseInv, ParentInv, open_fail_pipe
    PROVE  ParentInv'
<1>1. /\ HasEnds(fds, pipes, OpenEnds) /\ OpenEnds \subseteq PipeEnds /\ pc = "impl"
      /\ UNCHANGED settings /\ child' = child
  BY ParentHasEnds, OpenEndsType DEF open_fail_pipe, childVars
<1>2. CASE pc' = "rollback" /\ UNCHANGED <<fds, pipes>>
  <2>1. OpenEnds' = OpenEnds
    BY <1>1, <1>2 DEF OpenEnds, Open, PipeEnds, FailPipe, Bound, Pipes, Binds, redirected,
                      inherited, settings
  <2>2. \A k \in Stdio : Bound(k)
    BY <1>1 DEF Bound
  <2> QED  BY <1>1, <1>2, <2>1, <2>2, ParentCloses
<1>3. CASE create_pipe(FailPipe) /\ pc' = "fork"
  <2> DEFINE r == Min(FreeFds(fds))
             w == Min(FreeFds(fds) \ {r})
  <2>1. /\ r \in Fds /\ w \in Fds /\ r # w /\ fds[r] = Free /\ fds[w] = Free
        /\ fds' = [fds EXCEPT ![r] = File("r", FailPipe), ![w] = File("w", FailPipe)]
        /\ pipes' = [pipes EXCEPT ![FailPipe] = [r |-> r, w |-> w]]
    BY <1>3, TwoFree DEF create_pipe
  <2> HIDE DEF r, w
  <2>2. OpenEnds' = OpenEnds \cup {File("r", FailPipe), File("w", FailPipe)}
    BY <1>1, <1>3 DEF OpenEnds, Open, PipeEnds, FailPipe, Bound, Pipes, Binds, redirected,
                      inherited, settings, File
  <2>3. /\ pipes \in [0..3 -> [r : Int, w : Int]] /\ FailPipe \in 0..3
        /\ \A f \in OpenEnds : f.n # FailPipe
    BY <1>1, PipesOpen DEF ParentInv, FailPipe
  <2>4. HasEnds([fds EXCEPT ![r] = File("r", FailPipe), ![w] = File("w", FailPipe)],
                [pipes EXCEPT ![FailPipe] = [r |-> r, w |-> w]],
                OpenEnds \cup {File("r", FailPipe), File("w", FailPipe)})
    BY <2>1, <2>3, <1>1, AddPipe
  <2>5. HasEnds(fds, pipes, OpenEnds)'
    BY <2>1, <2>2, <2>4 DEF HasEnds, At
  <2>6. TargetsBound'
    <3>1. \A k \in Stdio : pipes'[k] = pipes[k] /\ Bound(k)
      BY <2>1, <2>3, <1>1 DEF Stdio, FailPipe, Bound
    <3> QED  BY <3>1, <1>1 DEF ParentInv, TargetsBound, Binds, redirected, inherited, settings
  <2>7. pipes' \in [0..3 -> [r : Int, w : Int]]
    BY <2>1, <2>3, FdFacts
  <2> QED  BY <2>5, <2>6, <2>7, <1>3 DEF ParentInv, TargetsBound
<1> QED  BY <1>2, <1>3 DEF open_fail_pipe

\* close() of one end.
LEMMA CloseOne ==
    ASSUME NEW open, open \subseteq PipeEnds, HasEnds(fds, pipes, open),
           NEW f \in open
    PROVE  HasEnds(close_fd(fds, At(pipes, f)), pipes, open \ {f})
<1>1. At(pipes, f) \in Fds /\ At(pipes, f) # FD_INVALID
  BY FdFacts DEF HasEnds
<1>2. /\ close_fd(fds, At(pipes, f)) \in [Fds -> Files]
      /\ \A fd \in Fds : close_fd(fds, At(pipes, f))[fd]
             = IF fd = At(pipes, f) THEN Free ELSE fds[fd]
  BY <1>1, FreeIsNoEnd DEF close_fd, HasEnds
<1>3. \A fd \in Fds : (fd = At(pipes, f)) <=> \E g \in {f} : g \in open /\ fd = At(pipes, g)
  OBVIOUS
<1> QED  BY <1>2, <1>3, CloseEnds

LEMMA ForkKeeps ==
    ASSUME SettingsInv, PhaseInv, ParentInv, fork
    PROVE  ParentInv'
<1>1. /\ HasEnds(fds, pipes, OpenEnds) /\ OpenEnds \subseteq PipeEnds /\ pc = "fork"
      /\ UNCHANGED <<settings, pipes>> /\ pc' \in {"rollback", "handshake"}
  BY ParentHasEnds, OpenEndsType DEF fork
<1>2. \A k \in Stdio : Bound(k)
  BY <1>1 DEF Bound
<1>3. CASE fds' = ClosePipes({FailPipe}) /\ pc' = "rollback"
  <2>1. HasEnds(fds', pipes, {f \in OpenEnds : f.n \notin {FailPipe}})
    <3>1. \A k \in {FailPipe} : File("r", k) \in OpenEnds /\ File("w", k) \in OpenEnds
      BY <1>1, PipesOpen
    <3>2. {FailPipe} \subseteq 0..3
      BY DEF FailPipe
    <3> QED  BY <1>1, <1>3, <3>1, <3>2, ClosePipesEnds
  <2>2. OpenEnds' = {f \in OpenEnds : f.n \notin {FailPipe}}
    BY <1>1, <1>3 DEF OpenEnds, Open, PipeEnds, FailPipe, Bound, Pipes, Binds, redirected,
                      inherited, settings
  <2> QED  BY <1>1, <1>2, <1>3, <2>1, <2>2, ParentCloses
<1>4. CASE fds' = close_fd(fds, pipes[FailPipe].w) /\ pc' = "handshake"
  <2>1. File("w", FailPipe) \in OpenEnds /\ At(pipes, File("w", FailPipe)) = pipes[FailPipe].w
    BY <1>1, PipesOpen DEF At, File
  <2>2. HasEnds(fds', pipes, OpenEnds \ {File("w", FailPipe)})
    BY <1>1, <1>4, <2>1, CloseOne
  <2>3. OpenEnds' = OpenEnds \ {File("w", FailPipe)}
    BY <1>1, <1>4 DEF OpenEnds, Open, PipeEnds, FailPipe, Bound, Pipes, Binds, redirected,
                      inherited, settings, File
  <2> QED  BY <1>1, <1>2, <1>4, <2>2, <2>3, ParentCloses
<1> QED  BY <1>3, <1>4 DEF fork

LEMMA ReadErrnoKeeps ==
    ASSUME SettingsInv, PhaseInv, ParentInv, read_errno
    PROVE  ParentInv'
<1>1. /\ HasEnds(fds, pipes, OpenEnds) /\ pc = "handshake" /\ pc' = "reap"
      /\ UNCHANGED <<settings, pipes, fds>>
  BY ParentHasEnds DEF read_errno
<1>2. OpenEnds' = OpenEnds
  BY <1>1 DEF OpenEnds, Open, PipeEnds, FailPipe, Bound, Pipes, Binds, redirected,
              inherited, settings
<1>3. \A k \in Stdio : Bound(k)
  BY <1>1 DEF Bound
<1> QED  BY <1>1, <1>2, <1>3, ParentCloses

LEMMA ReapFailedKeeps ==
    ASSUME SettingsInv, PhaseInv, ParentInv, reap_failed
    PROVE  ParentInv'
<1>1. /\ HasEnds(fds, pipes, OpenEnds) /\ OpenEnds \subseteq PipeEnds
      /\ pc = "reap" /\ pc' = "rollback" /\ UNCHANGED <<settings, pipes>>
  BY ParentHasEnds, OpenEndsType DEF reap_failed
<1>2. File("r", FailPipe) \in OpenEnds /\ At(pipes, File("r", FailPipe)) = pipes[FailPipe].r
  BY <1>1, PipesOpen DEF At, File
<1>3. HasEnds(fds', pipes, OpenEnds \ {File("r", FailPipe)})
  BY <1>1, <1>2, CloseOne DEF reap_failed
<1>4. OpenEnds' = OpenEnds \ {File("r", FailPipe)}
  BY <1>1 DEF OpenEnds, Open, PipeEnds, FailPipe, Bound, Pipes, Binds, redirected,
              inherited, settings, File
<1>5. \A k \in Stdio : Bound(k)
  BY <1>1 DEF Bound
<1> QED  BY <1>1, <1>3, <1>4, <1>5, ParentCloses

\* The parent's and the child's end of the pipe of a stream.
LEMMA SideOf ==
    ASSUME NEW k \in Stdio
    PROVE  /\ ChildEnd(k) = At(pipes, File(ChildSide(k), k))
           /\ ParentEnd(k) = At(pipes, File(ParentSide(k), k))
           /\ ChildSide(k) \in {"r", "w"} /\ ParentSide(k) \in {"r", "w"}
           /\ ChildSide(k) # ParentSide(k)
           /\ \A is \in {"r", "w"} : is = ChildSide(k) \/ is = ParentSide(k)
BY DEF ChildEnd, ParentEnd, ChildSide, ParentSide, At, File

\* The last lines of create_process_impl: the ends in more, and the child's
\* ends of the pipes, are closed.
LEMMA KeepParentEnds ==
    ASSUME SettingsInv, PhaseInv, ParentInv, pc \in {"handshake", "create"},
           NEW rest, keep_parent_ends(rest), UNCHANGED <<settings, pipes>>,
           NEW more, more \subseteq OpenEnds, \A f \in more : f.n = FailPipe,
           rest = {At(pipes, f) : f \in more},
           \A f \in OpenEnds : f.n = FailPipe => f \in more
    PROVE  ParentInv'
<1> DEFINE shut == more \cup {File(ChildSide(k), k) : k \in {j \in Stdio : Pipes(j)}}
<1>1. HasEnds(fds, pipes, OpenEnds) /\ OpenEnds \subseteq PipeEnds
  BY ParentHasEnds, OpenEndsType
<1>2. shut \subseteq OpenEnds
  BY PipesOpen, SideOf
<1>3. fds' \in [Fds -> Files]
  BY <1>1, FreeIsNoEnd DEF keep_parent_ends, HasEnds
<1>4. ASSUME NEW fd \in Fds
      PROVE  (fd \in rest \/ \E k \in Stdio : Pipes(k) /\ fd = ChildEnd(k))
                <=> \E f \in shut : f \in OpenEnds /\ fd = At(pipes, f)
  <2>1. ASSUME fd \in rest PROVE \E f \in shut : f \in OpenEnds /\ fd = At(pipes, f)
    BY <1>2, <2>1
  <2>2. ASSUME NEW k \in Stdio, Pipes(k), fd = ChildEnd(k)
        PROVE  \E f \in shut : f \in OpenEnds /\ fd = At(pipes, f)
    <3>1. File(ChildSide(k), k) \in shut
      BY <2>2
    <3> QED  BY <3>1, <2>2, <1>2, SideOf
  <2>3. ASSUME NEW f \in shut, fd = At(pipes, f)
        PROVE  fd \in rest \/ \E k \in Stdio : Pipes(k) /\ fd = ChildEnd(k)
    BY <2>3, SideOf
  <2> QED  BY <2>1, <2>2, <2>3
<1>5. HasEnds(fds', pipes, OpenEnds \ shut)
  <2>1. \A fd \in Fds : fds'[fd] = IF \E f \in shut : f \in OpenEnds /\ fd = At(pipes, f)
                                   THEN Free ELSE fds[fd]
    BY <1>4 DEF keep_parent_ends
  <2> HIDE DEF shut
  <2> QED  BY <1>1, <1>3, <2>1, CloseEnds
<1>6. OpenEnds' = OpenEnds \ shut
  <2>pc. pc' = "done"
    BY DEF keep_parent_ends
  <2>0. \A k \in Stdio : Bound(k) /\ ~Bound(k)' /\ Pipes(k)' = Pipes(k)
    BY <2>pc DEF Bound, Pipes, Binds, redirected, inherited, settings
  <2>1. ASSUME NEW f \in PipeEnds, f.n \in Stdio
        PROVE  Open(f)' <=> f \in OpenEnds /\ f \notin shut
    <3>1. f = File(f.is, f.n) /\ f.n # FailPipe /\ f.is \in {"r", "w"}
      BY <2>1 DEF Stdio, FailPipe, PipeEnds, File
    <3>2. f \in OpenEnds <=> Pipes(f.n)
      BY <2>0, <2>1, <3>1, <2>pc DEF OpenEnds, Open
    <3>3. Open(f)' <=> Pipes(f.n) /\ f.is = ParentSide(f.n)
      BY <2>0, <2>1, <3>1, <2>pc DEF Open, Pipes, Binds, redirected, inherited, settings
    <3>4. f \in shut <=> Pipes(f.n) /\ f.is = ChildSide(f.n)
      BY <2>1, <3>1 DEF File
    <3> QED  BY <2>1, <3>1, <3>2, <3>3, <3>4, SideOf
  <2>2. ASSUME NEW f \in PipeEnds, f.n = FailPipe
        PROVE  ~Open(f)' /\ (f \in OpenEnds => f \in shut)
    BY <2>2, <2>pc DEF Open
  <2>3. \A f \in PipeEnds : f.n \in Stdio \/ f.n = FailPipe
    BY DEF PipeEnds, Stdio, FailPipe
  <2>4. \A f : f \in OpenEnds' <=> f \in PipeEnds /\ Open(f)'
    BY DEF OpenEnds
  <2> HIDE DEF shut
  <2> QED  BY <1>1, <2>1, <2>2, <2>3, <2>4
<1>7. /\ \A k \in Stdio : ~Bound(k)'
      /\ info' = [k \in Stdio |-> IF Pipes(k) THEN ParentEnd(k) ELSE FD_INVALID]
  BY DEF keep_parent_ends, Bound
<1>8. HasEnds(fds', pipes, OpenEnds')
  BY <1>5, <1>6
<1> QED  BY <1>7, <1>8, ParentCloses

LEMMA StartedKeeps ==
    ASSUME SettingsInv, PhaseInv, ParentInv, started
    PROVE  ParentInv'
<1>1. pc = "handshake" /\ keep_parent_ends({pipes[FailPipe].r}) /\ UNCHANGED <<settings, pipes>>
  BY DEF started
<1>2. {pipes[FailPipe].r} = {At(pipes, f) : f \in {File("r", FailPipe)}}
  BY DEF At, File
<1>3. /\ {File("r", FailPipe)} \subseteq OpenEnds
      /\ \A f \in OpenEnds : f.n = FailPipe => f \in {File("r", FailPipe)}
  BY <1>1, PipesOpen
<1>4. \A f \in {File("r", FailPipe)} : f.n = FailPipe
  BY DEF File
<1> QED  BY <1>1, <1>2, <1>3, <1>4, KeepParentEnds

LEMMA CreateKeeps ==
    ASSUME SettingsInv, PhaseInv, ParentInv, CreateProcess
    PROVE  ParentInv'
<1>1. pc = "create" /\ UNCHANGED <<settings, pipes>>
  BY DEF CreateProcess
<1>2. CASE pc' = "rollback" /\ UNCHANGED fds
  <2>1. OpenEnds' = OpenEnds
    BY <1>1, <1>2 DEF OpenEnds, Open, PipeEnds, FailPipe, Bound, Pipes, Binds, redirected,
                      inherited, settings
  <2>2. HasEnds(fds', pipes, OpenEnds')
    BY <1>1, <1>2, <2>1, ParentHasEnds
  <2>3. \A k \in Stdio : Bound(k)
    BY <1>1 DEF Bound
  <2> QED  BY <1>1, <1>2, <2>2, <2>3, ParentCloses
<1>3. CASE keep_parent_ends({})
  <2>1. {} = {At(pipes, f) : f \in {}}
    OBVIOUS
  <2>2. \A f \in OpenEnds : f.n = FailPipe => f \in {}
    BY <1>1, PipesOpen
  <2> QED  BY <1>1, <1>3, <2>1, <2>2, KeepParentEnds
<1> QED  BY <1>2, <1>3 DEF CreateProcess

LEMMA WireKeeps ==
    ASSUME SettingsInv, PhaseInv, ParentInv, NEW k \in Stdio, wire(k)
    PROVE  ParentInv'
<1>1. /\ pc \in {"impl", "wire_stdout", "wire_stderr"}
      /\ pc' \in {"wire_stdout", "wire_stderr", "create", "rollback"}
      /\ UNCHANGED <<settings, pipes, fds>>
  <2>1. k \in {0, 1, 2}
    BY DEF Stdio
  <2> QED  BY <2>1 DEF wire, WireAt
<1>2. OpenEnds' = OpenEnds
  BY <1>1 DEF OpenEnds, Open, PipeEnds, FailPipe, Bound, Pipes, Binds, redirected,
              inherited, settings
<1>3. HasEnds(fds', pipes, OpenEnds')
  BY <1>1, <1>2, ParentHasEnds
<1>4. \A j \in Stdio : Bound(j)
  BY <1>1 DEF Bound
<1> QED  BY <1>1, <1>3, <1>4, ParentCloses

LEMMA CloseKeeps ==
    ASSUME SettingsInv, PhaseInv, ParentInv, close_process
    PROVE  ParentInv'
<1>1. /\ HasEnds(fds, pipes, OpenEnds) /\ OpenEnds \subseteq PipeEnds
      /\ pc = "done" /\ pc' = "closed" /\ UNCHANGED <<settings, pipes, info>>
  BY ParentHasEnds, OpenEndsType DEF close_process
<1>2. info = [k \in Stdio |-> IF Pipes(k) THEN ParentEnd(k) ELSE FD_INVALID]
  BY <1>1 DEF ParentInv
<1>3. OpenEnds = {File(ParentSide(k), k) : k \in {j \in Stdio : Pipes(j)}}
  <2>1. \A k \in Stdio : ~Bound(k) /\ k # FailPipe
    BY <1>1 DEF Bound, Stdio, FailPipe
  <2>2. ASSUME NEW k \in Stdio, Pipes(k)
        PROVE  File(ParentSide(k), k) \in OpenEnds
    BY <2>1, <2>2, <1>1 DEF OpenEnds, Open, PipeEnds, File, Stdio, ParentSide
  <2>3. ASSUME NEW f \in OpenEnds
        PROVE  f.n \in Stdio /\ Pipes(f.n) /\ f = File(ParentSide(f.n), f.n)
    <3>1. f \in PipeEnds /\ Open(f) /\ f = File(f.is, f.n)
      BY FreeIsNoEnd DEF OpenEnds
    <3>2. f.n # FailPipe
      BY <3>1, <1>1 DEF Open
    <3>3. f.n \in Stdio
      BY <3>1, <3>2 DEF PipeEnds, Stdio, FailPipe
    <3> QED  BY <3>1, <3>2, <3>3, <2>1 DEF Open
  <2> QED  BY <2>2, <2>3
<1>4. \A fd \in Fds : fd \in {info[0], info[1], info[2]}
                        <=> \E f \in OpenEnds : f \in OpenEnds /\ fd = At(pipes, f)
  <2>1. ASSUME NEW k \in Stdio, NEW fd \in Fds
        PROVE  fd = info[k] <=> Pipes(k) /\ fd = At(pipes, File(ParentSide(k), k))
    BY <1>2, SideOf, FdFacts
  <2>2. Stdio = {0, 1, 2}
    BY DEF Stdio
  <2>3. \A fd \in Fds : fd \in {info[0], info[1], info[2]} <=> \E k \in Stdio : fd = info[k]
    BY <2>2
  <2> QED  BY <1>3, <2>1, <2>3
<1>5. /\ fds' \in [Fds -> Files]
      /\ \A fd \in Fds : fds'[fd] = IF fd \in {info[0], info[1], info[2]}
                                    THEN Free ELSE fds[fd]
  <2>1. \A k \in Stdio : info[k] = FD_INVALID \/ info[k] \in Fds
    <3>1. \A k \in Stdio : Pipes(k) => File(ParentSide(k), k) \in OpenEnds
      BY <1>3
    <3>2. \A k \in Stdio : Pipes(k) => ParentEnd(k) \in Fds
      BY <1>1, <3>1, SideOf DEF HasEnds
    <3> QED  BY <1>2, <3>2
  <2>2. ASSUME NEW t \in [Fds -> Files], NEW d, d = FD_INVALID \/ d \in Fds
        PROVE  /\ close_fd(t, d) \in [Fds -> Files]
               /\ \A fd \in Fds : close_fd(t, d)[fd] = IF fd = d THEN Free ELSE t[fd]
    BY <2>2, FdFacts, FreeIsNoEnd DEF close_fd
  <2> DEFINE t1 == close_fd(fds, info[0])
             t2 == close_fd(t1, info[1])
  <2>3. /\ t1 \in [Fds -> Files]
        /\ \A fd \in Fds : t1[fd] = IF fd = info[0] THEN Free ELSE fds[fd]
    BY <1>1, <2>1, <2>2 DEF HasEnds, Stdio
  <2> HIDE DEF t1
  <2>4. /\ t2 \in [Fds -> Files]
        /\ \A fd \in Fds : t2[fd] = IF fd = info[1] THEN Free ELSE t1[fd]
    BY <2>1, <2>2, <2>3 DEF Stdio
  <2> HIDE DEF t2
  <2>5. /\ close_fd(t2, info[2]) \in [Fds -> Files]
        /\ \A fd \in Fds : close_fd(t2, info[2])[fd] = IF fd = info[2] THEN Free ELSE t2[fd]
    BY <2>1, <2>2, <2>4 DEF Stdio
  <2>6. fds' = close_fd(t2, info[2])
    BY DEF close_process, t1, t2
  <2> QED  BY <2>3, <2>4, <2>5, <2>6
<1>6. HasEnds(fds', pipes, OpenEnds \ OpenEnds)
  <2>1. \A fd \in Fds : fds'[fd] = IF \E f \in OpenEnds : f \in OpenEnds /\ fd = At(pipes, f)
                                   THEN Free ELSE fds[fd]
    BY <1>4, <1>5
  <2> QED  BY <1>1, <1>5, <2>1, CloseEnds
<1>7. OpenEnds' = {} /\ OpenEnds \ OpenEnds = {}
  BY <1>1 DEF OpenEnds, Open, PipeEnds, FailPipe, Bound
<1>8. HasEnds(fds', pipes, OpenEnds') /\ \A k \in Stdio : ~Bound(k)'
  BY <1>1, <1>6, <1>7 DEF Bound
<1> QED  BY <1>1, <1>2, <1>8, ParentCloses

LEMMA ParentKept == SettingsInv /\ PhaseInv /\ ParentInv /\ [Next]_vars => ParentInv'
<1> SUFFICES ASSUME SettingsInv, PhaseInv, ParentInv, [Next]_vars PROVE ParentInv'
  OBVIOUS
<1>1. CASE configure \/ start
  <2>1. /\ pc = "build" /\ pc' \in {"build", "bind_stdin", "threw"}
        /\ UNCHANGED <<fds, pipes, info, child>> /\ child = "none"
    BY <1>1 DEF configure, start, childVars, PhaseInv
  <2>2. OpenEnds = {} /\ OpenEnds' = {} /\ \A k \in Stdio : ~Bound(k)'
    BY <2>1 DEF OpenEnds, Open, PipeEnds, FailPipe, Bound, Stdio
  <2>3. HasEnds(fds, pipes, {})
    BY <2>1, <2>2, ParentHasEnds
  <2>4. HasEnds(fds, pipes, OpenEnds)'
    BY <2>1, <2>2, <2>3 DEF HasEnds
  <2>5. fds' \in [Fds -> Files] /\ \A fd \in Fds : fds'[fd] \in {Free, ParentTable[fd]}
    BY <2>1, <2>3 DEF HasEnds
  <2> QED  BY <2>1, <2>2, <2>4, <2>5 DEF ParentInv
<1>2. CASE UnixChild \/ ChildKilled \/ UNCHANGED vars
  <2>1. UNCHANGED <<settings, fds, pipes, info, pc>>
    BY <1>2, ChildSteps DEF vars, settings
  <2>2. pc = "threw" => (child' = "none") = (child = "none")
    <3>1. CASE UnixChild \/ ChildKilled
      BY <3>1, ChildSteps DEF child_wires, Stays, DiesEarly, Execs, BeforeExec, PhaseInv
    <3> QED  BY <1>2, <3>1 DEF vars, childVars
  <2>3. OpenEnds' = OpenEnds
    BY <2>1 DEF OpenEnds, Open, Bound, Pipes, Binds, redirected, inherited, settings
  <2>4. HasEnds(fds, pipes, OpenEnds)' = HasEnds(fds, pipes, OpenEnds)
    BY <2>1, <2>3 DEF HasEnds, At
  <2>5. TargetsBound' = TargetsBound
    BY <2>1 DEF TargetsBound, Bound, Binds, redirected, inherited, settings
  <2>6. pc \in {"done", "closed"} =>
          info' = [k \in Stdio |-> IF Pipes(k)' THEN ParentEnd(k)' ELSE FD_INVALID]
    BY <2>1 DEF ParentInv, Pipes, Binds, redirected, inherited, ParentEnd, settings
  <2> QED  BY <2>1, <2>2, <2>4, <2>5, <2>6 DEF ParentInv, TargetsBound
<1> QED  BY <1>1, <1>2, BindKeeps, RollbackKeeps, OpenFailPipeKeeps, ForkKeeps, ReadErrnoKeeps,
            ReapFailedKeeps, StartedKeeps, WireKeeps, CreateKeeps, CloseKeeps
         DEF Next, Parent, create_process, UnixParent, Win32Parent

-----------------------------------------------------------------------------
(* The descriptors of a Unix child.                                        *)

\* The streams and the user's files in a table with ends.
LEMMA OwnFiles ==
    ASSUME NEW t, NEW open, open \subseteq PipeEnds, HasEnds(t, pipes, open)
    PROVE  /\ \A fd \in Stdio : t[fd] = File("std", fd)
           /\ \A fd \in UserFds : t[fd] = File("user", fd)
           /\ \A f \in open : At(pipes, f) \in Fds \ Stdio /\ t[At(pipes, f)] = f
<1>1. ASSUME NEW f \in open
      PROVE  At(pipes, f) \in Fds \ (Stdio \cup UserFds) /\ t[At(pipes, f)] = f
  <2>1. /\ At(pipes, f) \in Fds /\ t[At(pipes, f)] = f
        /\ ParentTable[At(pipes, f)] = Free
    BY DEF HasEnds
  <2>2. \A fd \in Stdio \cup UserFds : ParentTable[fd] # Free
    <3>1. \A n, m : File("std", n) # File("free", m) /\ File("user", n) # File("free", m)
      BY DEF File
    <3> QED  BY <3>1, ParentTableType DEF Free
  <2> QED  BY <2>1, <2>2
<1>2. ASSUME NEW fd \in Stdio \cup UserFds
      PROVE  t[fd] = ParentTable[fd]
  BY <1>1, FdFacts DEF HasEnds
<1> QED  BY <1>1, <1>2, ParentTableType

\* Once every stream is bound the child's end of each is what the settings
\* promise, away from the streams and from the ends that will be closed.
LEMMA ChildEnds ==
    ASSUME SettingsInv, ParentInv, pc \in {"handshake", "impl", "wire_stdout",
                                           "wire_stderr", "create"},
           NEW t, NEW open, open \subseteq PipeEnds, HasEnds(t, pipes, open),
           \A k \in Stdio : Pipes(k) => File("r", k) \in open /\ File("w", k) \in open,
           NEW k \in Stdio, Binds(k)
    PROVE  /\ ChildEnd(k) \in Fds \ Stdio
           /\ t[ChildEnd(k)] = Promised(k)
           /\ Promised(k) = IF redirected(k) THEN File("user", startup.target[k])
                                             ELSE File(ChildSide(k), k)
           /\ redirected(k) => ChildEnd(k) = startup.target[k] /\ ChildEnd(k) \in UserFds
<1>1. Promised(k) = IF redirected(k) THEN File("user", startup.target[k])
                                     ELSE File(ChildSide(k), k)
  BY DEF Promised, Binds, inherited, redirected, ChildSide
<1>2. CASE redirected(k)
  <2>1. Bound(k)
    BY DEF Bound
  <2>2. ChildEnd(k) = startup.target[k] /\ startup.target[k] \in UserFds
    <3>1. pipes[k] = [r |-> startup.target[k], w |-> startup.target[k]]
      BY <1>2, <2>1 DEF ParentInv
    <3>2. startup.target[k] \in UserFds
      BY <1>2 DEF SettingsInv, IsSettings, redirected
    <3> QED  BY <3>1, <3>2 DEF ChildEnd
  <2> QED  BY <1>1, <1>2, <2>2, OwnFiles, FdFacts
<1>3. CASE ~redirected(k)
  <2>1. File(ChildSide(k), k) \in open
    BY <1>3, SideOf DEF Pipes
  <2> QED  BY <1>1, <1>3, <2>1, OwnFiles, SideOf
<1> QED  BY <1>2, <1>3

LEMMA PromisedIsOpen ==
    ASSUME SettingsInv, NEW k \in Stdio
    PROVE  Promised(k) \in Files /\ Promised(k) # Free
<1>1. k \in {0, 1, 2}
  BY DEF Stdio
<1>2. \A s \in Stdio : startup.target[s] \in Int
  BY SpawnAssumption DEF SettingsInv, IsSettings, FD_INVALID
<1>3. \A s \in Stdio : ParentTable[s] = File("std", s)
  BY ParentTableType
<1> QED  BY <1>1, <1>2, <1>3 DEF Promised, Files, File, Free, Stdio

\* dup2() of an open descriptor.
LEMMA Dup2 ==
    ASSUME NEW t \in [Fds -> Files], NEW from \in Fds, NEW to \in Fds, t[from] # Free
    PROVE  /\ dup2(t, from, to) \in [Fds -> Files]
           /\ \A fd \in Fds : dup2(t, from, to)[fd] = IF fd = to THEN t[from] ELSE t[fd]
BY DEF dup2

LEMMA WiresStreams ==
    ASSUME SettingsInv, PhaseInv, ParentInv, UnixInv, child_wires
    PROVE  Wired(cfds')
<1> DEFINE T == cfds
           open == OpenEnds \cup {File("w", FailPipe)}
<1>1. pc = "handshake" /\ HasEnds(T, pipes, open)
  BY DEF PhaseInv, UnixInv, child_wires, BeforeExec
<1>2. open \subseteq PipeEnds
  BY OpenEndsType DEF PipeEnds, File, FailPipe
<1>3. /\ \A k \in Stdio : Pipes(k) => File("r", k) \in open /\ File("w", k) \in open
      /\ File("r", FailPipe) \in open /\ File("w", FailPipe) \in open
  BY <1>1, PipesOpen
<1> HIDE DEF open
<1>4. T \in [Fds -> Files] /\ \A fd \in Stdio : T[fd] = File("std", fd)
  BY <1>1, <1>2, OwnFiles DEF HasEnds
<1>5. /\ FailFd \in Fds \ Stdio /\ T[FailFd] = File("w", FailPipe)
      /\ pipes[FailPipe].r \in Fds \ Stdio /\ T[pipes[FailPipe].r] = File("r", FailPipe)
  <2>1. At(pipes, File("w", FailPipe)) = FailFd /\ At(pipes, File("r", FailPipe)) = pipes[FailPipe].r
    BY DEF At, File, FailFd
  <2> QED  BY <2>1, <1>1, <1>2, <1>3, OwnFiles
<1>6. \A k \in Stdio : Binds(k) =>
          /\ ChildEnd(k) \in Fds \ Stdio
          /\ T[ChildEnd(k)] = Promised(k)
          /\ Promised(k) = IF redirected(k) THEN File("user", startup.target[k])
                                            ELSE File(ChildSide(k), k)
  BY <1>1, <1>2, <1>3, ChildEnds
<1>7. \A k \in Stdio : Pipes(k) =>
          ParentEnd(k) \in Fds \ Stdio /\ T[ParentEnd(k)] = File(ParentSide(k), k)
  BY <1>1, <1>2, <1>3, OwnFiles, SideOf
\* No descriptor that is closed on the way is one that is needed.
<1>8. \A k \in Stdio : Binds(k) =>
          /\ ChildEnd(k) # FailFd /\ ChildEnd(k) # pipes[FailPipe].r
          /\ \A j \in Stdio : Pipes(j) => ChildEnd(k) # ParentEnd(j)
  BY <1>5, <1>6, <1>7 DEF File, FailPipe, Stdio, ChildSide, ParentSide
<1>9. /\ FailFd # pipes[FailPipe].r
      /\ \A j \in Stdio : Pipes(j) => FailFd # ParentEnd(j)
  BY <1>5, <1>7 DEF File, FailPipe, Stdio
<1>10. Stdio = {0, 1, 2} /\ 0 \in Fds /\ 1 \in Fds /\ 2 \in Fds
  BY FdFacts DEF Stdio
<1> DEFINE t1 == DropParentEnds(T)
           t2 == WireStdin(t1)
           t3 == WireStdout(t2)
           t4 == WireStderr(t3)
           Needed == {FailFd} \cup {ChildEnd(k) : k \in {j \in Stdio : Binds(j)}}
<1>11. /\ t1 \in [Fds -> Files]
       /\ \A fd \in Stdio \cup Needed : t1[fd] = T[fd]
  <2>1. t1 \in [Fds -> Files]
    BY <1>4, FreeIsNoEnd DEF DropParentEnds
  <2>2. ASSUME NEW fd \in Stdio \cup Needed
        PROVE  fd # pipes[FailPipe].r /\ \A j \in Stdio : Pipes(j) => fd # ParentEnd(j)
    BY <1>5, <1>7, <1>8, <1>9
  <2>3. Stdio \cup Needed \subseteq Fds
    BY <1>5, <1>6, <1>10
  <2> QED  BY <2>1, <2>2, <2>3, <1>10 DEF DropParentEnds
<1> HIDE DEF t1
<1>12. /\ t2 \in [Fds -> Files] /\ t2[0] = Promised(0)
       /\ \A fd \in Fds \ {0} : t2[fd] = t1[fd]
  <2>1. CASE inherited(0)
    <3>1. Promised(0) = File("std", 0)
      BY <2>1, <1>10, ParentTableType DEF Promised, inherited
    <3> QED  BY <2>1, <3>1, <1>4, <1>10, <1>11 DEF WireStdin
  <2>2. CASE ~inherited(0)
    <3>1. Binds(0) /\ ChildEnd(0) = pipes[0].r
      BY <2>2 DEF Binds, ChildEnd
    <3>2. ChildEnd(0) \in Fds /\ t1[ChildEnd(0)] = Promised(0) /\ Promised(0) # Free
      BY <3>1, <1>6, <1>10, <1>11, PromisedIsOpen
    <3>3. t2 = dup2(t1, ChildEnd(0), 0)
      BY <2>2, <3>1 DEF WireStdin
    <3> QED  BY <3>2, <3>3, <1>10, <1>11, Dup2
  <2> QED  BY <2>1, <2>2
<1> HIDE DEF t2
<1>13. /\ t3 \in [Fds -> Files] /\ t3[1] = Promised(1)
       /\ \A fd \in Fds \ {1} : t3[fd] = t2[fd]
  <2>1. CASE inherited(1)
    <3>1. Promised(1) = File("std", 1)
      BY <2>1, <1>10, ParentTableType DEF Promised, inherited
    <3> QED  BY <2>1, <3>1, <1>4, <1>10, <1>11, <1>12 DEF WireStdout
  <2>2. CASE ~inherited(1)
    <3>1. Binds(1) /\ ChildEnd(1) = pipes[1].w
      BY <2>2 DEF Binds, ChildEnd
    <3>2. ChildEnd(1) \in Fds \ Stdio /\ t2[ChildEnd(1)] = Promised(1) /\ Promised(1) # Free
      BY <3>1, <1>6, <1>10, <1>11, <1>12, PromisedIsOpen
    <3>3. t3 = dup2(t2, ChildEnd(1), 1)
      BY <2>2, <3>1 DEF WireStdout
    <3> QED  BY <3>2, <3>3, <1>10, <1>12, Dup2
  <2> QED  BY <2>1, <2>2
<1> HIDE DEF t3
<1>14. /\ t4 \in [Fds -> Files] /\ t4[2] = Promised(2)
       /\ \A fd \in {0, 1, FailFd} : t4[fd] = t3[fd]
  <2>1. CASE startup.merge
    <3>1. Promised(2) = Promised(1) /\ Promised(1) # Free
      BY <2>1, <1>10, PromisedIsOpen DEF Promised
    <3>2. t4 = dup2(t3, 1, 2)
      BY <2>1 DEF WireStderr
    <3> QED  BY <3>1, <3>2, <1>5, <1>10, <1>13, Dup2
  <2>2. CASE ~startup.merge /\ inherited(2)
    <3>1. Promised(2) = File("std", 2)
      BY <2>2, <1>10, ParentTableType DEF Promised, inherited
    <3> QED  BY <2>2, <3>1, <1>4, <1>10, <1>11, <1>12, <1>13 DEF WireStderr
  <2>3. CASE ~startup.merge /\ ~inherited(2)
    <3>1. Binds(2) /\ ChildEnd(2) = pipes[2].w
      BY <2>3 DEF Binds, ChildEnd
    <3>2. ChildEnd(2) \in Fds \ Stdio /\ t3[ChildEnd(2)] = Promised(2) /\ Promised(2) # Free
      BY <3>1, <1>6, <1>10, <1>11, <1>12, <1>13, PromisedIsOpen
    <3>3. CASE redirected(2)
      <4>1. t4 = dup2(t3, ChildEnd(2), 2)
        BY <2>3, <3>1, <3>3 DEF WireStderr
      <4> QED  BY <3>2, <4>1, <1>5, <1>10, <1>13, Dup2
    <3>4. CASE ~redirected(2)
      <4> DEFINE t == close_fd(t3, ParentEnd(2))
      <4>1. Pipes(2) /\ ParentEnd(2) = pipes[2].r
        BY <3>1, <3>4 DEF Pipes, ParentEnd
      <4>2. ParentEnd(2) \in Fds \ Stdio /\ ParentEnd(2) # FD_INVALID
            /\ ParentEnd(2) # FailFd /\ ParentEnd(2) # ChildEnd(2)
        BY <3>1, <4>1, <1>7, <1>8, <1>9, <1>10, FdFacts
      <4>3. /\ t \in [Fds -> Files]
            /\ \A fd \in Fds \ {ParentEnd(2)} : t[fd] = t3[fd]
        BY <4>2, <1>13, FreeIsNoEnd DEF close_fd
      <4>4. t4 = dup2(t, ChildEnd(2), 2)
        BY <2>3, <3>1, <3>4, <4>1 DEF WireStderr
      <4> HIDE DEF t
      <4>5. t[ChildEnd(2)] = Promised(2)
        BY <3>2, <4>2, <4>3
      <4> QED  BY <3>2, <4>2, <4>3, <4>4, <4>5, <1>5, <1>10, Dup2
    <3> QED  BY <3>3, <3>4
  <2> QED  BY <2>1, <2>2, <2>3
<1> HIDE DEF t4
<1> DEFINE t5 == DropOriginals(t4)
<1>15. /\ t5 \in [Fds -> Files]
       /\ \A fd \in {0, 1, 2, FailFd} : t5[fd] = t4[fd]
  BY <1>5, <1>6, <1>8, <1>10, <1>14, FreeIsNoEnd DEF DropOriginals
<1>16. cfds' = close_all_descriptors(t5, FailFd)
  BY DEF child_wires, t1, t2, t3, t4
<1> HIDE DEF t5
<1>17. t5[0] = Promised(0) /\ t5[1] = Promised(1) /\ t5[2] = Promised(2)
  BY <1>10, <1>12, <1>13, <1>14, <1>15
<1>18. t5[FailFd] = File("w", FailPipe)
  BY <1>5, <1>10, <1>11, <1>12, <1>13, <1>14, <1>15
<1>19. cfds' \in [Fds -> Files]
  BY <1>15, <1>16, FreeIsNoEnd DEF close_all_descriptors
<1>20. \A fd \in Fds : cfds'[fd] = IF fd \in Stdio \cup {FailFd} THEN t5[fd] ELSE Free
  <2>1. \A fd \in Fds : fd >= 3 <=> fd \notin Stdio
    BY FdFacts DEF Stdio
  <2> QED  BY <1>16, <2>1, <1>5 DEF close_all_descriptors
<1>21. \A k \in Stdio : cfds'[k] = Promised(k)
  BY <1>10, <1>17, <1>20
<1> QED  BY <1>5, <1>18, <1>19, <1>20, <1>21 DEF Wired

\* The parent waits for a child that has not executed the program.
LEMMA ParentWaits ==
    ASSUME PhaseInv, UnixInv, configure \/ Parent
    PROVE  /\ cpc \notin BeforeExec
           /\ cpc' = cpc \/ fork
<1>1. cpc \in BeforeExec => ~FailPipeClosed
  BY HoldsFailPipe
<1>2. \A k \in Stdio : BindAt[k] # "handshake" /\ WireAt[k] # "handshake"
  BY DEF BindAt, WireAt, Stdio
<1> QED
  BY <1>1, <1>2 DEF PhaseInv, configure, start, Parent, create_process, bind, rollback,
     UnixParent, open_fail_pipe, fork, read_errno, reap_failed, started, Win32Parent, wire,
     CreateProcess, close_process, childVars

LEMMA UnixKept ==
    SettingsInv /\ PhaseInv /\ ParentInv /\ UnixInv /\ [Next]_vars => UnixInv'
<1> SUFFICES ASSUME SettingsInv, PhaseInv, ParentInv, UnixInv, [Next]_vars PROVE UnixInv'
  OBVIOUS
<1> USE DEF BeforeExec
<1>1. CASE fork
  <2>1. CASE UNCHANGED cpc
    <3>1. cpc' \notin BeforeExec
      BY <1>1, <2>1 DEF fork, PhaseInv
    <3> QED  BY <3>1 DEF UnixInv
  <2>2. CASE pc' = "handshake" /\ cpc' = "wire" /\ cfds' = fds /\ cstd' = [k \in Stdio |-> k]
    <3>1. pc = "fork" /\ UNCHANGED <<settings, pipes>>
      BY <1>1 DEF fork
    <3>2. HasEnds(fds, pipes, OpenEnds)
      BY <3>1, ParentHasEnds
    <3>3. OpenEnds = OpenEnds' \cup {File("w", FailPipe)}
      BY <2>2, <3>1 DEF OpenEnds, Open, PipeEnds, FailPipe, Bound, Pipes, Binds, redirected,
                        inherited, settings, File
    <3>4. HasEnds(cfds', pipes', OpenEnds' \cup {File("w", FailPipe)})
      BY <2>2, <3>1, <3>2, <3>3
    <3> QED  BY <2>2, <3>4 DEF UnixInv, HasEnds, At
  <2> QED  BY <1>1, <2>1, <2>2 DEF fork
<1>2. CASE configure \/ Parent
  <2>1. CASE cpc' = cpc
    BY <1>2, <2>1, ParentWaits DEF UnixInv
  <2> QED  BY <1>1, <1>2, <2>1, ParentWaits
<1>4. CASE UnixChild \/ ChildKilled
  <2>1. UNCHANGED <<settings, inheritable, fds, pipes, info, pc, cstd>>
    BY <1>4, ChildSteps
  <2>2. CASE child_wires
    <3>1. Wired(cfds')
      BY <2>2, WiresStreams
    <3>2. Wired(cfds)'
      BY <2>1, <3>1 DEF Wired, Promised, FailFd, settings
    <3>3. cpc = "wire" /\ cpc' = "chdir"
      BY <2>2 DEF child_wires
    <3> QED  BY <2>1, <3>2, <3>3 DEF UnixInv
  <2>3. CASE Stays
    <3>1. Wired(cfds) /\ cfds' = cfds
      BY <2>3 DEF Stays, UnixInv
    <3>2. Wired(cfds)'
      BY <2>1, <3>1 DEF Wired, Promised, FailFd, settings
    <3> QED  BY <2>1, <2>3, <3>2 DEF UnixInv, Stays
  <2>4. CASE DiesEarly \/ Execs
    <3>1. cpc' \notin BeforeExec
      BY <2>4 DEF DiesEarly, Dies, Execs
    <3> QED  BY <3>1 DEF UnixInv
  <2> QED  BY <1>4, ChildSteps, <2>2, <2>3, <2>4
<1>5. CASE UNCHANGED vars
  <2>1. UNCHANGED <<settings, pipes, pc, cfds, cpc, cstd>>
    BY <1>5 DEF vars, childVars
  <2>2. OpenEnds' = OpenEnds
    BY <2>1 DEF OpenEnds, Open, Bound, Pipes, Binds, redirected, inherited, settings
  <2>3. Wired(cfds)' = Wired(cfds)
    BY <2>1 DEF Wired, Promised, FailFd, settings
  <2>4. HasEnds(cfds, pipes, OpenEnds \cup {File("w", FailPipe)})'
            = HasEnds(cfds, pipes, OpenEnds \cup {File("w", FailPipe)})
    BY <2>1, <2>2 DEF HasEnds, At
  <2> QED  BY <2>1, <2>3, <2>4 DEF UnixInv
<1> QED  BY <1>2, <1>4, <1>5 DEF Next

-----------------------------------------------------------------------------
(* The handles of a Windows child.                                         *)

Wiring == {"impl", "wire_stdout", "wire_stderr", "create"}

\* What will be a stream of the child is no parent's end of a pipe.
LEMMA HandlesApart ==
    ASSUME SettingsInv, PhaseInv, ParentInv, pc \in Wiring
    PROVE  /\ HasEnds(fds, pipes, OpenEnds) /\ OpenEnds \subseteq PipeEnds
           /\ \A k \in Stdio : Bound(k)
           /\ \A k \in Stdio : Pipes(k) => ParentEnd(k) \in Fds \ (Stdio \cup UserFds)
           /\ \A k \in Stdio : Binds(k) =>
                 /\ ChildEnd(k) \in Fds /\ fds[ChildEnd(k)] = Promised(k)
                 /\ redirected(k) => ChildEnd(k) \in UserFds
                 /\ \A j \in Stdio : Pipes(j) => ChildEnd(k) # ParentEnd(j)
<1>1. HasEnds(fds, pipes, OpenEnds) /\ OpenEnds \subseteq PipeEnds
  BY ParentHasEnds, OpenEndsType DEF Wiring
<1>2. \A k \in Stdio : Bound(k)
  BY DEF Bound, Wiring
<1>3. \A k \in Stdio : Pipes(k) => File("r", k) \in OpenEnds /\ File("w", k) \in OpenEnds
  BY PipesOpen DEF Wiring
<1>4. ASSUME NEW j \in Stdio, Pipes(j)
      PROVE  /\ ParentEnd(j) \in Fds \ (Stdio \cup UserFds)
             /\ fds[ParentEnd(j)] = File(ParentSide(j), j)
  <2>1. ParentEnd(j) \in Fds \ Stdio /\ fds[ParentEnd(j)] = File(ParentSide(j), j)
    BY <1>1, <1>3, <1>4, OwnFiles, SideOf
  <2>2. \A fd \in UserFds : fds[fd] = File("user", fd)
    BY <1>1, OwnFiles
  <2>3. \A n, m : File("user", n) # File("r", m) /\ File("user", n) # File("w", m)
    BY DEF File
  <2> QED  BY <2>1, <2>2, <2>3, SideOf
<1>5. ASSUME NEW k \in Stdio, Binds(k)
      PROVE  /\ ChildEnd(k) \in Fds /\ fds[ChildEnd(k)] = Promised(k)
             /\ redirected(k) => ChildEnd(k) \in UserFds
             /\ \A j \in Stdio : Pipes(j) => ChildEnd(k) # ParentEnd(j)
  <2>1. /\ ChildEnd(k) \in Fds /\ fds[ChildEnd(k)] = Promised(k)
        /\ Promised(k) = IF redirected(k) THEN File("user", startup.target[k])
                                          ELSE File(ChildSide(k), k)
        /\ redirected(k) => ChildEnd(k) \in UserFds
    BY <1>1, <1>3, <1>5, ChildEnds DEF Wiring
  <2>2. ASSUME NEW j \in Stdio, Pipes(j)
        PROVE  Promised(k) # File(ParentSide(j), j)
    BY <2>1 DEF File, ChildSide, ParentSide
  <2> QED  BY <2>1, <2>2, <1>4
<1> QED  BY <1>1, <1>2, <1>4, <1>5

\* Making pipes keeps track of their handles.
LEMMA BindHandles ==
    ASSUME SettingsInv, PhaseInv, ParentInv, Win32Inv, platform = "win32",
           NEW k \in Stdio, bind(k)
    PROVE  Win32Inv'
<1>k. k \in {0, 1, 2}
  BY DEF Stdio
<1>pc. /\ pc = BindAt[k] /\ pc \in {"bind_stdin", "bind_stdout", "bind_stderr"}
       /\ child = "none" /\ pc' \in {BindAt[k + 1], "threw"} /\ pc' # "done"
       /\ pc \in Childless \ {"rollback", "threw"}
  BY <1>k DEF bind, redirect_or_pipe, BindAt, PhaseInv, Childless
<1>set. UNCHANGED <<settings, cstd>> /\ platform' = "win32"
  BY DEF bind, childVars, settings
<1>ends. HasEnds(fds, pipes, OpenEnds) /\ OpenEnds \subseteq PipeEnds
  BY <1>pc, ParentHasEnds, OpenEndsType
<1>open. \A f \in OpenEnds : f.n \in Stdio \ {k}
  BY <1>pc, <1>k DEF OpenEnds, Open, PipeEnds, FailPipe, Bound, BindAt, Stdio
<1>handled. \A j \in Stdio : ~Handled(j)'
  BY <1>pc, <1>k DEF Handled, BindAt
<1>bound. \A j \in Stdio : Bound(j)' => Bound(j) \/ (j = k /\ pc' = BindAt[k + 1])
  BY <1>pc, <1>k DEF Bound, BindAt, Stdio
<1>before. \A j \in Stdio : Bound(j) => j # k
  BY <1>pc, <1>k DEF Bound, BindAt, Stdio
<1>pipes. \A j \in Stdio : Pipes(j)' = Pipes(j)
  BY <1>set DEF Pipes, Binds, redirected, inherited, settings
<1>old. /\ inheritable \subseteq Fds /\ cstd \in [Stdio -> Int]
        /\ \A h \in inheritable : h \in Stdio \cup UserFds
                                  \/ \E f \in OpenEnds : h = At(pipes, f)
        /\ \A j \in Stdio : Bound(j) /\ Pipes(j) => ChildEnd(j) \in inheritable
  BY <1>pc DEF Win32Inv
<1>1. CASE pc' = "threw" /\ UNCHANGED inheritable
  BY <1>1, <1>handled, <1>set, <1>old DEF Win32Inv
<1>2. CASE ~Pipes(k) /\ pc' = BindAt[k + 1] /\ UNCHANGED <<fds, inheritable>>
           /\ \A j \in Stdio \ {k} : pipes'[j] = pipes[j]
  <2>1. OpenEnds' = OpenEnds
    BY <1>2, <1>k, <1>pc, <1>set
       DEF OpenEnds, Open, PipeEnds, FailPipe, Bound, BindAt, Pipes, Binds, redirected,
           inherited, settings
  <2>2. \A f \in OpenEnds : At(pipes', f) = At(pipes, f)
    BY <1>2, <1>open DEF At
  <2>3. \A h \in inheritable' : h \in Stdio \cup UserFds
                                \/ \E f \in OpenEnds' : h = At(pipes', f)
    BY <1>2, <1>old, <2>1, <2>2
  <2>4. \A j \in Stdio : Bound(j)' /\ Pipes(j)' => ChildEnd(j)' \in inheritable'
    BY <1>2, <1>old, <1>bound, <1>before, <1>pipes DEF ChildEnd
  <2> QED  BY <1>2, <1>handled, <1>set, <1>old, <2>3, <2>4 DEF Win32Inv
<1>3. CASE Pipes(k) /\ create_pipe(k) /\ pc' = BindAt[k + 1]
  <2> DEFINE r == Min(FreeFds(fds))
             w == Min(FreeFds(fds) \ {r})
  <2>1. /\ r \in Fds /\ w \in Fds
        /\ pipes' = [pipes EXCEPT ![k] = [r |-> r, w |-> w]]
        /\ inheritable' = inheritable \cup {r, w}
    BY <1>3, TwoFree DEF create_pipe
  <2> HIDE DEF r, w
  <2>2. OpenEnds' = OpenEnds \cup {File("r", k), File("w", k)}
    BY <1>3, <1>k, <1>pc, <1>set
       DEF OpenEnds, Open, PipeEnds, FailPipe, Bound, BindAt, Pipes, Binds, redirected,
           inherited, settings, File
  <2>3. /\ \A j \in Stdio \ {k} : pipes'[j] = pipes[j]
        /\ pipes'[k] = [r |-> r, w |-> w]
    BY <2>1, <1>k DEF ParentInv, Stdio
  <2>4. \A f \in OpenEnds : At(pipes', f) = At(pipes, f)
    BY <2>3, <1>open DEF At
  <2>5. At(pipes', File("r", k)) = r /\ At(pipes', File("w", k)) = w
    BY <2>3 DEF At, File
  <2>6. \A h \in inheritable' : h \in Stdio \cup UserFds
                                \/ \E f \in OpenEnds' : h = At(pipes', f)
    <3>1. ASSUME NEW h \in inheritable, NEW f \in OpenEnds, h = At(pipes, f)
          PROVE  \E g \in OpenEnds' : h = At(pipes', g)
      BY <3>1, <2>2, <2>4
    <3>2. ASSUME NEW h \in {r, w}
          PROVE  \E g \in OpenEnds' : h = At(pipes', g)
      BY <2>2, <2>5
    <3> QED  BY <1>old, <2>1, <3>1, <3>2
  <2>7. \A j \in Stdio : Bound(j)' /\ Pipes(j)' => ChildEnd(j)' \in inheritable'
    BY <1>old, <1>bound, <1>before, <1>pipes, <2>1, <2>3 DEF ChildEnd
  <2>8. inheritable' \subseteq Fds
    BY <2>1, <1>old
  <2> QED  BY <1>handled, <1>set, <1>old, <2>6, <2>7, <2>8 DEF Win32Inv
<1>4. ASSUME pipes' = [pipes EXCEPT ![k] = [r |-> startup.target[k], w |-> startup.target[k]]]
      PROVE  \A j \in Stdio \ {k} : pipes'[j] = pipes[j]
  BY <1>4 DEF ParentInv, Stdio
<1> QED  BY <1>1, <1>2, <1>3, <1>4 DEF bind, redirect_or_pipe, Pipes

\* Wiring a stream gives the child its handle and takes away the parent's.
LEMMA WireHandles ==
    ASSUME SettingsInv, PhaseInv, ParentInv, Win32Inv, platform = "win32",
           NEW k \in Stdio, wire(k)
    PROVE  Win32Inv'
<1>k. k \in {0, 1, 2}
  BY DEF Stdio
<1>pc. pc = WireAt[k] /\ pc \in {"impl", "wire_stdout", "wire_stderr"}
       /\ UNCHANGED <<settings, pipes>> /\ platform' = "win32" /\ pc \in Wiring
  BY <1>k DEF wire, WireAt, settings, Wiring
<1>apart. /\ \A j \in Stdio : Bound(j)
          /\ \A j \in Stdio : Pipes(j) => ParentEnd(j) \in Fds \ (Stdio \cup UserFds)
          /\ \A i \in Stdio : Binds(i) =>
                /\ ChildEnd(i) \in Fds
                /\ redirected(i) => ChildEnd(i) \in UserFds
                /\ \A j \in Stdio : Pipes(j) => ChildEnd(i) # ParentEnd(j)
  BY <1>pc, HandlesApart
<1>old. /\ inheritable \subseteq Fds /\ cstd \in [Stdio -> Int]
        /\ \A h \in inheritable : h \in Stdio \cup UserFds
                                  \/ \E f \in OpenEnds : h = At(pipes, f)
        /\ \A j \in Stdio : Pipes(j) => ChildEnd(j) \in inheritable
        /\ \A j \in Stdio : Handled(j) => cstd[j] = StdHandle(j) /\ cstd[j] \in inheritable
        /\ \A j \in Stdio : Handled(j) /\ Pipes(j) => ParentEnd(j) \notin inheritable
  BY <1>pc, <1>apart DEF Win32Inv, Childless
<1>1. CASE pc' = "rollback" /\ UNCHANGED <<cstd, inheritable>>
  <2>1. \A j \in Stdio : ~Handled(j)'
    BY <1>1 DEF Handled
  <2> QED  BY <1>1, <1>pc, <1>old, <2>1 DEF Win32Inv
<1>2. CASE /\ cstd' = [cstd EXCEPT ![k] = StdHandle(k)] /\ inheritable' = WithFlag(k)
           /\ pc' = WireAt[k + 1]
  <2> DEFINE merged == k = 2 /\ startup.merge
  <2>0. \A j \in Stdio : /\ Pipes(j)' = Pipes(j) /\ ParentEnd(j)' = ParentEnd(j)
                         /\ ChildEnd(j)' = ChildEnd(j)
    BY <1>pc DEF Pipes, Binds, redirected, inherited, settings, ParentEnd, ChildEnd
  <2>1. /\ \A j \in Stdio : Handled(j)' <=> Handled(j) \/ j = k
        /\ \A j \in Stdio : Handled(j) => j < k
        /\ merged => Handled(1)
        /\ pc' # "done" /\ pc' \in Wiring
    BY <1>2, <1>k, <1>pc DEF Handled, WireAt, Stdio, Wiring
  <2>2. OpenEnds' = OpenEnds
    <3>1. \A j \in Stdio : Bound(j)'
      BY <2>1 DEF Bound, Wiring
    <3>2. \A f \in PipeEnds : f.n = FailPipe \/ f.n \in Stdio
      BY DEF PipeEnds, FailPipe, Stdio
    <3>3. \A f \in PipeEnds : Open(f)' <=> Open(f)
      BY <3>1, <3>2, <2>0, <2>1, <1>pc, <1>apart DEF Open, Wiring
    <3> QED  BY <3>3 DEF OpenEnds
  <2>3. ~merged /\ ~inherited(k) => Binds(k) /\ (~redirected(k) => Pipes(k))
    BY DEF Binds, Pipes
  \* Nothing is removed but the parent's end, nothing added but the user's.
  <2>4. \A h : h \in inheritable' =>
          \/ h \in inheritable /\ (~merged /\ Pipes(k) => h # ParentEnd(k))
          \/ h \in Stdio \cup UserFds
    BY <1>2, <1>apart, <2>3 DEF WithFlag, Pipes, Binds
  <2>5. \A h \in inheritable : (Pipes(k) /\ h = ParentEnd(k)) \/ h \in inheritable'
    BY <1>2, <2>3 DEF WithFlag
  <2>6. inheritable' \subseteq Fds
    BY <2>4, <1>old, FdFacts
  <2>7. \A h \in inheritable' : h \in Stdio \cup UserFds
                                \/ \E f \in OpenEnds' : h = At(pipes', f)
    BY <2>2, <2>4, <1>old, <1>pc
  <2>8. \A j \in Stdio : Pipes(j) => ChildEnd(j) \in inheritable'
    BY <2>5, <1>old, <1>apart DEF Pipes
  <2>9. \A j \in Stdio : Handled(j)' /\ Pipes(j) => ParentEnd(j) \notin inheritable'
    <3>1. ASSUME NEW j \in Stdio, Handled(j), Pipes(j)
          PROVE  ParentEnd(j) \notin inheritable'
      BY <3>1, <2>4, <1>old, <1>apart
    <3>2. ASSUME Pipes(k) PROVE ParentEnd(k) \notin inheritable'
      BY <3>2, <2>4, <1>apart DEF Pipes, Binds
    <3> QED  BY <3>1, <3>2, <2>1
  <2>10. StdHandle(k) \in inheritable' /\ StdHandle(k) \in Int
    <3>1. CASE merged
      <4>1. StdHandle(k) = cstd[1] /\ inheritable' = inheritable /\ 1 \in Stdio
        BY <3>1, <1>2 DEF StdHandle, WithFlag, Stdio
      <4> QED  BY <4>1, <2>1, <3>1, <1>old
    <3>2. CASE ~merged /\ inherited(k)
      BY <3>2, <1>2 DEF StdHandle, WithFlag, Stdio
    <3>3. CASE ~merged /\ ~inherited(k)
      <4>1. StdHandle(k) = ChildEnd(k) /\ Binds(k)
        BY <3>3, <2>3 DEF StdHandle
      <4>2. ChildEnd(k) \in Int
        <5>1. ChildEnd(k) \in Fds
          BY <4>1, <1>apart
        <5>2. \A fd \in Fds : fd \in Int
          BY SpawnAssumption DEF Fds
        <5> QED  BY <5>1, <5>2
      <4>3. CASE redirected(k)
        BY <3>3, <4>1, <4>2, <4>3, <1>2 DEF WithFlag
      <4>4. CASE ~redirected(k)
        BY <3>3, <4>1, <4>2, <4>4, <2>3, <2>8
      <4> QED  BY <4>3, <4>4
    <3> QED  BY <3>1, <3>2, <3>3
  <2>11. cstd' \in [Stdio -> Int] /\ cstd'[k] = StdHandle(k)
         /\ \A j \in Stdio \ {k} : cstd'[j] = cstd[j]
    BY <1>2, <1>old, <2>10
  <2>12. ASSUME NEW j \in Stdio, Handled(j)'
         PROVE  cstd'[j] = StdHandle(j)' /\ cstd'[j] \in inheritable'
    <3>0. merged => 1 \in Stdio \ {k}
      BY DEF Stdio
    <3>1. CASE j = k
      <4>1. StdHandle(k)' = StdHandle(k)
        BY <2>0, <2>11, <3>0, <1>pc DEF StdHandle, inherited, settings
      <4> QED  BY <3>1, <4>1, <2>10, <2>11
    <3>2. CASE Handled(j)
      <4>1. j < k /\ j # k /\ j # 2 /\ cstd'[j] = cstd[j]
        BY <3>2, <2>1, <2>11, <1>k
      <4>2. StdHandle(j)' = StdHandle(j)
        BY <4>1, <2>0, <1>pc DEF StdHandle, inherited, settings
      <4>3. cstd[j] = StdHandle(j) /\ cstd[j] \in inheritable
        BY <3>2, <1>old
      <4>4. StdHandle(j) \in Stdio \/ (Binds(j) /\ StdHandle(j) = ChildEnd(j))
        BY <4>1 DEF StdHandle, Binds
      <4>5. Pipes(k) => StdHandle(j) # ParentEnd(k)
        BY <4>4, <1>apart
      <4> QED  BY <4>1, <4>2, <4>3, <4>5, <2>5
    <3> QED  BY <2>12, <3>1, <3>2, <2>1
  <2> QED
    BY <2>0, <2>1, <2>6, <2>7, <2>8, <2>9, <2>11, <2>12, <1>pc DEF Win32Inv
<1> QED  BY <1>1, <1>2 DEF wire

LEMMA Win32Kept ==
    SettingsInv /\ PhaseInv /\ ParentInv /\ Win32Inv /\ [Next]_vars => Win32Inv'
<1> SUFFICES ASSUME SettingsInv, PhaseInv, ParentInv, Win32Inv, [Next]_vars PROVE Win32Inv'
  OBVIOUS
<1>p. platform' = platform
  <2>1. configure \/ start => platform' = platform
    BY DEF configure, start
  <2>2. UNCHANGED settings => platform' = platform
    BY DEF settings
  <2>3. UNCHANGED vars => UNCHANGED settings
    BY DEF vars
  <2> QED  BY <2>1, <2>2, <2>3, SettingsSteps
<1> SUFFICES ASSUME platform = "win32" PROVE Win32Inv'
  BY <1>p DEF Win32Inv
<1>0. ~UnixParent
  BY DEF PhaseInv, UnixParent, open_fail_pipe, fork, read_errno, reap_failed, started
<1>1. CASE configure \/ start
  <2>1. /\ pc = "build" /\ pc' \in {"build", "bind_stdin", "threw"}
        /\ UNCHANGED <<pipes, inheritable, cstd, platform>>
    BY <1>1 DEF configure, start, childVars
  <2>2. OpenEnds = {} /\ \A j \in Stdio : ~Handled(j)' /\ ~Bound(j)'
    BY <2>1 DEF OpenEnds, Open, PipeEnds, FailPipe, Bound, Handled, Stdio
  <2> QED  BY <2>1, <2>2 DEF Win32Inv, Childless
<1>2. CASE rollback \/ close_process
  <2>1. /\ pc' \in {"threw", "closed"} /\ UNCHANGED <<inheritable, cstd, platform>>
    BY <1>2 DEF rollback, close_process, childVars, settings
  <2>2. \A j \in Stdio : ~Handled(j)'
    BY <2>1 DEF Handled
  <2> QED  BY <2>1, <2>2 DEF Win32Inv, Childless
<1>3. CASE CreateProcess
  <2>1. /\ pc = "create" /\ pc' \in {"rollback", "done"}
        /\ UNCHANGED <<inheritable, cstd, pipes, settings>> /\ platform' = platform
    BY <1>3 DEF CreateProcess, keep_parent_ends, settings
  <2>2. \A j \in Stdio : Handled(j) /\ (Handled(j)' => pc' = "done")
    BY <2>1 DEF Handled
  <2>3. \A j \in Stdio : Pipes(j)' = Pipes(j) /\ ParentEnd(j)' = ParentEnd(j)
    BY <2>1 DEF Pipes, Binds, redirected, inherited, settings, ParentEnd
  <2> QED  BY <2>1, <2>2, <2>3 DEF Win32Inv, Childless
<1>4. CASE UnixChild \/ ChildKilled \/ UNCHANGED vars
  <2>1. UNCHANGED <<settings, inheritable, pipes, pc, cstd>> /\ platform' = platform
    BY <1>4, ChildSteps DEF vars, settings, childVars
  <2>2. OpenEnds' = OpenEnds
    BY <2>1 DEF OpenEnds, Open, Bound, Pipes, Binds, redirected, inherited, settings
  <2>3. \A j \in Stdio : /\ Pipes(j)' = Pipes(j) /\ ParentEnd(j)' = ParentEnd(j)
                         /\ ChildEnd(j)' = ChildEnd(j) /\ StdHandle(j)' = StdHandle(j)
                         /\ Handled(j)' = Handled(j) /\ Bound(j)' = Bound(j)
    BY <2>1 DEF Pipes, Binds, redirected, inherited, settings, ParentEnd, ChildEnd,
                StdHandle, Handled, Bound
  <2> QED  BY <2>1, <2>2, <2>3 DEF Win32Inv
<1> QED  BY <1>0, <1>1, <1>2, <1>3, <1>4, BindHandles, WireHandles
         DEF Next, Parent, create_process, Win32Parent

-----------------------------------------------------------------------------
(* The streams of a running program.                                       *)

\* exec: the fail pipe goes, and the streams are all that is left.
LEMMA ExecWiring ==
    ASSUME PhaseInv, UnixInv, Execs, UNCHANGED <<settings, cstd>>
    PROVE  ChildWiring'
<1>1. Wired(cfds) /\ cstd = [k \in Stdio |-> k] /\ platform = "unix"
  BY DEF Execs, UnixInv, PhaseInv, BeforeExec
<1>2. cfds' = [cfds EXCEPT ![FailFd] = Free] /\ FailFd \in Fds \ Stdio
  BY <1>1, FdFacts DEF Execs, close_fd, Wired
<1>3. \A k \in Stdio : cfds'[k] = Promised(k)
  BY <1>1, <1>2, FdFacts DEF Wired
<1>4. \A fd \in Fds \ Stdio : cfds'[fd] = Free
  BY <1>1, <1>2 DEF Wired
<1>5. \A k \in Stdio : cfds'[cstd'[k]] = Promised(k)' /\ cstd'[k] = k
  BY <1>1, <1>3 DEF Promised, settings
<1>6. NothingElseOpen'
  BY <1>4, <1>5 DEF NothingElseOpen
<1> QED  BY <1>5, <1>6 DEF ChildWiring

\* CreateProcess: the child gets the inheritable handles.
LEMMA CreateWiring ==
    ASSUME SettingsInv, PhaseInv, ParentInv, Win32Inv, CreateProcess,
           cfds' = [fd \in Fds |-> IF fd \in inheritable THEN fds[fd] ELSE Free]
    PROVE  ChildWiring'
<1>1. /\ platform = "win32" /\ pc = "create" /\ pc \in Wiring
      /\ UNCHANGED <<settings, cstd>> /\ platform' = "win32"
  BY DEF CreateProcess, settings, Wiring
<1>apart. /\ HasEnds(fds, pipes, OpenEnds) /\ OpenEnds \subseteq PipeEnds
          /\ \A k \in Stdio : Binds(k) => fds[ChildEnd(k)] = Promised(k)
  BY <1>1, HandlesApart
<1>own. /\ \A fd \in Stdio : fds[fd] = File("std", fd)
        /\ \A fd \in UserFds : fds[fd] = File("user", fd)
  BY <1>apart, OwnFiles
<1>old. /\ inheritable \subseteq Fds
        /\ \A h \in inheritable : h \in Stdio \cup UserFds
                                  \/ \E f \in OpenEnds : h = At(pipes, f)
        /\ \A k \in Stdio : cstd[k] = StdHandle(k) /\ cstd[k] \in inheritable
        /\ \A k \in Stdio : Pipes(k) => ParentEnd(k) \notin inheritable
  BY <1>1 DEF Win32Inv, Childless, Handled
<1>2. ASSUME NEW k \in Stdio, ~(k = 2 /\ startup.merge)
      PROVE  fds[cstd[k]] = Promised(k)
  <2>1. CASE inherited(k)
    <3>1. Promised(k) = File("std", k) /\ cstd[k] = k
      BY <1>2, <2>1, <1>old, ParentTableType DEF Promised, inherited, StdHandle
    <3> QED  BY <3>1, <1>own
  <2>2. CASE ~inherited(k)
    <3>1. Binds(k) /\ cstd[k] = ChildEnd(k)
      BY <1>2, <2>2, <1>old DEF Binds, StdHandle
    <3> QED  BY <3>1, <1>apart
  <2> QED  BY <2>1, <2>2
<1>3. startup.merge => cstd[2] = cstd[1] /\ Promised(2) = Promised(1)
  BY <1>old DEF StdHandle, Promised, Stdio
<1>4. \A k \in Stdio : fds[cstd[k]] = Promised(k)
  <2>1. 1 \in Stdio /\ 2 \in Stdio
    BY DEF Stdio
  <2> QED  BY <1>2, <1>3, <2>1
<1>5. \A k \in Stdio : cfds'[cstd'[k]] = Promised(k)'
  <2>1. \A k \in Stdio : Promised(k)' = Promised(k)
    BY <1>1 DEF Promised, settings
  <2> QED  BY <2>1, <1>1, <1>4, <1>old
\* An inheritable end of a pipe is the child's, and one of its streams.
<1>6. ASSUME NEW h \in inheritable, NEW f \in OpenEnds, h = At(pipes, f)
      PROVE  \E k \in Stdio : cstd[k] = h
  <2>1. f.n \in Stdio /\ Pipes(f.n) /\ f = File(f.is, f.n) /\ f.is \in {"r", "w"}
    BY <1>1, <1>apart, PipesOpen DEF PipeEnds, File
  <2>2. f.is = ChildSide(f.n)
    BY <2>1, <1>6, <1>old, SideOf
  <2>3. h = ChildEnd(f.n)
    BY <2>1, <2>2, <1>6, SideOf
  <2>4. StdHandle(f.n) = ChildEnd(f.n)
    BY <2>1 DEF StdHandle, Pipes, Binds
  <2> QED  BY <2>1, <2>3, <2>4, <1>old
<1>7. NothingElseOpen'
  <2>1. ASSUME NEW fd \in Fds, cfds'[fd] # Free
        PROVE  (\E k \in Stdio : cstd[k] = fd) \/ cfds'[fd].is \in {"std", "user"}
    <3>1. fd \in inheritable /\ cfds'[fd] = fds[fd]
      BY <2>1
    <3>2. CASE fd \in Stdio \cup UserFds
      <4>1. fds[fd] = File("std", fd) \/ fds[fd] = File("user", fd)
        BY <3>2, <1>own
      <4>2. File("std", fd).is = "std" /\ File("user", fd).is = "user"
        BY DEF File
      <4> QED  BY <3>1, <4>1, <4>2
    <3>3. CASE \E f \in OpenEnds : fd = At(pipes, f)
      BY <3>1, <3>3, <1>6
    <3> QED  BY <3>1, <3>2, <3>3, <1>old
  <2> QED  BY <2>1, <1>1 DEF NothingElseOpen
<1> QED  BY <1>5, <1>7 DEF ChildWiring

LEMMA WiringKept == IInv /\ [Next]_vars => ChildWiring'
<1> SUFFICES ASSUME IInv, [Next]_vars PROVE ChildWiring'
  OBVIOUS
<1> USE DEF IInv
<1>1. ASSUME image' = image, child' = "running" => child = "running",
             child = "running" /\ image # NoImage =>
                UNCHANGED <<cfds, cstd, platform, startup>>
      PROVE  ChildWiring'
  BY <1>1 DEF ChildWiring, NothingElseOpen, Promised
<1>2. CASE CreateProcess
  <2>1. CASE UNCHANGED <<fds, info, cfds, child, image>>
    <3>1. UNCHANGED <<cstd, platform, startup>>
      BY <1>2 DEF CreateProcess, settings
    <3> QED  BY <2>1, <3>1, <1>1
  <2>2. CASE cfds' = [fd \in Fds |-> IF fd \in inheritable THEN fds[fd] ELSE Free]
    BY <1>2, <2>2, CreateWiring
  <2> QED  BY <1>2, <2>1, <2>2 DEF CreateProcess
<1>3. CASE fork
  <2>1. child = "none" /\ image = NoImage /\ image' = image
    BY <1>3 DEF fork, PhaseInv
  <2> QED  BY <2>1 DEF ChildWiring
<1>4. CASE configure \/ start
  <2>1. child = "none" /\ UNCHANGED <<child, image>>
    BY <1>4 DEF configure, start, childVars, PhaseInv
  <2> QED  BY <2>1, <1>1
<1>5. ASSUME NEW k \in Stdio, wire(k)
      PROVE  ChildWiring'
  <2>1. pc \in {"impl", "wire_stdout", "wire_stderr"}
    BY <1>5 DEF wire, WireAt, Stdio
  <2>2. child = "none" /\ UNCHANGED <<child, image>>
    BY <1>5, <2>1 DEF wire, PhaseInv
  <2> QED  BY <2>2, <1>1
<1>6. CASE UnixChild \/ ChildKilled
  <2>1. UNCHANGED <<settings, cstd>>
    BY <1>6, ChildSteps
  <2>2. CASE Execs
    BY <2>1, <2>2, ExecWiring
  <2>3. CASE child_wires \/ Stays
    <3>1. image' = NoImage
      BY <2>3 DEF child_wires, Stays, PhaseInv, BeforeExec
    <3> QED  BY <3>1 DEF ChildWiring
  <2>4. CASE DiesEarly
    <3>1. child' = "zombie"
      BY <2>4 DEF DiesEarly, Dies
    <3> QED  BY <3>1 DEF ChildWiring
  <2> QED  BY <1>6, <2>2, <2>3, <2>4, ChildSteps
<1>7. CASE UNCHANGED <<settings, childVars>>
  BY <1>7, <1>1 DEF settings, childVars
<1>8. ASSUME NEW k \in Stdio, bind(k)
      PROVE  ChildWiring'
  BY <1>8, <1>7 DEF bind
<1>9. CASE rollback \/ close_process \/ open_fail_pipe \/ read_errno \/ started
  BY <1>9, <1>7 DEF rollback, close_process, open_fail_pipe, read_errno, started
<1>10. CASE reap_failed
  BY <1>10 DEF reap_failed, ChildWiring
<1>11. CASE UNCHANGED vars
  BY <1>11, <1>7 DEF vars
<1> QED  BY <1>2, <1>3, <1>4, <1>5, <1>6, <1>8, <1>9, <1>10, <1>11
         DEF Next, Parent, create_process, UnixParent, Win32Parent

-----------------------------------------------------------------------------
(* The invariant and what follows from it.                                 *)

LEMMA InitInv == Init => IInv
<1> SUFFICES ASSUME Init PROVE IInv
  OBVIOUS
<1>1. SettingsInv
  BY DefaultSettings, CasesAssumption DEF Init, SettingsInv
<1>2. PhaseInv
  BY CasesAssumption DEF Init, PhaseInv, Childless, BeforeExec
<1>3. OpenEnds = {} /\ \A k \in Stdio : ~Bound(k) /\ ~Handled(k)
  BY DEF Init, OpenEnds, Open, PipeEnds, FailPipe, Bound, Handled, Stdio
<1>4. ParentInv
  <2>1. ParentTable \in [Fds -> Files]
    BY ParentTableType DEF Files
  <2>2. HasEnds(fds, pipes, {})
    BY <2>1 DEF Init, HasEnds
  <2>3. pipes \in [0..3 -> [r : Int, w : Int]]
    BY DEF Init, NoPipe, FD_INVALID
  <2> QED  BY <1>3, <2>2, <2>3 DEF Init, ParentInv
<1>5. UnixInv
  BY DEF Init, UnixInv, BeforeExec
<1>6. Win32Inv
  <2>1. inheritable \subseteq Stdio \cup UserFds
    BY CasesAssumption DEF Init
  <2>2. cstd \in [Stdio -> Int]
    BY DEF Init, FD_INVALID
  <2> QED  BY <1>3, <2>1, <2>2, FdFacts DEF Win32Inv
<1>7. ChildWiring
  BY DEF Init, ChildWiring
<1> QED  BY <1>1, <1>2, <1>4, <1>5, <1>6, <1>7 DEF IInv

LEMMA NextInv == IInv /\ [Next]_vars => IInv'
BY SettingsKept, PhasesKept, ParentKept, UnixKept, Win32Kept, WiringKept DEF IInv

LEMMA Invariance == Spec => []IInv
BY InitInv, NextInv, PTL DEF Spec

\* create_process() either throws, and then no end of a pipe is left in the
\* parent, or its process is closed in the end, and then none is left either:
\* whatever step fails, in whatever table of descriptors it started.
THEOREM NothingLeaks == Spec => []NoLeak
<1>1. IInv => NoLeak
  <2> SUFFICES ASSUME IInv, pc \in {"threw", "closed"}, NEW fd \in Fds
               PROVE  fds[fd].is \notin {"r", "w"}
    BY DEF NoLeak
  <2>1. OpenEnds = {}
    BY DEF OpenEnds, Open, PipeEnds, FailPipe, Bound
  <2>2. fds[fd] = Free \/ fds[fd] = ParentTable[fd]
    BY <2>1 DEF IInv, ParentInv, HasEnds
  <2>3. ParentTable[fd].is \notin {"r", "w"} /\ Free.is \notin {"r", "w"}
    BY ParentTableType DEF Free, File
  <2> QED  BY <2>2, <2>3
<1> QED  BY <1>1, Invariance, PTL

\* The parent keeps its own end of every pipe and no other, so that it sees
\* the end of the child's output and the child the end of its input.
THEOREM ParentKeepsItsEnds == Spec => []ParentHoldsItsEnds
<1>1. IInv => ParentHoldsItsEnds
  <2> SUFFICES ASSUME IInv, pc = "done" PROVE ParentHoldsItsEnds
    BY DEF ParentHoldsItsEnds
  <2>1. HasEnds(fds, pipes, OpenEnds)
    BY ParentHasEnds DEF IInv
  <2>2. info = [k \in Stdio |-> IF Pipes(k) THEN ParentEnd(k) ELSE FD_INVALID]
    BY DEF IInv, ParentInv
  <2>3. \A k \in Stdio : ~Bound(k) /\ k # FailPipe
    BY DEF Bound, Stdio, FailPipe
  <2>4. ASSUME NEW f \in OpenEnds
        PROVE  f.n \in Stdio /\ Pipes(f.n) /\ f = File(ParentSide(f.n), f.n)
    <3>1. f \in PipeEnds /\ Open(f) /\ f = File(f.is, f.n)
      BY FreeIsNoEnd DEF OpenEnds
    <3>2. f.n # FailPipe
      BY <3>1 DEF Open
    <3>3. f.n \in Stdio
      BY <3>1, <3>2 DEF PipeEnds, Stdio, FailPipe
    <3> QED  BY <3>1, <3>2, <3>3, <2>3 DEF Open
  <2>5. ASSUME NEW k \in Stdio, Pipes(k)
        PROVE  File(ParentSide(k), k) \in OpenEnds
    BY <2>3, <2>5 DEF OpenEnds, Open, PipeEnds, File, Stdio, ParentSide
  <2>6. ASSUME NEW fd \in Fds, fds[fd].is \in {"r", "w"}
        PROVE  \E k \in Stdio : info[k] = fd /\ fds[fd].n = k
    <3>1. fds[fd] \in OpenEnds /\ At(pipes, fds[fd]) = fd
      BY <2>1, <2>6, ParentTableType DEF HasEnds
    <3>2. At(pipes, fds[fd]) = ParentEnd(fds[fd].n)
      BY <3>1, <2>4, SideOf
    <3> QED  BY <3>1, <3>2, <2>2, <2>4
  <2>7. ASSUME NEW k \in Stdio, info[k] # FD_INVALID
        PROVE  fds[info[k]] = File(IF k = 0 THEN "w" ELSE "r", k)
    <3>1. Pipes(k) /\ info[k] = ParentEnd(k)
      BY <2>2, <2>7
    <3>2. fds[ParentEnd(k)] = File(ParentSide(k), k)
      BY <3>1, <2>1, <2>5, SideOf DEF HasEnds
    <3> QED  BY <3>1, <3>2 DEF ParentSide
  <2> QED  BY <2>6, <2>7 DEF ParentHoldsItsEnds
<1> QED  BY <1>1, Invariance, PTL

\* From the fork on nothing that was the user's is closed: not its streams,
\* not the files it redirects to, not the ends of earlier processes.
THEOREM TargetsSurvive == Spec => []TargetsSurviveFork
<1>1. IInv => TargetsSurviveFork
  <2> SUFFICES ASSUME IInv, child # "none", NEW fd \in Fds, ParentTable[fd] # Free
               PROVE  fds[fd] = ParentTable[fd]
    BY DEF TargetsSurviveFork, UserTargetsStayOpen
  <2> QED  BY ParentHasEnds DEF IInv, HasEnds
<1> QED  BY <1>1, Invariance, PTL

\* On Windows no end the parent keeps is inheritable, so no later child
\* holds it open.
THEOREM EndsArePrivate == Spec => []ParentEndsPrivate
<1>1. IInv => ParentEndsPrivate
  <2> SUFFICES ASSUME IInv, pc = "done", platform = "win32", NEW k \in Stdio
               PROVE  info[k] \notin inheritable
    BY DEF ParentEndsPrivate
  <2>1. inheritable \subseteq Fds /\ (Pipes(k) => ParentEnd(k) \notin inheritable)
    BY DEF IInv, Win32Inv, Handled
  <2>2. info[k] = IF Pipes(k) THEN ParentEnd(k) ELSE FD_INVALID
    BY DEF IInv, ParentInv
  <2> QED  BY <2>1, <2>2, FdFacts
<1> QED  BY <1>1, Invariance, PTL

\* A child that failed before exec was waited for before the exception leaves
\* create_process(): it is reaped, or a signal interrupted the one waitpid, and
\* never is it left alone untried.
THEOREM FailedChildIsReaped == Spec => []FailureIsReaped
<1>1. IInv => FailureIsReaped
  BY DEF IInv, PhaseInv, FailureIsReaped
<1> QED  BY <1>1, Invariance, PTL

\* What a child writes into the fail pipe always reaches the caller: a
\* process is returned only if the program was executed, or the child died
\* without a word.
THEOREM FailuresAreReported == Spec => []FailuresReachTheCaller
<1>1. IInv => FailuresReachTheCaller
  BY DEF IInv, PhaseInv, FailuresReachTheCaller
<1> QED  BY <1>1, Invariance, PTL

\* On both platforms the running program has the streams its settings
\* promise and no end of a pipe besides.
THEOREM ChildIsWired == Spec => []ChildWiring
<1>1. IInv => ChildWiring
  BY DEF IInv
<1> QED  BY <1>1, Invariance, PTL

-----------------------------------------------------------------------------
(* The search of PATH.                                                     *)

Path == SearchPath(Program)

\* Every candidate up to the n-th let the search go on, and whether one of
\* them was denied.
PassedBy(n) == \A i \in 1..n : Outcome(Path[i]) \in GoOn
DeniedBy(n) == \E i \in 1..n : Outcome(Path[i]) = "EACCES"

\* SearchFindsTheFirst in these terms.
FoundFirst ==
    /\ image # NoImage /\ platform = "unix" =>
          \E n \in 1..Len(Path) :
             image.dir = Path[n] /\ Outcome(Path[n]) = "ok" /\ PassedBy(n - 1)
    /\ fail_msg \notin {NoErrno, "chdir", "fcntl", "ENOMEM"} /\ Program # <<>> =>
          IF PassedBy(Len(Path))
          THEN fail_msg = IF DeniedBy(Len(Path)) THEN "EACCES"
                          ELSE Errno(Outcome(Path[Len(Path)]))
          ELSE \E n \in 1..Len(Path) :
                 PassedBy(n - 1) /\ fail_msg = Outcome(Path[n]) /\ fail_msg \notin GoOn

\* Where the search is.
Searching ==
    cpc \in {"try", "sh", "next"} =>
        /\ Program # <<>>
        /\ exec.dir \in 1..Len(Path) /\ PassedBy(exec.dir - 1)
        /\ exec.sticky_errno = IF DeniedBy(exec.dir - 1) THEN "EACCES" ELSE NoErrno

SearchInv ==
    /\ world.path = NoWord \/ world.path \in Seq(STRING) \ {<<>>}
    /\ exec = [argv |-> exec.argv, dir |-> exec.dir, errno |-> exec.errno,
               sticky_errno |-> exec.sticky_errno]
    /\ Searching
    /\ cpc = "sh" => world.execve[Dir] = "ENOEXEC"
    /\ cpc = "next" => exec.errno = Outcome(Dir)
    /\ FoundFirst

LEMMA SearchMeaning == FoundFirst => SearchFindsTheFirst
BY DEF FoundFirst, SearchFindsTheFirst, Path, PassedBy, DeniedBy

\* There is a directory to look in.
LEMMA PathIsLong ==
    ASSUME SearchInv
    PROVE  Len(Path) \in Nat \ {0}
<1>1. CASE HasSlash(Program)
  <2>1. Path = <<Slash>>
    BY <1>1 DEF Path, SearchPath
  <2> QED  BY <2>1
<1>2. CASE ~HasSlash(Program)
  <2> DEFINE path == IF world.path # NoWord THEN world.path
                     ELSE IF UsesExecvp THEN libc_default_path ELSE default_path_env
  <2>1. Len(path) \in Nat \ {0}
    <3>1. Len(libc_default_path) = 2
      BY DEF libc_default_path
    <3>2. Len(default_path_env) = 3
      BY DEF default_path_env
    <3>3. world.path # NoWord => world.path \in Seq(STRING) /\ world.path # <<>>
      BY DEF SearchInv
    <3>4. world.path # NoWord => Len(world.path) \in Nat \ {0}
      BY <3>3
    <3> QED  BY <3>1, <3>2, <3>4
  <2>2. Path = [i \in 1..Len(path) |-> IF path[i] = "" THEN "." ELSE path[i]]
    BY <1>2 DEF Path, SearchPath, effective_pathv
  <2> HIDE DEF path
  <2>3. PICK n \in Nat \ {0} : n = Len(path)
    BY <2>1
  <2>4. PICK p \in [1..n -> {Path[i] : i \in 1..n}] : p = Path
    BY <2>2, <2>3
  <2>5. Len(p) = n
    OBVIOUS
  <2> QED  BY <2>4, <2>5
<1> QED  BY <1>1, <1>2

\* The settings decide where the search goes.
LEMMA SamePath ==
    ASSUME UNCHANGED settings
    PROVE  /\ Path' = Path /\ Program' = Program /\ UNCHANGED <<world, platform>>
           /\ \A d : Outcome(d)' = Outcome(d)
           /\ \A n : PassedBy(n)' = PassedBy(n) /\ DeniedBy(n)' = DeniedBy(n)
<1>1. UNCHANGED <<world, platform, startup>>
  BY DEF settings
<1>2. Program' = Program
  BY <1>1 DEF Program
<1>3. Path' = Path
  BY <1>1, <1>2 DEF Path, SearchPath, effective_pathv, UsesExecvp
<1>4. \A d : Outcome(d)' = Outcome(d)
  BY <1>1 DEF Outcome
<1>5. \A n : PassedBy(n)' = PassedBy(n) /\ DeniedBy(n)' = DeniedBy(n)
  BY <1>3, <1>4 DEF PassedBy, DeniedBy
<1> QED  BY <1>1, <1>2, <1>3, <1>4, <1>5

\* One more candidate.
LEMMA PassNext ==
    ASSUME NEW n \in Nat \ {0}
    PROVE  /\ PassedBy(n) <=> PassedBy(n - 1) /\ Outcome(Path[n]) \in GoOn
           /\ DeniedBy(n) <=> DeniedBy(n - 1) \/ Outcome(Path[n]) = "EACCES"
BY DEF PassedBy, DeniedBy

\* A step that does not touch the search, the image or the message.
LEMMA SearchIdle ==
    ASSUME SearchInv, UNCHANGED <<settings, exec, image, fail_msg>>,
           cpc' = cpc \/ cpc' \notin {"try", "sh", "next"}
    PROVE  SearchInv'
<1>1. FoundFirst'
  BY SamePath DEF SearchInv, FoundFirst
<1>2. Searching'
  BY SamePath DEF SearchInv, Searching
<1>3. Dir' = Dir
  BY SamePath DEF Dir, Path
<1> QED  BY <1>1, <1>2, <1>3, SamePath DEF SearchInv, Outcome

\* The child dies with a message that is not about the search, or none.
LEMMA SearchEnds ==
    ASSUME SearchInv, PhaseInv, cpc \in BeforeExec, UNCHANGED <<settings, exec, image>>,
           NEW errno, exit_with_error(errno),
           errno \in {"chdir", "fcntl", "ENOMEM"} \/ Program = <<>>
    PROVE  SearchInv'
<1>1. fail_msg' \in {errno, NoErrno} /\ cpc' = "dead" /\ image' = NoImage
  BY DEF exit_with_error, Dies, PhaseInv
<1>2. FoundFirst'
  BY <1>1, SamePath DEF FoundFirst
<1>3. Searching' /\ cpc' \notin {"sh", "next"}
  BY <1>1 DEF Searching
<1> QED  BY <1>2, <1>3, SamePath DEF SearchInv

\* The program is found.
LEMMA SearchSucceeds ==
    ASSUME SearchInv, PhaseInv, cpc \in {"try", "sh"}, UNCHANGED settings,
           Executes(Dir, exec.argv), Outcome(Dir) = "ok"
    PROVE  SearchInv'
<1>1. /\ UNCHANGED <<exec, fail_msg>> /\ cpc' = "execd" /\ image'.dir = Dir
      /\ fail_msg = NoErrno
  BY DEF Executes, PhaseInv, BeforeExec
<1>2. exec.dir \in 1..Len(Path) /\ PassedBy(exec.dir - 1) /\ Dir = Path[exec.dir]
  BY DEF SearchInv, Searching, Dir, Path
<1>3. \E n \in 1..Len(Path) : image'.dir = Path[n] /\ Outcome(Path[n]) = "ok" /\ PassedBy(n - 1)
  BY <1>1, <1>2
<1>4. FoundFirst'
  BY <1>1, <1>3, SamePath DEF FoundFirst
<1>5. Searching' /\ cpc' \notin {"sh", "next"}
  BY <1>1 DEF Searching
<1> QED  BY <1>1, <1>4, <1>5, SamePath DEF SearchInv

LEMMA SearchBegins ==
    ASSUME SearchInv, PhaseInv, exec_begin
    PROVE  SearchInv'
<1>1. cpc \in BeforeExec /\ UNCHANGED <<settings, image>>
      /\ image = NoImage /\ fail_msg = NoErrno
  BY DEF exec_begin, BeforeExec, PhaseInv
<1>2. ASSUME NEW errno, exit_with_error(errno), UNCHANGED exec,
             errno = "ENOMEM" \/ Program = <<>>
      PROVE  SearchInv'
  BY <1>1, <1>2, SearchEnds
<1>3. CASE /\ Program # <<>> /\ cpc' = "try" /\ fail_msg' = fail_msg
           /\ exec' = [argv |-> InitialArgv(startup.cmdline), dir |-> 1,
                       errno |-> NoErrno, sticky_errno |-> NoErrno]
  <2>1. exec'.dir = 1 /\ exec'.sticky_errno = NoErrno
    BY <1>3
  <2>2. PassedBy(0) /\ ~DeniedBy(0)
    BY DEF PassedBy, DeniedBy
  <2>3. 1 \in 1..Len(Path)
    BY PathIsLong
  <2>4. Searching'
    <3>1. /\ Program' # <<>> /\ exec'.dir \in 1..Len(Path') /\ PassedBy(0)' /\ ~DeniedBy(0)'
      BY <1>1, <1>3, <2>1, <2>2, <2>3, SamePath
    <3>2. exec'.dir - 1 = 0
      BY <2>1
    <3> QED  BY <2>1, <3>1, <3>2 DEF Searching, PassedBy, DeniedBy
  <2>5. FoundFirst'
    BY <1>1, <1>3 DEF FoundFirst
  <2>6. /\ exec' = [argv |-> exec'.argv, dir |-> exec'.dir, errno |-> exec'.errno,
                    sticky_errno |-> exec'.sticky_errno]
    BY <1>3
  <2> QED  BY <1>1, <1>3, <2>4, <2>5, <2>6, SamePath DEF SearchInv
<1> QED  BY <1>2, <1>3 DEF exec_begin

\* A candidate was tried: what changes is argv and errno.
LEMMA SearchTried ==
    ASSUME SearchInv, cpc \in {"try", "sh"}, UNCHANGED <<settings, image, fail_msg>>,
           NEW argv, NEW errno, exec' = [exec EXCEPT !.argv = argv, !.errno = errno],
           \/ cpc' = "sh" /\ world.execve[Dir] = "ENOEXEC"
           \/ cpc' = "next" /\ errno = Outcome(Dir)
    PROVE  SearchInv'
<1>1. /\ exec' = [argv |-> argv, dir |-> exec.dir, errno |-> errno,
                  sticky_errno |-> exec.sticky_errno]
  BY DEF SearchInv
<1>2. exec'.dir = exec.dir /\ exec'.sticky_errno = exec.sticky_errno /\ exec'.errno = errno
      /\ exec' = [argv |-> exec'.argv, dir |-> exec'.dir, errno |-> exec'.errno,
                  sticky_errno |-> exec'.sticky_errno]
  BY <1>1
<1>3. Searching'
  BY <1>2, SamePath DEF SearchInv, Searching, PassedBy, DeniedBy
<1>4. FoundFirst'
  BY SamePath DEF SearchInv, FoundFirst
<1>5. Dir' = Dir
  BY <1>2, SamePath DEF Dir, Path
<1> QED  BY <1>2, <1>3, <1>4, <1>5, SamePath DEF SearchInv, Outcome

LEMMA SearchTries ==
    ASSUME SearchInv, PhaseInv, exec_try
    PROVE  SearchInv'
<1> DEFINE result == world.execve[Dir]
<1>1. cpc = "try" /\ UNCHANGED settings
  BY DEF exec_try
<1>2. CASE result = "ok" /\ Executes(Dir, exec.argv)
  BY <1>1, <1>2, SearchSucceeds DEF Outcome
<1>3. CASE /\ result = "ENOEXEC" /\ exec' = [exec EXCEPT !.argv = ShiftRight(@, Candidate(Dir))]
           /\ cpc' = "sh" /\ UNCHANGED <<image, fail_msg>>
  <2>1. exec' = [exec EXCEPT !.argv = ShiftRight(exec.argv, Candidate(Dir)), !.errno = exec.errno]
    BY <1>3 DEF SearchInv
  <2> QED  BY <1>1, <1>3, <2>1, SearchTried
<1>4. CASE /\ result \notin {"ok", "ENOEXEC"} /\ exec' = [exec EXCEPT !.errno = result]
           /\ cpc' = "next" /\ UNCHANGED <<image, fail_msg>>
  <2>1. exec' = [exec EXCEPT !.argv = exec.argv, !.errno = result]
    BY <1>4 DEF SearchInv
  <2>2. result = Outcome(Dir)
    BY <1>4 DEF Outcome
  <2> QED  BY <1>1, <1>4, <2>1, <2>2, SearchTried
<1> QED  BY <1>2, <1>3, <1>4 DEF exec_try

LEMMA SearchShell ==
    ASSUME SearchInv, PhaseInv, exec_sh
    PROVE  SearchInv'
<1>1. cpc = "sh" /\ UNCHANGED settings /\ Outcome(Dir) = world.sh
  BY DEF exec_sh, SearchInv, Outcome
<1>2. CASE world.sh = "ok" /\ Executes(Dir, exec.argv)
  BY <1>1, <1>2, SearchSucceeds
<1>3. CASE /\ exec' = [exec EXCEPT !.argv = ShiftLeft(@, Program), !.errno = world.sh]
           /\ cpc' = "next" /\ UNCHANGED <<image, fail_msg>>
  <2>1. exec' = [exec EXCEPT !.argv = ShiftLeft(exec.argv, Program), !.errno = world.sh]
    BY <1>3
  <2> QED  BY <1>1, <1>3, <2>1, SearchTried
<1> QED  BY <1>2, <1>3 DEF exec_sh

LEMMA SearchGoesOn ==
    ASSUME SearchInv, PhaseInv, exec_next
    PROVE  SearchInv'
<1> DEFINE sticky == IF exec.errno = "EACCES" THEN "EACCES" ELSE exec.sticky_errno
           d == exec.dir
<1>1. /\ cpc = "next" /\ cpc \in BeforeExec /\ UNCHANGED <<settings, image>>
      /\ image = NoImage /\ fail_msg = NoErrno
  BY DEF exec_next, BeforeExec, PhaseInv
<1>2. /\ Program # <<>> /\ d \in 1..Len(Path) /\ PassedBy(d - 1)
      /\ exec.sticky_errno = IF DeniedBy(d - 1) THEN "EACCES" ELSE NoErrno
      /\ exec.errno = Outcome(Path[d])
  BY <1>1 DEF SearchInv, Searching, Dir, Path
<1>3. Len(Path) \in Nat \ {0} /\ d \in Nat \ {0}
  BY <1>2, PathIsLong
<1>4. /\ PassedBy(d) <=> exec.errno \in GoOn
      /\ sticky = IF DeniedBy(d) THEN "EACCES" ELSE NoErrno
  BY <1>2, <1>3, PassNext
<1>5. CASE /\ exec.errno \in GoOn /\ d < Len(Path)
           /\ exec' = [exec EXCEPT !.dir = @ + 1, !.sticky_errno = sticky]
           /\ cpc' = "try" /\ fail_msg' = fail_msg
  <2>1. /\ exec' = [argv |-> exec.argv, dir |-> d + 1, errno |-> exec.errno,
                    sticky_errno |-> sticky]
    BY <1>5 DEF SearchInv
  <2>2. exec'.dir = d + 1 /\ exec'.sticky_errno = sticky /\ exec'.dir - 1 = d
        /\ exec' = [argv |-> exec'.argv, dir |-> exec'.dir, errno |-> exec'.errno,
                    sticky_errno |-> exec'.sticky_errno]
    BY <2>1, <1>3
  <2>3. d + 1 \in 1..Len(Path)
    BY <1>3, <1>5
  <2>4. PICK n \in Nat : n = d
    BY <1>3
  <2>5. Searching'
    <3>1. PassedBy(n)' /\ (DeniedBy(n)' <=> DeniedBy(d)) /\ Path' = Path /\ Program' = Program
      BY <1>1, <1>4, <1>5, <2>4, SamePath
    <3>2. PassedBy(exec.dir - 1)' /\ (DeniedBy(exec.dir - 1)' <=> DeniedBy(d))
      BY <3>1, <2>2, <2>4 DEF PassedBy, DeniedBy
    <3> QED  BY <3>1, <3>2, <2>2, <2>3, <1>2, <1>4 DEF Searching
  <2>6. FoundFirst'
    BY <1>1, <1>5 DEF FoundFirst
  <2> QED  BY <1>1, <1>5, <2>2, <2>5, <2>6, SamePath DEF SearchInv
<1>6. ASSUME NEW errno, exit_with_error(errno), UNCHANGED exec,
             IF PassedBy(Len(Path))
             THEN errno = IF DeniedBy(Len(Path)) THEN "EACCES"
                          ELSE Errno(Outcome(Path[Len(Path)]))
             ELSE \E n \in 1..Len(Path) :
                    PassedBy(n - 1) /\ errno = Outcome(Path[n]) /\ errno \notin GoOn
      PROVE  SearchInv'
  <2>1. fail_msg' \in {errno, NoErrno} /\ cpc' = "dead" /\ image' = NoImage
    BY <1>1, <1>6 DEF exit_with_error, Dies
  <2>2. FoundFirst'
    BY <1>1, <1>6, <2>1, SamePath DEF FoundFirst
  <2>3. Searching' /\ cpc' \notin {"sh", "next"}
    BY <2>1 DEF Searching
  <2> QED  BY <1>1, <1>6, <2>2, <2>3, SamePath DEF SearchInv
<1>7. CASE /\ exec.errno \in GoOn /\ d = Len(Path) /\ UNCHANGED exec
           /\ exit_with_error(IF sticky # NoErrno THEN sticky ELSE Errno(exec.errno))
  <2>1. (IF sticky # NoErrno THEN sticky ELSE Errno(exec.errno))
            = IF DeniedBy(Len(Path)) THEN "EACCES" ELSE Errno(Outcome(Path[Len(Path)]))
    BY <1>2, <1>4, <1>7 DEF NoErrno
  <2>2. PassedBy(Len(Path))
    BY <1>4, <1>7
  <2> QED  BY <1>6, <1>7, <2>1, <2>2
<1>8. CASE exec.errno \notin GoOn /\ exit_with_error(exec.errno) /\ UNCHANGED exec
  <2>1. ~PassedBy(Len(Path))
    BY <1>2, <1>8 DEF PassedBy
  <2> QED  BY <1>2, <1>6, <1>8, <2>1
<1> QED  BY <1>5, <1>7, <1>8 DEF exec_next, Path

LEMMA SearchKept == PhaseInv /\ SearchInv /\ [Next]_vars => SearchInv'
<1> SUFFICES ASSUME PhaseInv, SearchInv, [Next]_vars PROVE SearchInv'
  OBVIOUS
<1>1. CASE UNCHANGED <<settings, exec, image, fail_msg>> /\ cpc' = cpc
  BY <1>1, SearchIdle
<1>2. CASE configure \/ start
  <2>1. /\ UNCHANGED <<world, exec, cpc, image, fail_msg>>
        /\ child = "none"
    BY <1>2 DEF configure, start, childVars, PhaseInv
  <2>2. cpc = "none" /\ image = NoImage /\ fail_msg = NoErrno
    BY <2>1 DEF PhaseInv
  <2> QED  BY <2>1, <2>2 DEF SearchInv, FoundFirst, Searching
<1>3. ASSUME NEW k \in Stdio, bind(k) \/ wire(k)
      PROVE  SearchInv'
  BY <1>3, <1>1 DEF bind, wire, childVars
<1>4. CASE rollback \/ close_process \/ open_fail_pipe \/ read_errno \/ started \/ reap_failed
  BY <1>4, <1>1 DEF rollback, close_process, open_fail_pipe, read_errno, started, reap_failed,
                    childVars
<1>5. CASE fork
  BY <1>5, SearchIdle DEF fork
<1>6. CASE CreateProcess
  <2>1. /\ UNCHANGED <<settings, cpc, exec, fail_msg>> /\ platform = "win32" /\ child = "none"
        /\ pc = "create"
    BY <1>6 DEF CreateProcess, PhaseInv
  <2>2. cpc = "none" /\ fail_msg = NoErrno
    BY <2>1 DEF PhaseInv
  <2>3. FoundFirst'
    BY <2>1, <2>2, SamePath DEF FoundFirst
  <2>4. Searching'
    BY <2>1, <2>2 DEF Searching
  <2> QED  BY <2>1, <2>2, <2>3, <2>4, SamePath DEF SearchInv
<1>7. CASE child_wires
  BY <1>7, SearchIdle DEF child_wires
<1>8. ASSUME NEW at \in {"chdir", "fcntl"}, NEW next \in {"fcntl", "exec"}, child_step(at, next)
      PROVE  SearchInv'
  <2>1. UNCHANGED <<settings, exec, image>> /\ cpc \in BeforeExec
    BY <1>8 DEF child_step, BeforeExec
  <2>2. CASE exit_with_error(at)
    BY <2>1, <2>2, SearchEnds
  <2>3. CASE cpc' = next /\ UNCHANGED fail_msg
    BY <2>1, <2>3, SearchIdle
  <2> QED  BY <1>8, <2>2, <2>3 DEF child_step
<1>9. CASE ChildKilled
  BY <1>9, SearchIdle DEF ChildKilled, Dies
<1>10. CASE UNCHANGED vars
  BY <1>10, <1>1 DEF vars, childVars
<1> QED  BY <1>2, <1>3, <1>4, <1>5, <1>6, <1>7, <1>8, <1>9, <1>10,
            SearchBegins, SearchTries, SearchShell, SearchGoesOn
         DEF Next, Parent, create_process, UnixParent, Win32Parent, UnixChild,
             child_chdir, child_fcntl

LEMMA SearchInit == Init => SearchInv
<1> SUFFICES ASSUME Init PROVE SearchInv
  OBVIOUS
<1>1. world.path = NoWord \/ world.path \in Seq(STRING) \ {<<>>}
  BY CasesAssumption DEF Init
<1>2. FoundFirst
  BY DEF Init, FoundFirst
<1> QED  BY <1>1, <1>2 DEF Init, SearchInv, Searching

\* The search of PATH is the one POSIX describes for execvp(): the first
\* candidate that can be executed, and the right errno when there is none,
\* for a PATH of any length and whatever execve() makes of the candidates.
THEOREM SearchIsFirst == Spec => []SearchFindsTheFirst
<1>1. Init => IInv /\ SearchInv
  BY InitInv, SearchInit
<1>2. IInv /\ SearchInv /\ [Next]_vars => (IInv /\ SearchInv)'
  BY NextInv, SearchKept DEF IInv
<1>3. SearchInv => SearchFindsTheFirst
  BY SearchMeaning DEF SearchInv
<1> QED  BY <1>1, <1>2, <1>3, PTL DEF Spec

=============================================================================
