# A verification of covscript-process

covscript-process starts child processes, waits for them, exchanges data with
them and does asynchronous file I/O for CovScript scripts and C++ programs. Two
things about it are difficult. Waiting: one OS thread runs the main program and
all fibers, a fixed pool of libuv threads makes the blocking calls, children
exit when they like, and the exit status of a child can be collected exactly
once. And starting: a sequence of steps in two processes, each of which may
fail, on two operating systems. This directory models both in TLA+, checks
small instances with TLC and proves, with TLAPS and for instances of any size,
every safety property the instances satisfy.

## 1. The system

| Component | State | Operations | Where |
|---|---|---|---|
| process handle | `_exit_code`, `_observed_exited`, `_wait_work`, `_out_work`, `_err_work`, `process_info` | `begin_wait`, `poll_wait`, `collect_wait`, `has_exited`, `wait_timeout_ms`, `close_stdin`, destructor | `include/mozart++/mpp_system/process.hpp` |
| waiting and killing on Unix | the kernel's: running, zombie, reaped; who has the PID | `wait_for`, `process_exited`, `poll_process_status`, `wait_timeout_ms`, `terminate_process`, `terminate_process_tree` | `src/process_unix_wait.cpp` |
| script API | where each fiber is in its call | `wait`, `try_wait`, `wait_poll`, `wait_with`, `has_exited`, `communicate`, `kill`, `kill_tree`, `process.async.*` | `process.cpp` |
| communicate | readers, pipes | `begin_`, `poll_`, `end_communicate` | `process.hpp` |
| builder | `process_startup` | setters, `start` with shell wrapping | `process.hpp`, `process.cpp` |
| process creation, common part | the pipes of three streams | `create_process`, `close_process` | `src/process.cpp` |
| process creation on Unix | descriptor tables of parent and child, the fail pipe, the search for the program | `create_process_impl`, `child_proc`, `mpp_execvpe` | `src/process_unix.cpp` |
| process creation on Windows | handles and their inherit flags, the command line, the environment block | `create_process_impl` | `src/process_win32.cpp` |
| file_t | descriptor, read and write position, closed flag | `fstream`, `read`, `write`, `flush`, `close`, `in`, `out` | `file.hpp`, `process.cpp` |
| fdstream | stream buffers on a descriptor | `underflow`, `overflow`, `xsputn`, `invalidate` | `fdstream.hpp` |
| waiting and killing on Windows | handles | as on Unix, `terminate_descendants` | `src/process_win32_wait.cpp` |
| mpp_core | handlers of the event emitter | traits, exceptions, `core_event`, of which only `throw_ex` is ever emitted | `include/mozart++/mpp_core` |

How they interact. The script API and the C++ API call the process handle on
the loop thread. The handle submits `wait_work_cb` and `read_work_cb` to libuv's
pool (default 4 threads, shared with file requests); their completion callbacks
run only when somebody calls `uv_run`. A fiber that waits polls and yields; the
main program sleeps on the OS thread. File requests share the pool and the loop.
Destroying a handle joins its work before its members go. `start()` copies the
builder's settings and runs to its end on the calling thread; the child talks
back once, through the fail pipe. `kill` and `kill_tree` name the child by PID
and take no notice of the waits.

What is hard: reaping happens on pool threads and on the loop thread; statuses
travel through work objects that several callers look at; caches short-circuit
polls; a PID may be somebody else's by the time it is signalled; the pool is
bounded and its work may block for ever; `uv_cancel` cannot stop running work;
file requests race their deadlines; process creation shares descriptors between
two processes and must undo any prefix of its steps; words and variables pass
through a quoting or a merge the child undoes with code of its own.
`PROJECT.json` lists these hazards at their lines with the properties that watch
them.

What makes each component correct:

- *process handle*: the code reported is the child's, it is never lost or
  changed, nothing waits for a PID that may have been reused, every wait on a
  child that exits returns, no work outlives the handle, fibers do not block
  each other;
- *killing*: no stranger is signalled, the whole tree is;
- *communicate*: nothing is truncated, full pipes do not deadlock, it returns;
- *builder and process creation*: the child runs the program PATH leads to with
  exactly the streams, words and variables the script asked for, both sides see
  EOF, nothing leaks, failures are reported and reaped;
- *file_t*: time-outs and retries skip or repeat nothing, reported writes are
  there, flushed ones durable, requests are drained before buffers go.

## 2. The modules

    UvPool <-- ProcessWait <-- Communicate          Spawn, CommandLine, Environment
       ^           ^   ^                               ^         ^          ^
       |           |   +-- ProcessKill                 |         |          |
       |           +- - -> ExitPromise (refines)    Builder   SpawnUnix  SpawnWin32
       |                                               ^         ^          ^
       +-- FileIo                                      +---- CreateProcess -+

    ProcessWait   <-- ProcessWaitProofs <-- ProcessWaitPromiseProofs <-+
                            ^                                          |
                            +-- ProcessWaitAlwaysProofs <--------------+
                                                                       |
    Communicate   <-- CommunicateProofs -------------------------------+
    ProcessKill   <-- ProcessKillProofs -------------------------------+
    CreateProcess <-- CreateProcessProofs <-- ImageProofs
    FileIo        <-- FileIoProofs

An arrow points to the module that is extended; the dashed one is the
`INSTANCE` of a refinement. A definition carries the name of the function it
models. A definition with a suffix (`begin_wait_IgnoresCode`) is that function
with one plausible mistake: no action uses it; each property is shown to fail
when one of them is put in.

**UvPool** is libuv as the repository uses it (external). A work item is null,
queued, running, returned (callback pending) or done. `uv_run(NOWAIT)` turns
every returned item into done unless `uv_stop` came before; `uv_cancel` works on
queued items only; a worker takes the head of the queue if fewer than `PoolSize`
items run.

**ProcessWait** is the life of process handles. `child` and `fate` are the
kernel's view (`ExternalReap` is a SIGCHLD handler of the host); `taker` is
another child of the program that got the PID of a reaped one (`TakesPid`,
`TakerExits`, `TakerReaped`), of which any waitid still out for that PID then
speaks: `process_exited` and `wait_for` ask after whoever has the PID, as the
code does, and a wait may reap a stranger to it and report its code. `exit_code`,
`observed_exited` and the work items are `member_holder`; `pc`, `op`, `on`,
`limit`, `ret` are the calls under way and `cur` who holds the OS thread. A call
enters (`wait`, `try_wait`, `wait_poll`, `wait_with`, `has_exited`,
`wait_timeout_ms`, `destroy`, `async_poll_once`) only when the thread is free;
then each step is what the code does between two points where something else
can run: one round of a polling loop (`Poll`), of the non-yielding loop in
`collect_wait`, of a join (`await_work`), or one waitid of `wait_timeout_ms`.
`poll_wait` and `has_exited` have the same body in the code and are one operator
here. The clock is left out: a finite deadline may have passed at any miss.

**ExitPromise** is what a handle promises, without threads, work items, zombies
or an event loop: the end of a child is a one-shot promise, fulfilled once with
the child's code. A blocking wait, `communicate` among them, is answered with
that code and with nothing else; calls that need not wait may miss the end, but
not after anybody has been told of it; a handle that is being destroyed takes no
more calls; every wait on a child that ended, and every destructor, is answered.
`ProcessWait` maps its state to it in a few lines: a child has `Ended` when it
is no longer running, with the code its `fate` stands for; its end is `Known`
when the handle has cached it; a handle is `Open` while it is live.
`KeepsPromise` is the safety part of the abstract specification, `AnswersWaits`
its liveness.

**ProcessKill** adds signals and who has the PID. `owner` is the child itself,
nobody, another child of this program (the `taker` of ProcessWait) or a
stranger. `kill` signals the PID blindly. `kill_tree` is three steps of one
call, as in `terminate_process_tree`: ask whether the child exited, compare
start times, signal the group or, in doubt, the PID alone; pool threads reap and
the kernel reuses PIDs around them. A start time may be unreadable from the
beginning (`"no_start_time"`), when nothing is compared, or only at the kill
(`"no_stat"`), when the call is `blind` and signals the PID alone. A stranger
does not get the PID inside the call unless `KillFaults` has `"fast_reuse"`; no
run has it, since the window of a few instructions is not one the code claims to
close. Another child does not get it inside any call, since the program forks on
the OS thread the call keeps.

**Communicate** extends ProcessWait with the pipes. Data are counted, not kept.
The child writes while a pipe has room, may close a stream and run on, may be a
filter that waits for EOF, and may leave a descendant that holds its pipes. A
stream is identified with the work item that reads it. `skipped` are the readers
the pool refused to the call under way. `begin_communicate` may also be called on
its own, as C++ programs do; a later `communicate` collects what it started, or
the destructor joins it. `read_failed` is the other end
`fdinbuf::underflow` knows: a read that gave nothing, whether at the end or
because it failed or was interrupted, ends the stream, with no retry and no
report. `cut` has the streams of `Failing` that this has happened to.

**Builder** is `process_builder`: `configure` makes any of the script's calls,
in any order and number, and `start` wraps the command in a shell when asked and
hands the settings on. `asked` keeps, beside the builder's own fields, what the
documentation says the calls mean.

**Spawn** is the part of `create_process` both platforms share, with a table of
descriptors (handles, on Windows): binding each stream to a pipe, a redirect
target or the parent's own; the rollback; the last lines, which close the
child's ends; `close_process`.

**SpawnUnix** is `create_process_impl` with the parent and the child side by
side: fail pipe, fork, wiring, chdir, FD_CLOEXEC, then `mpp_execvpe` candidate
by candidate (`exec_try`), with the fallback to /bin/sh that shifts argv in
place and shifts it back (`exec_sh`, `exec_next`), the error that sticks, and
the handshake. What execve makes of each candidate is part of `world`, with
`"PATH_MAX"` for one that is too long to be tried, which the search passes over,
and `"ENAMETOOLONG"` for one that execve itself finds too long, which ends it.
The child's wiring is one step, since nobody else sees its table. After a
reported failure the parent waits once: the child is `"reaped"` or, when a
signal interrupts that `waitpid`, `"left"` as a zombie. The `default` branch of
the handshake is not there because nothing leads to it: `read_fully` retries
EINTR, the pipe is open, and four bytes are written to it at once or not at all.

**SpawnWin32** is the same for Windows, where a child gets every handle with
HANDLE_FLAG_INHERIT and STARTUPINFO says which are its streams: `wire(k)` sets
and clears flags, `CreateProcess` duplicates.

**CommandLine** is the quoting of `process_win32.cpp` (`quoted`,
`command_line`), against the rules by which the C runtime of the child cuts the
string into words again (`Parsed`, external). **Environment** is the merge of
the parent's block with the builder's variables, on both platforms, against what
a child finds when it looks up a name. Both are folds. The characters of words
(`Characters`) are a parameter, of which three matter to quoting.

**CreateProcess** composes the five: one run of a script from the first setter
to the closed process. Its initial states are `Cases`: a platform, a world, a
set of setter calls and the handles that are inheritable to begin with.

**FileIo** is `file_t` over the pool. Requests carry the descriptor number
taken at submission, so that closing and reuse of descriptors are visible; the
worker acts on whatever the number names then. `platform` decides how a file is
appended to: by `O_APPEND` on POSIX, on Windows by one seek to the end when it is
opened, after which the handle's own `pointer` moves with its writes and with
nobody else's. One round of
`uv_wait_fs_with_deadline` is `complete`, `expire` (with the cancel race) or
`spin`. `got`, `acked` and `flushed` record what the script has been told.

## 3. What TLC checks

| Run | Instance | What it shows |
|---|---|---|
| `wait_promise` | 2 children that exit, main and 1 fiber, 1 pool thread, only the library reaps; refused submissions, throwing callbacks | codes are faithful, statuses never lost, no wait on a reaped PID, a fiber collects only a child that is gone, and ProcessWait implements ExitPromise: in particular every wait and destructor returns |
| `wait_faults` | 1 process, main and 1 fiber, every call with `wait_timeout_ms` and `stop`, an outside reaper, another child that gets the PID | the code is right, 0 or that of the child that got the PID, and stays; nothing is called exited too early; work is joined before it is freed |
| `kill_faults` | 1 process, main and 1 fiber, `wait`, `kill`, `kill_tree`, `stop`, the destructor, an outside reaper, PIDs reused by children and strangers, start times unreadable at first or later | the code is right, 0 or that of the child that got the PID; `kill_tree` spares strangers and, unless blind, is complete |
| `comm_returns` | 1 filter with a descendant, main and 1 fiber, 3 pool threads, pipes of 1, output of 2, refused readers, failing reads of stdout; `communicate`, `begin_communicate`, `wait`, `wait_poll`, the destructor | counters stay in range, output is complete when the readers are through unless a read failed, readers still blocked are joined by the destructor, codes are faithful, no wait on a reaped PID, `communicate` returns unless a read failed |
| `create_faults` | both platforms; all stream settings, quoting, shells, PATHs and environments; every step may fail | wiring, private ends, no leak, targets survive, failures reported and reaped, search as in POSIX, argv and environment as asked, termination |
| `file_safety` | both platforms; 2 handles on a file up to 3 units, main and a fiber; reading, appending and overwriting; short writes, errors, `stop` | sequential reads, kept appends, contiguous writes, durable flushes, requests on their own file |
| `file_deadline` | 2 fibers sharing and closing one handle, the pool possibly lost | timed calls return, after draining |

Five runs show a disagreement between the code and what the repository says of
it; `findings` in `PROJECT.json` quotes the lines:

1. `wait_timed`: `wait_timeout_ms` beside a wait in flight reports 0.
2. `comm_starved`: a reader that gets no pool thread deadlocks a child on a full
   pipe.
3. `create_targets`: a failing pipe closes the user's redirect targets.
4. `kill_reuse`: `kill_tree` on a child already waited for signals another child
   of the program that has its PID, although the start times differ.
5. `builder_order`: `arguments()` before `command()` loses its first word.

Other limits of the code that modelling brought up, most of them listed as
hazards:

- with the pool taken by waits on long-lived children, a wait on a child that has
  exited does not return (`ProcessWait` with as many daemons as pool threads);
- `has_exited()` followed by `wait()` makes a fiber spin in `collect_wait` while
  its work is queued;
- `communicate()` without a captured stream blocks the thread until the child
  exits;
- beside an outside reaper a wait that is queued or made later names a PID that
  may be another child's: it then reaps that child, reports its code for its own
  and leaves 0 to the handle the child belongs to. Only `LibraryReapsAlone`
  excludes this (`ExitCodeFaithful`, `NeverWaitsForReapedPid`);
- a read that fails or is interrupted while `communicate()` drains a stream cuts
  the output short without a word, where `CNI_API.md:264` promises all of it; if
  the child goes on writing it blocks on the pipe nobody drains, and
  `communicate()` with it;
- `kill_tree` of a running child whose start time was recorded but cannot be
  read any more signals the child alone, where `CNI_API.md:154` promises the tree;
- the `waitpid` after a failed start is not retried: a signal leaves a zombie;
- on Windows two handles that append to one file overwrite each other, since each
  writes at a pointer of its own;
- a child killed between fork and exec counts as started, which is why
  `FailuresReachTheCaller` makes an exception for it;
- on Windows, names that differ only in case are merged as different variables;
  `EnvironmentAsAsked` excludes them;
- on Windows, a redirect target or standard handle made inheritable stays so;
- the default path `:/bin:/usr/bin` is searched only when the builder sets
  variables or drops the parent's; otherwise `execvp` chooses;
- `CNI_API.md` gives 143 for other external terminations on Windows, where the
  code returns the raw one; a comment in the tests says a repeated `arg()`
  throws, where the code lets the last one win.

Bounds. Two processes are enough for work of one to delay another; two callers
for every pair of calls to meet on one process, one of them in the middle of its
call. A pool of one thread stands for one of any size with all other threads
taken; the daemon of `comm_starved` takes one. Endings are one status and one or
two signals, distinct as codes. A pipe of one unit and an output of two make the
pipe fill; reads may fail on one of the two streams, which the other is to be
independent of. In `comm_returns` no signal ends a child: children killed before
they have written all are in the proofs, and their codes in the other runs. One other child at a time has a PID, and any number
one after the other. On Windows `file_safety` only appends: everything else
is done alike on both platforms. Fourteen descriptors (`MaxFd` = 13) hold the four pipes, the standard
streams, two files of the user and an end of an earlier process. Quoting is
checked for all words up to four characters of four kinds (ordinary, blank,
backslash, quote) and for pairs of words up to two: enough for every run of
backslashes, odd and even, before a quote, a blank and the end (and
`QuotingIsUndone` is proved of all words). Paths have up to
three directories, each with every outcome of execve, an empty one and one too
long. `AllCases` is a union of these settings and not their product: streams,
words, variables and search do not influence each other in the code. The
caller's handles are all inheritable or none. The ends an earlier process left
in the parent are not inheritable, which `ParentEndsPrivate` shows of every
process. `MaxLen`, `MaxOutput` bound files and output; nothing else is
unbounded. Symmetry is used for safety only.

Deadlock is checked except where the system really may stop: a `create_` run
ends with its one call, and in `comm_returns` a `wait` for a child that blocks
on a full pipe nobody drains never ends.

Fairness. Children that are not daemons exit of themselves (no signal need
come); a pool thread that can run does (OS scheduling); a call that can take its
next step again and again takes it (strong fairness: the script keeps resuming
its fibers, in an order we do not fix, and the main program sleeps only for a
moment); time passes, so a waiting call comes to its deadline; no read need
fail and nobody need take a PID over; a script that
configures a builder starts it, and the parent and the child of a fork both run.
Nothing makes the script start a waiting call, call `process.async.poll`, or
refrain from `stop()`; `wait_promise` leaves `stop` out, since a script that stops the
loop before every round sees no callback, and its safety properties are proved with
`stop` (section 4). `AnswersWaits` and `CommunicateReturns` are stated for
children that exit, and the passing runs have pool threads enough;
`comm_starved` shows what happens otherwise.

## 4. What TLAPS proves

The theorems hold for every value of the constants the named assumptions allow:
any sets of processes, callers, fibers, files and descriptors, any pool size, any
set of calls and faults, words, paths and environments of any length. Each
inductive invariant was checked with TLC, too, on an instance of the size of the
run that checks the property. In each proof module the lemmas
follow the order of the actions; the conjuncts of an invariant have names, and a
lemma per action says which of them it keeps.

| Theorem | Property | Hypothesis |
|---|---|---|
| `TypeCorrect` | `TypeOK` | none |
| `CodesNeverChange` | `CodeNeverChanges` | none |
| `ExitCodesAreFaithful`, `ReapedPidsAreLeftAlone`, `StatusIsNeverLost` | `ExitCodeFaithful`, `NeverWaitsForReapedPid`, `StatusNeverLost` | `LibraryReapsAlone` |
| `ProcessKeepsPromise` | `KeepsPromise` | `LibraryReapsAlone` |
| `CodesAreRightOrZero`, `ExitedIsNeverSaidOfTheRunning`, `DestructorJoinsItsWork`, `FibersCollectTheGone` | `ExitCodeRightOrZero`, `ExitedOnlyIfGone`, `WorkJoinedBeforeFree`, `FibersCollectOnlyTheGone` | none |
| `StrangersAreSpared` | `TreeKillSparesStrangers` | `NoFastReuse` |
| `ForcedKillsAreComplete`, `KilledCodesAreRightOrZero`, `KilledAreSaidExitedWhenGone`, `KilledCodesNeverChange` | `TreeKillIsComplete`, `ExitCodeRightOrZero`, `ExitedOnlyIfGone`, `CodeNeverChanges` | none |
| `KilledCodesAreFaithful`, `ReusedPidsAreNotWaitedFor`, `KilledStatusIsNeverLost`, `KilledProcessKeepsPromise` | `ExitCodeFaithful`, `NeverWaitsForReapedPid`, `StatusNeverLost`, `KeepsPromise` | `LibraryReapsAlone` |
| `CountersStayInRange`, `OutputIsComplete`, `DestructorJoinsItsReaders`, `CommunicateSaysExitedWhenGone`, `CommunicateNeverChangesCodes` | `CommTypeOK`, `OutputComplete`, `WorkJoinedBeforeFree`, `ExitedOnlyIfGone`, `CodeNeverChanges` | none |
| `CommunicateCodesAreFaithful`, `CommunicateSparesReapedPids`, `CommunicateLosesNoStatus`, `CommunicateKeepsPromise` | `ExitCodeFaithful`, `NeverWaitsForReapedPid`, `StatusNeverLost`, `KeepsPromise` | `LibraryReapsAlone` |
| `NothingLeaks`, `ParentKeepsItsEnds`, `TargetsSurvive`, `EndsArePrivate`, `FailedChildIsReaped`, `FailuresAreReported`, `ChildIsWired`, `SearchIsFirst` | `NoLeak`, `ParentHoldsItsEnds`, `TargetsSurviveFork`, `ParentEndsPrivate`, `FailureIsReaped`, `FailuresReachTheCaller`, `ChildWiring`, `SearchFindsTheFirst` | none |
| `ArgvIsAsAsked`, `EnvironmentIsAsAsked` | `ArgvAsAsked`, `EnvironmentAsAsked` | none |
| `QuotingIsUndone` | what the C runtime reads from `command_line(words)` is `words` | the first can name a program |
| `RequestsAreDrained` | `RequestsDrained` | none |
| `TypesAreRight` | `TypeOK` of FileIo | `NotShared` |
| `RequestsKeepTheirFile` | `RequestsHitTheirFile` | `NotClosedInUse` |
| `ReadsSkipNothing`, `WritesLeaveNoGap`, `FlushesHold`, `AppendsStay` | `ReadsAreSequential`, `WritesAreSequential`, `FlushedIsDurable`, `AppendsAreKept` | `Synchronized` |

**One owner of a status** (ProcessWaitProofs). `LibraryReapsAlone` says that
`wait_timeout_ms` is not among the calls and that nothing else reaps;
`wait_timed` shows that the first half is needed, and `wait_faults` what is left
without the assumption. `ExitCodeFaithful` is not inductive: nothing in it says
that the code a work item carries is right, or that no second reaper is under
way. `IInv` adds, for each process (`StatusHasOneOwner`): a cached code excludes
work; queued or running work excludes that the child was reaped; on a live
handle, work that returned means the child was reaped and carries its code; and
a reaped child has its code in one of the two. `CallsOwnHandles` keeps the
handle live during a call, which is why cancelled work of a closing handle,
whose code is meaningless, is never read. `AnswersStayTrue` covers what has been
returned. `CodesNeverChange` rests on `TimedHoldsThread`: `wait_timeout_ms` looks
at a status and stores it in two steps, but does not let go of the OS thread.

**The promise** (ProcessWaitPromiseProofs). `Spec => KeepsPromise` by step
simulation under `IInv`: the exit of a child is `Promise!End`, the step that
caches a code is `Learn`, a return is `Tell`, and whatever pool threads and the
event loop do is a stutter. `OpsMatch` ties the place a call is in to its name,
without which a return could not be told from the return of another call.

**Whatever is mixed in** (ProcessWaitAlwaysProofs). `AlwaysInv` gives up the one
owner and keeps that everything said of a child was said after it ended:
`SeenAfterEnd` for handles and the work of live handles, `ToldAfterEnd` for
callers, with codes that are right, 0 or among `taker_codes`, the codes of all
that had the PID afterwards, beside `CallsKeepHandles` and `WorkJoinedBeforeFree`.
A taker runs only when the child was reaped, so a PID with nobody running behind
it still means that the child is gone. The step lemmas share one description of what a step may do to
a work item (`ItemStep`): null work of a handle that is going stays null, which
is what the destructor relies on between its three joins. The conjunct about
fibers excepts `communicate()`: its `collect_wait()` comes when the readers are
through, and a child may close its streams and run on.

**Killing** (ProcessKillProofs). `KillInv` extends `AlwaysInv`: a child has its
PID until it is reaped, `kill_tree` holds the OS thread, and when it has decided
to signal the PID alone the child has been reaped or the call is blind.
Completeness follows: a child that runs to the end of a call that is not blind
had its whole group signalled. For strangers,
`TreeSawRight` adds what each step has learnt and that it still holds;
`NoFastReuse` is necessary for just this. Of the rest, `KillNextIs` says all that
the waits can see: a step is one of ProcessWait, an ending, or a change of who has
the OS thread while no call has it. So `Safe` is kept, and the promise, an ending by
a signal being `Promise!End` like any other. `ReusedPidsAreNotWaitedFor` says when
handing a PID to another child is harmless to the waits: under
`LibraryReapsAlone` none of them still names it. `KilledCodesAreRightOrZero` says
what may come of it otherwise.

**communicate()** (CommunicateProofs). All steps of ProcessWait keep `PipeInv`
by one lemma (`WaitsKeep`), since of readers they do no more than move them
along the pool (`ReadersMove`); all steps added here keep `AlwaysInv`, and
`Safe`, since they leave wait work alone or submit it as `begin_wait` does.
`PipeInv` says that a reader that returned saw the end of its stream with all of
it taken, or its stream is in `cut` (`ReaderSees`, `ReaderReturns`), and of a call (`CallServed`) that each of its streams
was handed out completely or has a reader the call has yet to look after. The
second half makes `OutputComplete` hold when several callers communicate with
one process and one collects what another submitted. To its callers
`communicate` is a wait of ExitPromise: it asks when it submits, is answered
when it collects, and what readers, pipes and the child do between are stutters
(`CommunicateKeepsPromise`).

**Starting a process** (CreateProcessProofs). `IInv` says for each place in
`create_process` which ends of which pipes are open in the parent (`OpenEnds`,
`HasEnds`), that everything else in the table is as it was, what the child's
table holds before and after its wiring (`UnixInv`, `Wired`), which handles a
Windows child inherits (`Win32Inv`) and how the phases of parent and child fit
(`PhaseInv`). `ChildIsWired` follows for all combinations of inherited,
redirected, merged and captured streams: TLC checks the ones in `AllCases`.
`SearchInv` says which directories were passed by and which error sticks, and
covers paths of any length. `SpawnAssumption` asks for `MaxFd >= 2`, so that the
standard streams exist, and `CasesAssumption` for cases of the right shape.

**What the child executes** (ImageProofs). From the calls of the script to the
image of the program, `WordsInv` has one conjunct per stage: the builder has what
was asked of it (`AskedInv`); what `start` works with is the builder's settings,
wrapped or not (`StartInv`); argv is as it was laid out whenever a candidate is
tried, and shifted by one while /bin/sh is (`ArgvInv`); the image got that argv and
that block (`ImageInv`). Three lemmas give these their meaning for data of any
size. `QuotingIsUndone`: when the runtime has read what the quoting of a word has written
so far, it is inside quotes and has the word up to the run of backslashes that the
quoting still holds back (`ReadsInside`); a word that is not quoted holds no
blank and no quote, so it is read as it stands. `ParentMapIs`: the merge keeps of
every name its first entry, and no entry without a name. `ShiftsCancel`: shifting
argv there and back is the identity. Folds are recursive functions, and
the induction theorems of the library take a predicate as a parameter, which no
installed prover can instantiate. The first part of the module therefore proves
induction with a set in the place of the predicate (`NatInductionSet`,
`SeqInduction`) from the theorem that < is well founded, and that a fold over a
sequence is what its steps make of it (`FoldIs`); everything else is by these.

**Files** (FileIoProofs). `BaseInv` is enough for the drain. `AloneInv` (one
request per handle, made for the positions the handle still has) needs
`NotShared`, and `OwnInv` (a descriptor is open for the one handle that holds its
number) needs `NotClosedInUse`. The data theorems need both, `Synchronized`,
which is what the header of class `file` asks of its users ("require external
synchronization", `file.hpp:46`). `ReadOf`, `WriteOf`, `FlushOf` and `AppendOf` relate
what was reported, what a request under way has done, and the file. An append
that is reported lies beyond those reported before, which gives the increasing
map of `AppendsAreKept`. On Windows the only appender has the end of the file for
its `pointer`, which is what makes its writes appends; with a second one the
premise `OnlyAppended` fails, and so does the code.

Assumptions on constants: `ProcessAssumption`, `PoolSizeAssumption`,
`KillAssumption`, `PipeAssumption`, `CharactersAssumption`, `WordsAssumption`,
`SpawnAssumption`, `CasesAssumption` and `FileAssumption`, each evaluated by TLC on
the runs of its module. `CharactersAssumption` says that blank, backslash and quote
differ, and that the end of argv is no character. `CasesAssumption` asks, of what a
Windows script wants executed, for a name a program can have (`NamesProgram`):
without a quote, which no file name there has, and not ending in a backslash,
which names a directory. The C runtime reads the first word of a line by rules
of its own, and for other names the words may come out wrong.

Only model-checked: liveness (`AnswersWaits`, `CommunicateReturns`, `SpawnReturns`,
`TimedCallsReturn`), which is out of TLAPS's reach. The five properties that runs
show violated are, of course, not proved; `ExitCodeFaithful` is, where its
hypothesis excludes what violates it.

## 5. What is not modelled

- Waiting and killing on Windows: a process is waited for by handle, so neither
  reaping nor PID reuse arises in waits; `terminate_descendants` works on a
  snapshot whose staleness is listed as a hazard.
- The `in()` and `out()` streams of `file_t`, which move the OS offset;
  `fdoutbuf` and the putback area of `fdinbuf`.
- The event emitter, a synchronous dispatcher the repository only calls to
  announce an exception and registers nothing with; templates and logging.
- The time-out arithmetic of `wait_timeout_ms`.
- EINTR where the code retries it: in `wait_for`, in `read_fully` and in the
  child's report of an error. Where it does not it is a fault of the model:
  `read_failed` for `fdinbuf::underflow`, `"waitpid"` for the wait of a failed
  start.
- The process and thread handles `CreateProcess` returns on Windows: `NoLeak` is
  about the handles of streams.
- What a device lost: after a failed `fsync` the next one that succeeds makes
  all durable here, where a kernel may have dropped the pages.
- `RequestsDrained` checks that no return bypasses the drain; that the request is
  freed with it is how `Finish`, the one way to return, is written.
- Destroying a handle whose child needs EOF or draining to exit (a hazard: the
  destructor then waits for ever).
- A parent that starts with descriptors 0, 1 or 2 closed; a `file_t` closed
  between `redirect_out` and `start`; two threads in `create_process` at once.
- The parsing of `/proc/<pid>/stat`: a start time is the recorded one or not.

## 6. Plan

1. The streams of `file_t` and their OS offset beside `read` and `write`.
2. `terminate_descendants` on a snapshot with stale parents.
