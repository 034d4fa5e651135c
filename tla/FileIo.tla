------------------------------- MODULE FileIo -------------------------------
(***************************************************************************)
(* file_t: fstream, read, write, flush and close on a native file, with    *)
(* every I/O a request on libuv's pool awaited by                          *)
(* uv_wait_fs_with_deadline(): the loop that drives the requests, cancels  *)
(* one whose deadline passed and drains it to completion whoever won.      *)
(*                                                                         *)
(* All handles are opened on one file.  Each caller has at most one        *)
(* request, identified with the caller; Hogs are waits on long-lived       *)
(* children that occupy the same pool.  As in ProcessWait, `cur' holds the *)
(* OS thread, a definition with a suffix is a mistaken variant no action   *)
(* uses, and the clock is not modelled: a finite deadline may have passed  *)
(* at any round of the loop.                                               *)
(***************************************************************************)
EXTENDS UvPool, Integers

CONSTANTS
    Files,               \* file_t objects, each opened once
    Platforms,           \* "posix", "win32": what it is built for
    Plans,               \* for each platform, the modes the script may open
                         \* the files in, "unused" for one it does not open
    Callers, Fibers,     \* as in ProcessWait
    Hogs,                \* other work that never leaves the pool
    Payloads,            \* the data of write()
    Sizes,               \* the size argument of read()
    Limits,              \* "finite": deadline_ms >= 0; "none": negative
    Stored,              \* what the file holds at first
    MaxLen,              \* no write starts that could exceed this length
    Others,              \* what other fibers do meanwhile: "close" a handle
                         \* in use, "share" it, "stop" the loop
    Faults,              \* what may fail
    NoOne, NoFile, Zero

VARIABLES
    plan,                \* the modes of this behaviour
    platform,            \* the platform of this behaviour
    content, durable,    \* the file as read sees it, and as fsync left it
    table,               \* descriptor -> the file_t that opened it
    pointer,             \* the OS offset of the handle a file_t opened
    mode, closed, fd,    \* of each file_t; mode "null" before fstream()
    read_pos, write_pos, \* _read_pos, _write_pos
    pc, req, cur,        \* the calls, their requests, the OS thread
    got, acked, flushed  \* per file_t: data read() returned, data write()
                         \* reported written, acked when flush() said true

fileVars == <<plan, mode, closed, fd, read_pos, write_pos>>
osVars   == <<platform, content, durable, table, pointer>>
callVars == <<pc, req, cur>>
history  == <<got, acked, flushed>>
vars == <<poolVars, fileVars, osVars, callVars, history>>

Fds == 0..(Cardinality(Files) - 1)
Free == NoFile

\* What a file consists of.
Units == {Zero} \cup ToSet(Stored) \cup UNION {ToSet(d) : d \in Payloads}

ASSUME FileAssumption ==
    /\ IsFiniteSet(Files) /\ NoFile \notin Files
    /\ Platforms \subseteq {"posix", "win32"}
    /\ \A b \in Platforms :
          Plans[b] \subseteq [Files -> {"r", "w", "a", "r+", "w+", "a+", "unused"}]
    /\ Fibers \subseteq Callers /\ NoOne \notin Callers
    /\ Hogs \cap Callers = {}
    /\ Stored \in Seq(Units) /\ Payloads \subseteq Seq(Units)
    /\ Sizes \subseteq Nat
    /\ Limits \subseteq {"finite", "none"}
    /\ MaxLen \in Nat
    /\ Others \subseteq {"close", "share", "stop"}
    /\ Faults \subseteq {"submit_fail", "io_error", "short_write"}

NoReq == [f |-> NoFile, op |-> "none", fd |-> -1, off |-> 0, data |-> << >>,
          size |-> 0, limit |-> "none", late |-> FALSE, result |-> -1]

-----------------------------------------------------------------------------
(* file: open_file, the queries, close_file.                               *)

readable(m) == m \in {"r", "r+", "w+", "a+"}
writable(m) == m \in {"w", "a", "r+", "w+", "a+"}
appends(m) == m \in {"a", "a+"}
is_append(f) == appends(mode[f])

is_readable(f) == readable(mode[f]) /\ ~closed[f]
is_writable(f) == writable(mode[f]) /\ ~closed[f]

InUse(f) == \E c \in Callers : pc[c] # "idle" /\ req[c].f = f

\* fstream: open(2) takes the lowest free descriptor, and so does the C
\* runtime for a Windows handle; "w" truncates.  To append is O_APPEND on
\* POSIX; on Windows the handle is moved to the end once, here.  A failed
\* open leaves a null handle, as before the call.
fstream(f) ==
    /\ cur = NoOne /\ mode[f] = "null" /\ plan[f] # "unused"
    /\ \E d \in Fds :
          /\ table[d] = Free /\ \A e \in 0..(d - 1) : table[e] # Free
          /\ table' = [table EXCEPT ![d] = f]
          /\ fd' = [fd EXCEPT ![f] = d]
    /\ mode' = [mode EXCEPT ![f] = plan[f]]
    /\ content' = IF plan[f] \in {"w", "w+"} THEN << >> ELSE content
    /\ pointer' = [pointer EXCEPT ![f] =
                      IF platform = "win32" /\ appends(plan[f]) THEN Len(content) ELSE 0]
    /\ UNCHANGED <<poolVars, plan, platform, closed, read_pos, write_pos, durable,
                   callVars, history>>

\* close_file: idempotent.
close_NotIdempotent(f) ==
    /\ cur = NoOne /\ mode[f] # "null"
    /\ "close" \in Others \/ ~InUse(f)
    /\ closed' = [closed EXCEPT ![f] = TRUE]
    /\ table' = [table EXCEPT ![fd[f]] = Free]
    /\ UNCHANGED <<poolVars, plan, mode, fd, read_pos, write_pos, platform, content,
                   durable, pointer, callVars, history>>

close(f) ==
    /\ cur = NoOne /\ mode[f] # "null"
    /\ "close" \in Others \/ ~InUse(f)
    /\ \/ closed[f] /\ UNCHANGED <<closed, table, fd>>
       \/ /\ ~closed[f]
          /\ closed' = [closed EXCEPT ![f] = TRUE]
          /\ table' = [table EXCEPT ![fd[f]] = Free]
          /\ fd' = [fd EXCEPT ![f] = -1]
    /\ UNCHANGED <<poolVars, plan, mode, read_pos, write_pos, platform, content,
                   durable, pointer, callVars, history>>

-----------------------------------------------------------------------------
(* read, write, flush: up to the submission of the request.                *)

Idle(c, f) ==
    /\ cur = NoOne /\ pc[c] = "idle" /\ mode[f] # "null"
    /\ "share" \in Others \/ ~InUse(f)

\* uv_fs_*: the request is queued and the wait begins.
Submit(c, r) ==
    /\ uv_queue_work(c)
    /\ req' = [req EXCEPT ![c] = r]
    /\ pc' = [pc EXCEPT ![c] = "wait"]
    /\ cur' = c
    /\ UNCHANGED <<fileVars, osVars, history>>

\* The call returns null, -1, false or "" and nothing has changed.
Refused == UNCHANGED vars

read(c, f) ==
    /\ Idle(c, f)
    /\ \/ ~is_readable(f) /\ Refused
       \/ /\ is_readable(f)
          /\ \E n \in Sizes, l \in Limits :
                \/ (n = 0 \/ "submit_fail" \in Faults) /\ Refused
                \/ /\ n > 0
                   /\ Submit(c, [NoReq EXCEPT !.f = f, !.op = "read", !.fd = fd[f],
                                   !.off = read_pos[f], !.size = n, !.limit = l])

\* In append mode the offset is -1: the OS is to know where.
write_offset(f) == IF is_append(f) THEN -1 ELSE write_pos[f]

Fits(f, d) ==
    Len(d) + (IF is_append(f) THEN Len(content) ELSE write_pos[f]) <= MaxLen

write(c, f) ==
    /\ Idle(c, f)
    /\ \/ (~is_writable(f) \/ "submit_fail" \in Faults) /\ Refused
       \/ /\ is_writable(f)
          /\ \E d \in Payloads, l \in Limits :
                /\ Fits(f, d)
                /\ Submit(c, [NoReq EXCEPT !.f = f, !.op = "write", !.fd = fd[f],
                                !.off = write_offset(f), !.data = d, !.limit = l])

flush(c, f) ==
    /\ Idle(c, f)
    /\ \/ (~is_writable(f) \/ "submit_fail" \in Faults) /\ Refused
       \/ /\ is_writable(f)
          /\ \E l \in Limits :
                Submit(c, [NoReq EXCEPT !.f = f, !.op = "flush", !.fd = fd[f],
                             !.limit = l])

-----------------------------------------------------------------------------
(* The pool.                                                               *)

Take(i) ==
    /\ WorkerTakes(i)
    /\ UNCHANGED <<fileVars, osVars, callVars, history>>

\* A wait on a child that never exits, submitted elsewhere.
OtherWork(h) ==
    /\ cur = NoOne /\ work[h] = "null"
    /\ uv_queue_work(h)
    /\ UNCHANGED <<fileVars, osVars, callVars, history>>

\* The file with data at offset off; what lies between its end and off reads
\* as zeros.
Overwritten(off, data) ==
    LET end == off + Len(data)
        n == IF end > Len(content) THEN end ELSE Len(content) IN
    [i \in 1..n |-> IF i \in (off + 1)..end THEN data[i - off]
                    ELSE IF i <= Len(content) THEN content[i] ELSE Zero]

Available(off, n) == SubSeq(content, off + 1,
                            IF off + n < Len(content) THEN off + n ELSE Len(content))

Completes(c, result, data) ==
    req' = [req EXCEPT ![c].result = result, ![c].data = data]

\* pread, pwrite or fsync on whatever the descriptor now names.
Permits(at, what) ==
    /\ at \in Files
    /\ what = "read" => readable(mode[at])
    /\ what = "write" => writable(mode[at])

fs_read(c) ==
    /\ req[c].op = "read"
    /\ LET data == Available(req[c].off, req[c].size) IN
          Completes(c, Len(data), data)
    /\ UNCHANGED <<content, durable, pointer>>

\* O_APPEND puts every write at the end, whatever the offset.
O_APPEND(f) == platform = "posix" /\ is_append(f)

\* An offset of -1 is the handle's own, which that write moves on.
fs_write(c, at) ==
    /\ req[c].op = "write"
    /\ \E n \in IF "short_write" \in Faults THEN 1..Len(req[c].data)
                ELSE {Len(req[c].data)} :
          LET data == SubSeq(req[c].data, 1, n)
              own == req[c].off = -1 /\ ~O_APPEND(at)
          IN
          /\ content' = IF O_APPEND(at) THEN content \o data
                        ELSE Overwritten(IF own THEN pointer[at] ELSE req[c].off, data)
          /\ pointer' = [pointer EXCEPT ![at] = IF own THEN @ + n ELSE @]
          /\ Completes(c, n, req[c].data)
    /\ UNCHANGED durable

fs_sync(c) ==
    /\ req[c].op = "flush"
    /\ durable' = content
    /\ Completes(c, 0, << >>)
    /\ UNCHANGED <<content, pointer>>

fs_error(c) ==
    /\ Completes(c, -1, req[c].data)
    /\ UNCHANGED <<content, durable, pointer>>

fs_work(c) ==
    /\ WorkerReturns(c)
    /\ LET at == table[req[c].fd] IN
       \/ /\ Permits(at, req[c].op)
          /\ fs_read(c) \/ fs_write(c, at) \/ fs_sync(c)
       \/ /\ ~Permits(at, req[c].op) \/ "io_error" \in Faults
          /\ fs_error(c)
    /\ UNCHANGED <<fileVars, platform, table, pc, cur, history>>

-----------------------------------------------------------------------------
(* uv_wait_fs_with_deadline and what follows it.                           *)

MayRun(c) == pc[c] = "wait" /\ cur \in {c, NoOne}

\* cs_runtime_yield
Yield(c) == cur' = IF c \in Fibers THEN NoOne ELSE c

\* The end of read(): only data that came in time moves the position.
end_read_AdvancesLate(c) ==
    LET r == req[c] IN
    \/ /\ r.result > 0
       /\ read_pos' = [read_pos EXCEPT ![r.f] = @ + r.result]
       /\ got' = [got EXCEPT ![r.f] = IF r.late THEN @ ELSE @ \o r.data]
    \/ r.result <= 0 /\ UNCHANGED <<read_pos, got>>

end_read_NoSignCheck(c) ==
    LET r == req[c] IN
    \/ /\ ~r.late
       /\ read_pos' = [read_pos EXCEPT ![r.f] = @ + r.result]
       /\ got' = [got EXCEPT ![r.f] = @ \o r.data]
    \/ r.late /\ UNCHANGED <<read_pos, got>>

end_read(c) ==
    LET r == req[c] IN
    \/ /\ r.result > 0 /\ ~r.late
       /\ read_pos' = [read_pos EXCEPT ![r.f] = @ + r.result]
       /\ got' = [got EXCEPT ![r.f] = @ \o r.data]
    \/ (r.result <= 0 \/ r.late) /\ UNCHANGED <<read_pos, got>>

\* The end of write(): a late write is reported as -1 even if it was done.
end_write_AdvancesLate(c) ==
    LET r == req[c] IN
    /\ write_pos' = [write_pos EXCEPT ![r.f] =
                       IF is_append(r.f) \/ r.result <= 0 THEN @ ELSE @ + r.result]
    /\ acked' = [acked EXCEPT ![r.f] =
                   IF r.late \/ r.result <= 0 THEN @
                   ELSE @ \o SubSeq(r.data, 1, r.result)]

end_write_ReportsAll(c) ==
    LET r == req[c] IN
    /\ write_pos' = [write_pos EXCEPT ![r.f] =
                       IF is_append(r.f) \/ r.late THEN @ ELSE @ + Len(r.data)]
    /\ acked' = [acked EXCEPT ![r.f] = IF r.late THEN @ ELSE @ \o r.data]

end_write(c) ==
    LET r == req[c] IN
    \/ /\ r.result > 0 /\ ~r.late
       /\ write_pos' = [write_pos EXCEPT ![r.f] =
                          IF is_append(r.f) THEN @ ELSE @ + r.result]
       /\ acked' = [acked EXCEPT ![r.f] = @ \o SubSeq(r.data, 1, r.result)]
    \/ (r.result <= 0 \/ r.late) /\ UNCHANGED <<write_pos, acked>>

\* The end of flush(): true if fsync succeeded in time.
end_flush_InTime(c) ==
    LET ok == ~req[c].late IN
    flushed' = [flushed EXCEPT ![req[c].f] = IF ok THEN acked[req[c].f] ELSE @]

end_flush(c) ==
    LET ok == req[c].result >= 0 /\ ~req[c].late IN
    flushed' = [flushed EXCEPT ![req[c].f] = IF ok THEN acked[req[c].f] ELSE @]

\* The call returns and deletes its request.
Finish(c) ==
    /\ work' = [Driven EXCEPT ![c] = "null"]
    /\ pc' = [pc EXCEPT ![c] = "idle"]
    /\ req' = [req EXCEPT ![c] = NoReq]
    /\ cur' = NoOne
    /\ \/ req[c].op = "read" /\ end_read(c) /\ UNCHANGED <<write_pos, acked, flushed>>
       \/ req[c].op = "write" /\ end_write(c) /\ UNCHANGED <<read_pos, got, flushed>>
       \/ req[c].op = "flush" /\ end_flush(c) /\ UNCHANGED <<read_pos, write_pos, got, acked>>
    /\ UNCHANGED <<plan, mode, closed, fd, osVars>>

\* One round: uv_run finds the request completed; ...
complete(c) ==
    /\ MayRun(c) /\ Driven[c] = "done"
    /\ stop_flag' = FALSE /\ UNCHANGED queue
    /\ Finish(c)

\* ... or the deadline has passed: cancel what no worker took, and go on
\* until the request completes either way; ...
expire_Returns(c) ==
    /\ MayRun(c) /\ Driven[c] # "done"
    /\ req[c].limit = "finite" /\ ~req[c].late
    /\ uv_run_nowait
    /\ pc' = [pc EXCEPT ![c] = "idle"]
    /\ cur' = NoOne
    /\ UNCHANGED <<fileVars, osVars, req, history>>

expire_NoCancel(c) ==
    /\ MayRun(c) /\ Driven[c] # "done"
    /\ req[c].limit = "finite" /\ ~req[c].late
    /\ stop_flag' = FALSE /\ work' = Driven
    /\ req' = [req EXCEPT ![c].late = TRUE]
    /\ Yield(c)
    /\ UNCHANGED <<queue, fileVars, osVars, pc, history>>

expire(c) ==
    /\ MayRun(c) /\ Driven[c] # "done"
    /\ req[c].limit = "finite" /\ ~req[c].late
    /\ stop_flag' = FALSE
    /\ req' = [req EXCEPT ![c].late = TRUE]
    /\ \/ /\ work[c] = "queued"                      \* uv_cancel: 0
          /\ work' = [Driven EXCEPT ![c] = "returned"]
          /\ queue' = Remove(queue, c)
          /\ cur' = c
       \/ /\ work[c] # "queued"                      \* uv_cancel: UV_EBUSY
          /\ work' = Driven
          /\ Yield(c)
          /\ UNCHANGED queue
    /\ UNCHANGED <<fileVars, osVars, pc, history>>

\* ... or neither: yield, or sleep a little.
spin(c) ==
    /\ MayRun(c) /\ Driven[c] # "done"
    /\ uv_run_nowait
    /\ Yield(c)
    /\ UNCHANGED <<fileVars, osVars, pc, req, history>>

-----------------------------------------------------------------------------

Init ==
    /\ PoolInit(Callers \cup Hogs)
    /\ platform \in Platforms /\ plan \in Plans[platform]
    /\ content = Stored /\ durable = Stored
    /\ table = [d \in Fds |-> Free]
    /\ pointer = [f \in Files |-> 0]
    /\ mode = [f \in Files |-> "null"]
    /\ closed = [f \in Files |-> FALSE]
    /\ fd = [f \in Files |-> -1]
    /\ read_pos = [f \in Files |-> 0]
    /\ write_pos = [f \in Files |-> 0]
    /\ pc = [c \in Callers |-> "idle"]
    /\ req = [c \in Callers |-> NoReq]
    /\ cur = NoOne
    /\ got = [f \in Files |-> << >>]
    /\ acked = [f \in Files |-> << >>]
    /\ flushed = [f \in Files |-> << >>]

\* process.async.stop() from another fiber.
async_stop ==
    /\ "stop" \in Others /\ cur = NoOne
    /\ uv_stop
    /\ UNCHANGED <<fileVars, osVars, callVars, history>>

Next ==
    \/ \E f \in Files : close(f) \/ fstream(f)
    \/ \E c \in Callers, f \in Files : read(c, f) \/ write(c, f) \/ flush(c, f)
    \/ \E c \in Callers : fs_work(c) \/ complete(c) \/ expire(c) \/ spin(c)
    \/ \E i \in Callers \cup Hogs : Take(i)
    \/ \E h \in Hogs : OtherWork(h)
    \/ async_stop

Spec == Init /\ [][Next]_vars

\* Workers run, fibers are resumed, and time passes: a call that keeps
\* waiting comes to its deadline.
FairSpec ==
    /\ Spec
    /\ \A i \in Callers \cup Hogs : WF_vars(Take(i))
    /\ \A c \in Callers : /\ WF_vars(fs_work(c))
                          /\ SF_vars(complete(c) \/ expire(c) \/ spin(c))
                          /\ SF_vars(expire(c))

-----------------------------------------------------------------------------
(* Properties.                                                             *)

\* Every variable has its type.
TypeOK ==
    /\ work \in [Callers \cup Hogs -> WorkStates]
    /\ table \in [Fds -> Files \cup {Free}]
    /\ \A f \in Files : /\ fd[f] \in Fds \cup {-1}
                        /\ read_pos[f] \in Nat /\ write_pos[f] \in 0..MaxLen
    /\ pc \in [Callers -> {"idle", "wait"}]
    /\ cur \in Callers \cup {NoOne}

\* uv_wait_fs_with_deadline() drains the request before it returns, so that
\* no request in the pool, running or awaiting its callback refers to a
\* bundle or buffer its caller has freed.
RequestsDrained ==
    \A c \in Callers : (pc[c] = "idle") = (work[c] = "null")

\* A request in flight names a descriptor its own file_t still has open:
\* closing other handles, or one handle twice, takes nobody's descriptor.
RequestsHitTheirFile ==
    \A c \in Callers : pc[c] = "wait" => table[req[c].fd] = req[c].f

\* Nobody overwrites what the file holds: it is opened only to read and to
\* append, and where appending is not O_APPEND by one handle only.
OnlyAppended ==
    /\ \A f \in Files : plan[f] \in {"unused", "r", "a", "a+"}
    /\ platform = "posix" \/ \A f, g \in Files :
                                 appends(plan[f]) /\ appends(plan[g]) => f = g

\* Nobody but f writes to the file.
OnlyWriter(f) ==
    /\ writable(mode[f]) /\ ~is_append(f)
    /\ \A g \in Files \ {f} : ~writable(plan[g])

\* What read() has returned on a handle is, in order, without gap and without
\* repetition, what the file holds up to the handle's read position, however
\* many reads timed out, were cancelled or completed too late in between.
\* (Of a file nobody overwrites.)
ReadsAreSequential ==
    OnlyAppended => \A f \in Files : got[f] = SubSeq(content, 1, read_pos[f])

\* What write() reported written in append mode is in the file, in order;
\* between lie other writers' data and writes that timed out.  (Of a file
\* nobody overwrites: two appenders of one file on Windows do.)
AppendsAreKept ==
    OnlyAppended => \A f \in Files : is_append(f) =>
        \E at \in [DOMAIN acked[f] -> DOMAIN content] :
            \A i \in DOMAIN acked[f] :
                /\ acked[f][i] = content[at[i]]
                /\ \A j \in 1..(i - 1) : at[j] < at[i]

\* What write() reported written to a file opened for overwriting is, exactly
\* and without gap, the file up to the write position: a write that timed out
\* is overwritten by its retry and leaves no trace below that position.  (Of
\* a handle that is the only one to write.)
WritesAreSequential ==
    \A f \in Files : OnlyWriter(f) =>
        acked[f] = SubSeq(content, 1, write_pos[f])

\* When flush() returned true, what write() had reported until then is on
\* the disk.  (Of a handle that is the only one to write.)
FlushedIsDurable ==
    \A f \in Files : OnlyWriter(f) => IsPrefix(flushed[f], durable)

\* A call with a deadline returns even when every pool thread is taken for
\* good: a request no worker took is cancelled.
TimedCallsReturn ==
    \A c \in Callers :
        (pc[c] = "wait" /\ req[c].limit = "finite") ~> pc[c] = "idle"

=============================================================================
