----------------------------- MODULE FileIoProofs -----------------------------
(***************************************************************************)
(* Proofs about FileIo, for any files, callers, pool, payloads and faults. *)
(*                                                                         *)
(* What holds of every script is that requests are well formed and drained *)
(* before their callers return.  The header of class file asks for         *)
(* external synchronization; of scripts that provide it, the types, the    *)
(* identity of descriptors and the data themselves are proved right.       *)
(***************************************************************************)
EXTENDS FileIo, SequenceTheorems, FiniteSetTheorems, TLAPS

\* One call on a handle at a time.
NotShared == "share" \notin Others

\* No handle is closed under a call.
NotClosedInUse == "close" \notin Others

-----------------------------------------------------------------------------
(* The inductive invariant.                                                *)

Modes == {"r", "w", "a", "r+", "w+", "a+"}

Requests ==
    [f : Files \cup {NoFile}, op : {"none", "read", "write", "flush"},
     fd : Fds \cup {-1}, off : Nat \cup {-1}, data : Seq(Units), size : Nat,
     limit : {"finite", "none"}, late : BOOLEAN, result : Nat \cup {-1}]

PoolTypes ==
    /\ work \in [Callers \cup Hogs -> WorkStates]
    /\ stop_flag \in BOOLEAN

FileTypes ==
    /\ plan \in [Files -> Modes \cup {"unused"}]
    /\ mode \in [Files -> Modes \cup {"null"}]
    /\ closed \in [Files -> BOOLEAN]
    /\ fd \in [Files -> Fds \cup {-1}]
    /\ read_pos \in [Files -> Nat] /\ write_pos \in [Files -> Nat]
    /\ table \in [Fds -> Files \cup {Free}]

CallTypes ==
    /\ pc \in [Callers -> {"idle", "wait"}]
    /\ req \in [Callers -> Requests]
    /\ cur \in Callers \cup {NoOne}

DataTypes ==
    /\ content \in Seq(Units) /\ durable \in Seq(Units)
    /\ platform \in {"posix", "win32"} /\ pointer \in [Files -> Nat]
    /\ got \in [Files -> Seq(Units)] /\ acked \in [Files -> Seq(Units)]
    /\ flushed \in [Files -> Seq(Units)]

\* A handle has the mode the script planned, or is not open yet and new.
Planned ==
    \A f \in Files :
        /\ mode[f] \in {"null", plan[f]}
        /\ mode[f] = "null" => /\ write_pos[f] = 0
                               /\ acked[f] = << >> /\ flushed[f] = << >>

\* A call that waits knows its file and no result beyond its data.
RequestsFormed ==
    \A c \in Callers : pc[c] = "wait" =>
        /\ req[c].f \in Files /\ mode[req[c].f] # "null"
        /\ req[c].op # "none"
        /\ req[c].op = "read" => req[c].off \in Nat
        /\ req[c].op = "write" /\ is_append(req[c].f) => req[c].off = -1
        /\ req[c].result <= Len(req[c].data)

Types == PoolTypes /\ FileTypes /\ CallTypes /\ DataTypes

BaseInv == Types /\ Planned /\ RequestsFormed /\ RequestsDrained

\* A handle has one request at most, made for the positions it still has.
RequestsAlone ==
    \A c \in Callers : pc[c] = "wait" =>
        \A d \in Callers \ {c} : pc[d] = "wait" => req[d].f # req[c].f

RequestsCurrent ==
    \A c \in Callers : pc[c] = "wait" =>
        LET f == req[c].f IN
        /\ req[c].op = "read" => req[c].off = read_pos[f]
        /\ req[c].op = "write" /\ ~is_append(f) =>
              /\ req[c].off = write_pos[f]
              /\ write_pos[f] + Len(req[c].data) <= MaxLen

PositionsBounded == \A f \in Files : write_pos[f] <= MaxLen

AloneInv == RequestsAlone /\ RequestsCurrent /\ PositionsBounded

\* A descriptor is open for one handle, the one that holds its number.
DescriptorsOwned ==
    /\ \A f \in Files :
          /\ mode[f] = "null" => ~closed[f] /\ fd[f] = -1
          /\ closed[f] => fd[f] = -1
          /\ mode[f] # "null" /\ ~closed[f] => fd[f] \in Fds /\ table[fd[f]] = f
    /\ \A d \in Fds : table[d] # Free => fd[table[d]] = d

RequestsOnOpen ==
    \A c \in Callers : pc[c] = "wait" =>
        ~closed[req[c].f] /\ req[c].fd = fd[req[c].f]

OwnInv == DescriptorsOwned /\ RequestsOnOpen

-----------------------------------------------------------------------------
(* The data.                                                               *)

\* The request of c is on f, was a what, and did something.
Did(c, f, what) ==
    pc[c] = "wait" /\ req[c].f = f /\ req[c].op = what /\ req[c].result >= 0

Slice(s, off, n) == SubSeq(s, off + 1, off + n)

\* What read() returned on f and what a read is about to return.
ReadOf(f) ==
    /\ read_pos[f] <= Len(content)
    /\ got[f] = SubSeq(content, 1, read_pos[f])
    /\ \A c \in Callers : Did(c, f, "read") =>
          /\ read_pos[f] + req[c].result <= Len(content)
          /\ req[c].data = Slice(content, read_pos[f], req[c].result)

\* What write() reported on f, and what a write has done and is about to
\* report.
WriteOf(f) ==
    /\ write_pos[f] <= Len(content)
    /\ acked[f] = SubSeq(content, 1, write_pos[f])
    /\ \A c \in Callers : Did(c, f, "write") =>
          /\ write_pos[f] + req[c].result <= Len(content)
          /\ SubSeq(req[c].data, 1, req[c].result)
                = Slice(content, write_pos[f], req[c].result)

\* What was reported before flush() returned true, or will be when it does.
FlushOf(f) ==
    /\ IsPrefix(flushed[f], acked[f])
    /\ IsPrefix(flushed[f], durable)
    /\ \A c \in Callers : Did(c, f, "flush") => IsPrefix(acked[f], durable)

\* The reported appends of f lie in order among the first k units.
KeptBelow(f, k) ==
    \E at \in [DOMAIN acked[f] -> 1..k] :
        \A i \in DOMAIN acked[f] :
            /\ acked[f][i] = content[at[i]]
            /\ \A j \in 1..(i - 1) : at[j] < at[i]

\* An append that was done lies beyond those reported before.
AppendOf(f) ==
    /\ KeptBelow(f, Len(content))
    /\ \A c \in Callers : Did(c, f, "write") =>
          \E k \in 0..Len(content) :
              /\ KeptBelow(f, k)
              /\ k + req[c].result <= Len(content)
              /\ SubSeq(req[c].data, 1, req[c].result)
                    = Slice(content, k, req[c].result)

ReadInv == OnlyAppended => \A f \in Files : ReadOf(f)
AppendInv == OnlyAppended => \A f \in Files : is_append(f) => AppendOf(f)
WriteInv == \A f \in Files : OnlyWriter(f) => WriteOf(f)
FlushInv == \A f \in Files : OnlyWriter(f) => FlushOf(f)

-----------------------------------------------------------------------------
(* The steps, sorted by what they touch.                                   *)

\* A step that leaves files, data and calls alone and of a request changes
\* whether it is late.
Quiet ==
    /\ UNCHANGED <<fileVars, osVars, pc, history>>
    /\ cur' \in Callers \cup {NoOne}
    /\ \E late \in [Callers -> BOOLEAN] :
          req' = [c \in Callers |-> [req[c] EXCEPT !.late = late[c]]]

\* The request a call makes for f.
RequestFor(f, r) ==
    /\ r \in Requests /\ r.f = f /\ r.fd = fd[f] /\ r.result = -1
    /\ ~closed[f]
    /\ \/ r.op = "read" /\ r.off = read_pos[f]
       \/ /\ r.op = "write" /\ writable(mode[f])
          /\ r.off = write_offset(f) /\ Fits(f, r.data)
       \/ r.op = "flush"

Submits(c, f, r) == Idle(c, f) /\ RequestFor(f, r) /\ Submit(c, r)

LEMMA Constants ==
    /\ Fds \subseteq Nat
    /\ -1 \notin Fds
    /\ Free \notin Files
    /\ Callers \cap Hogs = {}
    /\ \A d \in Payloads : d \in Seq(Units)
    /\ \A b \in Platforms : Plans[b] \subseteq [Files -> Modes \cup {"unused"}]
<1>1. Cardinality(Files) \in Nat
  BY FileAssumption, FS_CardinalityType
<1>2. Fds \subseteq Nat /\ -1 \notin Fds
  BY <1>1, SMT DEF Fds
<1>. QED
  BY <1>2, FileAssumption DEF Modes, Free

LEMMA NoReqTyped == NoReq \in Requests
<1>1. << >> \in Seq(Units)
  BY EmptySeq
<1>. QED
  BY <1>1 DEF NoReq, Requests

LEMMA ReadSubmits ==
    ASSUME Types, RequestsFormed, NEW c \in Callers, NEW f \in Files, read(c, f)
    PROVE  UNCHANGED vars \/ \E r \in Requests : Submits(c, f, r)
<1>1. CASE Refused
  BY <1>1 DEF Refused
<1>2. ASSUME ~Refused
      PROVE  \E r \in Requests : Submits(c, f, r)
  <2>1. PICK n \in Sizes, l \in Limits :
           Submit(c, [NoReq EXCEPT !.f = f, !.op = "read", !.fd = fd[f],
                                   !.off = read_pos[f], !.size = n, !.limit = l])
    BY <1>2 DEF read
  <2>2. Idle(c, f) /\ ~closed[f]
    BY <1>2 DEF read, is_readable
  <2> DEFINE r == [NoReq EXCEPT !.f = f, !.op = "read", !.fd = fd[f],
                                !.off = read_pos[f], !.size = n, !.limit = l]
  <2>3. n \in Nat /\ l \in {"finite", "none"}
    BY FileAssumption
  <2>4. /\ fd[f] \in Fds \cup {-1}
        /\ read_pos[f] \in Nat
    BY DEF Types, FileTypes
  <2>5. /\ r \in Requests
        /\ r.f = f /\ r.fd = fd[f] /\ r.result = -1
        /\ r.op = "read" /\ r.off = read_pos[f]
    BY <2>3, <2>4, NoReqTyped DEF NoReq, Requests
  <2>6. RequestFor(f, r)
    BY <2>2, <2>5 DEF RequestFor
  <2>. QED
    BY <2>1, <2>2, <2>5, <2>6 DEF Submits
<1>. QED
  BY <1>1, <1>2

LEMMA WriteSubmits ==
    ASSUME Types, RequestsFormed, NEW c \in Callers, NEW f \in Files, write(c, f)
    PROVE  UNCHANGED vars \/ \E r \in Requests : Submits(c, f, r)
<1>1. CASE Refused
  BY <1>1 DEF Refused
<1>2. ASSUME ~Refused
      PROVE  \E r \in Requests : Submits(c, f, r)
  <2>1. PICK d \in Payloads, l \in Limits :
           /\ Fits(f, d)
           /\ Submit(c, [NoReq EXCEPT !.f = f, !.op = "write", !.fd = fd[f],
                                !.off = write_offset(f), !.data = d, !.limit = l])
    BY <1>2 DEF write
  <2>2. Idle(c, f) /\ ~closed[f] /\ writable(mode[f])
    BY <1>2 DEF write, is_writable
  <2> DEFINE r == [NoReq EXCEPT !.f = f, !.op = "write", !.fd = fd[f],
                                !.off = write_offset(f), !.data = d, !.limit = l]
  <2>3. d \in Seq(Units) /\ l \in {"finite", "none"}
    BY FileAssumption
  <2>4. /\ fd[f] \in Fds \cup {-1}
        /\ write_offset(f) \in Nat \cup {-1}
    BY DEF Types, FileTypes, write_offset
  <2>5. /\ r \in Requests
        /\ r.f = f /\ r.fd = fd[f] /\ r.result = -1 /\ r.data = d
        /\ r.op = "write" /\ r.off = write_offset(f)
    BY <2>3, <2>4, NoReqTyped DEF NoReq, Requests
  <2>6. RequestFor(f, r)
    BY <2>1, <2>2, <2>5 DEF RequestFor
  <2>. QED
    BY <2>1, <2>2, <2>5, <2>6 DEF Submits
<1>. QED
  BY <1>1, <1>2

LEMMA FlushSubmits ==
    ASSUME Types, RequestsFormed, NEW c \in Callers, NEW f \in Files, flush(c, f)
    PROVE  UNCHANGED vars \/ \E r \in Requests : Submits(c, f, r)
<1>1. CASE Refused
  BY <1>1 DEF Refused
<1>2. ASSUME ~Refused
      PROVE  \E r \in Requests : Submits(c, f, r)
  <2>1. PICK l \in Limits :
           Submit(c, [NoReq EXCEPT !.f = f, !.op = "flush", !.fd = fd[f],
                             !.limit = l])
    BY <1>2 DEF flush
  <2>2. Idle(c, f) /\ ~closed[f]
    BY <1>2 DEF flush, is_writable
  <2> DEFINE r == [NoReq EXCEPT !.f = f, !.op = "flush", !.fd = fd[f], !.limit = l]
  <2>3. l \in {"finite", "none"}
    BY FileAssumption
  <2>4. fd[f] \in Fds \cup {-1}
    BY DEF Types, FileTypes
  <2>5. /\ r \in Requests
        /\ r.f = f /\ r.fd = fd[f] /\ r.result = -1
        /\ r.op = "flush"
    BY <2>3, <2>4, NoReqTyped DEF NoReq, Requests
  <2>6. RequestFor(f, r)
    BY <2>2, <2>5 DEF RequestFor
  <2>. QED
    BY <2>1, <2>2, <2>5, <2>6 DEF Submits
<1>. QED
  BY <1>1, <1>2

\* The steps that are not quiet.
Loud ==
    \/ \E f \in Files : close(f) \/ fstream(f)
    \/ \E c \in Callers, f \in Files, r \in Requests : Submits(c, f, r)
    \/ \E c \in Callers : fs_work(c) \/ complete(c)

LEMMA QuietSteps ==
    ASSUME Types
    PROVE  /\ UNCHANGED vars => Quiet
           /\ async_stop => Quiet
           /\ \A i \in Callers \cup Hogs : Take(i) => Quiet
           /\ \A h \in Hogs : OtherWork(h) => Quiet
           /\ \A c \in Callers : spin(c) \/ expire(c) => Quiet
<1> DEFINE late0 == [c \in Callers |-> req[c].late]
<1>1. /\ req \in [Callers -> Requests]
      /\ late0 \in [Callers -> BOOLEAN]
  BY DEF Types, CallTypes, Requests
<1>2. req = [c \in Callers |-> [req[c] EXCEPT !.late = late0[c]]]
  <2>1. \A c \in Callers : [req[c] EXCEPT !.late = late0[c]] = req[c]
    BY <1>1 DEF Requests
  <2>. QED
    BY <1>1, <2>1
<1>3. /\ UNCHANGED req /\ UNCHANGED <<fileVars, osVars, pc, history>>
      /\ cur' \in Callers \cup {NoOne}
      => Quiet
  BY <1>1, <1>2 DEF Quiet
<1>4. ASSUME NEW c \in Callers, expire(c)
      PROVE  Quiet
  <2> DEFINE late1 == [late0 EXCEPT ![c] = TRUE]
  <2>1. late1 \in [Callers -> BOOLEAN]
    BY <1>1
  <2>2. \A d \in Callers : [req EXCEPT ![c].late = TRUE][d]
                              = [req[d] EXCEPT !.late = late1[d]]
    BY <1>1 DEF Requests
  <2>3. req' = [d \in Callers |-> [req[d] EXCEPT !.late = late1[d]]]
    BY <1>1, <1>4, <2>2 DEF expire
  <2>. QED
    BY <1>4, <2>1, <2>3 DEF expire, Quiet, Yield
<1>5. cur \in Callers \cup {NoOne}
  BY DEF Types, CallTypes
<1>. QED
  BY <1>3, <1>4, <1>5
  DEF vars, callVars, async_stop, Take, OtherWork, spin, Yield

LEMMA NextCases ==
    ASSUME Types, RequestsFormed, [Next]_vars
    PROVE  Quiet \/ Loud
<1>1. CASE UNCHANGED vars
  BY <1>1, QuietSteps
<1>2. ASSUME NEW c \in Callers, NEW f \in Files, read(c, f) \/ write(c, f) \/ flush(c, f)
      PROVE  Quiet \/ Loud
  BY <1>2, <1>1, ReadSubmits, WriteSubmits, FlushSubmits DEF Loud
<1>. QED
  BY <1>1, <1>2, QuietSteps DEF Next, Loud

-----------------------------------------------------------------------------
(* What the operators on files and requests return.                        *)

LEMMA DrivenTyped ==
    ASSUME PoolTypes
    PROVE  /\ Driven \in [Callers \cup Hogs -> WorkStates]
           /\ \A i \in Callers \cup Hogs : Driven[i] = "null" <=> work[i] = "null"
BY DEF PoolTypes, Driven, WorkStates

LEMMA OverwrittenIs ==
    ASSUME content \in Seq(Units), NEW off \in Nat, NEW data \in Seq(Units)
    PROVE  /\ Overwritten(off, data) \in Seq(Units)
           /\ Len(Overwritten(off, data)) \in {Len(content), off + Len(data)}
           /\ Len(Overwritten(off, data)) >= Len(content)
           /\ Len(Overwritten(off, data)) >= off + Len(data)
           /\ \A i \in 1..Len(Overwritten(off, data)) :
                 Overwritten(off, data)[i] =
                    IF i \in (off + 1)..(off + Len(data)) THEN data[i - off]
                    ELSE IF i <= Len(content) THEN content[i] ELSE Zero
<1> DEFINE end == off + Len(data)
           n == IF end > Len(content) THEN end ELSE Len(content)
           F(i) == IF i \in (off + 1)..end THEN data[i - off]
                   ELSE IF i <= Len(content) THEN content[i] ELSE Zero
           w == [i \in 1..n |-> F(i)]
<1>1. Len(content) \in Nat /\ Len(data) \in Nat /\ n \in Nat
  BY LenProperties
<1>2. Zero \in Units
  BY DEF Units
<1>3. \A i \in 1..n : F(i) \in Units
  BY <1>1, <1>2, ElementOfSeq
<1>4. w \in Seq(Units) /\ Len(w) = n
  <2>1. w \in [1..n -> Units]
    BY <1>3
  <2>2. w \in Seq(Units)
    BY <1>1, <2>1, SeqDef
  <2>3. DOMAIN w = 1..Len(w) /\ Len(w) \in Nat
    BY <2>2, LenProperties
  <2>4. DOMAIN w = 1..n
    OBVIOUS
  <2>. QED
    BY <1>1, <2>2, <2>3, <2>4
<1>5. Overwritten(off, data) = w
  BY DEF Overwritten
<1>6. \A i \in 1..Len(w) : w[i] = F(i)
  BY <1>4
<1>. HIDE DEF w
<1>. QED
  BY <1>1, <1>4, <1>5, <1>6

LEMMA AvailableIs ==
    ASSUME content \in Seq(Units), NEW off \in Nat, NEW n \in Nat
    PROVE  LET data == Available(off, n) IN
           /\ data \in Seq(Units)
           /\ off <= Len(content) =>
                 off + Len(data) <= Len(content) /\ data = Slice(content, off, Len(data))
<1> DEFINE last == IF off + n < Len(content) THEN off + n ELSE Len(content)
           data == Available(off, n)
<1>1. Len(content) \in Nat /\ last \in Nat /\ last <= Len(content)
  BY LenProperties
<1>2. data = SubSeq(content, off + 1, last)
  BY DEF Available
<1>3. \A i \in (off + 1)..last : content[i] \in Units
  BY <1>1, ElementOfSeq
<1>4. data \in Seq(Units) /\ Len(data) = IF off + 1 <= last THEN last - off ELSE 0
  BY <1>1, <1>2, <1>3, SubSeqProperties
<1>5. ASSUME off <= Len(content)
      PROVE  off + Len(data) <= Len(content) /\ data = Slice(content, off, Len(data))
  <2>1. off <= last
    BY <1>1, <1>5
  <2>2. off + Len(data) = last
    BY <1>1, <1>4, <2>1
  <2>. QED
    BY <1>1, <1>2, <2>2 DEF Slice
<1>. QED
  BY <1>4, <1>5

\* The units before a position.
LEMMA PrefixIs ==
    ASSUME NEW s \in Seq(Units), NEW n \in Nat, n <= Len(s)
    PROVE  /\ SubSeq(s, 1, n) \in Seq(Units)
           /\ Len(SubSeq(s, 1, n)) = n
           /\ \A i \in 1..n : SubSeq(s, 1, n)[i] = s[i]
<1>1. Len(s) \in Nat /\ \A i \in 1..n : s[i] \in Units
  BY LenProperties, ElementOfSeq
<1>. QED
  BY <1>1, SubSeqProperties

LEMMA SliceIs ==
    ASSUME NEW s \in Seq(Units), NEW off \in Nat, NEW n \in Nat, off + n <= Len(s)
    PROVE  /\ Slice(s, off, n) \in Seq(Units)
           /\ Len(Slice(s, off, n)) = n
           /\ \A i \in 1..n : Slice(s, off, n)[i] = s[off + i]
<1>1. Len(s) \in Nat /\ \A i \in (off + 1)..(off + n) : s[i] \in Units
  BY LenProperties, ElementOfSeq
<1>2. off + 1 \in Int /\ off + n \in Int
  OBVIOUS
<1>3. /\ SubSeq(s, off + 1, off + n) \in Seq(Units)
      /\ Len(SubSeq(s, off + 1, off + n))
            = IF off + 1 <= off + n THEN (off + n) - (off + 1) + 1 ELSE 0
      /\ \A i \in 1 .. ((off + n) - (off + 1) + 1) :
            SubSeq(s, off + 1, off + n)[i] = s[(off + 1) + i - 1]
  BY <1>1, <1>2, SubSeqProperties
<1>4. (off + n) - (off + 1) + 1 = n /\ \A i \in 1..n : (off + 1) + i - 1 = off + i
  OBVIOUS
<1>. QED
  BY <1>3, <1>4 DEF Slice

\* A slice joined to what is before it.
LEMMA SliceExtends ==
    ASSUME NEW s \in Seq(Units), NEW off \in Nat, NEW n \in Nat, off + n <= Len(s)
    PROVE  SubSeq(s, 1, off) \o Slice(s, off, n) = SubSeq(s, 1, off + n)
<1>1. /\ Len(s) \in Nat /\ 1 \in 1..Len(s) + 1
      /\ off \in (1 - 1)..Len(s) /\ off + n \in off..Len(s)
  BY LenProperties
<1>. QED
  BY <1>1, ConcatAdjacentSubSeq DEF Slice

\* Sequences that agree up to n have the same slices there.
LEMMA SlicesAgree ==
    ASSUME NEW s \in Seq(Units), NEW t \in Seq(Units),
           NEW off \in Nat, NEW n \in Nat, off + n <= Len(s), off + n <= Len(t),
           \A i \in (off + 1)..(off + n) : s[i] = t[i]
    PROVE  Slice(s, off, n) = Slice(t, off, n)
<1>1. /\ Slice(s, off, n) \in Seq(Units) /\ Len(Slice(s, off, n)) = n
      /\ Slice(t, off, n) \in Seq(Units) /\ Len(Slice(t, off, n)) = n
  BY SliceIs
<1>2. \A i \in 1..n : Slice(s, off, n)[i] = s[off + i]
                      /\ Slice(t, off, n)[i] = t[off + i]
  BY SliceIs
<1>3. \A i \in 1..n : off + i \in (off + 1)..(off + n)
  OBVIOUS
<1>. QED
  BY <1>1, <1>2, <1>3, SeqEqual

LEMMA PrefixesAgree ==
    ASSUME NEW s \in Seq(Units), NEW t \in Seq(Units),
           NEW n \in Nat, n <= Len(s), n <= Len(t), \A i \in 1..n : s[i] = t[i]
    PROVE  SubSeq(s, 1, n) = SubSeq(t, 1, n)
<1>1. Slice(s, 0, n) = Slice(t, 0, n)
  BY SlicesAgree
<1>. QED
  BY <1>1 DEF Slice

\* What is appended leaves the slices alone.
LEMMA ConcatAgrees ==
    ASSUME NEW s \in Seq(Units), NEW t \in Seq(Units)
    PROVE  /\ s \o t \in Seq(Units)
           /\ Len(s \o t) = Len(s) + Len(t)
           /\ \A off \in Nat, n \in Nat : off + n <= Len(s) =>
                 Slice(s \o t, off, n) = Slice(s, off, n)
           /\ Slice(s \o t, Len(s), Len(t)) = t
<1>1. /\ s \o t \in Seq(Units) /\ Len(s \o t) = Len(s) + Len(t)
      /\ \A i \in 1..Len(s) + Len(t) :
            (s \o t)[i] = IF i <= Len(s) THEN s[i] ELSE t[i - Len(s)]
      /\ Len(s) \in Nat /\ Len(t) \in Nat
  BY ConcatProperties, LenProperties
<1>2. ASSUME NEW off \in Nat, NEW n \in Nat, off + n <= Len(s)
      PROVE  Slice(s \o t, off, n) = Slice(s, off, n)
  <2>1. \A i \in (off + 1)..(off + n) : (s \o t)[i] = s[i]
    BY <1>1, <1>2
  <2>2. off + n <= Len(s \o t)
    BY <1>1, <1>2
  <2>. QED
    BY <1>1, <1>2, <2>1, <2>2, SlicesAgree
<1>3. Slice(s \o t, Len(s), Len(t)) = t
  <2>1. /\ Slice(s \o t, Len(s), Len(t)) \in Seq(Units)
        /\ Len(Slice(s \o t, Len(s), Len(t))) = Len(t)
        /\ \A i \in 1..Len(t) :
              Slice(s \o t, Len(s), Len(t))[i] = (s \o t)[Len(s) + i]
    <3> DEFINE st == s \o t
               m == Len(s)
               n == Len(t)
    <3>1. st \in Seq(Units) /\ m \in Nat /\ n \in Nat /\ m + n <= Len(st)
      BY <1>1
    <3>. HIDE DEF st, m, n
    <3>2. /\ Slice(st, m, n) \in Seq(Units) /\ Len(Slice(st, m, n)) = n
          /\ \A i \in 1..n : Slice(st, m, n)[i] = st[m + i]
      BY <3>1, SliceIs
    <3>. QED
      BY <3>2 DEF st, m, n
  <2>2. \A i \in 1..Len(t) : (s \o t)[Len(s) + i] = t[i]
    BY <1>1
  <2>. QED
    BY <2>1, <2>2, SeqEqual
<1>. QED
  BY <1>1, <1>2, <1>3

-----------------------------------------------------------------------------
(* Types, and that requests are drained, of any script.                    *)

LEMMA BaseInit == Init => BaseInv
<1> SUFFICES ASSUME Init
             PROVE  BaseInv
  OBVIOUS
<1>1. << >> \in Seq(Units)
  BY EmptySeq
<1>2. PoolTypes /\ RequestsDrained
  BY DEF Init, PoolInit, PoolTypes, WorkStates, RequestsDrained
<1>3. FileTypes /\ CallTypes
  BY NoReqTyped, Constants DEF Init, FileTypes, CallTypes
<1>4. DataTypes
  BY <1>1, FileAssumption DEF Init, DataTypes
<1>5. Planned /\ RequestsFormed
  BY DEF Init, Planned, RequestsFormed
<1>. QED
  BY <1>2, <1>3, <1>4, <1>5 DEF BaseInv, Types

LEMMA WorkStep ==
    ASSUME BaseInv, [Next]_vars
    PROVE  PoolTypes' /\ RequestsDrained'
<1>0. /\ Types /\ PoolTypes /\ CallTypes /\ RequestsDrained /\ RequestsFormed
      /\ Callers \cap Hogs = {}
  BY Constants DEF BaseInv, Types
<1>1. /\ Driven \in [Callers \cup Hogs -> WorkStates]
      /\ \A i \in Callers \cup Hogs : Driven[i] = "null" <=> work[i] = "null"
  BY <1>0, DrivenTyped
<1>. USE DEF PoolTypes, CallTypes, RequestsDrained, WorkStates
<1>2. CASE UNCHANGED vars
  BY <1>0, <1>2 DEF vars, poolVars, callVars
<1>3. ASSUME NEW f \in Files, close(f) \/ fstream(f)
      PROVE  PoolTypes' /\ RequestsDrained'
  BY <1>0, <1>3 DEF close, fstream, poolVars, callVars
<1>4. ASSUME NEW c \in Callers, NEW f \in Files, read(c, f) \/ write(c, f) \/ flush(c, f)
      PROVE  PoolTypes' /\ RequestsDrained'
  <2>1. CASE \E r \in Requests : Submits(c, f, r)
    BY <1>0, <2>1 DEF Submits, Submit, uv_queue_work
  <2>. QED
    BY <1>0, <1>2, <1>4, <2>1, ReadSubmits, WriteSubmits, FlushSubmits
<1>5. ASSUME NEW c \in Callers, fs_work(c)
      PROVE  PoolTypes' /\ RequestsDrained'
  BY <1>0, <1>5 DEF fs_work, WorkerReturns
<1>6. ASSUME NEW c \in Callers, complete(c)
      PROVE  PoolTypes' /\ RequestsDrained'
  BY <1>0, <1>1, <1>6 DEF complete, Finish
<1>7. ASSUME NEW c \in Callers, expire(c)
      PROVE  PoolTypes' /\ RequestsDrained'
  BY <1>0, <1>1, <1>7 DEF expire
<1>8. ASSUME NEW c \in Callers, spin(c)
      PROVE  PoolTypes' /\ RequestsDrained'
  BY <1>0, <1>1, <1>8 DEF spin, uv_run_nowait
<1>9. ASSUME NEW i \in Callers \cup Hogs, Take(i)
      PROVE  PoolTypes' /\ RequestsDrained'
  BY <1>0, <1>9 DEF Take, WorkerTakes, callVars
<1>10. ASSUME NEW h \in Hogs, OtherWork(h)
       PROVE  PoolTypes' /\ RequestsDrained'
  BY <1>0, <1>10 DEF OtherWork, uv_queue_work, callVars
<1>11. CASE async_stop
  BY <1>0, <1>11 DEF async_stop, uv_stop, callVars
<1>. QED
  BY <1>2, <1>3, <1>4, <1>5, <1>6, <1>7, <1>8, <1>9, <1>10, <1>11 DEF Next

\* What the rest of the state is after each kind of step.
Rest == FileTypes /\ CallTypes /\ DataTypes /\ Planned /\ RequestsFormed

LEMMA QuietKeepsRest ==
    ASSUME Rest, Quiet
    PROVE  Rest'
<1>1. /\ UNCHANGED <<plan, mode, closed, fd, read_pos, write_pos>>
      /\ UNCHANGED <<platform, content, durable, table, pointer>>
      /\ UNCHANGED <<pc, got, acked, flushed>>
      /\ cur' \in Callers \cup {NoOne}
  BY DEF Quiet, fileVars, osVars, history
<1>2. PICK late \in [Callers -> BOOLEAN] :
         req' = [c \in Callers |-> [req[c] EXCEPT !.late = late[c]]]
  BY DEF Quiet
<1>3. req \in [Callers -> Requests]
  BY DEF Rest, CallTypes
<1>4. \A c \in Callers :
         /\ req'[c] \in Requests
         /\ req'[c].f = req[c].f /\ req'[c].op = req[c].op
         /\ req'[c].off = req[c].off
         /\ req'[c].data = req[c].data /\ req'[c].result = req[c].result
  BY <1>2, <1>3 DEF Requests
<1>5. req' \in [Callers -> Requests]
  BY <1>2, <1>4
<1>6. FileTypes' /\ DataTypes' /\ Planned'
  BY <1>1 DEF Rest, FileTypes, DataTypes, Planned
<1>7. CallTypes'
  BY <1>1, <1>5 DEF Rest, CallTypes
<1>8. RequestsFormed'
  BY <1>1, <1>4 DEF Rest, RequestsFormed, is_append
<1>. QED
  BY <1>6, <1>7, <1>8 DEF Rest

LEMMA OpenCloseKeepRest ==
    ASSUME Rest, NEW f \in Files, close(f) \/ fstream(f)
    PROVE  Rest'
<1>1. Free \notin Files /\ << >> \in Seq(Units)
  BY Constants, EmptySeq
<1>2. CASE close(f)
  <2>1. FileTypes' /\ DataTypes' /\ Planned'
    BY <1>2 DEF Rest, close, FileTypes, DataTypes, Planned, history
  <2>2. CallTypes' /\ RequestsFormed'
    BY <1>2 DEF Rest, close, callVars, CallTypes, RequestsFormed, is_append
  <2>. QED
    BY <2>1, <2>2 DEF Rest
<1>3. CASE fstream(f)
  <2>1. /\ mode' = [mode EXCEPT ![f] = plan[f]] /\ plan' = plan
        /\ plan[f] \in Modes \cup {"unused"} /\ plan[f] # "unused" /\ plan[f] # "null"
    BY <1>3, Constants DEF Rest, FileTypes, fstream, Modes
  <2>2. FileTypes' /\ DataTypes'
    <3>1. FileTypes'
      BY <1>1, <1>3, <2>1 DEF Rest, fstream, FileTypes
    <3>2. Len(content) \in Nat
      BY LenProperties DEF Rest, DataTypes
    <3>3. pointer' \in [Files -> Nat]
      BY <1>3, <3>2 DEF Rest, fstream, DataTypes
    <3> QED
      BY <1>1, <1>3, <3>1, <3>3 DEF Rest, fstream, DataTypes, history
  <2>3. Planned'
    BY <1>3, <2>1 DEF Rest, fstream, FileTypes, Planned, history
  <2>4. CallTypes'
    BY <1>3 DEF Rest, fstream, callVars, CallTypes
  <2>5. RequestsFormed'
    BY <1>3, <2>1 DEF Rest, fstream, callVars, FileTypes, RequestsFormed, is_append
  <2>. QED
    BY <2>2, <2>3, <2>4, <2>5 DEF Rest
<1>. QED
  BY <1>2, <1>3

LEMMA SubmitKeepsRest ==
    ASSUME Rest, NEW c \in Callers, NEW f \in Files, NEW r \in Requests,
           Submits(c, f, r)
    PROVE  Rest'
<1>1. /\ UNCHANGED <<plan, mode, closed, fd, read_pos, write_pos>>
      /\ UNCHANGED <<platform, content, durable, table, pointer, got, acked, flushed>>
      /\ req' = [req EXCEPT ![c] = r] /\ pc' = [pc EXCEPT ![c] = "wait"] /\ cur' = c
      /\ mode[f] # "null"
  BY DEF Submits, Submit, Idle, fileVars, osVars, history
<1>2. /\ r.f = f /\ r.op # "none" /\ r.result = -1
      /\ r.op = "read" => r.off \in Nat
      /\ r.op = "write" /\ is_append(f) => r.off = -1
      /\ Len(r.data) \in Nat
  <2>1. r.f = f /\ r.op # "none" /\ r.result = -1
    BY DEF Submits, RequestFor
  <2>2. r.op = "read" => r.off \in Nat
    BY DEF Submits, RequestFor, Rest, FileTypes
  <2>4. r.op = "write" /\ is_append(f) => r.off = -1
    BY DEF Submits, RequestFor, write_offset
  <2>3. r.data \in Seq(Units)
    BY DEF Requests
  <2>. QED
    BY <2>1, <2>2, <2>3, <2>4, LenProperties
<1>3. FileTypes' /\ DataTypes' /\ Planned'
  BY <1>1 DEF Rest, FileTypes, DataTypes, Planned
<1>4. CallTypes'
  BY <1>1 DEF Rest, CallTypes
<1>5. RequestsFormed'
  BY <1>1, <1>2 DEF Rest, CallTypes, RequestsFormed, is_append
<1>. QED
  BY <1>3, <1>4, <1>5 DEF Rest

\* What a worker does to a request.
LEMMA WorkEffect ==
    ASSUME Rest, NEW c \in Callers, fs_work(c), pc[c] = "wait"
    PROVE  /\ content' \in Seq(Units) /\ durable' \in Seq(Units)
           /\ platform' = platform /\ pointer' \in [Files -> Nat]
           /\ \E n \in Nat \cup {-1}, data \in Seq(Units) :
                 n <= Len(data) /\ Completes(c, n, data)
<1>0. platform' = platform
  BY DEF fs_work
<1>1. /\ req[c] \in Requests
      /\ req[c].op = "read" => req[c].off \in Nat
      /\ content \in Seq(Units) /\ durable \in Seq(Units)
      /\ pointer \in [Files -> Nat]
      /\ req[c].data \in Seq(Units) /\ req[c].off \in Nat \cup {-1}
      /\ req[c].size \in Nat /\ Len(req[c].data) \in Nat
  BY LenProperties DEF Rest, CallTypes, DataTypes, RequestsFormed, Requests
<1>2. CASE fs_read(c)
  <2> DEFINE data == Available(req[c].off, req[c].size)
  <2>0. req[c].off \in Nat
    BY <1>1, <1>2 DEF fs_read
  <2>1. data \in Seq(Units) /\ Len(data) \in Nat
    BY <1>1, <2>0, AvailableIs, LenProperties
  <2>2. /\ Completes(c, Len(data), data)
        /\ content' = content /\ durable' = durable /\ pointer' = pointer
    BY <1>2 DEF fs_read
  <2>. QED
    BY <1>0, <1>1, <2>1, <2>2
<1>3. ASSUME NEW at \in Files, fs_write(c, at)
      PROVE  /\ content' \in Seq(Units) /\ durable' \in Seq(Units)
             /\ pointer' \in [Files -> Nat]
             /\ \E n \in Nat \cup {-1}, data \in Seq(Units) :
                   n <= Len(data) /\ Completes(c, n, data)
  <2> DEFINE own == req[c].off = -1 /\ ~O_APPEND(at)
             off == IF own THEN pointer[at] ELSE req[c].off
  <2>1. PICK n \in IF "short_write" \in Faults THEN 1..Len(req[c].data)
                   ELSE {Len(req[c].data)} :
           /\ content' = IF O_APPEND(at) THEN content \o SubSeq(req[c].data, 1, n)
                         ELSE Overwritten(off, SubSeq(req[c].data, 1, n))
           /\ pointer' = [pointer EXCEPT ![at] = IF own THEN @ + n ELSE @]
           /\ Completes(c, n, req[c].data)
    BY <1>3 DEF fs_write
  <2>8. ~O_APPEND(at) => off \in Nat
    BY <1>1
  <2>. HIDE DEF own, off
  <2>2. n \in Nat /\ n <= Len(req[c].data)
    BY <1>1, <2>1
  <2>3. SubSeq(req[c].data, 1, n) \in Seq(Units)
    BY <1>1, <2>2, PrefixIs
  <2>4. content \o SubSeq(req[c].data, 1, n) \in Seq(Units)
    BY <1>1, <2>3, ConcatProperties
  <2>5. \A k \in Nat : Overwritten(k, SubSeq(req[c].data, 1, n)) \in Seq(Units)
    BY <1>1, <2>3, OverwrittenIs
  <2>6. content' \in Seq(Units)
    BY <2>1, <2>4, <2>5, <2>8
  <2>7. durable' = durable
    BY <1>3 DEF fs_write
  <2>9. pointer' \in [Files -> Nat]
    BY <1>1, <2>1, <2>2
  <2>. QED
    BY <1>1, <2>1, <2>2, <2>6, <2>7, <2>9
<1>4. CASE fs_sync(c)
  <2>1. << >> \in Seq(Units) /\ Len(<< >>) = 0
    BY EmptySeq
  <2>2. 0 \in Nat \cup {-1} /\ 0 <= Len(<< >>)
    BY <2>1
  <2>3. /\ Completes(c, 0, << >>)
        /\ content' = content /\ durable' = content /\ pointer' = pointer
    BY <1>4 DEF fs_sync
  <2>. QED
    BY <1>0, <1>1, <2>1, <2>2, <2>3
<1>5. CASE fs_error(c)
  <2>1. -1 \in Nat \cup {-1} /\ -1 <= Len(req[c].data)
    BY <1>1
  <2>2. /\ Completes(c, -1, req[c].data)
        /\ content' = content /\ durable' = durable /\ pointer' = pointer
    BY <1>5 DEF fs_error
  <2>. QED
    BY <1>0, <1>1, <2>1, <2>2
<1>6. \/ fs_read(c) \/ fs_sync(c) \/ fs_error(c)
      \/ Permits(table[req[c].fd], req[c].op) /\ fs_write(c, table[req[c].fd])
  BY DEF fs_work
<1>7. ASSUME Permits(table[req[c].fd], req[c].op), fs_write(c, table[req[c].fd])
      PROVE  table[req[c].fd] \in Files
  BY <1>7 DEF Permits
<1>. QED
  BY <1>0, <1>2, <1>3, <1>4, <1>5, <1>6, <1>7

LEMMA WorkKeepsRest ==
    ASSUME Rest, NEW c \in Callers, fs_work(c), pc[c] = "wait"
    PROVE  Rest'
<1>1. PICK n \in Nat \cup {-1}, data \in Seq(Units) :
         n <= Len(data) /\ Completes(c, n, data)
  BY WorkEffect
<1>2. req' = [req EXCEPT ![c].result = n, ![c].data = data]
  BY <1>1 DEF Completes
<1>3. /\ req' \in [Callers -> Requests]
      /\ req'[c].result = n /\ req'[c].data = data
      /\ req'[c].f = req[c].f /\ req'[c].op = req[c].op /\ req'[c].off = req[c].off
      /\ \A d \in Callers \ {c} : req'[d] = req[d]
  <2> DEFINE q == [req[c] EXCEPT !.result = n, !.data = data]
  <2>1. req \in [Callers -> Requests] /\ req[c] \in Requests
    BY DEF Rest, CallTypes
  <2>2. /\ q \in Requests /\ q.result = n /\ q.data = data
        /\ q.f = req[c].f /\ q.op = req[c].op /\ q.off = req[c].off
    BY <2>1 DEF Requests
  <2>3. req' = [req EXCEPT ![c] = q]
    BY <1>2, <2>1 DEF Requests
  <2>. HIDE DEF q
  <2>. QED
    BY <2>1, <2>2, <2>3
<1>4. /\ UNCHANGED <<plan, mode, closed, fd, read_pos, write_pos>>
      /\ UNCHANGED <<platform, table, pc, cur, got, acked, flushed>>
  BY DEF fs_work, fileVars, history
<1>5. FileTypes' /\ DataTypes' /\ Planned'
  BY <1>4, WorkEffect DEF Rest, FileTypes, DataTypes, Planned
<1>6. CallTypes'
  BY <1>3, <1>4 DEF Rest, CallTypes
<1>7. RequestsFormed'
  BY <1>1, <1>3, <1>4 DEF Rest, RequestsFormed, is_append
<1>. QED
  BY <1>5, <1>6, <1>7 DEF Rest

LEMMA CompleteKeepsRest ==
    ASSUME Rest, NEW c \in Callers, complete(c)
    PROVE  Rest'
<1> DEFINE r == req[c]
<1>1. /\ UNCHANGED <<plan, mode, closed, fd, platform, content, durable, table, pointer>>
      /\ pc' = [pc EXCEPT ![c] = "idle"] /\ req' = [req EXCEPT ![c] = NoReq]
      /\ cur' = NoOne /\ pc[c] = "wait"
  BY DEF complete, MayRun, Finish, osVars
<1>2. /\ r.f \in Files /\ mode[r.f] # "null" /\ r.result \in Nat \cup {-1}
      /\ r.data \in Seq(Units) /\ r.result <= Len(r.data)
  BY <1>1 DEF Rest, RequestsFormed, CallTypes, Requests
<1>3. r.result > 0 => SubSeq(r.data, 1, r.result) \in Seq(Units)
  BY <1>2, PrefixIs
<1>4. /\ read_pos' \in [Files -> Nat] /\ write_pos' \in [Files -> Nat]
      /\ got' \in [Files -> Seq(Units)] /\ acked' \in [Files -> Seq(Units)]
      /\ flushed' \in [Files -> Seq(Units)]
      /\ \A f \in Files : f # r.f =>
            write_pos'[f] = write_pos[f] /\ acked'[f] = acked[f] /\ flushed'[f] = flushed[f]
  <2>0. /\ read_pos \in [Files -> Nat] /\ write_pos \in [Files -> Nat]
        /\ got \in [Files -> Seq(Units)] /\ acked \in [Files -> Seq(Units)]
        /\ flushed \in [Files -> Seq(Units)]
    BY DEF Rest, FileTypes, DataTypes
  <2>1. CASE end_read(c) /\ UNCHANGED <<write_pos, acked, flushed>>
    <3>1. got[r.f] \o r.data \in Seq(Units)
      BY <1>2, <2>0, ConcatProperties
    <3>2. CASE UNCHANGED <<read_pos, got>>
      BY <2>0, <2>1, <3>2
    <3>3. CASE /\ r.result > 0
               /\ read_pos' = [read_pos EXCEPT ![r.f] = @ + r.result]
               /\ got' = [got EXCEPT ![r.f] = @ \o r.data]
      <4>1. r.result \in Nat /\ read_pos[r.f] + r.result \in Nat
        BY <1>2, <2>0, <3>3
      <4>. QED
        BY <1>2, <2>0, <2>1, <3>1, <3>3, <4>1
    <3>. QED
      BY <2>1, <3>2, <3>3 DEF end_read
  <2>2. CASE end_write(c) /\ UNCHANGED <<read_pos, got, flushed>>
    <3>1. r.result > 0 => acked[r.f] \o SubSeq(r.data, 1, r.result) \in Seq(Units)
      BY <1>2, <1>3, <2>0, ConcatProperties
    <3>2. CASE UNCHANGED <<write_pos, acked>>
      BY <2>0, <2>2, <3>2
    <3>3. CASE /\ r.result > 0
               /\ write_pos' = [write_pos EXCEPT ![r.f] =
                                  IF is_append(r.f) THEN @ ELSE @ + r.result]
               /\ acked' = [acked EXCEPT ![r.f] = @ \o SubSeq(r.data, 1, r.result)]
      <4>0. r.result > 0 /\ write_pos[r.f] \in Nat
        BY <1>2, <2>0, <3>3
      <4>1. r.result \in Nat /\ write_pos[r.f] + r.result \in Nat
        BY <1>2, <4>0
      <4>2. write_pos' \in [Files -> Nat]
        BY <1>2, <2>0, <3>3, <4>1
      <4>3. acked' \in [Files -> Seq(Units)]
        BY <1>2, <2>0, <3>1, <3>3
      <4>. QED
        BY <1>2, <2>0, <2>2, <3>3, <4>2, <4>3
    <3>. QED
      BY <2>2, <3>2, <3>3 DEF end_write
  <2>3. CASE end_flush(c) /\ UNCHANGED <<read_pos, write_pos, got, acked>>
    BY <1>2, <2>0, <2>3 DEF end_flush
  <2>. QED
    BY <2>1, <2>2, <2>3 DEF complete, Finish
<1>5. FileTypes' /\ DataTypes'
  BY <1>1, <1>4 DEF Rest, FileTypes, DataTypes
<1>6. Planned'
  BY <1>1, <1>2, <1>4 DEF Rest, Planned
<1>7. CallTypes'
  BY <1>1, NoReqTyped DEF Rest, CallTypes
<1>8. RequestsFormed'
  BY <1>1 DEF Rest, CallTypes, RequestsFormed, is_append
<1>. QED
  BY <1>5, <1>6, <1>7, <1>8 DEF Rest

LEMMA WorkersServeCalls ==
    ASSUME BaseInv, NEW c \in Callers, fs_work(c)
    PROVE  pc[c] = "wait"
BY DEF BaseInv, Types, CallTypes, RequestsDrained, fs_work, WorkerReturns

LEMMA BaseStep ==
    ASSUME BaseInv, [Next]_vars
    PROVE  BaseInv'
<1>1. Rest /\ Types /\ RequestsFormed
  BY DEF BaseInv, Types, Rest
<1>2. Quiet \/ Loud
  BY <1>1, NextCases
<1>3. Rest'
  BY <1>1, <1>2, QuietKeepsRest, OpenCloseKeepRest, SubmitKeepsRest, WorkKeepsRest,
     CompleteKeepsRest, WorkersServeCalls DEF Loud
<1>4. PoolTypes' /\ RequestsDrained'
  BY WorkStep
<1>. QED
  BY <1>3, <1>4 DEF BaseInv, Types, Rest

LEMMA BaseAlways == Spec => []BaseInv
<1>1. BaseInv /\ [Next]_vars => BaseInv'
  BY BaseStep
<1>. QED
  BY <1>1, BaseInit, PTL DEF Spec

\* Whatever the script does, uv_wait_fs_with_deadline() returns only when its
\* request has left the pool and the loop: neither a worker nor a pending
\* callback refers to a request or a buffer its caller has freed.
THEOREM RequestsAreDrained == Spec => []RequestsDrained
<1>1. BaseInv => RequestsDrained
  BY DEF BaseInv
<1>. QED
  BY <1>1, BaseAlways, PTL

-----------------------------------------------------------------------------
(* The steps once more, as the remaining invariants see them.              *)

\* Where c is and what its request says, late or not.
Same(c) ==
    /\ pc'[c] = pc[c]
    /\ req'[c].f = req[c].f /\ req'[c].op = req[c].op /\ req'[c].fd = req[c].fd
    /\ req'[c].off = req[c].off /\ req'[c].data = req[c].data
    /\ req'[c].result = req[c].result

LEMMA QuietSees ==
    ASSUME BaseInv, Quiet
    PROVE  /\ UNCHANGED <<plan, mode, closed, fd, read_pos, write_pos>>
           /\ UNCHANGED <<platform, content, durable, table, pointer>>
           /\ UNCHANGED <<got, acked, flushed>>
           /\ \A c \in Callers : Same(c)
<1>1. /\ UNCHANGED <<plan, mode, closed, fd, read_pos, write_pos>>
      /\ UNCHANGED <<platform, content, durable, table, pointer>>
      /\ UNCHANGED <<pc, got, acked, flushed>>
  BY DEF Quiet, fileVars, osVars, history
<1>2. PICK late \in [Callers -> BOOLEAN] :
         req' = [c \in Callers |-> [req[c] EXCEPT !.late = late[c]]]
  BY DEF Quiet
<1>3. req \in [Callers -> Requests]
  BY DEF BaseInv, Types, CallTypes
<1>4. \A c \in Callers :
         /\ req'[c].f = req[c].f /\ req'[c].op = req[c].op
         /\ req'[c].fd = req[c].fd /\ req'[c].off = req[c].off
         /\ req'[c].data = req[c].data /\ req'[c].result = req[c].result
  BY <1>2, <1>3 DEF Requests
<1>. QED
  BY <1>1, <1>4 DEF Same

LEMMA CloseSees ==
    ASSUME BaseInv, NEW f \in Files, close(f)
    PROVE  /\ UNCHANGED <<plan, mode, read_pos, write_pos>>
           /\ UNCHANGED <<platform, content, durable, pointer>>
           /\ UNCHANGED <<got, acked, flushed>>
           /\ \A c \in Callers : Same(c)
BY DEF close, history, callVars, Same

LEMMA OpenSees ==
    ASSUME BaseInv, NEW f \in Files, fstream(f)
    PROVE  /\ mode[f] = "null" /\ mode' = [mode EXCEPT ![f] = plan[f]]
           /\ content' = IF plan[f] \in {"w", "w+"} THEN << >> ELSE content
           /\ pointer' = [pointer EXCEPT ![f] =
                             IF platform = "win32" /\ appends(plan[f])
                             THEN Len(content) ELSE 0]
           /\ UNCHANGED <<plan, platform, closed, read_pos, write_pos>>
           /\ UNCHANGED <<durable, got, acked, flushed>>
           /\ \A c \in Callers : Same(c)
           /\ \A c \in Callers : pc[c] = "wait" => req[c].f # f
<1>1. mode[f] = "null"
  BY DEF fstream
<1>2. \A c \in Callers : pc[c] = "wait" => req[c].f # f
  BY <1>1 DEF BaseInv, RequestsFormed
<1>3. \A c \in Callers : Same(c)
  BY DEF fstream, callVars, Same
<1>. QED
  BY <1>1, <1>2, <1>3 DEF fstream, history

LEMMA SubmitSees ==
    ASSUME BaseInv, NEW c \in Callers, NEW f \in Files, NEW r \in Requests,
           Submits(c, f, r)
    PROVE  /\ UNCHANGED <<plan, mode, closed, fd, read_pos, write_pos>>
           /\ UNCHANGED <<platform, content, durable, table, pointer>>
           /\ UNCHANGED <<got, acked, flushed>>
           /\ pc'[c] = "wait" /\ req'[c] = r
           /\ RequestFor(f, r) /\ mode[f] # "null"
           /\ \A d \in Callers \ {c} : Same(d)
           /\ NotShared => \A d \in Callers : pc[d] = "wait" => req[d].f # f
<1>1. /\ UNCHANGED <<plan, mode, closed, fd, read_pos, write_pos>>
      /\ UNCHANGED <<platform, content, durable, table, pointer>>
      /\ UNCHANGED <<got, acked, flushed>>
      /\ req' = [req EXCEPT ![c] = r] /\ pc' = [pc EXCEPT ![c] = "wait"]
      /\ RequestFor(f, r) /\ mode[f] # "null"
  BY DEF Submits, Submit, Idle, fileVars, osVars, history
<1>2. pc'[c] = "wait" /\ req'[c] = r /\ \A d \in Callers \ {c} : Same(d)
  BY <1>1 DEF BaseInv, Types, CallTypes, Same
<1>3. NotShared => \A d \in Callers : pc[d] = "wait" => req[d].f # f
  BY DEF Submits, Idle, InUse, NotShared
<1>. QED
  BY <1>1, <1>2, <1>3

LEMMA WorkSees ==
    ASSUME BaseInv, NEW c \in Callers, fs_work(c)
    PROVE  /\ UNCHANGED <<plan, mode, closed, fd, read_pos, write_pos>>
           /\ UNCHANGED <<platform, table, got, acked, flushed>>
           /\ pc[c] = "wait" /\ pc'[c] = "wait"
           /\ req'[c].f = req[c].f /\ req'[c].op = req[c].op
           /\ req'[c].fd = req[c].fd /\ req'[c].off = req[c].off
           /\ \A n, data : Completes(c, n, data) =>
                 req'[c].result = n /\ req'[c].data = data
           /\ \A d \in Callers \ {c} : Same(d)
<1>1. /\ pc[c] = "wait" /\ req \in [Callers -> Requests] /\ Rest
  BY WorkersServeCalls DEF BaseInv, Types, CallTypes, Rest
<1>2. /\ UNCHANGED <<plan, mode, closed, fd, read_pos, write_pos>>
      /\ UNCHANGED <<platform, table, pc, got, acked, flushed>>
  BY DEF fs_work, fileVars, history
<1>3. ASSUME NEW n, NEW data, Completes(c, n, data)
      PROVE  /\ req'[c].f = req[c].f /\ req'[c].op = req[c].op
             /\ req'[c].fd = req[c].fd /\ req'[c].off = req[c].off
             /\ req'[c].result = n /\ req'[c].data = data
             /\ \A d \in Callers \ {c} : req'[d] = req[d]
  <2> DEFINE q == [req[c] EXCEPT !.result = n, !.data = data]
  <2>1. req[c] \in Requests
    BY <1>1
  <2>2. /\ q.result = n /\ q.data = data
        /\ q.f = req[c].f /\ q.op = req[c].op
        /\ q.fd = req[c].fd /\ q.off = req[c].off
    BY <2>1 DEF Requests
  <2>3. req' = [req EXCEPT ![c] = q]
    BY <1>1, <1>3 DEF Completes, Requests
  <2>. HIDE DEF q
  <2>. QED
    BY <1>1, <2>2, <2>3
<1>4. \E n, data : Completes(c, n, data)
  BY <1>1, WorkEffect
<1>. QED
  BY <1>1, <1>2, <1>3, <1>4 DEF Same

LEMMA CompleteSees ==
    ASSUME BaseInv, NEW c \in Callers, complete(c)
    PROVE  /\ UNCHANGED <<plan, mode, closed, fd>>
           /\ UNCHANGED <<platform, content, durable, table, pointer>>
           /\ pc[c] = "wait" /\ pc'[c] # "wait"
           /\ req[c].f \in Files /\ req[c].result \in Nat \cup {-1}
           /\ req[c].data \in Seq(Units)
           /\ \A d \in Callers \ {c} : Same(d)
           /\ \A f \in Files : f # req[c].f =>
                 /\ read_pos'[f] = read_pos[f] /\ write_pos'[f] = write_pos[f]
                 /\ got'[f] = got[f] /\ acked'[f] = acked[f]
                 /\ flushed'[f] = flushed[f]
<1>1. /\ UNCHANGED <<plan, mode, closed, fd, platform, content, durable, table, pointer>>
      /\ pc' = [pc EXCEPT ![c] = "idle"] /\ req' = [req EXCEPT ![c] = NoReq]
      /\ pc[c] = "wait"
  BY DEF complete, MayRun, Finish, osVars
<1>2. /\ req[c].f \in Files /\ req[c].result \in Nat \cup {-1}
      /\ req[c].data \in Seq(Units)
  BY <1>1 DEF BaseInv, Types, CallTypes, RequestsFormed, Requests
<1>3. \A d \in Callers \ {c} : Same(d)
  BY <1>1 DEF BaseInv, Types, CallTypes, Same
<1>4. pc'[c] # "wait"
  BY <1>1 DEF BaseInv, Types, CallTypes
<1>5. ASSUME NEW f \in Files, f # req[c].f
      PROVE  /\ read_pos'[f] = read_pos[f] /\ write_pos'[f] = write_pos[f]
             /\ got'[f] = got[f] /\ acked'[f] = acked[f]
             /\ flushed'[f] = flushed[f]
  <2>0. /\ read_pos \in [Files -> Nat] /\ write_pos \in [Files -> Nat]
        /\ got \in [Files -> Seq(Units)] /\ acked \in [Files -> Seq(Units)]
        /\ flushed \in [Files -> Seq(Units)]
    BY DEF BaseInv, Types, FileTypes, DataTypes
  <2>1. CASE end_read(c) /\ UNCHANGED <<write_pos, acked, flushed>>
    BY <1>5, <2>0, <2>1 DEF end_read
  <2>2. CASE end_write(c) /\ UNCHANGED <<read_pos, got, flushed>>
    BY <1>5, <2>0, <2>2 DEF end_write
  <2>3. CASE end_flush(c) /\ UNCHANGED <<read_pos, write_pos, got, acked>>
    BY <1>5, <2>0, <2>3 DEF end_flush
  <2>. QED
    BY <2>1, <2>2, <2>3 DEF complete, Finish
<1>. QED
  BY <1>1, <1>2, <1>3, <1>4, <1>5

\* The end of each call, on its own file.
LEMMA EndsSee ==
    ASSUME BaseInv, NEW c \in Callers, complete(c)
    PROVE  LET r == req[c] IN
           /\ \/ /\ r.op = "read" /\ r.result > 0
                 /\ read_pos'[r.f] = read_pos[r.f] + r.result
                 /\ got'[r.f] = got[r.f] \o r.data
              \/ read_pos'[r.f] = read_pos[r.f] /\ got'[r.f] = got[r.f]
           /\ \/ /\ r.op = "write" /\ r.result > 0
                 /\ write_pos'[r.f] = IF is_append(r.f) THEN write_pos[r.f]
                                      ELSE write_pos[r.f] + r.result
                 /\ acked'[r.f] = acked[r.f] \o SubSeq(r.data, 1, r.result)
              \/ write_pos'[r.f] = write_pos[r.f] /\ acked'[r.f] = acked[r.f]
           /\ \/ /\ r.op = "flush" /\ r.result >= 0
                 /\ flushed'[r.f] = acked[r.f] /\ acked'[r.f] = acked[r.f]
              \/ flushed'[r.f] = flushed[r.f]
<1> DEFINE r == req[c]
<1>0. /\ r.f \in Files
      /\ read_pos \in [Files -> Nat] /\ write_pos \in [Files -> Nat]
      /\ got \in [Files -> Seq(Units)] /\ acked \in [Files -> Seq(Units)]
      /\ flushed \in [Files -> Seq(Units)]
  BY CompleteSees DEF BaseInv, Types, FileTypes, DataTypes
<1>1. CASE r.op = "read" /\ end_read(c) /\ UNCHANGED <<write_pos, acked, flushed>>
  BY <1>0, <1>1 DEF end_read
<1>2. CASE r.op = "write" /\ end_write(c) /\ UNCHANGED <<read_pos, got, flushed>>
  BY <1>0, <1>2 DEF end_write
<1>3. CASE r.op = "flush" /\ end_flush(c) /\ UNCHANGED <<read_pos, write_pos, got, acked>>
  BY <1>0, <1>3 DEF end_flush
<1>. QED
  BY <1>1, <1>2, <1>3 DEF complete, Finish

-----------------------------------------------------------------------------
(* Of scripts that do not use one handle in two calls at once: the types   *)
(* and bounds.                                                             *)

LEMMA AloneStep ==
    ASSUME NotShared, BaseInv, AloneInv, [Next]_vars
    PROVE  AloneInv'
<1>0. Types /\ RequestsFormed
  BY DEF BaseInv
<1>. USE DEF AloneInv, RequestsAlone, RequestsCurrent, PositionsBounded, is_append
<1>1. CASE Quiet
  BY <1>1, QuietSees DEF Same
<1>2. ASSUME NEW f \in Files, close(f)
      PROVE  AloneInv'
  BY <1>2, CloseSees DEF Same
<1>3. ASSUME NEW f \in Files, fstream(f)
      PROVE  AloneInv'
  <2>0. mode' = [mode EXCEPT ![f] = plan[f]] /\ mode \in [Files -> Modes \cup {"null"}]
    BY <1>0, <1>3, OpenSees DEF Types, FileTypes
  <2>1. \A c \in Callers : pc[c] = "wait" => mode'[req[c].f] = mode[req[c].f]
    BY <1>0, <1>3, <2>0, OpenSees DEF RequestsFormed
  <2>. QED
    BY <1>3, <2>1, OpenSees DEF Same
<1>4. ASSUME NEW c \in Callers, NEW f \in Files, NEW r \in Requests, Submits(c, f, r)
      PROVE  AloneInv'
  <2>1. /\ r.f = f
        /\ r.op = "read" => r.off = read_pos[f]
        /\ r.op = "write" /\ ~is_append(f) =>
              r.off = write_pos[f] /\ write_pos[f] + Len(r.data) <= MaxLen
    <3>1. RequestFor(f, r)
      BY <1>4, SubmitSees
    <3>2. Len(r.data) \in Nat /\ write_pos[f] \in Nat
      BY <1>0, LenProperties DEF Types, FileTypes, Requests
    <3>. QED
      BY <3>1, <3>2 DEF RequestFor, write_offset, Fits
  <2>. QED
    BY <1>4, <2>1, SubmitSees DEF Same
<1>5. ASSUME NEW c \in Callers, fs_work(c)
      PROVE  AloneInv'
  <2>1. /\ fs_read(c) => req[c].op = "read"
        /\ fs_sync(c) => req[c].op = "flush"
        /\ \A at : fs_write(c, at) => \E n : Completes(c, n, req[c].data)
        /\ fs_error(c) => Completes(c, -1, req[c].data)
    BY DEF fs_read, fs_sync, fs_write, fs_error
  <2>2. req[c].op = "write" => req'[c].data = req[c].data
    BY <1>5, <2>1, WorkSees DEF fs_work
  <2>. QED
    BY <1>5, <2>2, WorkSees DEF Same
<1>6. ASSUME NEW c \in Callers, complete(c)
      PROVE  AloneInv'
  <2> DEFINE f0 == req[c].f
  <2>1. /\ f0 \in Files /\ req[c].result \in Nat \cup {-1}
        /\ req[c].result <= Len(req[c].data) /\ Len(req[c].data) \in Nat
        /\ write_pos[f0] \in Nat /\ MaxLen \in Nat
    BY <1>0, <1>6, CompleteSees, LenProperties, FileAssumption
    DEF RequestsFormed, Types, FileTypes
  <2>a. write_pos[f0] <= MaxLen /\ pc[c] = "wait"
    BY <1>6, <2>1, CompleteSees
  <2>b. req[c].op = "write" /\ ~is_append(f0) =>
           write_pos[f0] + Len(req[c].data) <= MaxLen
    BY <2>a
  <2>c. \/ /\ req[c].op = "write"
           /\ write_pos'[f0] = IF is_append(f0) THEN write_pos[f0]
                               ELSE write_pos[f0] + req[c].result
        \/ write_pos'[f0] = write_pos[f0]
    BY <1>6, EndsSee
  <2>2. write_pos'[f0] <= MaxLen
    <3>. USE <2>1, <2>a
    <3>1. CASE is_append(f0) \/ write_pos'[f0] = write_pos[f0]
      BY <2>c, <3>1
    <3>2. CASE /\ req[c].op = "write" /\ ~is_append(f0)
               /\ write_pos'[f0] = write_pos[f0] + req[c].result
      BY <2>b, <3>2
    <3>. QED
      BY <2>c, <3>1, <3>2
  <2>3. PositionsBounded'
    BY <1>6, <2>1, <2>2, CompleteSees
  <2>4. \A d \in Callers \ {c} : pc[d] = "wait" => req[d].f \in Files /\ req[d].f # f0
    BY <1>0, <1>6, CompleteSees DEF RequestsFormed
  <2>. QED
    BY <1>6, <2>3, <2>4, CompleteSees DEF Same
<1>. QED
  BY <1>0, <1>1, <1>2, <1>3, <1>4, <1>5, <1>6, NextCases DEF Loud

LEMMA AloneAlways ==
    ASSUME NotShared
    PROVE  Spec => [](BaseInv /\ AloneInv)
<1>1. Init => AloneInv
  BY FileAssumption
  DEF Init, AloneInv, RequestsAlone, RequestsCurrent, PositionsBounded
<1>2. BaseInv /\ AloneInv /\ [Next]_vars => (BaseInv /\ AloneInv)'
  BY BaseStep, AloneStep
<1>. QED
  BY <1>1, <1>2, BaseInit, PTL DEF Spec

\* Every variable keeps its type; in particular no write position passes the
\* length a write was admitted for, whatever is short, late or cancelled.
THEOREM TypesAreRight ==
    ASSUME NotShared
    PROVE  Spec => []TypeOK
<1>1. BaseInv /\ AloneInv => TypeOK
  <2> SUFFICES ASSUME BaseInv, AloneInv
               PROVE  TypeOK
    OBVIOUS
  <2>1. Types /\ MaxLen \in Nat /\ \A f \in Files : write_pos[f] <= MaxLen
    BY FileAssumption DEF BaseInv, AloneInv, PositionsBounded
  <2>2. \A f \in Files : /\ fd[f] \in Fds \cup {-1}
                         /\ read_pos[f] \in Nat /\ write_pos[f] \in 0..MaxLen
    BY <2>1 DEF Types, FileTypes
  <2>. QED
    BY <2>1, <2>2 DEF TypeOK, Types, PoolTypes, FileTypes, CallTypes
<1>. QED
  BY <1>1, AloneAlways, PTL

-----------------------------------------------------------------------------
(* Of scripts that do not close a handle during a call on it: descriptors. *)

LEMMA OwnedStep ==
    ASSUME BaseInv, DescriptorsOwned, [Next]_vars
    PROVE  DescriptorsOwned'
<1>0. /\ Types /\ RequestsFormed /\ Free \notin Files
      /\ mode \in [Files -> Modes \cup {"null"}] /\ closed \in [Files -> BOOLEAN]
      /\ fd \in [Files -> Fds \cup {-1}] /\ table \in [Fds -> Files \cup {Free}]
      /\ -1 \notin Fds
  BY Constants DEF BaseInv, Types, FileTypes
<1>. USE DEF DescriptorsOwned
<1>1. ASSUME UNCHANGED <<mode, closed, fd, table>>
      PROVE  DescriptorsOwned'
  BY <1>1
<1>2. ASSUME NEW f \in Files, close(f)
      PROVE  DescriptorsOwned'
  <2>1. CASE closed[f]
    BY <1>1, <1>2, <2>1 DEF close
  <2>2. CASE ~closed[f]
    <3>1. /\ mode' = mode /\ mode[f] # "null"
          /\ closed' = [closed EXCEPT ![f] = TRUE]
          /\ table' = [table EXCEPT ![fd[f]] = Free]
          /\ fd' = [fd EXCEPT ![f] = -1]
          /\ fd[f] \in Fds /\ table[fd[f]] = f
      BY <1>2, <2>2 DEF close
    <3>2. \A g \in Files \ {f} : closed'[g] = closed[g] /\ fd'[g] = fd[g]
      BY <1>0, <3>1
    <3>3. closed'[f] /\ fd'[f] = -1 /\ table'[fd[f]] = Free
      BY <1>0, <3>1
    <3>4. \A d \in Fds \ {fd[f]} : table'[d] = table[d]
      BY <1>0, <3>1
    <3>5. \A g \in Files \ {f} : fd[g] \in Fds /\ table[fd[g]] = g => fd[g] # fd[f]
      BY <3>1
    <3>6. \A g \in Files :
             /\ mode'[g] = "null" => ~closed'[g] /\ fd'[g] = -1
             /\ closed'[g] => fd'[g] = -1
             /\ mode'[g] # "null" /\ ~closed'[g] => fd'[g] \in Fds /\ table'[fd'[g]] = g
      BY <1>0, <3>1, <3>2, <3>3, <3>4, <3>5
    <3>7. \A d \in Fds : table'[d] # Free => fd'[table'[d]] = d
      <4> SUFFICES ASSUME NEW d \in Fds, table'[d] # Free
                   PROVE  fd'[table'[d]] = d
        OBVIOUS
      <4>1. d # fd[f] /\ table'[d] = table[d]
        BY <3>3, <3>4
      <4>2. table[d] \in Files /\ fd[table[d]] = d
        BY <1>0, <4>1
      <4>. QED
        BY <3>2, <4>1, <4>2
    <3>. QED
      BY <3>6, <3>7
  <2>. QED
    BY <2>1, <2>2
<1>3. ASSUME NEW f \in Files, fstream(f)
      PROVE  DescriptorsOwned'
  <2>1. PICK d \in Fds : /\ table[d] = Free
                         /\ table' = [table EXCEPT ![d] = f]
                         /\ fd' = [fd EXCEPT ![f] = d]
    BY <1>3 DEF fstream
  <2>2. /\ mode[f] = "null" /\ mode' = [mode EXCEPT ![f] = plan[f]]
        /\ closed' = closed /\ ~closed[f] /\ fd[f] = -1
    BY <1>3, OpenSees
  <2>3. /\ fd'[f] = d /\ table'[d] = f
        /\ \A g \in Files \ {f} : fd'[g] = fd[g] /\ mode'[g] = mode[g]
        /\ \A e \in Fds \ {d} : table'[e] = table[e]
    BY <1>0, <2>1, <2>2
  <2>4. \A g \in Files \ {f} : fd[g] \in Fds /\ table[fd[g]] = g => fd[g] # d
    BY <1>0, <2>1
  <2>5. mode'[f] # "null"
    <3>1. plan[f] \in Modes \cup {"unused"}
      BY <1>0, Constants DEF Types, FileTypes
    <3>. QED
      BY <1>0, <2>2, <3>1 DEF Modes
  <2>6. \A g \in Files :
           /\ mode'[g] = "null" => ~closed'[g] /\ fd'[g] = -1
           /\ closed'[g] => fd'[g] = -1
           /\ mode'[g] # "null" /\ ~closed'[g] => fd'[g] \in Fds /\ table'[fd'[g]] = g
    BY <2>2, <2>3, <2>4, <2>5
  <2>7. \A e \in Fds : table'[e] # Free => fd'[table'[e]] = e
    <3> SUFFICES ASSUME NEW e \in Fds, e # d, table[e] # Free
                 PROVE  fd'[table[e]] = e
      BY <2>3
    <3>1. table[e] \in Files /\ fd[table[e]] = e
      BY <1>0
    <3>2. table[e] # f
      BY <1>0, <2>2, <3>1
    <3>. QED
      BY <2>3, <3>1, <3>2
  <2>. QED
    BY <2>6, <2>7
<1>4. CASE Quiet
  BY <1>1, <1>4, QuietSees
<1>5. ASSUME NEW c \in Callers, NEW f \in Files, NEW r \in Requests, Submits(c, f, r)
      PROVE  DescriptorsOwned'
  BY <1>1, <1>5, SubmitSees
<1>6. ASSUME NEW c \in Callers, fs_work(c) \/ complete(c)
      PROVE  DescriptorsOwned'
  BY <1>1, <1>6, WorkSees, CompleteSees
<1>. QED
  BY <1>0, <1>2, <1>3, <1>4, <1>5, <1>6, NextCases DEF Loud

LEMMA OnOpenStep ==
    ASSUME NotClosedInUse, BaseInv, OwnInv, [Next]_vars
    PROVE  RequestsOnOpen'
<1>0. Types /\ RequestsFormed /\ DescriptorsOwned /\ RequestsOnOpen
  BY DEF BaseInv, OwnInv
<1>. USE DEF RequestsOnOpen
<1>1. CASE Quiet
  BY <1>0, <1>1, QuietSees DEF Same
<1>2. ASSUME NEW f \in Files, close(f)
      PROVE  RequestsOnOpen'
  <2>1. \A c \in Callers : pc[c] = "wait" => req[c].f \in Files /\ req[c].f # f
    BY <1>0, <1>2 DEF close, NotClosedInUse, InUse, RequestsFormed
  <2>2. \A g \in Files \ {f} : closed'[g] = closed[g] /\ fd'[g] = fd[g]
    BY <1>0, <1>2 DEF close, Types, FileTypes
  <2>. QED
    BY <1>0, <1>2, <2>1, <2>2, CloseSees DEF Same
<1>3. ASSUME NEW f \in Files, fstream(f)
      PROVE  RequestsOnOpen'
  <2>1. \A c \in Callers : pc[c] = "wait" => req[c].f \in Files /\ req[c].f # f
    BY <1>0, <1>3, OpenSees DEF RequestsFormed
  <2>2. \A g \in Files \ {f} : fd'[g] = fd[g]
    BY <1>0, <1>3 DEF fstream, Types, FileTypes
  <2>. QED
    BY <1>0, <1>3, <2>1, <2>2, OpenSees DEF Same
<1>4. ASSUME NEW c \in Callers, NEW f \in Files, NEW r \in Requests, Submits(c, f, r)
      PROVE  RequestsOnOpen'
  <2>1. r.f = f /\ r.fd = fd[f] /\ ~closed[f]
    BY <1>4, SubmitSees DEF RequestFor
  <2>. QED
    BY <1>0, <1>4, <2>1, SubmitSees DEF Same
<1>5. ASSUME NEW c \in Callers, fs_work(c)
      PROVE  RequestsOnOpen'
  BY <1>0, <1>5, WorkSees DEF Same
<1>6. ASSUME NEW c \in Callers, complete(c)
      PROVE  RequestsOnOpen'
  BY <1>0, <1>6, CompleteSees DEF Same
<1>. QED
  BY <1>0, <1>1, <1>2, <1>3, <1>4, <1>5, <1>6, NextCases DEF Loud

LEMMA OwnInit == Init => OwnInv
<1>1. Free \notin Files /\ -1 \notin Fds
  BY Constants
<1>. QED
  BY <1>1 DEF Init, OwnInv, DescriptorsOwned, RequestsOnOpen

LEMMA OnTheirFile ==
    ASSUME BaseInv, OwnInv, NEW c \in Callers, pc[c] = "wait"
    PROVE  table[req[c].fd] = req[c].f
BY DEF BaseInv, RequestsFormed, OwnInv, DescriptorsOwned, RequestsOnOpen

\* However handles are opened and closed, and closed again, a worker always
\* finds under the number of a request the file the request was made for.
THEOREM RequestsKeepTheirFile ==
    ASSUME NotClosedInUse
    PROVE  Spec => []RequestsHitTheirFile
<1>1. BaseInv /\ OwnInv /\ [Next]_vars => (BaseInv /\ OwnInv)'
  BY BaseStep, OwnedStep, OnOpenStep DEF OwnInv
<1>2. BaseInv /\ OwnInv => RequestsHitTheirFile
  BY OnTheirFile DEF RequestsHitTheirFile
<1>. QED
  BY <1>1, <1>2, BaseInit, OwnInit, PTL DEF Spec

-----------------------------------------------------------------------------
(* The data, of scripts that synchronize as the header of class file asks. *)

Synchronized == NotShared /\ NotClosedInUse

SyncInv == BaseInv /\ AloneInv /\ OwnInv

LEMMA SyncInit == Init => SyncInv
<1>1. Init => AloneInv
  BY FileAssumption
  DEF Init, AloneInv, RequestsAlone, RequestsCurrent, PositionsBounded
<1>. QED
  BY <1>1, BaseInit, OwnInit DEF SyncInv

LEMMA SyncStep ==
    ASSUME Synchronized, SyncInv, [Next]_vars
    PROVE  SyncInv'
BY BaseStep, AloneStep, OwnedStep, OnOpenStep DEF Synchronized, SyncInv, OwnInv

\* A call that waits on f is the only one.
LEMMA OnlyOne ==
    ASSUME SyncInv, NEW c \in Callers, pc[c] = "wait"
    PROVE  \A d \in Callers \ {c} : \A what : ~Did(d, req[c].f, what)
BY DEF SyncInv, AloneInv, RequestsAlone, Did

\* A worker reads, writes, syncs or fails on the very file of the request.
Reads(c) ==
    LET data == Available(req[c].off, req[c].size) IN
    /\ req[c].op = "read" /\ Completes(c, Len(data), data)
    /\ content' = content /\ durable' = durable /\ pointer' = pointer

\* A write at the handle's own offset.
Own(c) == req[c].off = -1 /\ ~O_APPEND(req[c].f)

Writes(c, n) ==
    LET f == req[c].f
        data == SubSeq(req[c].data, 1, n)
    IN
    /\ req[c].op = "write" /\ writable(mode[f])
    /\ n \in Nat /\ n <= Len(req[c].data)
    /\ Completes(c, n, req[c].data)
    /\ content' = IF O_APPEND(f) THEN content \o data
                  ELSE Overwritten(IF Own(c) THEN pointer[f] ELSE req[c].off, data)
    /\ durable' = durable
    /\ pointer' = [pointer EXCEPT ![f] = IF Own(c) THEN @ + n ELSE @]

Syncs(c) ==
    /\ req[c].op = "flush" /\ Completes(c, 0, << >>)
    /\ content' = content /\ durable' = content /\ pointer' = pointer

Fails(c) ==
    /\ Completes(c, -1, req[c].data)
    /\ content' = content /\ durable' = durable /\ pointer' = pointer

LEMMA WorkCases ==
    ASSUME SyncInv, NEW c \in Callers, fs_work(c)
    PROVE  Reads(c) \/ (\E n \in Nat : Writes(c, n)) \/ Syncs(c) \/ Fails(c)
<1> DEFINE at == table[req[c].fd]
<1>1. pc[c] = "wait" /\ BaseInv /\ OwnInv
  BY WorkersServeCalls DEF SyncInv
<1>2. at = req[c].f
  BY <1>1, OnTheirFile
<1>3. req[c].data \in Seq(Units) /\ Len(req[c].data) \in Nat
  BY <1>1, LenProperties DEF BaseInv, Types, CallTypes, Requests
<1>4. ASSUME Permits(at, req[c].op), fs_write(c, at)
      PROVE  \E n \in Nat : Writes(c, n)
  <2>1. PICK n \in IF "short_write" \in Faults THEN 1..Len(req[c].data)
                   ELSE {Len(req[c].data)} :
           LET data == SubSeq(req[c].data, 1, n)
               own == req[c].off = -1 /\ ~O_APPEND(at)
           IN
           /\ content' = IF O_APPEND(at) THEN content \o data
                         ELSE Overwritten(IF own THEN pointer[at] ELSE req[c].off, data)
           /\ pointer' = [pointer EXCEPT ![at] = IF own THEN @ + n ELSE @]
           /\ Completes(c, n, req[c].data)
    BY <1>4 DEF fs_write
  <2>2. n \in Nat /\ n <= Len(req[c].data)
    BY <1>3, <2>1
  <2>3. req[c].op = "write" /\ writable(mode[req[c].f]) /\ durable' = durable
    BY <1>2, <1>4 DEF fs_write, Permits
  <2>. QED
    BY <1>2, <2>1, <2>2, <2>3 DEF Writes, Own
<1>5. fs_read(c) => Reads(c)
  BY DEF fs_read, Reads
<1>6. fs_sync(c) => Syncs(c)
  BY DEF fs_sync, Syncs
<1>7. fs_error(c) => Fails(c)
  BY DEF fs_error, Fails
<1>. QED
  BY <1>4, <1>5, <1>6, <1>7 DEF fs_work

\* Where appending is the handle's own offset, it is the end of a file that
\* is only appended to.
PointerInv ==
    OnlyAppended => \A f \in Files :
        is_append(f) /\ platform = "win32" => pointer[f] = Len(content)

LEMMA AtTheEnd ==
    ASSUME NEW data \in Seq(Units), content \in Seq(Units)
    PROVE  Overwritten(Len(content), data) = content \o data
<1>1. Len(content) \in Nat /\ Len(data) \in Nat
  BY LenProperties
<1> DEFINE n == Len(content)
           over == Overwritten(n, data)
<1>2. /\ over \in Seq(Units) /\ Len(over) = n + Len(data)
      /\ \A i \in 1..Len(over) :
            over[i] = IF i \in (n + 1)..(n + Len(data)) THEN data[i - n]
                      ELSE IF i <= n THEN content[i] ELSE Zero
  BY <1>1, OverwrittenIs
<1>3. /\ content \o data \in Seq(Units) /\ Len(content \o data) = n + Len(data)
      /\ \A i \in 1..(n + Len(data)) :
            (content \o data)[i] = IF i <= n THEN content[i] ELSE data[i - n]
  BY <1>1, ConcatProperties
<1>4. ASSUME NEW i \in 1..Len(over)
      PROVE  over[i] = (content \o data)[i]
  BY <1>1, <1>2, <1>3
<1>. HIDE DEF over, n
<1>. QED
  BY <1>2, <1>3, <1>4, SeqEqual DEF over, n

\* A write to a file that is only appended to is an append, and the writer's
\* offset stays at the end.
LEMMA WritesAppend ==
    ASSUME SyncInv, OnlyAppended, PointerInv, NEW c \in Callers, NEW n \in Nat,
           fs_work(c), Writes(c, n)
    PROVE  /\ req[c].f \in Files /\ is_append(req[c].f)
           /\ SubSeq(req[c].data, 1, n) \in Seq(Units)
           /\ content' = content \o SubSeq(req[c].data, 1, n)
           /\ platform = "win32" => pointer'[req[c].f] = Len(content')
<1> DEFINE f == req[c].f
           data == SubSeq(req[c].data, 1, n)
<1>0. /\ BaseInv /\ Types /\ RequestsFormed /\ pc[c] = "wait"
      /\ content \in Seq(Units) /\ Len(content) \in Nat
      /\ platform \in {"posix", "win32"} /\ pointer \in [Files -> Nat]
  BY WorkersServeCalls, LenProperties, FileAssumption
  DEF SyncInv, BaseInv, Types, DataTypes
<1>1. f \in Files /\ req[c].op = "write" /\ n <= Len(req[c].data)
  BY <1>0 DEF RequestsFormed, Writes
<1>2. mode[f] \in {"null", "unused", "r", "a", "a+"}
  BY <1>1 DEF SyncInv, BaseInv, Planned, OnlyAppended
<1>3. is_append(f)
  BY <1>2 DEF Writes, writable, is_append, appends
<1>4. data \in Seq(Units) /\ Len(data) = n
  BY <1>0, <1>1, PrefixIs DEF Types, CallTypes, Requests
<1>5. CASE platform = "posix"
  <2>1. O_APPEND(f)
    BY <1>3, <1>5 DEF O_APPEND
  <2>2. content' = content \o data
    BY <2>1 DEF Writes
  <2>. QED
    BY <1>1, <1>3, <1>4, <1>5, <2>2
<1>6. CASE platform = "win32"
  <2>1. req[c].off = -1
    BY <1>0, <1>1, <1>3 DEF RequestsFormed
  <2>2. ~O_APPEND(f) /\ Own(c)
    BY <1>6, <2>1 DEF O_APPEND, Own
  <2>3. pointer[f] = Len(content)
    BY <1>1, <1>3, <1>6 DEF PointerInv
  <2>4. content' = Overwritten(Len(content), data)
    BY <2>2, <2>3 DEF Writes
  <2>5. content' = content \o data
    BY <1>0, <1>4, <2>4, AtTheEnd
  <2>6. pointer' = [pointer EXCEPT ![f] = pointer[f] + n]
    BY <2>2 DEF Writes
  <2>7. pointer'[f] = Len(content) + n
    BY <1>0, <1>1, <2>3, <2>6
  <2>8. Len(content') = Len(content) + n
    <3>. HIDE DEF data
    <3>. QED
      BY <1>0, <1>4, <2>5, ConcatProperties
  <2>. QED
    BY <1>1, <1>3, <1>4, <2>5, <2>7, <2>8
<1>. QED
  BY <1>0, <1>5, <1>6

LEMMA PointerStep ==
    ASSUME SyncInv, PointerInv, [Next]_vars
    PROVE  PointerInv'
<1>0. /\ BaseInv /\ Types /\ RequestsFormed /\ Planned
      /\ plan' = plan /\ platform' = platform
      /\ mode \in [Files -> Modes \cup {"null"}]
      /\ pointer \in [Files -> Nat] /\ Len(content) \in Nat
  <2>1. /\ BaseInv /\ Types /\ RequestsFormed /\ Planned
        /\ mode \in [Files -> Modes \cup {"null"}]
        /\ pointer \in [Files -> Nat] /\ Len(content) \in Nat
    BY LenProperties DEF SyncInv, BaseInv, Types, FileTypes, DataTypes
  <2>. QED
    BY <2>1, NextCases, QuietSees, CloseSees, OpenSees, SubmitSees, WorkSees,
       CompleteSees DEF Loud
<1> SUFFICES ASSUME OnlyAppended, platform = "win32", NEW f \in Files, is_append(f)'
             PROVE  pointer'[f] = Len(content')
  BY <1>0 DEF PointerInv, OnlyAppended, appends
<1>1. mode'[f] = mode[f] => is_append(f) /\ pointer[f] = Len(content)
  BY DEF PointerInv, is_append
<1>2. \A g \in Files : appends(plan[f]) /\ appends(plan[g]) => g = f
  BY DEF OnlyAppended
<1>3. CASE Quiet
  BY <1>0, <1>1, <1>3, QuietSees
<1>4. ASSUME NEW g \in Files, close(g)
      PROVE  pointer'[f] = Len(content')
  BY <1>0, <1>1, <1>4, CloseSees
<1>5. ASSUME NEW g \in Files, fstream(g)
      PROVE  pointer'[f] = Len(content')
  <2>1. /\ mode' = [mode EXCEPT ![g] = plan[g]]
        /\ pointer' = [pointer EXCEPT ![g] = IF appends(plan[g]) THEN Len(content) ELSE 0]
        /\ content' = IF plan[g] \in {"w", "w+"} THEN << >> ELSE content
    BY <1>0, <1>5, OpenSees
  <2>2. content' = content
    BY <2>1 DEF OnlyAppended
  <2>3. CASE g = f
    <3>1. appends(plan[f])
      BY <1>0, <2>1, <2>3 DEF is_append
    <3>. QED
      BY <1>0, <2>1, <2>2, <2>3, <3>1
  <2>4. CASE g # f
    BY <1>0, <1>1, <2>1, <2>2, <2>4
  <2>. QED
    BY <2>3, <2>4
<1>6. ASSUME NEW c \in Callers, NEW g \in Files, NEW r \in Requests, Submits(c, g, r)
      PROVE  pointer'[f] = Len(content')
  BY <1>0, <1>1, <1>6, SubmitSees
<1>7. ASSUME NEW c \in Callers, fs_work(c)
      PROVE  pointer'[f] = Len(content')
  <2>1. mode' = mode
    BY <1>0, <1>7, WorkSees
  <2>2. ASSUME NEW n \in Nat, Writes(c, n)
        PROVE  pointer'[f] = Len(content')
    <3>1. /\ req[c].f \in Files /\ is_append(req[c].f)
          /\ pointer'[req[c].f] = Len(content')
      BY <1>7, <2>2, WritesAppend
    <3>2. appends(plan[f]) /\ appends(plan[req[c].f])
      BY <1>0, <1>1, <2>1, <3>1 DEF is_append, appends, Planned
    <3>. QED
      BY <1>2, <3>1, <3>2
  <2>. QED
    BY <1>1, <1>7, <2>1, <2>2, WorkCases DEF Reads, Syncs, Fails
<1>8. ASSUME NEW c \in Callers, complete(c)
      PROVE  pointer'[f] = Len(content')
  BY <1>0, <1>1, <1>8, CompleteSees
<1>. QED
  BY <1>0, <1>3, <1>4, <1>5, <1>6, <1>7, <1>8, NextCases DEF Loud

LEMMA PointerInit == Init => PointerInv
BY DEF Init, PointerInv, is_append, appends

\* A file nobody overwrites only grows.
Grows == content' = content \/ \E t \in Seq(Units) : content' = content \o t

LEMMA OnlyGrows ==
    ASSUME SyncInv, OnlyAppended, PointerInv, [Next]_vars
    PROVE  Grows
<1>0. BaseInv /\ Types /\ RequestsFormed
  BY DEF SyncInv, BaseInv
<1>1. CASE Quiet
  BY <1>0, <1>1, QuietSees DEF Grows
<1>2. ASSUME NEW f \in Files, close(f)
      PROVE  Grows
  BY <1>0, <1>2, CloseSees DEF Grows
<1>3. ASSUME NEW f \in Files, fstream(f)
      PROVE  Grows
  BY <1>0, <1>3, OpenSees DEF Grows, OnlyAppended
<1>4. ASSUME NEW c \in Callers, NEW f \in Files, NEW r \in Requests, Submits(c, f, r)
      PROVE  Grows
  BY <1>0, <1>4, SubmitSees DEF Grows
<1>5. ASSUME NEW c \in Callers, fs_work(c)
      PROVE  Grows
  <2>1. ASSUME NEW n \in Nat, Writes(c, n)
        PROVE  Grows
    BY <1>5, <2>1, WritesAppend DEF Grows
  <2>. QED
    BY <1>5, <2>1, WorkCases DEF Reads, Syncs, Fails, Grows
<1>6. ASSUME NEW c \in Callers, complete(c)
      PROVE  Grows
  BY <1>0, <1>6, CompleteSees DEF Grows
<1>. QED
  BY <1>0, <1>1, <1>2, <1>3, <1>4, <1>5, <1>6, NextCases DEF Loud

LEMMA GrowsAgrees ==
    ASSUME BaseInv, Grows
    PROVE  /\ content \in Seq(Units) /\ content' \in Seq(Units)
           /\ Len(content) \in Nat /\ Len(content') \in Nat
           /\ Len(content) <= Len(content')
           /\ \A off \in Nat, n \in Nat : off + n <= Len(content) =>
                 Slice(content', off, n) = Slice(content, off, n)
           /\ \A i \in 1..Len(content) : content'[i] = content[i]
<1>1. content \in Seq(Units) /\ Len(content) \in Nat
  BY LenProperties DEF BaseInv, Types, DataTypes
<1>2. CASE content' = content
  BY <1>1, <1>2
<1>3. ASSUME NEW t \in Seq(Units), content' = content \o t
      PROVE  /\ content' \in Seq(Units) /\ Len(content') \in Nat
             /\ Len(content) <= Len(content')
             /\ \A off \in Nat, n \in Nat : off + n <= Len(content) =>
                   Slice(content', off, n) = Slice(content, off, n)
             /\ \A i \in 1..Len(content) : content'[i] = content[i]
  <2>1. Len(t) \in Nat
    BY LenProperties
  <2>2. \A i \in 1..Len(content) : (content \o t)[i] = content[i]
    BY <1>1, <2>1, ConcatProperties
  <2>. QED
    BY <1>1, <1>3, <2>1, <2>2, ConcatAgrees, LenProperties
<1>. QED
  BY <1>1, <1>2, <1>3 DEF Grows

LEMMA ReadStep ==
    ASSUME SyncInv, PointerInv, ReadInv, [Next]_vars
    PROVE  ReadInv'
<1>0. /\ BaseInv /\ Types /\ RequestsFormed /\ AloneInv
      /\ plan' = plan /\ platform' = platform
  <2>1. BaseInv /\ Types /\ RequestsFormed /\ AloneInv
    BY DEF SyncInv, BaseInv
  <2>. QED
    BY <2>1, NextCases, QuietSees, CloseSees, OpenSees, SubmitSees, WorkSees,
       CompleteSees DEF Loud
<1> SUFFICES ASSUME OnlyAppended, NEW f \in Files, ReadOf(f)
             PROVE  ReadOf(f)'
  BY <1>0 DEF ReadInv, OnlyAppended
<1>1. Grows
  BY OnlyGrows
<1>2. /\ content \in Seq(Units) /\ content' \in Seq(Units)
      /\ Len(content) \in Nat /\ Len(content') \in Nat
      /\ Len(content) <= Len(content')
      /\ \A off \in Nat, n \in Nat : off + n <= Len(content) =>
            Slice(content', off, n) = Slice(content, off, n)
      /\ read_pos[f] \in Nat
  BY <1>0, <1>1, GrowsAgrees DEF Types, FileTypes
<1>3. \A n \in Nat : n <= Len(content) =>
         SubSeq(content', 1, n) = SubSeq(content, 1, n)
  <2>1. ASSUME NEW n \in Nat, n <= Len(content)
        PROVE  SubSeq(content', 1, n) = SubSeq(content, 1, n)
    <3>1. Slice(content', 0, n) = Slice(content, 0, n)
      BY <1>2, <2>1
    <3>2. 0 + 1 = 1 /\ 0 + n = n
      OBVIOUS
    <3>. QED
      BY <3>1, <3>2 DEF Slice
  <2>. QED
    BY <2>1
<1>4. ASSUME read_pos'[f] = read_pos[f], got'[f] = got[f],
             \A c \in Callers : Did(c, f, "read")' =>
                /\ Did(c, f, "read")
                /\ req'[c].result = req[c].result /\ req'[c].data = req[c].data
      PROVE  ReadOf(f)'
  <2>1. /\ read_pos'[f] <= Len(content')
        /\ got'[f] = SubSeq(content', 1, read_pos'[f])
    BY <1>2, <1>3, <1>4 DEF ReadOf
  <2>2. ASSUME NEW c \in Callers, Did(c, f, "read")'
        PROVE  /\ read_pos'[f] + req'[c].result <= Len(content')
               /\ req'[c].data = Slice(content', read_pos'[f], req'[c].result)
    <3>1. /\ Did(c, f, "read") /\ req'[c].result = req[c].result
          /\ req'[c].data = req[c].data
      BY <1>4, <2>2
    <3>2. req[c].result \in Nat
      BY <1>0, <3>1 DEF Did, Types, CallTypes, Requests
    <3>. QED
      BY <1>2, <1>4, <3>1, <3>2 DEF ReadOf
  <2>. QED
    BY <2>1, <2>2 DEF ReadOf
<1>5. ASSUME NEW c \in Callers, Same(c), Did(c, f, "read")'
      PROVE  /\ Did(c, f, "read")
             /\ req'[c].result = req[c].result /\ req'[c].data = req[c].data
  BY <1>5 DEF Same, Did
<1>6. CASE Quiet
  BY <1>0, <1>4, <1>5, <1>6, QuietSees
<1>7. ASSUME NEW g \in Files, close(g)
      PROVE  ReadOf(f)'
  BY <1>0, <1>4, <1>5, <1>7, CloseSees
<1>8. ASSUME NEW g \in Files, fstream(g)
      PROVE  ReadOf(f)'
  BY <1>0, <1>4, <1>5, <1>8, OpenSees
<1>9. ASSUME NEW c \in Callers, NEW g \in Files, NEW r \in Requests, Submits(c, g, r)
      PROVE  ReadOf(f)'
  <2>1. r.result = -1
    BY <1>0, <1>9, SubmitSees DEF RequestFor
  <2>2. ~Did(c, f, "read")'
    BY <1>0, <1>9, <2>1, SubmitSees DEF Did
  <2>. QED
    BY <1>0, <1>4, <1>5, <1>9, <2>2, SubmitSees
<1>10. ASSUME NEW c \in Callers, fs_work(c)
       PROVE  ReadOf(f)'
  <2>1. /\ pc[c] = "wait" /\ req'[c].f = req[c].f /\ req'[c].op = req[c].op
        /\ read_pos' = read_pos /\ got' = got
        /\ \A d \in Callers \ {c} : Same(d)
    BY <1>0, <1>10, WorkSees
  <2>2. CASE ~Did(c, f, "read")'
    BY <1>4, <1>5, <2>1, <2>2
  <2>3. CASE Did(c, f, "read")'
    <3>1. req[c].f = f /\ req[c].op = "read" /\ req'[c].result >= 0
      BY <2>1, <2>3 DEF Did
    <3>2. req[c].off = read_pos[f] /\ req[c].size \in Nat
      BY <1>0, <2>1, <3>1 DEF AloneInv, RequestsCurrent, Types, CallTypes, Requests
    <3>3. ~Fails(c)
      BY <1>0, <1>10, <3>1, WorkSees DEF Fails
    <3>4. Reads(c)
      BY <1>10, <3>1, <3>3, WorkCases DEF Writes, Syncs
    <3> DEFINE data == Available(read_pos[f], req[c].size)
    <3>5. req'[c].result = Len(data) /\ req'[c].data = data /\ content' = content
      BY <1>0, <1>10, <3>2, <3>4, WorkSees DEF Reads
    <3>6. /\ read_pos[f] + Len(data) <= Len(content)
          /\ data = Slice(content, read_pos[f], Len(data))
      BY <1>2, <3>2, AvailableIs DEF ReadOf
    <3>7. \A d \in Callers \ {c} : ~Did(d, f, "read")'
      BY <2>1, <3>1, OnlyOne DEF Same, Did
    <3>. HIDE DEF data
    <3>. QED
      BY <2>1, <3>5, <3>6, <3>7 DEF ReadOf
  <2>. QED
    BY <2>2, <2>3
<1>11. ASSUME NEW c \in Callers, complete(c)
       PROVE  ReadOf(f)'
  <2>1. /\ pc[c] = "wait" /\ pc'[c] # "wait" /\ content' = content
        /\ \A d \in Callers \ {c} : Same(d)
    BY <1>0, <1>11, CompleteSees
  <2>2. ~Did(c, f, "read")'
    BY <2>1 DEF Did
  <2>3. CASE read_pos'[f] = read_pos[f] /\ got'[f] = got[f]
    BY <1>4, <1>5, <2>1, <2>2, <2>3
  <2>4. CASE /\ req[c].f = f /\ req[c].op = "read" /\ req[c].result > 0
             /\ read_pos'[f] = read_pos[f] + req[c].result
             /\ got'[f] = got[f] \o req[c].data
    <3>1. Did(c, f, "read") /\ req[c].result \in Nat
      BY <1>0, <1>11, <2>1, <2>4, CompleteSees DEF Did
    <3>2. /\ read_pos[f] + req[c].result <= Len(content)
          /\ req[c].data = Slice(content, read_pos[f], req[c].result)
          /\ got[f] = SubSeq(content, 1, read_pos[f])
      BY <3>1 DEF ReadOf
    <3>3. got'[f] = SubSeq(content, 1, read_pos[f] + req[c].result)
      <4>1. SubSeq(content, 1, read_pos[f]) \o Slice(content, read_pos[f], req[c].result)
               = SubSeq(content, 1, read_pos[f] + req[c].result)
        BY <1>2, <3>1, <3>2, SliceExtends
      <4>. QED
        BY <2>4, <3>2, <4>1
    <3>4. \A d \in Callers : ~Did(d, f, "read")'
      BY <2>1, <2>2, <2>4, OnlyOne DEF Same, Did
    <3>. QED
      BY <2>1, <2>4, <3>2, <3>3, <3>4 DEF ReadOf
  <2>. QED
    BY <1>0, <1>11, <2>3, <2>4, CompleteSees, EndsSee
<1>. QED
  BY <1>0, <1>6, <1>7, <1>8, <1>9, <1>10, <1>11, NextCases DEF Loud

\* Of a file nobody overwrites, read() returns every unit once and in order,
\* however many reads time out, are cancelled or complete too late.
THEOREM ReadsSkipNothing ==
    ASSUME Synchronized
    PROVE  Spec => []ReadsAreSequential
<1>1. Init => ReadInv
  <2> SUFFICES ASSUME Init, NEW f \in Files
               PROVE  ReadOf(f)
    BY DEF ReadInv
  <2>1. content \in Seq(Units) /\ Len(content) \in Nat
    BY FileAssumption, LenProperties DEF Init
  <2>2. SubSeq(content, 1, 0) = << >>
    BY SubSeqEmpty
  <2>3. read_pos[f] = 0 /\ got[f] = << >> /\ \A c \in Callers : pc[c] # "wait"
    BY DEF Init
  <2>. QED
    BY <2>1, <2>2, <2>3 DEF ReadOf, Did
<1>2. SyncInv /\ PointerInv /\ ReadInv /\ [Next]_vars
         => (SyncInv /\ PointerInv /\ ReadInv)'
  BY SyncStep, PointerStep, ReadStep
<1>3. ReadInv => ReadsAreSequential
  BY DEF ReadInv, ReadOf, ReadsAreSequential
<1>. QED
  BY <1>1, <1>2, <1>3, SyncInit, PointerInit, PTL DEF Spec

\* A step leaves alone what the only writer knows of its file.
WriterRests(f) ==
    /\ write_pos'[f] = write_pos[f] /\ acked'[f] = acked[f]
    /\ flushed'[f] = flushed[f]
    /\ \A c \in Callers, what \in {"write", "flush"} : Did(c, f, what)' =>
          /\ Did(c, f, what)
          /\ req'[c].result = req[c].result /\ req'[c].data = req[c].data

\* The step opens f.
WriterOpens(f) ==
    /\ mode[f] = "null"
    /\ write_pos'[f] = 0 /\ acked'[f] = << >> /\ flushed'[f] = << >>
    /\ durable' = durable
    /\ \A c \in Callers, what \in {"write", "flush"} : ~Did(c, f, what)'

\* A worker serves a call on f.
WriterWorks(f, c) ==
    /\ fs_work(c)
    /\ pc[c] = "wait" /\ req[c].f = f
    /\ write_pos'[f] = write_pos[f] /\ acked'[f] = acked[f]
    /\ flushed'[f] = flushed[f]
    /\ \A d \in Callers \ {c}, what \in {"write", "flush"} : ~Did(d, f, what)'

\* A call on f returns.
WriterEnds(f, c) ==
    /\ complete(c)
    /\ pc[c] = "wait" /\ req[c].f = f
    /\ content' = content /\ durable' = durable
    /\ \A d \in Callers, what \in {"write", "flush"} : ~Did(d, f, what)'

LEMMA WriterCases ==
    ASSUME SyncInv, [Next]_vars, NEW f \in Files, OnlyWriter(f)'
    PROVE  /\ OnlyWriter(f) \/ WriterOpens(f)
           /\ \/ WriterRests(f) /\ content' = content /\ durable' = durable
              \/ WriterRests(f) /\ content' = content /\ durable' = content
              \/ WriterOpens(f)
              \/ \E c \in Callers : WriterWorks(f, c)
              \/ \E c \in Callers : WriterEnds(f, c)
<1>0. /\ BaseInv /\ Types /\ RequestsFormed /\ Planned
      /\ mode \in [Files -> Modes \cup {"null"}]
  BY DEF SyncInv, BaseInv, Types, FileTypes
<1>1. /\ \A g \in Files \ {f} : ~writable(mode[g]) /\ ~writable(plan'[g])
      /\ writable(mode'[f]) /\ ~(mode'[f] \in {"a", "a+"})
  <2>1. plan' = plan
    BY <1>0, NextCases, QuietSees, CloseSees, OpenSees, SubmitSees, WorkSees,
       CompleteSees DEF Loud
  <2>2. \A g \in Files \ {f} : ~writable(plan[g])
    BY <2>1 DEF OnlyWriter
  <2>. QED
    BY <1>0, <2>1, <2>2 DEF OnlyWriter, is_append, appends, Planned, writable
<1>2. mode'[f] = mode[f] /\ plan' = plan => OnlyWriter(f)
  BY DEF OnlyWriter, is_append
<1>3. ASSUME NEW c \in Callers, Same(c), NEW what, Did(c, f, what)'
      PROVE  /\ Did(c, f, what)
             /\ req'[c].result = req[c].result /\ req'[c].data = req[c].data
  BY <1>3 DEF Same, Did
<1>4. CASE Quiet
  BY <1>0, <1>2, <1>3, <1>4, QuietSees DEF WriterRests
<1>5. ASSUME NEW g \in Files, close(g)
      PROVE  /\ OnlyWriter(f)
             /\ WriterRests(f) /\ content' = content /\ durable' = durable
  BY <1>0, <1>2, <1>3, <1>5, CloseSees DEF WriterRests
<1>6. ASSUME NEW g \in Files, g # f, fstream(g)
      PROVE  /\ OnlyWriter(f)
             /\ WriterRests(f) /\ content' = content /\ durable' = durable
  <2>1. /\ content' = IF plan[g] \in {"w", "w+"} THEN << >> ELSE content
        /\ plan' = plan /\ mode' = [mode EXCEPT ![g] = plan[g]]
    BY <1>0, <1>6, OpenSees
  <2>2. ~writable(plan[g])
    BY <1>1, <1>6, <2>1
  <2>3. content' = content /\ mode'[f] = mode[f]
    BY <1>0, <1>6, <2>1, <2>2 DEF writable
  <2>. QED
    BY <1>0, <1>2, <1>3, <1>6, <2>1, <2>3, OpenSees DEF WriterRests
<1>7. ASSUME fstream(f)
      PROVE  WriterOpens(f)
  <2>1. /\ mode[f] = "null" /\ durable' = durable
        /\ write_pos'[f] = 0 /\ acked'[f] = << >> /\ flushed'[f] = << >>
        /\ \A c \in Callers : Same(c)
        /\ \A c \in Callers : pc[c] = "wait" => req[c].f # f
    BY <1>0, <1>7, OpenSees DEF Planned
  <2>2. \A c \in Callers, what \in {"write", "flush"} : ~Did(c, f, what)'
    BY <1>3, <2>1 DEF Did
  <2>. QED
    BY <2>1, <2>2 DEF WriterOpens
<1>8. ASSUME NEW c \in Callers, NEW g \in Files, NEW r \in Requests, Submits(c, g, r)
      PROVE  /\ OnlyWriter(f)
             /\ WriterRests(f) /\ content' = content /\ durable' = durable
  <2>1. r.result = -1
    BY <1>0, <1>8, SubmitSees DEF RequestFor
  <2>2. \A what \in {"write", "flush"} : ~Did(c, f, what)'
    BY <1>0, <1>8, <2>1, SubmitSees DEF Did
  <2>. QED
    BY <1>0, <1>2, <1>3, <1>8, <2>2, SubmitSees DEF WriterRests
<1>9. ASSUME NEW c \in Callers, fs_work(c)
      PROVE  /\ OnlyWriter(f)
             /\ \/ WriterRests(f) /\ content' = content /\ durable' \in {content, durable}
                \/ WriterWorks(f, c)
  <2>1. /\ UNCHANGED <<plan, mode, write_pos, acked, flushed>>
        /\ pc[c] = "wait" /\ req'[c].f = req[c].f
        /\ \A d \in Callers \ {c} : Same(d)
    BY <1>0, <1>9, WorkSees
  <2>2. OnlyWriter(f)
    BY <1>2, <2>1
  <2>3. CASE req[c].f # f
    <3>1. req[c].f \in Files
      BY <1>0, <2>1 DEF RequestsFormed
    <3>2. \A n \in Nat : ~Writes(c, n)
      BY <1>1, <2>3, <3>1 DEF Writes
    <3>3. content' = content /\ durable' \in {content, durable}
      BY <1>9, <3>2, WorkCases DEF Reads, Syncs, Fails
    <3>4. \A what \in {"write", "flush"} : ~Did(c, f, what)'
      BY <2>1, <2>3 DEF Did
    <3>. QED
      BY <1>3, <2>1, <2>2, <3>3, <3>4 DEF WriterRests
  <2>4. CASE req[c].f = f
    <3>1. \A d \in Callers \ {c}, what \in {"write", "flush"} : ~Did(d, f, what)'
      BY <1>3, <2>1, <2>4, OnlyOne
    <3>. QED
      BY <1>9, <2>1, <2>2, <2>4, <3>1 DEF WriterWorks
  <2>. QED
    BY <2>3, <2>4
<1>10. ASSUME NEW c \in Callers, complete(c)
       PROVE  /\ OnlyWriter(f)
              /\ \/ WriterRests(f) /\ content' = content /\ durable' = durable
                 \/ WriterEnds(f, c)
  <2>1. /\ UNCHANGED <<plan, mode, content, durable>>
        /\ pc[c] = "wait" /\ pc'[c] # "wait"
        /\ \A d \in Callers \ {c} : Same(d)
    BY <1>0, <1>10, CompleteSees
  <2>2. OnlyWriter(f)
    BY <1>2, <2>1
  <2>3. \A what \in {"write", "flush"} : ~Did(c, f, what)'
    BY <2>1 DEF Did
  <2>4. CASE req[c].f # f
    BY <1>0, <1>3, <1>10, <2>1, <2>2, <2>3, <2>4, CompleteSees DEF WriterRests
  <2>5. CASE req[c].f = f
    <3>1. \A d \in Callers, what \in {"write", "flush"} : ~Did(d, f, what)'
      BY <1>3, <2>1, <2>3, <2>5, OnlyOne
    <3>. QED
      BY <1>10, <2>1, <2>2, <2>5, <3>1 DEF WriterEnds
  <2>. QED
    BY <2>4, <2>5
<1>. QED
  BY <1>0, <1>4, <1>5, <1>6, <1>7, <1>8, <1>9, <1>10, NextCases DEF Loud

LEMMA WriteStep ==
    ASSUME SyncInv, WriteInv, [Next]_vars
    PROVE  WriteInv'
<1> SUFFICES ASSUME NEW f \in Files, OnlyWriter(f)'
             PROVE  WriteOf(f)'
  BY DEF WriteInv
<1>0. /\ BaseInv /\ Types /\ AloneInv
      /\ content \in Seq(Units) /\ Len(content) \in Nat
      /\ write_pos[f] \in Nat
      /\ content' \in Seq(Units) /\ Len(content') \in Nat
  BY BaseStep, LenProperties DEF SyncInv, BaseInv, Types, FileTypes, DataTypes
<1>1. OnlyWriter(f) => WriteOf(f) /\ ~is_append(f)
  BY DEF WriteInv, OnlyWriter
<1>2. ~WriterOpens(f) => OnlyWriter(f)
  BY WriterCases
<1>3. CASE WriterOpens(f)
  <2>1. SubSeq(content', 1, 0) = << >>
    BY SubSeqEmpty
  <2>. QED
    BY <1>0, <1>3, <2>1 DEF WriterOpens, WriteOf
<1>4. CASE OnlyWriter(f) /\ WriterRests(f) /\ content' = content
  BY <1>1, <1>4 DEF WriterRests, WriteOf
<1>5. ASSUME OnlyWriter(f), NEW c \in Callers, WriterWorks(f, c)
      PROVE  WriteOf(f)'
  <2>1. /\ req[c] \in Requests /\ req[c].data \in Seq(Units)
        /\ Len(req[c].data) \in Nat
    BY <1>0, LenProperties DEF Types, CallTypes, Requests
  <2>2. ASSUME NEW n \in Nat, Writes(c, n)
        PROVE  WriteOf(f)'
    <3> DEFINE data == SubSeq(req[c].data, 1, n)
               off == write_pos[f]
    <3>1. req[c].off = off /\ req[c].op = "write" /\ n <= Len(req[c].data)
      BY <1>0, <1>1, <1>5, <2>2 DEF AloneInv, RequestsCurrent, Writes, WriterWorks
    <3>2. data \in Seq(Units) /\ Len(data) = n
      BY <2>1, <3>1, PrefixIs
    <3>3. content' = Overwritten(off, data)
      <4>1. off # -1 /\ req[c].f = f /\ ~is_append(f)
        BY <1>0, <1>1, <1>5 DEF WriterWorks
      <4>2. ~O_APPEND(f) /\ ~Own(c)
        BY <3>1, <4>1 DEF O_APPEND, Own
      <4>. QED
        BY <2>2, <3>1, <4>1, <4>2 DEF Writes
    <3>4. req'[c].result = n /\ req'[c].data = req[c].data
      BY <1>0, <1>5, <2>2, WorkSees DEF Writes, WriterWorks
    <3>. HIDE DEF data
    <3>5. /\ Len(content') >= Len(content) /\ Len(content') >= off + n
          /\ \A i \in 1..Len(content') :
                content'[i] = IF i \in (off + 1)..(off + n) THEN data[i - off]
                              ELSE IF i <= Len(content) THEN content[i] ELSE Zero
      BY <1>0, <3>2, <3>3, OverwrittenIs
    <3>6. off <= Len(content) /\ acked[f] = SubSeq(content, 1, off)
      BY <1>1, <1>5 DEF WriteOf
    <3>7. SubSeq(content', 1, off) = SubSeq(content, 1, off)
      <4>1. ASSUME NEW i \in 1..off
            PROVE  content'[i] = content[i]
        <5>1. i \in 1..Len(content') /\ i \notin (off + 1)..(off + n)
              /\ i <= Len(content)
          BY <1>0, <3>5, <3>6
        <5>. QED
          BY <3>5, <5>1
      <4>2. off <= Len(content')
        BY <1>0, <3>5, <3>6
      <4>. QED
        BY <1>0, <3>6, <4>1, <4>2, PrefixesAgree
    <3>8. data = Slice(content', off, n)
      <4>1. /\ Slice(content', off, n) \in Seq(Units)
            /\ Len(Slice(content', off, n)) = n
            /\ \A i \in 1..n : Slice(content', off, n)[i] = content'[off + i]
        BY <1>0, <3>5, SliceIs
      <4>2. ASSUME NEW i \in 1..n
            PROVE  content'[off + i] = data[i]
        <5>1. /\ off + i \in 1..Len(content') /\ off + i \in (off + 1)..(off + n)
              /\ (off + i) - off = i
          BY <1>0, <3>5
        <5>. QED
          BY <3>5, <5>1
      <4>. QED
        BY <3>2, <4>1, <4>2, SeqEqual
    <3>9. \A d \in Callers : Did(d, f, "write")' => d = c
      BY <1>5 DEF WriterWorks
    <3>10. write_pos'[f] = off /\ acked'[f] = acked[f]
      BY <1>5 DEF WriterWorks
    <3>11. write_pos'[f] <= Len(content')
      BY <1>0, <3>5, <3>6, <3>10
    <3>12. SubSeq(req'[c].data, 1, req'[c].result) = data
      BY <3>4 DEF data
    <3>. QED
      BY <3>4, <3>5, <3>6, <3>7, <3>8, <3>9, <3>10, <3>11, <3>12 DEF WriteOf
  <2>3. CASE Reads(c) \/ Syncs(c)
    <3>1. req'[c].op # "write" /\ content' = content
      BY <1>0, <1>5, <2>3, WorkSees DEF Reads, Syncs, WriterWorks
    <3>2. \A d \in Callers : ~Did(d, f, "write")'
      BY <1>5, <3>1 DEF WriterWorks, Did
    <3>. QED
      BY <1>1, <1>5, <3>1, <3>2 DEF WriteOf, WriterWorks
  <2>4. CASE Fails(c)
    <3>1. req'[c].result = -1 /\ content' = content
      BY <1>0, <1>5, <2>4, WorkSees DEF Fails, WriterWorks
    <3>2. \A d \in Callers : ~Did(d, f, "write")'
      BY <1>5, <3>1 DEF WriterWorks, Did
    <3>. QED
      BY <1>1, <1>5, <3>1, <3>2 DEF WriteOf, WriterWorks
  <2>. QED
    BY <1>5, <2>2, <2>3, <2>4, WorkCases DEF WriterWorks
<1>6. ASSUME OnlyWriter(f), NEW c \in Callers, WriterEnds(f, c)
      PROVE  WriteOf(f)'
  <2>1. /\ content' = content /\ \A d \in Callers : ~Did(d, f, "write")'
        /\ complete(c) /\ pc[c] = "wait" /\ req[c].f = f
    BY <1>6 DEF WriterEnds
  <2>2. CASE write_pos'[f] = write_pos[f] /\ acked'[f] = acked[f]
    BY <1>1, <1>6, <2>1, <2>2 DEF WriteOf
  <2>3. CASE /\ req[c].op = "write" /\ req[c].result > 0
             /\ write_pos'[f] = write_pos[f] + req[c].result
             /\ acked'[f] = acked[f] \o SubSeq(req[c].data, 1, req[c].result)
    <3>1. req[c].result \in Nat
      BY <1>0, <2>1, <2>3, CompleteSees
    <3>2. Did(c, f, "write")
      BY <2>1, <2>3, <3>1 DEF Did
    <3>3. /\ write_pos[f] + req[c].result <= Len(content)
          /\ SubSeq(req[c].data, 1, req[c].result)
                = Slice(content, write_pos[f], req[c].result)
          /\ acked[f] = SubSeq(content, 1, write_pos[f])
      BY <1>1, <1>6, <3>2 DEF WriteOf
    <3>4. SubSeq(content, 1, write_pos[f]) \o Slice(content, write_pos[f], req[c].result)
             = SubSeq(content, 1, write_pos[f] + req[c].result)
      BY <1>0, <3>1, <3>3, SliceExtends
    <3>. QED
      BY <2>1, <2>3, <3>3, <3>4 DEF WriteOf
  <2>. QED
    BY <1>0, <1>1, <1>6, <2>1, <2>2, <2>3, EndsSee
<1>. QED
  BY <1>2, <1>3, <1>4, <1>5, <1>6, WriterCases

LEMMA WriteInit == Init => WriteInv
<1> SUFFICES ASSUME Init, NEW f \in Files
             PROVE  ~OnlyWriter(f)
  BY DEF WriteInv
<1>1. mode[f] = "null"
  BY DEF Init
<1>. QED
  BY <1>1 DEF OnlyWriter, writable

\* What a script was told it wrote to a file it alone overwrites is the file
\* up to the write position: short, failed, late and repeated writes leave no
\* gap, no duplicate and no foreign unit below it.
THEOREM WritesLeaveNoGap ==
    ASSUME Synchronized
    PROVE  Spec => []WritesAreSequential
<1>1. SyncInv /\ WriteInv /\ [Next]_vars => (SyncInv /\ WriteInv)'
  BY SyncStep, WriteStep
<1>2. WriteInv => WritesAreSequential
  BY DEF WriteInv, WriteOf, WritesAreSequential
<1>. QED
  BY <1>1, <1>2, WriteInit, SyncInit, PTL DEF Spec

LEMMA PrefixFacts ==
    ASSUME NEW s \in Seq(Units), NEW t \in Seq(Units), NEW u \in Seq(Units)
    PROVE  /\ IsPrefix(s, s)
           /\ IsPrefix(<< >>, s)
           /\ IsPrefix(s, t) /\ IsPrefix(t, u) => IsPrefix(s, u)
           /\ IsPrefix(s, s \o t)
<1>0. /\ Len(s) \in Nat /\ Len(t) \in Nat /\ Len(u) \in Nat
      /\ << >> \in Seq(Units) /\ Len(<< >>) = 0
  BY LenProperties, EmptySeq
<1>1. IsPrefix(s, s)
  BY <1>0 DEF IsPrefix
<1>2. IsPrefix(<< >>, s)
  <2>1. SubSeq(<< >>, 1, 0) = << >> /\ SubSeq(s, 1, 0) = << >>
    BY SubSeqEmpty
  <2>. QED
    BY <1>0, <2>1 DEF IsPrefix
<1>3. ASSUME IsPrefix(s, t), IsPrefix(t, u)
      PROVE  IsPrefix(s, u)
  <2> DEFINE n == Len(s)
             m == Len(t)
  <2>1. /\ n <= m /\ m <= Len(u)
        /\ SubSeq(s, 1, n) = SubSeq(t, 1, n) /\ SubSeq(t, 1, m) = SubSeq(u, 1, m)
    BY <1>3 DEF IsPrefix
  <2>2. \A i \in 1..m : SubSeq(t, 1, m)[i] = t[i] /\ SubSeq(u, 1, m)[i] = u[i]
    BY <1>0, <2>1, PrefixIs
  <2>3. ASSUME NEW i \in 1..n
        PROVE  t[i] = u[i]
    <3>1. i \in 1..m
      BY <1>0, <2>1
    <3>. QED
      BY <2>1, <2>2, <3>1
  <2>4. SubSeq(t, 1, n) = SubSeq(u, 1, n)
    BY <1>0, <2>1, <2>3, PrefixesAgree
  <2>. QED
    BY <1>0, <2>1, <2>4 DEF IsPrefix
<1>4. IsPrefix(s, s \o t)
  <2>1. s \o t \in Seq(Units) /\ Len(s \o t) = Len(s) + Len(t)
        /\ \A i \in 1..Len(s) : (s \o t)[i] = s[i]
    BY <1>0, ConcatProperties
  <2>2. SubSeq(s, 1, Len(s)) = SubSeq(s \o t, 1, Len(s))
    <3>1. Len(s) <= Len(s \o t)
      BY <1>0, <2>1
    <3>. QED
      BY <1>0, <2>1, <3>1, PrefixesAgree
  <2>. QED
    BY <1>0, <2>1, <2>2 DEF IsPrefix
<1>. QED
  BY <1>1, <1>2, <1>3, <1>4

\* What is before a position is a prefix.
LEMMA BeforeIsPrefix ==
    ASSUME NEW s \in Seq(Units), NEW n \in Nat, n <= Len(s)
    PROVE  IsPrefix(SubSeq(s, 1, n), s)
<1> DEFINE p == SubSeq(s, 1, n)
<1>1. p \in Seq(Units) /\ Len(p) = n /\ Len(s) \in Nat /\ \A i \in 1..n : p[i] = s[i]
  BY PrefixIs, LenProperties
<1>. HIDE DEF p
<1>2. SubSeq(p, 1, n) = SubSeq(s, 1, n)
  BY <1>1, PrefixesAgree
<1>3. IsPrefix(p, s)
  BY <1>1, <1>2 DEF IsPrefix
<1>. QED
  BY <1>3 DEF p

LEMMA FlushStep ==
    ASSUME SyncInv, WriteInv, FlushInv, [Next]_vars
    PROVE  FlushInv'
<1> SUFFICES ASSUME NEW f \in Files, OnlyWriter(f)'
             PROVE  FlushOf(f)'
  BY DEF FlushInv
<1>0. /\ BaseInv /\ Types /\ AloneInv
      /\ content \in Seq(Units) /\ durable \in Seq(Units)
      /\ acked[f] \in Seq(Units) /\ flushed[f] \in Seq(Units)
      /\ content' \in Seq(Units) /\ durable' \in Seq(Units)
      /\ acked'[f] \in Seq(Units) /\ flushed'[f] \in Seq(Units)
      /\ write_pos[f] \in Nat
  BY BaseStep DEF SyncInv, BaseInv, Types, FileTypes, DataTypes
<1>1. OnlyWriter(f) => FlushOf(f) /\ WriteOf(f)
  BY DEF WriteInv, FlushInv
<1>2. OnlyWriter(f) => IsPrefix(acked[f], content)
  BY <1>0, <1>1, BeforeIsPrefix DEF WriteOf
<1>3. ~WriterOpens(f) => OnlyWriter(f)
  BY WriterCases
<1>4. CASE WriterOpens(f)
  <2>1. IsPrefix(<< >>, << >>) /\ IsPrefix(<< >>, durable)
    <3>1. << >> \in Seq(Units)
      BY EmptySeq
    <3>. QED
      BY <1>0, <3>1, PrefixFacts
  <2>. QED
    BY <1>4, <2>1 DEF WriterOpens, FlushOf
<1>5. CASE OnlyWriter(f) /\ WriterRests(f) /\ durable' = durable
  BY <1>1, <1>5 DEF WriterRests, FlushOf
<1>6. ASSUME OnlyWriter(f), durable' = content,
             flushed'[f] = flushed[f], acked'[f] = acked[f]
      PROVE  FlushOf(f)'
  <2>1. IsPrefix(flushed[f], acked[f]) /\ IsPrefix(acked[f], content)
    BY <1>1, <1>2, <1>6 DEF FlushOf
  <2>2. IsPrefix(flushed[f], content)
    BY <1>0, <2>1, PrefixFacts
  <2>. QED
    BY <1>6, <2>1, <2>2 DEF FlushOf
<1>7. ASSUME OnlyWriter(f), NEW c \in Callers, WriterWorks(f, c)
      PROVE  FlushOf(f)'
  <2>1. flushed'[f] = flushed[f] /\ acked'[f] = acked[f] /\ fs_work(c)
    BY <1>7 DEF WriterWorks
  <2>2. CASE Syncs(c)
    BY <1>6, <1>7, <2>1, <2>2 DEF Syncs
  <2>3. CASE Reads(c) \/ (\E n \in Nat : Writes(c, n)) \/ Fails(c)
    <3>1. ~Did(c, f, "flush")'
      BY <1>0, <2>1, <2>3, WorkSees DEF Reads, Writes, Fails, Did
    <3>2. \A d \in Callers : ~Did(d, f, "flush")'
      BY <1>7, <3>1 DEF WriterWorks
    <3>3. durable' = durable
      BY <2>3 DEF Reads, Writes, Fails
    <3>. QED
      BY <1>1, <1>7, <2>1, <3>2, <3>3 DEF FlushOf
  <2>. QED
    BY <2>1, <2>2, <2>3, WorkCases
<1>8. ASSUME OnlyWriter(f), NEW c \in Callers, WriterEnds(f, c)
      PROVE  FlushOf(f)'
  <2>1. /\ durable' = durable /\ \A d \in Callers : ~Did(d, f, "flush")'
        /\ complete(c) /\ pc[c] = "wait" /\ req[c].f = f
        /\ req[c].data \in Seq(Units) /\ req[c].result \in Nat \cup {-1}
        /\ req[c].result <= Len(req[c].data)
    BY <1>0, <1>8, CompleteSees DEF WriterEnds, BaseInv, RequestsFormed
  <2>2. /\ IsPrefix(flushed[f], acked[f]) /\ IsPrefix(flushed[f], durable)
    BY <1>1, <1>8 DEF FlushOf
  <2>3. /\ IsPrefix(acked[f], acked'[f])
    <3>1. CASE acked'[f] = acked[f]
      BY <1>0, <3>1, PrefixFacts
    <3>2. CASE /\ req[c].result > 0
               /\ acked'[f] = acked[f] \o SubSeq(req[c].data, 1, req[c].result)
      <4>1. SubSeq(req[c].data, 1, req[c].result) \in Seq(Units)
        BY <2>1, <3>2, PrefixIs
      <4>2. ASSUME NEW s \in Seq(Units), NEW t \in Seq(Units)
            PROVE  IsPrefix(s, s \o t)
        BY PrefixFacts
      <4>3. IsPrefix(acked[f], acked[f] \o SubSeq(req[c].data, 1, req[c].result))
        BY <1>0, <4>1, <4>2
      <4>. QED
        BY <3>2, <4>3
    <3>. QED
      BY <1>0, <2>1, <3>1, <3>2, EndsSee
  <2>4. CASE flushed'[f] = flushed[f]
    <3>1. IsPrefix(flushed[f], acked'[f])
      BY <1>0, <2>2, <2>3, PrefixFacts
    <3>. QED
      BY <2>1, <2>2, <2>4, <3>1 DEF FlushOf
  <2>5. CASE /\ req[c].op = "flush" /\ req[c].result >= 0
             /\ flushed'[f] = acked[f] /\ acked'[f] = acked[f]
    <3>1. Did(c, f, "flush")
      BY <2>1, <2>5 DEF Did
    <3>2. IsPrefix(acked[f], durable)
      BY <1>1, <1>8, <3>1 DEF FlushOf
    <3>3. IsPrefix(acked[f], acked[f])
      BY <1>0, PrefixFacts
    <3>. QED
      BY <2>1, <2>5, <3>2, <3>3 DEF FlushOf
  <2>. QED
    BY <1>0, <2>1, <2>4, <2>5, EndsSee
<1>9. CASE OnlyWriter(f) /\ WriterRests(f) /\ durable' = content
  BY <1>6, <1>9 DEF WriterRests
<1>. QED
  BY <1>3, <1>4, <1>5, <1>7, <1>8, <1>9, WriterCases

\* What a script was told is flushed is on the disk, and stays there.
THEOREM FlushesHold ==
    ASSUME Synchronized
    PROVE  Spec => []FlushedIsDurable
<1>1. Init => FlushInv
  <2>1. Init => \A f \in Files : ~OnlyWriter(f)
    BY DEF Init, OnlyWriter, writable
  <2>. QED
    BY <2>1 DEF FlushInv
<1>2. SyncInv /\ WriteInv /\ FlushInv /\ [Next]_vars
         => (SyncInv /\ WriteInv /\ FlushInv)'
  BY SyncStep, WriteStep, FlushStep
<1>3. FlushInv => FlushedIsDurable
  BY DEF FlushInv, FlushOf, FlushedIsDurable
<1>. QED
  BY <1>1, <1>2, <1>3, WriteInit, SyncInit, PTL DEF Spec

\* What is kept stays so while the file grows.
LEMMA KeptStays ==
    ASSUME BaseInv, Grows, NEW f \in Files, acked'[f] = acked[f],
           NEW k \in Nat, NEW m \in Nat, k <= m, k <= Len(content), KeptBelow(f, k)
    PROVE  KeptBelow(f, m)'
<1>1. PICK at \in [DOMAIN acked[f] -> 1..k] :
         \A i \in DOMAIN acked[f] :
            /\ acked[f][i] = content[at[i]]
            /\ \A j \in 1..(i - 1) : at[j] < at[i]
  BY DEF KeptBelow
<1>2. /\ Len(content) \in Nat
      /\ \A i \in 1..Len(content) : content'[i] = content[i]
  BY GrowsAgrees
<1>3. at \in [DOMAIN acked'[f] -> 1..m]
  <2>1. 1..k \subseteq 1..m
    OBVIOUS
  <2>. QED
    BY <2>1
<1>4. ASSUME NEW i \in DOMAIN acked[f]
      PROVE  content'[at[i]] = content[at[i]]
  <2>1. at[i] \in 1..Len(content)
    BY <1>2
  <2>. QED
    BY <1>2, <2>1
<1>5. \A i \in DOMAIN acked'[f] :
         /\ acked'[f][i] = content'[at[i]]
         /\ \A j \in 1..(i - 1) : at[j] < at[i]
  BY <1>1, <1>4
<1>. QED
  BY <1>3, <1>5 DEF KeptBelow

\* What is reported and lies beyond all that was kept is kept, too.
LEMMA KeptExtends ==
    ASSUME BaseInv, content' = content, NEW f \in Files,
           NEW k \in Nat, NEW n \in Nat, NEW d \in Seq(Units), Len(d) = n,
           k + n <= Len(content), KeptBelow(f, k), d = Slice(content, k, n),
           acked'[f] = acked[f] \o d
    PROVE  KeptBelow(f, Len(content))'
<1> DEFINE a == acked[f]
           l == Len(a)
           b == a \o d
<1>1. PICK at \in [DOMAIN a -> 1..k] :
         \A i \in DOMAIN a :
            /\ a[i] = content[at[i]]
            /\ \A j \in 1..(i - 1) : at[j] < at[i]
  BY DEF KeptBelow
<1>2. /\ content \in Seq(Units) /\ a \in Seq(Units)
      /\ Len(content) \in Nat /\ l \in Nat /\ DOMAIN a = 1..l
  BY LenProperties DEF BaseInv, Types, DataTypes
<1>3. /\ b \in Seq(Units) /\ Len(b) = l + n /\ DOMAIN b = 1..(l + n)
      /\ \A i \in 1..(l + n) : b[i] = IF i <= l THEN a[i] ELSE d[i - l]
  <2>1. b \in Seq(Units) /\ Len(b) = l + n
        /\ \A i \in 1..(l + n) : b[i] = IF i <= l THEN a[i] ELSE d[i - l]
    BY <1>2, ConcatProperties
  <2>. QED
    BY <2>1, LenProperties
<1>4. \A i \in 1..n : d[i] = content[k + i]
  <2> DEFINE s == Slice(content, k, n)
  <2>1. \A i \in 1..n : s[i] = content[k + i]
    BY <1>2, SliceIs
  <2>2. d = s
    OBVIOUS
  <2>. HIDE DEF s
  <2>. QED
    BY <2>1, <2>2
<1> DEFINE bt == [i \in 1..(l + n) |-> IF i <= l THEN at[i] ELSE k + (i - l)]
<1>5. acked'[f] = b
  OBVIOUS
<1>. HIDE DEF a, l, b
<1>6. ASSUME NEW i \in 1..(l + n)
      PROVE  /\ bt[i] \in 1..Len(content)
             /\ b[i] = content[bt[i]]
             /\ \A j \in 1..(i - 1) : bt[j] < bt[i]
  <2>1. CASE i <= l
    <3>1. i \in 1..l /\ bt[i] = at[i] /\ at[i] \in 1..k
      BY <1>2, <2>1
    <3>2. \A j \in 1..(i - 1) : j \in 1..(l + n) /\ j <= l /\ bt[j] = at[j]
      BY <1>2, <2>1
    <3>3. at[i] \in 1..Len(content)
      BY <1>2, <3>1
    <3>. QED
      BY <1>1, <1>2, <1>3, <2>1, <3>1, <3>2, <3>3
  <2>2. CASE ~(i <= l)
    <3>1. i - l \in 1..n /\ bt[i] = k + (i - l)
      BY <1>2, <2>2
    <3>2. b[i] = d[i - l] /\ d[i - l] = content[k + (i - l)]
      BY <1>3, <1>4, <2>2, <3>1
    <3>3. ASSUME NEW j \in 1..(i - 1)
          PROVE  bt[j] < bt[i]
      <4>1. j \in 1..(l + n)
        BY <1>2
      <4>2. CASE j <= l
        <5>1. j \in 1..l /\ bt[j] = at[j] /\ at[j] \in 1..k
          BY <1>2, <4>1, <4>2
        <5>. QED
          BY <1>2, <3>1, <5>1
      <4>3. CASE ~(j <= l)
        <5>1. bt[j] = k + (j - l)
          BY <4>1, <4>3
        <5>. QED
          BY <1>2, <3>1, <5>1
      <4>. QED
        BY <4>2, <4>3
    <3>. QED
      BY <1>2, <3>1, <3>2, <3>3
  <2>. QED
    BY <2>1, <2>2
<1>7. bt \in [DOMAIN acked'[f] -> 1..Len(content')]
  BY <1>3, <1>5, <1>6
<1>8. \A i \in DOMAIN acked'[f] :
         /\ acked'[f][i] = content'[bt[i]]
         /\ \A j \in 1..(i - 1) : bt[j] < bt[i]
  BY <1>3, <1>5, <1>6
<1>. HIDE DEF bt
<1>. QED
  BY <1>7, <1>8 DEF KeptBelow

\* The parts of AppendOf(f) that outlast a step which does nothing for f.
LEMMA AppendRests ==
    ASSUME BaseInv, Grows, NEW f \in Files, AppendOf(f), acked'[f] = acked[f],
           \A c \in Callers : Did(c, f, "write")' =>
              /\ Did(c, f, "write")
              /\ req'[c].result = req[c].result /\ req'[c].data = req[c].data
    PROVE  AppendOf(f)'
<1>1. /\ Len(content) \in Nat /\ Len(content') \in Nat
      /\ Len(content) <= Len(content')
      /\ \A off \in Nat, n \in Nat : off + n <= Len(content) =>
            Slice(content', off, n) = Slice(content, off, n)
  BY GrowsAgrees
<1>2. KeptBelow(f, Len(content))
  BY DEF AppendOf
<1>3. KeptBelow(f, Len(content))'
  <2>1. PICK k \in Nat, m \in Nat : k = Len(content) /\ m = Len(content')
    BY <1>1
  <2>2. KeptBelow(f, m)'
    BY <1>1, <1>2, <2>1, KeptStays
  <2>. QED
    BY <2>1, <2>2 DEF KeptBelow
<1>4. ASSUME NEW c \in Callers, Did(c, f, "write")'
      PROVE  \E k \in 0..Len(content') :
                /\ KeptBelow(f, k)'
                /\ k + req'[c].result <= Len(content')
                /\ SubSeq(req'[c].data, 1, req'[c].result)
                      = Slice(content', k, req'[c].result)
  <2>1. /\ Did(c, f, "write")
        /\ req'[c].result = req[c].result /\ req'[c].data = req[c].data
    BY <1>4
  <2>2. PICK k \in Nat :
           /\ KeptBelow(f, k)
           /\ k + req[c].result <= Len(content)
           /\ SubSeq(req[c].data, 1, req[c].result)
                 = Slice(content, k, req[c].result)
    BY <2>1 DEF AppendOf
  <2>3. req[c].result \in Nat
    BY <2>1 DEF Did, BaseInv, Types, CallTypes, Requests
  <2>4. KeptBelow(f, k)'
    <3>1. k <= k /\ k <= Len(content)
      BY <1>1, <2>2, <2>3
    <3>. QED
      BY <2>2, <3>1, KeptStays
  <2>5. k \in 0..Len(content')
    BY <1>1, <2>2, <2>3
  <2>. QED
    BY <1>1, <2>1, <2>2, <2>3, <2>4, <2>5
<1>. QED
  BY <1>3, <1>4 DEF AppendOf

LEMMA AppendStep ==
    ASSUME SyncInv, PointerInv, AppendInv, [Next]_vars
    PROVE  AppendInv'
<1>0. /\ BaseInv /\ Types /\ RequestsFormed /\ AloneInv /\ Planned
      /\ plan' = plan /\ platform' = platform
  <2>1. BaseInv /\ Types /\ RequestsFormed /\ AloneInv /\ Planned
    BY DEF SyncInv, BaseInv
  <2>. QED
    BY <2>1, NextCases, QuietSees, CloseSees, OpenSees, SubmitSees, WorkSees,
       CompleteSees DEF Loud
<1> SUFFICES ASSUME OnlyAppended, NEW f \in Files, is_append(f)'
             PROVE  AppendOf(f)'
  BY <1>0 DEF AppendInv, OnlyAppended
<1>1. Grows
  BY OnlyGrows
<1>2. /\ content \in Seq(Units) /\ content' \in Seq(Units)
      /\ Len(content) \in Nat /\ Len(content') \in Nat
      /\ Len(content) <= Len(content')
  BY <1>0, <1>1, GrowsAgrees
<1>3. is_append(f) => AppendOf(f)
  BY DEF AppendInv
<1>4. mode'[f] = mode[f] => is_append(f)
  BY DEF is_append
<1>5. ASSUME NEW c \in Callers, Same(c), Did(c, f, "write")'
      PROVE  /\ Did(c, f, "write")
             /\ req'[c].result = req[c].result /\ req'[c].data = req[c].data
  BY <1>5 DEF Same, Did
<1>6. CASE Quiet
  BY <1>0, <1>1, <1>3, <1>4, <1>5, <1>6, QuietSees, AppendRests
<1>7. ASSUME NEW g \in Files, close(g)
      PROVE  AppendOf(f)'
  BY <1>0, <1>1, <1>3, <1>4, <1>5, <1>7, CloseSees, AppendRests
<1>8. ASSUME NEW g \in Files, fstream(g)
      PROVE  AppendOf(f)'
  <2>1. /\ mode' = [mode EXCEPT ![g] = plan[g]] /\ acked' = acked
        /\ \A c \in Callers : Same(c)
        /\ \A c \in Callers : pc[c] = "wait" => req[c].f # g
        /\ mode[g] = "null"
    BY <1>0, <1>8, OpenSees
  <2>2. CASE g # f
    <3>1. mode'[f] = mode[f]
      BY <1>0, <2>1, <2>2 DEF Types, FileTypes
    <3>. QED
      BY <1>0, <1>1, <1>3, <1>4, <1>5, <2>1, <3>1, AppendRests
  <2>3. CASE g = f
    <3>1. acked'[f] = << >>
      BY <1>0, <2>1, <2>3 DEF Planned
    <3>2. \A c \in Callers : ~Did(c, f, "write")'
      BY <1>5, <2>1, <2>3 DEF Did
    <3>3. KeptBelow(f, Len(content))'
      <4>1. DOMAIN acked'[f] = {}
        BY <3>1
      <4>2. [i \in {} |-> 0] \in [{} -> 1..Len(content')]
        OBVIOUS
      <4>. QED
        BY <4>1, <4>2 DEF KeptBelow
    <3>. QED
      BY <3>2, <3>3 DEF AppendOf
  <2>. QED
    BY <2>2, <2>3
<1>9. ASSUME NEW c \in Callers, NEW g \in Files, NEW r \in Requests, Submits(c, g, r)
      PROVE  AppendOf(f)'
  <2>1. r.result = -1
    BY <1>0, <1>9, SubmitSees DEF RequestFor
  <2>2. ~Did(c, f, "write")'
    BY <1>0, <1>9, <2>1, SubmitSees DEF Did
  <2>. QED
    BY <1>0, <1>1, <1>3, <1>4, <1>5, <1>9, <2>2, SubmitSees, AppendRests
<1>10. ASSUME NEW c \in Callers, fs_work(c)
       PROVE  AppendOf(f)'
  <2>1. /\ pc[c] = "wait" /\ req'[c].f = req[c].f /\ req'[c].op = req[c].op
        /\ mode' = mode /\ acked' = acked
        /\ \A d \in Callers \ {c} : Same(d)
    BY <1>0, <1>10, WorkSees
  <2>2. AppendOf(f) /\ is_append(f)
    BY <1>3, <1>4, <2>1
  <2>3. CASE ~Did(c, f, "write")'
    BY <1>0, <1>1, <1>5, <2>1, <2>2, <2>3, AppendRests
  <2>4. CASE Did(c, f, "write")'
    <3>1. req[c].f = f /\ req[c].op = "write" /\ req'[c].result >= 0
      BY <2>1, <2>4 DEF Did
    <3>2. ~Fails(c)
      BY <1>0, <1>10, <3>1, WorkSees DEF Fails
    <3>3. PICK n \in Nat : Writes(c, n)
      BY <1>10, <3>1, <3>2, WorkCases DEF Reads, Syncs
    <3>0. PICK k \in Nat : k = Len(content)
      BY <1>2
    <3> DEFINE d == SubSeq(req[c].data, 1, n)
    <3>4. /\ n <= Len(req[c].data) /\ req[c].data \in Seq(Units)
          /\ req'[c].result = n /\ req'[c].data = req[c].data
      BY <1>0, <1>10, <3>3, WorkSees DEF Writes, Types, CallTypes, Requests
    <3>5. d \in Seq(Units) /\ Len(d) = n
      BY <3>4, PrefixIs
    <3>6. content' = content \o d
      BY <1>10, <3>3, WritesAppend
    <3>7. k + n <= Len(content') /\ d = Slice(content', k, n)
      <4>. HIDE DEF d
      <4>1. Len(content \o d) = Len(content) + Len(d)
            /\ Slice(content \o d, Len(content), Len(d)) = d
        BY <1>2, <3>5, ConcatAgrees
      <4>. QED
        BY <1>2, <3>0, <3>5, <3>6, <4>1
    <3>8. KeptBelow(f, k)
      BY <2>2, <3>0 DEF AppendOf
    <3>9. k <= k /\ k <= Len(content) /\ acked'[f] = acked[f]
      BY <1>2, <2>1, <3>0
    <3>10. KeptBelow(f, k)'
      BY <1>0, <1>1, <3>8, <3>9, KeptStays
    <3>11. KeptBelow(f, Len(content))'
      <4>1. PICK m \in Nat : m = Len(content') /\ k <= m
        BY <1>2, <3>0
      <4>2. KeptBelow(f, m)'
        BY <1>0, <1>1, <3>8, <3>9, <4>1, KeptStays
      <4>. QED
        BY <4>1, <4>2 DEF KeptBelow
    <3>12. \A e \in Callers : Did(e, f, "write")' => e = c
      BY <1>5, <2>1, <3>1, OnlyOne
    <3>13. /\ k + req'[c].result <= Len(content')
           /\ SubSeq(req'[c].data, 1, req'[c].result)
                 = Slice(content', k, req'[c].result)
      BY <3>4, <3>7
    <3>14. \A e \in Callers : Did(e, f, "write")' =>
              \E j \in 0..Len(content') :
                 /\ KeptBelow(f, j)'
                 /\ j + req'[e].result <= Len(content')
                 /\ SubSeq(req'[e].data, 1, req'[e].result)
                       = Slice(content', j, req'[e].result)
      <4>1. k \in 0..Len(content')
        BY <1>2, <3>0, <3>9
      <4>. QED
        BY <3>10, <3>12, <3>13, <4>1
    <3>. QED
      BY <3>11, <3>14 DEF AppendOf
  <2>. QED
    BY <2>3, <2>4
<1>11. ASSUME NEW c \in Callers, complete(c)
       PROVE  AppendOf(f)'
  <2>1. /\ pc[c] = "wait" /\ pc'[c] # "wait" /\ content' = content
        /\ mode' = mode /\ req[c].data \in Seq(Units)
        /\ \A d \in Callers \ {c} : Same(d)
    BY <1>0, <1>11, CompleteSees
  <2>2. ~Did(c, f, "write")'
    BY <2>1 DEF Did
  <2>3. AppendOf(f)
    BY <1>3, <1>4, <2>1
  <2>4. CASE acked'[f] = acked[f]
    BY <1>0, <1>1, <1>5, <2>1, <2>2, <2>3, <2>4, AppendRests
  <2>5. CASE /\ req[c].f = f /\ req[c].op = "write" /\ req[c].result > 0
             /\ acked'[f] = acked[f] \o SubSeq(req[c].data, 1, req[c].result)
    <3> DEFINE n == req[c].result
               d == SubSeq(req[c].data, 1, n)
    <3>1. n \in Nat /\ n <= Len(req[c].data)
      BY <1>0, <1>11, <2>1, <2>5, CompleteSees DEF RequestsFormed
    <3>2. Did(c, f, "write")
      BY <2>1, <2>5, <3>1 DEF Did
    <3>3. PICK k \in Nat : /\ KeptBelow(f, k) /\ k + n <= Len(content)
                           /\ d = Slice(content, k, n)
      BY <2>3, <3>2 DEF AppendOf
    <3>4. d \in Seq(Units) /\ Len(d) = n
      BY <2>1, <3>1, PrefixIs
    <3>5. acked'[f] = acked[f] \o d
      BY <2>5
    <3>. HIDE DEF n, d
    <3>6. KeptBelow(f, Len(content))'
      BY <1>0, <2>1, <3>1, <3>3, <3>4, <3>5, KeptExtends
    <3>7. \A e \in Callers : ~Did(e, f, "write")'
      BY <1>5, <2>1, <2>2, <2>5, OnlyOne
    <3>. QED
      BY <3>6, <3>7 DEF AppendOf
  <2>. QED
    BY <1>0, <1>11, <2>4, <2>5, CompleteSees, EndsSee
<1>. QED
  BY <1>0, <1>6, <1>7, <1>8, <1>9, <1>10, <1>11, NextCases DEF Loud

\* What a script was told it appended is in the file, in order, however many
\* appends are short, fail or come too late: whoever else appends where that
\* is O_APPEND, and for the only appender where it is a seek at the opening.
THEOREM AppendsStay ==
    ASSUME Synchronized
    PROVE  Spec => []AppendsAreKept
<1>1. Init => AppendInv
  <2>1. Init => \A f \in Files : ~is_append(f)
    BY DEF Init, is_append, appends
  <2>. QED
    BY <2>1 DEF AppendInv
<1>2. SyncInv /\ PointerInv /\ AppendInv /\ [Next]_vars
         => (SyncInv /\ PointerInv /\ AppendInv)'
  BY SyncStep, PointerStep, AppendStep
<1>3. SyncInv /\ AppendInv => AppendsAreKept
  <2> SUFFICES ASSUME SyncInv, AppendInv, OnlyAppended, NEW f \in Files, is_append(f)
               PROVE  \E at \in [DOMAIN acked[f] -> DOMAIN content] :
                         \A i \in DOMAIN acked[f] :
                            /\ acked[f][i] = content[at[i]]
                            /\ \A j \in 1..(i - 1) : at[j] < at[i]
    BY DEF AppendsAreKept
  <2>1. DOMAIN content = 1..Len(content)
    BY LenProperties DEF SyncInv, BaseInv, Types, DataTypes
  <2>2. KeptBelow(f, Len(content))
    BY DEF AppendInv, AppendOf
  <2>. QED
    BY <2>1, <2>2 DEF KeptBelow
<1>. QED
  BY <1>1, <1>2, <1>3, SyncInit, PointerInit, PTL DEF Spec

=============================================================================
