--------------------------- MODULE MCCreateProcess ---------------------------
(* Small instances of CreateProcess: scripts that set the streams, the      *)
(* words of the command line, the environment, or none but the program.     *)
EXTENDS CreateProcess

AllCharacters == {"a", "c", "h", "p", "q", "s", "-", "/", Blank, Backslash, Quote}

p == <<"p">>
q == <<"q">>
pathp == <<"/", "p">>
blankp == <<Backslash, "p", Blank, "p">>
sh == <<"s", "h">>
MinusC == <<"-", "c">>
MinusSlashC == <<"/", "c">>

Dirs == {".", "/bin", "/usr/bin", "/", "/long"}

Plain == [path |-> <<"/bin">>, execve |-> [d \in Dirs |-> "ok"], sh |-> "ok",
          environ |-> <<Entry("plain", "N", 1)>>]

Case(pl, w, s) == [platform |-> pl, world |-> w, script |-> s, inheritable |-> {}]

Platforms == {"unix", "win32"}

\* Every setting of the three streams.
StreamCalls ==
    {Call("inherit", k, v) : k \in Stdio, v \in BOOLEAN}
    \cup {Call("redirect", k, t) : k \in Stdio, t \in UserFds \cup {FD_INVALID}}
    \cup {Call("merge_outputs", 0, v) : v \in BOOLEAN}
    \cup {Call("inherit_output", 0, v) : v \in BOOLEAN}
    \cup {Call("command", 0, p)}

Streams ==
    {[Case(pl, Plain, StreamCalls) EXCEPT !.inheritable = h] :
        pl \in Platforms, h \in {{}, Stdio \cup UserFds}}

\* Arguments of every shape quoting can meet.
Chars == {"a", Blank, Backslash, Quote}
WordsUpTo(n) == UNION {[1..m -> Chars] : m \in 0..n}

ArgumentLists == {<<w>> : w \in WordsUpTo(4)}
                 \cup {<<v, w>> : v \in WordsUpTo(2), w \in WordsUpTo(2)}

Words == {Case("win32", Plain, {Call("command", 0, blankp), Call("arguments", 0, ws)}) :
             ws \in ArgumentLists}

\* Programs, arguments and a shell, set and set again.
Lines == {Case(pl, Plain, {Call("command", 0, p), Call("command", 0, q),
                           Call("command", 0, <<>>),
                           Call("arguments", 0, <<>>), Call("arguments", 0, <<p, q>>),
                           Call("arguments", 0, <<q>>),
                           Call("shell", 0, sh), Call("shell", 0, NoWord)}) :
             pl \in Platforms}

\* What execve makes of the candidates, along several PATHs; a program with
\* a slash has one candidate.  Where nothing is tried nothing need vary.
Tried(pa, c) == IF c = pathp THEN {"/"}
                ELSE IF pa = <<"/usr/bin", "/long">> THEN {"/usr/bin"}
                ELSE {".", "/bin", "/usr/bin"}

Outcomes == {"ok", "EACCES", "ENOENT", "ENOEXEC", "ENAMETOOLONG"}

World(pa, s, e) ==
    [Plain EXCEPT !.path = pa, !.sh = s,
                  !.execve = [d \in Dirs |-> IF d = "/long" THEN "PATH_MAX"
                                             ELSE IF d \in DOMAIN e THEN e[d] ELSE "ok"]]

SearchCalls(c) == {Call("command", 0, c), Call("arguments", 0, <<q>>),
                   Call("environment", "M", 1)}

Searches ==
    UNION {{Case("unix", World(pa, s, e), SearchCalls(c)) : e \in [Tried(pa, c) -> Outcomes]} :
             pa \in {NoWord, <<"/bin", "", "/usr/bin">>, <<"/usr/bin", "/long">>},
             s \in {"ok", "ENOENT"}, c \in {p, pathp}}

\* Parent's blocks with a name twice, entries without a name and a hidden
\* one, and variables set and set again.
Blocks == {<<Entry("plain", "N", 1), Entry("plain", "M", 2), Entry("plain", "N", 3)>>,
           <<Entry("hidden", "=C:", 1), Entry("plain", "n", 2), Entry("bare", "", 0)>>,
           <<>>}

Variables == {Case(pl, [Plain EXCEPT !.environ = e],
                   {Call("environment", n, v) : n \in {"N", "n", ""}, v \in {1, 2}}
                   \cup {Call("inherit_env", 0, v) : v \in BOOLEAN}
                   \cup {Call("command", 0, p)}) :
                pl \in Platforms, e \in Blocks}

AllCases == Streams \cup Words \cup Lines \cup Searches \cup Variables

=============================================================================
