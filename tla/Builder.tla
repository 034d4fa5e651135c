------------------------------ MODULE Builder ------------------------------
(***************************************************************************)
(* process_builder: the setters a script calls in any order and as often   *)
(* as it likes, and start(), which works on a copy of the settings, wraps  *)
(* the command in a shell when asked to, and calls create_process().       *)
(*                                                                         *)
(* A word of a command line is a sequence of characters.  asked keeps what *)
(* the documentation says the calls mean, apart from how the builder keeps *)
(* its settings.                                                           *)
(***************************************************************************)
EXTENDS Spawn, CommandLine

CONSTANTS DashC, SlashC                 \* the words -c and /c

ASSUME WordsAssumption == DashC \in AWord /\ SlashC \in AWord /\ NoWord \notin AWord

Call(set, at, to) == [set |-> set, at |-> at, to |-> to]

Defaults == [cmdline |-> <<>>, shell |-> NoWord,
             env |-> << >>, inherit_env |-> TRUE,
             inherit |-> [k \in Stdio |-> FALSE],
             target |-> [k \in Stdio |-> FD_INVALID],
             merge |-> FALSE]

\* env as a map from names to values.
Assign(map, name, value) ==
    [n \in DOMAIN map \cup {name} |-> IF n = name THEN value ELSE map[n]]

command(b, program) ==
    [b EXCEPT !.cmdline = IF @ = <<>> THEN <<program>>
                          ELSE [@ EXCEPT ![1] = program]]

\* Whatever is first is taken for the program.
arguments(b, args) ==
    [b EXCEPT !.cmdline = (IF Len(@) > 1 THEN <<@[1]>> ELSE @) \o args]

environment(b, key, value) == [b EXCEPT !.env = Assign(@, key, value)]

\* What one call of a setter does to the settings.
Set(b, c) ==
    CASE c.set = "command"        -> command(b, c.to)
      [] c.set = "arguments"      -> arguments(b, c.to)
      [] c.set = "environment"    -> environment(b, c.at, c.to)
      [] c.set = "inherit_env"    -> [b EXCEPT !.inherit_env = c.to]
      [] c.set = "shell"          -> [b EXCEPT !.shell = c.to]
      [] c.set = "inherit"        -> [b EXCEPT !.inherit[c.at] = c.to]
      [] c.set = "inherit_output" -> [b EXCEPT !.inherit[1] = c.to, !.inherit[2] = c.to]
      [] c.set = "redirect"       -> [b EXCEPT !.target[c.at] = c.to]
      [] c.set = "merge_outputs"  -> [b EXCEPT !.merge = c.to]

\* What the call asks for: the last program and the last arguments count,
\* the last value of every variable.
Meant(a, c) ==
    CASE c.set = "command"     -> [a EXCEPT !.command = c.to]
      [] c.set = "arguments"   -> [a EXCEPT !.arguments = c.to,
                                            !.early = a.early \/ a.command = NoWord]
      [] c.set = "environment" -> [a EXCEPT !.env = Assign(@, c.at, c.to)]
      [] OTHER                 -> a

\* The script makes one of its calls.
configure ==
    /\ pc = "build"
    /\ \E c \in script : builder' = Set(builder, c) /\ asked' = Meant(asked, c)
    /\ UNCHANGED <<platform, world, script, startup, fds, inheritable, pipes,
                   info, pc, childVars>>

\* The words with a blank between each two.
Joined(words) ==
    FoldLeft(LAMBDA all, i : all \o (IF i > 1 THEN <<Blank>> ELSE <<>>) \o words[i],
             <<>>, [i \in 1..Len(words) |-> i])

\* The settings start() passes on.
Wrapped(b) ==
    IF b.shell = NoWord THEN b
    ELSE [b EXCEPT !.cmdline =
            <<b.shell, IF platform = "win32" THEN SlashC ELSE DashC, Joined(b.cmdline)>>]

\* start() refuses an empty command.
start ==
    /\ pc = "build"
    /\ \/ /\ builder.cmdline = <<>>
          /\ pc' = "threw"
          /\ UNCHANGED startup
       \/ /\ builder.cmdline # <<>>
          /\ startup' = Wrapped(builder)
          /\ pc' = "bind_stdin"
    /\ UNCHANGED <<platform, world, script, builder, asked, fds, inheritable,
                   pipes, info, childVars>>

NothingAsked == [command |-> NoWord, arguments |-> <<>>, env |-> << >>, early |-> FALSE]

=============================================================================
