------------------------------ MODULE MCFileIo ------------------------------
(* Small instances of FileIo. *)
EXTENDS FileIo

CONSTANTS a, b, z, h1, f1, f2, main, c1, c2

OneLetter == {<<a>>}
TwoUnits == {<<a>>, <<b, b>>}
OldFile == <<z>>

Opened(m1, m2) == [f \in Files |-> IF f = f1 THEN m1 ELSE m2]

\* A reader beside an appender, two appenders, one that also reads, and
\* overwriters that start from the old file or from an empty one.  Platforms
\* differ in how they append.
Appenders == {Opened("r", "a"), Opened("a+", "unused")}
Overwriters == {Opened("r+", "unused"), Opened("w", "unused"), Opened("w+", "unused")}

AllPlans == [posix |-> Appenders \cup Overwriters \cup {Opened("a", "a")},
             win32 |-> Appenders]

ReadOnly == [posix |-> {Opened("r", "unused")}]

=============================================================================
