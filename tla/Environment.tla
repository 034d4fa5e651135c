---------------------------- MODULE Environment ----------------------------
(***************************************************************************)
(* The environment the child is given: the parent's entries and the        *)
(* builder's variables merged into a map, on Unix and on Windows, and what *)
(* the child finds when it looks a name up.                                *)
(*                                                                         *)
(* An entry of the parent's block is [is, name, value]: "plain" is         *)
(* name=value, "bare" has no '=', and "hidden" is the =C:=value by which   *)
(* Windows keeps the current directory of a drive.  Hidden entries belong  *)
(* to Windows.                                                             *)
(***************************************************************************)
EXTENDS Naturals, Sequences, SequencesExt

Entry(is, name, value) == [is |-> is, name |-> name, value |-> value]

NoName == ""

\* effective.emplace(): the first entry of a name stays.
emplace(map, e) ==
    IF e.name \in DOMAIN map THEN map
    ELSE [n \in DOMAIN map \cup {e.name} |-> IF n = e.name THEN e.value ELSE map[n]]

\* Reading the parent's block: what has no name is left out; so is, on
\* Windows, what has an empty one.
Taken(platform, e) ==
    /\ e.is # "bare"
    /\ platform = "win32" => e.name # NoName

ParentMap(platform, block) ==
    FoldLeft(LAMBDA map, e : IF Taken(platform, e) THEN emplace(map, e) ELSE map,
             << >>, block)

\* merged[e.first] = e.second for every variable of the builder.
override_KeepsParents(map, env) == map @@ env

override(map, env) ==
    [n \in DOMAIN map \cup DOMAIN env |-> IF n \in DOMAIN env THEN env[n] ELSE map[n]]

\* The child's block.  Windows leaves out variables with an empty name.
ChildMap(platform, block, inherit_env, env) ==
    LET all == IF inherit_env THEN override(ParentMap(platform, block), env) ELSE env
    IN  [n \in DOMAIN all \ (IF platform = "win32" THEN {NoName} ELSE {}) |-> all[n]]

\* The parent's whole block is passed on as it is.
PassedOn(inherit_env, env) == inherit_env /\ DOMAIN env = {}

-----------------------------------------------------------------------------
(* The other side.                                                         *)

\* Windows takes names that differ only in case for the same.
Upper(platform, name) ==
    IF platform = "win32" /\ name = "n" THEN "N" ELSE name

\* The values a child can find under a name.
Lookup(platform, map, name) ==
    {map[n] : n \in {m \in DOMAIN map : Upper(platform, m) = Upper(platform, name)}}

\* What the parent itself finds: the first entry.
ParentValue(platform, block, name) ==
    LET at == {i \in 1..Len(block) :
                 /\ block[i].is # "bare"
                 /\ Upper(platform, block[i].name) = Upper(platform, name)}
    IN  {block[i].value : i \in {j \in at : \A k \in at : j <= k}}

=============================================================================
