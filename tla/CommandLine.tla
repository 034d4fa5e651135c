---------------------------- MODULE CommandLine ----------------------------
(***************************************************************************)
(* CreateProcess takes one string for a whole command line.  create_       *)
(* process_impl() on Windows quotes every word so that the C runtime of    *)
(* the child, which cuts the string into words again, finds the same ones. *)
(***************************************************************************)
EXTENDS Naturals, Sequences, SequencesExt

CONSTANTS
    Characters,                         \* what a word is made of
    Blank, Backslash, Quote             \* the characters that matter

\* "NULL" is the end of argv, and no character of a word.
ASSUME CharactersAssumption ==
    /\ {Blank, Backslash, Quote} \subseteq Characters
    /\ Blank # Backslash /\ Blank # Quote /\ Backslash # Quote
    /\ "NULL" \notin Characters

AWord == Seq(Characters)

Backslashes(n) == [i \in 1..n |-> Backslash]

need_quote(word) ==
    word = <<>> \/ \E i \in 1..Len(word) : word[i] \in {Blank, Quote}

\* The loop over the characters: run counts the backslashes met since the
\* last other character.
QuoteStep(q, ch) ==
    IF ch = Backslash THEN [q EXCEPT !.run = @ + 1]
    ELSE [out |-> q.out \o (IF ch = Quote THEN Backslashes(2 * q.run + 1)
                            ELSE Backslashes(q.run)) \o <<ch>>,
          run |-> 0]

quoted_TrailingVerbatim(word) ==
    IF ~need_quote(word) THEN word
    ELSE LET q == FoldLeft(QuoteStep, [out |-> <<>>, run |-> 0], word)
         IN  <<Quote>> \o q.out \o Backslashes(q.run) \o <<Quote>>

quoted(word) ==
    IF ~need_quote(word) THEN word
    ELSE LET q == FoldLeft(QuoteStep, [out |-> <<>>, run |-> 0], word)
         IN  <<Quote>> \o q.out \o Backslashes(2 * q.run) \o <<Quote>>

command_line(words) ==
    FoldLeft(LAMBDA all, w : all \o quoted(w) \o <<Blank>>, <<>>, words)

-----------------------------------------------------------------------------
(* The C runtime of the child (external): backslashes are ordinary unless  *)
(* a quote follows them; then two stand for one, and an odd one makes the  *)
(* quote an ordinary character.  A quoted stretch hides blanks, and two    *)
(* quotes inside it are one.  The program's name knows no backslash.       *)

\* inq: inside quotes; word: inside a word; shut: the quote just read closed
\* a stretch.
ParseStep(p, ch) ==
    LET program == p.argv = <<>>
        run == IF ch = Quote /\ ~program THEN p.run \div 2 ELSE p.run
        text == p.text \o Backslashes(run)
        literal == ch = Quote /\ ~program /\ p.run % 2 = 1
    IN  CASE ch = Backslash ->
               [p EXCEPT !.run = @ + 1, !.word = TRUE, !.shut = FALSE]
          [] ch = Quote /\ literal ->
               [p EXCEPT !.text = Append(text, Quote), !.run = 0, !.shut = FALSE]
          [] ch = Quote /\ ~literal /\ p.shut /\ p.run = 0 /\ ~program ->
               [p EXCEPT !.text = Append(text, Quote), !.inq = TRUE, !.shut = FALSE]
          [] ch = Quote /\ ~literal /\ ~(p.shut /\ p.run = 0 /\ ~program) ->
               [p EXCEPT !.text = text, !.run = 0, !.word = TRUE,
                         !.inq = ~p.inq, !.shut = p.inq]
          [] ch = Blank /\ ~p.inq ->
               IF p.word
               THEN [argv |-> Append(p.argv, text), text |-> <<>>, run |-> 0,
                     word |-> FALSE, inq |-> FALSE, shut |-> FALSE]
               ELSE p
          [] OTHER ->
               [p EXCEPT !.text = Append(text, ch), !.run = 0,
                         !.word = TRUE, !.shut = FALSE]

Parsed(line) ==
    LET p == FoldLeft(ParseStep, [argv |-> <<>>, text |-> <<>>, run |-> 0,
                                  word |-> FALSE, inq |-> FALSE, shut |-> FALSE], line)
    IN  IF p.word THEN Append(p.argv, p.text \o Backslashes(p.run)) ELSE p.argv

=============================================================================
