----------------------------- MODULE ImageProofs -----------------------------
(***************************************************************************)
(* What the child executes: for every script that sets up a builder, every *)
(* word of its command line and every block of the environment, the words  *)
(* and the variables that the program finds are the ones asked for.        *)
(*                                                                         *)
(* The command line, its parsing and the environment are folds over data   *)
(* of any size.  A fold is a recursive function, of which nothing but its  *)
(* definition is known, so the first part shows that folds compute what    *)
(* they should, by induction over sets.                                    *)
(***************************************************************************)
EXTENDS CreateProcessProofs

-----------------------------------------------------------------------------
(* Induction.                                                              *)

\* Induction over the natural numbers, with a set in the place of a predicate.
LEMMA NatInductionSet ==
    ASSUME NEW P, 0 \in P, \A n \in Nat : n \in P => n + 1 \in P
    PROVE  Nat \subseteq P
<1> DEFINE Less == {ss \in Nat \X Nat : ss[1] < ss[2]}
           Rest == Nat \ P
<1>1. IsWellFoundedOn(Less, Nat)
  BY NatLessThanWellFounded, Zenon DEF OpToRel
<1>2. CASE Rest # {}
  <2>1. PICK x \in Rest : \A y \in Rest : ~ (<<y, x>> \in Less)
    <3>1. Rest \subseteq Nat
      OBVIOUS
    <3> HIDE DEF Less, Rest
    <3> QED  BY <1>1, <1>2, <3>1, WFMin, Zenon
  <2>2. x # 0 /\ x \in Nat
    OBVIOUS
  <2>3. x - 1 \in Nat /\ x - 1 < x
    BY <2>2
  <2>4. <<x - 1, x>> \in Less
    BY <2>2, <2>3
  <2>5. x - 1 \in P
    BY <2>1, <2>3, <2>4
  <2>6. (x - 1) + 1 \in P
    BY <2>3, <2>5
  <2> QED  BY <2>2, <2>6
<1> QED  BY <1>2

\* The greatest of a set of numbers up to n + 1 that holds n + 1.
LEMMA MaxOfInterval ==
    ASSUME NEW m \in Nat, NEW s \in SUBSET (1..m+1), m + 1 \in s
    PROVE  Max(s) = m + 1
<1>1. \A y \in s : m + 1 >= y /\ y \in Int
  OBVIOUS
<1>2. \A x \in s : (\A y \in s : x >= y) => x = m + 1
  BY <1>1
<1> QED  BY <1>1, <1>2 DEF Max

\* The greatest of a set of numbers up to n is one of them.
LEMMA MaxIsIn ==
    ASSUME NEW n \in Nat, NEW s \in SUBSET (1..n), s # {}
    PROVE  Max(s) \in s
<1> DEFINE P == {m \in Nat : \A t \in SUBSET (1..m) : t # {} => Max(t) \in t}
<1>1. 0 \in P
  <2>1. \A t \in SUBSET (1..0) : t = {}
    OBVIOUS
  <2> QED  BY <2>1
<1>2. ASSUME NEW m \in Nat, m \in P
      PROVE  m + 1 \in P
  <2> SUFFICES ASSUME NEW t \in SUBSET (1..m+1), t # {} PROVE Max(t) \in t
    OBVIOUS
  <2>1. CASE m + 1 \in t
    BY <2>1, MaxOfInterval
  <2>2. CASE m + 1 \notin t
    <3>1. t \in SUBSET (1..m)
      BY <2>2
    <3> QED  BY <1>2, <3>1
  <2> QED  BY <2>1, <2>2
<1>3. Nat \subseteq P
  <2> HIDE DEF P
  <2> QED  BY <1>1, <1>2, NatInductionSet
<1> QED  BY <1>3

\* step takes what was computed so far and the next element.
IsStep(step, A, X) == step \in [A \X X -> A]

IsTable(f, n, A) == f \in [SUBSET (1..n) -> A]

\* f goes through the sets of positions of seq as FoldLeft does.
Goes(f, step, base, seq) ==
    \A s \in SUBSET (1..Len(seq)) :
       f[s] = IF s = {} THEN base ELSE step[<<f[s \ {Max(s)}], seq[Max(s)]>>]

\* A function on the subsets of 1..n by recursion on the greatest element.
LEMMA SubsetRecursion ==
    ASSUME NEW A, NEW X, NEW step, IsStep(step, A, X), NEW base \in A,
           NEW seq \in Seq(X)
    PROVE  \E f : IsTable(f, Len(seq), A) /\ Goes(f, step, base, seq)
<1>0. PICK n \in Nat : n = Len(seq) /\ seq \in [1..n -> X]
  OBVIOUS
<1> DEFINE Rec(f, m) == \A s \in SUBSET (1..m) :
               f[s] = IF s = {} THEN base ELSE step[<<f[s \ {Max(s)}], seq[Max(s)]>>]
           Good(m) == \E f \in [SUBSET (1..m) -> A] : Rec(f, m)
           P == {m \in Nat : m =< n => Good(m)}
<1>1. 0 \in P
  <2>1. Rec([s \in SUBSET (1..0) |-> base], 0)
    <3>1. \A s \in SUBSET (1..0) : s = {}
      OBVIOUS
    <3> QED BY <3>1
  <2> HIDE DEF Rec
  <2> QED BY <2>1
<1>2. ASSUME NEW m \in Nat, m \in P
      PROVE  m + 1 \in P
  <2> SUFFICES ASSUME m + 1 =< n PROVE Good(m + 1)
    <3> HIDE DEF Good
    <3> QED OBVIOUS
  <2>0. Good(m)
    <3> HIDE DEF Good
    <3> QED BY <1>2
  <2>1. PICK f \in [SUBSET (1..m) -> A] : Rec(f, m)
    <3> HIDE DEF Rec
    <3> QED BY <2>0
  <2> DEFINE g == [s \in SUBSET (1..m+1) |->
                     IF m + 1 \in s THEN step[<<f[s \ {m + 1}], seq[m + 1]>>] ELSE f[s]]
  <2>2. ASSUME NEW s \in SUBSET (1..m+1)
        PROVE  /\ m + 1 \notin s => s \in SUBSET (1..m)
               /\ s \ {m + 1} \in SUBSET (1..m)
    OBVIOUS
  <2>3. g \in [SUBSET (1..m+1) -> A]
    <3>1. seq[m + 1] \in X
      BY <1>0
    <3>2. ASSUME NEW s \in SUBSET (1..m+1)
          PROVE  (IF m + 1 \in s THEN step[<<f[s \ {m + 1}], seq[m + 1]>>] ELSE f[s]) \in A
      <4>1. CASE m + 1 \in s
        <5>1. f[s \ {m + 1}] \in A
          BY <2>2
        <5>2. <<f[s \ {m + 1}], seq[m + 1]>> \in A \X X
          BY <5>1, <3>1
        <5> QED BY <4>1, <5>2 DEF IsStep
      <4>2. CASE m + 1 \notin s
        BY <4>2, <2>2
      <4> QED BY <4>1, <4>2
    <3> QED BY <3>2
  <2>4. ASSUME NEW s \in SUBSET (1..m+1)
        PROVE  g[s] = IF s = {} THEN base ELSE step[<<g[s \ {Max(s)}], seq[Max(s)]>>]
    <3>1. CASE m + 1 \in s
      <4>1. Max(s) = m + 1
        BY <3>1, MaxOfInterval
      <4>2. g[s \ {m + 1}] = f[s \ {m + 1}]
        BY <2>2
      <4>3. g[s] = step[<<f[s \ {m + 1}], seq[m + 1]>>]
        BY <3>1
      <4> HIDE DEF g
      <4> QED BY <3>1, <4>1, <4>2, <4>3
    <3>2. CASE m + 1 \notin s
      <4>1. s \in SUBSET (1..m) /\ s \ {Max(s)} \in SUBSET (1..m) /\ m + 1 \notin s \ {Max(s)}
        BY <3>2, <2>2
      <4>2. g[s] = f[s] /\ g[s \ {Max(s)}] = f[s \ {Max(s)}]
        BY <4>1, <3>2
      <4> HIDE DEF g
      <4> QED BY <4>1, <4>2, <2>1
    <3> QED BY <3>1, <3>2
  <2> HIDE DEF g
  <2> QED BY <2>3, <2>4
<1>3. Nat \subseteq P
  <2> HIDE DEF P
  <2> QED BY <1>1, <1>2, NatInductionSet
<1>4. Good(n)
  <2> HIDE DEF Good
  <2> QED BY <1>3
<1> QED  BY <1>0, <1>4 DEF IsTable, Goes


\* Whatever holds of {} and passes from s without its greatest element to s
\* holds of every subset of 1..n.
LEMMA SubsetInduction ==
    ASSUME NEW n \in Nat, NEW P, {} \in P,
           \A s \in SUBSET (1..n) : s # {} /\ s \ {Max(s)} \in P => s \in P
    PROVE  SUBSET (1..n) \subseteq P
<1> DEFINE Good == {m \in Nat : m =< n => SUBSET (1..m) \subseteq P}
<1>1. 0 \in Good
  <2>1. \A s \in SUBSET (1..0) : s = {}
    OBVIOUS
  <2> QED  BY <2>1
<1>2. ASSUME NEW m \in Nat, m \in Good
      PROVE  m + 1 \in Good
  <2> SUFFICES ASSUME m + 1 =< n, NEW s \in SUBSET (1..m+1) PROVE s \in P
    OBVIOUS
  <2>1. CASE m + 1 \in s
    <3>1. Max(s) = m + 1
      BY <2>1, MaxOfInterval
    <3>2. s \ {m + 1} \in SUBSET (1..m)
      OBVIOUS
    <3>3. s \ {m + 1} \in P
      BY <1>2, <3>2
    <3>4. s \in SUBSET (1..n)
      OBVIOUS
    <3> QED  BY <2>1, <3>1, <3>3, <3>4
  <2>2. CASE m + 1 \notin s
    <3>1. s \in SUBSET (1..m)
      BY <2>2
    <3> QED  BY <1>2, <3>1
  <2> QED  BY <2>1, <2>2
<1>3. Nat \subseteq Good
  <2> HIDE DEF Good
  <2> QED  BY <1>1, <1>2, NatInductionSet
<1> QED  BY <1>3

\* A fold whose step is a function.
Fold(step, base, seq) == FoldLeft(LAMBDA a, x : step[<<a, x>>], base, seq)

LEMMA FoldGoes ==
    ASSUME NEW A, NEW X, NEW step, IsStep(step, A, X), NEW base \in A, NEW seq \in Seq(X)
    PROVE  \E f : /\ IsTable(f, Len(seq), A) /\ Goes(f, step, base, seq)
                  /\ Fold(step, base, seq) = f[1..Len(seq)]
<1> DEFINE n == Len(seq)
           Eq(f) == f = [s \in SUBSET DOMAIN seq |->
                       IF s = {} THEN base ELSE step[<<f[s \ {Max(s)}], seq[Max(s)]>>]]
           iter == CHOOSE f : Eq(f)
<1>1. Fold(step, base, seq) = iter[DOMAIN seq]
  BY DEF Fold, FoldLeft, MapThenFoldSet
<1>2. n \in Nat /\ DOMAIN seq = 1..n /\ seq \in [1..n -> X]
  OBVIOUS
<1> HIDE DEF n
<1>0. PICK f : IsTable(f, Len(seq), A) /\ Goes(f, step, base, seq)
  BY SubsetRecursion
<1>3. /\ f \in [SUBSET (1..n) -> A]
      /\ \A s \in SUBSET (1..n) :
            f[s] = IF s = {} THEN base ELSE step[<<f[s \ {Max(s)}], seq[Max(s)]>>]
  BY <1>0 DEF IsTable, Goes, n
<1>4. Eq(f)
  BY <1>2, <1>3
<1>5. Eq(iter)
  <2> HIDE DEF Eq
  <2> QED  BY <1>4
<1>6. \A s \in SUBSET (1..n) :
         iter[s] = IF s = {} THEN base ELSE step[<<iter[s \ {Max(s)}], seq[Max(s)]>>]
  <2> HIDE DEF iter
  <2> QED  BY <1>2, <1>5
<1> HIDE DEF iter
<1>7. SUBSET (1..n) \subseteq {s \in SUBSET (1..n) : iter[s] = f[s]}
  <2> DEFINE P == {s \in SUBSET (1..n) : iter[s] = f[s]}
  <2>1. {} \in P
    BY <1>3, <1>6
  <2>2. \A s \in SUBSET (1..n) : s # {} /\ s \ {Max(s)} \in P => s \in P
    BY <1>3, <1>6
  <2> HIDE DEF P
  <2>3. SUBSET (1..n) \subseteq P
    BY <1>2, <2>1, <2>2, SubsetInduction
  <2> QED  BY <2>3 DEF P
<1>8. iter[1..n] = f[1..n]
  BY <1>7
<1>9. Goes(f, step, base, seq)
  BY <1>3 DEF Goes, n
<1> QED  BY <1>0, <1>1, <1>2, <1>8, <1>9 DEF n

LEMMA FoldEmpty ==
    ASSUME NEW A, NEW X, NEW step, IsStep(step, A, X), NEW base \in A
    PROVE  Fold(step, base, <<>>) = base
<1>1. <<>> \in Seq(X) /\ Len(<<>>) = 0 /\ 1..0 = {}
  OBVIOUS
<1>2. ASSUME NEW seq \in Seq(X)
      PROVE  \E f : /\ IsTable(f, Len(seq), A) /\ Goes(f, step, base, seq)
                    /\ Fold(step, base, seq) = f[1..Len(seq)]
  BY FoldGoes
<1>3. PICK f : Goes(f, step, base, <<>>) /\ Fold(step, base, <<>>) = f[1..Len(<<>>)]
  BY <1>1, <1>2
<1> QED  BY <1>1, <1>3 DEF Goes

LEMMA FoldType ==
    ASSUME NEW A, NEW X, NEW step, IsStep(step, A, X), NEW base \in A, NEW seq \in Seq(X)
    PROVE  Fold(step, base, seq) \in A
<1>1. PICK f : /\ IsTable(f, Len(seq), A) /\ Goes(f, step, base, seq)
               /\ Fold(step, base, seq) = f[1..Len(seq)]
  BY FoldGoes
<1> QED  BY <1>1 DEF IsTable

LEMMA FoldAppend ==
    ASSUME NEW A, NEW X, NEW step, IsStep(step, A, X), NEW base \in A,
           NEW seq \in Seq(X), NEW x \in X
    PROVE  Fold(step, base, Append(seq, x)) = step[<<Fold(step, base, seq), x>>]
<1> DEFINE long == Append(seq, x)
           n == Len(seq)
<1>1. /\ long \in Seq(X) /\ n \in Nat /\ Len(long) = n + 1 /\ long[n + 1] = x
      /\ \A i \in 1..n : long[i] = seq[i]
  OBVIOUS
<1>2. PICK f : IsTable(f, n, A) /\
         Goes(f, step, base, seq) /\ Fold(step, base, seq) = f[1..n]
  BY FoldGoes
<1> HIDE DEF long
<1>3. PICK g : IsTable(g, Len(long), A) /\
         Goes(g, step, base, long) /\ Fold(step, base, long) = g[1..Len(long)]
  BY <1>1, FoldGoes
<1> HIDE DEF n
<1>4. \A s \in SUBSET (1..n) : s # {} => Max(s) \in s
  <2> TAKE s \in SUBSET (1..n)
  <2> QED BY <1>1, MaxIsIn
<1>5. SUBSET (1..n) \subseteq {s \in SUBSET (1..n) : f[s] = g[s]}
  <2> DEFINE P == {s \in SUBSET (1..n) : f[s] = g[s]}
  <2>0. \A s \in SUBSET (1..n) : s \in SUBSET (1..n+1)
    BY <1>1
  <2>1. {} \in P
    BY <1>1, <1>2, <1>3 DEF Goes, n
  <2>2. ASSUME NEW s \in SUBSET (1..n), s # {}, s \ {Max(s)} \in P
        PROVE  s \in P
    <3>1. f[s] = step[<<f[s \ {Max(s)}], seq[Max(s)]>>]
      BY <1>2, <2>2 DEF Goes, n
    <3>2. g[s] = step[<<g[s \ {Max(s)}], long[Max(s)]>>]
      BY <1>1, <1>3, <2>0, <2>2 DEF Goes
    <3>3. long[Max(s)] = seq[Max(s)]
      BY <1>1, <1>4, <2>2
    <3> QED  BY <2>2, <3>1, <3>2, <3>3
  <2> HIDE DEF P
  <2>3. SUBSET (1..n) \subseteq P
    BY <1>1, <2>1, <2>2, SubsetInduction
  <2> QED  BY <2>3 DEF P
<1>6. 1..n+1 \in SUBSET (1..n+1) /\ n + 1 \in 1..n+1 /\ 1..n+1 # {}
      /\ (1..n+1) \ {n+1} = 1..n
  <2>1. n + 1 \in 1..n+1
    BY <1>1
  <2>2. \A i : i \in (1..n+1) \ {n+1} <=> i \in 1..n
    BY <1>1
  <2> QED  BY <2>1, <2>2
<1>7. Max(1..n+1) = n + 1
  BY <1>1, <1>6, MaxOfInterval
<1>8. g[1..n+1] = step[<<g[(1..n+1) \ {Max(1..n+1)}], long[Max(1..n+1)]>>]
  <2>1. \A s \in SUBSET (1..n+1) :
           g[s] = IF s = {} THEN base ELSE step[<<g[s \ {Max(s)}], long[Max(s)]>>]
    BY <1>1, <1>3 DEF Goes
  <2> QED  BY <2>1, <1>6, Zenon
<1>9. f[1..n] = g[1..n]
  BY <1>5
<1> QED  BY <1>1, <1>2, <1>3, <1>6, <1>7, <1>8, <1>9 DEF long

\* The element a step takes.
LEMMA LastIn ==
    ASSUME NEW X, NEW seq \in Seq(X), NEW s \in SUBSET (1..Len(seq)), s # {}
    PROVE  seq[Max(s)] \in X
<1>1. Len(seq) \in Nat
  OBVIOUS
<1>2. Max(s) \in s
  BY <1>1, MaxIsIn
<1>3. Max(s) \in 1..Len(seq)
  BY <1>2
<1>4. \A i \in 1..Len(seq) : seq[i] \in X
  OBVIOUS
<1> QED  BY <1>3, <1>4, Zenon

\* h goes through the sets of positions in the same way as long as its
\* values are in A.
Follows(h, A, step, base, seq) ==
    /\ h[{}] = base
    /\ \A s \in SUBSET (1..Len(seq)) :
          s # {} /\ h[s \ {Max(s)}] \in A => h[s] = step[<<h[s \ {Max(s)}], seq[Max(s)]>>]

LEMMA FoldIs ==
    ASSUME NEW A, NEW X, NEW step, IsStep(step, A, X), NEW base \in A, NEW seq \in Seq(X),
           NEW h, Follows(h, A, step, base, seq)
    PROVE  h[1..Len(seq)] = Fold(step, base, seq)
<1> DEFINE n == Len(seq)
<1>1. PICK f : /\ IsTable(f, Len(seq), A) /\ Goes(f, step, base, seq)
               /\ Fold(step, base, seq) = f[1..Len(seq)]
  BY FoldGoes
<1>2. n \in Nat /\ f \in [SUBSET (1..n) -> A]
      /\ \A s \in SUBSET (1..n) :
            f[s] = IF s = {} THEN base ELSE step[<<f[s \ {Max(s)}], seq[Max(s)]>>]
  <2>1. n \in Nat
    OBVIOUS
  <2> QED  BY <1>1, <2>1, Zenon DEF IsTable, Goes
<1> DEFINE P == {s \in SUBSET (1..n) : h[s] = f[s]}
<1>3. {} \in P
  BY <1>2 DEF Follows
<1>4. ASSUME NEW s \in SUBSET (1..n), s # {}, s \ {Max(s)} \in P
      PROVE  s \in P
  <2>1. h[s \ {Max(s)}] = f[s \ {Max(s)}] /\ f[s \ {Max(s)}] \in A
    BY <1>2, <1>4
  <2>2. h[s] = step[<<h[s \ {Max(s)}], seq[Max(s)]>>]
    BY <1>4, <2>1 DEF Follows
  <2> QED  BY <1>2, <1>4, <2>1, <2>2
<1>5. SUBSET (1..n) \subseteq P
  <2> HIDE DEF P, n
  <2> QED  BY <1>2, <1>3, <1>4, SubsetInduction
<1> QED  BY <1>1, <1>5

\* What holds of <<>> and stays true when an element is appended holds of
\* every sequence.
LEMMA SeqInduction ==
    ASSUME NEW X, NEW P, <<>> \in P,
           \A s \in Seq(X), x \in X : s \in P => Append(s, x) \in P
    PROVE  Seq(X) \subseteq P
<1> DEFINE Good == {n \in Nat : \A s \in Seq(X) : Len(s) = n => s \in P}
<1>1. 0 \in Good
  OBVIOUS
<1>2. ASSUME NEW n \in Nat, n \in Good
      PROVE  n + 1 \in Good
  <2> SUFFICES ASSUME NEW s \in Seq(X), Len(s) = n + 1 PROVE s \in P
    OBVIOUS
  <2> DEFINE front == SubSeq(s, 1, n)
  <2>1. front \in Seq(X) /\ Len(front) = n /\ s[n + 1] \in X
    OBVIOUS
  <2>2. s = Append(front, s[n + 1])
    OBVIOUS
  <2>3. front \in P
    BY <1>2, <2>1
  <2> HIDE DEF front
  <2> QED  BY <2>1, <2>2, <2>3
<1>3. Nat \subseteq Good
  <2> HIDE DEF Good
  <2> QED  BY <1>1, <1>2, NatInductionSet
<1> QED  BY <1>3

-----------------------------------------------------------------------------
(* Quoting, as a fold.                                                     *)

QuoteStates == [out : AWord, run : Nat]
NothingQuoted == [out |-> <<>>, run |-> 0]

\* The state of quoted() after the loop over the characters of a word.
Quoting(word) == FoldLeft(QuoteStep, NothingQuoted, word)

LEMMA BackslashesType ==
    ASSUME NEW n \in Nat
    PROVE  Backslashes(n) \in AWord /\ Len(Backslashes(n)) = n
BY CharactersAssumption DEF Backslashes, AWord

LEMMA QuoteStepType ==
    ASSUME NEW q \in QuoteStates, NEW ch \in Characters
    PROVE  QuoteStep(q, ch) \in QuoteStates
<1>1. CASE ch = Backslash
  BY <1>1 DEF QuoteStep, QuoteStates
<1>2. CASE ch # Backslash
  <2> DEFINE b == IF ch = Quote THEN Backslashes(2 * q.run + 1) ELSE Backslashes(q.run)
  <2>1. b \in AWord /\ q.out \in AWord /\ <<ch>> \in AWord
    BY BackslashesType DEF QuoteStates, AWord
  <2> HIDE DEF b
  <2>2. q.out \o b \o <<ch>> \in AWord
    BY <2>1 DEF AWord
  <2>3. QuoteStep(q, ch) = [out |-> q.out \o b \o <<ch>>, run |-> 0]
    BY <1>2 DEF QuoteStep, b
  <2> QED  BY <2>2, <2>3 DEF QuoteStates
<1> QED  BY <1>1, <1>2

LEMMA QuotingFolds ==
    /\ Quoting(<<>>) = NothingQuoted
    /\ \A word \in AWord : Quoting(word) \in QuoteStates
    /\ \A word \in AWord, ch \in Characters :
          Quoting(Append(word, ch)) = QuoteStep(Quoting(word), ch)
<1> DEFINE step == [ax \in QuoteStates \X Characters |-> QuoteStep(ax[1], ax[2])]
<1>1. IsStep(step, QuoteStates, Characters)
  BY QuoteStepType DEF IsStep
<1>2. NothingQuoted \in QuoteStates
  BY DEF NothingQuoted, QuoteStates, AWord
<1>3. \A q \in QuoteStates, ch \in Characters : step[<<q, ch>>] = QuoteStep(q, ch)
  OBVIOUS
<1> HIDE DEF step
<1>4. ASSUME NEW word \in AWord
      PROVE  Quoting(word) = Fold(step, NothingQuoted, word)
  <2> DEFINE Eq(f) == f = [s \in SUBSET DOMAIN word |->
                             IF s = {} THEN NothingQuoted
                             ELSE QuoteStep(f[s \ {Max(s)}], word[Max(s)])]
             iter == CHOOSE f : Eq(f)
  <2>1. Quoting(word) = iter[DOMAIN word]
    BY DEF Quoting, FoldLeft, MapThenFoldSet
  <2>2. word \in Seq(Characters) /\ Len(word) \in Nat /\ DOMAIN word = 1..Len(word)
    BY DEF AWord
  <2>3. PICK f : IsTable(f, Len(word), QuoteStates) /\ Goes(f, step, NothingQuoted, word)
    BY <1>1, <1>2, <2>2, SubsetRecursion
  <2>4. ASSUME NEW s \in SUBSET (1..Len(word)), s # {}
        PROVE  word[Max(s)] \in Characters
    BY <2>2, <2>4, LastIn
  <2>5. Eq(f)
    <3>1. f \in [SUBSET (1..Len(word)) -> QuoteStates]
      BY <2>3 DEF IsTable
    <3>2. ASSUME NEW s \in SUBSET (1..Len(word))
          PROVE  f[s] = IF s = {} THEN NothingQuoted
                        ELSE QuoteStep(f[s \ {Max(s)}], word[Max(s)])
      BY <1>3, <2>3, <2>4, <3>1 DEF Goes
    <3> QED  BY <2>2, <3>1, <3>2
  <2>6. Eq(iter)
    <3> HIDE DEF Eq
    <3> QED  BY <2>5
  <2>7. \A s \in SUBSET (1..Len(word)) :
           iter[s] = IF s = {} THEN NothingQuoted
                     ELSE QuoteStep(iter[s \ {Max(s)}], word[Max(s)])
    <3> HIDE DEF iter
    <3> QED  BY <2>2, <2>6
  <2> HIDE DEF iter
  <2>8. Follows(iter, QuoteStates, step, NothingQuoted, word)
    BY <1>3, <2>4, <2>7 DEF Follows
  <2>9. iter[1..Len(word)] = Fold(step, NothingQuoted, word)
    BY <1>1, <1>2, <2>2, <2>8, FoldIs
  <2> QED  BY <2>1, <2>2, <2>9
<1>5. ASSUME NEW word \in AWord
      PROVE  Quoting(word) \in QuoteStates
  BY <1>1, <1>2, <1>4, FoldType DEF AWord
<1>6. ASSUME NEW word \in AWord, NEW ch \in Characters
      PROVE  Quoting(Append(word, ch)) = QuoteStep(Quoting(word), ch)
  <2>1. word \in Seq(Characters) /\ Append(word, ch) \in AWord
    BY DEF AWord
  <2>2. Fold(step, NothingQuoted, Append(word, ch)) = step[<<Fold(step, NothingQuoted, word), ch>>]
    BY <1>1, <1>2, <2>1, FoldAppend
  <2> QED  BY <1>3, <1>4, <1>5, <2>1, <2>2
<1>7. Quoting(<<>>) = NothingQuoted
  <2>1. <<>> \in AWord
    BY DEF AWord
  <2>2. Fold(step, NothingQuoted, <<>>) = NothingQuoted
    BY <1>1, <1>2, FoldEmpty
  <2> QED  BY <1>4, <2>1, <2>2
<1> QED  BY <1>5, <1>6, <1>7

-----------------------------------------------------------------------------
(* Parsing, one character at a time.                                       *)

ParseStates == [argv : Seq(AWord), text : AWord, run : Nat,
                word : BOOLEAN, inq : BOOLEAN, shut : BOOLEAN]

State(argv, text, run, word, inq, shut) ==
    [argv |-> argv, text |-> text, run |-> run, word |-> word, inq |-> inq, shut |-> shut]

\* Between two words.
Between(argv) == State(argv, <<>>, 0, FALSE, FALSE, FALSE)

LEMMA StateType ==
    ASSUME NEW argv \in Seq(AWord), NEW text \in AWord, NEW run \in Nat,
           NEW word \in BOOLEAN, NEW inq \in BOOLEAN, NEW shut \in BOOLEAN
    PROVE  State(argv, text, run, word, inq, shut) \in ParseStates
BY DEF State, ParseStates

LEMMA WordFacts ==
    /\ <<>> \in AWord
    /\ \A s, t \in AWord : s \o t \in AWord
    /\ \A s \in AWord, ch \in Characters : Append(s, ch) \in AWord
    /\ \A s \in AWord : s \o <<>> = s /\ <<>> \o s = s
    /\ \A ws \in Seq(AWord), s \in AWord : Append(ws, s) \in Seq(AWord)
    /\ Backslashes(0) = <<>>
    /\ Blank \in Characters /\ Backslash \in Characters /\ Quote \in Characters
    /\ Blank # Backslash /\ Blank # Quote /\ Backslash # Quote
<1>1. \A s, t \in AWord : s \o t \in AWord
  BY DEF AWord
<1>2. Backslashes(0) = <<>>
  <2>1. Backslashes(0) = [i \in 1..0 |-> Backslash]
    BY DEF Backslashes
  <2>2. 1..0 = {}
    OBVIOUS
  <2> QED  BY <2>1, <2>2
<1>3. \A ws \in Seq(AWord), s \in AWord : Append(ws, s) \in Seq(AWord)
  OBVIOUS
<1>4. \A s \in AWord : s \o <<>> = s /\ <<>> \o s = s
  BY DEF AWord
<1> QED  BY <1>1, <1>2, <1>3, <1>4, CharactersAssumption DEF AWord

\* What a character does.
LEMMA ParseBackslash ==
    ASSUME NEW argv \in Seq(AWord), NEW text \in AWord, NEW run \in Nat,
           NEW word \in BOOLEAN, NEW inq \in BOOLEAN, NEW shut \in BOOLEAN
    PROVE  ParseStep(State(argv, text, run, word, inq, shut), Backslash)
             = State(argv, text, run + 1, TRUE, inq, FALSE)
BY WordFacts DEF ParseStep, State

LEMMA ParseOther ==
    ASSUME NEW argv \in Seq(AWord), NEW text \in AWord, NEW run \in Nat,
           NEW ch \in Characters \ {Backslash, Quote}
    PROVE  /\ ParseStep(State(argv, text, run, TRUE, TRUE, FALSE), ch)
                = State(argv, Append(text \o Backslashes(run), ch), 0, TRUE, TRUE, FALSE)
           /\ \A word \in BOOLEAN : ch # Blank =>
                 ParseStep(State(argv, text, run, word, FALSE, FALSE), ch)
                   = State(argv, Append(text \o Backslashes(run), ch), 0, TRUE, FALSE, FALSE)
BY WordFacts DEF ParseStep, State

LEMMA ParseBlank ==
    ASSUME NEW argv \in Seq(AWord), NEW text \in AWord, NEW run \in Nat,
           NEW shut \in BOOLEAN
    PROVE  ParseStep(State(argv, text, run, TRUE, FALSE, shut), Blank)
             = Between(Append(argv, text \o Backslashes(run)))
BY WordFacts DEF ParseStep, State, Between

LEMMA ParseLiteral ==
    ASSUME NEW argv \in Seq(AWord), NEW text \in AWord, NEW run \in Nat,
           NEW word \in BOOLEAN, NEW inq \in BOOLEAN, NEW shut \in BOOLEAN,
           argv # <<>>, run % 2 = 1
    PROVE  ParseStep(State(argv, text, run, word, inq, shut), Quote)
             = State(argv, Append(text \o Backslashes(run \div 2), Quote), 0, word, inq, FALSE)
BY WordFacts DEF ParseStep, State

LEMMA ParseOpens ==
    ASSUME NEW argv \in Seq(AWord)
    PROVE  ParseStep(Between(argv), Quote) = State(argv, <<>>, 0, TRUE, TRUE, FALSE)
<1>1. 0 \div 2 = 0 /\ 0 % 2 # 1
  OBVIOUS
<1>2. <<>> \o Backslashes(0) = <<>>
  BY WordFacts
<1> QED  BY <1>1, <1>2, WordFacts DEF ParseStep, State, Between

LEMMA ParseCloses ==
    ASSUME NEW argv \in Seq(AWord), NEW text \in AWord, NEW run \in Nat, NEW half \in Nat,
           run % 2 = 0, run \div 2 = half, argv = <<>> => half = run
    PROVE  ParseStep(State(argv, text, run, TRUE, TRUE, FALSE), Quote)
             = State(argv, text \o Backslashes(half), 0, TRUE, FALSE, TRUE)
<1>1. CASE argv = <<>>
  BY <1>1, WordFacts DEF ParseStep, State
<1>2. CASE argv # <<>>
  <2>1. run % 2 # 1
    OBVIOUS
  <2> QED  BY <1>2, <2>1, WordFacts DEF ParseStep, State
<1> QED  BY <1>1, <1>2

LEMMA ParseStepType ==
    ASSUME NEW p \in ParseStates, NEW ch \in Characters
    PROVE  ParseStep(p, ch) \in ParseStates
<1>1. \A n \in Nat : p.text \o Backslashes(n) \in AWord
  BY WordFacts, BackslashesType DEF ParseStates
<1>2. \A t \in AWord : Append(t, ch) \in AWord /\ Append(t, Quote) \in AWord
                       /\ Append(p.argv, t) \in Seq(AWord)
  BY WordFacts DEF ParseStates
<1>3. PICK n \in Nat : n = IF ch = Quote /\ p.argv # <<>> THEN p.run \div 2 ELSE p.run
  BY DEF ParseStates
<1> DEFINE text == p.text \o Backslashes(n)
<1>4. text \in AWord /\ Append(text, ch) \in AWord /\ Append(text, Quote) \in AWord
      /\ Append(p.argv, text) \in Seq(AWord) /\ <<>> \in AWord
  BY <1>1, <1>2, WordFacts
<1>5. CASE ch = Backslash
  <2>1. Backslash # Quote /\ Backslash # Blank
    BY WordFacts
  <2>2. ParseStep(p, ch) = [p EXCEPT !.run = @ + 1, !.word = TRUE, !.shut = FALSE]
    BY <1>5, <2>1 DEF ParseStep
  <2>3. p.run + 1 \in Nat
    BY DEF ParseStates
  <2> DEFINE run == p.run + 1
  <2>4. ParseStep(p, ch) = [p EXCEPT !.run = run, !.word = TRUE, !.shut = FALSE]
    BY <2>2
  <2> HIDE DEF run
  <2> QED  BY <2>3, <2>4 DEF ParseStates, run
<1>6. CASE ch # Backslash
  <2>1. /\ p = [argv |-> p.argv, text |-> p.text, run |-> p.run, word |-> p.word,
                inq |-> p.inq, shut |-> p.shut]
        /\ p.argv \in Seq(AWord) /\ p.text \in AWord /\ p.run \in Nat
        /\ p.word \in BOOLEAN /\ p.inq \in BOOLEAN
    BY DEF ParseStates
  <2> DEFINE q == ParseStep(p, ch)
  <2>2. /\ q = [argv |-> q.argv, text |-> q.text, run |-> q.run, word |-> q.word,
                inq |-> q.inq, shut |-> q.shut]
        /\ q.run \in {0, p.run} /\ q.word \in BOOLEAN /\ q.inq \in BOOLEAN
        /\ q.shut \in BOOLEAN
        /\ q.argv \in {p.argv, Append(p.argv, text)}
        /\ q.text \in {p.text, <<>>, text, Append(text, ch), Append(text, Quote)}
    BY <1>3, <1>6, <2>1 DEF ParseStep, ParseStates
  <2> HIDE DEF q, text
  <2>3. q.argv \in Seq(AWord) /\ q.text \in AWord /\ q.run \in Nat
    <3>1. text \in AWord /\ Append(text, ch) \in AWord /\ Append(text, Quote) \in AWord
          /\ Append(p.argv, text) \in Seq(AWord)
      BY <1>4
    <3>2. q.argv \in Seq(AWord)
      BY <2>1, <2>2, <3>1, Zenon
    <3>3. q.text \in AWord
      BY <1>4, <2>1, <2>2, <3>1, Zenon
    <3>4. q.run \in Nat
      BY <2>1, <2>2
    <3> QED  BY <3>2, <3>3, <3>4
  <2>4. q \in ParseStates
    BY <2>2, <2>3 DEF ParseStates
  <2> QED  BY <2>4 DEF q
<1> QED  BY <1>5, <1>6

\* Where the characters of a line lead from state p.
From(p, line) == FoldLeft(ParseStep, p, line)

LEMMA ParseFolds ==
    ASSUME NEW p \in ParseStates
    PROVE  /\ From(p, <<>>) = p
           /\ \A line \in AWord : From(p, line) \in ParseStates
           /\ \A line \in AWord, ch \in Characters :
                 From(p, Append(line, ch)) = ParseStep(From(p, line), ch)
<1> DEFINE step == [ax \in ParseStates \X Characters |-> ParseStep(ax[1], ax[2])]
<1>1. IsStep(step, ParseStates, Characters)
  BY ParseStepType DEF IsStep
<1>2. \A q \in ParseStates, ch \in Characters : step[<<q, ch>>] = ParseStep(q, ch)
  OBVIOUS
<1> HIDE DEF step
<1>3. ASSUME NEW line \in AWord
      PROVE  From(p, line) = Fold(step, p, line)
  <2> DEFINE Eq(f) == f = [s \in SUBSET DOMAIN line |->
                             IF s = {} THEN p ELSE ParseStep(f[s \ {Max(s)}], line[Max(s)])]
             iter == CHOOSE f : Eq(f)
  <2>1. From(p, line) = iter[DOMAIN line]
    BY DEF From, FoldLeft, MapThenFoldSet
  <2>2. line \in Seq(Characters) /\ Len(line) \in Nat /\ DOMAIN line = 1..Len(line)
    BY DEF AWord
  <2>3. PICK f : IsTable(f, Len(line), ParseStates) /\ Goes(f, step, p, line)
    BY <1>1, <2>2, SubsetRecursion
  <2>4. ASSUME NEW s \in SUBSET (1..Len(line)), s # {}
        PROVE  line[Max(s)] \in Characters
    BY <2>2, <2>4, LastIn
  <2>5. Eq(f)
    <3>1. f \in [SUBSET (1..Len(line)) -> ParseStates]
      BY <2>3 DEF IsTable
    <3>2. ASSUME NEW s \in SUBSET (1..Len(line))
          PROVE  f[s] = IF s = {} THEN p ELSE ParseStep(f[s \ {Max(s)}], line[Max(s)])
      BY <1>2, <2>3, <2>4, <3>1 DEF Goes
    <3> QED  BY <2>2, <3>1, <3>2
  <2>6. Eq(iter)
    <3> HIDE DEF Eq
    <3> QED  BY <2>5
  <2>7. \A s \in SUBSET (1..Len(line)) :
           iter[s] = IF s = {} THEN p ELSE ParseStep(iter[s \ {Max(s)}], line[Max(s)])
    <3> HIDE DEF iter
    <3> QED  BY <2>2, <2>6
  <2> HIDE DEF iter
  <2>8. Follows(iter, ParseStates, step, p, line)
    BY <1>2, <2>4, <2>7 DEF Follows
  <2>9. iter[1..Len(line)] = Fold(step, p, line)
    BY <1>1, <2>2, <2>8, FoldIs
  <2> QED  BY <2>1, <2>2, <2>9
<1>4. ASSUME NEW line \in AWord
      PROVE  From(p, line) \in ParseStates
  BY <1>1, <1>3, FoldType DEF AWord
<1>5. ASSUME NEW line \in AWord, NEW ch \in Characters
      PROVE  From(p, Append(line, ch)) = ParseStep(From(p, line), ch)
  <2>1. line \in Seq(Characters) /\ Append(line, ch) \in AWord
    BY DEF AWord
  <2>2. Fold(step, p, Append(line, ch)) = step[<<Fold(step, p, line), ch>>]
    BY <1>1, <2>1, FoldAppend
  <2> QED  BY <1>2, <1>3, <1>4, <2>1, <2>2
<1>6. From(p, <<>>) = p
  BY <1>1, <1>3, FoldEmpty, WordFacts
<1> QED  BY <1>4, <1>5, <1>6

\* A line in two parts.
LEMMA FromConcat ==
    ASSUME NEW p \in ParseStates, NEW s \in AWord, NEW t \in AWord
    PROVE  From(p, s \o t) = From(From(p, s), t)
<1> DEFINE P == {u \in AWord : From(p, s \o u) = From(From(p, s), u)}
<1>1. From(p, s) \in ParseStates
  BY ParseFolds
<1>2. <<>> \in P
  BY <1>1, ParseFolds, WordFacts
<1>3. ASSUME NEW u \in Seq(Characters), NEW ch \in Characters, u \in P
      PROVE  Append(u, ch) \in P
  <2>1. s \o Append(u, ch) = Append(s \o u, ch)
    BY DEF AWord
  <2>2. u \in AWord /\ s \o u \in AWord /\ Append(u, ch) \in AWord
    BY WordFacts DEF AWord
  <2>3. From(p, Append(s \o u, ch)) = ParseStep(From(p, s \o u), ch)
    BY <2>2, ParseFolds
  <2>4. From(From(p, s), Append(u, ch)) = ParseStep(From(From(p, s), u), ch)
    BY <1>1, <2>2, ParseFolds
  <2> QED  BY <1>3, <2>1, <2>2, <2>3, <2>4
<1>4. Seq(Characters) \subseteq P
  <2> HIDE DEF P
  <2> QED  BY <1>2, <1>3, SeqInduction
<1> QED  BY <1>4 DEF AWord

LEMMA FromOne ==
    ASSUME NEW p \in ParseStates, NEW ch \in Characters
    PROVE  <<ch>> \in AWord /\ From(p, <<ch>>) = ParseStep(p, ch)
<1>1. <<ch>> = Append(<<>>, ch)
  OBVIOUS
<1>2. Append(<<>>, ch) \in AWord
  BY WordFacts
<1>3. From(p, Append(<<>>, ch)) = ParseStep(From(p, <<>>), ch) /\ From(p, <<>>) = p
  BY ParseFolds, WordFacts
<1> QED  BY <1>1, <1>2, <1>3

-----------------------------------------------------------------------------
(* What quoting hides, parsing finds.                                      *)

\* Inside quotes, after text.
Inside(argv, text) == State(argv, text, 0, TRUE, TRUE, FALSE)

LEMMA OneMoreBackslash ==
    ASSUME NEW n \in Nat
    PROVE  /\ Backslashes(n + 1) = Append(Backslashes(n), Backslash)
           /\ \A t \in AWord : Append(t \o Backslashes(n), Backslash) = t \o Backslashes(n + 1)
<1>1. Backslashes(n) \in AWord /\ Len(Backslashes(n)) = n
      /\ Backslashes(n + 1) \in AWord /\ Len(Backslashes(n + 1)) = n + 1
  BY BackslashesType
<1>2. /\ \A i \in 1..n : Backslashes(n)[i] = Backslash
      /\ \A i \in 1..n+1 : Backslashes(n + 1)[i] = Backslash
  BY DEF Backslashes
<1>3. Backslashes(n + 1) = Append(Backslashes(n), Backslash)
  <2> DEFINE b == Backslashes(n)
             c == Backslashes(n + 1)
  <2>1. b \in Seq(Characters) /\ c \in Seq(Characters) /\ Len(b) = n /\ Len(c) = n + 1
        /\ (\A i \in 1..n : b[i] = Backslash) /\ (\A i \in 1..n+1 : c[i] = Backslash)
    BY <1>1, <1>2 DEF AWord
  <2> HIDE DEF b, c
  <2>2. Append(b, Backslash) \in Seq(Characters)
    BY <2>1, WordFacts
  <2>3. Len(Append(b, Backslash)) = n + 1
        /\ \A i \in 1..n+1 : Append(b, Backslash)[i] = Backslash
    BY <2>1, WordFacts
  <2>4. c = Append(b, Backslash)
    BY <2>1, <2>2, <2>3
  <2> QED  BY <2>4 DEF b, c
<1>4. ASSUME NEW t \in AWord
      PROVE  Append(t \o Backslashes(n), Backslash) = t \o Append(Backslashes(n), Backslash)
  BY <1>1, WordFacts DEF AWord
<1> QED  BY <1>3, <1>4

LEMMA ReadsBackslashes ==
    ASSUME NEW argv \in Seq(AWord), NEW text \in AWord, NEW n \in Nat
    PROVE  From(Inside(argv, text), Backslashes(n)) = State(argv, text, n, TRUE, TRUE, FALSE)
<1> DEFINE P == {m \in Nat : From(Inside(argv, text), Backslashes(m))
                                = State(argv, text, m, TRUE, TRUE, FALSE)}
<1>1. Inside(argv, text) \in ParseStates
  BY StateType DEF Inside
<1>2. 0 \in P
  BY <1>1, ParseFolds, WordFacts DEF Inside
<1>3. ASSUME NEW m \in Nat, m \in P
      PROVE  m + 1 \in P
  <2>1. From(Inside(argv, text), Append(Backslashes(m), Backslash))
           = ParseStep(From(Inside(argv, text), Backslashes(m)), Backslash)
    BY <1>1, BackslashesType, ParseFolds, WordFacts
  <2>2. ParseStep(State(argv, text, m, TRUE, TRUE, FALSE), Backslash)
           = State(argv, text, m + 1, TRUE, TRUE, FALSE)
    BY ParseBackslash
  <2>3. From(Inside(argv, text), Backslashes(m)) = State(argv, text, m, TRUE, TRUE, FALSE)
    BY <1>3
  <2>4. From(Inside(argv, text), Backslashes(m + 1)) = State(argv, text, m + 1, TRUE, TRUE, FALSE)
    BY <2>1, <2>2, <2>3, OneMoreBackslash
  <2>5. m + 1 \in Nat
    OBVIOUS
  <2> QED  BY <2>4, <2>5, Zenon
<1>4. Nat \subseteq P
  <2> HIDE DEF P
  <2> QED  BY <1>2, <1>3, NatInductionSet
<1> QED  BY <1>4

LEMMA EndsInBackslash ==
    ASSUME NEW t \in AWord, NEW n \in Nat \ {0}
    PROVE  LET w == t \o Backslashes(n)
           IN  w # <<>> /\ w[Len(w)] = Backslash
<1>1. Backslashes(n) \in AWord /\ Len(Backslashes(n)) = n /\ Backslashes(n)[n] = Backslash
  BY BackslashesType DEF Backslashes
<1> DEFINE b == Backslashes(n)
<1> HIDE DEF b
<1>2. b \in Seq(Characters) /\ t \in Seq(Characters) /\ Len(b) = n /\ b[n] = Backslash
  BY <1>1 DEF AWord, b
<1>3. t \o b # <<>> /\ (t \o b)[Len(t \o b)] = Backslash
  BY <1>2
<1> QED  BY <1>3 DEF b

LEMMA Halves ==
    ASSUME NEW n \in Nat
    PROVE  /\ (2 * n) % 2 = 0 /\ (2 * n) \div 2 = n
           /\ (2 * n + 1) % 2 = 1 /\ (2 * n + 1) \div 2 = n
OBVIOUS

\* The program's name knows no backslash: a quote in it is beyond quoting.
Fits(argv, word) == argv = <<>> => \A i \in 1..Len(word) : word[i] # Quote

LEMMA ReadsInside ==
    ASSUME NEW argv \in Seq(AWord), NEW word \in AWord, Fits(argv, word)
    PROVE  \E t \in AWord :
              /\ word = t \o Backslashes(Quoting(word).run)
              /\ From(Inside(argv, <<>>), Quoting(word).out) = Inside(argv, t)
<1> DEFINE Holds(u) == \E t \in AWord :
                          /\ u = t \o Backslashes(Quoting(u).run)
                          /\ From(Inside(argv, <<>>), Quoting(u).out) = Inside(argv, t)
           P == {u \in AWord : Fits(argv, u) => Holds(u)}
<1>0. Inside(argv, <<>>) \in ParseStates
  BY StateType, WordFacts DEF Inside
<1>1. <<>> \in P
  <2>1. Quoting(<<>>).run = 0 /\ Quoting(<<>>).out = <<>>
    BY QuotingFolds DEF NothingQuoted
  <2>2. From(Inside(argv, <<>>), <<>>) = Inside(argv, <<>>)
    BY <1>0, ParseFolds
  <2>3. <<>> = <<>> \o Backslashes(0)
    BY WordFacts
  <2>4. Holds(<<>>)
    BY <2>1, <2>2, <2>3, WordFacts
  <2> QED  BY <2>4, WordFacts
<1>2. ASSUME NEW u \in Seq(Characters), NEW ch \in Characters, u \in P
      PROVE  Append(u, ch) \in P
  <2>1. u \in AWord /\ Append(u, ch) \in AWord
    BY DEF AWord
  <2> SUFFICES ASSUME Fits(argv, Append(u, ch)) PROVE Holds(Append(u, ch))
    <3> HIDE DEF Holds
    <3> QED  BY <2>1
  <2>2. Fits(argv, u) /\ (argv = <<>> => ch # Quote)
    <3>1. Len(u) \in Nat /\ Len(Append(u, ch)) = Len(u) + 1 /\ Append(u, ch)[Len(u) + 1] = ch
          /\ \A i \in 1..Len(u) : Append(u, ch)[i] = u[i]
      OBVIOUS
    <3> QED  BY <3>1 DEF Fits
  <2>3. Holds(u)
    <3> HIDE DEF Holds
    <3> QED  BY <1>2, <2>2
  <2>4. PICK q \in QuoteStates : q = Quoting(u)
    BY <2>1, QuotingFolds
  <2>5. PICK t \in AWord : /\ u = t \o Backslashes(q.run)
                           /\ From(Inside(argv, <<>>), q.out) = Inside(argv, t)
    BY <2>3, <2>4
  <2>6. Quoting(Append(u, ch)) = QuoteStep(q, ch)
    BY <2>1, <2>4, QuotingFolds
  <2>7. q.run \in Nat /\ q.out \in AWord /\ Backslashes(q.run) \in AWord
    BY BackslashesType DEF QuoteStates
  <2>8. CASE ch = Backslash
    <3>1. Quoting(Append(u, ch)).run = q.run + 1 /\ Quoting(Append(u, ch)).out = q.out
      BY <2>6, <2>8 DEF QuoteStep, QuoteStates
    <3>2. Append(u, ch) = t \o Backslashes(q.run + 1)
      BY <2>5, <2>7, <2>8, OneMoreBackslash
    <3> QED  BY <2>5, <3>1, <3>2
  <2>9. CASE ch # Backslash
    <3> DEFINE n == IF ch = Quote THEN 2 * q.run + 1 ELSE q.run
               new == Append(t \o Backslashes(q.run), ch)
    <3>1. n \in Nat /\ Backslashes(n) \in AWord
      BY <2>7, BackslashesType
    <3>2. Quoting(Append(u, ch)).run = 0
          /\ Quoting(Append(u, ch)).out = (q.out \o Backslashes(n)) \o <<ch>>
      <4>1. (IF ch = Quote THEN Backslashes(2 * q.run + 1) ELSE Backslashes(q.run))
              = Backslashes(n)
        BY Zenon
      <4> HIDE DEF n
      <4>2. QuoteStep(q, ch) = [out |-> (q.out \o Backslashes(n)) \o <<ch>>, run |-> 0]
        BY <2>9, <4>1, Zenon DEF QuoteStep
      <4> QED  BY <2>6, <4>2
    <3>3. new \in AWord /\ Append(u, ch) = new \o Backslashes(0)
      BY <2>5, <2>7, WordFacts
    <3> HIDE DEF n
    <3>4. From(Inside(argv, <<>>), (q.out \o Backslashes(n)) \o <<ch>>)
             = ParseStep(From(From(Inside(argv, <<>>), q.out), Backslashes(n)), ch)
      <4>1. q.out \o Backslashes(n) \in AWord /\ <<ch>> \in AWord
        BY <2>7, <3>1, <1>0, FromOne, WordFacts
      <4>2. From(Inside(argv, <<>>), (q.out \o Backslashes(n)) \o <<ch>>)
              = From(From(Inside(argv, <<>>), q.out \o Backslashes(n)), <<ch>>)
        BY <1>0, <4>1, FromConcat
      <4>3. From(Inside(argv, <<>>), q.out \o Backslashes(n))
              = From(From(Inside(argv, <<>>), q.out), Backslashes(n))
        BY <1>0, <2>7, <3>1, FromConcat
      <4>4. From(Inside(argv, <<>>), q.out \o Backslashes(n)) \in ParseStates
        BY <1>0, <4>1, ParseFolds
      <4> QED  BY <4>2, <4>3, <4>4, FromOne
    <3>5. From(From(Inside(argv, <<>>), q.out), Backslashes(n))
             = State(argv, t, n, TRUE, TRUE, FALSE)
      BY <2>5, <3>1, ReadsBackslashes
    <3>6. ParseStep(State(argv, t, n, TRUE, TRUE, FALSE), ch) = Inside(argv, new)
      <4>1. CASE ch = Quote
        <5>1. n % 2 = 1 /\ n \div 2 = q.run
          BY <2>7, <4>1, Halves DEF n
        <5>2. argv # <<>>
          BY <2>2, <4>1
        <5> QED  BY <3>1, <4>1, <5>1, <5>2, ParseLiteral DEF Inside
      <4>2. CASE ch # Quote
        <5>1. n = q.run /\ ch \in Characters \ {Backslash, Quote}
          BY <2>9, <4>2 DEF n
        <5>2. ParseStep(State(argv, t, n, TRUE, TRUE, FALSE), ch)
                = State(argv, Append(t \o Backslashes(n), ch), 0, TRUE, TRUE, FALSE)
          BY <3>1, <5>1, ParseOther
        <5> QED  BY <5>1, <5>2 DEF Inside
      <4> QED  BY <4>1, <4>2
    <3> HIDE DEF new
    <3> QED  BY <3>2, <3>3, <3>4, <3>5, <3>6
  <2> QED  BY <2>8, <2>9
<1>3. Seq(Characters) \subseteq P
  <2> HIDE DEF P
  <2> QED  BY <1>1, <1>2, SeqInduction
<1>4. Holds(word)
  <2> HIDE DEF Holds
  <2> QED  BY <1>3 DEF AWord
<1> QED  BY <1>4

\* A word that needs no quotes is read as it is.
LEMMA ReadsPlain ==
    ASSUME NEW argv \in Seq(AWord), NEW word \in AWord, ~need_quote(word)
    PROVE  \E t \in AWord, r \in Nat :
              /\ word = t \o Backslashes(r)
              /\ From(Between(argv), word) = State(argv, t, r, TRUE, FALSE, FALSE)
<1> DEFINE Plain(u) == \A i \in 1..Len(u) : u[i] \notin {Blank, Quote}
           Reads(u) == \E t \in AWord, r \in Nat :
                         /\ u = t \o Backslashes(r)
                         /\ From(Between(argv), u) = State(argv, t, r, TRUE, FALSE, FALSE)
           P == {u \in AWord : Plain(u) => u = <<>> \/ Reads(u)}
<1>0. Between(argv) \in ParseStates
  BY StateType, WordFacts DEF Between
<1>1. <<>> \in P
  BY WordFacts
<1>2. ASSUME NEW u \in Seq(Characters), NEW ch \in Characters, u \in P
      PROVE  Append(u, ch) \in P
  <2>1. u \in AWord /\ Append(u, ch) \in AWord
    BY DEF AWord
  <2> SUFFICES ASSUME Plain(Append(u, ch)) PROVE Reads(Append(u, ch))
    <3> HIDE DEF Reads, Plain
    <3> QED  BY <2>1
  <2>2. Plain(u) /\ ch # Blank /\ ch # Quote
    <3>1. Len(u) \in Nat /\ Len(Append(u, ch)) = Len(u) + 1 /\ Append(u, ch)[Len(u) + 1] = ch
          /\ \A i \in 1..Len(u) : Append(u, ch)[i] = u[i]
      OBVIOUS
    <3> QED  BY <3>1
  <2>3. u = <<>> \/ Reads(u)
    <3> HIDE DEF Reads, Plain
    <3> QED  BY <1>2, <2>2
  <2>4. PICK t \in AWord, r \in Nat :
           /\ u = t \o Backslashes(r)
           /\ \/ From(Between(argv), u) = State(argv, t, r, FALSE, FALSE, FALSE)
              \/ From(Between(argv), u) = State(argv, t, r, TRUE, FALSE, FALSE)
    <3>1. CASE u = <<>>
      <4>1. From(Between(argv), <<>>) = State(argv, <<>>, 0, FALSE, FALSE, FALSE)
        BY <1>0, ParseFolds DEF Between
      <4>2. <<>> = <<>> \o Backslashes(0) /\ <<>> \in AWord /\ 0 \in Nat
        BY WordFacts
      <4> QED  BY <3>1, <4>1, <4>2
    <3>2. CASE Reads(u)
      BY <3>2
    <3> QED  BY <2>3, <3>1, <3>2
  <2>5. From(Between(argv), Append(u, ch)) = ParseStep(From(Between(argv), u), ch)
    BY <1>0, <2>1, ParseFolds
  <2>6. CASE ch = Backslash
    <3>1. /\ ParseStep(State(argv, t, r, FALSE, FALSE, FALSE), Backslash)
                = State(argv, t, r + 1, TRUE, FALSE, FALSE)
          /\ ParseStep(State(argv, t, r, TRUE, FALSE, FALSE), Backslash)
                = State(argv, t, r + 1, TRUE, FALSE, FALSE)
      BY ParseBackslash
    <3>2. From(Between(argv), Append(u, ch)) = State(argv, t, r + 1, TRUE, FALSE, FALSE)
      BY <2>4, <2>5, <2>6, <3>1
    <3>3. Append(u, ch) = t \o Backslashes(r + 1)
      BY <2>4, <2>6, OneMoreBackslash
    <3>4. r + 1 \in Nat
      OBVIOUS
    <3> QED  BY <2>4, <3>2, <3>3, <3>4
  <2>7. CASE ch # Backslash
    <3> DEFINE new == Append(t \o Backslashes(r), ch)
    <3>1. /\ ParseStep(State(argv, t, r, FALSE, FALSE, FALSE), ch)
                = State(argv, new, 0, TRUE, FALSE, FALSE)
          /\ ParseStep(State(argv, t, r, TRUE, FALSE, FALSE), ch)
                = State(argv, new, 0, TRUE, FALSE, FALSE)
      <4>1. ch \in Characters \ {Backslash, Quote}
        BY <2>2, <2>7
      <4>2. \A on \in BOOLEAN : ParseStep(State(argv, t, r, on, FALSE, FALSE), ch)
                                  = State(argv, new, 0, TRUE, FALSE, FALSE)
        BY <2>2, <4>1, ParseOther
      <4> HIDE DEF new
      <4> QED  BY <4>2
    <3>2. From(Between(argv), Append(u, ch)) = State(argv, new, 0, TRUE, FALSE, FALSE)
      <4> HIDE DEF new
      <4> QED  BY <2>4, <2>5, <3>1
    <3>3. new \in AWord /\ Append(u, ch) = new \o Backslashes(0)
      BY <2>4, BackslashesType, WordFacts
    <3> HIDE DEF new
    <3>4. \E x \in AWord : /\ Append(u, ch) = x \o Backslashes(0)
                           /\ From(Between(argv), Append(u, ch)) = State(argv, x, 0, TRUE, FALSE, FALSE)
      BY <3>2, <3>3
    <3>5. 0 \in Nat
      OBVIOUS
    <3> QED  BY <3>4, <3>5
  <2> QED  BY <2>6, <2>7
<1>3. Seq(Characters) \subseteq P
  <2> HIDE DEF P
  <2> QED  BY <1>1, <1>2, SeqInduction
<1>4. Plain(word) /\ word # <<>>
  BY DEF need_quote
<1>5. Reads(word)
  <2> HIDE DEF Reads, Plain
  <2> QED  BY <1>3, <1>4 DEF AWord
<1> QED  BY <1>5

LEMMA QuotedType == \A word \in AWord : quoted(word) \in AWord
<1> TAKE word \in AWord
<1>1. CASE ~need_quote(word)
  BY <1>1 DEF quoted
<1>2. CASE need_quote(word)
  <2>1. Quoting(word).out \in AWord /\ 2 * Quoting(word).run \in Nat
    BY QuotingFolds DEF QuoteStates
  <2>2. Backslashes(2 * Quoting(word).run) \in AWord
    BY <2>1, BackslashesType
  <2>3. <<Quote>> \in AWord
    BY WordFacts DEF AWord
  <2>4. quoted(word) = <<Quote>> \o Quoting(word).out \o Backslashes(2 * Quoting(word).run)
                       \o <<Quote>>
    BY <1>2 DEF quoted, Quoting, NothingQuoted
  <2> QED  BY <2>1, <2>2, <2>3, <2>4, WordFacts
<1> QED  BY <1>1, <1>2

\* The word, quoted when it needs it, and the blank behind it are read as
\* that word.
LEMMA ReadsQuoted ==
    ASSUME NEW argv \in Seq(AWord), NEW word \in AWord,
           argv = <<>> => NamesProgram("win32", word)
    PROVE  From(Between(argv), quoted(word) \o <<Blank>>) = Between(Append(argv, word))
<1>0. /\ Between(argv) \in ParseStates /\ <<Blank>> \in AWord /\ <<Quote>> \in AWord
      /\ Inside(argv, <<>>) \in ParseStates
  <2>1. Between(argv) \in ParseStates /\ Inside(argv, <<>>) \in ParseStates
    BY StateType, WordFacts DEF Between, Inside
  <2> QED  BY <2>1, FromOne, WordFacts
<1>1. CASE ~need_quote(word)
  <2>1. PICK t \in AWord, r \in Nat :
           /\ word = t \o Backslashes(r)
           /\ From(Between(argv), word) = State(argv, t, r, TRUE, FALSE, FALSE)
    BY <1>1, ReadsPlain
  <2>2. From(Between(argv), word) \in ParseStates
    BY <1>0, ParseFolds
  <2>3. From(Between(argv), word \o <<Blank>>)
           = ParseStep(State(argv, t, r, TRUE, FALSE, FALSE), Blank)
    <3>1. From(Between(argv), word \o <<Blank>>)
             = From(From(Between(argv), word), <<Blank>>)
      BY <1>0, FromConcat
    <3>2. From(From(Between(argv), word), <<Blank>>)
             = ParseStep(From(Between(argv), word), Blank)
      BY <2>2, FromOne, WordFacts
    <3> QED  BY <2>1, <3>1, <3>2
  <2>4. ParseStep(State(argv, t, r, TRUE, FALSE, FALSE), Blank) = Between(Append(argv, word))
    BY <2>1, ParseBlank
  <2> QED  BY <1>1, <2>3, <2>4 DEF quoted
<1>2. CASE need_quote(word)
  <2>1. PICK q \in QuoteStates : q = Quoting(word)
    BY QuotingFolds
  <2>2. q.run \in Nat /\ q.out \in AWord /\ 2 * q.run \in Nat
    BY DEF QuoteStates
  <2>3. Backslashes(2 * q.run) \in AWord
    BY <2>2, BackslashesType
  <2>4. quoted(word) = <<Quote>> \o q.out \o Backslashes(2 * q.run) \o <<Quote>>
    BY <1>2, <2>1 DEF quoted, Quoting, NothingQuoted
  <2>5. Fits(argv, word)
    BY DEF Fits, NamesProgram
  <2>6. PICK t \in AWord : /\ word = t \o Backslashes(q.run)
                           /\ From(Inside(argv, <<>>), q.out) = Inside(argv, t)
    BY <2>1, <2>5, ReadsInside
  <2>7. From(Between(argv), <<Quote>>) = Inside(argv, <<>>)
    <3>1. ParseStep(Between(argv), Quote) = Inside(argv, <<>>)
      BY ParseOpens DEF Inside
    <3> QED  BY <1>0, <3>1, FromOne, WordFacts
  <2>8. From(Between(argv), <<Quote>> \o q.out) = Inside(argv, t)
    BY <1>0, <2>2, <2>6, <2>7, FromConcat
  <2>9. From(Between(argv), (<<Quote>> \o q.out) \o Backslashes(2 * q.run))
           = State(argv, t, 2 * q.run, TRUE, TRUE, FALSE)
    <3>1. From(Between(argv), (<<Quote>> \o q.out) \o Backslashes(2 * q.run))
             = From(From(Between(argv), <<Quote>> \o q.out), Backslashes(2 * q.run))
      <4>1. <<Quote>> \o q.out \in AWord
        BY <1>0, <2>2, WordFacts
      <4> QED  BY <1>0, <2>3, <4>1, FromConcat
    <3> QED  BY <2>2, <2>8, <3>1, ReadsBackslashes
  <2>10. ParseStep(State(argv, t, 2 * q.run, TRUE, TRUE, FALSE), Quote)
           = State(argv, word, 0, TRUE, FALSE, TRUE)
    <3>1. argv = <<>> => q.run = 0
      <4> SUFFICES ASSUME argv = <<>>, q.run # 0 PROVE FALSE
        OBVIOUS
      <4>1. word # <<>> /\ word[Len(word)] = Backslash
        BY <2>2, <2>6, EndsInBackslash
      <4> QED  BY <4>1 DEF NamesProgram
    <3>2. (2 * q.run) % 2 = 0 /\ (2 * q.run) \div 2 = q.run
      BY <2>2, Halves
    <3>3. 2 * q.run \in Nat /\ (argv = <<>> => q.run = 2 * q.run)
      BY <2>2, <3>1
    <3>4. ParseStep(State(argv, t, 2 * q.run, TRUE, TRUE, FALSE), Quote)
             = State(argv, t \o Backslashes(q.run), 0, TRUE, FALSE, TRUE)
      BY <2>2, <3>2, <3>3, ParseCloses
    <3> QED  BY <2>6, <3>4
  <2>11. From(Between(argv), quoted(word)) = State(argv, word, 0, TRUE, FALSE, TRUE)
    <3> DEFINE line == (<<Quote>> \o q.out) \o Backslashes(2 * q.run)
    <3>1. line \in AWord
      BY <1>0, <2>2, <2>3, WordFacts
    <3>2. quoted(word) = line \o <<Quote>>
      BY <2>4
    <3>3. From(Between(argv), line) \in ParseStates
      BY <1>0, <3>1, ParseFolds
    <3> HIDE DEF line
    <3>4. From(Between(argv), line \o <<Quote>>) = ParseStep(From(Between(argv), line), Quote)
      BY <1>0, <3>1, <3>3, FromConcat, FromOne, WordFacts
    <3> QED  BY <2>9, <2>10, <3>2, <3>4 DEF line
  <2>12. ParseStep(State(argv, word, 0, TRUE, FALSE, TRUE), Blank) = Between(Append(argv, word))
    <3>1. ParseStep(State(argv, word, 0, TRUE, FALSE, TRUE), Blank)
             = Between(Append(argv, word \o Backslashes(0)))
      BY ParseBlank
    <3> QED  BY <3>1, WordFacts
  <2>13. From(Between(argv), quoted(word) \o <<Blank>>)
           = ParseStep(From(Between(argv), quoted(word)), Blank)
    <3>1. quoted(word) \in AWord
      BY QuotedType
    <3>2. From(Between(argv), quoted(word)) \in ParseStates
      BY <1>0, <3>1, ParseFolds
    <3> QED  BY <1>0, <3>1, <3>2, FromConcat, FromOne, WordFacts
  <2> QED  BY <2>11, <2>12, <2>13
<1> QED  BY <1>1, <1>2

-----------------------------------------------------------------------------
(* The whole command line.                                                 *)

\* command_line() with the function of one more word.
LEMMA LineFolds ==
    /\ command_line(<<>>) = <<>>
    /\ \A words \in Seq(AWord) : command_line(words) \in AWord
    /\ \A words \in Seq(AWord), w \in AWord :
          command_line(Append(words, w)) = command_line(words) \o quoted(w) \o <<Blank>>
<1> DEFINE More(all, w) == all \o quoted(w) \o <<Blank>>
           step == [ax \in AWord \X AWord |-> More(ax[1], ax[2])]
<1>1. \A all, w \in AWord : More(all, w) \in AWord
  BY QuotedType, WordFacts, FromOne DEF AWord
<1>2. IsStep(step, AWord, AWord)
  <2> HIDE DEF More
  <2> QED  BY <1>1 DEF IsStep
<1>3. \A all, w \in AWord : step[<<all, w>>] = More(all, w)
  OBVIOUS
<1>4. <<>> \in AWord
  BY WordFacts
<1> HIDE DEF step
<1>5. ASSUME NEW words \in Seq(AWord)
      PROVE  command_line(words) = Fold(step, <<>>, words)
  <2> DEFINE Eq(f) == f = [s \in SUBSET DOMAIN words |->
                             IF s = {} THEN <<>> ELSE More(f[s \ {Max(s)}], words[Max(s)])]
             iter == CHOOSE f : Eq(f)
  <2>1. command_line(words) = iter[DOMAIN words]
    BY DEF command_line, FoldLeft, MapThenFoldSet
  <2> HIDE DEF More
  <2>2. Len(words) \in Nat /\ DOMAIN words = 1..Len(words)
    OBVIOUS
  <2>3. PICK f : IsTable(f, Len(words), AWord) /\ Goes(f, step, <<>>, words)
    BY <1>2, <1>4, SubsetRecursion
  <2>4. ASSUME NEW s \in SUBSET (1..Len(words)), s # {}
        PROVE  words[Max(s)] \in AWord
    BY <2>4, LastIn
  <2>5. Eq(f)
    <3>1. f \in [SUBSET (1..Len(words)) -> AWord]
      BY <2>3 DEF IsTable
    <3>2. ASSUME NEW s \in SUBSET (1..Len(words))
          PROVE  f[s] = IF s = {} THEN <<>> ELSE More(f[s \ {Max(s)}], words[Max(s)])
      BY <1>3, <2>3, <2>4, <3>1 DEF Goes
    <3> QED  BY <2>2, <3>1, <3>2
  <2>6. Eq(iter)
    <3> HIDE DEF Eq
    <3> QED  BY <2>5
  <2>7. \A s \in SUBSET (1..Len(words)) :
           iter[s] = IF s = {} THEN <<>> ELSE More(iter[s \ {Max(s)}], words[Max(s)])
    <3> HIDE DEF iter
    <3> QED  BY <2>2, <2>6
  <2> HIDE DEF iter
  <2>8. Follows(iter, AWord, step, <<>>, words)
    BY <1>3, <2>4, <2>7 DEF Follows
  <2>9. iter[1..Len(words)] = Fold(step, <<>>, words)
    BY <1>2, <1>4, <2>8, FoldIs
  <2> QED  BY <2>1, <2>2, <2>9
<1>6. ASSUME NEW words \in Seq(AWord)
      PROVE  command_line(words) \in AWord
  BY <1>2, <1>4, <1>5, FoldType
<1>7. ASSUME NEW words \in Seq(AWord), NEW w \in AWord
      PROVE  command_line(Append(words, w)) = More(command_line(words), w)
  <2>1. Append(words, w) \in Seq(AWord)
    OBVIOUS
  <2>2. Fold(step, <<>>, Append(words, w)) = step[<<Fold(step, <<>>, words), w>>]
    BY <1>2, <1>4, FoldAppend
  <2> QED  BY <1>3, <1>5, <1>6, <2>1, <2>2
<1>8. command_line(<<>>) = <<>>
  <2>1. <<>> \in Seq(AWord)
    OBVIOUS
  <2> QED  BY <1>2, <1>4, <1>5, <2>1, FoldEmpty
<1> QED  BY <1>6, <1>7, <1>8

\* Whatever words the parent quotes, the runtime of the child finds the same
\* words in the line, provided the first names a program.
THEOREM QuotingIsUndone ==
    ASSUME NEW words \in Seq(AWord), words # <<>> => NamesProgram("win32", words[1])
    PROVE  Parsed(command_line(words)) = words
<1> DEFINE P == {ws \in Seq(AWord) :
                   (ws # <<>> => NamesProgram("win32", ws[1]))
                      => From(Between(<<>>), command_line(ws)) = Between(ws)}
<1>0. Between(<<>>) \in ParseStates
  <2>1. <<>> \in Seq(AWord)
    OBVIOUS
  <2> QED  BY <2>1, StateType, WordFacts DEF Between
<1>1. <<>> \in P
  <2>1. From(Between(<<>>), command_line(<<>>)) = Between(<<>>)
    BY <1>0, ParseFolds, LineFolds
  <2> QED  BY <2>1
<1>2. ASSUME NEW ws \in Seq(AWord), NEW w \in AWord, ws \in P
      PROVE  Append(ws, w) \in P
  <2> SUFFICES ASSUME NamesProgram("win32", Append(ws, w)[1])
               PROVE  From(Between(<<>>), command_line(Append(ws, w))) = Between(Append(ws, w))
    <3>1. Append(ws, w) \in Seq(AWord) /\ Append(ws, w) # <<>>
      OBVIOUS
    <3> HIDE DEF Between
    <3> QED  BY <3>1
  <2>1. ws # <<>> => NamesProgram("win32", ws[1])
    <3>1. ws # <<>> => Append(ws, w)[1] = ws[1]
      OBVIOUS
    <3> QED  BY <3>1
  <2>2. From(Between(<<>>), command_line(ws)) = Between(ws)
    BY <1>2, <2>1
  <2>3. ws = <<>> => NamesProgram("win32", w)
    <3>1. ws = <<>> => Append(ws, w)[1] = w
      OBVIOUS
    <3> QED  BY <3>1
  <2>4. From(Between(ws), quoted(w) \o <<Blank>>) = Between(Append(ws, w))
    BY <2>3, ReadsQuoted
  <2>5. /\ command_line(ws) \in AWord /\ quoted(w) \in AWord /\ <<Blank>> \in AWord
        /\ quoted(w) \o <<Blank>> \in AWord
    BY LineFolds, QuotedType, FromOne, WordFacts, <1>0
  <2>6. command_line(Append(ws, w)) = command_line(ws) \o (quoted(w) \o <<Blank>>)
    <3>1. command_line(Append(ws, w)) = (command_line(ws) \o quoted(w)) \o <<Blank>>
      BY LineFolds
    <3>2. \A s, t, u \in AWord : (s \o t) \o u = s \o (t \o u)
      BY DEF AWord
    <3> QED  BY <2>5, <3>1, <3>2
  <2>7. From(Between(<<>>), command_line(ws) \o (quoted(w) \o <<Blank>>))
           = From(From(Between(<<>>), command_line(ws)), quoted(w) \o <<Blank>>)
    BY <1>0, <2>5, FromConcat
  <2> QED  BY <2>2, <2>4, <2>6, <2>7
<1>3. Seq(AWord) \subseteq P
  <2> HIDE DEF P
  <2> QED  BY <1>1, <1>2, SeqInduction
<1>4. From(Between(<<>>), command_line(words)) = Between(words)
  BY <1>3
<1>5. Parsed(command_line(words)) =
        LET p == From(Between(<<>>), command_line(words))
        IN  IF p.word THEN Append(p.argv, p.text \o Backslashes(p.run)) ELSE p.argv
  BY DEF Parsed, From, Between, State
<1>6. Between(words).word = FALSE /\ Between(words).argv = words
  BY DEF Between, State
<1> QED  BY <1>4, <1>5, <1>6

\* The words that a shell is given are one word.
LEMMA JoinedType ==
    ASSUME NEW words \in Seq(AWord)
    PROVE  Joined(words) \in AWord
<1> DEFINE N == 1..Len(words)
           More(all, i) == all \o (IF i > 1 THEN <<Blank>> ELSE <<>>) \o words[i]
           step == [ax \in AWord \X N |-> More(ax[1], ax[2])]
           seq == [i \in 1..Len(words) |-> i]
           Eq(f) == f = [s \in SUBSET DOMAIN seq |->
                           IF s = {} THEN <<>> ELSE More(f[s \ {Max(s)}], seq[Max(s)])]
           iter == CHOOSE f : Eq(f)
<1>1. Joined(words) = iter[DOMAIN seq]
  BY DEF Joined, FoldLeft, MapThenFoldSet
<1>2. Len(words) \in Nat /\ seq \in Seq(N) /\ Len(seq) = Len(words) /\ DOMAIN seq = 1..Len(seq)
  OBVIOUS
<1>3. \A all \in AWord, i \in N : More(all, i) \in AWord
  <2>1. <<Blank>> \in AWord /\ <<>> \in AWord
    BY WordFacts DEF AWord
  <2>2. \A i \in N : words[i] \in AWord
    OBVIOUS
  <2> QED  BY <2>1, <2>2, WordFacts
<1>4. IsStep(step, AWord, N)
  <2> HIDE DEF More, N
  <2> QED  BY <1>3 DEF IsStep
<1>5. \A all \in AWord, i \in N : step[<<all, i>>] = More(all, i)
  OBVIOUS
<1>6. <<>> \in AWord
  BY WordFacts
<1> HIDE DEF step, seq, More, N
<1>7. PICK f : IsTable(f, Len(seq), AWord) /\ Goes(f, step, <<>>, seq)
  BY <1>2, <1>4, <1>6, SubsetRecursion
<1>8. ASSUME NEW s \in SUBSET (1..Len(seq)), s # {}
      PROVE  seq[Max(s)] \in N
  BY <1>2, <1>8, LastIn
<1>9. Eq(f)
  <2>1. f \in [SUBSET (1..Len(seq)) -> AWord]
    BY <1>7 DEF IsTable
  <2>2. ASSUME NEW s \in SUBSET (1..Len(seq))
        PROVE  f[s] = IF s = {} THEN <<>> ELSE More(f[s \ {Max(s)}], seq[Max(s)])
    BY <1>5, <1>7, <1>8, <2>1 DEF Goes
  <2> QED  BY <1>2, <2>1, <2>2
<1>10. Eq(iter)
  <2> HIDE DEF Eq
  <2> QED  BY <1>9
<1>11. \A s \in SUBSET (1..Len(seq)) :
          iter[s] = IF s = {} THEN <<>> ELSE More(iter[s \ {Max(s)}], seq[Max(s)])
  <2> HIDE DEF iter
  <2> QED  BY <1>2, <1>10
<1> HIDE DEF iter
<1>12. Follows(iter, AWord, step, <<>>, seq)
  BY <1>5, <1>8, <1>11 DEF Follows
<1>13. iter[1..Len(seq)] = Fold(step, <<>>, seq)
  BY <1>2, <1>4, <1>6, <1>12, FoldIs
<1> QED  BY <1>1, <1>2, <1>4, <1>6, <1>13, FoldType

-----------------------------------------------------------------------------
(* argv of mpp_execvpe.                                                    *)

\* Moving the words back undoes moving them.
LEMMA ShiftsCancel ==
    ASSUME NEW line \in Seq(AWord), line # <<>>, NEW file
    PROVE  ShiftLeft(ShiftRight(InitialArgv(line), file), line[1]) = InitialArgv(line)
<1>1. PICK n \in Nat \ {0} : n = Len(line)
  OBVIOUS
<1> DEFINE a == InitialArgv(line)
           r == ShiftRight(a, file)
           l == ShiftLeft(r, line[1])
<1>2. a = [i \in 1..n + 2 |-> IF i <= n THEN line[i] ELSE Null]
  BY <1>1 DEF InitialArgv
<1>3. Len(a) = n + 2
  <2>1. PICK m \in Nat : m = n + 2
    OBVIOUS
  <2> QED  BY <1>2, <2>1
<1>4. r = [i \in 1..n + 2 |-> IF i = 1 THEN BinSh ELSE IF i = 2 THEN file ELSE a[i - 1]]
  BY <1>3 DEF ShiftRight
<1>5. Len(r) = n + 2
  BY <1>4
<1>6. l = [i \in 1..n + 2 |-> IF i = 1 THEN line[1]
                              ELSE IF i < n + 2 THEN r[i + 1] ELSE r[i]]
  BY <1>5 DEF ShiftLeft
<1> HIDE DEF a, r, l
<1>7. ASSUME NEW i \in 1..n + 2
      PROVE  l[i] = a[i]
  <2>1. CASE i = 1
    BY <1>2, <1>6, <2>1
  <2>2. CASE i > 1 /\ i < n + 2
    <3>1. l[i] = r[i + 1]
      BY <1>6, <2>2
    <3>2. i + 1 \in 1..n + 2 /\ i + 1 # 1 /\ i + 1 # 2 /\ (i + 1) - 1 = i
      BY <2>2
    <3>3. r[i + 1] = a[i]
      BY <1>4, <3>2
    <3> QED  BY <3>1, <3>3
  <2>3. CASE i = n + 2
    <3>1. l[i] = r[n + 2]
      BY <1>6, <2>3
    <3>2. n + 2 \in 1..n + 2 /\ n + 2 # 1 /\ n + 2 # 2 /\ (n + 2) - 1 = n + 1
      OBVIOUS
    <3>3. r[n + 2] = a[n + 1]
      BY <1>4, <3>2
    <3>4. a[n + 1] = Null /\ a[n + 2] = Null
      BY <1>2
    <3> QED  BY <2>3, <3>1, <3>3, <3>4
  <2> QED  BY <2>1, <2>2, <2>3
<1>8. l = a
  BY <1>2, <1>6, <1>7
<1> QED  BY <1>8 DEF a, r, l

\* The end of argv is no word of the builder's.
LEMMA NullIsNoWord == Null \notin AWord /\ BinSh # Null
<1>1. ASSUME Null \in AWord
      PROVE  FALSE
  <2>1. <<"NULL">> \in Seq(Characters)
    BY <1>1 DEF Null, AWord
  <2>2. "NULL" \in Characters
    BY <2>1
  <2> QED  BY <2>2, CharactersAssumption
<1>2. BinSh # Null
  <2>1. Len(BinSh) = 3 /\ Len(Null) = 1
    BY DEF BinSh, Null
  <2> QED  BY <2>1
<1> QED  BY <1>1, <1>2

\* A program receives the words before the first NULL.
LEMMA WordsReceived ==
    ASSUME NEW argv, NEW words, NEW n \in Nat, NEW m \in Nat, n < m,
           argv = [i \in 1..m |-> argv[i]], argv[n + 1] = Null,
           \A i \in 1..n : argv[i] # Null,
           words = [i \in 1..n |-> argv[i]]
    PROVE  ArgvOf(argv) = words
<1>1. Len(argv) = m
  OBVIOUS
<1> DEFINE IsEnd(i) == argv[i] = Null /\ \A j \in 1..i - 1 : argv[j] # Null
           e == CHOOSE i \in 1..m : IsEnd(i)
<1>2. n + 1 \in 1..m /\ IsEnd(n + 1)
  <2>1. n + 1 \in 1..m /\ (n + 1) - 1 = n
    OBVIOUS
  <2>2. \A j \in 1..n : argv[j] # Null
    OBVIOUS
  <2> QED  BY <2>1, <2>2
<1>3. ASSUME NEW i \in 1..m, IsEnd(i)
      PROVE  i = n + 1
  <2>1. ~(i < n + 1)
    <3>1. i < n + 1 => i \in 1..n
      OBVIOUS
    <3>2. argv[i] = Null
      BY <1>3
    <3>3. \A j \in 1..n : argv[j] # Null
      OBVIOUS
    <3> QED  BY <3>1, <3>2, <3>3
  <2>2. ~(n + 1 < i)
    BY <1>3
  <2> QED  BY <2>1, <2>2
<1>4. e \in 1..m /\ IsEnd(e)
  <2> HIDE DEF IsEnd
  <2> QED  BY <1>2
<1>5. e = n + 1
  <2> HIDE DEF IsEnd, e
  <2> QED  BY <1>3, <1>4
<1>6. ArgvOf(argv) = SubSeq(argv, 1, n)
  <2>1. ArgvOf(argv) = SubSeq(argv, 1, e - 1)
    BY <1>1 DEF ArgvOf
  <2> HIDE DEF e
  <2> QED  BY <1>5, <2>1
<1>7. SubSeq(argv, 1, n) = [i \in 1..n |-> argv[i]]
  OBVIOUS
<1> QED  BY <1>6, <1>7

-----------------------------------------------------------------------------
(* The parent's block as a map.                                            *)

Entries == [is : {"plain", "bare", "hidden"}, name : STRING, value : Nat]
Maps == UNION {[names -> Nat] : names \in SUBSET STRING}

\* What one entry does to the map.
TakeEntry(pl, map, e) == IF Taken(pl, e) THEN emplace(map, e) ELSE map

LEMMA EmptyMap == << >> \in Maps /\ DOMAIN << >> = {}
<1>1. DOMAIN << >> = {} /\ << >> \in [{} -> Nat]
  OBVIOUS
<1> QED  BY <1>1 DEF Maps

LEMMA TakeEntryIs ==
    ASSUME NEW pl, NEW map \in Maps, NEW e \in Entries
    PROVE  /\ TakeEntry(pl, map, e) \in Maps
           /\ DOMAIN TakeEntry(pl, map, e)
                = IF Taken(pl, e) THEN DOMAIN map \cup {e.name} ELSE DOMAIN map
           /\ \A n \in DOMAIN map : TakeEntry(pl, map, e)[n] = map[n]
           /\ Taken(pl, e) /\ e.name \notin DOMAIN map => TakeEntry(pl, map, e)[e.name] = e.value
<1>1. PICK names \in SUBSET STRING : map \in [names -> Nat]
  BY DEF Maps
<1>2. e.name \in STRING /\ e.value \in Nat
  BY DEF Entries
<1>3. CASE ~Taken(pl, e) \/ e.name \in DOMAIN map
  BY <1>1, <1>3 DEF TakeEntry, emplace
<1>4. CASE Taken(pl, e) /\ e.name \notin DOMAIN map
  <2> DEFINE new == [n \in names \cup {e.name} |-> IF n = e.name THEN e.value ELSE map[n]]
  <2>1. TakeEntry(pl, map, e) = new
    BY <1>1, <1>4 DEF TakeEntry, emplace
  <2>2. names \cup {e.name} \in SUBSET STRING /\ new \in [names \cup {e.name} -> Nat]
    BY <1>1, <1>2
  <2>3. new \in Maps
    <3> HIDE DEF new
    <3> QED  BY <2>2 DEF Maps
  <2>4. DOMAIN new = DOMAIN map \cup {e.name} /\ (\A n \in DOMAIN map : new[n] = map[n])
        /\ new[e.name] = e.value
    BY <1>1, <1>4
  <2> HIDE DEF new
  <2> QED  BY <1>4, <2>1, <2>3, <2>4
<1> QED  BY <1>3, <1>4

\* ParentMap() with the function of one more entry.
LEMMA ParentMapFolds ==
    ASSUME NEW pl
    PROVE  /\ ParentMap(pl, <<>>) = << >>
           /\ \A block \in Seq(Entries) : ParentMap(pl, block) \in Maps
           /\ \A block \in Seq(Entries), e \in Entries :
                 ParentMap(pl, Append(block, e)) = TakeEntry(pl, ParentMap(pl, block), e)
<1> DEFINE step == [ax \in Maps \X Entries |-> TakeEntry(pl, ax[1], ax[2])]
<1>1. IsStep(step, Maps, Entries)
  BY TakeEntryIs DEF IsStep
<1>2. \A map \in Maps, e \in Entries : step[<<map, e>>] = TakeEntry(pl, map, e)
  OBVIOUS
<1>3. << >> \in Maps
  BY EmptyMap
<1> HIDE DEF step
<1>4. ASSUME NEW block \in Seq(Entries)
      PROVE  ParentMap(pl, block) = Fold(step, << >>, block)
  <2> DEFINE Eq(f) == f = [s \in SUBSET DOMAIN block |->
                             IF s = {} THEN << >>
                             ELSE TakeEntry(pl, f[s \ {Max(s)}], block[Max(s)])]
             iter == CHOOSE f : Eq(f)
  <2>1. ParentMap(pl, block) = iter[DOMAIN block]
    BY DEF ParentMap, FoldLeft, MapThenFoldSet, TakeEntry
  <2>2. Len(block) \in Nat /\ DOMAIN block = 1..Len(block)
    OBVIOUS
  <2>3. PICK f : IsTable(f, Len(block), Maps) /\ Goes(f, step, << >>, block)
    BY <1>1, <1>3, SubsetRecursion
  <2>4. ASSUME NEW s \in SUBSET (1..Len(block)), s # {}
        PROVE  block[Max(s)] \in Entries
    BY <2>4, LastIn
  <2>5. Eq(f)
    <3>1. f \in [SUBSET (1..Len(block)) -> Maps]
      BY <2>3 DEF IsTable
    <3>2. ASSUME NEW s \in SUBSET (1..Len(block))
          PROVE  f[s] = IF s = {} THEN << >> ELSE TakeEntry(pl, f[s \ {Max(s)}], block[Max(s)])
      BY <1>2, <2>3, <2>4, <3>1 DEF Goes
    <3> QED  BY <2>2, <3>1, <3>2
  <2>6. Eq(iter)
    <3> HIDE DEF Eq
    <3> QED  BY <2>5
  <2>7. \A s \in SUBSET (1..Len(block)) :
           iter[s] = IF s = {} THEN << >> ELSE TakeEntry(pl, iter[s \ {Max(s)}], block[Max(s)])
    <3> HIDE DEF iter
    <3> QED  BY <2>2, <2>6
  <2> HIDE DEF iter
  <2>8. Follows(iter, Maps, step, << >>, block)
    BY <1>2, <2>4, <2>7 DEF Follows
  <2>9. iter[1..Len(block)] = Fold(step, << >>, block)
    BY <1>1, <1>3, <2>8, FoldIs
  <2> QED  BY <2>1, <2>2, <2>9
<1>5. ASSUME NEW block \in Seq(Entries)
      PROVE  ParentMap(pl, block) \in Maps
  BY <1>1, <1>3, <1>4, FoldType
<1>6. ASSUME NEW block \in Seq(Entries), NEW e \in Entries
      PROVE  ParentMap(pl, Append(block, e)) = TakeEntry(pl, ParentMap(pl, block), e)
  <2>1. Append(block, e) \in Seq(Entries)
    OBVIOUS
  <2>2. Fold(step, << >>, Append(block, e)) = step[<<Fold(step, << >>, block), e>>]
    BY <1>1, <1>3, FoldAppend
  <2> QED  BY <1>2, <1>4, <1>5, <2>1, <2>2
<1>7. ParentMap(pl, <<>>) = << >>
  <2>1. <<>> \in Seq(Entries)
    OBVIOUS
  <2> QED  BY <1>1, <1>3, <1>4, <2>1, FoldEmpty
<1> QED  BY <1>5, <1>6, <1>7

\* The first entry of the name n that is taken.
FirstOf(pl, block, n, i) ==
    /\ i \in 1..Len(block) /\ Taken(pl, block[i]) /\ block[i].name = n
    /\ \A j \in 1..Len(block) : Taken(pl, block[j]) /\ block[j].name = n => i <= j

\* The map has the first entry of every name, and nothing else.
LEMMA ParentMapIs ==
    ASSUME NEW pl, NEW block \in Seq(Entries)
    PROVE  /\ \A n \in DOMAIN ParentMap(pl, block) :
                 \E i \in 1..Len(block) : Taken(pl, block[i]) /\ block[i].name = n
           /\ \A n, i : FirstOf(pl, block, n, i) =>
                 /\ n \in DOMAIN ParentMap(pl, block)
                 /\ ParentMap(pl, block)[n] = block[i].value
<1> DEFINE Names(b) == \A n \in DOMAIN ParentMap(pl, b) :
                          \E i \in 1..Len(b) : Taken(pl, b[i]) /\ b[i].name = n
           Values(b) == \A n, i : FirstOf(pl, b, n, i) =>
                           /\ n \in DOMAIN ParentMap(pl, b)
                           /\ ParentMap(pl, b)[n] = b[i].value
           P == {b \in Seq(Entries) : Names(b) /\ Values(b)}
<1>1. <<>> \in P
  <2>1. DOMAIN ParentMap(pl, <<>>) = {}
    BY ParentMapFolds, EmptyMap
  <2>2. \A n, i : ~FirstOf(pl, <<>>, n, i)
    BY DEF FirstOf
  <2> QED  BY <2>1, <2>2
<1>2. ASSUME NEW b \in Seq(Entries), NEW e \in Entries, b \in P
      PROVE  Append(b, e) \in P
  <2> DEFINE c == Append(b, e)
             k == Len(b)
             old == ParentMap(pl, b)
             new == ParentMap(pl, c)
  <2>1. /\ c \in Seq(Entries) /\ k \in Nat /\ Len(c) = k + 1 /\ c[k + 1] = e
        /\ \A i \in 1..k : c[i] = b[i]
    OBVIOUS
  <2>2. old \in Maps /\ new = TakeEntry(pl, old, e)
    BY ParentMapFolds
  <2>3. /\ DOMAIN new = IF Taken(pl, e) THEN DOMAIN old \cup {e.name} ELSE DOMAIN old
        /\ \A n \in DOMAIN old : new[n] = old[n]
        /\ Taken(pl, e) /\ e.name \notin DOMAIN old => new[e.name] = e.value
    <3> HIDE DEF old, new
    <3>1. /\ DOMAIN TakeEntry(pl, old, e)
                = IF Taken(pl, e) THEN DOMAIN old \cup {e.name} ELSE DOMAIN old
          /\ \A n \in DOMAIN old : TakeEntry(pl, old, e)[n] = old[n]
          /\ Taken(pl, e) /\ e.name \notin DOMAIN old => TakeEntry(pl, old, e)[e.name] = e.value
      BY <2>2, TakeEntryIs
    <3> QED  BY <2>2, <3>1, Zenon
  <2>4. /\ \A n \in DOMAIN old : \E i \in 1..k : Taken(pl, b[i]) /\ b[i].name = n
        /\ \A n, i : FirstOf(pl, b, n, i) => n \in DOMAIN old /\ old[n] = b[i].value
    BY <1>2
  <2> HIDE DEF c, k, old, new
  <2>5. ASSUME NEW n \in DOMAIN new
        PROVE  \E i \in 1..k + 1 : Taken(pl, c[i]) /\ c[i].name = n
    <3>1. CASE n \in DOMAIN old
      <4>1. PICK i \in 1..k : Taken(pl, b[i]) /\ b[i].name = n
        BY <2>4, <3>1
      <4>2. i \in 1..k + 1 /\ c[i] = b[i]
        BY <2>1
      <4> QED  BY <4>1, <4>2
    <3>2. CASE n \notin DOMAIN old
      <4>1. Taken(pl, e) /\ n = e.name
        BY <2>3, <3>2
      <4>2. k + 1 \in 1..k + 1
        BY <2>1
      <4> QED  BY <2>1, <4>1, <4>2
    <3> QED  BY <3>1, <3>2
  <2>6. ASSUME NEW n, NEW i, FirstOf(pl, c, n, i)
        PROVE  n \in DOMAIN new /\ new[n] = c[i].value
    <3>1. /\ i \in 1..k + 1 /\ Taken(pl, c[i]) /\ c[i].name = n
          /\ \A j \in 1..k + 1 : Taken(pl, c[j]) /\ c[j].name = n => i <= j
      BY <2>1, <2>6 DEF FirstOf
    <3>2. CASE i \in 1..k
      <4>1. FirstOf(pl, b, n, i)
        <5>1. \A j \in 1..k : j \in 1..k + 1 /\ c[j] = b[j]
          BY <2>1
        <5> QED  BY <3>1, <3>2, <5>1 DEF FirstOf, k
      <4>2. n \in DOMAIN old /\ old[n] = b[i].value /\ c[i] = b[i]
        BY <2>1, <2>4, <3>2, <4>1
      <4> QED  BY <2>3, <4>2
    <3>3. CASE i = k + 1
      <4>1. n \notin DOMAIN old
        <5> SUFFICES ASSUME n \in DOMAIN old PROVE FALSE
          OBVIOUS
        <5>1. PICK j \in 1..k : Taken(pl, b[j]) /\ b[j].name = n
          BY <2>4
        <5>2. j \in 1..k + 1 /\ c[j] = b[j] /\ ~(k + 1 <= j)
          BY <2>1
        <5> QED  BY <3>1, <3>3, <5>1, <5>2
      <4>2. Taken(pl, e) /\ n = e.name /\ c[i] = e
        BY <2>1, <3>1, <3>3
      <4> QED  BY <2>3, <4>1, <4>2
    <3> QED  BY <2>1, <3>1, <3>2, <3>3
  <2>7. Names(c) /\ Values(c)
    BY <2>1, <2>5, <2>6 DEF new
  <2>8. c \in P
    <3> HIDE DEF Names, Values
    <3> QED  BY <2>1, <2>7
  <2> QED  BY <2>8 DEF c
<1>3. Seq(Entries) \subseteq P
  <2> HIDE DEF P
  <2> QED  BY <1>1, <1>2, SeqInduction
<1>4. Names(block) /\ Values(block)
  <2> HIDE DEF Names, Values
  <2> QED  BY <1>3
<1> QED  BY <1>4

-----------------------------------------------------------------------------
(* What the child finds in its environment.                                *)

\* The environment that a child is started with.
EnvGiven(pl, block, inherit_env, env) ==
    IF PassedOn(inherit_env, env) THEN ParentMap(pl, block)
    ELSE ChildMap(pl, block, inherit_env, env)

NamesIn(block) == {block[i].name : i \in 1..Len(block)}

NoClash(pl, names) == \A m, n \in names : Upper(pl, m) = Upper(pl, n) => m = n

\* Which names there are in the map, but for the empty one, and what they
\* stand for: env's values, then the parents'.
Merges(map, parents, inherit_env, env) ==
    /\ \A n \in DOMAIN map : n \in DOMAIN env \/ n \in DOMAIN parents
    /\ \A n : n # NoName =>
         /\ n \in DOMAIN env => n \in DOMAIN map /\ map[n] = env[n]
         /\ n \notin DOMAIN env /\ inherit_env =>
              /\ n \in DOMAIN map <=> n \in DOMAIN parents
              /\ n \in DOMAIN map => map[n] = parents[n]
         /\ n \notin DOMAIN env /\ ~inherit_env => n \notin DOMAIN map

LEMMA EnvGivenIs ==
    ASSUME NEW pl, NEW block, NEW inherit_env, NEW env
    PROVE  Merges(EnvGiven(pl, block, inherit_env, env), ParentMap(pl, block),
                  inherit_env, env)
<1> DEFINE parents == ParentMap(pl, block)
           map == EnvGiven(pl, block, inherit_env, env)
           all == IF inherit_env THEN override(parents, env) ELSE env
           dropped == IF pl = "win32" THEN {NoName} ELSE {}
           kept == DOMAIN all \ dropped
<1>1. CASE PassedOn(inherit_env, env)
  <2>1. map = parents /\ inherit_env /\ DOMAIN env = {}
    BY <1>1 DEF EnvGiven, PassedOn
  <2> HIDE DEF map, parents
  <2>2. Merges(map, parents, inherit_env, env)
    BY <2>1 DEF Merges
  <2> QED  BY <2>2 DEF map, parents
<1>2. CASE ~PassedOn(inherit_env, env)
  <2>1. map = [n \in kept |-> all[n]]
    BY <1>2 DEF EnvGiven, ChildMap
  <2>2. \A n : n # NoName => n \notin dropped
    OBVIOUS
  <2>3. CASE inherit_env
    <3>1. all = [n \in DOMAIN parents \cup DOMAIN env |->
                   IF n \in DOMAIN env THEN env[n] ELSE parents[n]]
      BY <2>3 DEF override
    <3> HIDE DEF map, parents, all, dropped
    <3>2. /\ \A n \in DOMAIN map : n \in DOMAIN env \/ n \in DOMAIN parents
          /\ \A n : n # NoName =>
               /\ n \in DOMAIN env => n \in DOMAIN map /\ map[n] = env[n]
               /\ n \notin DOMAIN env =>
                    /\ n \in DOMAIN map <=> n \in DOMAIN parents
                    /\ n \in DOMAIN map => map[n] = parents[n]
      BY <2>1, <2>2, <3>1
    <3>3. Merges(map, parents, inherit_env, env)
      BY <2>3, <3>2 DEF Merges
    <3> QED  BY <3>3 DEF map, parents
  <2>4. CASE ~inherit_env
    <3>1. all = env
      BY <2>4
    <3> HIDE DEF map, parents, all, dropped
    <3>2. /\ \A n \in DOMAIN map : n \in DOMAIN env
          /\ \A n : n # NoName /\ n \in DOMAIN env => n \in DOMAIN map /\ map[n] = env[n]
      BY <2>1, <2>2, <3>1
    <3>3. \A n : n # NoName /\ n \notin DOMAIN env => n \notin DOMAIN map
      BY <3>2
    <3>4. Merges(map, parents, inherit_env, env)
      BY <2>4, <3>2, <3>3 DEF Merges
    <3> QED  BY <3>4 DEF map, parents
  <2> QED  BY <2>3, <2>4
<1> QED  BY <1>1, <1>2

\* Every set of numbers has a least one.
LEMMA LeastExists ==
    ASSUME NEW S, S \subseteq Nat, S # {}
    PROVE  \E x \in S : \A y \in S : x <= y
<1> DEFINE Less == {ss \in Nat \X Nat : ss[1] < ss[2]}
<1>1. IsWellFoundedOn(Less, Nat)
  BY NatLessThanWellFounded, Zenon DEF OpToRel
<1>2. PICK x \in S : \A y \in S : ~ (<<y, x>> \in Less)
  <2> HIDE DEF Less
  <2> QED  BY <1>1, WFMin, Zenon
<1>3. ASSUME NEW y \in S
      PROVE  x <= y
  <2>1. x \in Nat /\ y \in Nat /\ <<y, x>> \notin Less
    BY <1>2
  <2>2. y < x => <<y, x>> \in Less
    BY <2>1
  <2> HIDE DEF Less
  <2> QED  BY <2>1, <2>2
<1> QED  BY <1>3

\* What is found under a name when no two names are alike.
LEMMA LookupIs ==
    ASSUME NEW pl, NEW map, NEW names, DOMAIN map \subseteq names, NoClash(pl, names),
           NEW n \in names
    PROVE  Lookup(pl, map, n) = IF n \in DOMAIN map THEN {map[n]} ELSE {}
<1>1. {m \in DOMAIN map : Upper(pl, m) = Upper(pl, n)} = IF n \in DOMAIN map THEN {n} ELSE {}
  BY DEF NoClash
<1> QED  BY <1>1 DEF Lookup

\* The parent finds what its map has.
LEMMA ParentValueIs ==
    ASSUME NEW pl, NEW block \in Seq(Entries), NEW names, NamesIn(block) \subseteq names,
           NoClash(pl, names), NEW n \in names, n # NoName
    PROVE  ParentValue(pl, block, n)
             = IF n \in DOMAIN ParentMap(pl, block) THEN {ParentMap(pl, block)[n]} ELSE {}
<1> DEFINE at == {i \in 1..Len(block) : block[i].is # "bare"
                                        /\ Upper(pl, block[i].name) = Upper(pl, n)}
           first == {j \in at : \A k \in at : j <= k}
           map == ParentMap(pl, block)
<1>1. ParentValue(pl, block, n) = {block[i].value : i \in first}
  BY DEF ParentValue
<1>2. \A i \in 1..Len(block) :
         i \in at <=> Taken(pl, block[i]) /\ block[i].name = n
  BY DEF NoClash, NamesIn, Taken
<1>3. at \subseteq Nat /\ at \subseteq 1..Len(block)
  OBVIOUS
<1> HIDE DEF at
<1>4. CASE at = {}
  <2>1. n \notin DOMAIN map
    BY <1>2, <1>4, ParentMapIs
  <2>2. first = {}
    BY <1>4
  <2> HIDE DEF map, first
  <2>3. ParentValue(pl, block, n) = {}
    BY <1>1, <2>2
  <2> QED  BY <2>1, <2>3 DEF map
<1>5. CASE at # {}
  <2> DEFINE i == Min(at)
  <2>1. i \in at
    BY <1>3, <1>5, MinIsIn
  <2>2. \A k \in at : i <= k
    <3>1. \E x \in at : \A y \in at : x <= y
      BY <1>3, <1>5, LeastExists
    <3> QED  BY <3>1 DEF Min
  <2> HIDE DEF i
  <2>3. first = {i}
    <3>1. \A j \in first : j <= i /\ i <= j /\ j \in Nat /\ i \in Nat
      BY <1>3, <2>1, <2>2
    <3>2. i \in first
      BY <2>1, <2>2
    <3> HIDE DEF first
    <3>3. \A j \in first : j = i
      BY <3>1
    <3> QED  BY <3>2, <3>3
  <2>4. FirstOf(pl, block, n, i)
    BY <1>2, <1>3, <2>1, <2>2 DEF FirstOf
  <2>5. n \in DOMAIN map /\ map[n] = block[i].value
    BY <2>4, ParentMapIs
  <2> HIDE DEF map, first
  <2>6. ParentValue(pl, block, n) = {block[i].value}
    BY <1>1, <2>3
  <2> QED  BY <2>5, <2>6 DEF map
<1> QED  BY <1>4, <1>5

\* EnvironmentAsAsked of one environment.
LEMMA FoundAsAsked ==
    ASSUME NEW pl, NEW block \in Seq(Entries), NEW inherit_env, NEW env,
           NoClash(pl, NamesIn(block) \cup DOMAIN env),
           NEW n \in NamesIn(block) \cup DOMAIN env, n # NoName
    PROVE  Lookup(pl, EnvGiven(pl, block, inherit_env, env), n)
             = IF n \in DOMAIN env THEN {env[n]}
               ELSE IF inherit_env THEN ParentValue(pl, block, n) ELSE {}
<1> DEFINE names == NamesIn(block) \cup DOMAIN env
           map == EnvGiven(pl, block, inherit_env, env)
           parents == ParentMap(pl, block)
<1>1. DOMAIN parents \subseteq names
  BY ParentMapIs DEF NamesIn
<1>2. /\ \A m \in DOMAIN map : m \in DOMAIN env \/ m \in DOMAIN parents
      /\ n \in DOMAIN env => n \in DOMAIN map /\ map[n] = env[n]
      /\ n \notin DOMAIN env /\ inherit_env =>
           /\ n \in DOMAIN map <=> n \in DOMAIN parents
           /\ n \in DOMAIN map => map[n] = parents[n]
      /\ n \notin DOMAIN env /\ ~inherit_env => n \notin DOMAIN map
  <2>1. Merges(map, parents, inherit_env, env)
    BY EnvGivenIs
  <2> HIDE DEF map, parents
  <2> QED  BY <2>1 DEF Merges
<1>3. DOMAIN map \subseteq names
  BY <1>1, <1>2
<1>4. Lookup(pl, map, n) = IF n \in DOMAIN map THEN {map[n]} ELSE {}
  <2> HIDE DEF map
  <2> QED  BY <1>3, LookupIs
<1>5. ParentValue(pl, block, n) = IF n \in DOMAIN parents THEN {parents[n]} ELSE {}
  <2>1. NamesIn(block) \subseteq names
    OBVIOUS
  <2> HIDE DEF names
  <2> QED  BY <2>1, ParentValueIs DEF names
<1> HIDE DEF map, parents
<1>6. Lookup(pl, map, n) = IF n \in DOMAIN env THEN {env[n]}
                           ELSE IF inherit_env THEN ParentValue(pl, block, n) ELSE {}
  BY <1>2, <1>4, <1>5
<1> QED  BY <1>6 DEF map

-----------------------------------------------------------------------------
(* The inductive invariant: from the calls of the script to the image.     *)

\* The words that are asked for, program first.
AskedWords(a) == IF a.command = NoWord THEN <<>> ELSE <<a.command>> \o a.arguments

\* What was asked of the builder, and what the builder made of it.
Agrees(a, b) ==
    /\ a = [command |-> a.command, arguments |-> a.arguments,
            env |-> a.env, early |-> a.early]
    /\ a.command \in AWord \cup {NoWord} /\ a.arguments \in Seq(AWord)
    /\ a.command # NoWord => NamesProgram(platform, a.command)
    /\ a.command = NoWord /\ ~a.early => a.arguments = <<>>
    /\ b.cmdline \in Seq(AWord)
    /\ b.shell \in AWord \cup {NoWord}
    /\ b.shell # NoWord => NamesProgram(platform, b.shell)
    /\ ~a.early => b.cmdline = AskedWords(a)
    /\ b.env = a.env

AskedInv ==
    /\ \A c \in script : c.set \in {"command", "shell"} /\ c.to # NoWord =>
          NamesProgram(platform, c.to)
    /\ Agrees(asked, builder)

\* Once start() has gone on, it works with the builder's settings.
StartInv ==
    /\ world.environ \in Seq(Entries)
    /\ pc \notin {"build", "threw"} \/ child # "none" =>
          startup = Wrapped(builder) /\ builder.cmdline # <<>>

\* argv while the search goes on: as it was laid out, or with /bin/sh and
\* the file in front.
ArgvInv ==
    /\ cpc \in {"try", "next"} => exec.argv = InitialArgv(startup.cmdline)
    /\ cpc = "sh" => exec.argv = ShiftRight(InitialArgv(startup.cmdline), Candidate(Dir))

\* What the program was given.
ImageIs(img) ==
    /\ img.env = EnvGiven(platform, world.environ, startup.inherit_env, startup.env)
    /\ IF platform = "win32" THEN img.argv = Parsed(command_line(startup.cmdline))
       ELSE IF world.execve[img.dir] = "ENOEXEC"
       THEN img.argv = ArgvOf(ShiftRight(InitialArgv(startup.cmdline), Candidate(img.dir)))
       ELSE img.argv = ArgvOf(InitialArgv(startup.cmdline))

ImageInv == image # NoImage => ImageIs(image)

WordsInv == AskedInv /\ StartInv /\ ArgvInv /\ ImageInv

-----------------------------------------------------------------------------
(* The calls of the script.                                                *)

LEMMA InitAgrees == Agrees(NothingAsked, Defaults)
<1>1. <<>> \in Seq(AWord)
  OBVIOUS
<1> QED  BY <1>1 DEF Agrees, NothingAsked, Defaults, AskedWords

\* The program is set.
LEMMA CommandAgrees ==
    ASSUME NEW a, NEW b, IsSettings(b), Agrees(a, b), NEW c, IsCall(c), c.set = "command",
           NamesProgram(platform, c.to)
    PROVE  Agrees(Meant(a, c), Set(b, c))
<1>1. c.to \in AWord /\ c.to # NoWord
  BY WordsAssumption DEF IsCall
<1> DEFINE line == IF b.cmdline = <<>> THEN <<c.to>> ELSE [b.cmdline EXCEPT ![1] = c.to]
<1>2. Meant(a, c) = [command |-> c.to, arguments |-> a.arguments, env |-> a.env,
                     early |-> a.early]
  BY DEF Meant, Agrees
<1>3. Set(b, c) = [b EXCEPT !.cmdline = line]
  BY DEF Set, command
<1> DEFINE new == Set(b, c)
<1>4. new.cmdline = line /\ new.shell = b.shell /\ new.env = b.env
  BY <1>3 DEF IsSettings
<1> HIDE DEF new
<1>5. line \in Seq(AWord)
  BY <1>1 DEF Agrees
<1>6. CASE ~a.early
  <2>1. line = <<c.to>> \o a.arguments
    <3>1. CASE a.command = NoWord
      <4>1. b.cmdline = <<>> /\ a.arguments = <<>>
        BY <1>6, <3>1 DEF Agrees, AskedWords
      <4> QED  BY <4>1
    <3>2. CASE a.command # NoWord
      <4>1. b.cmdline = <<a.command>> \o a.arguments /\ a.arguments \in Seq(AWord)
        BY <1>6, <3>2 DEF Agrees, AskedWords
      <4>2. b.cmdline # <<>>
        BY <4>1
      <4>3. [(<<a.command>> \o a.arguments) EXCEPT ![1] = c.to] = <<c.to>> \o a.arguments
        <5> DEFINE args == a.arguments
                   x == <<a.command>> \o args
                   y == [x EXCEPT ![1] = c.to]
                   z == <<c.to>> \o args
        <5>1. args \in Seq(AWord) /\ a.command \in AWord
          BY <3>2, <4>1 DEF Agrees
        <5> HIDE DEF args
        <5>2. /\ x \in Seq(AWord) /\ Len(x) = Len(args) + 1 /\ Len(args) \in Nat
              /\ z \in Seq(AWord) /\ Len(z) = Len(args) + 1 /\ z[1] = c.to
              /\ \A i \in 2..Len(args) + 1 : x[i] = args[i - 1] /\ z[i] = args[i - 1]
          BY <1>1, <5>1
        <5> HIDE DEF x, z
        <5>3. y \in Seq(AWord) /\ Len(y) = Len(args) + 1 /\ y[1] = c.to
              /\ \A i \in 2..Len(args) + 1 : y[i] = x[i]
          BY <1>1, <5>2
        <5> HIDE DEF y
        <5>4. \A i \in 1..Len(args) + 1 : y[i] = z[i]
          <6>1. \A i \in 1..Len(args) + 1 : i = 1 \/ i \in 2..Len(args) + 1
            BY <5>2
          <6> QED  BY <5>2, <5>3, <6>1
        <5>5. y = z
          BY <5>2, <5>3, <5>4
        <5> QED  BY <5>5 DEF x, y, z, args
      <4> QED  BY <4>1, <4>2, <4>3
    <3> QED  BY <3>1, <3>2
  <2> HIDE DEF line
  <2> QED  BY <1>1, <1>2, <1>4, <1>5, <1>6, <2>1 DEF Agrees, AskedWords, new
<1>7. CASE a.early
  <2> HIDE DEF line
  <2> QED  BY <1>1, <1>2, <1>4, <1>5, <1>7 DEF Agrees, AskedWords, new
<1> QED  BY <1>6, <1>7

\* The arguments are set, which count if the program is known.
LEMMA ArgumentsAgree ==
    ASSUME NEW a, NEW b, IsSettings(b), Agrees(a, b), NEW c, IsCall(c), c.set = "arguments"
    PROVE  Agrees(Meant(a, c), Set(b, c))
<1>1. c.to \in Seq(AWord)
  BY DEF IsCall
<1> DEFINE line == (IF Len(b.cmdline) > 1 THEN <<b.cmdline[1]>> ELSE b.cmdline) \o c.to
           late == a.early \/ a.command = NoWord
<1>2. Meant(a, c) = [command |-> a.command, arguments |-> c.to, env |-> a.env,
                     early |-> late]
  BY DEF Meant, Agrees
<1>3. Set(b, c) = [b EXCEPT !.cmdline = line]
  BY DEF Set, arguments
<1> DEFINE new == Set(b, c)
<1>4. new.cmdline = line /\ new.shell = b.shell /\ new.env = b.env
  BY <1>3 DEF IsSettings
<1> HIDE DEF new
<1>5. line \in Seq(AWord)
  BY <1>1 DEF Agrees
<1>6. CASE ~late
  <2>1. b.cmdline = <<a.command>> \o a.arguments /\ a.arguments \in Seq(AWord)
        /\ a.command # NoWord
    BY <1>6 DEF Agrees, AskedWords
  <2>2. line = <<a.command>> \o c.to
    <3>1. b.cmdline[1] = a.command
      BY <2>1
    <3>2. CASE Len(b.cmdline) > 1
      BY <3>1, <3>2
    <3>3. CASE ~(Len(b.cmdline) > 1)
      <4>1. a.arguments = <<>>
        BY <2>1, <3>3
      <4>2. b.cmdline = <<a.command>>
        BY <2>1, <4>1
      <4> QED  BY <3>3, <4>2
    <3> QED  BY <3>2, <3>3
  <2> HIDE DEF line
  <2> QED  BY <1>1, <1>2, <1>4, <1>5, <1>6, <2>1, <2>2 DEF Agrees, AskedWords, new
<1>7. CASE late
  <2> HIDE DEF line, late
  <2> QED  BY <1>1, <1>2, <1>4, <1>5, <1>7 DEF Agrees, AskedWords, new
<1> QED  BY <1>6, <1>7

\* The other setters leave the words alone.
LEMMA CallAgrees ==
    ASSUME NEW a, NEW b, IsSettings(b), Agrees(a, b), NEW c, IsCall(c),
           c.set \in {"command", "shell"} /\ c.to # NoWord => NamesProgram(platform, c.to)
    PROVE  Agrees(Meant(a, c), Set(b, c))
<1>1. CASE c.set = "command"
  <2>1. c.to # NoWord
    BY <1>1, WordsAssumption DEF IsCall
  <2> QED  BY <1>1, <2>1, CommandAgrees
<1>2. CASE c.set = "arguments"
  BY <1>2, ArgumentsAgree
<1>3. CASE c.set = "environment"
  <2>1. Meant(a, c) = [command |-> a.command, arguments |-> a.arguments,
                       env |-> Assign(a.env, c.at, c.to), early |-> a.early]
    BY <1>3 DEF Meant, Agrees
  <2>2. Set(b, c) = [b EXCEPT !.env = Assign(b.env, c.at, c.to)]
    BY <1>3 DEF Set, environment
  <2> DEFINE new == Set(b, c)
  <2>3. new.cmdline = b.cmdline /\ new.shell = b.shell
        /\ new.env = Assign(b.env, c.at, c.to)
    BY <2>2 DEF IsSettings
  <2> HIDE DEF new
  <2> QED  BY <2>1, <2>3 DEF Agrees, AskedWords, new
<1>4. CASE c.set = "shell"
  <2>1. Meant(a, c) = a /\ Set(b, c) = [b EXCEPT !.shell = c.to]
    BY <1>4 DEF Meant, Set
  <2> DEFINE new == Set(b, c)
  <2>2. new.cmdline = b.cmdline /\ new.shell = c.to /\ new.env = b.env
    BY <2>1 DEF IsSettings
  <2>3. c.to \in AWord \cup {NoWord}
    BY <1>4 DEF IsCall
  <2> HIDE DEF new
  <2> QED  BY <1>4, <2>1, <2>2, <2>3 DEF Agrees, AskedWords, new
<1>5. CASE c.set \in {"inherit_env", "inherit", "inherit_output", "redirect", "merge_outputs"}
  <2>1. Meant(a, c) = a
    BY <1>5 DEF Meant
  <2> DEFINE new == Set(b, c)
  <2>2. new.cmdline = b.cmdline /\ new.shell = b.shell /\ new.env = b.env
    BY <1>5 DEF Set, IsSettings
  <2> HIDE DEF new
  <2> QED  BY <2>1, <2>2 DEF Agrees, AskedWords, new
<1> QED  BY <1>1, <1>2, <1>3, <1>4, <1>5 DEF IsCall

LEMMA AskedKept == SettingsInv /\ AskedInv /\ [Next]_vars => AskedInv'
<1> SUFFICES ASSUME SettingsInv, AskedInv, [Next]_vars PROVE AskedInv'
  OBVIOUS
<1>0. ASSUME UNCHANGED <<platform, script, asked, builder>>
      PROVE  AskedInv'
  BY <1>0 DEF AskedInv, Agrees
<1>1. CASE configure
  <2>1. PICK c \in script : builder' = Set(builder, c) /\ asked' = Meant(asked, c)
    BY <1>1 DEF configure
  <2>2. UNCHANGED <<platform, script>>
    BY <1>1 DEF configure
  <2>3. /\ IsSettings(builder) /\ IsCall(c) /\ Agrees(asked, builder)
        /\ c.set \in {"command", "shell"} /\ c.to # NoWord => NamesProgram(platform, c.to)
    BY DEF SettingsInv, AskedInv
  <2> DEFINE a == Meant(asked, c)
             b == Set(builder, c)
  <2>4. Agrees(a, b)
    BY <2>3, CallAgrees
  <2> HIDE DEF a, b
  <2>5. Agrees(asked, builder)'
    BY <2>1, <2>2, <2>4 DEF a, b, Agrees
  <2> QED  BY <2>2, <2>5 DEF AskedInv
<1>2. CASE start
  BY <1>0, <1>2 DEF start
<1>3. CASE UNCHANGED settings
  BY <1>0, <1>3 DEF settings
<1> QED  BY <1>1, <1>2, <1>3, SettingsSteps DEF vars, settings

\* Nothing but the script runs before start().
LEMMA OnlyTheScript ==
    ASSUME Next, pc \in {"build", "threw"}, child = "none"
    PROVE  configure \/ start
<1>1. ~ \E k \in Stdio : bind(k) \/ wire(k)
  <2>1. \A k \in Stdio : BindAt[k] \notin {"build", "threw"} /\ WireAt[k] \notin {"build", "threw"}
    BY DEF BindAt, WireAt, Stdio
  <2> QED  BY <2>1 DEF bind, wire
<1>2. ~(rollback \/ UnixParent \/ CreateProcess \/ close_process)
  BY DEF rollback, UnixParent, open_fail_pipe, fork, read_errno, reap_failed, started,
         CreateProcess, close_process
<1>3. ~(UnixChild \/ ChildKilled)
  BY DEF UnixChild, child_wires, child_chdir, child_fcntl, child_step, exec_begin, exec_try,
         exec_sh, exec_next, ChildKilled
<1> QED  BY <1>1, <1>2, <1>3 DEF Next, Parent, create_process, Win32Parent

LEMMA StartKept == PhaseInv /\ StartInv /\ [Next]_vars => StartInv'
<1> SUFFICES ASSUME PhaseInv, StartInv, [Next]_vars PROVE StartInv'
  OBVIOUS
<1>1. CASE configure
  <2>1. pc' = "build" /\ child' = "none" /\ world' = world
    BY <1>1 DEF configure, childVars, PhaseInv
  <2> QED  BY <2>1 DEF StartInv
<1>2. CASE start
  <2>1. child' = "none" /\ UNCHANGED <<world, platform, builder>>
    BY <1>2 DEF start, childVars, PhaseInv
  <2>2. CASE pc' = "threw"
    BY <2>1, <2>2 DEF StartInv
  <2>3. CASE builder.cmdline # <<>> /\ startup' = Wrapped(builder)
    <3>1. Wrapped(builder)' = Wrapped(builder)
      BY <2>1 DEF Wrapped
    <3> QED  BY <2>1, <2>3, <3>1 DEF StartInv
  <2> QED  BY <1>2, <2>2, <2>3 DEF start
<1>3. CASE UNCHANGED settings /\ (pc \notin {"build", "threw"} \/ child # "none")
  <2>1. UNCHANGED <<world, platform, builder, startup>>
    BY <1>3 DEF settings
  <2>2. Wrapped(builder)' = Wrapped(builder)
    BY <2>1 DEF Wrapped
  <2> QED  BY <1>3, <2>1, <2>2 DEF StartInv
<1>4. CASE UNCHANGED vars
  <2>1. UNCHANGED <<world, platform, builder, startup, pc, child>>
    BY <1>4 DEF vars, settings, childVars
  <2>2. Wrapped(builder)' = Wrapped(builder)
    BY <2>1 DEF Wrapped
  <2> QED  BY <2>1, <2>2 DEF StartInv
<1> QED  BY <1>1, <1>2, <1>3, <1>4, OnlyTheScript, SettingsSteps

\* What start() passes on is a line of words.
LEMMA LineType ==
    ASSUME SettingsInv, AskedInv, StartInv, child # "none"
    PROVE  startup.cmdline \in Seq(AWord) /\ startup.cmdline # <<>>
<1>1. /\ startup = Wrapped(builder) /\ builder.cmdline \in Seq(AWord) /\ builder.cmdline # <<>>
      /\ builder.shell \in AWord \cup {NoWord}
  BY DEF StartInv, AskedInv, Agrees
<1>2. CASE builder.shell = NoWord
  BY <1>1, <1>2 DEF Wrapped
<1>3. CASE builder.shell # NoWord
  <2> DEFINE option == IF platform = "win32" THEN SlashC ELSE DashC
             line == <<builder.shell, option, Joined(builder.cmdline)>>
  <2>1. builder.shell \in AWord /\ option \in AWord /\ Joined(builder.cmdline) \in AWord
    BY <1>1, <1>3, JoinedType, WordsAssumption
  <2>2. line \in Seq(AWord) /\ line # <<>>
    <3> HIDE DEF option
    <3> QED  BY <2>1
  <2>3. startup.cmdline = line
    BY <1>1, <1>3 DEF Wrapped, SettingsInv, IsSettings
  <2> QED  BY <2>2, <2>3
<1> QED  BY <1>2, <1>3

-----------------------------------------------------------------------------
(* The search and the image.                                               *)

\* What the image must be depends on the settings alone.
LEMMA SameImage ==
    ASSUME UNCHANGED settings, NEW img, ImageIs(img)
    PROVE  ImageIs(img)'
<1>1. UNCHANGED <<platform, world, startup>>
  BY DEF settings
<1> QED  BY <1>1 DEF ImageIs, Program, Candidate

\* A step that does not touch argv and the image.
LEMMA WordsIdle ==
    ASSUME ArgvInv, ImageInv, UNCHANGED <<settings, exec, image>>,
           cpc' = cpc \/ cpc' \notin {"try", "sh", "next"}
    PROVE  ArgvInv' /\ ImageInv'
<1>1. UNCHANGED <<platform, world, startup>> /\ Dir' = Dir /\ Candidate(Dir)' = Candidate(Dir)
  <2>1. UNCHANGED <<platform, world, startup>> /\ Dir' = Dir /\ Program' = Program
    BY SamePath DEF Dir, Path, settings
  <2> QED  BY <2>1 DEF Candidate
<1>2. ArgvInv'
  BY <1>1 DEF ArgvInv
<1>3. ImageInv'
  BY SameImage DEF ImageInv, ImageIs
<1> QED  BY <1>2, <1>3

\* The child's environment on Unix.
LEMMA UnixEnv ==
    ASSUME platform = "unix"
    PROVE  ChildEnv = EnvGiven(platform, world.environ, startup.inherit_env, startup.env)
BY DEF ChildEnv, UsesExecvp, EnvGiven

\* The program is executed with what was laid out for it.
LEMMA ExecutesWords ==
    ASSUME PhaseInv, SearchInv, ArgvInv, UNCHANGED settings, cpc \in {"try", "sh"},
           Executes(Dir, exec.argv),
           cpc = "try" => world.execve[Dir] = "ok"
    PROVE  ArgvInv' /\ ImageInv'
<1>1. platform = "unix" /\ cpc' = "execd"
  BY DEF Executes, PhaseInv, BeforeExec
<1>2. image'.dir = Dir /\ image'.argv = ArgvOf(exec.argv) /\ image'.env = ChildEnv
  BY DEF Executes
<1>3. world.execve[Dir] = "ENOEXEC" <=> cpc = "sh"
  BY DEF SearchInv
<1>4. CASE cpc = "sh"
  <2>1. exec.argv = ShiftRight(InitialArgv(startup.cmdline), Candidate(Dir))
    BY <1>4 DEF ArgvInv
  <2> QED  BY <1>1, <1>2, <1>3, <1>4, <2>1, UnixEnv, SameImage DEF ImageIs, ArgvInv, ImageInv
<1>5. CASE cpc = "try"
  <2>1. exec.argv = InitialArgv(startup.cmdline)
    BY <1>5 DEF ArgvInv
  <2> QED  BY <1>1, <1>2, <1>3, <1>5, <2>1, UnixEnv, SameImage DEF ImageIs, ArgvInv, ImageInv
<1> QED  BY <1>4, <1>5

LEMMA BeginsWords ==
    ASSUME PhaseInv, ArgvInv, ImageInv, exec_begin
    PROVE  ArgvInv' /\ ImageInv'
<1>1. UNCHANGED <<settings, image>>
  BY DEF exec_begin
<1>2. ASSUME NEW errno, exit_with_error(errno), UNCHANGED exec
      PROVE  ArgvInv' /\ ImageInv'
  BY <1>1, <1>2, WordsIdle DEF exit_with_error, Dies
<1>3. CASE /\ cpc' = "try"
           /\ exec' = [argv |-> InitialArgv(startup.cmdline), dir |-> 1,
                       errno |-> NoErrno, sticky_errno |-> NoErrno]
  <2>1. exec'.argv = InitialArgv(startup.cmdline) /\ startup' = startup
    BY <1>1, <1>3 DEF settings
  <2>2. ImageInv'
    BY <1>1, SameImage DEF ImageInv, ImageIs
  <2> QED  BY <1>3, <2>1, <2>2 DEF ArgvInv
<1> QED  BY <1>2, <1>3 DEF exec_begin

LEMMA TriesWords ==
    ASSUME PhaseInv, SearchInv, ArgvInv, ImageInv, exec_try
    PROVE  ArgvInv' /\ ImageInv'
<1> DEFINE result == world.execve[Dir]
<1>1. cpc = "try" /\ UNCHANGED settings /\ exec.argv = InitialArgv(startup.cmdline)
      /\ startup' = startup /\ Program' = Program
  BY SamePath DEF exec_try, ArgvInv, settings
<1>2. CASE result = "ok" /\ Executes(Dir, exec.argv)
  BY <1>1, <1>2, ExecutesWords
<1>3. CASE /\ exec' = [exec EXCEPT !.argv = ShiftRight(@, Candidate(Dir))]
           /\ cpc' = "sh" /\ UNCHANGED image
  <2>1. exec'.argv = ShiftRight(exec.argv, Candidate(Dir)) /\ exec'.dir = exec.dir
    BY <1>3 DEF SearchInv
  <2>2. Dir' = Dir /\ Candidate(Dir)' = Candidate(Dir)
    <3>1. Dir' = Dir
      BY <1>1, <2>1, SamePath DEF Dir, Path
    <3> QED  BY <1>1, <3>1 DEF Candidate
  <2>3. ImageInv'
    BY <1>1, <1>3, SameImage DEF ImageInv, ImageIs
  <2> QED  BY <1>1, <1>3, <2>1, <2>2, <2>3 DEF ArgvInv
<1>4. CASE exec' = [exec EXCEPT !.errno = result] /\ cpc' = "next" /\ UNCHANGED image
  <2>1. exec'.argv = exec.argv
    BY <1>4 DEF SearchInv
  <2>2. ImageInv'
    BY <1>1, <1>4, SameImage DEF ImageInv, ImageIs
  <2> QED  BY <1>1, <1>4, <2>1, <2>2 DEF ArgvInv
<1> QED  BY <1>2, <1>3, <1>4 DEF exec_try

LEMMA ShellWords ==
    ASSUME IInv, SearchInv, WordsInv, exec_sh
    PROVE  ArgvInv' /\ ImageInv'
<1>1. /\ cpc = "sh" /\ UNCHANGED settings /\ startup' = startup
      /\ exec.argv = ShiftRight(InitialArgv(startup.cmdline), Candidate(Dir))
  BY DEF exec_sh, WordsInv, ArgvInv, settings
<1>2. CASE Executes(Dir, exec.argv)
  BY <1>1, <1>2, ExecutesWords DEF IInv, WordsInv
<1>3. CASE /\ exec' = [exec EXCEPT !.argv = ShiftLeft(@, Program), !.errno = world.sh]
           /\ cpc' = "next" /\ UNCHANGED image
  <2>1. exec'.argv = ShiftLeft(exec.argv, Program)
    BY <1>3 DEF SearchInv
  <2>2. child # "none"
    BY <1>1 DEF IInv, PhaseInv, BeforeExec
  <2>3. exec'.argv = InitialArgv(startup.cmdline)
    BY <1>1, <2>1, <2>2, LineType, ShiftsCancel DEF IInv, WordsInv, Program
  <2>4. ImageInv'
    BY <1>1, <1>3, SameImage DEF WordsInv, ImageInv, ImageIs
  <2> QED  BY <1>1, <1>3, <2>3, <2>4 DEF ArgvInv
<1> QED  BY <1>2, <1>3 DEF exec_sh

LEMMA GoesOnWords ==
    ASSUME SearchInv, ArgvInv, ImageInv, exec_next
    PROVE  ArgvInv' /\ ImageInv'
<1>1. /\ UNCHANGED <<settings, image>> /\ startup' = startup
      /\ exec.argv = InitialArgv(startup.cmdline)
  BY DEF exec_next, ArgvInv, settings
<1>2. ASSUME NEW errno, exit_with_error(errno), UNCHANGED exec
      PROVE  ArgvInv' /\ ImageInv'
  BY <1>1, <1>2, WordsIdle DEF exit_with_error, Dies
<1>3. ASSUME NEW sticky, exec' = [exec EXCEPT !.dir = @ + 1, !.sticky_errno = sticky],
             cpc' = "try"
      PROVE  ArgvInv' /\ ImageInv'
  <2>1. exec'.argv = exec.argv
    BY <1>3 DEF SearchInv
  <2>2. ImageInv'
    BY <1>1, SameImage DEF ImageInv, ImageIs
  <2> QED  BY <1>1, <1>3, <2>1, <2>2 DEF ArgvInv
<1> QED  BY <1>2, <1>3 DEF exec_next

LEMMA CreatesWords ==
    ASSUME PhaseInv, ArgvInv, ImageInv, CreateProcess
    PROVE  ArgvInv' /\ ImageInv'
<1>1. UNCHANGED <<settings, exec, cpc>> /\ platform = "win32"
  BY DEF CreateProcess
<1>2. CASE UNCHANGED image
  BY <1>1, <1>2, WordsIdle
<1>3. CASE image' = Win32Image
  <2>1. cpc \notin {"try", "sh", "next"}
    BY <1>1 DEF PhaseInv, BeforeExec
  <2>2. ImageIs(Win32Image)
    BY <1>1 DEF ImageIs, Win32Image, EnvGiven
  <2>3. ImageInv'
    BY <1>1, <1>3, <2>2, SameImage DEF ImageInv, ImageIs
  <2> QED  BY <1>1, <2>1, <2>3 DEF ArgvInv
<1> QED  BY <1>2, <1>3 DEF CreateProcess

LEMMA WordsKept == IInv /\ SearchInv /\ WordsInv /\ [Next]_vars => WordsInv'
<1> SUFFICES ASSUME IInv, SearchInv, WordsInv, [Next]_vars PROVE WordsInv'
  OBVIOUS
<1>1. AskedInv' /\ StartInv'
  BY AskedKept, StartKept DEF IInv, WordsInv
<1> SUFFICES ArgvInv' /\ ImageInv'
  BY <1>1 DEF WordsInv
<1>2. PhaseInv /\ ArgvInv /\ ImageInv
  BY DEF IInv, WordsInv
<1>3. CASE UNCHANGED <<settings, exec, image>> /\ cpc' = cpc
  BY <1>2, <1>3, WordsIdle
<1>4. CASE configure \/ start
  <2>1. UNCHANGED <<cpc, image>> /\ child = "none"
    BY <1>2, <1>4 DEF configure, start, childVars, PhaseInv
  <2>2. cpc = "none" /\ image = NoImage
    BY <1>2, <2>1 DEF PhaseInv
  <2> QED  BY <2>1, <2>2 DEF ArgvInv, ImageInv
<1>5. ASSUME NEW k \in Stdio, bind(k) \/ wire(k)
      PROVE  ArgvInv' /\ ImageInv'
  BY <1>3, <1>5 DEF bind, wire, childVars
<1>6. CASE rollback \/ close_process \/ open_fail_pipe \/ read_errno \/ started \/ reap_failed
  BY <1>3, <1>6 DEF rollback, close_process, open_fail_pipe, read_errno, started, reap_failed,
                    childVars
<1>7. CASE fork
  BY <1>2, <1>7, WordsIdle DEF fork
<1>8. CASE child_wires
  BY <1>2, <1>8, WordsIdle DEF child_wires
<1>9. ASSUME NEW at \in {"chdir", "fcntl"}, NEW next \in {"fcntl", "exec"}, child_step(at, next)
      PROVE  ArgvInv' /\ ImageInv'
  BY <1>2, <1>9, WordsIdle DEF child_step, exit_with_error, Dies
<1>10. CASE ChildKilled
  BY <1>2, <1>10, WordsIdle DEF ChildKilled, Dies
<1>11. CASE UNCHANGED vars
  BY <1>3, <1>11 DEF vars, childVars
<1> QED  BY <1>2, <1>4, <1>5, <1>6, <1>7, <1>8, <1>9, <1>10, <1>11,
            BeginsWords, TriesWords, ShellWords, GoesOnWords, CreatesWords
         DEF Next, Parent, create_process, UnixParent, Win32Parent, UnixChild,
             child_chdir, child_fcntl

LEMMA WordsInit == Init => WordsInv
<1> SUFFICES ASSUME Init PROVE WordsInv
  OBVIOUS
<1>1. PICK c \in Cases : platform = c.platform /\ world = c.world /\ script = c.script
  BY DEF Init
<1>2. /\ \A s \in script : s.set \in {"command", "shell"} /\ s.to # NoWord =>
            NamesProgram(platform, s.to)
      /\ world.environ \in Seq(Entries)
  BY <1>1, CasesAssumption DEF Entries
<1>3. AskedInv
  BY <1>2, InitAgrees DEF Init, AskedInv
<1>4. StartInv /\ ArgvInv /\ ImageInv
  BY <1>2 DEF Init, StartInv, ArgvInv, ImageInv
<1> QED  BY <1>3, <1>4 DEF WordsInv

-----------------------------------------------------------------------------
(* What it means.                                                          *)

LEMMA PlainArgv ==
    ASSUME NEW line \in Seq(AWord)
    PROVE  ArgvOf(InitialArgv(line)) = line
<1>1. PICK n \in Nat : n = Len(line) /\ line = [i \in 1..n |-> line[i]]
  OBVIOUS
<1> DEFINE a == InitialArgv(line)
<1>2. a = [i \in 1..n + 2 |-> IF i <= n THEN line[i] ELSE Null]
  BY <1>1 DEF InitialArgv
<1>3. /\ a = [i \in 1..n + 2 |-> a[i]]
      /\ a[n + 1] = Null
      /\ \A i \in 1..n : a[i] = line[i]
  BY <1>2
<1>4. \A i \in 1..n : a[i] # Null
  BY <1>1, <1>3, NullIsNoWord
<1>5. line = [i \in 1..n |-> a[i]]
  BY <1>1, <1>3
<1> HIDE DEF a
<1>6. n < n + 2 /\ n + 2 \in Nat
  OBVIOUS
<1>7. ArgvOf(a) = line
  BY <1>3, <1>4, <1>5, <1>6, WordsReceived
<1> QED  BY <1>7 DEF a

LEMMA ConcatFacts ==
    ASSUME NEW X, NEW s \in Seq(X), NEW t \in Seq(X)
    PROVE  /\ s \o t \in Seq(X) /\ Len(s \o t) = Len(s) + Len(t)
           /\ \A i \in 1..Len(s) + Len(t) :
                 (s \o t)[i] = IF i <= Len(s) THEN s[i] ELSE t[i - Len(s)]
OBVIOUS

\* Two words before the others.
LEMMA TwoBefore ==
    ASSUME NEW X, NEW s \in Seq(X), NEW t \in Seq(X), NEW m \in Nat,
           Len(s) = 2, Len(t) = m
    PROVE  /\ s \o t \in Seq(X) /\ Len(s \o t) = m + 2
           /\ (s \o t)[1] = s[1] /\ (s \o t)[2] = s[2]
           /\ \A i \in 3..m + 2 : (s \o t)[i] = t[i - 2]
<1> DEFINE c == s \o t
<1>1. /\ c \in Seq(X) /\ Len(c) = Len(s) + Len(t)
      /\ \A i \in 1..Len(s) + Len(t) : c[i] = IF i <= Len(s) THEN s[i] ELSE t[i - Len(s)]
  BY ConcatFacts
<1> HIDE DEF c
<1>2. /\ c \in Seq(X) /\ Len(c) = m + 2
      /\ \A i \in 1..m + 2 : c[i] = IF i <= 2 THEN s[i] ELSE t[i - 2]
  BY <1>1
<1>3. c[1] = s[1] /\ c[2] = s[2] /\ \A i \in 3..m + 2 : c[i] = t[i - 2]
  BY <1>2
<1> QED  BY <1>2, <1>3 DEF c

LEMMA ShellArgv ==
    ASSUME NEW line \in Seq(AWord), line # <<>>, NEW file, file # Null
    PROVE  ArgvOf(ShiftRight(InitialArgv(line), file)) = <<BinSh, file>> \o Tail(line)
<1>1. PICK n \in Nat \ {0} : n = Len(line) /\ line = [i \in 1..n |-> line[i]]
  OBVIOUS
<1> DEFINE a == InitialArgv(line)
           r == ShiftRight(a, file)
           words == <<BinSh, file>> \o Tail(line)
<1>2. a = [i \in 1..n + 2 |-> IF i <= n THEN line[i] ELSE Null]
  BY <1>1 DEF InitialArgv
<1>3. Len(a) = n + 2
  <2>1. PICK m \in Nat : m = n + 2
    OBVIOUS
  <2> QED  BY <1>2, <2>1
<1>4. r = [i \in 1..n + 2 |-> IF i = 1 THEN BinSh ELSE IF i = 2 THEN file ELSE a[i - 1]]
  BY <1>3 DEF ShiftRight
<1> DEFINE W == AWord \cup {BinSh, file}
<1>5. words = [i \in 1..n + 1 |-> words[i]] /\ words[1] = BinSh /\ words[2] = file
      /\ \A i \in 3..n + 1 : words[i] = line[i - 1]
  <2> DEFINE tail == Tail(line)
             head == <<BinSh, file>>
  <2>1. tail \in Seq(W) /\ Len(tail) = n - 1 /\ \A i \in 1..n - 1 : tail[i] = line[i + 1]
    BY <1>1
  <2>2. head \in Seq(W) /\ Len(head) = 2 /\ head[1] = BinSh /\ head[2] = file
    OBVIOUS
  <2> HIDE DEF tail, head, W
  <2>3. /\ head \o tail \in Seq(W) /\ Len(head \o tail) = n + 1
        /\ (head \o tail)[1] = BinSh /\ (head \o tail)[2] = file
        /\ \A i \in 3..n + 1 : (head \o tail)[i] = tail[i - 2]
    <3>1. head \in Seq(W) /\ tail \in Seq(W) /\ Len(head) = 2 /\ Len(tail) = n - 1
      BY <2>1, <2>2
    <3>2. PICK m \in Nat : m = n - 1
      OBVIOUS
    <3>3. /\ head \o tail \in Seq(W) /\ Len(head \o tail) = m + 2
          /\ (head \o tail)[1] = head[1] /\ (head \o tail)[2] = head[2]
          /\ \A i \in 3..m + 2 : (head \o tail)[i] = tail[i - 2]
      BY <3>1, <3>2, TwoBefore
    <3>4. m + 2 = n + 1
      BY <3>2
    <3> QED  BY <2>2, <3>3, <3>4
  <2>4. \A i \in 3..n + 1 : i - 2 \in 1..n - 1 /\ (i - 2) + 1 = i - 1
    OBVIOUS
  <2>5. words = head \o tail
    BY DEF head, tail
  <2> HIDE DEF words
  <2>6. words = [i \in 1..n + 1 |-> words[i]]
    <3>1. words \in Seq(W) /\ Len(words) = n + 1
      BY <2>3, <2>5
    <3>2. PICK m \in Nat : m = n + 1
      OBVIOUS
    <3> QED  BY <3>1, <3>2
  <2> QED  BY <2>1, <2>3, <2>4, <2>5, <2>6
<1> HIDE DEF a, r, words
<1>6. r[1] = BinSh /\ r[2] = file /\ r[n + 2] = Null
  <2>1. r[1] = BinSh /\ r[2] = file
    BY <1>4
  <2>2. n + 2 # 1 /\ n + 2 # 2 /\ (n + 2) - 1 = n + 1 /\ n + 2 \in 1..n + 2
    OBVIOUS
  <2>3. r[n + 2] = a[n + 1] /\ a[n + 1] = Null
    BY <1>2, <1>4, <2>2
  <2> QED  BY <2>1, <2>3
<1>7. \A i \in 3..n + 1 : r[i] = line[i - 1] /\ line[i - 1] \in AWord
  <2> TAKE i \in 3..n + 1
  <2>1. i \in 1..n + 2 /\ i # 1 /\ i # 2 /\ i - 1 \in 1..n /\ i - 1 <= n /\ i - 1 \in 1..n + 2
    OBVIOUS
  <2>2. r[i] = a[i - 1] /\ a[i - 1] = line[i - 1]
    BY <1>2, <1>4, <2>1
  <2> QED  BY <1>1, <2>1, <2>2
<1>8. \A i \in 1..n + 1 : i = 1 \/ i = 2 \/ i \in 3..n + 1
  OBVIOUS
<1>9. \A i \in 1..n + 1 : r[i] = words[i] /\ r[i] # Null
  BY <1>5, <1>6, <1>7, <1>8, NullIsNoWord
<1>10. words = [i \in 1..n + 1 |-> r[i]]
  BY <1>5, <1>9
<1>11. r = [i \in 1..n + 2 |-> r[i]]
  BY <1>4
<1>12. n + 1 < n + 2 /\ n + 2 \in Nat /\ n + 1 \in Nat /\ (n + 1) + 1 = n + 2
  OBVIOUS
<1>13. r[(n + 1) + 1] = Null
  BY <1>6, <1>12
<1>14. ArgvOf(r) = words
  <2>1. PICK m \in Nat : m = n + 1
    BY <1>12
  <2>2. m < n + 2 /\ r[m + 1] = Null /\ (\A i \in 1..m : r[i] # Null)
        /\ words = [i \in 1..m |-> r[i]]
    BY <1>9, <1>10, <1>12, <1>13, <2>1
  <2> QED  BY <1>11, <1>12, <2>2, WordsReceived
<1> QED  BY <1>14 DEF a, r, words

\* The words of the settings, as far as they name a program.
LEMMA ImageMeaning ==
    ASSUME SettingsInv, PhaseInv, WordsInv,
           platform = "win32" => NamesProgram("win32", startup.cmdline[1])
    PROVE  Receives(startup.cmdline)
<1> SUFFICES ASSUME image # NoImage
             PROVE  image.argv = IF platform = "unix" /\ world.execve[image.dir] = "ENOEXEC"
                                 THEN <<BinSh, Candidate(image.dir)>> \o Tail(startup.cmdline)
                                 ELSE startup.cmdline
  BY DEF Receives
<1>1. child # "none" /\ platform \in {"unix", "win32"} /\ ImageIs(image)
  BY DEF PhaseInv, WordsInv, ImageInv
<1>2. startup.cmdline \in Seq(AWord) /\ startup.cmdline # <<>>
  BY <1>1, LineType DEF WordsInv
<1>3. CASE platform = "win32"
  BY <1>1, <1>2, <1>3, QuotingIsUndone DEF ImageIs
<1>4. CASE platform = "unix" /\ world.execve[image.dir] = "ENOEXEC"
  <2>1. Program \in AWord
    BY <1>2 DEF Program
  <2>2. Candidate(image.dir) # Null
    <3>1. CASE image.dir = Slash
      BY <2>1, <3>1, NullIsNoWord DEF Candidate
    <3>2. CASE image.dir # Slash
      <4> DEFINE d == image.dir
                 X == Characters \cup {d, Slash}
      <4>1. <<d, Slash>> \in Seq(X) /\ Program \in Seq(X)
        BY <2>1 DEF AWord
      <4> HIDE DEF d, X
      <4>2. Len(<<d, Slash>> \o Program) >= 2
        BY <4>1
      <4>3. Len(Null) = 1
        BY DEF Null
      <4>4. <<d, Slash>> \o Program # Null
        BY <4>2, <4>3
      <4> QED  BY <3>2, <4>4 DEF Candidate, d
    <3> QED  BY <3>1, <3>2
  <2>3. image.argv = ArgvOf(ShiftRight(InitialArgv(startup.cmdline), Candidate(image.dir)))
    BY <1>1, <1>4 DEF ImageIs
  <2> QED  BY <1>2, <1>4, <2>2, <2>3, ShellArgv
<1>5. CASE platform = "unix" /\ world.execve[image.dir] # "ENOEXEC"
  BY <1>1, <1>2, <1>5, PlainArgv DEF ImageIs
<1> QED  BY <1>1, <1>3, <1>4, <1>5

LEMMA ArgvMeaning == SettingsInv /\ PhaseInv /\ WordsInv => ArgvAsAsked
<1> SUFFICES ASSUME SettingsInv, PhaseInv, WordsInv, asked.command # NoWord, ~asked.early,
                    image # NoImage
             PROVE  Receives(AskedLine)
  BY DEF ArgvAsAsked, Receives
<1>1. child # "none"
  BY DEF PhaseInv
<1>2. startup = Wrapped(builder) /\ builder.cmdline = <<asked.command>> \o asked.arguments
      /\ asked.arguments \in Seq(AWord) /\ asked.command \in AWord
  BY <1>1 DEF WordsInv, StartInv, AskedInv, Agrees, AskedWords
<1>3. startup.cmdline = AskedLine
  BY <1>2 DEF Wrapped, AskedLine, SettingsInv, IsSettings
<1>4. platform = "win32" => NamesProgram("win32", startup.cmdline[1])
  <2>1. CASE builder.shell = NoWord
    <3>1. startup.cmdline[1] = asked.command
      BY <1>2, <1>3, <2>1 DEF AskedLine
    <3> QED  BY <3>1 DEF WordsInv, AskedInv, Agrees
  <2>2. CASE builder.shell # NoWord
    <3>1. startup.cmdline[1] = builder.shell
      BY <1>3, <2>2 DEF AskedLine
    <3> QED  BY <2>2, <3>1 DEF WordsInv, AskedInv, Agrees
  <2> QED  BY <2>1, <2>2
<1>5. Receives(startup.cmdline)
  BY <1>4, ImageMeaning
<1> QED  BY <1>3, <1>5

LEMMA EnvironmentMeaning == SettingsInv /\ PhaseInv /\ WordsInv => EnvironmentAsAsked
<1> SUFFICES ASSUME SettingsInv, PhaseInv, WordsInv, image # NoImage,
                    ~CaseClash(ParentNames \cup DOMAIN asked.env),
                    NEW n \in ParentNames \cup DOMAIN asked.env, n # NoName
             PROVE  Lookup(platform, image.env, n) =
                      IF n \in DOMAIN asked.env THEN {asked.env[n]}
                      ELSE IF builder.inherit_env
                           THEN ParentValue(platform, world.environ, n) ELSE {}
  BY DEF EnvironmentAsAsked
<1>1. child # "none" /\ ImageIs(image)
  BY DEF PhaseInv, WordsInv, ImageInv
<1>2. startup = Wrapped(builder) /\ builder.env = asked.env /\ world.environ \in Seq(Entries)
  BY <1>1 DEF WordsInv, StartInv, AskedInv, Agrees
<1>3. startup.env = asked.env /\ startup.inherit_env = builder.inherit_env
  BY <1>2 DEF Wrapped, SettingsInv, IsSettings
<1>4. image.env = EnvGiven(platform, world.environ, builder.inherit_env, asked.env)
  BY <1>1, <1>3 DEF ImageIs
<1>5. ParentNames = NamesIn(world.environ)
  BY DEF ParentNames, NamesIn
<1>6. NoClash(platform, NamesIn(world.environ) \cup DOMAIN asked.env)
  BY <1>5 DEF NoClash, CaseClash
<1> DEFINE inherit_env == builder.inherit_env
           map == EnvGiven(platform, world.environ, inherit_env, asked.env)
<1> HIDE DEF inherit_env
<1>7. Lookup(platform, map, n) =
        IF n \in DOMAIN asked.env THEN {asked.env[n]}
        ELSE IF inherit_env THEN ParentValue(platform, world.environ, n) ELSE {}
  BY <1>2, <1>5, <1>6, FoundAsAsked
<1> QED  BY <1>4, <1>7 DEF inherit_env

LEMMA WordsInvariance == Spec => [](IInv /\ SearchInv /\ WordsInv)
<1>1. Init => IInv /\ SearchInv /\ WordsInv
  BY InitInv, SearchInit, WordsInit
<1>2. IInv /\ SearchInv /\ WordsInv /\ [Next]_vars => (IInv /\ SearchInv /\ WordsInv)'
  BY NextInv, SearchKept, WordsKept DEF IInv
<1> QED  BY <1>1, <1>2, PTL DEF Spec

\* A script that names the program before its arguments gets the command
\* line it asked for: whatever the words, however often they are set,
\* through a shell or not, after any number of candidates in PATH, and
\* through the quoting of Windows.
THEOREM ArgvIsAsAsked == Spec => []ArgvAsAsked
<1>1. IInv /\ SearchInv /\ WordsInv => ArgvAsAsked
  BY ArgvMeaning DEF IInv
<1> QED  BY <1>1, WordsInvariance, PTL

\* The child finds the variables the script set last and, if it inherits,
\* those of its parent, for every block of the parent's and every script.
THEOREM EnvironmentIsAsAsked == Spec => []EnvironmentAsAsked
<1>1. IInv /\ SearchInv /\ WordsInv => EnvironmentAsAsked
  BY EnvironmentMeaning DEF IInv
<1> QED  BY <1>1, WordsInvariance, PTL

=============================================================================
