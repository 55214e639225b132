---------------------------- MODULE HeaderProofs ----------------------------
(***************************************************************************)
(* Proofs about the headers, for any grammar of the generator, any stream  *)
(* in any pieces and any number of connections: the table that the         *)
(* generator writes is the graph it was made from; the tokenizer is done   *)
(* where a header ends, and invalid where none can; its tokens are those   *)
(* of the stream; and only messages are taken for messages.                *)
(***************************************************************************)
EXTENDS HeaderReader, FiniteSetTheorems, SequenceTheorems, WellFoundedInduction, TLAPS

-----------------------------------------------------------------------------
(* Naturals and sequences.                                                   *)

\* The order of the naturals is well founded: a set of them that is not empty has a least element.
LEMMA LeastOfSet ==
  ASSUME NEW T, T \subseteq Nat, T # {}
  PROVE  \E x \in T : \A y \in T : x <= y
<1> DEFINE R == OpToRel(<, Nat)
<1>1. IsWellFoundedOn(R, Nat)
  BY NatLessThanWellFounded
<1>2. \A x, y \in Nat : x < y => <<x, y>> \in R
  BY DEF OpToRel
<1> HIDE DEF R
<1>3. PICK r : r = R
  OBVIOUS
<1>4. IsWellFoundedOn(r, Nat)
  BY <1>1, <1>3
<1>5. \A x, y \in Nat : x < y => <<x, y>> \in r
  BY <1>2, <1>3
<1>6. PICK N : N = Nat
  OBVIOUS
<1>7. IsWellFoundedOn(r, N) /\ T \subseteq N
  BY <1>4, <1>6
<1>8. \E x \in T : \A y \in T : ~(<<y, x>> \in r)
  BY ONLY <1>7, T # {}, WFMin
<1>9. PICK x \in T : \A y \in T : ~(<<y, x>> \in r)
  BY <1>8
<1>10. ASSUME NEW y \in T
       PROVE  x <= y
  <2>1. x \in Nat /\ y \in Nat
    OBVIOUS
  <2>2. y < x => <<y, x>> \in r
    BY <1>5, <2>1
  <2>3. ~(<<y, x>> \in r)
    BY <1>9
  <2>4. ~(y < x)
    BY <2>2, <2>3
  <2> QED
    BY <2>1, <2>4
<1> QED
  BY <1>10

\* Induction over a set of naturals.
LEMMA Inductive ==
  ASSUME NEW S, 0 \in S, \A n \in Nat : n \in S => n + 1 \in S
  PROVE  Nat \subseteq S
<1> SUFFICES ASSUME NEW m \in Nat, m \notin S
             PROVE  FALSE
  OBVIOUS
<1>1. PICK x \in Nat \ S : \A y \in Nat \ S : x <= y
  BY LeastOfSet
<1>2. x # 0 /\ x - 1 \in Nat /\ x - 1 \in S
  BY <1>1
<1> QED
  BY <1>1, <1>2

\* A function by recursion over 0..N exists.
LEMMA Recursion ==
  ASSUME NEW A, NEW a \in A, NEW N \in Nat, NEW step \in [1..N -> [A -> A]]
  PROVE  \E f \in [0..N -> A] : f[0] = a /\ \A n \in 1..N : f[n] = step[n][f[n - 1]]
<1> DEFINE Good(k) == \E f \in [0..k -> A] :
                         f[0] = a /\ \A n \in 1..k : f[n] = step[n][f[n - 1]]
           S == {k \in Nat : k <= N => Good(k)}
<1>1. Good(0)
  <2>1. [i \in 0..0 |-> a] \in [0..0 -> A] OBVIOUS
  <2>2. [i \in 0..0 |-> a][0] = a OBVIOUS
  <2>3. \A n \in 1..0 : FALSE OBVIOUS
  <2>4. PICK f : f = [i \in 0..0 |-> a] OBVIOUS
  <2>5. f \in [0..0 -> A] /\ f[0] = a BY <2>1, <2>2, <2>4
  <2> QED BY <2>3, <2>5
<1>2. ASSUME NEW k \in Nat, k + 1 <= N, Good(k)
      PROVE  Good(k + 1)
  <2>1. PICK f \in [0..k -> A] : f[0] = a /\ \A n \in 1..k : f[n] = step[n][f[n - 1]]
    BY <1>2
  <2> DEFINE g == [i \in 0..k + 1 |-> IF i = k + 1 THEN step[k + 1][f[k]] ELSE f[i]]
  <2>2. step[k + 1][f[k]] \in A
    <3>1. f[k] \in A /\ k + 1 \in 1..N BY <1>2
    <3> QED BY <3>1
  <2>3. g \in [0..k + 1 -> A]
    BY <2>2
  <2>4. g[0] = a
    BY <2>1
  <2>5. ASSUME NEW n \in 1..k + 1 PROVE g[n] = step[n][g[n - 1]]
    <3>1. CASE n = k + 1
      BY <3>1
    <3>2. CASE n # k + 1
      <4>1. n \in 1..k /\ n \in 0..k + 1 /\ n - 1 \in 0..k + 1 /\ n - 1 # k + 1 BY <3>2
      <4> QED BY <4>1, <2>1
    <3> QED BY <3>1, <3>2
  <2> HIDE DEF g
  <2> QED BY <2>3, <2>4, <2>5
<1>3. 0 \in S BY <1>1
<1>4. \A k \in Nat : k \in S => k + 1 \in S
  <2> HIDE DEF Good
  <2> QED BY <1>2
<1>5. N \in S
  <2> HIDE DEF S
  <2> QED BY <1>3, <1>4, Inductive
<1> QED
  BY <1>5

\* The first n elements of a sequence.
LEMMA PrefixOf ==
  ASSUME NEW S, NEW s \in Seq(S), NEW n \in 0..Len(s)
  PROVE  /\ SubSeq(s, 1, n) \in Seq(S)
         /\ Len(SubSeq(s, 1, n)) = n
         /\ \A i \in 1..n : SubSeq(s, 1, n)[i] = s[i]
<1>1. \A i \in 1..n : s[i] \in S
  BY ElementOfSeq
<1>2. n \in Int /\ 1 \in Int
  OBVIOUS
<1> QED
  BY <1>1, <1>2, SubSeqProperties

\* What is appended is last.
LEMMA FrontLastOfAppend ==
  ASSUME NEW S, NEW s \in Seq(S), NEW e \in S
  PROVE  Front(Append(s, e)) = s /\ Last(Append(s, e)) = e
<1>1. /\ Append(s, e) \in Seq(S) /\ Len(Append(s, e)) = Len(s) + 1 /\ Len(s) \in Nat
      /\ \A i \in 1..Len(s) : Append(s, e)[i] = s[i]
      /\ Append(s, e)[Len(s) + 1] = e
  BY AppendProperties, LenProperties
<1>2. PICK a : a = Append(s, e)
  OBVIOUS
<1>3. /\ SubSeq(a, 1, Len(s)) \in Seq(S) /\ Len(SubSeq(a, 1, Len(s))) = Len(s)
      /\ \A i \in 1..Len(s) : SubSeq(a, 1, Len(s))[i] = a[i]
  <2>1. a \in Seq(S) /\ Len(s) \in 0..Len(a)
    BY <1>1, <1>2
  <2> QED
    BY <2>1, PrefixOf
<1>4. SubSeq(a, 1, Len(s)) = s
  BY <1>1, <1>2, <1>3, SeqEqual
<1> QED
  BY <1>1, <1>2, <1>4 DEF Front, Last

\* A sequence is its front and its last element.
LEMMA AppendOfFrontLast ==
  ASSUME NEW S, NEW s \in Seq(S), s # <<>>
  PROVE  /\ Front(s) \in Seq(S) /\ Last(s) \in S /\ Len(Front(s)) = Len(s) - 1
         /\ Len(s) \in Nat \ {0} /\ s = Append(Front(s), Last(s))
         /\ \A i \in 1..Len(s) - 1 : Front(s)[i] = s[i]
<1>1. Len(s) \in Nat \ {0} /\ s[Len(s)] \in S
  BY EmptySeq, ElementOfSeq, LenProperties
<1>2. /\ SubSeq(s, 1, Len(s) - 1) \in Seq(S) /\ Len(SubSeq(s, 1, Len(s) - 1)) = Len(s) - 1
      /\ \A i \in 1..Len(s) - 1 : SubSeq(s, 1, Len(s) - 1)[i] = s[i]
  <2>1. Len(s) - 1 \in 0..Len(s)
    BY <1>1
  <2> QED
    BY <2>1, PrefixOf
<1>3. PICK f \in Seq(S) : f = Front(s)
  BY <1>2 DEF Front
<1>4. PICK e \in S : e = Last(s)
  BY <1>1 DEF Last
<1>5. Len(f) = Len(s) - 1 /\ \A i \in 1..Len(s) - 1 : f[i] = s[i]
  BY <1>2, <1>3 DEF Front
<1>6. /\ Append(f, e) \in Seq(S) /\ Len(Append(f, e)) = Len(f) + 1
      /\ \A i \in 1..Len(f) : Append(f, e)[i] = f[i]
      /\ Append(f, e)[Len(f) + 1] = e
  BY AppendProperties
<1>7. \A i \in 1..Len(s) : Append(f, e)[i] = s[i]
  BY <1>1, <1>4, <1>5, <1>6 DEF Last
<1>8. Append(f, e) = s
  BY <1>1, <1>5, <1>6, <1>7, SeqEqual
<1> QED
  BY <1>1, <1>3, <1>4, <1>5, <1>8

\* A prefix is the one before it and an element.
LEMMA PrefixGrows ==
  ASSUME NEW S, NEW s \in Seq(S), NEW n \in 1..Len(s)
  PROVE  SubSeq(s, 1, n) = Append(SubSeq(s, 1, n - 1), s[n])
<1>1. n - 1 \in 0..Len(s) /\ n \in 0..Len(s) /\ s[n] \in S
  BY ElementOfSeq, LenProperties
<1>2. PICK p : p = SubSeq(s, 1, n - 1)
  OBVIOUS
<1>3. p \in Seq(S) /\ Len(p) = n - 1 /\ \A i \in 1..n - 1 : p[i] = s[i]
  BY <1>1, <1>2, PrefixOf
<1>4. PICK q : q = SubSeq(s, 1, n)
  OBVIOUS
<1>5. q \in Seq(S) /\ Len(q) = n /\ \A i \in 1..n : q[i] = s[i]
  BY <1>1, <1>4, PrefixOf
<1>6. /\ Append(p, s[n]) \in Seq(S) /\ Len(Append(p, s[n])) = Len(p) + 1
      /\ \A i \in 1..Len(p) : Append(p, s[n])[i] = p[i]
      /\ Append(p, s[n])[Len(p) + 1] = s[n]
  BY <1>1, <1>3, AppendProperties
<1>7. \A i \in 1..n : Append(p, s[n])[i] = q[i]
  BY <1>3, <1>5, <1>6
<1>8. Append(p, s[n]) = q
  BY <1>3, <1>5, <1>6, <1>7, SeqEqual
<1> QED
  BY <1>2, <1>4, <1>8

\* A prefix of a prefix is a prefix.
LEMMA PrefixOfPrefix ==
  ASSUME NEW S, NEW s \in Seq(S), NEW n \in 0..Len(s), NEW m \in 0..n
  PROVE  SubSeq(SubSeq(s, 1, n), 1, m) = SubSeq(s, 1, m)
<1>1. PICK p : p = SubSeq(s, 1, n)
  OBVIOUS
<1>2. p \in Seq(S) /\ Len(p) = n /\ \A i \in 1..n : p[i] = s[i]
  BY <1>1, PrefixOf
<1>3. PICK q : q = SubSeq(p, 1, m)
  OBVIOUS
<1>4. q \in Seq(S) /\ Len(q) = m /\ \A i \in 1..m : q[i] = p[i]
  BY <1>2, <1>3, PrefixOf
<1>5. PICK r : r = SubSeq(s, 1, m)
  OBVIOUS
<1>6. m \in 0..Len(s)
  BY LenProperties
<1>7. r \in Seq(S) /\ Len(r) = m /\ \A i \in 1..m : r[i] = s[i]
  BY <1>5, <1>6, PrefixOf
<1>8. \A i \in 1..m : q[i] = r[i]
  BY <1>2, <1>4, <1>7
<1>9. q = r
  BY <1>4, <1>7, <1>8, SeqEqual
<1> QED
  BY <1>1, <1>3, <1>5, <1>9

\* Appending changes no earlier prefix.
LEMMA PrefixOfAppend ==
  ASSUME NEW S, NEW s \in Seq(S), NEW e \in S, NEW n \in 0..Len(s)
  PROVE  SubSeq(Append(s, e), 1, n) = SubSeq(s, 1, n)
<1>1. PICK a : a = Append(s, e)
  OBVIOUS
<1>2. a \in Seq(S) /\ Len(a) = Len(s) + 1 /\ Len(s) \in Nat
  BY <1>1, AppendProperties, LenProperties
<1>3. SubSeq(a, 1, Len(s)) = s
  BY <1>1, <1>2, FrontLastOfAppend DEF Front
<1>4. Len(s) \in 0..Len(a)
  BY <1>2
<1>5. SubSeq(SubSeq(a, 1, Len(s)), 1, n) = SubSeq(a, 1, n)
  BY <1>2, <1>4, PrefixOfPrefix
<1> QED
  BY <1>1, <1>3, <1>5

\* The whole sequence is its longest prefix.
LEMMA PrefixIsAll ==
  ASSUME NEW S, NEW s \in Seq(S)
  PROVE  SubSeq(s, 1, Len(s)) = s
  BY SubSeqFull

-----------------------------------------------------------------------------
(* The graph.                                                                *)

\* States of different kinds differ, and a stem or an ending is told by its text.
LEMMA Kinds ==
  /\ Start # InvalidState /\ Start # Finished /\ Start # InSpace /\ Start # InDigits
  /\ Start # InGenericWord /\ InvalidState # Finished /\ InvalidState # InSpace
  /\ InvalidState # InDigits /\ InvalidState # InGenericWord /\ Finished # InSpace
  /\ Finished # InDigits /\ Finished # InGenericWord /\ InSpace # InDigits
  /\ InSpace # InGenericWord /\ InDigits # InGenericWord
  /\ Crashed \notin {Start, InvalidState, Finished, InSpace, InDigits, InGenericWord}
  /\ \A s : /\ Stem(s) \notin {Start, InvalidState, Finished, InSpace, InDigits, InGenericWord}
            /\ Ending(s) \notin {Start, InvalidState, Finished, InSpace, InDigits, InGenericWord}
            /\ Stem(s) # Crashed /\ Ending(s) # Crashed
  /\ \A s, e : Stem(s) # Ending(e)
  /\ \A s, e : Stem(s) = Stem(e) => s = e
  /\ \A s, e : Ending(s) = Ending(e) => s = e
  BY DEF Start, InvalidState, Finished, InSpace, InDigits, InGenericWord, Crashed, Stem, Ending,
         State

EndChars == 1..31

\* A part of w is a prefix of it that is not empty.
LEMMA PartFacts ==
  ASSUME NEW S, NEW w \in Seq(S), NEW p \in Parts(w)
  PROVE  /\ p \in Seq(S) /\ p # <<>> /\ Len(p) \in 1..Len(w) /\ p = SubSeq(w, 1, Len(p))
         /\ \A i \in 1..Len(p) : p[i] = w[i]
<1>1. PICK n \in 1..Len(w) : p = SubSeq(w, 1, n)
  BY DEF Parts
<1>2. n \in 0..Len(w)
  BY <1>1
<1>3. p \in Seq(S) /\ Len(p) = n /\ \A i \in 1..n : p[i] = w[i]
  BY <1>1, <1>2, PrefixOf
<1>4. p # <<>>
  BY <1>3, EmptySeq
<1> QED
  BY <1>1, <1>3, <1>4

\* A sequence that agrees with w from its beginning is a part of w.
LEMMA PartAt ==
  ASSUME NEW S, NEW w \in Seq(S), NEW p \in Seq(S), Len(p) \in 1..Len(w),
         \A i \in 1..Len(p) : p[i] = w[i]
  PROVE  p \in Parts(w)
<1>1. Len(p) \in 0..Len(w) /\ Len(p) \in 1..Len(w)
  BY LenProperties
<1>2. PICK q : q = SubSeq(w, 1, Len(p))
  OBVIOUS
<1>3. q \in Seq(S) /\ Len(q) = Len(p) /\ \A i \in 1..Len(p) : q[i] = w[i]
  BY <1>1, <1>2, PrefixOf
<1>4. \A i \in 1..Len(p) : q[i] = p[i]
  BY <1>3
<1>5. q = p
  BY <1>3, <1>4, SeqEqual
<1> QED
  BY <1>1, <1>2, <1>5 DEF Parts

\* A sequence is a part of itself.
LEMMA WholeIsPart ==
  ASSUME NEW S, NEW w \in Seq(S), w # <<>>
  PROVE  w \in Parts(w)
<1>1. Len(w) \in Nat \ {0}
  BY EmptySeq
<1> QED
  BY <1>1, PartAt

\* What a part of w begins with is a part of w.
LEMMA PartOfPart ==
  ASSUME NEW S, NEW w \in Seq(S), NEW p \in Seq(S), NEW c \in S, p # <<>>,
         Append(p, c) \in Parts(w)
  PROVE  p \in Parts(w)
<1>1. PICK a \in Parts(w) : a = Append(p, c)
  OBVIOUS
<1>2. Len(a) \in 1..Len(w) /\ \A i \in 1..Len(a) : a[i] = w[i]
  BY PartFacts
<1>3. Len(a) = Len(p) + 1 /\ \A i \in 1..Len(p) : a[i] = p[i]
  BY <1>1, AppendProperties
<1>4. Len(p) \in Nat \ {0} /\ Len(w) \in Nat
  BY EmptySeq, LenProperties
<1>5. Len(p) \in 1..Len(w)
  BY <1>2, <1>3, <1>4
<1>6. \A i \in 1..Len(p) : p[i] = w[i]
  BY <1>2, <1>3, <1>4
<1> QED
  BY <1>5, <1>6, PartAt

\* A part that is not all of w goes on with the next element.
LEMMA PartGoesOn ==
  ASSUME NEW S, NEW w \in Seq(S), NEW p \in Parts(w), p # w
  PROVE  Len(p) + 1 \in 1..Len(w) /\ Append(p, w[Len(p) + 1]) \in Parts(w)
<1>1. /\ p \in Seq(S) /\ Len(p) \in 1..Len(w) /\ Len(w) \in Nat
      /\ \A i \in 1..Len(p) : p[i] = w[i]
  BY PartFacts, LenProperties
<1>2. Len(p) # Len(w)
  BY <1>1, SeqEqual
<1>3. Len(p) + 1 \in 1..Len(w)
  BY <1>1, <1>2
<1>4. w[Len(p) + 1] \in S
  BY <1>3, ElementOfSeq
<1>5. PICK a : a = Append(p, w[Len(p) + 1])
  OBVIOUS
<1>6. /\ a \in Seq(S) /\ Len(a) = Len(p) + 1 /\ \A i \in 1..Len(p) : a[i] = p[i]
      /\ a[Len(p) + 1] = w[Len(p) + 1]
  BY <1>1, <1>4, <1>5, AppendProperties
<1>7. \A i \in 1..Len(a) : a[i] = w[i]
  BY <1>1, <1>6
<1>8. a \in Parts(w)
  BY <1>3, <1>6, <1>7, PartAt
<1> QED
  BY <1>3, <1>5, <1>8

\* validate_inputs (build_graph.cpp:9-59): a word is not empty, and begins neither like a size nor
\* like a path.
LEMMA WordFacts ==
  ASSUME GrammarAssumption, NEW k \in Keywords
  PROVE  /\ Words[k] \in Seq(WordChars) /\ Words[k] # <<>> /\ Len(Words[k]) \in Nat \ {0}
         /\ Words[k][1] \in WordChars /\ Words[k][1] \notin Digits /\ Words[k][1] # Slash
         /\ k \notin {"Unknown", "Size", "Path"}
<1>1. Words[k] \in Seq(WordChars) \ {<<>>}
  BY DEF GrammarAssumption, Keywords
<1>2. Len(Words[k]) \in Nat \ {0}
  BY <1>1, EmptySeq
<1>3. Words[k][1] \in WordChars
  BY <1>1, <1>2, ElementOfSeq
<1> QED
  BY <1>1, <1>2, <1>3 DEF GrammarAssumption

\* A stem begins as its word does.
LEMMA StemFacts ==
  ASSUME GrammarAssumption, NEW s \in Stems
  PROVE  /\ s \in Seq(WordChars) /\ s # <<>> /\ Len(s) \in Nat \ {0}
         /\ s[1] \in WordChars /\ s[1] \notin Digits /\ s[1] # Slash
         /\ <<s[1]>> \in Stems
         /\ \E k \in Keywords : s \in Parts(Words[k])
<1>1. PICK k \in Keywords : s \in Parts(Words[k])
  BY DEF Stems
<1>2. PICK w \in Seq(WordChars) : w = Words[k]
  BY WordFacts
<1>3. w[1] \in WordChars /\ w[1] \notin Digits /\ w[1] # Slash
  BY <1>2, WordFacts
<1>4. /\ s \in Seq(WordChars) /\ s # <<>> /\ Len(s) \in 1..Len(w)
      /\ \A i \in 1..Len(s) : s[i] = w[i]
  <2>1. s \in Parts(w)
    BY <1>1, <1>2
  <2> QED
    BY <2>1, PartFacts
<1>5. Len(s) \in Nat \ {0} /\ 1 \in 1..Len(s) /\ s[1] = w[1] /\ Len(w) \in Nat /\ 1 \in 1..Len(w)
  BY <1>2, <1>4, LenProperties
<1>6. <<s[1]>> \in Parts(w)
  <2>1. <<s[1]>> \in Seq(WordChars) /\ Len(<<s[1]>>) = 1
    BY <1>3, <1>5
  <2>2. \A i \in 1..Len(<<s[1]>>) : <<s[1]>>[i] = w[i]
    BY <1>5, <2>1
  <2> QED
    BY <1>5, <2>1, <2>2, PartAt
<1>7. <<s[1]>> \in Stems
  BY <1>2, <1>6 DEF Stems
<1> QED
  BY <1>1, <1>3, <1>4, <1>5, <1>7

\* What a stem begins with is a stem.
LEMMA StemOfStem ==
  ASSUME GrammarAssumption, NEW s \in Seq(WordChars), NEW c \in WordChars, s # <<>>,
         Append(s, c) \in Stems
  PROVE  s \in Stems
<1>1. PICK k \in Keywords : Append(s, c) \in Parts(Words[k])
  BY DEF Stems
<1>2. Words[k] \in Seq(WordChars)
  BY WordFacts
<1>3. s \in Parts(Words[k])
  BY <1>1, <1>2, PartOfPart
<1> QED
  BY <1>3 DEF Stems

\* A word is a stem.
LEMMA WordIsStem ==
  ASSUME GrammarAssumption, NEW k \in Keywords
  PROVE  Words[k] \in Stems
  BY WordFacts, WholeIsPart DEF Stems

\* The first char of what ends a header.
LEMMA TerminatorFacts ==
  ASSUME GrammarAssumption
  PROVE  /\ Terminator \in Seq(EndChars) /\ Terminator # <<>> /\ Len(Terminator) \in Nat
         /\ Len(Terminator) >= 2 /\ Terminator[1] \in EndChars
         /\ <<Terminator[1]>> \in Parts(Terminator) /\ <<Terminator[1]>> # Terminator
<1>1. Terminator \in Seq(EndChars) /\ Len(Terminator) >= 2
  BY DEF GrammarAssumption, EndChars
<1>2. Len(Terminator) \in Nat /\ 1 \in 1..Len(Terminator)
  BY <1>1, LenProperties
<1>3. Terminator[1] \in EndChars
  BY <1>1, <1>2, ElementOfSeq
<1>4. PICK p \in Seq(EndChars) : p = <<Terminator[1]>>
  <2>1. PICK c \in EndChars : c = Terminator[1]
    BY <1>3
  <2>2. <<c>> \in Seq(EndChars)
    OBVIOUS
  <2> QED
    BY <2>1, <2>2
<1>5. Len(p) = 1 /\ p[1] = Terminator[1]
  BY <1>4
<1>6. Len(p) \in 1..Len(Terminator) /\ \A i \in 1..Len(p) : p[i] = Terminator[i]
  BY <1>2, <1>5
<1>7. p \in Parts(Terminator)
  BY <1>1, <1>6, PartAt
<1>8. p # Terminator
  <2> DEFINE m == Len(p)
             n == Len(Terminator)
  <2>1. m = 1 /\ n \in Nat /\ n >= 2
    BY <1>1, <1>2, <1>5
  <2> HIDE DEF m, n
  <2>2. m # n
    BY <2>1
  <2>3. Len(p) # Len(Terminator)
    BY <2>2 DEF m, n
  <2> QED
    BY Zenon, <2>3
<1>9. Terminator # <<>>
  BY <1>1, EmptySeq
<1> QED
  BY <1>1, <1>2, <1>3, <1>4, <1>7, <1>8, <1>9

\* The exits one after the other.
LEMMA ExitCases ==
  ASSUME NEW x \in Exits
  PROVE  \/ x = [state |-> InSpace, reset |-> TRUE, token |-> Unknown]
         \/ x = [state |-> InDigits, reset |-> FALSE, token |-> "Size"]
         \/ x = [state |-> InGenericWord, reset |-> FALSE, token |-> "Path"]
         \/ \E k \in Keywords : x = [state |-> Stem(Words[k]), reset |-> TRUE, token |-> k]
  BY DEF Exits

\* An edge takes a char from a state with a move.
Leads(state, char, move) ==
  \E e \in Edges : e.from = state /\ char \in e.chars /\ MoveOf(e) = move

\* Where a field begins.
Begins(char, move) ==
  \/ char \in Digits /\ move = Move(InDigits, TRUE, Unknown)
  \/ char = Slash /\ move = Move(InGenericWord, TRUE, Unknown)
  \/ <<char>> \in Stems /\ move = Move(Stem(<<char>>), TRUE, Unknown)

\* Where a lexeme ends.
Leaves(char, reset, token, move) ==
  \/ char = Space /\ move = Move(InSpace, reset, token)
  \/ char = Terminator[1] /\ move = Move(Ending(<<char>>), reset, token)
  \/ char = NUL /\ move = Move(Finished, reset, token)

\* The edges one state after the other.
Goes(state, char, move) ==
  \/ /\ state = Start
     /\ Begins(char, move) \/ (char = Space /\ move = Move(InSpace, TRUE, Unknown))
  \/ state = InSpace /\ (Begins(char, move) \/ Leaves(char, TRUE, Unknown, move))
  \/ /\ state = InDigits
     /\ \/ char \in Digits /\ move = Move(InDigits, FALSE, Unknown)
        \/ Leaves(char, FALSE, "Size", move)
  \/ /\ state = InGenericWord
     /\ \/ char \in WordChars /\ move = Move(InGenericWord, FALSE, Unknown)
        \/ Leaves(char, FALSE, "Path", move)
  \/ \E s \in Stems :
       /\ state = Stem(s)
       /\ \/ /\ char \in WordChars /\ Append(s, char) \in Stems
             /\ move = Move(Stem(Append(s, char)), TRUE, Unknown)
          \/ \E k \in Keywords : s = Words[k] /\ Leaves(char, TRUE, k, move)
  \/ \E e \in Parts(Terminator) :
       /\ state = Ending(e)
       /\ char \in EndChars /\ Append(e, char) \in Parts(Terminator)
       /\ move = Move(IF Append(e, char) = Terminator THEN Finished ELSE Ending(Append(e, char)),
                      TRUE, Unknown)

\* The fields of an edge.
LEMMA EdgeFields ==
  ASSUME NEW from, NEW chars, NEW to, NEW reset, NEW token
  PROVE  /\ Edge(from, chars, to, reset, token).from = from
         /\ Edge(from, chars, to, reset, token).chars = chars
         /\ MoveOf(Edge(from, chars, to, reset, token)) = Move(to, reset, token)
  BY DEF Edge, MoveOf, Move

\* An edge leads where it says by each of its chars.
LEMMA EdgeLeads ==
  ASSUME NEW from, NEW chars, NEW to, NEW reset, NEW token, NEW char \in chars,
         Edge(from, chars, to, reset, token) \in Edges
  PROVE  Leads(from, char, Move(to, reset, token))
<1>1. PICK e \in Edges : e = Edge(from, chars, to, reset, token)
  OBVIOUS
<1>2. e.from = from /\ e.chars = chars /\ MoveOf(e) = Move(to, reset, token)
  BY <1>1, EdgeFields
<1> QED
  BY <1>2 DEF Leads

\* The edges that build_graph adds, one line for each of its loops.
LEMMA EdgeIntro ==
  /\ Edge(Start, {Space}, InSpace, TRUE, Unknown) \in Edges
  /\ Edge(InDigits, Digits, InDigits, FALSE, Unknown) \in Edges
  /\ Edge(InGenericWord, WordChars, InGenericWord, FALSE, Unknown) \in Edges
  /\ \A between \in {Start, InSpace} :
       /\ Edge(between, Digits, InDigits, TRUE, Unknown) \in Edges
       /\ Edge(between, {Slash}, InGenericWord, TRUE, Unknown) \in Edges
       /\ \A s \in Stems : Edge(between, {s[1]}, Stem(<<s[1]>>), TRUE, Unknown) \in Edges
  /\ \A s \in Stems : Len(s) > 1 =>
       Edge(Stem(Front(s)), {Last(s)}, Stem(s), TRUE, Unknown) \in Edges
  /\ \A x \in Exits :
       /\ Edge(x.state, {Space}, InSpace, x.reset, x.token) \in Edges
       /\ Edge(x.state, {Terminator[1]}, Ending(<<Terminator[1]>>), x.reset, x.token) \in Edges
       /\ Edge(x.state, {NUL}, Finished, x.reset, x.token) \in Edges
  /\ \A p \in Parts(Terminator) : Len(p) > 1 =>
       Edge(Ending(Front(p)), {Last(p)}, IF p = Terminator THEN Finished ELSE Ending(p),
            TRUE, Unknown) \in Edges
<1>1. \A between \in {Start, InSpace} :
        /\ Edge(between, Digits, InDigits, TRUE, Unknown) \in FieldEdges
        /\ Edge(between, {Slash}, InGenericWord, TRUE, Unknown) \in FieldEdges
        /\ \A s \in Stems :
             Edge(between, {s[1]}, Stem(<<s[1]>>), TRUE, Unknown) \in FieldEdges
  BY DEF FieldEdges
<1>2. \A s \in Stems : Len(s) > 1 =>
        Edge(Stem(Front(s)), {Last(s)}, Stem(s), TRUE, Unknown) \in StemEdges
  BY DEF StemEdges
<1>3. \A x \in Exits :
        /\ Edge(x.state, {Space}, InSpace, x.reset, x.token) \in ExitEdges
        /\ Edge(x.state, {Terminator[1]}, Ending(<<Terminator[1]>>), x.reset, x.token)
             \in ExitEdges
        /\ Edge(x.state, {NUL}, Finished, x.reset, x.token) \in ExitEdges
  BY DEF ExitEdges
<1>4. \A p \in Parts(Terminator) : Len(p) > 1 =>
        Edge(Ending(Front(p)), {Last(p)}, IF p = Terminator THEN Finished ELSE Ending(p),
             TRUE, Unknown) \in EndingEdges
  BY DEF EndingEdges
<1>5. /\ FieldEdges \subseteq Edges /\ StemEdges \subseteq Edges
      /\ ExitEdges \subseteq Edges /\ EndingEdges \subseteq Edges
      /\ Edge(Start, {Space}, InSpace, TRUE, Unknown) \in Edges
      /\ Edge(InDigits, Digits, InDigits, FALSE, Unknown) \in Edges
      /\ Edge(InGenericWord, WordChars, InGenericWord, FALSE, Unknown) \in Edges
  BY DEF Edges
<1> QED
  BY Zenon, <1>1, <1>2, <1>3, <1>4, <1>5

\* The states a word can end at.
LEMMA ExitIntro ==
  /\ [state |-> InSpace, reset |-> TRUE, token |-> Unknown] \in Exits
  /\ [state |-> InDigits, reset |-> FALSE, token |-> "Size"] \in Exits
  /\ [state |-> InGenericWord, reset |-> FALSE, token |-> "Path"] \in Exits
  /\ \A k \in Keywords : [state |-> Stem(Words[k]), reset |-> TRUE, token |-> k] \in Exits
  BY DEF Exits

\* Behind a word there may be a space, the end or a null.
LEMMA LeadsByExits ==
  ASSUME GrammarAssumption, NEW x \in Exits, NEW char, NEW move,
         Leaves(char, x.reset, x.token, move)
  PROVE  Leads(x.state, char, move)
<1>1. CASE char = Space /\ move = Move(InSpace, x.reset, x.token)
  <2>1. Edge(x.state, {Space}, InSpace, x.reset, x.token) \in Edges
    BY EdgeIntro
  <2> QED
    BY <1>1, <2>1, EdgeLeads
<1>2. CASE char = Terminator[1] /\ move = Move(Ending(<<char>>), x.reset, x.token)
  <2>1. Edge(x.state, {Terminator[1]}, Ending(<<Terminator[1]>>), x.reset, x.token) \in Edges
    BY EdgeIntro
  <2> QED
    BY <1>2, <2>1, EdgeLeads
<1>3. CASE char = NUL /\ move = Move(Finished, x.reset, x.token)
  <2>1. Edge(x.state, {NUL}, Finished, x.reset, x.token) \in Edges
    BY EdgeIntro
  <2> QED
    BY <1>3, <2>1, EdgeLeads
<1> QED
  BY <1>1, <1>2, <1>3 DEF Leaves

\* A word begins with a digit, a slash or the first char of a keyword.
LEMMA LeadsByBeginning ==
  ASSUME GrammarAssumption, NEW between \in {Start, InSpace}, NEW char, NEW move,
         Begins(char, move)
  PROVE  Leads(between, char, move)
<1>1. CASE char \in Digits /\ move = Move(InDigits, TRUE, Unknown)
  <2>1. Edge(between, Digits, InDigits, TRUE, Unknown) \in Edges
    BY EdgeIntro
  <2> QED
    BY <1>1, <2>1, EdgeLeads
<1>2. CASE char = Slash /\ move = Move(InGenericWord, TRUE, Unknown)
  <2>1. Edge(between, {Slash}, InGenericWord, TRUE, Unknown) \in Edges
    BY EdgeIntro
  <2> QED
    BY <1>2, <2>1, EdgeLeads
<1>3. CASE <<char>> \in Stems /\ move = Move(Stem(<<char>>), TRUE, Unknown)
  <2>1. <<char>>[1] = char
    OBVIOUS
  <2>2. Edge(between, {char}, Stem(<<char>>), TRUE, Unknown) \in Edges
    BY <1>3, <2>1, EdgeIntro
  <2> QED
    BY <1>3, <2>2, EdgeLeads
<1> QED
  BY <1>1, <1>2, <1>3 DEF Begins

\* A stem leads to a longer one.
LEMMA LeadsAlongStem ==
  ASSUME GrammarAssumption, NEW s \in Stems, NEW char \in WordChars, Append(s, char) \in Stems
  PROVE  Leads(Stem(s), char, Move(Stem(Append(s, char)), TRUE, Unknown))
<1>1. s \in Seq(WordChars) /\ s # <<>>
  BY StemFacts
<1>2. PICK a \in Stems : a = Append(s, char)
  OBVIOUS
<1>3. Front(a) = s /\ Last(a) = char /\ Len(a) > 1
  <2>1. Len(a) = Len(s) + 1 /\ Len(s) \in Nat \ {0}
    BY <1>1, <1>2, AppendProperties, EmptySeq
  <2> QED
    BY <1>1, <1>2, <2>1, FrontLastOfAppend
<1>4. Edge(Stem(Front(a)), {Last(a)}, Stem(a), TRUE, Unknown) \in Edges
  BY <1>3, EdgeIntro
<1> QED
  BY <1>2, <1>3, <1>4, EdgeLeads

\* A part of the terminator leads to a longer one, or to the end.
LEMMA LeadsAlongEnd ==
  ASSUME GrammarAssumption, NEW e \in Parts(Terminator), NEW char \in EndChars,
         Append(e, char) \in Parts(Terminator)
  PROVE  Leads(Ending(e), char,
               Move(IF Append(e, char) = Terminator THEN Finished ELSE Ending(Append(e, char)),
                    TRUE, Unknown))
<1>1. e \in Seq(EndChars) /\ e # <<>>
  BY TerminatorFacts, PartFacts
<1>2. PICK a \in Parts(Terminator) : a = Append(e, char)
  OBVIOUS
<1>3. Front(a) = e /\ Last(a) = char /\ Len(a) > 1
  <2>1. Len(a) = Len(e) + 1 /\ Len(e) \in Nat \ {0}
    BY <1>1, <1>2, AppendProperties, EmptySeq
  <2> QED
    BY <1>1, <1>2, <2>1, FrontLastOfAppend
<1>4. Edge(Ending(Front(a)), {Last(a)}, IF a = Terminator THEN Finished ELSE Ending(a),
           TRUE, Unknown) \in Edges
  BY <1>3, EdgeIntro
<1> QED
  BY <1>2, <1>3, <1>4, EdgeLeads

\* Where the description of the moves goes there is an edge.
LEMMA GoesLeads ==
  ASSUME GrammarAssumption, NEW state, NEW char, NEW move, Goes(state, char, move)
  PROVE  Leads(state, char, move)
<1>1. CASE state = Start /\ char = Space /\ move = Move(InSpace, TRUE, Unknown)
  <2>1. Edge(Start, {Space}, InSpace, TRUE, Unknown) \in Edges
    BY EdgeIntro
  <2> QED
    BY <1>1, <2>1, EdgeLeads
<1>2. CASE state \in {Start, InSpace} /\ Begins(char, move)
  BY <1>2, LeadsByBeginning
<1>3. CASE state = InSpace /\ Leaves(char, TRUE, Unknown, move)
  <2>1. PICK x \in Exits : x.state = InSpace /\ x.reset = TRUE /\ x.token = Unknown
    BY ExitIntro
  <2> QED
    BY <1>3, <2>1, LeadsByExits
<1>4. CASE state = InDigits /\ Leaves(char, FALSE, "Size", move)
  <2>1. PICK x \in Exits : x.state = InDigits /\ x.reset = FALSE /\ x.token = "Size"
    BY ExitIntro
  <2> QED
    BY <1>4, <2>1, LeadsByExits
<1>5. CASE state = InGenericWord /\ Leaves(char, FALSE, "Path", move)
  <2>1. PICK x \in Exits : x.state = InGenericWord /\ x.reset = FALSE /\ x.token = "Path"
    BY ExitIntro
  <2> QED
    BY <1>5, <2>1, LeadsByExits
<1>6. CASE state = InDigits /\ char \in Digits /\ move = Move(InDigits, FALSE, Unknown)
  <2>1. Edge(InDigits, Digits, InDigits, FALSE, Unknown) \in Edges
    BY EdgeIntro
  <2> QED
    BY <1>6, <2>1, EdgeLeads
<1>7. CASE state = InGenericWord /\ char \in WordChars
           /\ move = Move(InGenericWord, FALSE, Unknown)
  <2>1. Edge(InGenericWord, WordChars, InGenericWord, FALSE, Unknown) \in Edges
    BY EdgeIntro
  <2> QED
    BY <1>7, <2>1, EdgeLeads
<1>8. ASSUME NEW s \in Stems, state = Stem(s), char \in WordChars, Append(s, char) \in Stems,
             move = Move(Stem(Append(s, char)), TRUE, Unknown)
      PROVE  Leads(state, char, move)
  BY <1>8, LeadsAlongStem
<1>9. ASSUME NEW k \in Keywords, state = Stem(Words[k]), Leaves(char, TRUE, k, move)
      PROVE  Leads(state, char, move)
  <2>1. PICK x \in Exits : x = [state |-> Stem(Words[k]), reset |-> TRUE, token |-> k]
    BY ExitIntro
  <2> QED
    BY <1>9, <2>1, LeadsByExits
<1>10. ASSUME NEW e \in Parts(Terminator), state = Ending(e), char \in EndChars,
              Append(e, char) \in Parts(Terminator),
              move = Move(IF Append(e, char) = Terminator THEN Finished
                          ELSE Ending(Append(e, char)), TRUE, Unknown)
       PROVE  Leads(state, char, move)
  BY <1>10, LeadsAlongEnd
<1> QED
  BY <1>1, <1>2, <1>3, <1>4, <1>5, <1>6, <1>7, <1>8, <1>9, <1>10 DEF Goes

\* There are no other edges than those build_graph adds.
LEMMA EdgeCases ==
  ASSUME NEW e \in Edges
  PROVE  \/ e = Edge(Start, {Space}, InSpace, TRUE, Unknown)
         \/ e = Edge(InDigits, Digits, InDigits, FALSE, Unknown)
         \/ e = Edge(InGenericWord, WordChars, InGenericWord, FALSE, Unknown)
         \/ \E between \in {Start, InSpace} :
              \/ e = Edge(between, Digits, InDigits, TRUE, Unknown)
              \/ e = Edge(between, {Slash}, InGenericWord, TRUE, Unknown)
         \/ \E between \in {Start, InSpace}, s \in Stems :
              e = Edge(between, {s[1]}, Stem(<<s[1]>>), TRUE, Unknown)
         \/ \E s \in Stems :
              Len(s) > 1 /\ e = Edge(Stem(Front(s)), {Last(s)}, Stem(s), TRUE, Unknown)
         \/ \E x \in Exits :
              \/ e = Edge(x.state, {Space}, InSpace, x.reset, x.token)
              \/ e = Edge(x.state, {Terminator[1]}, Ending(<<Terminator[1]>>), x.reset, x.token)
              \/ e = Edge(x.state, {NUL}, Finished, x.reset, x.token)
         \/ \E p \in Parts(Terminator) :
              Len(p) > 1 /\ e = Edge(Ending(Front(p)), {Last(p)},
                                     IF p = Terminator THEN Finished ELSE Ending(p), TRUE, Unknown)
<1>1. e \in FieldEdges =>
        \/ \E between \in {Start, InSpace} :
             \/ e = Edge(between, Digits, InDigits, TRUE, Unknown)
             \/ e = Edge(between, {Slash}, InGenericWord, TRUE, Unknown)
        \/ \E between \in {Start, InSpace}, s \in Stems :
             e = Edge(between, {s[1]}, Stem(<<s[1]>>), TRUE, Unknown)
  BY DEF FieldEdges
<1>2. e \in StemEdges =>
        \E s \in Stems : Len(s) > 1 /\ e = Edge(Stem(Front(s)), {Last(s)}, Stem(s), TRUE, Unknown)
  BY DEF StemEdges
<1>3. e \in ExitEdges =>
        \E x \in Exits :
          \/ e = Edge(x.state, {Space}, InSpace, x.reset, x.token)
          \/ e = Edge(x.state, {Terminator[1]}, Ending(<<Terminator[1]>>), x.reset, x.token)
          \/ e = Edge(x.state, {NUL}, Finished, x.reset, x.token)
  BY DEF ExitEdges
<1>4. e \in EndingEdges =>
        \E p \in Parts(Terminator) :
          Len(p) > 1 /\ e = Edge(Ending(Front(p)), {Last(p)},
                                 IF p = Terminator THEN Finished ELSE Ending(p), TRUE, Unknown)
  BY Zenon DEF EndingEdges
<1>5. \/ e = Edge(Start, {Space}, InSpace, TRUE, Unknown)
      \/ e = Edge(InDigits, Digits, InDigits, FALSE, Unknown)
      \/ e = Edge(InGenericWord, WordChars, InGenericWord, FALSE, Unknown)
      \/ e \in FieldEdges \/ e \in StemEdges \/ e \in ExitEdges \/ e \in EndingEdges
  BY DEF Edges
<1> QED
  BY Zenon, <1>1, <1>2, <1>3, <1>4, <1>5

\* An edge goes where the description of the moves says.
LEMMA LeadsGoes ==
  ASSUME GrammarAssumption, NEW state, NEW char, NEW move, Leads(state, char, move)
  PROVE  Goes(state, char, move)
<1>1. PICK e \in Edges : e.from = state /\ char \in e.chars /\ MoveOf(e) = move
  BY DEF Leads
<1>2. CASE e = Edge(Start, {Space}, InSpace, TRUE, Unknown)
  BY <1>1, <1>2 DEF Edge, MoveOf, Goes
<1>3. CASE e = Edge(InDigits, Digits, InDigits, FALSE, Unknown)
  BY <1>1, <1>3 DEF Edge, MoveOf, Goes
<1>4. CASE e = Edge(InGenericWord, WordChars, InGenericWord, FALSE, Unknown)
  BY <1>1, <1>4 DEF Edge, MoveOf, Goes
<1>5. ASSUME NEW between \in {Start, InSpace},
             \/ e = Edge(between, Digits, InDigits, TRUE, Unknown)
             \/ e = Edge(between, {Slash}, InGenericWord, TRUE, Unknown)
      PROVE  Goes(state, char, move)
  <2>1. CASE e = Edge(between, Digits, InDigits, TRUE, Unknown)
    <3>1. state = between /\ char \in Digits /\ move = Move(InDigits, TRUE, Unknown)
      BY <1>1, <2>1 DEF Edge, MoveOf
    <3> QED
      BY <3>1 DEF Begins, Goes
  <2>2. CASE e = Edge(between, {Slash}, InGenericWord, TRUE, Unknown)
    <3>1. state = between /\ char = Slash /\ move = Move(InGenericWord, TRUE, Unknown)
      BY <1>1, <2>2 DEF Edge, MoveOf
    <3> QED
      BY <3>1 DEF Begins, Goes
  <2> QED
    BY <1>5, <2>1, <2>2
<1>6. ASSUME NEW between \in {Start, InSpace}, NEW s \in Stems,
             e = Edge(between, {s[1]}, Stem(<<s[1]>>), TRUE, Unknown)
      PROVE  Goes(state, char, move)
  <2>1. <<s[1]>> \in Stems
    BY StemFacts
  <2>2. state = between /\ char = s[1] /\ move = Move(Stem(<<char>>), TRUE, Unknown)
    BY <1>1, <1>6 DEF Edge, MoveOf
  <2>3. Begins(char, move)
    BY <2>1, <2>2 DEF Begins
  <2> QED
    BY <2>2, <2>3 DEF Goes
<1>7. ASSUME NEW s \in Stems, Len(s) > 1,
             e = Edge(Stem(Front(s)), {Last(s)}, Stem(s), TRUE, Unknown)
      PROVE  Goes(state, char, move)
  <2>1. state = Stem(Front(s)) /\ char = Last(s) /\ move = Move(Stem(s), TRUE, Unknown)
    BY <1>1, <1>7 DEF Edge, MoveOf
  <2>2. s \in Seq(WordChars) /\ s # <<>>
    BY StemFacts
  <2>3. /\ Front(s) \in Seq(WordChars) /\ Last(s) \in WordChars /\ s = Append(Front(s), Last(s))
        /\ Len(Front(s)) = Len(s) - 1
    BY <2>2, AppendOfFrontLast
  <2>4. PICK f \in Seq(WordChars) : f = Front(s)
    BY <2>3
  <2>5. f # <<>>
    BY <1>7, <2>3, <2>4, EmptySeq
  <2>6. char \in WordChars /\ s = Append(f, char) /\ state = Stem(f)
    BY <2>1, <2>3, <2>4
  <2>7. f \in Stems
    BY <2>5, <2>6, StemOfStem
  <2> QED
    BY <2>1, <2>6, <2>7 DEF Goes
<1>8. ASSUME NEW x \in Exits,
             \/ e = Edge(x.state, {Space}, InSpace, x.reset, x.token)
             \/ e = Edge(x.state, {Terminator[1]}, Ending(<<Terminator[1]>>), x.reset, x.token)
             \/ e = Edge(x.state, {NUL}, Finished, x.reset, x.token)
      PROVE  Goes(state, char, move)
  <2>1. state = x.state /\ Leaves(char, x.reset, x.token, move)
    BY <1>1, <1>8 DEF Edge, MoveOf, Leaves
  <2>2. CASE x = [state |-> InSpace, reset |-> TRUE, token |-> Unknown]
    BY <2>1, <2>2 DEF Goes
  <2>3. CASE x = [state |-> InDigits, reset |-> FALSE, token |-> "Size"]
    BY <2>1, <2>3 DEF Goes
  <2>4. CASE x = [state |-> InGenericWord, reset |-> FALSE, token |-> "Path"]
    BY <2>1, <2>4 DEF Goes
  <2>5. ASSUME NEW k \in Keywords, x = [state |-> Stem(Words[k]), reset |-> TRUE, token |-> k]
        PROVE  Goes(state, char, move)
    <3>1. Words[k] \in Stems
      BY WordIsStem
    <3>2. state = Stem(Words[k]) /\ Leaves(char, TRUE, k, move)
      BY <2>1, <2>5
    <3> QED
      BY <3>1, <3>2 DEF Goes
  <2> QED
    BY <2>2, <2>3, <2>4, <2>5, ExitCases
<1>9. ASSUME NEW p \in Parts(Terminator), Len(p) > 1,
              e = Edge(Ending(Front(p)), {Last(p)}, IF p = Terminator THEN Finished ELSE Ending(p),
                       TRUE, Unknown)
       PROVE  Goes(state, char, move)
  <2>1. /\ state = Ending(Front(p)) /\ char = Last(p)
        /\ move = Move(IF p = Terminator THEN Finished ELSE Ending(p), TRUE, Unknown)
    BY <1>1, <1>9 DEF Edge, MoveOf
  <2>2. Terminator \in Seq(EndChars) /\ p \in Seq(EndChars) /\ p # <<>>
    BY TerminatorFacts, PartFacts
  <2>3. /\ Front(p) \in Seq(EndChars) /\ Last(p) \in EndChars /\ p = Append(Front(p), Last(p))
        /\ Len(Front(p)) = Len(p) - 1
    BY <2>2, AppendOfFrontLast
  <2>4. PICK f \in Seq(EndChars) : f = Front(p)
    BY <2>3
  <2>5. f # <<>>
    BY <1>9, <2>3, <2>4, EmptySeq
  <2>6. char \in EndChars /\ p = Append(f, char) /\ state = Ending(f)
    BY <2>1, <2>3, <2>4
  <2>7. f \in Parts(Terminator)
    BY <2>2, <2>5, <2>6, PartOfPart
  <2> QED
    BY <2>1, <2>6, <2>7 DEF Goes
<1> QED
  BY <1>2, <1>3, <1>4, <1>5, <1>6, <1>7, <1>8, <1>9, EdgeCases

\* A word begins with a char of a word, and a keyword with no digit and no slash.
LEMMA BeginsWithWordChar ==
  ASSUME GrammarAssumption, NEW char, NEW move, Begins(char, move)
  PROVE  char \in WordChars /\ (<<char>> \in Stems => char \notin Digits /\ char # Slash)
<1>1. <<char>> \in Stems => char \in WordChars /\ char \notin Digits /\ char # Slash
  <2>1. <<char>>[1] = char
    OBVIOUS
  <2> QED
    BY <2>1, StemFacts
<1>2. char \in Digits \/ char = Slash \/ <<char>> \in Stems
  BY Zenon DEF Begins
<1> QED
  BY <1>1, <1>2 DEF WordChars, Digits, Slash

\* A char that ends a word is in none.
LEMMA LeavesWithControlChar ==
  ASSUME GrammarAssumption, NEW char, NEW reset, NEW token, NEW move,
         Leaves(char, reset, token, move)
  PROVE  char \in 0..32
<1>1. Terminator[1] \in EndChars
  BY TerminatorFacts
<1>2. PICK t \in EndChars : t = Terminator[1]
  BY <1>1
<1>3. char = Space \/ char = t \/ char = NUL
  BY Zenon, <1>2 DEF Leaves
<1>4. Space \in 0..32 /\ NUL \in 0..32 /\ t \in 0..32
  BY DEF EndChars, Space, NUL
<1> QED
  BY Zenon, <1>3, <1>4

\* A char begins a word in one way.
LEMMA BeginsOnce ==
  ASSUME GrammarAssumption, NEW char, NEW m1, NEW m2, Begins(char, m1), Begins(char, m2)
  PROVE  m1 = m2
<1>1. <<char>> \in Stems => char \notin Digits /\ char # Slash
  BY BeginsWithWordChar
<1>2. Slash \notin Digits
  BY DEF Slash, Digits
<1>3. PICK a : a = Move(InDigits, TRUE, Unknown)
  OBVIOUS
<1>4. PICK b : b = Move(InGenericWord, TRUE, Unknown)
  OBVIOUS
<1>5. PICK c : c = Move(Stem(<<char>>), TRUE, Unknown)
  OBVIOUS
<1>6. ASSUME NEW m, Begins(char, m)
      PROVE  \/ char \in Digits /\ m = a
             \/ char = Slash /\ m = b
             \/ <<char>> \in Stems /\ m = c
  BY Zenon, <1>3, <1>4, <1>5, <1>6 DEF Begins
<1> QED
  BY <1>1, <1>2, <1>6

\* A char ends a word in one way.
LEMMA LeavesOnce ==
  ASSUME GrammarAssumption, NEW char, NEW reset, NEW token, NEW m1, NEW m2,
         Leaves(char, reset, token, m1), Leaves(char, reset, token, m2)
  PROVE  m1 = m2
<1>1. Terminator[1] \in EndChars
  BY TerminatorFacts
<1>2. PICK t \in EndChars : t = Terminator[1]
  BY <1>1
<1>3. t # Space /\ t # NUL /\ Space # NUL
  BY DEF EndChars, Space, NUL
<1>4. PICK a : a = Move(InSpace, reset, token)
  OBVIOUS
<1>5. PICK b : b = Move(Ending(<<char>>), reset, token)
  OBVIOUS
<1>6. PICK c : c = Move(Finished, reset, token)
  OBVIOUS
<1>7. ASSUME NEW m, Leaves(char, reset, token, m)
      PROVE  \/ char = Space /\ m = a
             \/ char = t /\ m = b
             \/ char = NUL /\ m = c
  BY Zenon, <1>2, <1>4, <1>5, <1>6, <1>7 DEF Leaves
<1> QED
  BY <1>3, <1>7

\* The chars of words, and the others.
LEMMA CharKinds ==
  /\ Space \notin WordChars /\ Digits \subseteq WordChars /\ Slash \in WordChars
  /\ \A c \in 0..32 : c \notin WordChars
  BY DEF Space, WordChars, Digits, Slash

\* build_graph (build_graph.cpp:62-168) never gives a state two edges for one char: the graph is
\* deterministic.
LEMMA GoesOnce ==
  ASSUME GrammarAssumption, NEW state, NEW char, NEW m1, NEW m2,
         Goes(state, char, m1), Goes(state, char, m2)
  PROVE  m1 = m2
<1>1. \A m, reset, token : Leaves(char, reset, token, m) => char \notin WordChars
  BY LeavesWithControlChar, CharKinds
<1>2. \A m : Begins(char, m) => char \in WordChars
  BY BeginsWithWordChar
<1>3. char \in Digits => char \in WordChars
  BY CharKinds
<1>4. \A reset, token, m, n :
        Leaves(char, reset, token, m) /\ Leaves(char, reset, token, n) => m = n
  BY LeavesOnce
<1>5. \A m, n : Begins(char, m) /\ Begins(char, n) => m = n
  BY BeginsOnce
<1>6. CASE state = Start
  <2>1. ASSUME NEW m, Goes(state, char, m)
        PROVE  Begins(char, m) \/ (char = Space /\ m = Move(InSpace, TRUE, Unknown))
    BY Zenon, <1>6, <2>1, Kinds DEF Goes
  <2>2. char = Space => char \notin WordChars
    BY CharKinds
  <2>3. CASE char \in WordChars
    <3>1. Begins(char, m1)
      BY <2>1, <2>2, <2>3
    <3>2. Begins(char, m2)
      BY <2>1, <2>2, <2>3
    <3> QED
      BY Zenon, <1>5, <3>1, <3>2
  <2>4. CASE char \notin WordChars
    <3>1. m1 = Move(InSpace, TRUE, Unknown)
      BY Zenon, <1>2, <2>1, <2>4
    <3>2. m2 = Move(InSpace, TRUE, Unknown)
      BY Zenon, <1>2, <2>1, <2>4
    <3> QED
      BY Zenon, <3>1, <3>2
  <2> QED
    BY <2>3, <2>4
<1>7. CASE state = InSpace
  <2>1. ASSUME NEW m, Goes(state, char, m)
        PROVE  Begins(char, m) \/ Leaves(char, TRUE, Unknown, m)
    BY Zenon, <1>7, <2>1, Kinds DEF Goes
  <2> QED
    BY Zenon, <1>1, <1>2, <1>4, <1>5, <2>1
<1>8. CASE state = InDigits
  <2>1. ASSUME NEW m, Goes(state, char, m)
        PROVE  \/ char \in Digits /\ m = Move(InDigits, FALSE, Unknown)
               \/ Leaves(char, FALSE, "Size", m)
    BY Zenon, <1>8, <2>1, Kinds DEF Goes
  <2> QED
    BY Zenon, <1>1, <1>3, <1>4, <2>1
<1>9. CASE state = InGenericWord
  <2>1. ASSUME NEW m, Goes(state, char, m)
        PROVE  \/ char \in WordChars /\ m = Move(InGenericWord, FALSE, Unknown)
               \/ Leaves(char, FALSE, "Path", m)
    BY Zenon, <1>9, <2>1, Kinds DEF Goes
  <2> QED
    BY Zenon, <1>1, <1>4, <2>1
<1>10. ASSUME NEW s \in Stems, state = Stem(s)
       PROVE  m1 = m2
  <2>1. ASSUME NEW m, Goes(state, char, m)
        PROVE  \/ char \in WordChars /\ m = Move(Stem(Append(s, char)), TRUE, Unknown)
               \/ \E k \in Keywords : s = Words[k] /\ Leaves(char, TRUE, k, m)
    BY Zenon, <1>10, <2>1, Kinds DEF Goes
  <2>2. \A k, l \in Keywords : Words[k] = Words[l] => k = l
    BY DEF GrammarAssumption, IsInjective, Keywords
  <2>3. CASE char \in WordChars
    BY Zenon, <1>1, <2>1, <2>3
  <2>4. CASE char \notin WordChars
    <3>1. PICK k \in Keywords : s = Words[k] /\ Leaves(char, TRUE, k, m1)
      BY Zenon, <2>1, <2>4
    <3>2. PICK l \in Keywords : s = Words[l] /\ Leaves(char, TRUE, l, m2)
      BY Zenon, <2>1, <2>4
    <3>3. k = l
      BY <2>2, <3>1, <3>2
    <3> QED
      BY Zenon, <1>4, <3>1, <3>2, <3>3
  <2> QED
    BY <2>3, <2>4
<1>11. ASSUME NEW e \in Parts(Terminator), state = Ending(e)
       PROVE  m1 = m2
  <2>1. ASSUME NEW m, Goes(state, char, m)
        PROVE  m = Move(IF Append(e, char) = Terminator THEN Finished ELSE Ending(Append(e, char)),
                        TRUE, Unknown)
    BY Zenon, <1>11, <2>1, Kinds DEF Goes
  <2> QED
    BY Zenon, <2>1
<1> QED
  BY Zenon, <1>6, <1>7, <1>8, <1>9, <1>10, <1>11 DEF Goes

\* An edge begins at a state.
LEMMA FromIsState ==
  ASSUME NEW from, NEW chars, NEW to, NEW reset, NEW token,
         Edge(from, chars, to, reset, token) \in Edges
  PROVE  from \in States
<1>1. PICK e \in Edges : e = Edge(from, chars, to, reset, token)
  OBVIOUS
<1>2. e.from = from
  BY <1>1, EdgeFields
<1> QED
  BY <1>2 DEF States

\* The states of the graph.
LEMMA StatesContain ==
  ASSUME GrammarAssumption
  PROVE  /\ {Start, InvalidState, Finished, InSpace, InDigits, InGenericWord} \subseteq States
         /\ \A s \in Stems : Stem(s) \in States
         /\ \A e \in Parts(Terminator) : e # Terminator => Ending(e) \in States
<1>1. InvalidState \in States /\ Finished \in States
  BY DEF States
<1>2. Start \in States /\ InDigits \in States /\ InGenericWord \in States
  BY EdgeIntro, FromIsState
<1>3. InSpace \in States
  <2>1. Edge(InSpace, Digits, InDigits, TRUE, Unknown) \in Edges
    BY EdgeIntro
  <2> QED
    BY <2>1, FromIsState
<1>4. ASSUME NEW s \in Stems
      PROVE  Stem(s) \in States
  <2>1. PICK k \in Keywords : s \in Parts(Words[k])
    BY StemFacts
  <2>2. CASE s = Words[k]
    <3>1. Leaves(Space, TRUE, k, Move(InSpace, TRUE, k))
      BY DEF Leaves
    <3>2. Goes(Stem(s), Space, Move(InSpace, TRUE, k))
      BY <2>2, <3>1, WordIsStem DEF Goes
    <3>3. Leads(Stem(s), Space, Move(InSpace, TRUE, k))
      BY <3>2, GoesLeads
    <3> QED
      BY <3>3 DEF Leads, States
  <2>3. CASE s # Words[k]
    <3>1. PICK w \in Seq(WordChars) : w = Words[k]
      BY WordFacts
    <3>2. Len(s) + 1 \in 1..Len(w) /\ Append(s, w[Len(s) + 1]) \in Parts(w)
      BY <2>1, <2>3, <3>1, PartGoesOn
    <3>3. PICK c \in WordChars : c = w[Len(s) + 1]
      BY <3>2, ElementOfSeq
    <3>4. Append(s, c) \in Stems
      BY <3>1, <3>2, <3>3 DEF Stems
    <3>5. Leads(Stem(s), c, Move(Stem(Append(s, c)), TRUE, Unknown))
      BY <3>4, LeadsAlongStem
    <3> QED
      BY <3>5 DEF Leads, States
  <2> QED
    BY <2>2, <2>3
<1>5. ASSUME NEW e \in Parts(Terminator), e # Terminator
      PROVE  Ending(e) \in States
  <2>1. PICK w \in Seq(EndChars) : w = Terminator
    BY TerminatorFacts
  <2>2. Len(e) + 1 \in 1..Len(w) /\ Append(e, w[Len(e) + 1]) \in Parts(w)
    BY <1>5, <2>1, PartGoesOn
  <2>3. PICK c \in EndChars : c = w[Len(e) + 1]
    BY <2>2, ElementOfSeq
  <2>4. Append(e, c) \in Parts(Terminator)
    BY <2>1, <2>2, <2>3
  <2>5. PICK m : m = Move(IF Append(e, c) = Terminator THEN Finished ELSE Ending(Append(e, c)),
                          TRUE, Unknown)
    OBVIOUS
  <2>6. Leads(Ending(e), c, m)
    BY <2>4, <2>5, LeadsAlongEnd
  <2> QED
    BY <2>6 DEF Leads, States
<1> QED
  BY <1>1, <1>2, <1>3, <1>4, <1>5

Tokens == Keywords \cup {Unknown, "Size", "Path"}
Moves == [to : States, reset : BOOLEAN, token : Tokens]

\* A move ends at a state, and its token is one of the grammar.
LEMMA GoesIsMove ==
  ASSUME GrammarAssumption, NEW state, NEW char, NEW move, Goes(state, char, move)
  PROVE  move \in Moves
<1>1. ASSUME NEW to \in States, NEW reset \in BOOLEAN, NEW token \in Tokens,
             move = Move(to, reset, token)
      PROVE  move \in Moves
  BY <1>1 DEF Move, Moves
<1>2. Unknown \in Tokens /\ "Size" \in Tokens /\ "Path" \in Tokens
  BY DEF Tokens
<1>3. /\ InSpace \in States /\ InDigits \in States /\ InGenericWord \in States
      /\ Finished \in States
  BY StatesContain
<1>4. ASSUME NEW reset \in BOOLEAN, NEW token \in Tokens, Leaves(char, reset, token, move)
      PROVE  move \in Moves
  <2>1. Ending(<<Terminator[1]>>) \in States
    BY TerminatorFacts, StatesContain
  <2> QED
    BY Zenon, <1>1, <1>3, <1>4, <2>1 DEF Leaves
<1>5. ASSUME Begins(char, move)
      PROVE  move \in Moves
  <2>1. <<char>> \in Stems => Stem(<<char>>) \in States
    BY StatesContain
  <2> QED
    BY Zenon, <1>1, <1>2, <1>3, <1>5, <2>1 DEF Begins
<1>6. ASSUME NEW s \in Stems, char \in WordChars, Append(s, char) \in Stems,
             move = Move(Stem(Append(s, char)), TRUE, Unknown)
      PROVE  move \in Moves
  <2>1. Stem(Append(s, char)) \in States
    BY <1>6, StatesContain
  <2> QED
    BY Zenon, <1>1, <1>2, <1>6, <2>1
<1>7. ASSUME NEW e \in Parts(Terminator), Append(e, char) \in Parts(Terminator),
             move = Move(IF Append(e, char) = Terminator THEN Finished ELSE Ending(Append(e, char)),
                         TRUE, Unknown)
      PROVE  move \in Moves
  <2>1. (IF Append(e, char) = Terminator THEN Finished ELSE Ending(Append(e, char))) \in States
    BY <1>7, StatesContain
  <2> QED
    BY Zenon, <1>1, <1>2, <1>7, <2>1
<1>8. \A k \in Keywords : k \in Tokens
  BY DEF Tokens
<1> QED
  BY Zenon, <1>1, <1>2, <1>3, <1>4, <1>5, <1>6, <1>7, <1>8 DEF Goes

-----------------------------------------------------------------------------
(* The table.                                                                *)

\* The least element of a set of naturals.
LEMMA MinOfSet ==
  ASSUME NEW T, T \subseteq Nat, T # {}
  PROVE  Min(T) \in T /\ \A y \in T : Min(T) <= y
<1>1. \E x \in T : \A y \in T : x <= y
  BY LeastOfSet
<1> QED
  BY <1>1 DEF Min

\* The greatest element of a bounded set of naturals.
LEMMA MaxOfSet ==
  ASSUME NEW T, T \subseteq Nat, T # {}, NEW n \in Nat, \A y \in T : y <= n
  PROVE  Max(T) \in T /\ \A y \in T : y <= Max(T)
<1> DEFINE Bounds == {b \in Nat : \A y \in T : y <= b}
<1>1. Bounds \subseteq Nat /\ n \in Bounds
  OBVIOUS
<1>2. PICK b \in Bounds : \A c \in Bounds : b <= c
  BY <1>1, LeastOfSet
<1>3. b \in T
  <2>1. SUFFICES ASSUME b \notin T
                 PROVE  FALSE
    OBVIOUS
  <2>2. PICK y \in T : TRUE
    OBVIOUS
  <2>3. b \in Nat /\ \A z \in T : z \in Nat /\ z <= b /\ z # b
    BY <2>1
  <2>4. b - 1 \in Nat /\ \A z \in T : z <= b - 1
    BY <2>2, <2>3
  <2>5. b - 1 \in Bounds
    BY <2>4
  <2>6. b <= b - 1
    BY <1>2, <2>5
  <2> QED
    BY <2>3, <2>6
<1>4. \E x \in T : \A y \in T : x >= y
  BY <1>2, <1>3
<1> QED
  BY <1>4 DEF Max

\* Every char of an edge is in the table.
LEMMA UsedIsSevenBit ==
  ASSUME GrammarAssumption
  PROVE  Used \subseteq SevenBit
<1> SUFFICES ASSUME NEW e \in Edges, NEW char \in e.chars
             PROVE  char \in SevenBit
  BY DEF Used
<1>1. PICK move : move = MoveOf(e)
  OBVIOUS
<1>2. Leads(e.from, char, move)
  BY <1>1 DEF Leads
<1>3. Goes(e.from, char, move)
  BY <1>2, LeadsGoes
<1>4. \A m, reset, token : Leaves(char, reset, token, m) => char \in 0..32
  BY LeavesWithControlChar
<1>5. \A m : Begins(char, m) => char \in WordChars
  BY BeginsWithWordChar
<1>6. \/ char \in 0..32 \/ char \in WordChars \/ char = Space \/ char \in Digits
      \/ char \in EndChars
  BY Zenon, <1>3, <1>4, <1>5 DEF Goes, EndChars
<1> QED
  BY <1>6 DEF SevenBit, WordChars, Space, Digits, EndChars

\* A char is used when an edge has it.
LEMMA UsedIffLeads ==
  ASSUME NEW char
  PROVE  char \in Used <=> \E state, move : Leads(state, char, move)
  BY DEF Used, Leads

\* Two chars with one signature take the same edges.
LEMMA SameSignature ==
  ASSUME NEW c \in Used, NEW d \in Used, Signature[c] = Signature[d],
         NEW state, NEW move, Leads(state, c, move)
  PROVE  Leads(state, d, move)
<1>1. Signature[c] = {<<e.from, MoveOf(e)>> : e \in {x \in Edges : c \in x.chars}}
  BY DEF Signature
<1>2. Signature[d] = {<<e.from, MoveOf(e)>> : e \in {x \in Edges : d \in x.chars}}
  BY DEF Signature
<1>3. <<state, move>> \in Signature[c]
  BY <1>1 DEF Leads
<1>4. PICK e \in Edges : d \in e.chars /\ <<state, move>> = <<e.from, MoveOf(e)>>
  BY <1>2, <1>3
<1> QED
  BY <1>4 DEF Leads

\* The first char of a class has the edges of the others.
LEMMA FirstOfClassFacts ==
  ASSUME GrammarAssumption, NEW char \in Used
  PROVE  FirstOfClass[char] \in Used /\ Signature[FirstOfClass[char]] = Signature[char]
<1> DEFINE T == {c \in Used : Signature[c] = Signature[char]}
<1>1. T \subseteq Nat /\ T # {}
  <2>1. Used \subseteq Nat
    <3>1. Used \subseteq 0..127
      BY UsedIsSevenBit DEF SevenBit
    <3> QED
      BY <3>1
  <2>2. char \in T
    OBVIOUS
  <2> QED
    BY <2>1, <2>2
<1>2. Min(T) \in T
  <2> HIDE DEF T
  <2> QED
    BY <1>1, MinOfSet
<1>3. FirstOfClass[char] = Min(T)
  BY DEF FirstOfClass
<1> QED
  BY <1>2, <1>3

\* The first chars of the classes are finitely many chars.
LEMMA FirstCharsFacts ==
  ASSUME GrammarAssumption
  PROVE  FirstChars \subseteq 0..127 /\ IsFiniteSet(FirstChars) /\ FirstChars \subseteq Int
<1>1. FirstChars \subseteq 0..127
  <2>1. \A char \in Used : FirstOfClass[char] \in Used
    BY FirstOfClassFacts
  <2>2. FirstChars \subseteq Used
    BY <2>1 DEF FirstChars
  <2>3. Used \subseteq 0..127
    BY UsedIsSevenBit DEF SevenBit
  <2> QED
    BY <2>2, <2>3
<1>2. IsFiniteSet(0..127)
  <2>1. PICK n \in Int : n = 127
    OBVIOUS
  <2>2. IsFiniteSet(0..n)
    BY FS_Interval
  <2> QED
    BY <2>1, <2>2
<1>3. IsFiniteSet(FirstChars)
  BY <1>1, <1>2, FS_Subset
<1> QED
  BY <1>1, <1>3

\* The chars of FirstChars up to one.
UpTo(first) == {c \in FirstChars : c <= first}

\* The first chars up to one of them are counted.
LEMMA UpToFacts ==
  ASSUME GrammarAssumption, NEW first \in FirstChars
  PROVE  /\ IsFiniteSet(UpTo(first)) /\ Cardinality(UpTo(first)) \in Nat \ {0}
         /\ Cardinality(UpTo(first)) <= Cardinality(FirstChars)
<1>1. UpTo(first) \subseteq FirstChars
  BY DEF UpTo
<1>2. IsFiniteSet(UpTo(first)) /\ Cardinality(UpTo(first)) <= Cardinality(FirstChars)
  <2>1. PICK F : F = FirstChars /\ IsFiniteSet(F)
    BY FirstCharsFacts
  <2>2. PICK U \in SUBSET F : U = UpTo(first)
    BY <1>1, <2>1
  <2>3. IsFiniteSet(U) /\ Cardinality(U) <= Cardinality(F)
    BY <2>1, FS_Subset
  <2> QED
    BY <2>1, <2>2, <2>3
<1>3. first \in UpTo(first)
  <2>1. first \in Int
    BY FirstCharsFacts
  <2> QED
    BY <2>1 DEF UpTo
<1>4. Cardinality(UpTo(first)) \in Nat
  BY <1>2, FS_CardinalityType
<1>5. Cardinality(UpTo(first)) # 0
  BY <1>2, <1>3, FS_EmptySet
<1> QED
  BY <1>2, <1>4, <1>5

\* Different classes have different numbers.
LEMMA UpToTellsApart ==
  ASSUME GrammarAssumption, NEW c \in FirstChars, NEW d \in FirstChars, c < d
  PROVE  Cardinality(UpTo(c)) # Cardinality(UpTo(d))
<1>1. c \in Int /\ d \in Int /\ FirstChars \subseteq Int
  BY FirstCharsFacts
<1>2. UpTo(c) \subseteq UpTo(d)
  <2> SUFFICES ASSUME NEW x \in UpTo(c)
               PROVE  x \in UpTo(d)
    OBVIOUS
  <2>1. x \in FirstChars /\ x <= c
    BY DEF UpTo
  <2>2. x \in Int
    BY <1>1, <2>1
  <2>3. x <= d
    BY <1>1, <2>1, <2>2
  <2> QED
    BY <2>1, <2>3 DEF UpTo
<1>3. d \in UpTo(d) /\ d \notin UpTo(c)
  BY <1>1 DEF UpTo
<1>4. IsFiniteSet(UpTo(d))
  BY UpToFacts
<1>5. Cardinality(UpTo(d)) = Cardinality(UpTo(c)) => UpTo(d) = UpTo(c)
  BY <1>2, <1>4, FS_Subset
<1> QED
  BY <1>3, <1>5

\* compress_graph.cpp:91-103: the class of a used char is the number of its first char, and 0 is
\* that of the others.
LEMMA ClassOf ==
  ASSUME GrammarAssumption, NEW char \in SevenBit
  PROVE  /\ char \in Used => /\ FirstOfClass[char] \in FirstChars
                             /\ Class[char] = Cardinality(UpTo(FirstOfClass[char]))
                             /\ Class[char] \in Nat \ {0}
         /\ char \notin Used => Class[char] = 0
         /\ Class[char] \in Nat /\ Class[char] <= Cardinality(FirstChars)
<1>1. CASE char \in Used
  <2>1. FirstOfClass[char] \in FirstChars
    BY <1>1 DEF FirstChars
  <2>2. Class[char] = Cardinality(UpTo(FirstOfClass[char]))
    BY <1>1 DEF Class, UpTo
  <2> QED
    BY <1>1, <2>1, <2>2, UpToFacts
<1>2. CASE char \notin Used
  <2>1. Class[char] = 0
    BY <1>2 DEF Class
  <2>2. Cardinality(FirstChars) \in Nat
    BY FirstCharsFacts, FS_CardinalityType
  <2> QED
    BY <1>2, <2>1, <2>2
<1> QED
  BY <1>1, <1>2

\* Two chars in one column of the table take the same edges.
LEMMA SameClass ==
  ASSUME GrammarAssumption, NEW c \in SevenBit, NEW d \in SevenBit, Class[c] = Class[d]
  PROVE  /\ c \in Used <=> d \in Used
         /\ \A state, move : Leads(state, c, move) <=> Leads(state, d, move)
<1>1. c \in Used <=> d \in Used
  BY ClassOf
<1>2. CASE c \in Used
  <2>1. d \in Used
    BY <1>1, <1>2
  <2>2. PICK f \in FirstChars : f = FirstOfClass[c]
    BY <1>2, ClassOf
  <2>3. PICK g \in FirstChars : g = FirstOfClass[d]
    BY <2>1, ClassOf
  <2>4. Cardinality(UpTo(f)) = Cardinality(UpTo(g))
    BY <1>2, <2>1, <2>2, <2>3, ClassOf
  <2>5. f \in Int /\ g \in Int
    BY FirstCharsFacts
  <2>6. f = g
    BY <2>4, <2>5, UpToTellsApart
  <2>7. Signature[c] = Signature[d]
    BY <1>2, <2>1, <2>2, <2>3, <2>6, FirstOfClassFacts
  <2>8. \A state, move : Leads(state, c, move) => Leads(state, d, move)
    BY <1>2, <2>1, <2>7, SameSignature
  <2>9. \A state, move : Leads(state, d, move) => Leads(state, c, move)
    BY <1>2, <2>1, <2>7, SameSignature
  <2> QED
    BY <1>1, <2>8, <2>9
<1>3. CASE c \notin Used
  <2>1. d \notin Used
    BY <1>1, <1>3
  <2> QED
    BY <1>3, <2>1, UsedIffLeads
<1> QED
  BY <1>2, <1>3

\* A class is a column of the table.
LEMMA ClassInTable ==
  ASSUME GrammarAssumption, NEW char \in SevenBit
  PROVE  Class[char] \in 0..NumClasses - 1
<1> DEFINE T == {Class[c] : c \in SevenBit}
<1>1. Cardinality(FirstChars) \in Nat
  BY FirstCharsFacts, FS_CardinalityType
<1>2. PICK n \in Nat : n = Cardinality(FirstChars)
  BY <1>1
<1>3. T \subseteq Nat /\ \A y \in T : y <= n
  BY <1>2, ClassOf
<1>4. Class[char] \in T
  OBVIOUS
<1>5. Max(T) \in T /\ \A y \in T : y <= Max(T)
  <2> HIDE DEF T
  <2> QED
    BY <1>3, <1>4, MaxOfSet
<1>6. NumClasses = Max(T) + 1
  BY DEF NumClasses
<1> HIDE DEF T
<1>7. PICK m \in Nat : m = Max(T)
  BY <1>3, <1>5
<1>8. Class[char] \in Nat /\ Class[char] <= m /\ NumClasses = m + 1
  BY <1>3, <1>4, <1>5, <1>6, <1>7
<1> QED
  BY <1>8

\* What get_action_ finds, if any edge takes the char.
LEMMA ActionLeads ==
  ASSUME GrammarAssumption, NEW state \in States, NEW char \in SevenBit,
         NEW move, Leads(state, char, move)
  PROVE  Action[state][char] = move
<1>1. Action[state][char] = Table[state][Class[char]]
  BY DEF Action
<1>2. PICK class \in 0..NumClasses - 1 : class = Class[char]
  BY ClassInTable
<1>3. PICK e \in Edges : e.from = state /\ char \in e.chars /\ MoveOf(e) = move
  BY DEF Leads
<1>4. e \in EdgesOfClass(state, class)
  BY <1>2, <1>3 DEF EdgesOfClass
<1>5. Table[state][class] = Compressed(state, class)
  BY <1>4 DEF Table
<1>6. PICK f \in EdgesOfClass(state, class) : Compressed(state, class) = MoveOf(f)
  BY <1>4 DEF Compressed
<1>7. PICK d \in f.chars : Class[d] = class
  BY <1>6 DEF EdgesOfClass
<1>8. f \in Edges /\ f.from = state
  BY <1>6 DEF EdgesOfClass
<1>9. Leads(state, d, MoveOf(f))
  BY <1>7, <1>8 DEF Leads
<1>10. d \in SevenBit
  BY <1>9, UsedIffLeads, UsedIsSevenBit
<1>11. Leads(state, char, MoveOf(f))
  BY <1>2, <1>7, <1>9, <1>10, SameClass
<1>12. Goes(state, char, MoveOf(f)) /\ Goes(state, char, move)
  BY <1>11, LeadsGoes
<1>13. MoveOf(f) = move
  BY <1>12, GoesOnce
<1> QED
  BY <1>1, <1>2, <1>5, <1>6, <1>13

\* Where no edge leads get_action_ finds the action to the invalid state.
LEMMA ActionToInvalid ==
  ASSUME GrammarAssumption, NEW state \in States, NEW char \in SevenBit,
         \A move : ~Leads(state, char, move)
  PROVE  Action[state][char] = ToInvalid
<1>1. Action[state][char] = Table[state][Class[char]]
  BY DEF Action
<1>2. PICK class \in 0..NumClasses - 1 : class = Class[char]
  BY ClassInTable
<1>3. EdgesOfClass(state, class) = {}
  <2>1. SUFFICES ASSUME NEW f \in EdgesOfClass(state, class)
                 PROVE  FALSE
    OBVIOUS
  <2>2. PICK d \in f.chars : Class[d] = class
    BY DEF EdgesOfClass
  <2>3. f \in Edges /\ f.from = state
    BY DEF EdgesOfClass
  <2>4. Leads(state, d, MoveOf(f))
    BY <2>2, <2>3 DEF Leads
  <2>5. d \in SevenBit
    BY <2>4, UsedIffLeads, UsedIsSevenBit
  <2>6. Leads(state, char, MoveOf(f))
    BY <1>2, <2>2, <2>4, <2>5, SameClass
  <2> QED
    BY <2>6
<1>4. Table[state][class] = ToInvalid
  BY <1>3 DEF Table
<1> QED
  BY <1>1, <1>2, <1>4

\* compress_graph.cpp:91-103, write_table.cpp:112-123: for every grammar of the assumption,
\* the table that it prints has for every state and char the action of the only edge of the
\* graph that takes the char, and the action to the invalid state where there is none.
THEOREM TableFaithful == FaithfulRows = States
<1> SUFFICES ASSUME GrammarAssumption, NEW state \in States, NEW char \in SevenBit
             PROVE  LET edges == {MoveOf(e) : e \in {x \in Edges :
                                                     x.from = state /\ char \in x.chars}}
                    IN  {Action[state][char]} = IF edges = {} THEN {ToInvalid} ELSE edges
  BY GrammarAssumption DEF FaithfulRows
<1> DEFINE edges == {MoveOf(e) : e \in {x \in Edges : x.from = state /\ char \in x.chars}}
<1>1. \A m : m \in edges <=> Leads(state, char, m)
  BY DEF Leads
<1> HIDE DEF edges
<1>2. CASE edges = {}
  <2>1. \A m : ~Leads(state, char, m)
    BY <1>1, <1>2
  <2>2. Action[state][char] = ToInvalid
    BY <2>1, ActionToInvalid
  <2>3. {Action[state][char]} = IF edges = {} THEN {ToInvalid} ELSE edges
    BY <1>2, <2>2
  <2> QED
    BY <2>3 DEF edges
<1>3. CASE edges # {}
  <2>1. \A m \in edges : Action[state][char] = m
    BY <1>1, ActionLeads
  <2>2. {Action[state][char]} = edges
    BY <1>3, <2>1
  <2>3. {Action[state][char]} = IF edges = {} THEN {ToInvalid} ELSE edges
    BY <1>3, <2>2
  <2> QED
    BY <2>3 DEF edges
<1> QED
  BY <1>2, <1>3

\* get_action_ finds an action of the table.
LEMMA ActionIsMove ==
  ASSUME GrammarAssumption, NEW state \in States, NEW char \in SevenBit
  PROVE  Action[state][char] \in Moves
<1>1. CASE \E m : Leads(state, char, m)
  BY <1>1, ActionLeads, LeadsGoes, GoesIsMove
<1>2. CASE \A m : ~Leads(state, char, m)
  <2>1. Action[state][char] = ToInvalid
    BY <1>2, ActionToInvalid
  <2>2. InvalidState \in States
    BY StatesContain
  <2> QED
    BY <2>1, <2>2 DEF ToInvalid, Move, Moves, Tokens
<1> QED
  BY <1>1, <1>2

-----------------------------------------------------------------------------
(* The tokenizer.                                                            *)

Places == [block : Nat, at : Nat]
TokenTypes == [id : Tokens, size : Nat, place : Places]

\* The memory of n chars.
Memory(n) == [0..n - 1 -> Int]
Memories == UNION {Memory(n) : n \in Nat \ {0}}

Tokenizers ==
  [state : States \cup {Crashed}, tokens : Seq(TokenTypes), tokenCapacity : Nat \ {0},
   buffer : Memories, block : Nat, startOfCurrent : Nat,
   bufferCursor : Nat, numberValue : 0..Modulus - 1]

TokenizerOK(k) ==
  /\ k \in Tokenizers
  /\ Len(k.tokens) <= k.tokenCapacity
  /\ k.startOfCurrent <= k.bufferCursor /\ k.bufferCursor <= Capacity(k)

\* The tokens of k are those of p, and p's paths are in p's buffer if k's are in k's.
SameToken(k, p, n) ==
  /\ p.tokens[n].id = k.tokens[n].id /\ p.tokens[n].size = k.tokens[n].size
  /\ k.tokens[n].id = "Path" =>
       /\ p.tokens[n].place.at = k.tokens[n].place.at
       /\ k.tokens[n].place.block = k.block => p.tokens[n].place.block = p.block
SameTokens(k, p) == \A n \in 1..Len(k.tokens) : SameToken(k, p, n)

\* The first n chars in the memory of k are those of p.
SameChars(k, p, n) == \A i \in 0..n - 1 : p.buffer[i] = k.buffer[i]

\* The capacity of a buffer.
LEMMA MemoryCapacity ==
  ASSUME NEW n \in Nat \ {0}, NEW k, k.buffer \in Memory(n)
  PROVE  Capacity(k) = n /\ DOMAIN k.buffer = 0..n - 1
<1>1. DOMAIN k.buffer = 0..n - 1
  BY DEF Memory
<1>2. PICK a \in Int : a = 0
  OBVIOUS
<1>3. PICK b \in Int : b = n - 1
  OBVIOUS
<1>4. Cardinality(a..b) = IF a > b THEN 0 ELSE b - a + 1
  BY FS_Interval
<1>5. Cardinality(a..b) = n
  BY <1>2, <1>3, <1>4
<1> QED
  BY <1>1, <1>2, <1>3, <1>5 DEF Capacity

\* The memory of a tokenizer.
LEMMA TokenizerMemory ==
  ASSUME NEW k, TokenizerOK(k)
  PROVE  /\ Capacity(k) \in Nat \ {0} /\ k.buffer \in Memory(Capacity(k))
         /\ DOMAIN k.buffer = 0..Capacity(k) - 1
<1>1. PICK n \in Nat \ {0} : k.buffer \in Memory(n)
  BY DEF TokenizerOK, Tokenizers, Memories
<1> QED
  BY <1>1, MemoryCapacity

\* The fields of a tokenizer that is well formed.
LEMMA TokenizerFields ==
  ASSUME NEW k, TokenizerOK(k)
  PROVE  /\ k \in Tokenizers /\ k.state \in States \cup {Crashed} /\ k.tokens \in Seq(TokenTypes)
         /\ k.tokenCapacity \in Nat \ {0} /\ k.block \in Nat /\ k.startOfCurrent \in Nat
         /\ k.bufferCursor \in Nat /\ k.numberValue \in 0..Modulus - 1
         /\ Len(k.tokens) \in Nat /\ Len(k.tokens) <= k.tokenCapacity
         /\ k.startOfCurrent <= k.bufferCursor /\ k.bufferCursor <= Capacity(k)
<1>1. k \in Tokenizers
  BY DEF TokenizerOK
<1>2. k.tokens \in Seq(TokenTypes)
  BY <1>1 DEF Tokenizers
<1>3. Len(k.tokens) \in Nat
  BY <1>2, LenProperties
<1> QED
  BY <1>1, <1>2, <1>3 DEF TokenizerOK, Tokenizers

\* A token that is not changed but for the block of its path.
Moved(token, block) ==
  IF token.id = "Path" THEN [token EXCEPT !.place.block = block] ELSE token

\* A path that follows the buffer keeps its offset.
LEMMA MovedFields ==
  ASSUME NEW token \in TokenTypes, NEW block \in Nat
  PROVE  /\ Moved(token, block) \in TokenTypes
         /\ Moved(token, block).id = token.id /\ Moved(token, block).size = token.size
         /\ token.id = "Path" =>
              /\ Moved(token, block).place.at = token.place.at
              /\ Moved(token, block).place.block = block
  BY DEF Moved, TokenTypes, Places

\* push_char_ with a full buffer.
LEMMA FullGrows ==
  ASSUME TokenizerAssumption, NEW k, TokenizerOK(k), NEW moves \in BOOLEAN,
         k.bufferCursor = Capacity(k), NEW g, g = Grown(k, moves)
  PROVE  /\ g \in Tokenizers
         /\ g.state = k.state /\ g.startOfCurrent = k.startOfCurrent
         /\ g.bufferCursor = k.bufferCursor /\ g.numberValue = k.numberValue
         /\ g.tokenCapacity = k.tokenCapacity /\ Len(g.tokens) = Len(k.tokens)
         /\ Capacity(g) = 2 * Capacity(k) /\ g.buffer \in Memory(Capacity(g))
         /\ SameTokens(k, g) /\ SameChars(k, g, Capacity(k))
<1> DEFINE c == Capacity(k)
           block == IF moves THEN k.block + 1 ELSE k.block
           buffer == [i \in 0..2 * c - 1 |-> IF i < c THEN k.buffer[i] ELSE Junk]
           tokens == [i \in DOMAIN k.tokens |-> Moved(k.tokens[i], block)]
<1>1. /\ k \in Tokenizers /\ k.tokens \in Seq(TokenTypes) /\ k.block \in Nat
      /\ Len(k.tokens) \in Nat
  BY TokenizerFields
<1>2. c \in Nat \ {0} /\ k.buffer \in Memory(c)
  BY TokenizerMemory
<1>3. ~(k.bufferCursor < Capacity(k))
  BY <1>2
<1>4. g = [k EXCEPT !.buffer = buffer, !.block = block, !.tokens = tokens]
  BY <1>3 DEF Grown, Moved
<1>5. buffer \in Memory(2 * c) /\ \A i \in 0..c - 1 : buffer[i] = k.buffer[i]
  <2>1. \A i \in 0..c - 1 : k.buffer[i] \in Int
    BY <1>2 DEF Memory
  <2> QED
    BY <1>2, <2>1 DEF Memory, Junk
<1>6. block \in Nat
  BY <1>1
<1>7. DOMAIN k.tokens = 1..Len(k.tokens) /\ \A i \in 1..Len(k.tokens) : k.tokens[i] \in TokenTypes
  BY <1>1, LenProperties, ElementOfSeq
<1>8. tokens \in Seq(TokenTypes) /\ Len(tokens) = Len(k.tokens)
  <2>1. tokens \in [1..Len(k.tokens) -> TokenTypes]
    BY <1>6, <1>7, MovedFields
  <2> QED
    BY <1>1, <2>1
<1>9. \A i \in 1..Len(k.tokens) : tokens[i] = Moved(k.tokens[i], block)
  BY <1>7
<1> HIDE DEF c, block, buffer, tokens
<1>10. 2 * c \in Nat \ {0} /\ buffer \in Memories
  BY <1>2, <1>5 DEF Memories
<1>11. /\ g \in Tokenizers
       /\ g.state = k.state /\ g.startOfCurrent = k.startOfCurrent
       /\ g.bufferCursor = k.bufferCursor /\ g.numberValue = k.numberValue
       /\ g.tokenCapacity = k.tokenCapacity /\ g.tokens = tokens
       /\ g.buffer = buffer /\ g.block = block
  BY <1>1, <1>4, <1>6, <1>8, <1>10 DEF Tokenizers
<1>12. Capacity(g) = 2 * c
  BY <1>5, <1>10, <1>11, MemoryCapacity
<1>13. ASSUME NEW n \in 1..Len(k.tokens)
       PROVE  SameToken(k, g, n)
  <2>1. PICK t \in TokenTypes : t = k.tokens[n]
    BY <1>7
  <2>2. g.tokens[n] = Moved(t, block)
    BY <1>9, <1>11, <2>1
  <2>3. /\ Moved(t, block).id = t.id /\ Moved(t, block).size = t.size
        /\ t.id = "Path" =>
             /\ Moved(t, block).place.at = t.place.at
             /\ Moved(t, block).place.block = block
    BY <1>6, MovedFields
  <2> QED
    BY <1>11, <2>1, <2>2, <2>3 DEF SameToken
<1> QED
  BY <1>5, <1>8, <1>11, <1>12, <1>13 DEF c, SameTokens, SameChars

\* A tokenizer keeps its own tokens and chars.
LEMMA SameTokensReflexive ==
  ASSUME NEW k
  PROVE  SameTokens(k, k) /\ \A n : SameChars(k, k, n)
  BY DEF SameTokens, SameToken, SameChars

\* push_char_
LEMMA GrownFields ==
  ASSUME TokenizerAssumption, NEW k, TokenizerOK(k), NEW moves \in BOOLEAN,
         NEW g, g = Grown(k, moves)
  PROVE  /\ g \in Tokenizers
         /\ g.state = k.state /\ g.startOfCurrent = k.startOfCurrent
         /\ g.bufferCursor = k.bufferCursor /\ g.numberValue = k.numberValue
         /\ g.tokenCapacity = k.tokenCapacity /\ Len(g.tokens) = Len(k.tokens)
         /\ Capacity(g) \in Nat /\ g.bufferCursor < Capacity(g)
         /\ g.buffer \in Memory(Capacity(g))
         /\ SameTokens(k, g) /\ SameChars(k, g, k.bufferCursor)
<1>1. /\ k \in Tokenizers /\ k.bufferCursor \in Nat /\ k.bufferCursor <= Capacity(k)
      /\ Capacity(k) \in Nat \ {0} /\ k.buffer \in Memory(Capacity(k))
  BY TokenizerFields, TokenizerMemory
<1>2. CASE k.bufferCursor < Capacity(k)
  <2>1. g = k
    BY <1>2 DEF Grown
  <2> QED
    BY <1>1, <1>2, <2>1, SameTokensReflexive
<1>3. CASE k.bufferCursor = Capacity(k)
  <2>1. /\ g \in Tokenizers
        /\ g.state = k.state /\ g.startOfCurrent = k.startOfCurrent
        /\ g.bufferCursor = k.bufferCursor /\ g.numberValue = k.numberValue
        /\ g.tokenCapacity = k.tokenCapacity /\ Len(g.tokens) = Len(k.tokens)
        /\ Capacity(g) = 2 * Capacity(k) /\ g.buffer \in Memory(Capacity(g))
        /\ SameTokens(k, g) /\ SameChars(k, g, Capacity(k))
    BY <1>3, FullGrows
  <2> QED
    BY <1>1, <1>3, <2>1
<1> QED
  BY <1>1, <1>2, <1>3

\* push_char_ writes one char, and keeps those before it and the tokens.
LEMMA PushCharFields ==
  ASSUME TokenizerAssumption, NEW k, TokenizerOK(k), NEW moves \in BOOLEAN, NEW char \in Int,
         NEW p, p = PushChar(k, char, moves)
  PROVE  /\ TokenizerOK(p)
         /\ p.state = k.state /\ p.startOfCurrent = k.startOfCurrent
         /\ p.bufferCursor = k.bufferCursor + 1 /\ p.numberValue = k.numberValue
         /\ Len(p.tokens) = Len(k.tokens)
         /\ SameTokens(k, p) /\ SameChars(k, p, k.bufferCursor)
         /\ p.buffer[k.bufferCursor] = char
<1>1. PICK g : g = Grown(k, moves)
  OBVIOUS
<1>2. /\ g \in Tokenizers
      /\ g.state = k.state /\ g.startOfCurrent = k.startOfCurrent
      /\ g.bufferCursor = k.bufferCursor /\ g.numberValue = k.numberValue
      /\ g.tokenCapacity = k.tokenCapacity /\ Len(g.tokens) = Len(k.tokens)
      /\ Capacity(g) \in Nat /\ g.bufferCursor < Capacity(g)
      /\ g.buffer \in Memory(Capacity(g))
      /\ SameTokens(k, g) /\ SameChars(k, g, k.bufferCursor)
  BY <1>1, GrownFields
<1>3. k.bufferCursor \in Nat
  BY TokenizerFields
<1>4. PICK c \in Nat : c = Capacity(g)
  BY <1>2
<1>5. PICK at \in 0..c - 1 : at = g.bufferCursor
  BY <1>2, <1>3, <1>4
<1>6. PICK buffer : buffer = [g.buffer EXCEPT ![at] = char]
  OBVIOUS
<1>7. buffer \in Memory(c) /\ buffer[at] = char /\ \A i \in 0..at - 1 : buffer[i] = g.buffer[i]
  BY <1>2, <1>4, <1>5, <1>6 DEF Memory
<1>8. p = [g EXCEPT !.buffer = buffer, !.bufferCursor = at + 1]
  BY <1>1, <1>5, <1>6 DEF PushChar
<1>9. c \in Nat \ {0} /\ buffer \in Memories /\ at + 1 \in Nat
  <2>1. c \in Nat \ {0}
    BY <1>5
  <2> QED
    BY <1>5, <1>7, <2>1 DEF Memories
<1>10. /\ p \in Tokenizers /\ p.buffer = buffer /\ p.bufferCursor = at + 1
       /\ p.state = g.state /\ p.startOfCurrent = g.startOfCurrent
       /\ p.numberValue = g.numberValue /\ p.tokenCapacity = g.tokenCapacity
       /\ p.tokens = g.tokens /\ p.block = g.block
  BY <1>2, <1>8, <1>9 DEF Tokenizers
<1>11. Capacity(p) = c
  BY <1>7, <1>9, <1>10, MemoryCapacity
<1>12. TokenizerOK(p)
  <2>1. /\ k.startOfCurrent \in Nat /\ k.startOfCurrent <= k.bufferCursor
        /\ Len(k.tokens) <= k.tokenCapacity
    BY TokenizerFields
  <2>2. p.startOfCurrent <= p.bufferCursor /\ p.bufferCursor <= Capacity(p)
    BY <1>2, <1>3, <1>5, <1>10, <1>11, <2>1
  <2>3. Len(p.tokens) <= p.tokenCapacity
    BY <1>2, <1>10, <2>1
  <2> QED
    BY <1>10, <2>2, <2>3 DEF TokenizerOK
<1>13. SameTokens(k, p)
  BY <1>2, <1>10 DEF SameTokens, SameToken
<1>14. SameChars(k, p, k.bufferCursor)
  BY <1>2, <1>5, <1>7, <1>10 DEF SameChars
<1> QED
  BY <1>2, <1>5, <1>7, <1>10, <1>12, <1>13, <1>14

\* push_token_
LEMMA PushTokenFields ==
  ASSUME NEW k, TokenizerOK(k), NEW token \in TokenTypes, NEW p, p = PushToken(k, token)
  PROVE  /\ TokenizerOK(p)
         /\ p.state = k.state /\ p.startOfCurrent = k.startOfCurrent
         /\ p.bufferCursor = k.bufferCursor /\ p.numberValue = k.numberValue
         /\ p.buffer = k.buffer /\ p.block = k.block /\ p.tokens = Append(k.tokens, token)
         /\ Len(p.tokens) = Len(k.tokens) + 1 /\ p.tokens[Len(k.tokens) + 1] = token
         /\ SameTokens(k, p)
<1>1. /\ k \in Tokenizers /\ k.tokens \in Seq(TokenTypes) /\ Len(k.tokens) \in Nat
      /\ k.tokenCapacity \in Nat \ {0} /\ Len(k.tokens) <= k.tokenCapacity
  BY TokenizerFields
<1>2. PICK n \in Nat : n = Len(k.tokens)
  BY <1>1
<1>3. PICK cap : cap = IF n = k.tokenCapacity THEN 2 * k.tokenCapacity ELSE k.tokenCapacity
  OBVIOUS
<1>4. cap \in Nat \ {0} /\ n + 1 <= cap
  BY <1>1, <1>2, <1>3
<1>5. PICK tokens : tokens = Append(k.tokens, token)
  OBVIOUS
<1>6. /\ tokens \in Seq(TokenTypes) /\ Len(tokens) = n + 1 /\ tokens[n + 1] = token
      /\ \A i \in 1..n : tokens[i] = k.tokens[i]
  BY <1>1, <1>2, <1>5, AppendProperties
<1>7. p = [k EXCEPT !.tokenCapacity = cap, !.tokens = tokens]
  BY <1>2, <1>3, <1>5 DEF PushToken
<1>8. /\ p \in Tokenizers /\ p.tokens = tokens /\ p.tokenCapacity = cap
      /\ p.state = k.state /\ p.startOfCurrent = k.startOfCurrent
      /\ p.bufferCursor = k.bufferCursor /\ p.numberValue = k.numberValue
      /\ p.buffer = k.buffer /\ p.block = k.block
  BY <1>1, <1>4, <1>6, <1>7 DEF Tokenizers
<1>9. TokenizerOK(p)
  <2>1. Capacity(p) = Capacity(k)
    BY <1>8 DEF Capacity
  <2>2. k.startOfCurrent <= k.bufferCursor /\ k.bufferCursor <= Capacity(k)
    BY TokenizerFields
  <2> QED
    BY <1>4, <1>6, <1>8, <2>1, <2>2 DEF TokenizerOK
<1>10. SameTokens(k, p)
  BY <1>2, <1>6, <1>8 DEF SameTokens, SameToken
<1> QED
  BY <1>2, <1>5, <1>6, <1>8, <1>9, <1>10

\* A tokenizer with the same tokens and block.
LEMMA SameTokensAs ==
  ASSUME NEW k, NEW s, NEW t, s.tokens = k.tokens, s.block = k.block, SameTokens(s, t)
  PROVE  SameTokens(k, t)
<1> SUFFICES ASSUME NEW n \in 1..Len(k.tokens)
             PROVE  SameToken(k, t, n)
  BY DEF SameTokens
<1>1. SameToken(s, t, n)
  BY DEF SameTokens
<1> QED
  BY Zenon, <1>1 DEF SameToken

\* What is kept twice is kept.
LEMMA SameTokensFollow ==
  ASSUME NEW k, NEW p, NEW q, Len(p.tokens) = Len(k.tokens) \/ Len(p.tokens) = Len(k.tokens) + 1,
         Len(k.tokens) \in Nat, SameTokens(k, p), SameTokens(p, q)
  PROVE  SameTokens(k, q)
<1> SUFFICES ASSUME NEW n \in 1..Len(k.tokens)
             PROVE  SameToken(k, q, n)
  BY DEF SameTokens
<1>1. n \in 1..Len(p.tokens)
  OBVIOUS
<1>2. SameToken(k, p, n) /\ SameToken(p, q, n)
  BY <1>1 DEF SameTokens
<1> QED
  BY <1>2 DEF SameToken

\* Chars that are kept twice are kept.
LEMMA SameCharsFollow ==
  ASSUME NEW k, NEW p, NEW q, NEW n \in Nat, NEW m \in Nat, n <= m,
         SameChars(k, p, n), SameChars(p, q, m)
  PROVE  SameChars(k, q, n)
  BY DEF SameChars

\* The end of a path.
LEMMA PushPathFields ==
  ASSUME TokenizerAssumption, NEW k, TokenizerOK(k), NEW moves \in BOOLEAN,
         NEW p, p = PushPath(k, moves)
  PROVE  /\ TokenizerOK(p)
         /\ p.state = k.state /\ p.numberValue = k.numberValue
         /\ p.startOfCurrent = k.bufferCursor + 1 /\ p.bufferCursor = k.bufferCursor + 1
         /\ SameChars(k, p, k.bufferCursor) /\ p.buffer[k.bufferCursor] = NUL
         /\ Len(p.tokens) = Len(k.tokens) + 1 /\ SameTokens(k, p)
         /\ p.tokens[Len(k.tokens) + 1]
              = Token("Path", 0, [block |-> p.block, at |-> k.startOfCurrent])
<1>1. PICK e : e = PushChar(k, NUL, moves)
  OBVIOUS
<1>2. /\ TokenizerOK(e)
      /\ e.state = k.state /\ e.startOfCurrent = k.startOfCurrent
      /\ e.bufferCursor = k.bufferCursor + 1 /\ e.numberValue = k.numberValue
      /\ Len(e.tokens) = Len(k.tokens)
      /\ SameTokens(k, e) /\ SameChars(k, e, k.bufferCursor)
      /\ e.buffer[k.bufferCursor] = NUL
  <2>1. NUL \in Int
    BY DEF NUL
  <2> QED
    BY <1>1, <2>1, PushCharFields
<1>3. /\ k.bufferCursor \in Nat /\ Len(k.tokens) \in Nat /\ e.bufferCursor \in Nat
      /\ e.block \in Nat /\ e.startOfCurrent \in Nat /\ e.bufferCursor <= Capacity(e)
  BY <1>2, TokenizerFields
<1>4. PICK token : token = Token("Path", 0, [block |-> e.block, at |-> e.startOfCurrent])
  OBVIOUS
<1>5. token \in TokenTypes
  BY <1>3, <1>4 DEF Token, TokenTypes, Tokens, Places
<1>6. PICK t : t = PushToken(e, token)
  OBVIOUS
<1>7. /\ TokenizerOK(t)
      /\ t.state = e.state /\ t.startOfCurrent = e.startOfCurrent
      /\ t.bufferCursor = e.bufferCursor /\ t.numberValue = e.numberValue
      /\ t.buffer = e.buffer /\ t.block = e.block
      /\ Len(t.tokens) = Len(e.tokens) + 1 /\ t.tokens[Len(e.tokens) + 1] = token
      /\ SameTokens(e, t)
  <2>1. TokenizerOK(e)
    BY <1>2
  <2> QED
    BY <1>5, <1>6, <2>1, PushTokenFields
<1>8. p = [t EXCEPT !.startOfCurrent = e.bufferCursor]
  BY <1>1, <1>4, <1>6 DEF PushPath
<1>9. t \in Tokenizers /\ Len(t.tokens) <= t.tokenCapacity
  BY <1>7, TokenizerFields
<1>10. /\ p \in Tokenizers /\ p.startOfCurrent = e.bufferCursor
       /\ p.state = t.state /\ p.bufferCursor = t.bufferCursor /\ p.numberValue = t.numberValue
       /\ p.buffer = t.buffer /\ p.block = t.block /\ p.tokens = t.tokens
       /\ p.tokenCapacity = t.tokenCapacity
  BY <1>3, <1>8, <1>9 DEF Tokenizers
<1>11. Capacity(p) = Capacity(e)
  BY <1>7, <1>10 DEF Capacity
<1>12. TokenizerOK(p)
  BY <1>3, <1>7, <1>9, <1>10, <1>11 DEF TokenizerOK
<1>13. SameTokens(e, p)
  BY <1>7, <1>10 DEF SameTokens, SameToken
<1>14. SameTokens(k, p)
  BY <1>2, <1>3, <1>13, SameTokensFollow
<1>15. SameChars(k, p, k.bufferCursor)
  BY <1>2, <1>7, <1>10 DEF SameChars
<1>16. p.tokens[Len(k.tokens) + 1]
         = Token("Path", 0, [block |-> p.block, at |-> k.startOfCurrent])
  BY <1>2, <1>4, <1>7, <1>10
<1> QED
  BY <1>2, <1>7, <1>10, <1>12, <1>14, <1>15, <1>16

\* Setting the state changes nothing else.
LEMMA SetState ==
  ASSUME NEW k, TokenizerOK(k), NEW to \in States \cup {Crashed},
         NEW p, p = [k EXCEPT !.state = to]
  PROVE  /\ TokenizerOK(p) /\ p.state = to
         /\ p.startOfCurrent = k.startOfCurrent /\ p.bufferCursor = k.bufferCursor
         /\ p.numberValue = k.numberValue /\ p.buffer = k.buffer /\ p.block = k.block
         /\ p.tokens = k.tokens
<1>1. k \in Tokenizers
  BY TokenizerFields
<1>2. /\ p \in Tokenizers /\ p.state = to
      /\ p.startOfCurrent = k.startOfCurrent /\ p.bufferCursor = k.bufferCursor
      /\ p.numberValue = k.numberValue /\ p.buffer = k.buffer /\ p.block = k.block
      /\ p.tokens = k.tokens /\ p.tokenCapacity = k.tokenCapacity
  BY <1>1 DEF Tokenizers
<1> QED
  BY <1>2 DEF TokenizerOK, Capacity

\* The token of an action that is none, or is one that is not in the buffer.
Plain(k, id) == Token(id, IF id = "Size" THEN k.numberValue ELSE 0, NoPlace)

\* The switch of tok_process: nothing, a path, or a token without one.
LEMMA TakeTokenCases ==
  ASSUME GrammarAssumption, NEW k, NEW id \in Tokens, NEW moves
  PROVE  /\ id = Unknown => TakeToken(k, id, moves) = k
         /\ id = "Path" => TakeToken(k, id, moves) = PushPath(k, moves)
         /\ id \notin {Unknown, "Path"} =>
              TakeToken(k, id, moves) = PushToken(k, Plain(k, id))
<1>1. Unknown = "Unknown" /\ Unknown # "Path" /\ Unknown # "Size" /\ "Path" # "Size"
  BY DEF Unknown
<1>2. \A i \in Keywords : i # Unknown /\ i # "Path" /\ i # "Size"
  BY <1>1, WordFacts
<1>3. CASE id = Unknown
  BY <1>1, <1>2, <1>3 DEF TakeToken
<1>4. CASE id = "Path"
  BY <1>1, <1>2, <1>4 DEF TakeToken
<1>5. CASE id = "Size"
  <2>1. Plain(k, id) = Token("Size", k.numberValue, NoPlace)
    BY <1>5 DEF Plain
  <2> QED
    BY <1>1, <1>2, <1>5, <2>1 DEF TakeToken
<1>6. CASE id \in Keywords
  <2>1. Plain(k, id) = Token(id, 0, NoPlace)
    BY <1>2, <1>6 DEF Plain
  <2> QED
    BY <1>1, <1>2, <1>6, <2>1 DEF TakeToken
<1> QED
  BY <1>3, <1>4, <1>5, <1>6 DEF Tokens

\* A token without a path is a token.
LEMMA PlainType ==
  ASSUME TokenizerAssumption, NEW k, TokenizerOK(k), NEW id \in Tokens
  PROVE  Plain(k, id) \in TokenTypes
<1>1. k.numberValue \in Nat
  BY TokenizerFields
<1> QED
  BY <1>1 DEF Plain, Token, TokenTypes, NoPlace, Places

\* The start of a new lexeme at the same place.
LEMMA RecordingFields ==
  ASSUME TokenizerAssumption, NEW k, TokenizerOK(k), NEW reset \in BOOLEAN,
         NEW p, p = Recording(k, reset)
  PROVE  /\ TokenizerOK(p)
         /\ p.state = k.state /\ p.startOfCurrent = k.startOfCurrent
         /\ p.bufferCursor = (IF reset THEN k.startOfCurrent ELSE k.bufferCursor)
         /\ p.numberValue = (IF reset THEN 0 ELSE k.numberValue)
         /\ p.buffer = k.buffer /\ p.block = k.block /\ p.tokens = k.tokens
<1>1. CASE ~reset
  BY <1>1 DEF Recording
<1>2. CASE reset
  <2>1. /\ k \in Tokenizers /\ k.startOfCurrent \in Nat /\ k.bufferCursor \in Nat
        /\ Capacity(k) \in Nat /\ k.startOfCurrent <= k.bufferCursor
        /\ k.bufferCursor <= Capacity(k) /\ Len(k.tokens) <= k.tokenCapacity
    BY TokenizerFields, TokenizerMemory
  <2>2. p = [k EXCEPT !.bufferCursor = k.startOfCurrent, !.numberValue = 0]
    BY <1>2 DEF Recording
  <2>3. 0 \in 0..Modulus - 1
    BY DEF TokenizerAssumption
  <2>4. /\ p \in Tokenizers /\ p.bufferCursor = k.startOfCurrent /\ p.numberValue = 0
        /\ p.state = k.state /\ p.startOfCurrent = k.startOfCurrent
        /\ p.buffer = k.buffer /\ p.block = k.block /\ p.tokens = k.tokens
        /\ p.tokenCapacity = k.tokenCapacity
    BY <2>1, <2>2, <2>3 DEF Tokenizers
  <2>5. TokenizerOK(p)
    BY <2>1, <2>4 DEF TokenizerOK, Capacity
  <2> QED
    BY <1>2, <2>4, <2>5
<1> QED
  BY <1>1, <1>2

\* What numberValue wraps to.
LEMMA ModIsNumberValue ==
  ASSUME TokenizerAssumption, NEW n \in Int
  PROVE  n % Modulus \in 0..Modulus - 1
<1>1. Modulus \in Nat \ {0}
  BY DEF TokenizerAssumption
<1> QED
  BY <1>1

\* The end of a turn of tok_process: a recorded char.
Recorded(k, reset, char, moves) ==
  [PushChar(Recording(k, reset), char, moves)
     EXCEPT !.numberValue = (10 * @ + (char - 48)) % Modulus]

\* Where the char of a turn is written, and what the number becomes.
LEMMA RecordedFields ==
  ASSUME TokenizerAssumption, NEW k, TokenizerOK(k), NEW reset \in BOOLEAN, NEW char \in Int,
         NEW moves \in BOOLEAN, NEW p, p = Recorded(k, reset, char, moves),
         NEW n, n = IF reset THEN k.startOfCurrent ELSE k.bufferCursor
  PROVE  /\ TokenizerOK(p)
         /\ p.state = k.state /\ p.startOfCurrent = k.startOfCurrent
         /\ p.bufferCursor = n + 1 /\ p.buffer[n] = char /\ SameChars(k, p, n)
         /\ p.numberValue
              = (10 * (IF reset THEN 0 ELSE k.numberValue) + (char - 48)) % Modulus
         /\ Len(p.tokens) = Len(k.tokens) /\ SameTokens(k, p)
<1>1. PICK r : r = Recording(k, reset)
  OBVIOUS
<1>2. /\ TokenizerOK(r)
      /\ r.state = k.state /\ r.startOfCurrent = k.startOfCurrent /\ r.bufferCursor = n
      /\ r.numberValue = (IF reset THEN 0 ELSE k.numberValue)
      /\ r.buffer = k.buffer /\ r.block = k.block /\ r.tokens = k.tokens
  BY <1>1, RecordingFields
<1>3. PICK t : t = PushChar(r, char, moves)
  OBVIOUS
<1>4. TokenizerOK(r)
  BY <1>2
<1>5. /\ TokenizerOK(t)
      /\ t.state = r.state /\ t.startOfCurrent = r.startOfCurrent
      /\ t.bufferCursor = r.bufferCursor + 1 /\ t.numberValue = r.numberValue
      /\ Len(t.tokens) = Len(r.tokens)
      /\ SameTokens(r, t) /\ SameChars(r, t, r.bufferCursor)
      /\ t.buffer[r.bufferCursor] = char
  BY <1>3, <1>4, PushCharFields
<1>6. PICK v : v = (10 * t.numberValue + (char - 48)) % Modulus
  OBVIOUS
<1>7. p = [t EXCEPT !.numberValue = v]
  BY <1>1, <1>3, <1>6 DEF Recorded
<1>8. v \in 0..Modulus - 1
  <2>1. t.numberValue \in 0..Modulus - 1
    BY <1>5, TokenizerFields
  <2>2. 10 * t.numberValue + (char - 48) \in Int
    BY <2>1
  <2> QED
    BY <1>6, <2>2, ModIsNumberValue
<1>9. t \in Tokenizers
  BY <1>5, TokenizerFields
<1>10. /\ p \in Tokenizers /\ p.numberValue = v
       /\ p.state = t.state /\ p.startOfCurrent = t.startOfCurrent
       /\ p.bufferCursor = t.bufferCursor /\ p.tokenCapacity = t.tokenCapacity
       /\ p.buffer = t.buffer /\ p.block = t.block /\ p.tokens = t.tokens
  BY <1>7, <1>8, <1>9 DEF Tokenizers
<1>11. TokenizerOK(p)
  BY <1>5, <1>10 DEF TokenizerOK, Capacity
<1>12. SameTokens(k, p)
  BY <1>2, <1>5, <1>10 DEF SameTokens, SameToken
<1>13. SameChars(k, p, n)
  BY <1>2, <1>5, <1>10 DEF SameChars
<1>14. v = (10 * (IF reset THEN 0 ELSE k.numberValue) + (char - 48)) % Modulus
  BY <1>2, <1>5, <1>6
<1> QED
  BY <1>2, <1>5, <1>10, <1>11, <1>12, <1>13, <1>14

\* A turn of tok_process whose action completes no token.
LEMMA ActOnly ==
  ASSUME GrammarAssumption, TokenizerAssumption, NEW k, TokenizerOK(k), NEW action \in Moves,
         NEW char \in Int, NEW moves \in BOOLEAN, action.token = Unknown,
         NEW p, p = Act(k, action, char, moves),
         NEW n, n = IF action.reset THEN k.startOfCurrent ELSE k.bufferCursor
  PROVE  /\ TokenizerOK(p)
         /\ p.state = action.to /\ p.startOfCurrent = k.startOfCurrent
         /\ p.bufferCursor = n + 1 /\ p.buffer[n] = char /\ SameChars(k, p, n)
         /\ p.numberValue
              = (10 * (IF action.reset THEN 0 ELSE k.numberValue) + (char - 48)) % Modulus
         /\ Len(p.tokens) = Len(k.tokens) /\ SameTokens(k, p)
<1>1. action.to \in States /\ action.reset \in BOOLEAN /\ action.token \in Tokens
  BY DEF Moves
<1>2. PICK s : s = [k EXCEPT !.state = action.to]
  OBVIOUS
<1>3. /\ TokenizerOK(s) /\ s.state = action.to
      /\ s.startOfCurrent = k.startOfCurrent /\ s.bufferCursor = k.bufferCursor
      /\ s.numberValue = k.numberValue /\ s.buffer = k.buffer /\ s.block = k.block
      /\ s.tokens = k.tokens
  BY <1>1, <1>2, SetState
<1>4. TokenizerOK(s)
  BY <1>3
<1>5. p = Recorded(s, action.reset, char, moves)
  <2>1. TakeToken(s, action.token, moves) = s
    BY <1>1, TakeTokenCases
  <2> QED
    BY <1>2, <2>1 DEF Act, Recorded
<1>6. n = IF action.reset THEN s.startOfCurrent ELSE s.bufferCursor
  BY <1>3
<1>7. /\ TokenizerOK(p)
      /\ p.state = s.state /\ p.startOfCurrent = s.startOfCurrent
      /\ p.bufferCursor = n + 1 /\ p.buffer[n] = char /\ SameChars(s, p, n)
      /\ p.numberValue
           = (10 * (IF action.reset THEN 0 ELSE s.numberValue) + (char - 48)) % Modulus
      /\ Len(p.tokens) = Len(s.tokens) /\ SameTokens(s, p)
  BY <1>1, <1>4, <1>5, <1>6, RecordedFields
<1>8. SameTokens(k, p) /\ SameChars(k, p, n)
  BY <1>3, <1>7 DEF SameTokens, SameToken, SameChars
<1> QED
  BY <1>3, <1>7, <1>8

\* A turn of tok_process whose action completes a token that is not in the buffer.
LEMMA ActToken ==
  ASSUME GrammarAssumption, TokenizerAssumption, NEW k, TokenizerOK(k), NEW action \in Moves,
         NEW char \in Int, NEW moves \in BOOLEAN, action.token \notin {Unknown, "Path"},
         NEW p, p = Act(k, action, char, moves)
  PROVE  /\ TokenizerOK(p)
         /\ p.state = action.to /\ p.startOfCurrent = k.startOfCurrent
         /\ SameChars(k, p, k.startOfCurrent)
         /\ Len(p.tokens) = Len(k.tokens) + 1 /\ SameTokens(k, p)
         /\ p.tokens[Len(k.tokens) + 1].id = action.token
         /\ p.tokens[Len(k.tokens) + 1].size
              = IF action.token = "Size" THEN k.numberValue ELSE 0
<1>1. action.to \in States /\ action.reset \in BOOLEAN /\ action.token \in Tokens
  BY DEF Moves
<1>2. PICK s : s = [k EXCEPT !.state = action.to]
  OBVIOUS
<1>3. /\ TokenizerOK(s) /\ s.state = action.to
      /\ s.startOfCurrent = k.startOfCurrent /\ s.bufferCursor = k.bufferCursor
      /\ s.numberValue = k.numberValue /\ s.buffer = k.buffer /\ s.block = k.block
      /\ s.tokens = k.tokens
  BY <1>1, <1>2, SetState
<1>4. TokenizerOK(s)
  BY <1>3
<1>5. PICK token \in TokenTypes : token = Plain(s, action.token)
  BY <1>1, <1>4, PlainType
<1>6. PICK t : t = PushToken(s, token)
  OBVIOUS
<1>7. /\ TokenizerOK(t)
      /\ t.state = s.state /\ t.startOfCurrent = s.startOfCurrent
      /\ t.bufferCursor = s.bufferCursor /\ t.numberValue = s.numberValue
      /\ t.buffer = s.buffer /\ t.block = s.block
      /\ Len(t.tokens) = Len(s.tokens) + 1 /\ t.tokens[Len(s.tokens) + 1] = token
      /\ SameTokens(s, t)
  BY SMTT(20), <1>4, <1>6, PushTokenFields
<1>8. TokenizerOK(t)
  BY <1>7
<1>9. p = Recorded(t, action.reset, char, moves)
  <2>1. TakeToken(s, action.token, moves) = t
    BY <1>1, <1>5, <1>6, TakeTokenCases
  <2> QED
    BY <1>2, <2>1 DEF Act, Recorded
<1>10. PICK n : n = IF action.reset THEN t.startOfCurrent ELSE t.bufferCursor
  OBVIOUS
<1>11. /\ TokenizerOK(p)
       /\ p.state = t.state /\ p.startOfCurrent = t.startOfCurrent
       /\ SameChars(t, p, n)
       /\ Len(p.tokens) = Len(t.tokens) /\ SameTokens(t, p)
  BY <1>1, <1>8, <1>9, <1>10, RecordedFields
<1>12. /\ k.startOfCurrent \in Nat /\ k.bufferCursor \in Nat
       /\ k.startOfCurrent <= k.bufferCursor /\ Len(k.tokens) \in Nat
  BY TokenizerFields
<1>13. SameChars(k, p, k.startOfCurrent)
  <2>1. n \in Nat /\ k.startOfCurrent <= n
    BY <1>3, <1>7, <1>10, <1>12
  <2>2. SameChars(k, t, k.startOfCurrent)
    BY <1>3, <1>7 DEF SameChars
  <2> QED
    BY <1>11, <1>12, <2>1, <2>2, SameCharsFollow
<1>14. SameTokens(k, t)
  BY <1>3, <1>7, SameTokensAs
<1>15. SameTokens(k, p)
  BY <1>3, <1>7, <1>11, <1>12, <1>14, SameTokensFollow
<1>16. SameToken(t, p, Len(k.tokens) + 1)
  <2>1. Len(k.tokens) + 1 \in 1..Len(t.tokens)
    BY <1>3, <1>7, <1>12
  <2> QED
    BY <1>11, <2>1 DEF SameTokens
<1>17. t.tokens[Len(k.tokens) + 1] = token
  BY <1>3, <1>7
<1>18. token.id = action.token /\ token.size = IF action.token = "Size" THEN k.numberValue ELSE 0
  BY <1>3, <1>5 DEF Plain, Token
<1> QED
  BY <1>3, <1>7, <1>11, <1>13, <1>15, <1>16, <1>17, <1>18 DEF SameToken

\* A turn of tok_process whose action completes a path.
LEMMA ActPath ==
  ASSUME GrammarAssumption, TokenizerAssumption, NEW k, TokenizerOK(k), NEW action \in Moves,
         NEW char \in Int, NEW moves \in BOOLEAN, action.token = "Path",
         NEW p, p = Act(k, action, char, moves)
  PROVE  /\ TokenizerOK(p)
         /\ p.state = action.to /\ p.startOfCurrent = k.bufferCursor + 1
         /\ SameChars(k, p, k.bufferCursor) /\ p.buffer[k.bufferCursor] = NUL
         /\ Len(p.tokens) = Len(k.tokens) + 1 /\ SameTokens(k, p)
         /\ p.tokens[Len(k.tokens) + 1].id = "Path"
         /\ p.tokens[Len(k.tokens) + 1].size = 0
         /\ p.tokens[Len(k.tokens) + 1].place.block = p.block
         /\ p.tokens[Len(k.tokens) + 1].place.at = k.startOfCurrent
<1>1. action.to \in States /\ action.reset \in BOOLEAN /\ action.token \in Tokens
  BY DEF Moves
<1>2. PICK s : s = [k EXCEPT !.state = action.to]
  OBVIOUS
<1>3. /\ TokenizerOK(s) /\ s.state = action.to
      /\ s.startOfCurrent = k.startOfCurrent /\ s.bufferCursor = k.bufferCursor
      /\ s.numberValue = k.numberValue /\ s.buffer = k.buffer /\ s.block = k.block
      /\ s.tokens = k.tokens
  BY <1>1, <1>2, SetState
<1>4. TokenizerOK(s)
  BY <1>3
<1>5. PICK t : t = PushPath(s, moves)
  OBVIOUS
<1>6. /\ TokenizerOK(t)
      /\ t.state = s.state /\ t.numberValue = s.numberValue
      /\ t.startOfCurrent = s.bufferCursor + 1 /\ t.bufferCursor = s.bufferCursor + 1
      /\ SameChars(s, t, s.bufferCursor) /\ t.buffer[s.bufferCursor] = NUL
      /\ Len(t.tokens) = Len(s.tokens) + 1 /\ SameTokens(s, t)
      /\ t.tokens[Len(s.tokens) + 1]
           = Token("Path", 0, [block |-> t.block, at |-> s.startOfCurrent])
  BY <1>4, <1>5, PushPathFields
<1>7. TokenizerOK(t)
  BY <1>6
<1>8. p = Recorded(t, action.reset, char, moves)
  <2>1. TakeToken(s, action.token, moves) = t
    BY <1>1, <1>5, TakeTokenCases
  <2> QED
    BY <1>2, <2>1 DEF Act, Recorded
<1>9. PICK n : n = IF action.reset THEN t.startOfCurrent ELSE t.bufferCursor
  OBVIOUS
<1>10. /\ TokenizerOK(p)
       /\ p.state = t.state /\ p.startOfCurrent = t.startOfCurrent
       /\ SameChars(t, p, n)
       /\ Len(p.tokens) = Len(t.tokens) /\ SameTokens(t, p)
  BY <1>1, <1>7, <1>8, <1>9, RecordedFields
<1>11. k.startOfCurrent \in Nat /\ k.bufferCursor \in Nat /\ Len(k.tokens) \in Nat
  BY TokenizerFields
<1>12. n = k.bufferCursor + 1
  BY <1>3, <1>6, <1>9
<1>13. SameChars(k, p, k.bufferCursor) /\ p.buffer[k.bufferCursor] = NUL
  <2>1. PICK c \in Nat : c = k.bufferCursor
    BY <1>11
  <2>2. \A i \in 0..c - 1 : t.buffer[i] = k.buffer[i]
    BY <1>3, <1>6, <2>1 DEF SameChars
  <2>3. \A i \in 0..c : p.buffer[i] = t.buffer[i]
    BY SMTT(20), <1>10, <1>12, <2>1 DEF SameChars
  <2>4. t.buffer[c] = NUL
    BY <1>3, <1>6, <2>1
  <2>5. p.buffer[c] = NUL
    <3>1. c \in 0..c
      OBVIOUS
    <3> QED
      BY <2>3, <2>4, <3>1
  <2>6. \A i \in 0..c - 1 : p.buffer[i] = k.buffer[i]
    BY <2>2, <2>3
  <2> QED
    BY <2>1, <2>5, <2>6 DEF SameChars
<1>14. SameTokens(k, t)
  BY <1>3, <1>6, SameTokensAs
<1>15. SameTokens(k, p)
  BY <1>3, <1>6, <1>10, <1>11, <1>14, SameTokensFollow
<1>16. SameToken(t, p, Len(k.tokens) + 1)
  <2>1. Len(k.tokens) + 1 \in 1..Len(t.tokens)
    BY <1>3, <1>6, <1>11
  <2> QED
    BY <1>10, <2>1 DEF SameTokens
<1>17. PICK token : token = t.tokens[Len(k.tokens) + 1]
  OBVIOUS
<1>18. /\ token.id = "Path" /\ token.size = 0 /\ token.place.block = t.block
       /\ token.place.at = k.startOfCurrent
  BY SMTT(20), <1>3, <1>6, <1>17 DEF Token
<1> QED
  BY <1>3, <1>6, <1>10, <1>13, <1>15, <1>16, <1>17, <1>18 DEF SameToken

\* tok_process keeps the tokenizer well formed.
LEMMA TakeCharOK ==
  ASSUME GrammarAssumption, TokenizerAssumption, NEW k, TokenizerOK(k), k.state \in States,
         NEW char \in Int, NEW moves \in BOOLEAN
  PROVE  TokenizerOK(TakeChar(k, char, moves))
<1>1. CASE char \notin SevenBit
  <2>1. TakeChar(k, char, moves) = [k EXCEPT !.state = Crashed]
    BY <1>1 DEF TakeChar
  <2>2. PICK to \in States \cup {Crashed} : to = Crashed
    OBVIOUS
  <2>3. PICK p : p = [k EXCEPT !.state = to]
    OBVIOUS
  <2>4. TokenizerOK(p)
    BY <2>3, SetState
  <2> QED
    BY <2>1, <2>2, <2>3, <2>4
<1>2. CASE char \in SevenBit
  <2>1. PICK action \in Moves : action = Action[k.state][char]
    BY <1>2, ActionIsMove
  <2>2. TakeChar(k, char, moves) = Act(k, action, char, moves)
    BY <1>2, <2>1 DEF TakeChar
  <2>3. PICK p : p = Act(k, action, char, moves)
    OBVIOUS
  <2>4. CASE action.token = Unknown
    <3>1. PICK n : n = IF action.reset THEN k.startOfCurrent ELSE k.bufferCursor
      OBVIOUS
    <3>2. TokenizerOK(p)
      BY <2>3, <2>4, <3>1, ActOnly
    <3> QED
      BY <2>2, <2>3, <3>2
  <2>5. CASE action.token = "Path"
    <3>1. TokenizerOK(p)
      BY <2>3, <2>5, ActPath
    <3> QED
      BY <2>2, <2>3, <3>1
  <2>6. CASE action.token \notin {Unknown, "Path"}
    <3>1. TokenizerOK(p)
      BY <2>3, <2>6, ActToken
    <3> QED
      BY <2>2, <2>3, <3>1
  <2> QED
    BY <2>4, <2>5, <2>6
<1> QED
  BY <1>1, <1>2

\* What arrives.
Texts == Seq(Int)

\* A turn of the loop of tok_process keeps the tokenizer well formed.
LEMMA TurnOK ==
  ASSUME GrammarAssumption, TokenizerAssumption, NEW p, TokenizerOK(p.tok), p.i \in Nat,
         NEW char \in Int, NEW moves \in BOOLEAN
  PROVE  /\ TokenizerOK(Turn(p, char, moves).tok)
         /\ Turn(p, char, moves).i \in {p.i, p.i + 1}
<1>1. CASE Over(p.tok)
  BY <1>1 DEF Turn
<1>2. CASE ~Over(p.tok)
  <2>1. p.tok.state \in States
    BY <1>2, TokenizerFields DEF Over
  <2>2. TokenizerOK(TakeChar(p.tok, char, moves))
    BY <2>1, TakeCharOK
  <2> QED
    BY <1>2, <2>2 DEF Turn
<1> QED
  BY <1>1, <1>2

\* The turns of the loop of tok_process.
AreTurns(g, k, text, moves) ==
  /\ g[0] = [tok |-> k, i |-> 0]
  /\ \A n \in 1..Len(text) : g[n] = Turn(g[n - 1], text[n], moves)

\* tok_process is its turns, one after another.
LEMMA ProcessTurns ==
  ASSUME NEW k, TokenizerOK(k),
         NEW text \in Texts, NEW moves \in BOOLEAN
  PROVE  \E g : AreTurns(g, k, text, moves) /\ Process(k, text, moves) = Outcome(g[Len(text)])
<1> DEFINE A == {p \in [tok : Tokenizers, i : Nat] : TokenizerOK(p.tok)}
           a == [tok |-> k, i |-> 0]
           step == [n \in 1..Len(text) |-> [p \in A |-> Turn(p, text[n], moves)]]
<1>1. Len(text) \in Nat /\ \A n \in 1..Len(text) : text[n] \in Int
  BY LenProperties, ElementOfSeq DEF Texts
<1>2. a \in A
  <2>1. k \in Tokenizers
    BY TokenizerFields
  <2> QED
    BY <2>1
<1>3. ASSUME NEW n \in 1..Len(text), NEW p \in A
      PROVE  Turn(p, text[n], moves) \in A
  <2>1. TokenizerOK(p.tok) /\ p.i \in Nat /\ text[n] \in Int
    BY <1>1
  <2>2. PICK q : q = Turn(p, text[n], moves)
    OBVIOUS
  <2>3. TokenizerOK(q.tok) /\ q.i \in {p.i, p.i + 1}
    BY <2>1, <2>2, TurnOK, GrammarAssumption, TokenizerAssumption
  <2>4. q.tok \in Tokenizers /\ q.i \in Nat
    BY <2>1, <2>3, TokenizerFields
  <2>5. q = [tok |-> q.tok, i |-> q.i]
    BY <2>2 DEF Turn
  <2> QED
    BY <2>2, <2>3, <2>4, <2>5
<1>4. step \in [1..Len(text) -> [A -> A]]
  <2> HIDE DEF A
  <2> QED
    BY <1>3
<1>5. PICK f \in [0..Len(text) -> A] :
        f[0] = a /\ \A n \in 1..Len(text) : f[n] = step[n][f[n - 1]]
  <2>1. PICK D : D = A
    OBVIOUS
  <2>2. PICK N \in Nat : N = Len(text)
    BY <1>1
  <2>3. PICK st : st = step
    OBVIOUS
  <2>4. PICK b : b = a
    OBVIOUS
  <2> HIDE DEF A, a, step
  <2>5. b \in D /\ st \in [1..N -> [D -> D]]
    BY <1>2, <1>4, <2>1, <2>2, <2>3, <2>4
  <2>6. \E f \in [0..N -> D] : f[0] = b /\ \A n \in 1..N : f[n] = st[n][f[n - 1]]
    BY <2>5, Recursion
  <2> QED
    BY <2>1, <2>2, <2>3, <2>4, <2>6
<1>6. \A n \in 1..Len(text) : step[n][f[n - 1]] = Turn(f[n - 1], text[n], moves)
  <2> SUFFICES ASSUME NEW n \in 1..Len(text)
               PROVE  step[n][f[n - 1]] = Turn(f[n - 1], text[n], moves)
    OBVIOUS
  <2>1. n - 1 \in 0..Len(text)
    BY <1>1
  <2>2. f[n - 1] \in A
    <3> HIDE DEF A
    <3> QED
      BY <2>1
  <2> HIDE DEF A
  <2> QED
    BY <2>2
<1>7. f = [n \in 0..Len(text) |->
             IF n = 0 THEN [tok |-> k, i |-> 0] ELSE Turn(f[n - 1], text[n], moves)]
  <2>1. \A n \in 0..Len(text) : n # 0 => n \in 1..Len(text)
    BY <1>1
  <2>2. PICK T : T = [n \in 0..Len(text) |->
             IF n = 0 THEN [tok |-> k, i |-> 0] ELSE Turn(f[n - 1], text[n], moves)]
    OBVIOUS
  <2>3. \A n \in 0..Len(text) : T[n] = f[n]
    <3> SUFFICES ASSUME NEW n \in 0..Len(text)
                 PROVE  T[n] = f[n]
      OBVIOUS
    <3>1. f[n] = IF n = 0 THEN a ELSE step[n][f[n - 1]]
      <4> HIDE DEF A, a, step
      <4> QED
        BY <1>5, <2>1
    <3>2. T[n] = IF n = 0 THEN [tok |-> k, i |-> 0] ELSE Turn(f[n - 1], text[n], moves)
      BY <2>2
    <3>3. n # 0 => step[n][f[n - 1]] = Turn(f[n - 1], text[n], moves)
      <4> HIDE DEF A, a, step
      <4> QED
        BY <1>6, <2>1
    <3> HIDE DEF step
    <3> QED
      BY <3>1, <3>2, <3>3
  <2>4. DOMAIN T = 0..Len(text) /\ DOMAIN f = 0..Len(text)
    <3> HIDE DEF A
    <3> QED
      BY <2>2
  <2>5. T = [n \in 0..Len(text) |-> T[n]] /\ f = [n \in 0..Len(text) |-> f[n]]
    <3> HIDE DEF A
    <3> QED
      BY <2>2
  <2>6. T = f
    <3> HIDE DEF A, a, step
    <3> QED
      BY <2>3, <2>5
  <2> QED
    BY <2>2, <2>6
<1> DEFINE turns[n \in 0..Len(text)] ==
             IF n = 0 THEN [tok |-> k, i |-> 0] ELSE Turn(turns[n - 1], text[n], moves)
<1>8. turns = [n \in 0..Len(text) |->
                 IF n = 0 THEN [tok |-> k, i |-> 0] ELSE Turn(turns[n - 1], text[n], moves)]
  BY <1>7
<1>9. Process(k, text, moves) = Outcome(turns[Len(text)])
  BY DEF Process
<1> HIDE DEF turns
<1>10. AreTurns(turns, k, text, moves)
  <2>1. 0 \in 0..Len(text) /\ \A n \in 1..Len(text) : n \in 0..Len(text) /\ n # 0
    BY <1>1
  <2> QED
    BY <1>8, <2>1 DEF AreTurns
<1> QED
  BY <1>9, <1>10

\* Every turn leaves a tokenizer, and counts at most one char.
LEMMA TurnsOK ==
  ASSUME NEW k, TokenizerOK(k),
         NEW text \in Texts, NEW moves \in BOOLEAN, NEW g, AreTurns(g, k, text, moves)
  PROVE  \A n \in 0..Len(text) : TokenizerOK(g[n].tok) /\ g[n].i \in 0..n
<1> DEFINE S == {n \in Nat : n <= Len(text) => TokenizerOK(g[n].tok) /\ g[n].i \in 0..n}
<1>1. Len(text) \in Nat /\ \A n \in 1..Len(text) : text[n] \in Int
  BY LenProperties, ElementOfSeq DEF Texts
<1>2. 0 \in S
  BY DEF AreTurns
<1>3. ASSUME NEW n \in Nat, n \in S
      PROVE  n + 1 \in S
  <2> SUFFICES ASSUME n + 1 <= Len(text)
               PROVE  TokenizerOK(g[n + 1].tok) /\ g[n + 1].i \in 0..n + 1
    OBVIOUS
  <2>1. TokenizerOK(g[n].tok) /\ g[n].i \in 0..n
    BY <1>1, <1>3
  <2>2. n + 1 \in 1..Len(text) /\ n + 1 - 1 = n
    BY <1>1
  <2>3. g[n + 1] = Turn(g[n], text[n + 1], moves)
    BY <2>2 DEF AreTurns
  <2>4. text[n + 1] \in Int /\ g[n].i \in Nat
    BY <1>1, <2>1, <2>2
  <2>5. PICK p : p = g[n]
    OBVIOUS
  <2>6. PICK char \in Int : char = text[n + 1]
    BY <2>4
  <2>7. TokenizerOK(p.tok) /\ p.i \in Nat
    BY <2>1, <2>4, <2>5
  <2>8. /\ TokenizerOK(Turn(p, char, moves).tok)
        /\ Turn(p, char, moves).i \in {p.i, p.i + 1}
    BY <2>7, TurnOK, GrammarAssumption, TokenizerAssumption
  <2>9. PICK q : q = Turn(p, char, moves)
    OBVIOUS
  <2>10. q = g[n + 1]
    BY <2>3, <2>5, <2>6, <2>9
  <2>11. p.i \in 0..n /\ q.i \in {p.i, p.i + 1}
    BY <2>1, <2>5, <2>8, <2>9
  <2>12. q.i \in 0..n + 1
    <3>1. PICK i \in 0..n : i = p.i
      BY <2>11
    <3>2. q.i = i \/ q.i = i + 1
      BY <2>11, <3>1
    <3> QED
      BY <3>2
  <2> QED
    BY <2>8, <2>9, <2>10, <2>12
<1>4. Nat \subseteq S
  <2> HIDE DEF S
  <2> QED
    BY <1>2, <1>3, Inductive
<1> QED
  BY <1>1, <1>4

\* tok_process keeps the tokenizer well formed, and returns how many chars it took or -1.
LEMMA ProcessOK ==
  ASSUME NEW k, TokenizerOK(k),
         NEW text \in Texts, NEW moves \in BOOLEAN
  PROVE  /\ TokenizerOK(Process(k, text, moves).tok)
         /\ Process(k, text, moves).ret \in -1..Len(text)
<1>1. PICK g : AreTurns(g, k, text, moves) /\ Process(k, text, moves) = Outcome(g[Len(text)])
  BY ProcessTurns
<1>2. Len(text) \in Nat
  BY LenProperties DEF Texts
<1>3. TokenizerOK(g[Len(text)].tok) /\ g[Len(text)].i \in 0..Len(text)
  BY <1>1, <1>2, TurnsOK
<1> QED
  BY <1>1, <1>2, <1>3 DEF Outcome

-----------------------------------------------------------------------------
(* The loops: types and memory.                                              *)

TypeInv ==
  /\ TokenizerOK(tok)
  /\ chunk \in Pieces \cup {<<>>} /\ received \in Texts /\ processed \in -1..Len(received)
  /\ header \in Texts /\ Len(header) <= HeaderSize
  /\ socket \in {"open", "closed", "failed"} /\ headers \in 1..MaxHeaders

\* tok_create
LEMMA NewTokenizerOK == TokenizerOK(NewTokenizer)
<1>1. TokenCapacity \in Nat \ {0} /\ BufferCapacity \in Nat \ {0} /\ Modulus \in Nat \ {0}
  BY TokenizerAssumption
<1>2. PICK k : k = NewTokenizer
  OBVIOUS
<1>3. k.buffer \in Memory(BufferCapacity)
  BY <1>2 DEF NewTokenizer, Memory, Junk
<1>4. Start \in States \cup {Crashed}
  BY StatesContain, GrammarAssumption
<1>5. k.buffer \in Memories
  BY <1>1, <1>3 DEF Memories
<1>6. 0 \in 0..Modulus - 1
  BY <1>1
<1>7. PICK b \in Memories : b = k.buffer
  BY <1>5
<1>8. k = [state |-> Start, tokens |-> <<>>, tokenCapacity |-> TokenCapacity,
           buffer |-> b, block |-> 1,
           startOfCurrent |-> 0, bufferCursor |-> 0, numberValue |-> 0]
  BY <1>2, <1>7 DEF NewTokenizer
<1>9. PICK s \in States \cup {Crashed} : s = Start
  BY <1>4
<1>10. <<>> \in Seq(TokenTypes)
  OBVIOUS
<1>11. k \in Tokenizers
  BY <1>1, <1>9, <1>10, <1>6, <1>8 DEF Tokenizers
<1>12. Capacity(k) = BufferCapacity
  BY <1>1, <1>3, MemoryCapacity
<1>13. k.tokens = <<>> /\ k.tokenCapacity = TokenCapacity /\ k.startOfCurrent = 0
       /\ k.bufferCursor = 0
  BY <1>8
<1>14. TokenizerOK(k)
  BY <1>1, <1>11, <1>12, <1>13 DEF TokenizerOK
<1> QED
  BY <1>2, <1>14

\* tok_reset
LEMMA ResetOK ==
  ASSUME NEW k, TokenizerOK(k)
  PROVE  TokenizerOK(Reset(k))
<1>1. k \in Tokenizers /\ k.tokenCapacity \in Nat \ {0}
  BY TokenizerFields
<1>2. Start \in States \cup {Crashed} /\ 0 \in 0..Modulus - 1 /\ <<>> \in Seq(TokenTypes)
  BY StatesContain, GrammarAssumption, TokenizerAssumption
<1>3. PICK p : p = Reset(k)
  OBVIOUS
<1>4. p \in Tokenizers /\ p.buffer = k.buffer /\ p.tokens = <<>> /\ p.startOfCurrent = 0
      /\ p.bufferCursor = 0 /\ p.tokenCapacity = k.tokenCapacity
  BY <1>1, <1>2, <1>3 DEF Tokenizers, Reset
<1>5. Capacity(p) = Capacity(k) /\ Capacity(k) \in Nat
  BY <1>4, TokenizerMemory DEF Capacity
<1>6. TokenizerOK(p)
  BY <1>1, <1>4, <1>5 DEF TokenizerOK
<1> QED
  BY <1>3, <1>6

\* The smaller of two numbers.
LEMMA MinOfTwo ==
  ASSUME NEW a \in Nat, NEW b \in Nat
  PROVE  Min({a, b}) = IF a <= b THEN a ELSE b
<1>1. PICK T : T = {a, b}
  OBVIOUS
<1>2. T \subseteq Nat /\ T # {}
  BY <1>1
<1>3. Min(T) \in T /\ \A y \in T : Min(T) <= y
  BY <1>2, MinOfSet
<1> QED
  BY <1>1, <1>3

\* A new tokenizer is well formed.
LEMMA TypeInit == Init => TypeInv
<1> SUFFICES ASSUME Init
             PROVE  TypeInv
  OBVIOUS
<1>1. MaxHeaders \in Nat \ {0} /\ HeaderSize \in Nat
  BY ReaderAssumption
<1>2. <<>> \in Texts /\ Len(<<>>) = 0
  BY DEF Texts
<1>3. TokenizerOK(tok)
  BY NewTokenizerOK DEF Init
<1> QED
  BY <1>1, <1>2, <1>3 DEF Init, TypeInv

\* What the copy of a header holds after one more piece.
LEMMA HeaderGrows ==
  ASSUME NEW piece \in Texts, NEW n \in 1..Len(piece), NEW h \in Texts, Len(h) <= HeaderSize
  PROVE  LET m == Min({HeaderSize - Len(h), n})
         IN  /\ m \in 0..Len(piece)
             /\ m = (IF HeaderSize - Len(h) <= n THEN HeaderSize - Len(h) ELSE n)
             /\ h \o SubSeq(piece, 1, m) \in Texts
             /\ Len(h \o SubSeq(piece, 1, m)) = Len(h) + m
<1>1. HeaderSize \in Nat /\ Len(h) \in Nat /\ Len(piece) \in Nat
  BY ReaderAssumption, LenProperties DEF Texts
<1>2. PICK l \in Nat : l = Len(h)
  BY <1>1
<1>3. HeaderSize - l \in Nat
  BY <1>1, <1>2
<1>4. PICK a \in Nat : a = HeaderSize - Len(h)
  BY <1>2, <1>3
<1>5. PICK m : m = Min({a, n})
  OBVIOUS
<1>6. m = IF a <= n THEN a ELSE n
  BY <1>1, <1>5, MinOfTwo
<1>7. m \in 0..Len(piece)
  BY <1>1, <1>6
<1>8. SubSeq(piece, 1, m) \in Seq(Int) /\ Len(SubSeq(piece, 1, m)) = m
  BY <1>7, PrefixOf DEF Texts
<1>9. h \o SubSeq(piece, 1, m) \in Seq(Int)
      /\ Len(h \o SubSeq(piece, 1, m)) = Len(h) + m
  BY <1>8, ConcatProperties DEF Texts
<1> QED
  BY <1>4, <1>5, <1>6, <1>7, <1>9 DEF Texts

\* A piece that is tokenized keeps the types.
LEMMA TypeReceive ==
  ASSUME TypeInv, NEW piece \in Pieces, NEW moves \in BOOLEAN, Receive(piece, moves)
  PROVE  TypeInv'
<1>1. piece \in Texts /\ Len(piece) \in Nat /\ Len(received) \in Nat
  BY ReaderAssumption, LenProperties DEF Texts, TypeInv
<1>2. PICK p : p = Process(tok, piece, moves)
  OBVIOUS
<1>3. TokenizerOK(tok)
  BY DEF TypeInv
<1>4. TokenizerOK(p.tok) /\ p.ret \in -1..Len(piece)
  BY <1>1, <1>2, <1>3, ProcessOK
<1>5. tok' = p.tok /\ processed' = p.ret /\ chunk' = piece /\ received' = received \o piece
      /\ socket' = socket /\ headers' = headers
      /\ header' = IF p.ret > 0
                   THEN header \o SubSeq(piece, 1, Min({HeaderSize - Len(header), p.ret}))
                   ELSE header
  BY <1>2 DEF Receive
<1>6. received' \in Texts /\ Len(received') = Len(received) + Len(piece)
  BY <1>1, <1>5, ConcatProperties DEF Texts, TypeInv
<1>7. header' \in Texts /\ Len(header') <= HeaderSize
  <2>1. header \in Texts /\ Len(header) <= HeaderSize /\ HeaderSize \in Nat
        /\ Len(header) \in Nat
    BY ReaderAssumption, LenProperties DEF TypeInv, Texts
  <2>2. CASE p.ret > 0
    <3>1. PICK n \in 1..Len(piece) : n = p.ret
      BY <1>1, <1>4, <2>2
    <3>2. PICK m : m = Min({HeaderSize - Len(header), n})
      OBVIOUS
    <3>3. /\ m \in 0..Len(piece)
          /\ m = (IF HeaderSize - Len(header) <= n THEN HeaderSize - Len(header) ELSE n)
          /\ header \o SubSeq(piece, 1, m) \in Texts
          /\ Len(header \o SubSeq(piece, 1, m)) = Len(header) + m
      BY <1>1, <2>1, <3>2, HeaderGrows
    <3>4. header' = header \o SubSeq(piece, 1, m)
      BY <1>5, <2>2, <3>1, <3>2
    <3> QED
      BY <1>1, <2>1, <3>3, <3>4
  <2>3. CASE ~(p.ret > 0)
    BY <1>5, <2>1, <2>3
  <2> QED
    BY <2>2, <2>3
<1>8. processed' \in -1..Len(received')
  BY <1>1, <1>4, <1>5, <1>6
<1> QED
  BY <1>4, <1>5, <1>6, <1>7, <1>8 DEF TypeInv

\* Every step keeps the types.
LEMMA TypeNext == TypeInv /\ [Next]_vars => TypeInv'
<1> SUFFICES ASSUME TypeInv, [Next]_vars
             PROVE  TypeInv'
  OBVIOUS
<1>1. ASSUME NEW piece \in Pieces, NEW moves \in BOOLEAN, Receive(piece, moves)
      PROVE  TypeInv'
  BY <1>1, TypeReceive
<1>2. ASSUME NEW how \in {"closed", "failed"}, EndOfStream(how)
      PROVE  TypeInv'
  BY <1>2 DEF EndOfStream, TypeInv
<1>3. CASE NextConnection
  <2>1. TokenizerOK(tok')
    BY <1>3, ResetOK DEF NextConnection, TypeInv
  <2>2. <<>> \in Texts /\ Len(<<>>) = 0 /\ HeaderSize \in Nat /\ MaxHeaders \in Nat
    BY ReaderAssumption DEF Texts
  <2>3. chunk' = <<>> /\ processed' = 0 /\ header' = <<>> /\ socket' = "open"
        /\ received' = <<>> /\ headers' = headers + 1 /\ headers < MaxHeaders
    BY <1>3 DEF NextConnection
  <2> QED
    BY <2>1, <2>2, <2>3 DEF TypeInv
<1>4. CASE UNCHANGED vars
  BY <1>4 DEF vars, TypeInv
<1> QED
  BY <1>1, <1>2, <1>3, <1>4 DEF Next

\* gf-student-gflib.c, gfserver.c, gfclient.c: in every reader of headers, whatever arrives,
\* the tokenizer's memory holds what it has been given, and the copy of the header fits.
THEOREM ReaderTypes == Spec => []TypeOK
<1>1. TypeInv => TypeOK
  <2> SUFFICES ASSUME TypeInv
               PROVE  TypeOK
    OBVIOUS
  <2>1. TokenizerOK(tok)
    BY DEF TypeInv
  <2> QED
    BY <2>1, TokenizerFields, TokenizerMemory DEF TypeInv, TypeOK
<1> QED
  BY <1>1, TypeInit, TypeNext, PTL DEF Spec

\* compress_graph.cpp:91-103, write_table.cpp:112-123: the state of the tokenizer is always one
\* whose row of the table is the graph's.
THEOREM ReaderTable == Spec => []TableIsGraph
<1>1. TypeInv => TableIsGraph
  BY TokenizerFields, TableFaithful DEF TypeInv, TableIsGraph
<1> QED
  BY <1>1, TypeInit, TypeNext, PTL DEF Spec

-----------------------------------------------------------------------------
(* Texts.                                                                    *)

\* Induction over texts.
LEMMA TextInduction ==
  ASSUME NEW S, <<>> \in S, \A t \in Texts : \A c \in Int : t \in S => Append(t, c) \in S
  PROVE  Texts \subseteq S
<1> DEFINE L == {n \in Nat : \A t \in Texts : Len(t) = n => t \in S}
<1>1. 0 \in L
  <2>1. \A t \in Texts : Len(t) = 0 => t = <<>>
    BY EmptySeq DEF Texts
  <2> QED
    BY <2>1
<1>2. ASSUME NEW n \in Nat, n \in L
      PROVE  n + 1 \in L
  <2> SUFFICES ASSUME NEW t \in Texts, Len(t) = n + 1
               PROVE  t \in S
    OBVIOUS
  <2>1. t \in Seq(Int) /\ t # <<>>
    BY LenProperties DEF Texts
  <2>2. /\ Front(t) \in Texts /\ Last(t) \in Int /\ Len(Front(t)) = Len(t) - 1
        /\ t = Append(Front(t), Last(t))
    BY <2>1, AppendOfFrontLast DEF Texts
  <2>3. Front(t) \in S
    BY <1>2, <2>2
  <2> QED
    BY <2>2, <2>3
<1>3. Nat \subseteq L
  <2> HIDE DEF L
  <2> QED
    BY <1>1, <1>2, Inductive
<1>4. \A t \in Texts : Len(t) \in Nat
  BY LenProperties DEF Texts
<1> QED
  BY <1>3, <1>4

\* A text and one more char.
LEMMA TextAppend ==
  ASSUME NEW t \in Texts, NEW c \in Int
  PROVE  /\ Append(t, c) \in Texts /\ Len(t) \in Nat /\ Len(Append(t, c)) = Len(t) + 1
         /\ Append(t, c) # <<>> /\ Append(t, c)[Len(t) + 1] = c
         /\ \A i \in 1..Len(t) : Append(t, c)[i] = t[i] /\ t[i] \in Int
         /\ Front(Append(t, c)) = t /\ Last(Append(t, c)) = c
         /\ DOMAIN t = 1..Len(t) /\ DOMAIN Append(t, c) = 1..Len(t) + 1
<1>1. t \in Seq(Int)
  BY DEF Texts
<1>2. /\ Append(t, c) \in Seq(Int) /\ Len(Append(t, c)) = Len(t) + 1 /\ Len(t) \in Nat
      /\ \A i \in 1..Len(t) : Append(t, c)[i] = t[i]
      /\ Append(t, c)[Len(t) + 1] = c
  BY <1>1, AppendProperties, LenProperties
<1>3. \A i \in 1..Len(t) : t[i] \in Int
  BY <1>1, ElementOfSeq
<1>4. Front(Append(t, c)) = t /\ Last(Append(t, c)) = c
  BY <1>1, FrontLastOfAppend
<1>5. DOMAIN t = 1..Len(t) /\ DOMAIN Append(t, c) = 1..Len(t) + 1
  BY <1>1, <1>2, LenProperties
<1>6. Append(t, c) # <<>>
  BY <1>2
<1> QED
  BY <1>2, <1>3, <1>4, <1>5, <1>6 DEF Texts

\* What ends a header.
Stops == {NUL, Terminator[1]}

\* No space ends a header, and the terminator begins with no null.
LEMMA StopsFacts == Stops \subseteq 0..31 /\ Space \notin Stops /\ Terminator[1] # NUL
<1>1. PICK first \in EndChars : first = Terminator[1]
  BY TerminatorFacts, GrammarAssumption
<1>2. first \in 1..31
  BY DEF EndChars
<1> QED
  BY <1>1, <1>2 DEF Stops, NUL, Space

\* The length of a lead: no char of it ends a header, and the next one does.
LEMMA LeadLengthFacts ==
  ASSUME NEW t \in Texts
  PROVE  /\ LeadLength(t) \in 0..Len(t)
         /\ \A i \in 1..LeadLength(t) : t[i] \notin Stops
         /\ LeadLength(t) < Len(t) => t[LeadLength(t) + 1] \in Stops
<1>1. Len(t) \in Nat /\ DOMAIN t = 1..Len(t)
  BY LenProperties DEF Texts
<1>2. PICK ends : ends = {i \in DOMAIN t : t[i] \in Stops}
  OBVIOUS
<1>3. LeadLength(t) = IF ends = {} THEN Len(t) ELSE Min(ends) - 1
  BY <1>2 DEF LeadLength, Stops
<1>4. CASE ends = {}
  BY <1>1, <1>2, <1>3, <1>4
<1>5. CASE ends # {}
  <2>1. ends \subseteq Nat
    BY <1>1, <1>2
  <2>2. Min(ends) \in ends /\ \A y \in ends : Min(ends) <= y
    BY <1>5, <2>1, MinOfSet
  <2>3. PICK m \in 1..Len(t) : m = Min(ends)
    BY <1>1, <1>2, <2>2
  <2>4. LeadLength(t) = m - 1
    BY <1>3, <1>5, <2>3
  <2>5. t[m] \in Stops
    BY <1>2, <2>2, <2>3
  <2>6. \A i \in 1..m - 1 : t[i] \notin Stops
    <3> SUFFICES ASSUME NEW i \in 1..m - 1, t[i] \in Stops
                 PROVE  FALSE
      OBVIOUS
    <3>1. i \in ends
      BY <1>1, <1>2
    <3> QED
      BY <1>1, <2>2, <2>3, <3>1
  <2> QED
    BY <1>1, <2>4, <2>5, <2>6
<1> QED
  BY <1>4, <1>5

\* There is one place where the lead ends.
LEMMA LeadLengthIs ==
  ASSUME NEW t \in Texts, NEW n \in 0..Len(t), \A i \in 1..n : t[i] \notin Stops,
         n < Len(t) => t[n + 1] \in Stops
  PROVE  LeadLength(t) = n
<1>1. PICK l : l = LeadLength(t)
  OBVIOUS
<1>2. Len(t) \in Nat
  BY LenProperties DEF Texts
<1>3. /\ l \in 0..Len(t) /\ \A i \in 1..l : t[i] \notin Stops
      /\ l < Len(t) => t[l + 1] \in Stops
  BY <1>1, LeadLengthFacts
<1>4. ~(l < n)
  <2> SUFFICES ASSUME l < n
               PROVE  FALSE
    OBVIOUS
  <2>1. l + 1 \in 1..n /\ l < Len(t)
    BY <1>2, <1>3
  <2> QED
    BY <1>3, <2>1
<1>5. ~(n < l)
  <2> SUFFICES ASSUME n < l
               PROVE  FALSE
    OBVIOUS
  <2>1. n + 1 \in 1..l /\ n < Len(t)
    BY <1>2, <1>3
  <2> QED
    BY <1>3, <2>1
<1> QED
  BY <1>1, <1>2, <1>3, <1>4, <1>5

\* A text is its lead and its rest.
LEMMA LeadRest ==
  ASSUME NEW t \in Texts
  PROVE  /\ Lead(t) \in Texts /\ Rest(t) \in Texts /\ Len(Lead(t)) = LeadLength(t)
         /\ Len(Rest(t)) = Len(t) - LeadLength(t)
         /\ \A i \in 1..LeadLength(t) : Lead(t)[i] = t[i]
         /\ \A i \in 1..Len(t) - LeadLength(t) : Rest(t)[i] = t[LeadLength(t) + i]
         /\ Rest(t) = <<>> <=> LeadLength(t) = Len(t)
         /\ Rest(t) = <<>> => Lead(t) = t
         /\ Rest(t) # <<>> => Rest(t)[1] \in Stops
<1>1. t \in Seq(Int) /\ Len(t) \in Nat /\ \A i \in 1..Len(t) : t[i] \in Int
  BY LenProperties, ElementOfSeq DEF Texts
<1>2. PICK n \in 0..Len(t) : n = LeadLength(t)
  BY LeadLengthFacts
<1>3. Lead(t) \in Seq(Int) /\ Len(Lead(t)) = n /\ \A i \in 1..n : Lead(t)[i] = t[i]
  BY <1>1, <1>2, PrefixOf DEF Lead
<1>4. /\ Rest(t) \in Seq(Int) /\ Len(Rest(t)) = Len(t) - n
      /\ \A i \in 1..Len(t) - n : Rest(t)[i] = t[n + i]
  <2>1. PICK m \in Int : m = n + 1
    BY <1>1
  <2>2. PICK l \in Int : l = Len(t)
    BY <1>1
  <2>3. \A i \in m..l : t[i] \in Int
    BY <1>1, <2>1, <2>2
  <2>4. /\ SubSeq(t, m, l) \in Seq(Int)
        /\ Len(SubSeq(t, m, l)) = IF m <= l THEN l - m + 1 ELSE 0
        /\ \A i \in 1..l - m + 1 : SubSeq(t, m, l)[i] = t[m + i - 1]
    BY <2>3, SubSeqProperties
  <2>5. Rest(t) = SubSeq(t, m, l)
    BY <1>2, <2>1, <2>2 DEF Rest
  <2>6. Len(SubSeq(t, m, l)) = l - n
    BY <1>1, <2>1, <2>2, <2>4
  <2>7. ASSUME NEW i \in 1..l - n
        PROVE  SubSeq(t, m, l)[i] = t[n + i]
    <3>1. i \in 1..l - m + 1 /\ m + i - 1 = n + i
      BY <2>1, <2>2
    <3> QED
      BY <2>4, <3>1
  <2> QED
    BY <2>2, <2>4, <2>5, <2>6, <2>7
<1>5. Rest(t) = <<>> <=> n = Len(t)
  BY <1>1, <1>4, EmptySeq
<1>6. n = Len(t) => Lead(t) = t
  BY <1>1, <1>2, PrefixIsAll DEF Lead
<1>7. n # Len(t) => Rest(t)[1] \in Stops
  <2> SUFFICES ASSUME n # Len(t)
               PROVE  Rest(t)[1] \in Stops
    OBVIOUS
  <2>1. n < Len(t) /\ 1 \in 1..Len(t) - n
    BY <1>1
  <2> QED
    BY <1>2, <1>4, <2>1, LeadLengthFacts
<1> QED
  BY <1>2, <1>3, <1>4, <1>5, <1>6, <1>7 DEF Texts

\* The lead and the rest of no text.
LEMMA LeadRestEmpty == Lead(<<>>) = <<>> /\ Rest(<<>>) = <<>>
<1>1. <<>> \in Texts /\ Len(<<>>) = 0
  BY DEF Texts
<1>2. LeadLength(<<>>) = 0
  BY <1>1, LeadLengthFacts
<1> QED
  BY <1>1, <1>2, LeadRest

\* A lead goes on with a char that does not end it,
LEMMA LeadGoesOn ==
  ASSUME NEW t \in Texts, NEW c \in Int, Rest(t) = <<>>, c \notin Stops
  PROVE  Lead(Append(t, c)) = Append(t, c) /\ Rest(Append(t, c)) = <<>>
<1>1. PICK u : u = Append(t, c)
  OBVIOUS
<1>2. /\ u \in Texts /\ Len(u) = Len(t) + 1 /\ Len(t) \in Nat /\ u[Len(t) + 1] = c
      /\ \A i \in 1..Len(t) : u[i] = t[i]
  BY <1>1, TextAppend
<1>3. \A i \in 1..Len(t) : t[i] \notin Stops
  BY LeadRest, LeadLengthFacts
<1>4. \A i \in 1..Len(u) : u[i] \notin Stops
  BY <1>2, <1>3
<1>5. LeadLength(u) = Len(u)
  BY <1>2, <1>4, LeadLengthIs
<1> QED
  BY <1>1, <1>2, <1>5, LeadRest

\* ends with one that does,
LEMMA LeadEnds ==
  ASSUME NEW t \in Texts, NEW c \in Int, Rest(t) = <<>>, c \in Stops
  PROVE  Lead(Append(t, c)) = t /\ Rest(Append(t, c)) = <<c>>
<1>1. PICK u : u = Append(t, c)
  OBVIOUS
<1>2. /\ u \in Texts /\ Len(u) = Len(t) + 1 /\ Len(t) \in Nat /\ u[Len(t) + 1] = c
      /\ \A i \in 1..Len(t) : u[i] = t[i]
  BY <1>1, TextAppend
<1>3. \A i \in 1..Len(t) : t[i] \notin Stops
  BY LeadRest, LeadLengthFacts
<1>4. LeadLength(u) = Len(t)
  BY <1>2, <1>3, LeadLengthIs
<1>5. Lead(u) = t
  <2>1. t \in Seq(Int) /\ Len(t) \in 0..Len(t)
    BY <1>2 DEF Texts
  <2>2. SubSeq(u, 1, Len(t)) = SubSeq(t, 1, Len(t))
    BY <1>1, <2>1, PrefixOfAppend
  <2>3. SubSeq(t, 1, Len(t)) = t
    BY <2>1, PrefixIsAll
  <2> QED
    BY <1>4, <2>2, <2>3 DEF Lead
<1>6. Rest(u) = <<c>>
  <2>1. PICK l \in Nat : l = Len(t)
    BY <1>2
  <2>2. PICK r : r = Rest(u)
    OBVIOUS
  <2>3. r \in Texts /\ Len(r) = Len(u) - l /\ \A i \in 1..Len(u) - l : r[i] = u[l + i]
    <3>1. LeadLength(u) = l
      BY <1>4, <2>1
    <3> QED
      BY <1>2, <2>2, <3>1, LeadRest
  <2>4. Len(u) - l = 1
    BY <1>2, <2>1
  <2>5. Len(r) = 1 /\ r[1] = c
    BY <1>2, <2>1, <2>3, <2>4
  <2>6. r \in Seq(Int)
    BY <2>3 DEF Texts
  <2> QED
    BY <2>2, <2>5, <2>6
<1> QED
  BY <1>1, <1>5, <1>6

\* and what is behind it goes on with any.
LEMMA RestGoesOn ==
  ASSUME NEW t \in Texts, NEW c \in Int, Rest(t) # <<>>
  PROVE  Lead(Append(t, c)) = Lead(t) /\ Rest(Append(t, c)) = Append(Rest(t), c)
<1>1. PICK u : u = Append(t, c)
  OBVIOUS
<1>2. /\ u \in Texts /\ Len(u) = Len(t) + 1 /\ Len(t) \in Nat /\ u[Len(t) + 1] = c
      /\ \A i \in 1..Len(t) : u[i] = t[i]
  BY <1>1, TextAppend
<1>3. PICK n \in 0..Len(t) : n = LeadLength(t)
  BY LeadLengthFacts
<1>4. n < Len(t)
  BY <1>2, <1>3, LeadRest
<1>5. t[n + 1] \in Stops /\ \A i \in 1..n : t[i] \notin Stops
  BY <1>3, <1>4, LeadLengthFacts
<1>6. LeadLength(u) = n
  <2>1. n + 1 \in 1..Len(t) /\ n \in 0..Len(u)
    BY <1>2, <1>4
  <2>2. \A i \in 1..n : i \in 1..Len(t)
    BY <1>2
  <2>3. u[n + 1] \in Stops /\ \A i \in 1..n : u[i] \notin Stops
    BY <1>2, <1>5, <2>1, <2>2
  <2> QED
    BY <1>2, <2>1, <2>3, LeadLengthIs
<1>7. Lead(u) = Lead(t)
  <2>1. t \in Seq(Int)
    BY DEF Texts
  <2>2. SubSeq(u, 1, n) = SubSeq(t, 1, n)
    BY <1>1, <2>1, PrefixOfAppend
  <2> QED
    BY <1>3, <1>6, <2>2 DEF Lead
<1>8. Rest(u) = Append(Rest(t), c)
  <2>1. PICK l \in Nat : l = Len(t)
    BY <1>2
  <2>2. PICK r : r = Rest(t)
    OBVIOUS
  <2>3. PICK q : q = Rest(u)
    OBVIOUS
  <2>4. /\ q \in Texts /\ Len(q) = Len(u) - n
        /\ \A i \in 1..Len(u) - n : q[i] = u[n + i]
    BY <1>2, <1>6, <2>3, LeadRest
  <2>5. /\ q \in Seq(Int) /\ Len(q) = l + 1 - n
        /\ \A i \in 1..l + 1 - n : q[i] = u[n + i]
    <3>1. Len(u) = l + 1
      BY <1>2, <2>1
    <3> QED
      BY <2>4, <3>1 DEF Texts
  <2>6. r \in Texts /\ Len(r) = l - n /\ \A i \in 1..l - n : r[i] = t[n + i]
    BY <1>3, <2>1, <2>2, LeadRest
  <2>7. PICK m \in Nat : m = l - n
    BY <1>3, <2>1
  <2>8. /\ Append(r, c) \in Texts /\ Len(Append(r, c)) = l - n + 1
        /\ Append(r, c)[l - n + 1] = c /\ \A i \in 1..l - n : Append(r, c)[i] = r[i]
    <3>1. r \in Texts /\ Len(r) = m
      BY <2>6, <2>7
    <3>2. /\ Append(r, c) \in Texts /\ Len(Append(r, c)) = m + 1
          /\ Append(r, c)[m + 1] = c /\ \A i \in 1..m : Append(r, c)[i] = r[i]
      BY <3>1, TextAppend
    <3> QED
      BY <2>7, <3>2
  <2>9. ASSUME NEW i \in 1..l + 1 - n
        PROVE  q[i] = Append(r, c)[i]
    <3>1. CASE i = l - n + 1
      <4>1. n + i = Len(t) + 1
        BY <1>3, <2>1, <3>1
      <4> QED
        BY <1>2, <2>5, <2>8, <3>1, <4>1
    <3>2. CASE i # l - n + 1
      <4>1. i \in 1..l - n /\ n + i \in 1..Len(t)
        BY <1>3, <2>1, <3>2
      <4> QED
        BY <1>2, <2>5, <2>6, <2>8, <4>1
    <3> QED
      BY <3>1, <3>2
  <2>10. Append(r, c) \in Seq(Int) /\ Len(Append(r, c)) = l + 1 - n
    BY <1>3, <2>1, <2>8 DEF Texts
  <2> QED
    BY <2>3, <2>2, <2>5, <2>9, <2>10, SeqEqual
<1> QED
  BY <1>1, <1>7, <1>8

-----------------------------------------------------------------------------
(* Fields.                                                                   *)

FieldSeqs == Seq(Texts)

\* Adding a char to fields gives fields.
LEMMA AddCharType ==
  ASSUME NEW fs \in FieldSeqs, NEW before, NEW c \in Int
  PROVE  AddChar(fs, before, c) \in FieldSeqs
<1>1. fs \in Seq(Texts) /\ Len(fs) \in Nat
  BY LenProperties DEF FieldSeqs
<1>2. <<c>> \in Texts
  BY DEF Texts
<1>3. CASE c = Space
  BY <1>3 DEF AddChar
<1>4. CASE c # Space /\ before = Space
  <2>1. AddChar(fs, before, c) = Append(fs, <<c>>)
    BY <1>4 DEF AddChar
  <2> QED
    BY <1>1, <1>2, <2>1, AppendProperties DEF FieldSeqs
<1>5. CASE c # Space /\ before # Space
  <2>1. AddChar(fs, before, c) = [fs EXCEPT ![Len(fs)] = Append(fs[Len(fs)], c)]
    BY <1>5 DEF AddChar
  <2>2. PICK n \in Nat : n = Len(fs)
    BY <1>1
  <2>3. DOMAIN fs = 1..n
    BY <1>1, <2>2, LenProperties
  <2>4. CASE n = 0
    <3>1. [fs EXCEPT ![Len(fs)] = Append(fs[Len(fs)], c)] = fs
      BY <1>1, <2>2, <2>3, <2>4, EmptySeq
    <3> QED
      BY <2>1, <3>1
  <2>5. CASE n # 0
    <3>1. PICK last : last = Append(fs[n], c)
      OBVIOUS
    <3>2. last \in Texts
      <4>1. fs[n] \in Texts
        BY <1>1, <2>2, <2>5, ElementOfSeq
      <4> QED
        BY <3>1, <4>1, TextAppend
    <3>3. [fs EXCEPT ![n] = last] \in Seq(Texts)
      <4>1. n \in 1..Len(fs)
        BY <2>2, <2>5
      <4> QED
        BY <1>1, <3>2, <4>1, ExceptSeq
    <3> QED
      BY <2>1, <2>2, <3>1, <3>3 DEF FieldSeqs
  <2> QED
    BY <2>4, <2>5
<1> QED
  BY <1>3, <1>4, <1>5

\* What is before the n-th char of a text.
Before(t, n) == IF n = 1 THEN Space ELSE t[n - 1]

AreFields(f, t) ==
  /\ f[0] = <<>>
  /\ \A n \in 1..Len(t) : f[n] = AddChar(f[n - 1], Before(t, n), t[n])

\* The fields of a text are found char by char.
LEMMA FieldsRun ==
  ASSUME NEW t \in Texts
  PROVE  \E f \in [0..Len(t) -> FieldSeqs] : AreFields(f, t) /\ Fields(t) = f[Len(t)]
<1> DEFINE step == [n \in 1..Len(t) |-> [fs \in FieldSeqs |-> AddChar(fs, Before(t, n), t[n])]]
<1>1. Len(t) \in Nat /\ \A n \in 1..Len(t) : t[n] \in Int
  BY LenProperties, ElementOfSeq DEF Texts
<1>2. <<>> \in FieldSeqs
  BY DEF FieldSeqs
<1>3. step \in [1..Len(t) -> [FieldSeqs -> FieldSeqs]]
  BY <1>1, AddCharType
<1>4. PICK f \in [0..Len(t) -> FieldSeqs] :
        f[0] = <<>> /\ \A n \in 1..Len(t) : f[n] = step[n][f[n - 1]]
  <2>1. PICK N \in Nat : N = Len(t)
    BY <1>1
  <2>2. PICK st : st = step
    OBVIOUS
  <2>3. PICK a : a = <<>>
    OBVIOUS
  <2>4. PICK D : D = FieldSeqs
    OBVIOUS
  <2>5. a \in D /\ st \in [1..N -> [D -> D]]
    BY <1>2, <1>3, <2>1, <2>2, <2>3, <2>4
  <2> HIDE DEF step
  <2>6. \E f \in [0..N -> D] : f[0] = a /\ \A n \in 1..N : f[n] = st[n][f[n - 1]]
    BY <2>5, Recursion
  <2> QED
    BY <2>1, <2>2, <2>3, <2>4, <2>6
<1>5. ASSUME NEW n \in 1..Len(t)
      PROVE  f[n] = AddChar(f[n - 1], Before(t, n), t[n])
  <2>1. n - 1 \in 0..Len(t)
    BY <1>1
  <2>2. f[n - 1] \in FieldSeqs
    BY <2>1
  <2>3. step[n][f[n - 1]] = AddChar(f[n - 1], Before(t, n), t[n])
    BY <2>2
  <2> HIDE DEF step
  <2> QED
    BY <1>4, <2>3
<1>6. f = [n \in 0..Len(t) |->
             IF n = 0 THEN <<>>
             ELSE AddChar(f[n - 1], IF n = 1 THEN Space ELSE t[n - 1], t[n])]
  <2>1. PICK F : F = [n \in 0..Len(t) |->
             IF n = 0 THEN <<>>
             ELSE AddChar(f[n - 1], IF n = 1 THEN Space ELSE t[n - 1], t[n])]
    OBVIOUS
  <2>2. \A n \in 0..Len(t) : n # 0 => n \in 1..Len(t)
    BY <1>1
  <2>3. ASSUME NEW n \in 0..Len(t)
        PROVE  F[n] = f[n]
    <3>1. F[n] = IF n = 0 THEN <<>> ELSE AddChar(f[n - 1], Before(t, n), t[n])
      BY <2>1 DEF Before
    <3> HIDE DEF step
    <3> QED
      BY <1>4, <1>5, <2>2, <3>1
  <2>4. F = [n \in 0..Len(t) |-> F[n]] /\ f = [n \in 0..Len(t) |-> f[n]]
    <3> HIDE DEF step
    <3> QED
      BY <2>1
  <2>5. F = f
    <3> HIDE DEF step
    <3> QED
      BY <2>3, <2>4
  <2> QED
    BY <2>1, <2>5
<1> HIDE DEF step
<1> DEFINE fields[n \in 0..Len(t)] ==
             IF n = 0 THEN <<>>
             ELSE AddChar(fields[n - 1], IF n = 1 THEN Space ELSE t[n - 1], t[n])
<1>7. fields = [n \in 0..Len(t) |->
                  IF n = 0 THEN <<>>
                  ELSE AddChar(fields[n - 1], IF n = 1 THEN Space ELSE t[n - 1], t[n])]
  BY <1>6
<1>8. Fields(t) = fields[Len(t)]
  BY DEF Fields
<1> HIDE DEF fields
<1>9. ASSUME NEW n \in 1..Len(t)
      PROVE  fields[n] = AddChar(fields[n - 1], Before(t, n), t[n])
  <2>1. n \in 0..Len(t) /\ n # 0
    BY <1>1
  <2> QED
    BY <1>7, <2>1 DEF Before
<1>10. fields[0] = <<>>
  BY <1>1, <1>7
<1>11. \A n \in 0..Len(t) : fields[n] = f[n]
  <2> DEFINE S == {n \in Nat : n <= Len(t) => fields[n] = f[n]}
  <2>1. 0 \in S
    BY <1>4, <1>10
  <2>2. ASSUME NEW n \in Nat, n \in S
        PROVE  n + 1 \in S
    <3> SUFFICES ASSUME n + 1 <= Len(t)
                 PROVE  fields[n + 1] = f[n + 1]
      OBVIOUS
    <3>1. n + 1 \in 1..Len(t) /\ n + 1 - 1 = n /\ fields[n] = f[n]
      BY <1>1, <2>2
    <3> QED
      BY <1>5, <1>9, <3>1
  <2>3. Nat \subseteq S
    <3> HIDE DEF S
    <3> QED
      BY <2>1, <2>2, Inductive
  <2> QED
    BY <1>1, <2>3
<1>12. Fields(t) = f[Len(t)]
  BY <1>1, <1>8, <1>11
<1> QED
  BY <1>4, <1>5, <1>12 DEF AreFields

\* One more char.
LEMMA FieldsAppend ==
  ASSUME NEW t \in Texts, NEW c \in Int
  PROVE  /\ Fields(t) \in FieldSeqs
         /\ Fields(Append(t, c)) = AddChar(Fields(t), IF t = <<>> THEN Space ELSE Last(t), c)
<1>1. PICK u : u = Append(t, c)
  OBVIOUS
<1>2. /\ u \in Texts /\ Len(u) = Len(t) + 1 /\ Len(t) \in Nat /\ u[Len(t) + 1] = c
      /\ \A i \in 1..Len(t) : u[i] = t[i]
  BY <1>1, TextAppend
<1>3. PICK f \in [0..Len(t) -> FieldSeqs] : AreFields(f, t) /\ Fields(t) = f[Len(t)]
  BY FieldsRun
<1>4. PICK g \in [0..Len(u) -> FieldSeqs] : AreFields(g, u) /\ Fields(u) = g[Len(u)]
  BY <1>2, FieldsRun
<1>5. \A n \in 0..Len(t) : g[n] = f[n]
  <2> DEFINE S == {n \in Nat : n <= Len(t) => g[n] = f[n]}
  <2>1. 0 \in S
    BY <1>3, <1>4 DEF AreFields
  <2>2. ASSUME NEW n \in Nat, n \in S
        PROVE  n + 1 \in S
    <3> SUFFICES ASSUME n + 1 <= Len(t)
                 PROVE  g[n + 1] = f[n + 1]
      OBVIOUS
    <3>1. n + 1 \in 1..Len(t) /\ n + 1 \in 1..Len(u) /\ n + 1 - 1 = n /\ g[n] = f[n]
      BY <1>2, <2>2
    <3>2. n # 0 => n \in 1..Len(t)
      BY <3>1
    <3>3. u[n + 1] = t[n + 1] /\ Before(u, n + 1) = Before(t, n + 1)
      BY <1>2, <3>1, <3>2 DEF Before
    <3>4. f[n + 1] = AddChar(f[n], Before(t, n + 1), t[n + 1])
      BY <1>3, <3>1 DEF AreFields
    <3>5. g[n + 1] = AddChar(g[n], Before(u, n + 1), u[n + 1])
      BY <1>4, <3>1 DEF AreFields
    <3> QED
      BY <3>1, <3>3, <3>4, <3>5
  <2>3. Nat \subseteq S
    <3> HIDE DEF S
    <3> QED
      BY <2>1, <2>2, Inductive
  <2> QED
    BY <1>2, <2>3
<1>6. Len(t) \in 0..Len(t) /\ Len(u) \in 1..Len(u) /\ Len(u) - 1 = Len(t)
  BY <1>2
<1>7. g[Len(u)] = AddChar(g[Len(t)], Before(u, Len(u)), u[Len(u)])
  BY <1>4, <1>6 DEF AreFields
<1>8. g[Len(t)] = Fields(t) /\ u[Len(u)] = c
  BY <1>2, <1>3, <1>5, <1>6
<1>9. Before(u, Len(u)) = IF t = <<>> THEN Space ELSE Last(t)
  <2>1. t \in Seq(Int)
    BY DEF Texts
  <2>2. CASE t = <<>>
    <3>1. Len(u) = 1
      BY <1>2, <2>2
    <3> QED
      BY <2>2, <3>1 DEF Before
  <2>3. CASE t # <<>>
    <3>1. Len(t) # 0
      BY <2>1, <2>3, EmptySeq
    <3>2. Len(u) # 1 /\ Len(u) - 1 = Len(t) /\ Len(t) \in 1..Len(t)
      BY <1>2, <3>1
    <3>3. Before(u, Len(u)) = t[Len(t)]
      BY <1>2, <3>2 DEF Before
    <3> QED
      BY <2>3, <3>3 DEF Last
  <2> QED
    BY <2>2, <2>3
<1>10. Fields(t) \in FieldSeqs
  BY <1>3, <1>6
<1> QED
  BY <1>1, <1>4, <1>7, <1>8, <1>9, <1>10

\* No text has no fields.
LEMMA FieldsEmpty == Fields(<<>>) = <<>>
<1>1. <<>> \in Texts /\ Len(<<>>) = 0
  BY DEF Texts
<1> QED
  BY <1>1, FieldsRun DEF AreFields

\* What a field is.
Written == Texts \ {<<>>}

\* Texts of at least one char.
LEMMA WrittenFacts ==
  ASSUME NEW c \in Int
  PROVE  /\ <<c>> \in Written /\ \A w \in Texts : Append(w, c) \in Written
         /\ <<c>> = Append(<<>>, c)
<1>1. \A w \in Texts : Append(w, c) \in Texts /\ Append(w, c) # <<>>
  BY TextAppend
<1> QED
  BY <1>1 DEF Texts, Written

\* The last field goes on.
LEMMA ExceptLast ==
  ASSUME NEW S, NEW s \in Seq(S), NEW e \in S, s # <<>>
  PROVE  [s EXCEPT ![Len(s)] = e] = Append(Front(s), e)
<1>1. /\ Front(s) \in Seq(S) /\ Len(Front(s)) = Len(s) - 1 /\ Len(s) \in Nat \ {0}
      /\ \A i \in 1..Len(s) - 1 : Front(s)[i] = s[i]
  BY AppendOfFrontLast
<1>2. PICK n \in Nat \ {0} : n = Len(s)
  BY <1>1
<1>3. PICK a : a = [s EXCEPT ![n] = e]
  OBVIOUS
<1>4. PICK b : b = Append(Front(s), e)
  OBVIOUS
<1>5. n \in 1..Len(s)
  BY <1>2
<1>6. a \in Seq(S) /\ Len(a) = n /\ \A j \in 1..n : a[j] = IF j = n THEN e ELSE s[j]
  BY <1>2, <1>3, <1>5, ExceptSeq
<1>7. b \in Seq(S) /\ Len(b) = n /\ b[n] = e /\ \A j \in 1..n - 1 : b[j] = s[j]
  <2>1. PICK f \in Seq(S) : f = Front(s)
    BY <1>1
  <2>2. PICK m \in Nat : m = n - 1
    OBVIOUS
  <2>3. Len(f) = m /\ \A j \in 1..m : f[j] = s[j]
    BY <1>1, <1>2, <2>1, <2>2
  <2>4. /\ Append(f, e) \in Seq(S) /\ Len(Append(f, e)) = m + 1 /\ Append(f, e)[m + 1] = e
        /\ \A j \in 1..m : Append(f, e)[j] = f[j]
    BY <2>3, AppendProperties
  <2> QED
    BY <1>4, <2>1, <2>2, <2>3, <2>4
<1>8. \A j \in 1..n : a[j] = b[j]
  <2> SUFFICES ASSUME NEW j \in 1..n
               PROVE  a[j] = b[j]
    OBVIOUS
  <2>1. j # n => j \in 1..n - 1
    OBVIOUS
  <2> QED
    BY <1>6, <1>7, <2>1
<1>9. a = b
  BY <1>6, <1>7, <1>8, SeqEqual
<1> QED
  BY <1>2, <1>3, <1>4, <1>9

FieldsFine(t) ==
  Fields(t) \in Seq(Written) /\ (t # <<>> /\ Last(t) # Space => Fields(t) # <<>>)

\* What one more char does to the fields: nothing, a new field, or a longer last one.
LEMMA FieldsCases ==
  ASSUME NEW t \in Texts, NEW c \in Int, FieldsFine(t)
  PROVE  /\ c = Space => Fields(Append(t, c)) = Fields(t)
         /\ c # Space /\ (t = <<>> \/ Last(t) = Space) =>
              Fields(Append(t, c)) = Append(Fields(t), <<c>>)
         /\ c # Space /\ t # <<>> /\ Last(t) # Space =>
              /\ Fields(t) # <<>>
              /\ Fields(Append(t, c)) = Append(Front(Fields(t)), Append(Last(Fields(t)), c))
<1>1. PICK b : b = IF t = <<>> THEN Space ELSE Last(t)
  OBVIOUS
<1>2. Fields(Append(t, c)) = AddChar(Fields(t), b, c)
  BY <1>1, FieldsAppend
<1>3. c = Space => Fields(Append(t, c)) = Fields(t)
  BY <1>2 DEF AddChar
<1>4. c # Space /\ (t = <<>> \/ Last(t) = Space) =>
        Fields(Append(t, c)) = Append(Fields(t), <<c>>)
  BY <1>1, <1>2 DEF AddChar
<1>5. ASSUME c # Space, t # <<>>, Last(t) # Space
      PROVE  /\ Fields(t) # <<>>
             /\ Fields(Append(t, c)) = Append(Front(Fields(t)), Append(Last(Fields(t)), c))
  <2>1. PICK fs \in Seq(Written) : fs = Fields(t) /\ fs # <<>>
    BY <1>5 DEF FieldsFine
  <2>2. AddChar(fs, b, c) = [fs EXCEPT ![Len(fs)] = Append(fs[Len(fs)], c)]
    BY <1>1, <1>5 DEF AddChar
  <2>3. Last(fs) = fs[Len(fs)]
    BY DEF Last
  <2>4. Last(fs) \in Written
    BY <2>1, AppendOfFrontLast
  <2>5. PICK e \in Written : e = Append(Last(fs), c)
    BY <2>4, WrittenFacts DEF Written
  <2>6. [fs EXCEPT ![Len(fs)] = e] = Append(Front(fs), e)
    BY <2>1, ExceptLast
  <2> QED
    BY <1>2, <2>1, <2>2, <2>3, <2>5, <2>6
<1> QED
  BY <1>3, <1>4, <1>5

\* The fields of every text are not empty, and there is one unless it ends with a space.
LEMMA AllFieldsFine == \A t \in Texts : FieldsFine(t)
<1> DEFINE S == {t \in Texts : FieldsFine(t)}
<1>1. <<>> \in S
  <2>1. <<>> \in Texts
    BY DEF Texts
  <2>2. <<>> \in Seq(Written)
    OBVIOUS
  <2>3. FieldsFine(<<>>)
    BY <2>2, FieldsEmpty DEF FieldsFine
  <2> QED
    BY <2>1, <2>3
<1>2. ASSUME NEW t \in Texts, NEW c \in Int, t \in S
      PROVE  Append(t, c) \in S
  <2>1. Append(t, c) \in Texts /\ Last(Append(t, c)) = c
    BY TextAppend
  <2>2. PICK fs \in Seq(Written) : fs = Fields(t)
    BY <1>2 DEF FieldsFine
  <2>3. FieldsFine(t)
    BY <1>2
  <2>4. CASE c = Space
    <3>1. Fields(Append(t, c)) = fs
      BY <2>2, <2>3, <2>4, FieldsCases
    <3> QED
      BY <2>1, <2>4, <3>1 DEF FieldsFine
  <2>5. CASE c # Space /\ (t = <<>> \/ Last(t) = Space)
    <3>1. Fields(Append(t, c)) = Append(fs, <<c>>)
      BY <2>2, <2>3, <2>5, FieldsCases
    <3>2. <<c>> \in Written
      BY WrittenFacts
    <3>3. Append(fs, <<c>>) \in Seq(Written) /\ Append(fs, <<c>>) # <<>>
      BY <3>2, AppendProperties
    <3> QED
      BY <2>1, <3>1, <3>3 DEF FieldsFine
  <2>6. CASE c # Space /\ t # <<>> /\ Last(t) # Space
    <3>1. fs # <<>> /\ Fields(Append(t, c)) = Append(Front(fs), Append(Last(fs), c))
      BY <2>2, <2>3, <2>6, FieldsCases
    <3>2. Front(fs) \in Seq(Written) /\ Last(fs) \in Written
      BY <3>1, AppendOfFrontLast
    <3>3. PICK e \in Written : e = Append(Last(fs), c)
      BY <3>2, WrittenFacts DEF Written
    <3>4. Append(Front(fs), e) \in Seq(Written) /\ Append(Front(fs), e) # <<>>
      BY <3>2, AppendProperties
    <3> QED
      BY <2>1, <3>1, <3>3, <3>4 DEF FieldsFine
  <2> QED
    BY <2>4, <2>5, <2>6
<1>3. Texts \subseteq S
  <2> HIDE DEF S
  <2> QED
    BY <1>1, <1>2, TextInduction
<1> QED
  BY <1>3

-----------------------------------------------------------------------------
(* The complete fields, the one that may go on, and the end.                 *)

Open(t) == IF Unfinished(t) THEN Last(Fields(Lead(t))) ELSE <<>>

\* The fields of a text are the complete ones and the one that may go on.
LEMMA ShapeFacts ==
  ASSUME NEW t \in Texts
  PROVE  /\ Complete(t) \in Seq(Written) /\ Open(t) \in Texts
         /\ Open(t) # <<>> <=> Unfinished(t)
         /\ Fields(Lead(t)) = IF Open(t) = <<>> THEN Complete(t) ELSE Append(Complete(t), Open(t))
<1>1. Lead(t) \in Texts /\ (Rest(t) = <<>> => Lead(t) = t)
  BY LeadRest
<1>2. PICK fs \in Seq(Written) : fs = Fields(Lead(t))
  BY <1>1, AllFieldsFine DEF FieldsFine
<1>3. CASE Unfinished(t)
  <2>1. fs # <<>>
    BY <1>1, <1>2, <1>3, AllFieldsFine DEF FieldsFine, Unfinished
  <2>2. Front(fs) \in Seq(Written) /\ Last(fs) \in Written /\ fs = Append(Front(fs), Last(fs))
    BY <2>1, AppendOfFrontLast
  <2>3. Complete(t) = Front(fs) /\ Open(t) = Last(fs)
    BY <1>2, <1>3 DEF Complete, Open
  <2> QED
    BY <1>2, <1>3, <2>2, <2>3 DEF Written
<1>4. CASE ~Unfinished(t)
  <2>1. Complete(t) = fs /\ Open(t) = <<>>
    BY <1>2, <1>4 DEF Complete, Open
  <2> QED
    BY <1>2, <1>4, <2>1 DEF Texts
<1> QED
  BY <1>3, <1>4

\* The shape of no text.
LEMMA ShapeEmpty == Complete(<<>>) = <<>> /\ Open(<<>>) = <<>> /\ Rest(<<>>) = <<>>
BY LeadRestEmpty, FieldsEmpty DEF Complete, Open, Unfinished

\* A space completes the field that may go on,
LEMMA ShapeSpace ==
  ASSUME NEW t \in Texts, Rest(t) = <<>>
  PROVE  /\ Rest(Append(t, Space)) = <<>> /\ Open(Append(t, Space)) = <<>>
         /\ Complete(Append(t, Space))
              = IF Open(t) = <<>> THEN Complete(t) ELSE Append(Complete(t), Open(t))
<1>1. PICK c \in Int : c = Space
  BY DEF Space
<1>2. PICK u : u = Append(t, c)
  OBVIOUS
<1>3. u \in Texts /\ Last(u) = c
  BY <1>2, TextAppend
<1>4. Lead(u) = u /\ Rest(u) = <<>>
  BY <1>1, <1>2, StopsFacts, LeadGoesOn
<1>5. Lead(t) = t
  BY LeadRest
<1>6. Fields(u) = Fields(t)
  BY <1>1, <1>2, AllFieldsFine, FieldsCases
<1>7. ~Unfinished(u)
  BY <1>1, <1>3 DEF Unfinished
<1>8. Complete(u) = Fields(t) /\ Open(u) = <<>>
  BY <1>4, <1>6, <1>7 DEF Complete, Open
<1> QED
  BY <1>1, <1>2, <1>4, <1>5, <1>8, ShapeFacts

\* as what ends a header does;
LEMMA ShapeStop ==
  ASSUME NEW t \in Texts, NEW c \in Stops, Rest(t) = <<>>
  PROVE  /\ Rest(Append(t, c)) = <<c>> /\ Lead(Append(t, c)) = t /\ Open(Append(t, c)) = <<>>
         /\ Complete(Append(t, c))
              = IF Open(t) = <<>> THEN Complete(t) ELSE Append(Complete(t), Open(t))
<1>1. PICK d \in Int : d = c
  BY StopsFacts
<1>2. PICK u : u = Append(t, d)
  OBVIOUS
<1>3. Lead(u) = t /\ Rest(u) = <<d>>
  BY <1>1, <1>2, LeadEnds
<1>4. Lead(t) = t
  BY LeadRest
<1>5. ~Unfinished(u)
  BY <1>3 DEF Unfinished
<1>6. Complete(u) = Fields(t) /\ Open(u) = <<>>
  BY <1>3, <1>5 DEF Complete, Open
<1> QED
  BY <1>1, <1>2, <1>3, <1>4, <1>6, ShapeFacts

\* behind that no field goes on;
LEMMA ShapeRest ==
  ASSUME NEW t \in Texts, NEW c \in Int, Rest(t) # <<>>
  PROVE  /\ Rest(Append(t, c)) = Append(Rest(t), c) /\ Lead(Append(t, c)) = Lead(t)
         /\ Open(t) = <<>> /\ Open(Append(t, c)) = <<>>
         /\ Complete(Append(t, c)) = Complete(t)
<1>1. PICK u : u = Append(t, c)
  OBVIOUS
<1>2. Lead(u) = Lead(t) /\ Rest(u) = Append(Rest(t), c)
  BY <1>1, RestGoesOn
<1>3. Rest(u) # <<>>
  BY <1>2, LeadRest, TextAppend
<1>4. ~Unfinished(u) /\ ~Unfinished(t)
  BY <1>3 DEF Unfinished
<1> QED
  BY <1>1, <1>2, <1>4 DEF Complete, Open

\* and any other char makes that field longer.
LEMMA ShapeChar ==
  ASSUME NEW t \in Texts, NEW c \in Int, Rest(t) = <<>>, c \notin Stops, c # Space
  PROVE  /\ Rest(Append(t, c)) = <<>> /\ Open(Append(t, c)) = Append(Open(t), c)
         /\ Complete(Append(t, c)) = Complete(t)
<1>1. PICK u : u = Append(t, c)
  OBVIOUS
<1>2. u \in Texts /\ u # <<>> /\ Last(u) = c
  BY <1>1, TextAppend
<1>3. Lead(u) = u /\ Rest(u) = <<>>
  BY <1>1, LeadGoesOn
<1>4. Lead(t) = t
  BY LeadRest
<1>5. Unfinished(u)
  BY <1>2, <1>3 DEF Unfinished
<1>6. Complete(u) = Front(Fields(u)) /\ Open(u) = Last(Fields(u))
  BY <1>3, <1>5 DEF Complete, Open
<1>7. PICK fs \in Seq(Written) : fs = Fields(t)
  BY AllFieldsFine DEF FieldsFine
<1>8. CASE Unfinished(t)
  <2>1. t # <<>> /\ Last(t) # Space
    BY <1>8 DEF Unfinished
  <2>2. fs # <<>> /\ Fields(u) = Append(Front(fs), Append(Last(fs), c))
    BY <1>1, <1>7, <2>1, AllFieldsFine, FieldsCases
  <2>3. Front(fs) \in Seq(Written) /\ Last(fs) \in Written
    BY <2>2, AppendOfFrontLast
  <2>4. PICK e \in Written : e = Append(Last(fs), c)
    BY <2>3, WrittenFacts DEF Written
  <2>5. Front(Fields(u)) = Front(fs) /\ Last(Fields(u)) = e
    <3>1. PICK fr \in Seq(Written) : fr = Front(fs)
      BY <2>3
    <3>2. Fields(u) = Append(fr, e)
      BY <2>2, <2>4, <3>1
    <3>3. Front(Append(fr, e)) = fr /\ Last(Append(fr, e)) = e
      BY FrontLastOfAppend
    <3> QED
      BY <3>1, <3>2, <3>3
  <2>6. Complete(t) = Front(fs) /\ Open(t) = Last(fs)
    BY <1>4, <1>7, <1>8 DEF Complete, Open
  <2> QED
    BY <1>1, <1>3, <1>6, <2>4, <2>5, <2>6
<1>9. CASE ~Unfinished(t)
  <2>1. t = <<>> \/ Last(t) = Space
    BY <1>9 DEF Unfinished
  <2>2. Fields(u) = Append(fs, <<c>>)
    BY <1>1, <1>7, <2>1, AllFieldsFine, FieldsCases
  <2>3. PICK e \in Written : e = <<c>> /\ e = Append(<<>>, c)
    BY WrittenFacts
  <2>4. Front(Fields(u)) = fs /\ Last(Fields(u)) = e
    BY <2>2, <2>3, FrontLastOfAppend
  <2>5. Complete(t) = fs /\ Open(t) = <<>>
    BY <1>4, <1>7, <1>9 DEF Complete, Open
  <2> QED
    BY <1>1, <1>3, <1>6, <2>3, <2>4, <2>5
<1> QED
  BY <1>8, <1>9

\* A text that some header begins with.
LEMMA ViableShape ==
  ASSUME NEW t \in Texts
  PROVE  Viable(t) <=>
           /\ \A n \in DOMAIN Complete(t) : Meaning(Complete(t)[n]) # NoLexeme
           /\ Open(t) # <<>> => Meaning(Open(t)) # NoLexeme \/ Open(t) \in Stems
           /\ Rest(t) # <<>> =>
                Lead(t) # <<>> /\ Rest(t) \in Parts(Terminator) \cup {<<NUL>>}
<1>1. PICK cs \in Seq(Written) : cs = Complete(t)
  BY ShapeFacts
<1>2. PICK fs : fs = Fields(Lead(t))
  OBVIOUS
<1>3. Len(cs) \in Nat /\ DOMAIN cs = 1..Len(cs)
  BY LenProperties
<1>4. Viable(t) <=>
        /\ \A n \in DOMAIN fs : \/ Meaning(fs[n]) # NoLexeme
                                \/ (n = Len(fs) /\ Unfinished(t) /\ fs[n] \in Stems)
        /\ Rest(t) # <<>> => Lead(t) # <<>> /\ Rest(t) \in Parts(Terminator) \cup {<<NUL>>}
  BY <1>2 DEF Viable
<1>5. CASE Open(t) = <<>>
  <2>1. fs = cs /\ ~Unfinished(t)
    BY <1>1, <1>2, <1>5, ShapeFacts
  <2> QED
    BY <1>1, <1>4, <1>5, <2>1
<1>6. CASE Open(t) # <<>>
  <2>1. PICK e \in Written : e = Open(t)
    BY <1>6, ShapeFacts DEF Written
  <2>2. fs = Append(cs, e) /\ Unfinished(t)
    BY <1>1, <1>2, <1>6, <2>1, ShapeFacts
  <2>3. PICK l \in Nat : l = Len(cs)
    BY <1>3
  <2>4. /\ Append(cs, e) \in Seq(Written) /\ Len(Append(cs, e)) = l + 1 /\ Append(cs, e)[l + 1] = e
        /\ \A n \in 1..l : Append(cs, e)[n] = cs[n]
    BY <2>3, AppendProperties
  <2>5. DOMAIN Append(cs, e) = 1..l + 1
    BY <2>4, LenProperties
  <2>6. Len(fs) = l + 1 /\ fs[l + 1] = e /\ (\A n \in 1..l : fs[n] = cs[n]) /\ DOMAIN fs = 1..l + 1
    BY <2>2, <2>4, <2>5
  <2>7. (\A n \in DOMAIN fs : \/ Meaning(fs[n]) # NoLexeme
                              \/ (n = Len(fs) /\ Unfinished(t) /\ fs[n] \in Stems))
          <=> /\ \A n \in 1..l : Meaning(cs[n]) # NoLexeme
              /\ Meaning(e) # NoLexeme \/ e \in Stems
    <3>1. \A n \in 1..l : n \in DOMAIN fs /\ n # Len(fs)
      BY <2>6
    <3>2. \A n \in DOMAIN fs : n \in 1..l \/ n = l + 1
      BY <2>6
    <3>3. l + 1 \in DOMAIN fs
      BY <2>6
    <3> QED
      BY <2>2, <2>6, <3>1, <3>2, <3>3
  <2> QED
    BY <1>1, <1>3, <1>4, <1>6, <2>1, <2>3, <2>7
<1> QED
  BY <1>5, <1>6

-----------------------------------------------------------------------------
(* Numbers.                                                                  *)

\* Division with a remainder, and that there is only one.
LEMMA Division ==
  ASSUME NEW m \in Nat \ {0}, NEW x \in Int
  PROVE  /\ x \div m \in Int /\ x % m \in 0..m - 1
         /\ x = m * (x \div m) + (x % m)
OBVIOUS

\* A quotient and a remainder are determined.
LEMMA OneRemainder ==
  ASSUME NEW m \in Nat \ {0}, NEW q \in Int, NEW r \in 0..m - 1,
         NEW p \in Int, NEW s \in 0..m - 1, m * q + r = m * p + s
  PROVE  r = s /\ q = p
<1>1. ASSUME NEW a \in Int, NEW b \in Int, NEW c \in 0..m - 1, NEW d \in 0..m - 1,
             m * a + c = m * b + d, a < b
      PROVE  FALSE
  <2>1. PICK k \in Nat : k = b - a - 1
    BY <1>1
  <2>2. b = a + k + 1
    BY <2>1
  <2>3. m * b = m * a + m * k + m
    BY <2>2
  <2>4. m * k \in Nat
    BY <2>1
  <2>5. m * a \in Int /\ m * b \in Int
    OBVIOUS
  <2> QED
    BY <1>1, <2>3, <2>4, <2>5
<1>2. ~(q < p) /\ ~(p < q)
  BY <1>1
<1>3. q = p
  BY <1>2
<1>4. m * q \in Int
  OBVIOUS
<1> QED
  BY <1>3, <1>4

\* numberValue is reduced after every digit.
LEMMA ModDigit ==
  ASSUME NEW m \in Nat \ {0}, NEW v \in Int, NEW d \in Int
  PROVE  (10 * (v % m) + d) % m = (10 * v + d) % m
<1>1. PICK q \in Int, r \in 0..m - 1 : q = v \div m /\ r = v % m /\ v = m * q + r
  BY Division
<1>2. PICK x \in Int : x = 10 * r + d
  OBVIOUS
<1>3. PICK p \in Int, s \in 0..m - 1 : p = x \div m /\ s = x % m /\ x = m * p + s
  BY Division
<1>4. PICK y \in Int : y = 10 * v + d
  OBVIOUS
<1>5. PICK u \in Int, w \in 0..m - 1 : u = y \div m /\ w = y % m /\ y = m * u + w
  BY Division
<1>6. m * (10 * q + p) + s = m * u + w
  <2>1. PICK a \in Int : a = m * q
    OBVIOUS
  <2>2. PICK b \in Int : b = m * p
    OBVIOUS
  <2>3. PICK e \in Int : e = m * u
    OBVIOUS
  <2>4. PICK f \in Int : f = m * (10 * q + p)
    OBVIOUS
  <2>5. f = 10 * a + b
    BY <2>1, <2>2, <2>4
  <2>6. y = 10 * (a + r) + d
    BY <1>1, <1>4, <2>1
  <2>7. x = b + s /\ y = e + w
    BY <1>3, <1>5, <2>2, <2>3
  <2>8. f + s = e + w
    BY <1>2, <2>5, <2>6, <2>7
  <2> QED
    BY <2>3, <2>4, <2>8
<1>7. 10 * q + p \in Int
  OBVIOUS
<1>8. s = w
  BY <1>6, <1>7, OneRemainder
<1> QED
  BY <1>1, <1>2, <1>3, <1>4, <1>5, <1>8

AreValues(f, t) ==
  f[0] = 0 /\ \A n \in 1..Len(t) : f[n] = 10 * f[n - 1] + (t[n] - 48)

\* The number of a text is computed digit by digit.
LEMMA NumberRun ==
  ASSUME NEW t \in Texts
  PROVE  \E f \in [0..Len(t) -> Int] : AreValues(f, t) /\ Number(t) = f[Len(t)]
<1> DEFINE step == [n \in 1..Len(t) |-> [v \in Int |-> 10 * v + (t[n] - 48)]]
<1>1. Len(t) \in Nat /\ \A n \in 1..Len(t) : t[n] \in Int
  BY LenProperties, ElementOfSeq DEF Texts
<1>2. step \in [1..Len(t) -> [Int -> Int]]
  BY <1>1
<1>3. PICK f \in [0..Len(t) -> Int] :
        f[0] = 0 /\ \A n \in 1..Len(t) : f[n] = step[n][f[n - 1]]
  <2>1. PICK N \in Nat : N = Len(t)
    BY <1>1
  <2>2. PICK st : st = step
    OBVIOUS
  <2>3. PICK a : a = 0
    OBVIOUS
  <2>4. PICK D : D = Int
    OBVIOUS
  <2>5. a \in D /\ st \in [1..N -> [D -> D]]
    BY <1>2, <2>1, <2>2, <2>3, <2>4
  <2> HIDE DEF step
  <2>6. \E f \in [0..N -> D] : f[0] = a /\ \A n \in 1..N : f[n] = st[n][f[n - 1]]
    BY <2>5, Recursion
  <2> QED
    BY <2>1, <2>2, <2>3, <2>4, <2>6
<1>4. ASSUME NEW n \in 1..Len(t)
      PROVE  f[n] = 10 * f[n - 1] + (t[n] - 48)
  <2>1. n - 1 \in 0..Len(t)
    BY <1>1
  <2>2. f[n - 1] \in Int
    BY <2>1
  <2>3. step[n][f[n - 1]] = 10 * f[n - 1] + (t[n] - 48)
    BY <2>2
  <2> HIDE DEF step
  <2> QED
    BY <1>3, <2>3
<1> HIDE DEF step
<1>5. f = [n \in 0..Len(t) |-> IF n = 0 THEN 0 ELSE 10 * f[n - 1] + (t[n] - 48)]
  <2>1. PICK F : F = [n \in 0..Len(t) |-> IF n = 0 THEN 0 ELSE 10 * f[n - 1] + (t[n] - 48)]
    OBVIOUS
  <2>2. \A n \in 0..Len(t) : n # 0 => n \in 1..Len(t)
    BY <1>1
  <2>3. \A n \in 0..Len(t) : F[n] = IF n = 0 THEN 0 ELSE 10 * f[n - 1] + (t[n] - 48)
    BY <2>1
  <2>4. \A n \in 0..Len(t) : F[n] = f[n]
    BY <1>3, <1>4, <2>2, <2>3
  <2>5. F = [n \in 0..Len(t) |-> F[n]] /\ f = [n \in 0..Len(t) |-> f[n]]
    BY <2>1
  <2>6. F = f
    BY <2>4, <2>5
  <2> QED
    BY <2>1, <2>6
<1> DEFINE value[n \in 0..Len(t)] ==
             IF n = 0 THEN 0 ELSE 10 * value[n - 1] + (t[n] - 48)
<1>6. value = [n \in 0..Len(t) |-> IF n = 0 THEN 0 ELSE 10 * value[n - 1] + (t[n] - 48)]
  BY <1>5
<1>7. Number(t) = value[Len(t)]
  BY DEF Number
<1> HIDE DEF value
<1>8. value[0] = 0
  BY <1>1, <1>6
<1>9. ASSUME NEW n \in 1..Len(t)
      PROVE  value[n] = 10 * value[n - 1] + (t[n] - 48)
  <2>1. n \in 0..Len(t) /\ n # 0
    BY <1>1
  <2> QED
    BY <1>6, <2>1
<1>10. \A n \in 0..Len(t) : value[n] = f[n]
  <2> DEFINE S == {n \in Nat : n <= Len(t) => value[n] = f[n]}
  <2>1. 0 \in S
    BY <1>3, <1>8
  <2>2. ASSUME NEW n \in Nat, n \in S
        PROVE  n + 1 \in S
    <3> SUFFICES ASSUME n + 1 <= Len(t)
                 PROVE  value[n + 1] = f[n + 1]
      OBVIOUS
    <3>1. n + 1 \in 1..Len(t) /\ n + 1 - 1 = n /\ value[n] = f[n]
      BY <1>1, <2>2
    <3> QED
      BY <1>4, <1>9, <3>1
  <2>3. Nat \subseteq S
    <3> HIDE DEF S
    <3> QED
      BY <2>1, <2>2, Inductive
  <2> QED
    BY <1>1, <2>3
<1>11. Number(t) = f[Len(t)]
  BY <1>1, <1>7, <1>10
<1> QED
  BY <1>3, <1>4, <1>11 DEF AreValues

\* One more digit.
LEMMA NumberAppend ==
  ASSUME NEW t \in Texts, NEW c \in Int
  PROVE  Number(t) \in Int /\ Number(Append(t, c)) = 10 * Number(t) + (c - 48)
<1>1. PICK u : u = Append(t, c)
  OBVIOUS
<1>2. /\ u \in Texts /\ Len(u) = Len(t) + 1 /\ Len(t) \in Nat /\ u[Len(t) + 1] = c
      /\ \A i \in 1..Len(t) : u[i] = t[i]
  BY <1>1, TextAppend
<1>3. PICK f \in [0..Len(t) -> Int] : AreValues(f, t) /\ Number(t) = f[Len(t)]
  BY NumberRun
<1>4. PICK g \in [0..Len(u) -> Int] : AreValues(g, u) /\ Number(u) = g[Len(u)]
  BY <1>2, NumberRun
<1>5. \A n \in 0..Len(t) : g[n] = f[n]
  <2> DEFINE S == {n \in Nat : n <= Len(t) => g[n] = f[n]}
  <2>1. 0 \in S
    BY <1>3, <1>4 DEF AreValues
  <2>2. ASSUME NEW n \in Nat, n \in S
        PROVE  n + 1 \in S
    <3> SUFFICES ASSUME n + 1 <= Len(t)
                 PROVE  g[n + 1] = f[n + 1]
      OBVIOUS
    <3>1. n + 1 \in 1..Len(t) /\ n + 1 \in 1..Len(u) /\ n + 1 - 1 = n /\ g[n] = f[n]
      BY <1>2, <2>2
    <3>2. u[n + 1] = t[n + 1]
      BY <1>2, <3>1
    <3>3. f[n + 1] = 10 * f[n] + (t[n + 1] - 48)
      BY <1>3, <3>1 DEF AreValues
    <3>4. g[n + 1] = 10 * g[n] + (u[n + 1] - 48)
      BY <1>4, <3>1 DEF AreValues
    <3> QED
      BY <3>1, <3>2, <3>3, <3>4
  <2>3. Nat \subseteq S
    <3> HIDE DEF S
    <3> QED
      BY <2>1, <2>2, Inductive
  <2> QED
    BY <1>2, <2>3
<1>6. Len(t) \in 0..Len(t) /\ Len(u) \in 1..Len(u) /\ Len(u) - 1 = Len(t)
  BY <1>2
<1>7. g[Len(u)] = 10 * g[Len(t)] + (u[Len(u)] - 48)
  BY <1>4, <1>6 DEF AreValues
<1>8. g[Len(t)] = Number(t) /\ u[Len(u)] = c
  BY <1>2, <1>3, <1>5, <1>6
<1>9. Number(t) \in Int
  BY <1>3, <1>6
<1> QED
  BY <1>1, <1>4, <1>7, <1>8, <1>9

\* No digits are zero.
LEMMA NumberEmpty == Number(<<>>) = 0
<1>1. <<>> \in Texts /\ Len(<<>>) = 0
  BY DEF Texts
<1> QED
  BY <1>1, NumberRun DEF AreValues

-----------------------------------------------------------------------------
(* What fields mean.                                                         *)

\* A field of digits, a path.
DigitText(w) == w \in Texts /\ w # <<>> /\ \A i \in 1..Len(w) : w[i] \in Digits
PathText(w) ==
  w \in Texts /\ w # <<>> /\ w[1] = Slash /\ \A i \in 1..Len(w) : w[i] \in WordChars

\* The chars of a text, one by one or as a set.
LEMMA WrittenSet ==
  ASSUME NEW w \in Texts, NEW C
  PROVE  /\ Len(w) \in Nat /\ (w # <<>> => 1 \in 1..Len(w))
         /\ ToSet(w) \subseteq C <=> \A i \in 1..Len(w) : w[i] \in C
<1>1. Len(w) \in Nat /\ DOMAIN w = 1..Len(w)
  BY LenProperties DEF Texts
<1>2. w # <<>> => Len(w) # 0
  BY EmptySeq DEF Texts
<1> QED
  BY <1>1, <1>2 DEF ToSet

\* A keyword means its token: no other keyword has its text.
LEMMA MeaningOfWord ==
  ASSUME NEW k \in Keywords
  PROVE  Meaning(Words[k]) = Lexeme(k, 0, <<>>) /\ Meaning(Words[k]) # NoLexeme
<1>1. \A j \in Keywords : Words[j] = Words[k] => j = k
  BY GrammarAssumption DEF IsInjective, Keywords
<1>2. PICK w : w = Words[k]
  OBVIOUS
<1>3. (CHOOSE j \in Keywords : Words[j] = w) = k
  BY <1>1, <1>2
<1>4. ~(ToSet(w) \subseteq Digits) /\ w[1] # Slash
  <2>1. w \in Seq(WordChars) /\ w # <<>> /\ w[1] \notin Digits /\ w[1] # Slash
    BY <1>2, WordFacts, GrammarAssumption
  <2>2. 1 \in DOMAIN w
    BY <2>1
  <2>3. w[1] \in ToSet(w)
    BY <2>2 DEF ToSet
  <2> QED
    BY <2>1, <2>3
<1>5. Meaning(w) = Lexeme(CHOOSE j \in Keywords : Words[j] = w, 0, <<>>)
  BY <1>2, <1>4 DEF Meaning
<1>6. Lexeme(k, 0, <<>>).id = k /\ NoLexeme.id = "Unknown"
  BY DEF NoLexeme, Lexeme, Unknown
<1>7. k # "Unknown"
  BY GrammarAssumption, WordFacts
<1> QED
  BY <1>2, <1>3, <1>5, <1>6, <1>7

\* Digits mean a size, as a size_t holds it.
LEMMA MeaningOfDigits ==
  ASSUME NEW w, DigitText(w)
  PROVE  /\ Meaning(w) = Lexeme("Size", Number(w) % Modulus, <<>>) /\ Meaning(w) # NoLexeme
         /\ \A k \in Keywords : Words[k] # w
<1>1. w \in Texts /\ w # <<>> /\ \A i \in 1..Len(w) : w[i] \in Digits
  BY DEF DigitText
<1>2. ToSet(w) \subseteq Digits /\ w[1] \in Digits
  BY <1>1, WrittenSet
<1>3. \A k \in Keywords : Words[k] # w
  BY <1>2, WordFacts, GrammarAssumption
<1>4. Meaning(w) = Lexeme("Size", Number(w) % Modulus, <<>>)
  <2>1. w[1] # Slash
    BY <1>2 DEF Slash, Digits
  <2> QED
    BY <1>2, <1>3, <2>1 DEF Meaning
<1> QED
  BY <1>3, <1>4 DEF NoLexeme, Lexeme, Unknown

\* A path means itself.
LEMMA MeaningOfPath ==
  ASSUME NEW w, PathText(w)
  PROVE  /\ Meaning(w) = Lexeme("Path", 0, w) /\ Meaning(w) # NoLexeme
         /\ \A k \in Keywords : Words[k] # w
<1>1. w \in Texts /\ w # <<>> /\ w[1] = Slash /\ \A i \in 1..Len(w) : w[i] \in WordChars
  BY DEF PathText
<1>2. ToSet(w) \subseteq WordChars /\ 1 \in 1..Len(w)
  BY <1>1, WrittenSet
<1>3. ~(ToSet(w) \subseteq Digits)
  <2>1. Slash \notin Digits
    BY DEF Slash, Digits
  <2> QED
    BY <1>1, <1>2, <2>1, WrittenSet
<1>4. \A k \in Keywords : Words[k] # w
  BY <1>1, WordFacts, GrammarAssumption
<1>5. Meaning(w) = Lexeme("Path", 0, w)
  BY <1>1, <1>2, <1>3, <1>4 DEF Meaning
<1> QED
  BY <1>4, <1>5 DEF NoLexeme, Lexeme, Unknown

\* What has a meaning.
LEMMA MeaningCases ==
  ASSUME NEW w \in Written, Meaning(w) # NoLexeme
  PROVE  (\E k \in Keywords : Words[k] = w) \/ DigitText(w) \/ PathText(w)
<1>1. w \in Texts /\ w # <<>>
  BY DEF Written
<1>2. \/ \E k \in Keywords : Words[k] = w
      \/ ToSet(w) \subseteq Digits
      \/ w[1] = Slash /\ ToSet(w) \subseteq WordChars
  BY DEF Meaning
<1> QED
  BY <1>1, <1>2, WrittenSet DEF DigitText, PathText

\* A field may go on and get a meaning, or become one that has none.
Promising(w) == Meaning(w) # NoLexeme \/ w \in Stems

\* What a field can still become.
LEMMA PromisingCases ==
  ASSUME NEW w \in Written, Promising(w)
  PROVE  w \in Stems \/ DigitText(w) \/ PathText(w)
BY MeaningCases, WordIsStem, GrammarAssumption DEF Promising

-----------------------------------------------------------------------------
(* The graph and the texts.                                                  *)

Known(fields) == \A n \in DOMAIN fields : Meaning(fields[n]) # NoLexeme

\* The texts that lead to a state other than the three at which a stream is left.
Live(state, t) ==
  /\ Known(Complete(t))
  /\ \/ state = Start /\ t = <<>>
     \/ state = InSpace /\ t # <<>> /\ Rest(t) = <<>> /\ Open(t) = <<>>
     \/ state = InDigits /\ Rest(t) = <<>> /\ DigitText(Open(t))
     \/ state = InGenericWord /\ Rest(t) = <<>> /\ PathText(Open(t))
     \/ \E w \in Stems : state = Stem(w) /\ Rest(t) = <<>> /\ Open(t) = w
     \/ \E e \in Parts(Terminator) :
          e # Terminator /\ state = Ending(e) /\ Lead(t) # <<>> /\ Rest(t) = e

\* The token of a field that a state has read.
Reads(state, w, token) ==
  \/ state = InDigits /\ DigitText(w) /\ token = "Size"
  \/ state = InGenericWord /\ PathText(w) /\ token = "Path"
  \/ token \in Keywords /\ Words[token] = w

\* A move takes a text t to u by a char.
Advances(state, move, t, u, char) ==
  /\ IF move.token = Unknown THEN Complete(u) = Complete(t)
     ELSE Reads(state, Open(t), move.token) /\ Complete(u) = Append(Complete(t), Open(t))
  /\ IF move.to = Finished THEN IsHeader(u) ELSE Live(move.to, u)
  /\ move.to \in {InDigits, InGenericWord} =>
       /\ Open(u) = Append(Open(t), char) /\ move.token = Unknown
       /\ IF move.reset THEN Open(t) = <<>> ELSE state = move.to

\* One more field with a meaning.
LEMMA KnownAppend ==
  ASSUME NEW cs \in Seq(Written), Known(cs), NEW w \in Written, Meaning(w) # NoLexeme
  PROVE  Known(Append(cs, w))
<1>1. PICK l \in Nat : l = Len(cs)
  BY LenProperties
<1>2. DOMAIN cs = 1..l
  BY <1>1, LenProperties
<1>3. PICK a : a = Append(cs, w)
  OBVIOUS
<1>4. a \in Seq(Written) /\ Len(a) = l + 1 /\ a[l + 1] = w /\ \A n \in 1..l : a[n] = cs[n]
  BY <1>1, <1>3, AppendProperties
<1>5. DOMAIN a = 1..l + 1
  BY <1>4, LenProperties
<1>6. ASSUME NEW n \in 1..l + 1
      PROVE  Meaning(a[n]) # NoLexeme
  <2>1. n \in 1..l \/ n = l + 1
    BY <1>1
  <2> QED
    BY <1>2, <1>4, <2>1 DEF Known
<1> QED
  BY <1>3, <1>5, <1>6 DEF Known

\* A field that was read means its token.
LEMMA ReadsFacts ==
  ASSUME NEW state, NEW w, NEW token, Reads(state, w, token)
  PROVE  /\ token # Unknown /\ Meaning(w) # NoLexeme /\ w # <<>> /\ Meaning(w).id = token
<1>1. CASE DigitText(w) /\ token = "Size"
  <2>1. Meaning(w).id = "Size"
    BY <1>1, MeaningOfDigits DEF Lexeme
  <2> QED
    BY <1>1, <2>1, MeaningOfDigits DEF DigitText, Unknown
<1>2. CASE PathText(w) /\ token = "Path"
  <2>1. Meaning(w).id = "Path"
    BY <1>2, MeaningOfPath DEF Lexeme
  <2> QED
    BY <1>2, <2>1, MeaningOfPath DEF PathText, Unknown
<1>3. CASE token \in Keywords /\ Words[token] = w
  <2>1. Meaning(w) = Lexeme(token, 0, <<>>) /\ Meaning(w) # NoLexeme
    BY <1>3, MeaningOfWord
  <2>2. w # <<>> /\ token # "Unknown"
    BY <1>3, WordFacts, GrammarAssumption
  <2>3. Meaning(w).id = token
    BY <2>1 DEF Lexeme
  <2> QED
    BY <2>1, <2>2, <2>3 DEF Unknown
<1> QED
  BY <1>1, <1>2, <1>3 DEF Reads

\* A char that begins a field, or goes on with one, is neither a space nor an end.
LEMMA WordCharGoesOn ==
  ASSUME NEW c \in WordChars
  PROVE  c \in Int /\ c \notin Stops /\ c # Space
BY StopsFacts DEF WordChars, Space

\* The first char of a field.
LEMMA BeginStep ==
  ASSUME NEW t \in Texts, NEW c \in Int, NEW move, NEW state,
         Rest(t) = <<>>, Open(t) = <<>>, Known(Complete(t)), Begins(c, move)
  PROVE  Advances(state, move, t, Append(t, c), c)
<1>1. c \in WordChars
  BY BeginsWithWordChar, GrammarAssumption
<1>2. PICK u : u = Append(t, c)
  OBVIOUS
<1>3. PICK w \in Written : w = <<c>> /\ w = Append(<<>>, c)
  BY WrittenFacts
<1>4. Rest(u) = <<>> /\ Open(u) = w /\ Complete(u) = Complete(t)
  BY <1>1, <1>2, <1>3, WordCharGoesOn, ShapeChar
<1>5. w \in Texts /\ w # <<>> /\ w[1] = c /\ Len(w) = 1
  BY <1>3 DEF Written
<1>6. Open(u) = Append(Open(t), c)
  BY <1>3, <1>4
<1>7. CASE c \in Digits /\ move = Move(InDigits, TRUE, Unknown)
  <2>1. move.to = InDigits /\ move.reset = TRUE /\ move.token = Unknown
    BY Zenon, <1>7 DEF Move
  <2>2. DigitText(w)
    BY <1>5, <1>7 DEF DigitText
  <2>3. Live(InDigits, u)
    BY <1>4, <2>2 DEF Live
  <2>4. InDigits # Finished
    BY Kinds
  <2>5. Complete(u) = Complete(t)
    BY <1>4
  <2> QED
    BY Zenon, <1>2, <1>6, <2>1, <2>3, <2>4, <2>5 DEF Advances
<1>8. CASE c = Slash /\ move = Move(InGenericWord, TRUE, Unknown)
  <2>1. move.to = InGenericWord /\ move.reset = TRUE /\ move.token = Unknown
    BY Zenon, <1>8 DEF Move
  <2>2. PathText(w)
    BY <1>1, <1>5, <1>8 DEF PathText
  <2>3. Live(InGenericWord, u)
    BY <1>4, <2>2 DEF Live
  <2>4. InGenericWord # Finished
    BY Kinds
  <2>5. Complete(u) = Complete(t)
    BY <1>4
  <2> QED
    BY Zenon, <1>2, <1>6, <2>1, <2>3, <2>4, <2>5 DEF Advances
<1>9. CASE <<c>> \in Stems /\ move = Move(Stem(<<c>>), TRUE, Unknown)
  <2>1. move.to = Stem(w) /\ move.token = Unknown
    BY Zenon, <1>3, <1>9 DEF Move
  <2>2. Live(Stem(w), u)
    BY <1>3, <1>4, <1>9 DEF Live
  <2>3. Stem(w) # Finished /\ Stem(w) # InDigits /\ Stem(w) # InGenericWord
    BY Kinds
  <2>4. Complete(u) = Complete(t)
    BY <1>4
  <2> QED
    BY Zenon, <1>2, <2>1, <2>2, <2>3, <2>4 DEF Advances
<1> QED
  BY Zenon, <1>7, <1>8, <1>9 DEF Begins

\* Behind a lexeme.
Left(state, t, token) ==
  IF Open(t) = <<>> THEN token = Unknown ELSE Reads(state, Open(t), token)

\* The char behind a field.
LEMMA LeaveStep ==
  ASSUME NEW t \in Texts, NEW c \in Int, NEW move, NEW state, NEW reset, NEW token,
         Rest(t) = <<>>, t # <<>>, Known(Complete(t)), Left(state, t, token),
         Leaves(c, reset, token, move)
  PROVE  Advances(state, move, t, Append(t, c), c)
<1>1. c = Space \/ c \in Stops
  BY Zenon DEF Leaves, Stops
<1>2. PICK u : u = Append(t, c)
  OBVIOUS
<1>3. Open(u) = <<>>
  BY <1>1, <1>2, ShapeSpace, ShapeStop
<1>4. Complete(u) = IF Open(t) = <<>> THEN Complete(t) ELSE Append(Complete(t), Open(t))
  BY <1>1, <1>2, ShapeSpace, ShapeStop
<1>5. Complete(t) \in Seq(Written) /\ Open(t) \in Texts
  BY ShapeFacts
<1>6. Known(Complete(u))
  <2>1. CASE Open(t) = <<>>
    BY <1>4, <2>1
  <2>2. CASE Open(t) # <<>>
    <3>1. PICK w \in Written : w = Open(t)
      BY <1>5, <2>2 DEF Written
    <3>2. PICK cs \in Seq(Written) : cs = Complete(t)
      BY <1>5
    <3>3. Reads(state, w, token)
      BY <2>2, <3>1 DEF Left
    <3>4. Meaning(w) # NoLexeme
      BY <3>3, ReadsFacts
    <3>5. Known(Append(cs, w))
      BY <3>2, <3>4, KnownAppend
    <3> QED
      BY <1>4, <2>2, <3>1, <3>2, <3>5
  <2> QED
    BY <2>1, <2>2
<1>7. IF token = Unknown THEN Complete(u) = Complete(t)
      ELSE Reads(state, Open(t), token) /\ Complete(u) = Append(Complete(t), Open(t))
  <2>1. CASE Open(t) = <<>>
    BY <1>4, <2>1 DEF Left
  <2>2. CASE Open(t) # <<>>
    <3>1. Reads(state, Open(t), token)
      BY <2>2 DEF Left
    <3>2. token # Unknown
      BY <3>1, ReadsFacts
    <3> QED
      BY <1>4, <2>2, <3>1, <3>2
  <2> QED
    BY <2>1, <2>2
<1>8. u # <<>> /\ u \in Texts
  BY <1>2, TextAppend
<1>9. CASE c = Space /\ move = Move(InSpace, reset, token)
  <2>1. move.to = InSpace /\ move.token = token
    BY Zenon, <1>9 DEF Move
  <2>2. Rest(u) = <<>>
    BY <1>2, <1>9, ShapeSpace
  <2>3. Live(InSpace, u)
    BY <1>3, <1>6, <1>8, <2>2 DEF Live
  <2>4. InSpace # Finished /\ InSpace # InDigits /\ InSpace # InGenericWord
    BY Kinds
  <2> QED
    BY Zenon, <1>2, <1>7, <2>1, <2>3, <2>4 DEF Advances
<1>10. CASE c = Terminator[1] /\ move = Move(Ending(<<c>>), reset, token)
  <2>1. move.to = Ending(<<c>>) /\ move.token = token
    BY Zenon, <1>10 DEF Move
  <2>2. PICK e : e = <<c>>
    OBVIOUS
  <2>3. e \in Parts(Terminator) /\ e # Terminator
    BY <1>10, <2>2, TerminatorFacts, GrammarAssumption
  <2>4. c \in Stops
    BY <1>10 DEF Stops
  <2>5. Rest(u) = e /\ Lead(u) # <<>>
    BY <1>2, <2>2, <2>4, ShapeStop
  <2>6. Live(Ending(e), u)
    BY <1>6, <2>3, <2>5 DEF Live
  <2>7. Ending(e) # Finished /\ Ending(e) # InDigits /\ Ending(e) # InGenericWord
    BY Kinds
  <2> QED
    BY Zenon, <1>2, <1>7, <2>1, <2>2, <2>6, <2>7 DEF Advances
<1>11. CASE c = NUL /\ move = Move(Finished, reset, token)
  <2>1. move.to = Finished /\ move.token = token
    BY Zenon, <1>11 DEF Move
  <2>2. c \in Stops
    BY <1>11 DEF Stops
  <2>3. Rest(u) = <<c>> /\ Lead(u) # <<>>
    BY <1>2, <2>2, ShapeStop
  <2>4. IsHeader(u)
    BY <1>3, <1>6, <1>8, <1>11, <2>3, ViableShape DEF IsHeader, Known
  <2>5. Finished # InDigits /\ Finished # InGenericWord
    BY Kinds
  <2> QED
    BY Zenon, <1>2, <1>7, <2>1, <2>4, <2>5 DEF Advances
<1> QED
  BY Zenon, <1>9, <1>10, <1>11 DEF Leaves

\* A char of the terminator.
LEMMA EndStep ==
  ASSUME NEW t \in Texts, NEW c \in EndChars, NEW move, NEW state,
         NEW e \in Parts(Terminator), Lead(t) # <<>>, Rest(t) = e, Known(Complete(t)),
         Append(e, c) \in Parts(Terminator),
         move = Move(IF Append(e, c) = Terminator THEN Finished ELSE Ending(Append(e, c)),
                     TRUE, Unknown)
  PROVE  Advances(state, move, t, Append(t, c), c)
<1>1. PICK d \in Int : d = c
  BY DEF EndChars
<1>2. PICK u : u = Append(t, d)
  OBVIOUS
<1>3. PICK f : f = Append(e, c)
  OBVIOUS
<1>4. e # <<>>
  <2>1. PICK w \in Seq(EndChars) : w = Terminator
    BY TerminatorFacts, GrammarAssumption
  <2> QED
    BY <2>1, PartFacts
<1>5. Rest(u) = f /\ Lead(u) = Lead(t) /\ Open(u) = <<>> /\ Complete(u) = Complete(t)
  BY <1>1, <1>2, <1>3, <1>4, ShapeRest
<1>6. move.to = (IF f = Terminator THEN Finished ELSE Ending(f)) /\ move.token = Unknown
  BY Zenon, <1>3 DEF Move
<1>7. u \in Texts
  BY <1>2, TextAppend
<1>8. CASE f = Terminator
  <2>1. IsHeader(u)
    BY <1>3, <1>5, <1>7, <1>8, ViableShape DEF IsHeader, Known
  <2>2. Finished # InDigits /\ Finished # InGenericWord
    BY Kinds
  <2>3. move.to = Finished
    BY Zenon, <1>6, <1>8
  <2>4. Complete(u) = Complete(t) /\ u = Append(t, c) /\ move.token = Unknown
    BY Zenon, <1>1, <1>2, <1>5, <1>6
  <2> QED
    BY Zenon, <2>1, <2>2, <2>3, <2>4 DEF Advances
<1>9. CASE f # Terminator
  <2>1. f \in Parts(Terminator)
    BY Zenon, <1>3
  <2>2. Live(Ending(f), u)
    BY Zenon, <1>5, <1>9, <2>1 DEF Live
  <2>3. Ending(f) # Finished /\ Ending(f) # InDigits /\ Ending(f) # InGenericWord
    BY Zenon, Kinds
  <2>4. move.to = Ending(f)
    BY Zenon, <1>6, <1>9
  <2>5. Complete(u) = Complete(t) /\ u = Append(t, c) /\ move.token = Unknown
    BY Zenon, <1>1, <1>2, <1>5, <1>6
  <2> QED
    BY Zenon, <2>2, <2>3, <2>4, <2>5 DEF Advances
<1> QED
  BY Zenon, <1>8, <1>9

\* Where a stream is not left, it may become a header and is none.
LEMMA LiveViable ==
  ASSUME NEW t \in Texts, NEW state, Live(state, t)
  PROVE  Viable(t) /\ ~IsHeader(t) /\ state \notin {InvalidState, Finished, Crashed}
<1>1. \A n \in DOMAIN Complete(t) : Meaning(Complete(t)[n]) # NoLexeme
  BY DEF Live, Known
<1>2. Terminator # <<>> /\ Terminator[1] # NUL
  BY TerminatorFacts, StopsFacts, GrammarAssumption
<1>3. ASSUME Rest(t) = <<>>, Open(t) # <<>> => Promising(Open(t))
      PROVE  Viable(t) /\ ~IsHeader(t)
  <2>1. Viable(t)
    BY <1>1, <1>3, ViableShape DEF Promising
  <2> QED
    BY <1>2, <1>3, <2>1 DEF IsHeader
<1>4. CASE state = Start /\ t = <<>>
  BY <1>3, <1>4, ShapeEmpty, Kinds
<1>5. CASE state = InSpace /\ Rest(t) = <<>> /\ Open(t) = <<>>
  BY <1>3, <1>5, Kinds
<1>6. CASE state = InDigits /\ Rest(t) = <<>> /\ DigitText(Open(t))
  <2>1. Promising(Open(t))
    BY <1>6, MeaningOfDigits DEF Promising
  <2> QED
    BY <1>3, <1>6, <2>1, Kinds
<1>7. CASE state = InGenericWord /\ Rest(t) = <<>> /\ PathText(Open(t))
  <2>1. Promising(Open(t))
    BY <1>7, MeaningOfPath DEF Promising
  <2> QED
    BY <1>3, <1>7, <2>1, Kinds
<1>8. ASSUME NEW w \in Stems, state = Stem(w), Rest(t) = <<>>, Open(t) = w
      PROVE  Viable(t) /\ ~IsHeader(t) /\ state \notin {InvalidState, Finished, Crashed}
  <2>1. Promising(Open(t))
    BY <1>8 DEF Promising
  <2> QED
    BY <1>3, <1>8, <2>1, Kinds
<1>9. ASSUME NEW e \in Parts(Terminator), e # Terminator, state = Ending(e),
             Lead(t) # <<>>, Rest(t) = e
      PROVE  Viable(t) /\ ~IsHeader(t) /\ state \notin {InvalidState, Finished, Crashed}
  <2>1. PICK w \in Seq(EndChars) : w = Terminator
    BY TerminatorFacts, GrammarAssumption
  <2>2. e \in Seq(EndChars) /\ e # <<>> /\ e[1] = w[1]
    BY <2>1, PartFacts
  <2>3. e # <<NUL>>
    BY <1>2, <2>1, <2>2
  <2>4. Open(t) = <<>>
    BY <1>9, <2>2, ShapeFacts DEF Unfinished
  <2>5. Viable(t)
    BY <1>1, <1>9, <2>4, ViableShape
  <2> QED
    BY <1>9, <2>3, <2>5, Kinds DEF IsHeader
<1> QED
  BY <1>4, <1>5, <1>6, <1>7, <1>8, <1>9 DEF Live

\* A space behind nothing.
LEMMA SpaceStep ==
  ASSUME NEW t \in Texts, NEW move, NEW state, Rest(t) = <<>>, Open(t) = <<>>,
         Known(Complete(t)), move = Move(InSpace, TRUE, Unknown)
  PROVE  Advances(state, move, t, Append(t, Space), Space)
<1>1. PICK u : u = Append(t, Space)
  OBVIOUS
<1>2. Rest(u) = <<>> /\ Open(u) = <<>> /\ Complete(u) = Complete(t)
  BY <1>1, ShapeSpace
<1>3. u # <<>>
  <2>1. PICK c \in Int : c = Space
    BY DEF Space
  <2> QED
    BY <1>1, <2>1, TextAppend
<1>4. Live(InSpace, u)
  BY Zenon, <1>2, <1>3 DEF Live
<1>5. InSpace # Finished /\ InSpace # InDigits /\ InSpace # InGenericWord
  BY Kinds
<1>6. move.to = InSpace /\ move.token = Unknown
  BY Zenon DEF Move
<1> QED
  BY Zenon, <1>1, <1>2, <1>4, <1>5, <1>6 DEF Advances

\* One more char of a lexeme.
LEMMA LexemeStep ==
  ASSUME NEW t \in Texts, NEW c \in WordChars, NEW move, NEW state,
         Rest(t) = <<>>, Known(Complete(t)),
         \/ /\ state = InDigits /\ DigitText(Open(t)) /\ c \in Digits
            /\ move = Move(InDigits, FALSE, Unknown)
         \/ /\ state = InGenericWord /\ PathText(Open(t))
            /\ move = Move(InGenericWord, FALSE, Unknown)
         \/ \E w \in Stems : /\ Open(t) = w /\ Append(w, c) \in Stems
                             /\ move = Move(Stem(Append(w, c)), TRUE, Unknown)
  PROVE  Advances(state, move, t, Append(t, c), c)
<1>1. PICK u : u = Append(t, c)
  OBVIOUS
<1>2. c \in Int /\ c \notin Stops /\ c # Space
  BY WordCharGoesOn
<1>3. PICK w \in Texts : w = Open(t)
  BY ShapeFacts
<1>4. PICK v : v = Append(w, c)
  OBVIOUS
<1>5. Rest(u) = <<>> /\ Open(u) = v /\ Complete(u) = Complete(t)
  BY <1>1, <1>2, <1>3, <1>4, ShapeChar
<1>6. /\ v \in Texts /\ v # <<>> /\ Len(w) \in Nat /\ Len(v) = Len(w) + 1 /\ v[Len(w) + 1] = c
      /\ \A i \in 1..Len(w) : v[i] = w[i]
  BY <1>2, <1>4, TextAppend
<1>7. Known(Complete(u))
  BY <1>5
<1>8. /\ InDigits # Finished /\ InGenericWord # Finished /\ Stem(v) # Finished
      /\ Stem(v) # InDigits /\ Stem(v) # InGenericWord
  BY Kinds
<1>9. Open(u) = Append(Open(t), c) /\ Complete(u) = Complete(t)
  BY <1>3, <1>4, <1>5
<1>10. CASE /\ state = InDigits /\ DigitText(Open(t)) /\ c \in Digits
            /\ move = Move(InDigits, FALSE, Unknown)
  <2>1. move.to = InDigits /\ move.reset = FALSE /\ move.token = Unknown
    BY Zenon, <1>10 DEF Move
  <2>2. \A i \in 1..Len(v) : v[i] \in Digits
    <3> SUFFICES ASSUME NEW i \in 1..Len(v)
                 PROVE  v[i] \in Digits
      OBVIOUS
    <3>1. i \in 1..Len(w) \/ i = Len(w) + 1
      BY <1>6
    <3>2. \A j \in 1..Len(w) : w[j] \in Digits
      BY <1>3, <1>10 DEF DigitText
    <3>3. c \in Digits
      BY <1>10
    <3> QED
      BY <1>6, <3>1, <3>2, <3>3
  <2>3. DigitText(v)
    BY <1>6, <2>2 DEF DigitText
  <2>4. Live(InDigits, u)
    BY Zenon, <1>5, <1>7, <2>3 DEF Live
  <2> QED
    BY Zenon, <1>1, <1>8, <1>9, <1>10, <2>1, <2>4 DEF Advances
<1>11. CASE /\ state = InGenericWord /\ PathText(Open(t))
            /\ move = Move(InGenericWord, FALSE, Unknown)
  <2>1. move.to = InGenericWord /\ move.reset = FALSE /\ move.token = Unknown
    BY Zenon, <1>11 DEF Move
  <2>2. w # <<>> /\ w[1] = Slash /\ \A j \in 1..Len(w) : w[j] \in WordChars
    BY <1>3, <1>11 DEF PathText
  <2>3. \A i \in 1..Len(v) : v[i] \in WordChars
    <3> SUFFICES ASSUME NEW i \in 1..Len(v)
                 PROVE  v[i] \in WordChars
      OBVIOUS
    <3>1. i \in 1..Len(w) \/ i = Len(w) + 1
      BY <1>6
    <3> QED
      BY <1>6, <2>2, <3>1
  <2>4. v[1] = Slash
    BY <1>6, <2>2, WrittenSet
  <2>5. PathText(v)
    BY <1>6, <2>3, <2>4 DEF PathText
  <2>6. Live(InGenericWord, u)
    BY Zenon, <1>5, <1>7, <2>5 DEF Live
  <2> QED
    BY Zenon, <1>1, <1>8, <1>9, <1>11, <2>1, <2>6 DEF Advances
<1>12. CASE \E s \in Stems : /\ Open(t) = s /\ Append(s, c) \in Stems
                             /\ move = Move(Stem(Append(s, c)), TRUE, Unknown)
  <2>1. v \in Stems /\ move = Move(Stem(v), TRUE, Unknown)
    BY Zenon, <1>3, <1>4, <1>12
  <2>2. move.to = Stem(v) /\ move.token = Unknown
    BY Zenon, <2>1 DEF Move
  <2>3. Live(Stem(v), u)
    BY Zenon, <1>5, <1>7, <2>1 DEF Live
  <2> QED
    BY Zenon, <1>1, <1>8, <1>9, <2>2, <2>3 DEF Advances
<1> QED
  BY Zenon, <1>10, <1>11, <1>12

\* Every edge of the graph takes the texts of its state to those of the next.
LEMMA GoStep ==
  ASSUME NEW t \in Texts, NEW c \in Int, NEW move, NEW state, Live(state, t),
         Goes(state, c, move)
  PROVE  Advances(state, move, t, Append(t, c), c)
<1>1. Known(Complete(t))
  BY DEF Live
<1>2. CASE state = Start /\ t = <<>>
  <2>1. Rest(t) = <<>> /\ Open(t) = <<>>
    BY <1>2, ShapeEmpty
  <2>2. Begins(c, move) \/ (c = Space /\ move = Move(InSpace, TRUE, Unknown))
    BY Zenon, <1>2, Kinds DEF Goes
  <2>3. CASE Begins(c, move)
    BY Zenon, <1>1, <2>1, <2>3, BeginStep
  <2>4. CASE c = Space /\ move = Move(InSpace, TRUE, Unknown)
    BY Zenon, <1>1, <2>1, <2>4, SpaceStep
  <2> QED
    BY Zenon, <2>2, <2>3, <2>4
<1>3. CASE state = InSpace /\ t # <<>> /\ Rest(t) = <<>> /\ Open(t) = <<>>
  <2>1. Begins(c, move) \/ Leaves(c, TRUE, Unknown, move)
    BY Zenon, <1>3, Kinds DEF Goes
  <2>2. CASE Begins(c, move)
    BY Zenon, <1>1, <1>3, <2>2, BeginStep
  <2>3. CASE Leaves(c, TRUE, Unknown, move)
    <3>1. Left(state, t, Unknown)
      BY Zenon, <1>3 DEF Left
    <3> QED
      BY Zenon, <1>1, <1>3, <2>3, <3>1, LeaveStep
  <2> QED
    BY Zenon, <2>1, <2>2, <2>3
<1>4. CASE state = InDigits /\ Rest(t) = <<>> /\ DigitText(Open(t))
  <2>1. \/ c \in Digits /\ move = Move(InDigits, FALSE, Unknown)
        \/ Leaves(c, FALSE, "Size", move)
    BY Zenon, <1>4, Kinds DEF Goes
  <2>2. CASE c \in Digits /\ move = Move(InDigits, FALSE, Unknown)
    <3>1. c \in WordChars
      BY <2>2, CharKinds
    <3> QED
      BY Zenon, <1>1, <1>4, <2>2, <3>1, LexemeStep
  <2>3. CASE Leaves(c, FALSE, "Size", move)
    <3>1. Open(t) # <<>> /\ Reads(state, Open(t), "Size")
      BY <1>4 DEF Reads, DigitText
    <3>2. Left(state, t, "Size") /\ t # <<>>
      BY <3>1, ShapeEmpty DEF Left
    <3> QED
      BY Zenon, <1>1, <1>4, <2>3, <3>2, LeaveStep
  <2> QED
    BY Zenon, <2>1, <2>2, <2>3
<1>5. CASE state = InGenericWord /\ Rest(t) = <<>> /\ PathText(Open(t))
  <2>1. \/ c \in WordChars /\ move = Move(InGenericWord, FALSE, Unknown)
        \/ Leaves(c, FALSE, "Path", move)
    BY Zenon, <1>5, Kinds DEF Goes
  <2>2. CASE c \in WordChars /\ move = Move(InGenericWord, FALSE, Unknown)
    BY Zenon, <1>1, <1>5, <2>2, LexemeStep
  <2>3. CASE Leaves(c, FALSE, "Path", move)
    <3>1. Open(t) # <<>> /\ Reads(state, Open(t), "Path")
      BY <1>5 DEF Reads, PathText
    <3>2. Left(state, t, "Path") /\ t # <<>>
      BY <3>1, ShapeEmpty DEF Left
    <3> QED
      BY Zenon, <1>1, <1>5, <2>3, <3>2, LeaveStep
  <2> QED
    BY Zenon, <2>1, <2>2, <2>3
<1>6. ASSUME NEW w \in Stems, state = Stem(w), Rest(t) = <<>>, Open(t) = w
      PROVE  Advances(state, move, t, Append(t, c), c)
  <2>1. \/ /\ c \in WordChars /\ Append(w, c) \in Stems
           /\ move = Move(Stem(Append(w, c)), TRUE, Unknown)
        \/ \E k \in Keywords : w = Words[k] /\ Leaves(c, TRUE, k, move)
    BY Zenon, <1>6, Kinds DEF Goes
  <2>2. CASE /\ c \in WordChars /\ Append(w, c) \in Stems
             /\ move = Move(Stem(Append(w, c)), TRUE, Unknown)
    BY Zenon, <1>1, <1>6, <2>2, LexemeStep
  <2>3. ASSUME NEW k \in Keywords, w = Words[k], Leaves(c, TRUE, k, move)
        PROVE  Advances(state, move, t, Append(t, c), c)
    <3>1. Open(t) # <<>> /\ Reads(state, Open(t), k)
      BY <1>6, <2>3, WordFacts, GrammarAssumption DEF Reads
    <3>2. Left(state, t, k) /\ t # <<>>
      BY <3>1, ShapeEmpty DEF Left
    <3> QED
      BY Zenon, <1>1, <1>6, <2>3, <3>2, LeaveStep
  <2> QED
    BY Zenon, <2>1, <2>2, <2>3
<1>7. ASSUME NEW e \in Parts(Terminator), e # Terminator, state = Ending(e),
             Lead(t) # <<>>, Rest(t) = e
      PROVE  Advances(state, move, t, Append(t, c), c)
  <2>1. /\ c \in EndChars /\ Append(e, c) \in Parts(Terminator)
        /\ move = Move(IF Append(e, c) = Terminator THEN Finished ELSE Ending(Append(e, c)),
                       TRUE, Unknown)
    BY Zenon, <1>7, Kinds DEF Goes
  <2> QED
    BY Zenon, <1>1, <1>7, <2>1, EndStep
<1> QED
  BY Zenon, <1>2, <1>3, <1>4, <1>5, <1>6, <1>7 DEF Live

\* A field that has no meaning and may not get one.
LEMMA FieldSpoilt ==
  ASSUME NEW t \in Texts, NEW c \in Int, NEW w \in Texts, Rest(t) = <<>>, Open(t) = w,
         c \notin Stops, c # Space, ~Promising(Append(w, c))
  PROVE  ~Viable(Append(t, c))
<1>1. PICK u : u = Append(t, c)
  OBVIOUS
<1>2. Open(u) = Append(w, c) /\ Append(w, c) # <<>> /\ u \in Texts
  BY <1>1, ShapeChar, TextAppend
<1> QED
  BY <1>1, <1>2, ViableShape DEF Promising

\* The char that goes on with a field decides as its first one does.
LEMMA PromisingGrown ==
  ASSUME NEW w \in Texts, NEW c \in Int, w # <<>>, Promising(Append(w, c))
  PROVE  \/ Append(w, c) \in Stems /\ c \in WordChars /\ w[1] \notin Digits \cup {Slash}
         \/ c \in Digits /\ w[1] \in Digits
         \/ c \in WordChars /\ w[1] = Slash
<1>1. PICK v \in Written : v = Append(w, c)
  BY WrittenFacts
<1>2. Len(w) \in Nat /\ 1 \in 1..Len(w) /\ v[1] = w[1] /\ v[Len(w) + 1] = c /\ Len(v) = Len(w) + 1
  <2>1. Len(w) \in Nat /\ 1 \in 1..Len(w)
    BY WrittenSet
  <2>2. PICK a : a = Append(w, c)
    OBVIOUS
  <2>3. Len(a) = Len(w) + 1 /\ a[Len(w) + 1] = c /\ \A i \in 1..Len(w) : a[i] = w[i]
    BY <2>2, TextAppend
  <2> QED
    BY <1>1, <2>1, <2>2, <2>3
<1>3. Len(w) + 1 \in 1..Len(v)
  BY <1>2
<1>4. CASE v \in Stems
  <2>1. v \in Seq(WordChars) /\ v[1] \notin Digits /\ v[1] # Slash
    BY <1>4, StemFacts, GrammarAssumption
  <2>2. v[Len(w) + 1] \in WordChars
    BY <1>3, <2>1, ElementOfSeq
  <2> QED
    BY <1>1, <1>2, <1>4, <2>1, <2>2
<1>5. CASE DigitText(v)
  BY <1>2, <1>3, <1>5 DEF DigitText
<1>6. CASE PathText(v)
  BY <1>2, <1>3, <1>6 DEF PathText
<1> QED
  BY <1>1, <1>4, <1>5, <1>6, PromisingCases

\* Where a field begins or a lexeme ends.
LEMMA NotBegun ==
  ASSUME NEW t \in Texts, NEW c \in Int, Rest(t) = <<>>, Open(t) = <<>>,
         c \notin Stops, c # Space, \A move : ~Begins(c, move)
  PROVE  ~Viable(Append(t, c))
<1>1. PICK v \in Written : v = <<c>> /\ v = Append(<<>>, c)
  BY WrittenFacts
<1>2. v \in Texts /\ Len(v) = 1 /\ v[1] = c /\ <<>> \in Texts
  BY <1>1 DEF Written, Texts
<1>3. c \notin Digits /\ c # Slash /\ v \notin Stems
  BY Zenon, <1>1 DEF Begins
<1>4. ~DigitText(v) /\ ~PathText(v)
  BY <1>2, <1>3 DEF DigitText, PathText
<1>5. ~Promising(v)
  BY <1>3, <1>4, PromisingCases
<1> QED
  BY <1>1, <1>2, <1>5, FieldSpoilt

\* A char that ends no field goes on with it.
LEMMA NotLeft ==
  ASSUME NEW c, NEW reset, NEW token, \A move : ~Leaves(c, reset, token, move)
  PROVE  c \notin Stops /\ c # Space
BY Zenon DEF Leaves, Stops

\* Where the graph has no edge for a char, no header begins with the text.
LEMMA NoGoStep ==
  ASSUME NEW t \in Texts, NEW c \in Int, NEW state, Live(state, t),
         \A move : ~Goes(state, c, move)
  PROVE  ~Viable(Append(t, c))
<1>1. CASE state = Start /\ t = <<>>
  <2>1. Rest(t) = <<>> /\ Open(t) = <<>>
    BY <1>1, ShapeEmpty
  <2>2. \A move : ~Begins(c, move)
    BY Zenon, <1>1 DEF Goes
  <2>3. c # Space
    BY Zenon, <1>1 DEF Goes
  <2>4. CASE c \in Stops
    <3>1. PICK u : u = Append(t, c)
      OBVIOUS
    <3>2. u \in Texts /\ Rest(u) = <<c>> /\ Lead(u) = <<>>
      BY <1>1, <2>1, <2>4, <3>1, ShapeStop, TextAppend
    <3> QED
      BY <3>1, <3>2, ViableShape
  <2>5. CASE c \notin Stops
    BY <2>1, <2>2, <2>3, <2>5, NotBegun
  <2> QED
    BY <2>4, <2>5
<1>2. CASE state = InSpace /\ t # <<>> /\ Rest(t) = <<>> /\ Open(t) = <<>>
  <2>1. \A move : ~Begins(c, move) /\ ~Leaves(c, TRUE, Unknown, move)
    BY Zenon, <1>2 DEF Goes
  <2>2. c \notin Stops /\ c # Space
    BY Zenon, <2>1, NotLeft
  <2> QED
    BY <1>2, <2>1, <2>2, NotBegun
<1>3. CASE state = InDigits /\ Rest(t) = <<>> /\ DigitText(Open(t))
  <2>1. \A move : ~Leaves(c, FALSE, "Size", move)
    BY Zenon, <1>3 DEF Goes
  <2>2. c \notin Digits
    BY Zenon, <1>3 DEF Goes
  <2>3. c \notin Stops /\ c # Space
    BY Zenon, <2>1, NotLeft
  <2>4. PICK w \in Texts : w = Open(t) /\ w # <<>> /\ w[1] \in Digits
    BY <1>3, WrittenSet DEF DigitText
  <2>5. ~Promising(Append(w, c))
    <3>1. Slash \notin Digits
      BY DEF Slash, Digits
    <3> QED
      BY <2>2, <2>4, <3>1, PromisingGrown
  <2> QED
    BY <1>3, <2>3, <2>4, <2>5, FieldSpoilt
<1>4. CASE state = InGenericWord /\ Rest(t) = <<>> /\ PathText(Open(t))
  <2>1. \A move : ~Leaves(c, FALSE, "Path", move)
    BY Zenon, <1>4 DEF Goes
  <2>2. c \notin WordChars
    BY Zenon, <1>4 DEF Goes
  <2>3. c \notin Stops /\ c # Space
    BY Zenon, <2>1, NotLeft
  <2>4. PICK w \in Texts : w = Open(t) /\ w # <<>> /\ w[1] = Slash
    BY <1>4 DEF PathText
  <2>5. ~Promising(Append(w, c))
    <3>1. Slash \notin Digits
      BY DEF Slash, Digits
    <3> QED
      BY <2>2, <2>4, <3>1, PromisingGrown
  <2> QED
    BY <1>4, <2>3, <2>4, <2>5, FieldSpoilt
<1>5. ASSUME NEW w \in Stems, state = Stem(w), Rest(t) = <<>>, Open(t) = w
      PROVE  ~Viable(Append(t, c))
  <2>1. w \in Written /\ w \in Texts /\ w # <<>> /\ w[1] \notin Digits /\ w[1] # Slash
    BY <1>5, StemFacts, GrammarAssumption, ShapeFacts DEF Written
  <2>2. ASSUME c \in WordChars
        PROVE  Append(w, c) \notin Stems
    BY Zenon, <1>5, <2>2 DEF Goes
  <2>3. CASE c \in Stops \/ c = Space
    <3>1. \A k \in Keywords : Words[k] # w
      <4> SUFFICES ASSUME NEW k \in Keywords, Words[k] = w
                   PROVE  FALSE
        OBVIOUS
      <4>1. \A move : ~Leaves(c, TRUE, k, move)
        BY Zenon, <1>5 DEF Goes
      <4> QED
        BY Zenon, <2>3, <4>1, NotLeft
    <3>2. ~DigitText(w) /\ ~PathText(w)
      BY <2>1, WrittenSet DEF DigitText, PathText
    <3>3. Meaning(w) = NoLexeme
      BY <2>1, <3>1, <3>2, MeaningCases
    <3>4. PICK u : u = Append(t, c)
      OBVIOUS
    <3>5. u \in Texts
      BY <3>4, TextAppend
    <3>6. Complete(u) = Append(Complete(t), w)
      BY <1>5, <2>1, <2>3, <3>4, ShapeSpace, ShapeStop
    <3>7. PICK cs \in Seq(Written) : cs = Complete(t)
      BY ShapeFacts
    <3>8. PICK l \in Nat : l = Len(cs)
      BY LenProperties
    <3>9. PICK a : a = Append(cs, w)
      OBVIOUS
    <3>10. a \in Seq(Written) /\ Len(a) = l + 1 /\ a[l + 1] = w
      BY <2>1, <3>8, <3>9, AppendProperties
    <3>11. l + 1 \in DOMAIN a
      BY <3>10, LenProperties
    <3> QED
      BY <3>3, <3>4, <3>5, <3>6, <3>7, <3>9, <3>10, <3>11, ViableShape
  <2>4. CASE c \notin Stops /\ c # Space
    <3>1. ~Promising(Append(w, c))
      BY <2>1, <2>2, PromisingGrown
    <3> QED
      BY <1>5, <2>1, <2>4, <3>1, FieldSpoilt
  <2> QED
    BY <2>3, <2>4
<1>6. ASSUME NEW e \in Parts(Terminator), e # Terminator, state = Ending(e),
             Lead(t) # <<>>, Rest(t) = e
      PROVE  ~Viable(Append(t, c))
  <2>1. PICK w \in Seq(EndChars) : w = Terminator
    BY TerminatorFacts, GrammarAssumption
  <2>2. e \in Seq(EndChars) /\ e # <<>> /\ Len(e) \in Nat
    BY <2>1, PartFacts, LenProperties
  <2>3. PICK u : u = Append(t, c)
    OBVIOUS
  <2>4. PICK f : f = Append(e, c)
    OBVIOUS
  <2>5. u \in Texts /\ Rest(u) = f
    BY <1>6, <2>2, <2>3, <2>4, ShapeRest, TextAppend
  <2>6. e \in Texts
    BY <1>6, LeadRest
  <2>7. Len(f) = Len(e) + 1 /\ f[Len(e) + 1] = c /\ Len(e) # 0 /\ f # <<>>
    BY <2>2, <2>4, <2>6, TextAppend, EmptySeq
  <2>8. f # <<NUL>>
    <3>1. Len(<<NUL>>) = 1
      OBVIOUS
    <3> QED
      BY <2>2, <2>7, <3>1
  <2>9. f \notin Parts(Terminator)
    <3> SUFFICES ASSUME f \in Parts(Terminator)
                 PROVE  FALSE
      OBVIOUS
    <3>1. f \in Seq(EndChars)
      BY <2>1, PartFacts
    <3>2. Len(e) + 1 \in 1..Len(f)
      BY <2>2, <2>7
    <3>3. c \in EndChars
      BY <2>7, <3>1, <3>2, ElementOfSeq
    <3>4. Append(e, c) \in Parts(Terminator)
      BY <2>4
    <3> QED
      BY Zenon, <1>6, <3>3, <3>4 DEF Goes
  <2> QED
    BY <2>3, <2>5, <2>7, <2>8, <2>9, ViableShape
<1> QED
  BY Zenon, <1>1, <1>2, <1>3, <1>4, <1>5, <1>6 DEF Live

-----------------------------------------------------------------------------
(* The graph and the memory.                                                 *)

\* The chars of a text are in the buffer from a place on.
Holds(k, at, w) == \A i \in 1..Len(w) : k.buffer[at + i - 1] = w[i]

\* The string of a path, in the part of the buffer that is not written any more.
KeepsPath(k, place, w) ==
  /\ PathText(w) /\ place.block = k.block /\ place.at \in Nat
  /\ place.at + Len(w) < k.startOfCurrent
  /\ Holds(k, place.at, w) /\ k.buffer[place.at + Len(w)] = NUL

\* A token is the meaning of a field.
IsRead(k, token, w) ==
  /\ token.id = Meaning(w).id /\ token.size = Meaning(w).size
  /\ token.id = "Path" => KeepsPath(k, token.place, w)

HasRead(k, fields) ==
  /\ Len(k.tokens) = Len(fields)
  /\ \A n \in 1..Len(fields) : IsRead(k, k.tokens[n], fields[n])

\* What has been recorded of a field that may go on.
Records(k, w) ==
  /\ k.state = InDigits => k.numberValue = Number(w) % Modulus
  /\ k.state = InGenericWord =>
       k.bufferCursor = k.startOfCurrent + Len(w) /\ Holds(k, k.startOfCurrent, w)

Tracks(k, t) ==
  /\ TokenizerOK(k) /\ Live(k.state, t)
  /\ HasRead(k, Complete(t)) /\ Records(k, Open(t))

\* A path in the buffer is kept by what writes behind it.
LEMMA PathKept ==
  ASSUME NEW k, NEW p, NEW w, NEW at \in Nat, NEW s \in Nat, NEW r \in Nat,
         s = k.startOfCurrent, r = p.startOfCurrent, s <= r,
         SameChars(k, p, s), KeepsPath(k, [block |-> k.block, at |-> at], w)
  PROVE  KeepsPath(p, [block |-> p.block, at |-> at], w)
<1>1. /\ PathText(w) /\ at + Len(w) < s
      /\ \A i \in 1..Len(w) : k.buffer[at + i - 1] = w[i]
      /\ k.buffer[at + Len(w)] = NUL
  BY DEF KeepsPath, Holds
<1>2. PICK l \in Nat : l = Len(w)
  BY <1>1, WrittenSet DEF PathText
<1>3. \A i \in 0..s - 1 : p.buffer[i] = k.buffer[i]
  BY DEF SameChars
<1>4. ASSUME NEW i \in 1..l
      PROVE  p.buffer[at + i - 1] = w[i]
  <2>1. at + i - 1 \in 0..s - 1
    BY <1>1, <1>2
  <2> QED
    BY <1>1, <1>2, <1>3, <2>1
<1>5. p.buffer[at + l] = NUL
  <2>1. at + l \in 0..s - 1
    BY <1>1, <1>2
  <2> QED
    BY <1>1, <1>2, <1>3, <2>1
<1> QED
  BY <1>1, <1>2, <1>4, <1>5 DEF KeepsPath, Holds

\* A path is kept at the place of its token.
LEMMA PlaceIs ==
  ASSUME NEW k, NEW token, NEW w
  PROVE  KeepsPath(k, token.place, w) <=>
           /\ token.place.block = k.block /\ token.place.at \in Nat
           /\ KeepsPath(k, [block |-> k.block, at |-> token.place.at], w)
BY DEF KeepsPath

\* The tokens are not lost while others are recorded.
LEMMA ReadKept ==
  ASSUME NEW k, NEW p, TokenizerOK(k), TokenizerOK(p), NEW fields, HasRead(k, fields),
         SameTokens(k, p), SameChars(k, p, k.startOfCurrent),
         k.startOfCurrent <= p.startOfCurrent
  PROVE  \A n \in 1..Len(fields) : IsRead(p, p.tokens[n], fields[n])
<1> SUFFICES ASSUME NEW n \in 1..Len(fields)
             PROVE  IsRead(p, p.tokens[n], fields[n])
  OBVIOUS
<1>1. IsRead(k, k.tokens[n], fields[n]) /\ SameToken(k, p, n)
  BY DEF HasRead, SameTokens
<1>2. PICK a : a = k.tokens[n]
  OBVIOUS
<1>3. PICK b : b = p.tokens[n]
  OBVIOUS
<1>4. PICK w : w = fields[n]
  OBVIOUS
<1>5. b.id = a.id /\ b.size = a.size /\ a.id = Meaning(w).id /\ a.size = Meaning(w).size
  BY <1>1, <1>2, <1>3, <1>4 DEF IsRead, SameToken
<1>6. ASSUME a.id = "Path"
      PROVE  KeepsPath(p, b.place, w)
  <2>1. KeepsPath(k, a.place, w)
    BY <1>1, <1>2, <1>4, <1>6 DEF IsRead
  <2>2. a.place.block = k.block /\ a.place.at \in Nat
        /\ KeepsPath(k, [block |-> k.block, at |-> a.place.at], w)
    BY <2>1, PlaceIs
  <2>3. b.place.at = a.place.at /\ b.place.block = p.block
    BY <1>1, <1>2, <1>3, <1>6, <2>2 DEF SameToken
  <2>4. PICK at \in Nat : at = a.place.at
    BY <2>2
  <2>5. PICK s \in Nat : s = k.startOfCurrent
    BY TokenizerFields
  <2>6. PICK r \in Nat : r = p.startOfCurrent
    BY TokenizerFields
  <2>7. s <= r /\ SameChars(k, p, s) /\ KeepsPath(k, [block |-> k.block, at |-> at], w)
    BY <2>2, <2>4, <2>5, <2>6
  <2>8. KeepsPath(p, [block |-> p.block, at |-> at], w)
    BY <2>5, <2>6, <2>7, PathKept
  <2> QED
    BY <2>3, <2>4, <2>8, PlaceIs
<1> QED
  BY <1>3, <1>4, <1>5, <1>6 DEF IsRead

\* The fields read so far are kept by a turn that pushes no token,
LEMMA ReadKeptAll ==
  ASSUME NEW k, NEW p, TokenizerOK(k), TokenizerOK(p), NEW fields, HasRead(k, fields),
         SameTokens(k, p), SameChars(k, p, k.startOfCurrent),
         k.startOfCurrent <= p.startOfCurrent, Len(p.tokens) = Len(k.tokens)
  PROVE  HasRead(p, fields)
<1>1. \A n \in 1..Len(fields) : IsRead(p, p.tokens[n], fields[n])
  BY ReadKept
<1> QED
  BY <1>1 DEF HasRead

\* and one more is read by a turn that pushes one.
LEMMA ReadNext ==
  ASSUME NEW k, NEW p, TokenizerOK(k), TokenizerOK(p), NEW fields \in Seq(Written),
         HasRead(k, fields),
         SameTokens(k, p), SameChars(k, p, k.startOfCurrent),
         k.startOfCurrent <= p.startOfCurrent, Len(p.tokens) = Len(k.tokens) + 1,
         NEW w \in Written, IsRead(p, p.tokens[Len(k.tokens) + 1], w)
  PROVE  HasRead(p, Append(fields, w))
<1>1. \A n \in 1..Len(fields) : IsRead(p, p.tokens[n], fields[n])
  BY ReadKept
<1>2. PICK l \in Nat : l = Len(fields)
  BY LenProperties
<1>3. PICK a : a = Append(fields, w)
  OBVIOUS
<1>4. Len(a) = l + 1 /\ a[l + 1] = w /\ \A n \in 1..l : a[n] = fields[n]
  BY <1>2, <1>3, AppendProperties
<1>5. Len(k.tokens) = l
  BY <1>2 DEF HasRead
<1>6. ASSUME NEW n \in 1..l + 1
      PROVE  IsRead(p, p.tokens[n], a[n])
  <2>1. n \in 1..l \/ n = l + 1
    BY <1>2
  <2> QED
    BY <1>1, <1>2, <1>4, <1>5, <2>1
<1>7. Len(p.tokens) = Len(a) /\ \A n \in 1..Len(a) : IsRead(p, p.tokens[n], a[n])
  BY <1>4, <1>5, <1>6
<1> QED
  BY <1>3, <1>7 DEF HasRead

\* A turn that completes no token loses none.
LEMMA TurnKeeps ==
  ASSUME NEW k, TokenizerOK(k), NEW fields, HasRead(k, fields),
         NEW action \in Moves, action.token = Unknown, NEW char \in Int, NEW moves \in BOOLEAN,
         NEW p, p = Act(k, action, char, moves)
  PROVE  TokenizerOK(p) /\ p.state = action.to /\ HasRead(p, fields)
<1>1. PICK n : n = IF action.reset THEN k.startOfCurrent ELSE k.bufferCursor
  OBVIOUS
<1>2. /\ TokenizerOK(p)
      /\ p.state = action.to /\ p.startOfCurrent = k.startOfCurrent /\ SameChars(k, p, n)
      /\ Len(p.tokens) = Len(k.tokens) /\ SameTokens(k, p)
  BY <1>1, ActOnly, GrammarAssumption, TokenizerAssumption
<1>3. PICK s \in Nat : s = k.startOfCurrent
  BY TokenizerFields
<1>4. PICK b \in Nat : b = k.bufferCursor /\ s <= b
  BY <1>3, TokenizerFields
<1>5. n \in Nat /\ s <= n
  BY <1>1, <1>3, <1>4
<1>6. SameChars(k, p, s)
  BY <1>2, <1>5 DEF SameChars
<1>7. TokenizerOK(p)
  BY <1>2
<1>8. SameTokens(k, p) /\ SameChars(k, p, k.startOfCurrent)
      /\ k.startOfCurrent <= p.startOfCurrent /\ Len(p.tokens) = Len(k.tokens)
  BY <1>2, <1>3, <1>6
<1>9. HasRead(p, fields)
  BY <1>7, <1>8, ReadKeptAll
<1> QED
  BY <1>2, <1>9

\* A turn that goes on with a lexeme records its char.
LEMMA TurnRecords ==
  ASSUME NEW k, TokenizerOK(k), NEW w \in Texts, Records(k, w),
         NEW action \in Moves, action.token = Unknown, NEW char \in Int, NEW moves \in BOOLEAN,
         IF action.reset THEN w = <<>> ELSE k.state = action.to,
         action.to \in {InDigits, InGenericWord},
         NEW p, p = Act(k, action, char, moves)
  PROVE  Records(p, Append(w, char))
<1>1. PICK n : n = IF action.reset THEN k.startOfCurrent ELSE k.bufferCursor
  OBVIOUS
<1>2. /\ p.state = action.to /\ p.startOfCurrent = k.startOfCurrent
      /\ p.bufferCursor = n + 1 /\ p.buffer[n] = char /\ SameChars(k, p, n)
      /\ p.numberValue
           = (10 * (IF action.reset THEN 0 ELSE k.numberValue) + (char - 48)) % Modulus
  BY <1>1, ActOnly, GrammarAssumption, TokenizerAssumption
<1>3. PICK v : v = Append(w, char)
  OBVIOUS
<1>4. /\ Len(w) \in Nat /\ Len(v) = Len(w) + 1 /\ v[Len(w) + 1] = char
      /\ \A i \in 1..Len(w) : v[i] = w[i]
  BY <1>3, TextAppend
<1>5. ASSUME action.to = InDigits
      PROVE  p.numberValue = Number(v) % Modulus
  <2>1. PICK d \in Int : d = char - 48
    OBVIOUS
  <2>2. PICK m \in Nat \ {0} : m = Modulus
    BY TokenizerAssumption
  <2>3. PICK x \in Int : x = Number(w)
    BY NumberAppend
  <2>4. Number(v) = 10 * x + d
    BY <1>3, <2>1, <2>3, NumberAppend
  <2>5. CASE action.reset
    <3>1. x = 0
      BY <2>3, <2>5, NumberEmpty
    <3>2. p.numberValue = (10 * 0 + d) % m
      BY <1>2, <2>1, <2>2, <2>5
    <3> QED
      BY <2>2, <2>4, <3>1, <3>2
  <2>6. CASE ~action.reset
    <3>1. k.numberValue = x % m
      BY <1>5, <2>2, <2>3, <2>6 DEF Records
    <3>2. p.numberValue = (10 * (x % m) + d) % m
      BY <1>2, <2>1, <2>2, <2>6, <3>1
    <3>3. (10 * (x % m) + d) % m = (10 * x + d) % m
      BY ModDigit
    <3> QED
      BY <2>2, <2>4, <3>2, <3>3
  <2> QED
    BY <2>5, <2>6
<1>6. ASSUME action.to = InGenericWord
      PROVE  p.bufferCursor = p.startOfCurrent + Len(v) /\ Holds(p, p.startOfCurrent, v)
  <2>1. PICK s \in Nat : s = k.startOfCurrent
    BY TokenizerFields
  <2>2. PICK l \in Nat : l = Len(w)
    BY <1>4
  <2>3. n = s + l /\ \A i \in 1..l : k.buffer[s + i - 1] = w[i]
    <3>1. CASE action.reset
      <4>1. l = 0
        BY <2>2, <3>1
      <4> QED
        BY <1>1, <2>1, <3>1, <4>1
    <3>2. CASE ~action.reset
      <4>1. k.bufferCursor = k.startOfCurrent + Len(w) /\ Holds(k, k.startOfCurrent, w)
        BY <1>6, <3>2 DEF Records
      <4> QED
        BY <1>1, <2>1, <2>2, <3>2, <4>1 DEF Holds
    <3> QED
      BY <3>1, <3>2
  <2>4. \A i \in 0..s + l - 1 : p.buffer[i] = k.buffer[i]
    BY <1>2, <2>3 DEF SameChars
  <2>5. ASSUME NEW i \in 1..l + 1
        PROVE  p.buffer[s + i - 1] = v[i]
    <3>1. CASE i = l + 1
      <4>1. s + i - 1 = n
        BY <2>3, <3>1
      <4> QED
        BY <1>2, <1>4, <2>2, <3>1, <4>1
    <3>2. CASE i # l + 1
      <4>1. i \in 1..l /\ s + i - 1 \in 0..s + l - 1
        BY <3>2
      <4> QED
        BY <1>4, <2>2, <2>3, <2>4, <4>1
    <3> QED
      BY <3>1, <3>2
  <2>6. Len(v) = l + 1 /\ p.startOfCurrent = s /\ p.bufferCursor = s + (l + 1)
    BY SMTT(20), <1>2, <1>4, <2>1, <2>2, <2>3
  <2> QED
    BY <2>5, <2>6 DEF Holds
<1> QED
  BY <1>2, <1>3, <1>5, <1>6 DEF Records

\* In a keyword, a space or an end nothing is recorded.
LEMMA RecordsNothing ==
  ASSUME NEW p, NEW w, p.state \notin {InDigits, InGenericWord}
  PROVE  Records(p, w)
BY DEF Records

\* A turn that completes a token: it is what the field means.
LEMMA TurnReads ==
  ASSUME NEW k, TokenizerOK(k), NEW fields \in Seq(Written), HasRead(k, fields),
         NEW w \in Written, Records(k, w),
         NEW action \in Moves, Reads(k.state, w, action.token), NEW char \in Int,
         NEW moves \in BOOLEAN, NEW p, p = Act(k, action, char, moves)
  PROVE  TokenizerOK(p) /\ p.state = action.to /\ HasRead(p, Append(fields, w))
<1>1. action.token # Unknown /\ Meaning(w).id = action.token
  BY ReadsFacts
<1>2. PICK s \in Nat : s = k.startOfCurrent
  BY TokenizerFields
<1>3. PICK b \in Nat : b = k.bufferCursor /\ s <= b
  BY <1>2, TokenizerFields
<1>4. PICK new : new = p.tokens[Len(k.tokens) + 1]
  OBVIOUS
<1>5. CASE action.token # "Path"
  <2>1. /\ TokenizerOK(p)
        /\ p.state = action.to /\ p.startOfCurrent = k.startOfCurrent
        /\ SameChars(k, p, k.startOfCurrent)
        /\ Len(p.tokens) = Len(k.tokens) + 1 /\ SameTokens(k, p)
        /\ new.id = action.token
        /\ new.size = IF action.token = "Size" THEN k.numberValue ELSE 0
    BY <1>1, <1>4, <1>5, ActToken, GrammarAssumption, TokenizerAssumption
  <2>2. new.size = Meaning(w).size
    <3>1. CASE action.token = "Size"
      <4>1. \A j \in Keywords : j # "Size"
        BY GrammarAssumption
      <4>2. k.state = InDigits /\ DigitText(w)
        BY <3>1, <4>1 DEF Reads
      <4>3. k.numberValue = Number(w) % Modulus
        BY <4>2 DEF Records
      <4>4. Meaning(w).size = Number(w) % Modulus
        BY <4>2, MeaningOfDigits DEF Lexeme
      <4> QED
        BY <2>1, <3>1, <4>3, <4>4
    <3>2. CASE action.token # "Size"
      <4>1. action.token \in Keywords /\ Words[action.token] = w
        BY <1>5, <3>2 DEF Reads
      <4>2. PICK key \in Keywords : key = action.token
        BY <4>1
      <4>3. Meaning(Words[key]) = Lexeme(key, 0, <<>>)
        BY MeaningOfWord
      <4>4. Meaning(w) = Lexeme(key, 0, <<>>)
        BY <4>1, <4>2, <4>3
      <4>5. Meaning(w).size = 0
        BY <4>4 DEF Lexeme
      <4> QED
        BY <2>1, <3>2, <4>5
    <3> QED
      BY <3>1, <3>2
  <2>3. IsRead(p, new, w)
    BY <1>1, <1>5, <2>1, <2>2 DEF IsRead
  <2>4. k.startOfCurrent <= p.startOfCurrent
    BY <1>2, <2>1
  <2>5. TokenizerOK(p)
    BY <2>1
  <2>6. HasRead(p, Append(fields, w))
    BY <1>4, <2>1, <2>3, <2>4, <2>5, ReadNext
  <2> QED
    BY <2>1, <2>6
<1>6. CASE action.token = "Path"
  <2>1. /\ TokenizerOK(p)
        /\ p.state = action.to /\ p.startOfCurrent = k.bufferCursor + 1
        /\ SameChars(k, p, k.bufferCursor) /\ p.buffer[k.bufferCursor] = NUL
        /\ Len(p.tokens) = Len(k.tokens) + 1 /\ SameTokens(k, p)
        /\ new.id = "Path" /\ new.size = 0
        /\ new.place.block = p.block
        /\ new.place.at = k.startOfCurrent
    BY <1>4, <1>6, ActPath, GrammarAssumption, TokenizerAssumption
  <2>2. k.state = InGenericWord /\ PathText(w)
    <3>1. \A j \in Keywords : j # "Path"
      BY GrammarAssumption
    <3> QED
      BY <1>6, <3>1 DEF Reads
  <2>3. k.bufferCursor = k.startOfCurrent + Len(w) /\ Holds(k, k.startOfCurrent, w)
    BY <2>2 DEF Records
  <2>4. PICK l \in Nat : l = Len(w)
    BY <2>2, WrittenSet DEF PathText
  <2>5. b = s + l /\ \A i \in 1..l : k.buffer[s + i - 1] = w[i]
    BY <1>2, <1>3, <2>3, <2>4 DEF Holds
  <2>6. \A i \in 0..s + l - 1 : p.buffer[i] = k.buffer[i]
    BY <1>3, <2>1, <2>5 DEF SameChars
  <2>7. ASSUME NEW i \in 1..l
        PROVE  p.buffer[s + i - 1] = w[i]
    <3>1. s + i - 1 \in 0..s + l - 1
      OBVIOUS
    <3> QED
      BY <2>5, <2>6, <3>1
  <2>8. p.startOfCurrent = s + l + 1 /\ p.buffer[s + l] = NUL /\ new.place.at = s
    BY <1>2, <1>3, <2>1, <2>5
  <2>9. KeepsPath(p, new.place, w)
    BY <2>1, <2>2, <2>4, <2>7, <2>8 DEF KeepsPath, Holds
  <2>10. Meaning(w).id = "Path" /\ Meaning(w).size = 0
    BY <2>2, MeaningOfPath DEF Lexeme
  <2>11. IsRead(p, new, w)
    BY <2>1, <2>9, <2>10 DEF IsRead
  <2>12. SameChars(k, p, k.startOfCurrent) /\ k.startOfCurrent <= p.startOfCurrent
    <3>1. \A i \in 0..s - 1 : i \in 0..s + l - 1
      OBVIOUS
    <3> QED
      BY <1>2, <2>6, <2>8, <3>1 DEF SameChars
  <2>13. TokenizerOK(p)
    BY <2>1
  <2>14. HasRead(p, Append(fields, w))
    BY <1>4, <2>1, <2>11, <2>12, <2>13, ReadNext
  <2> QED
    BY <2>1, <2>14
<1> QED
  BY <1>5, <1>6

\* Past the end of the table the tokens are kept.
LEMMA CrashKeeps ==
  ASSUME NEW k, TokenizerOK(k), NEW fields, HasRead(k, fields),
         NEW p, p = [k EXCEPT !.state = Crashed]
  PROVE  TokenizerOK(p) /\ p.state = Crashed /\ HasRead(p, fields)
<1>1. PICK to \in States \cup {Crashed} : to = Crashed
  OBVIOUS
<1>2. PICK q : q = [k EXCEPT !.state = to]
  OBVIOUS
<1>3. p = q
  BY <1>1, <1>2
<1>4. TokenizerOK(q)
  BY <1>2, SetState
<1>5. /\ q.state = to /\ q.startOfCurrent = k.startOfCurrent
      /\ q.buffer = k.buffer /\ q.block = k.block /\ q.tokens = k.tokens
  <2>1. k \in Tokenizers
    BY DEF TokenizerOK
  <2> QED
    BY <1>2, <2>1 DEF Tokenizers
<1>6. HasRead(q, fields)
  BY <1>5 DEF HasRead, IsRead, KeepsPath, Holds
<1> QED
  BY <1>1, <1>3, <1>4, <1>5, <1>6

\* Where a turn leads.
Follows(k, t, char, p, u) ==
  /\ TokenizerOK(p)
  /\ \/ Tracks(p, u)
     \/ p.state = Finished /\ IsHeader(u) /\ HasRead(p, Complete(u))
     \/ /\ p.state = InvalidState /\ char \in SevenBit /\ ~Viable(u)
        /\ HasRead(p, Complete(t))
     \/ /\ p.state = Crashed /\ char \notin SevenBit /\ ~Viable(u)
        /\ HasRead(p, Complete(t))

\* A turn of tok_process for one char follows the text, whichever action the table has for it.
LEMMA TurnFollows ==
  ASSUME NEW k, NEW t \in Texts, Tracks(k, t), NEW char \in Int, NEW moves \in BOOLEAN,
         NEW p, p = TakeChar(k, char, moves), NEW u, u = Append(t, char)
  PROVE  Follows(k, t, char, p, u)
<1>1. TokenizerOK(k) /\ Live(k.state, t) /\ HasRead(k, Complete(t)) /\ Records(k, Open(t))
  BY DEF Tracks
<1>2. k.state \in States
  BY <1>1, LiveViable, TokenizerFields
<1>3. TokenizerOK(k)
  BY <1>1
<1>4. PICK cs \in Seq(Written) : cs = Complete(t)
  BY ShapeFacts
<1>5. PICK w \in Texts : w = Open(t)
  BY ShapeFacts
<1>6. HasRead(k, cs) /\ Records(k, w)
  BY <1>1, <1>4, <1>5
<1>7. CASE char \notin SevenBit
  <2>1. \A move : ~Goes(k.state, char, move)
    BY <1>7, GoesLeads, UsedIffLeads, UsedIsSevenBit, GrammarAssumption
  <2>2. ~Viable(u)
    BY <1>1, <2>1, NoGoStep
  <2>3. p = [k EXCEPT !.state = Crashed]
    BY <1>7 DEF TakeChar
  <2>4. TokenizerOK(p) /\ p.state = Crashed /\ HasRead(p, cs)
    BY <1>3, <1>6, <2>3, CrashKeeps
  <2> QED
    BY <1>4, <1>7, <2>2, <2>4 DEF Follows
<1>8. CASE char \in SevenBit
  <2>1. PICK action \in Moves : action = Action[k.state][char]
    BY <1>2, <1>8, ActionIsMove, GrammarAssumption
  <2>2. p = Act(k, action, char, moves)
    BY <1>8, <2>1 DEF TakeChar
  <2>3. CASE \A move : ~Goes(k.state, char, move)
    <3>1. \A move : ~Leads(k.state, char, move)
      BY <2>3, LeadsGoes, GrammarAssumption
    <3>2. action = ToInvalid
      BY <1>2, <1>8, <2>1, <3>1, ActionToInvalid, GrammarAssumption
    <3>3. action.to = InvalidState /\ action.token = Unknown
      BY Zenon, <3>2 DEF ToInvalid, Move
    <3>4. TokenizerOK(p) /\ p.state = action.to /\ HasRead(p, cs)
      BY <1>3, <1>6, <2>2, <3>3, TurnKeeps
    <3>5. ~Viable(u)
      BY <1>1, <2>3, NoGoStep
    <3> QED
      BY <1>4, <1>8, <3>3, <3>4, <3>5 DEF Follows
  <2>4. ASSUME NEW move, Goes(k.state, char, move)
        PROVE  Follows(k, t, char, p, u)
    <3>1. Leads(k.state, char, move)
      BY <2>4, GoesLeads, GrammarAssumption
    <3>2. action = move
      BY <1>2, <1>8, <2>1, <3>1, ActionLeads, GrammarAssumption
    <3>3. Advances(k.state, action, t, u, char)
      BY <1>1, <2>4, <3>2, GoStep
    <3>4. /\ IF action.token = Unknown THEN Complete(u) = cs
             ELSE Reads(k.state, w, action.token) /\ Complete(u) = Append(cs, w)
          /\ IF action.to = Finished THEN IsHeader(u) ELSE Live(action.to, u)
          /\ action.to \in {InDigits, InGenericWord} =>
               /\ Open(u) = Append(w, char) /\ action.token = Unknown
               /\ IF action.reset THEN w = <<>> ELSE k.state = action.to
      BY Zenon, <1>4, <1>5, <3>3 DEF Advances
    <3>5. TokenizerOK(p) /\ p.state = action.to /\ HasRead(p, Complete(u))
      <4>1. CASE action.token = Unknown
        <5>1. TokenizerOK(p) /\ p.state = action.to /\ HasRead(p, cs)
          BY <1>3, <1>6, <2>2, <4>1, TurnKeeps
        <5> QED
          BY <3>4, <4>1, <5>1
      <4>2. CASE action.token # Unknown
        <5>1. Reads(k.state, w, action.token) /\ Complete(u) = Append(cs, w)
          BY <3>4, <4>2
        <5>2. w \in Written
          BY <5>1, ReadsFacts DEF Written
        <5>3. TokenizerOK(p) /\ p.state = action.to /\ HasRead(p, Append(cs, w))
          BY <1>3, <1>6, <2>2, <5>1, <5>2, TurnReads
        <5> QED
          BY <5>1, <5>3
      <4> QED
        BY <4>1, <4>2
    <3>6. Records(p, Open(u))
      <4>1. CASE action.to \in {InDigits, InGenericWord}
        <5>1. /\ Open(u) = Append(w, char) /\ action.token = Unknown
              /\ IF action.reset THEN w = <<>> ELSE k.state = action.to
          BY Zenon, <3>4, <4>1
        <5>2. Records(p, Append(w, char))
          BY <1>3, <1>6, <2>2, <4>1, <5>1, TurnRecords
        <5> QED
          BY <5>1, <5>2
      <4>2. CASE action.to \notin {InDigits, InGenericWord}
        BY <3>5, <4>2, RecordsNothing
      <4> QED
        BY <4>1, <4>2
    <3>7. CASE action.to = Finished
      BY <3>4, <3>5, <3>7 DEF Follows
    <3>8. CASE action.to # Finished
      <4>1. Live(p.state, u)
        BY <3>4, <3>5, <3>8
      <4> QED
        BY <3>5, <3>6, <4>1 DEF Follows, Tracks
    <3> QED
      BY <3>7, <3>8
  <2> QED
    BY <2>3, <2>4
<1> QED
  BY <1>7, <1>8

-----------------------------------------------------------------------------
(* The graph and a stream.                                                   *)

\* No one of the first n prefixes of a text decides it.
Undecided(t, n) == \A j \in 1..n : Viable(SubSeq(t, 1, j)) /\ ~IsHeader(SubSeq(t, 1, j))

\* The last char of the first j decides.
Ended(k, t, j) ==
  LET before == SubSeq(t, 1, j - 1)
      upto == SubSeq(t, 1, j)
  IN  \/ k.state = Finished /\ IsHeader(upto) /\ HasRead(k, Complete(upto))
      \/ /\ k.state = InvalidState /\ t[j] \in SevenBit /\ ~Viable(upto)
         /\ HasRead(k, Complete(before))
      \/ /\ k.state = Crashed /\ t[j] \notin SevenBit /\ ~Viable(upto)
         /\ HasRead(k, Complete(before))

\* What a tokenizer knows that has been offered n chars of a text and has taken j of them.
Progress(k, t, n, j) ==
  /\ TokenizerOK(k)
  /\ ~Over(k) => j = n /\ Tracks(k, SubSeq(t, 1, n)) /\ Undecided(t, n)
  /\ Over(k) => j \in 1..n /\ Undecided(t, j - 1) /\ Ended(k, t, j)

\* A turn of tok_process takes the next char of the stream, or none when it is over.
LEMMA OneTurn ==
  ASSUME NEW p, NEW t \in Texts, NEW m \in Nat, m < Len(t), NEW l \in Nat, p.i \in Nat,
         Progress(p.tok, t, m, l + p.i), NEW moves \in BOOLEAN,
         NEW q, q = Turn(p, t[m + 1], moves)
  PROVE  Progress(q.tok, t, m + 1, l + q.i) /\ q.i \in Nat
<1>1. CASE Over(p.tok)
  <2>1. q = p
    BY <1>1 DEF Turn
  <2>2. l + p.i \in 1..m + 1
    BY <1>1 DEF Progress
  <2> QED
    BY <1>1, <2>1, <2>2 DEF Progress
<1>2. CASE ~Over(p.tok)
  <2>1. PICK k : k = p.tok
    OBVIOUS
  <2>2. PICK i \in Nat : i = p.i
    OBVIOUS
  <2>3. PICK b \in Texts : b = SubSeq(t, 1, m)
    <3>1. m \in 0..Len(t)
      BY LenProperties DEF Texts
    <3> QED
      BY <3>1, PrefixOf DEF Texts
  <2>4. l + i = m /\ Tracks(k, b) /\ Undecided(t, m)
    BY <1>2, <2>1, <2>2, <2>3 DEF Progress
  <2>5. PICK char \in Int : char = t[m + 1]
    <3>1. m + 1 \in 1..Len(t)
      BY LenProperties DEF Texts
    <3> QED
      BY <3>1, ElementOfSeq DEF Texts
  <2>6. PICK u : u = Append(b, char)
    OBVIOUS
  <2>7. u = SubSeq(t, 1, m + 1)
    <3>1. m + 1 \in 1..Len(t) /\ m + 1 - 1 = m
      BY LenProperties DEF Texts
    <3>2. SubSeq(t, 1, m + 1) = Append(SubSeq(t, 1, m + 1 - 1), t[m + 1])
      BY <3>1, PrefixGrows DEF Texts
    <3> QED
      BY <2>3, <2>5, <2>6, <3>1, <3>2
  <2>8. PICK r : r = TakeChar(k, char, moves)
    OBVIOUS
  <2>9. Follows(k, b, char, r, u)
    BY <2>4, <2>6, <2>8, TurnFollows
  <2>10. q.tok = r /\ q.i = i + 1
    BY <1>2, <2>1, <2>2, <2>5, <2>8 DEF Turn
  <2>11. l + q.i = m + 1 /\ q.i \in Nat
    BY <2>2, <2>4, <2>10
  <2>12. Progress(r, t, m + 1, m + 1)
    <3>1. TokenizerOK(r)
      BY <2>9 DEF Follows
    <3>2. CASE Tracks(r, u)
      <4>1. u \in Texts
        BY <2>6, TextAppend
      <4>2. Viable(u) /\ ~IsHeader(u) /\ ~Over(r)
        BY <3>2, <4>1, LiveViable DEF Tracks, Over
      <4>3. Undecided(t, m + 1)
        <5>1. \A j \in 1..m + 1 : j \in 1..m \/ j = m + 1
          OBVIOUS
        <5> QED
          BY <2>4, <2>7, <4>2, <5>1 DEF Undecided
      <4> QED
        BY <2>7, <3>1, <3>2, <4>2, <4>3 DEF Progress
    <3>3. CASE ~Tracks(r, u)
      <4>1. m + 1 \in 1..m + 1 /\ m + 1 - 1 = m
        OBVIOUS
      <4>2. Ended(r, t, m + 1) /\ Over(r)
        BY <2>3, <2>5, <2>7, <2>9, <3>3, <4>1 DEF Follows, Ended, Over
      <4> QED
        BY <2>4, <3>1, <4>1, <4>2 DEF Progress
    <3> QED
      BY <3>2, <3>3
  <2> QED
    BY <2>10, <2>11, <2>12
<1> QED
  BY <1>1, <1>2

\* A piece of a stream is behind what has been read.
LEMMA PieceBehind ==
  ASSUME NEW t \in Texts, NEW piece \in Texts
  PROVE  /\ t \o piece \in Texts /\ Len(t \o piece) = Len(t) + Len(piece)
         /\ Len(t) \in Nat /\ Len(piece) \in Nat
         /\ \A n \in 1..Len(piece) : (t \o piece)[Len(t) + n] = piece[n]
         /\ \A n \in 1..Len(t) : (t \o piece)[n] = t[n]
         /\ \A n \in 0..Len(t) : SubSeq(t \o piece, 1, n) = SubSeq(t, 1, n)
<1>1. /\ t \o piece \in Seq(Int) /\ Len(t \o piece) = Len(t) + Len(piece)
      /\ Len(t) \in Nat /\ Len(piece) \in Nat
      /\ \A i \in 1..Len(t) + Len(piece) :
           (t \o piece)[i] = IF i <= Len(t) THEN t[i] ELSE piece[i - Len(t)]
  BY ConcatProperties, LenProperties DEF Texts
<1>2. PICK f \in Texts : f = t \o piece
  BY <1>1 DEF Texts
<1>3. PICK l \in Nat : l = Len(t)
  BY <1>1
<1>4. ASSUME NEW n \in 1..Len(piece)
      PROVE  f[l + n] = piece[n]
  <2>1. l + n \in 1..l + Len(piece) /\ ~(l + n <= l) /\ l + n - l = n
    BY <1>1
  <2> QED
    BY SMTT(20), <1>1, <1>2, <1>3, <2>1
<1>5. ASSUME NEW n \in 1..l
      PROVE  f[n] = t[n]
  <2>1. n \in 1..l + Len(piece) /\ n <= l
    BY <1>1
  <2> QED
    BY <1>1, <1>2, <1>3, <2>1
<1>6. ASSUME NEW n \in 0..l
      PROVE  SubSeq(f, 1, n) = SubSeq(t, 1, n)
  <2>1. n \in 0..Len(f) /\ n \in 0..Len(t)
    BY <1>1, <1>2, <1>3
  <2>2. PICK a : a = SubSeq(f, 1, n)
    OBVIOUS
  <2>3. PICK b : b = SubSeq(t, 1, n)
    OBVIOUS
  <2>4. a \in Texts /\ Len(a) = n /\ \A i \in 1..n : a[i] = f[i]
    BY <2>1, <2>2, PrefixOf DEF Texts
  <2>5. b \in Texts /\ Len(b) = n /\ \A i \in 1..n : b[i] = t[i]
    BY <2>1, <2>3, PrefixOf DEF Texts
  <2>6. \A i \in 1..n : a[i] = b[i]
    BY <1>5, <2>4, <2>5
  <2>7. a = b
    BY <2>4, <2>5, <2>6, SeqEqual DEF Texts
  <2> QED
    BY <2>2, <2>3, <2>7
<1> QED
  BY <1>1, <1>2, <1>3, <1>4, <1>5, <1>6

\* tok_process reads a piece as it would have read the stream in one.
LEMMA TurnsProgress ==
  ASSUME NEW k, ~Over(k), NEW t \in Texts, Progress(k, t, Len(t), Len(t)),
         NEW piece \in Texts, NEW moves \in BOOLEAN, NEW g, AreTurns(g, k, piece, moves),
         NEW f, f = t \o piece
  PROVE  \A n \in 0..Len(piece) :
           Progress(g[n].tok, f, Len(t) + n, Len(t) + g[n].i) /\ g[n].i \in Nat
<1>1. PICK l \in Nat : l = Len(t)
  BY PieceBehind
<1>2. /\ f \in Texts /\ Len(f) = l + Len(piece) /\ Len(piece) \in Nat
      /\ \A n \in 1..Len(piece) : f[l + n] = piece[n]
      /\ \A n \in 0..l : SubSeq(f, 1, n) = SubSeq(t, 1, n)
  BY <1>1, PieceBehind
<1> DEFINE S == {n \in Nat : n <= Len(piece) =>
                   Progress(g[n].tok, f, l + n, l + g[n].i) /\ g[n].i \in Nat}
<1>3. 0 \in S
  <2>1. g[0].tok = k /\ g[0].i = 0
    BY DEF AreTurns
  <2>2. Progress(k, f, l, l)
    <3>1. l \in 0..l /\ \A j \in 1..l : j \in 0..l
      OBVIOUS
    <3>2. SubSeq(f, 1, l) = SubSeq(t, 1, l)
      BY <1>2, <3>1
    <3>3. \A j \in 1..l : SubSeq(f, 1, j) = SubSeq(t, 1, j)
      BY <1>2, <3>1
    <3>4. TokenizerOK(k) /\ Tracks(k, SubSeq(t, 1, l)) /\ Undecided(t, l)
      BY <1>1 DEF Progress
    <3>5. Undecided(f, l)
      BY <3>3, <3>4 DEF Undecided
    <3> QED
      BY <3>2, <3>4, <3>5 DEF Progress
  <2> QED
    BY <2>1, <2>2
<1>4. ASSUME NEW n \in Nat, n \in S
      PROVE  n + 1 \in S
  <2> SUFFICES ASSUME n + 1 <= Len(piece)
               PROVE  /\ Progress(g[n + 1].tok, f, l + (n + 1), l + g[n + 1].i)
                      /\ g[n + 1].i \in Nat
    OBVIOUS
  <2>1. PICK p : p = g[n]
    OBVIOUS
  <2>2. PICK m \in Nat : m = l + n
    OBVIOUS
  <2>3. p.i \in Nat /\ Progress(p.tok, f, m, l + p.i)
    BY <1>2, <1>4, <2>1, <2>2
  <2>4. n + 1 \in 1..Len(piece) /\ n + 1 - 1 = n /\ l + (n + 1) = m + 1
    BY <1>2, <2>2
  <2>5. g[n + 1] = Turn(p, piece[n + 1], moves)
    BY <2>1, <2>4 DEF AreTurns
  <2>6. f[m + 1] = piece[n + 1] /\ m < Len(f)
    <3>1. f[l + (n + 1)] = piece[n + 1]
      BY <1>2, <2>4
    <3> QED
      BY <1>2, <2>2, <2>4, <3>1
  <2>7. PICK q : q = Turn(p, f[m + 1], moves)
    OBVIOUS
  <2>8. Progress(q.tok, f, m + 1, l + q.i) /\ q.i \in Nat
    BY <1>2, <2>3, <2>6, <2>7, OneTurn
  <2> QED
    BY <2>4, <2>5, <2>6, <2>7, <2>8
<1>5. Nat \subseteq S
  <2> HIDE DEF S
  <2> QED
    BY <1>3, <1>4, Inductive
<1> QED
  BY <1>1, <1>2, <1>5

\* tok_create, tok_reset: nothing has been read.
LEMMA NothingRead ==
  ASSUME NEW k, TokenizerOK(k), k.state = Start, k.tokens = <<>>
  PROVE  Progress(k, <<>>, 0, 0) /\ ~Over(k)
<1>1. <<>> \in Texts /\ Len(<<>>) = 0 /\ SubSeq(<<>>, 1, 0) = <<>>
  BY DEF Texts
<1>2. Live(k.state, <<>>)
  BY ShapeEmpty DEF Live, Known
<1>3. HasRead(k, Complete(<<>>)) 
  BY <1>1, ShapeEmpty DEF HasRead
<1>4. ~Over(k) /\ k.state \notin {InDigits, InGenericWord}
  BY <1>1, <1>2, LiveViable, Kinds DEF Over
<1>5. Tracks(k, <<>>)
  BY <1>2, <1>3, <1>4, RecordsNothing DEF Tracks
<1>6. Undecided(<<>>, 0)
  BY DEF Undecided
<1>7. Tracks(k, SubSeq(<<>>, 1, 0))
  BY <1>1, <1>5
<1> QED
  BY Zenon, <1>4, <1>6, <1>7 DEF Progress

\* Where a stream is decided is where the tokenizer has stopped.
LEMMA DecidedIs ==
  ASSUME NEW k, NEW t \in Texts, NEW j, Progress(k, t, Len(t), j)
  PROVE  /\ Decided(t).at = j
         /\ Decided(t).how = IF ~Over(k) THEN "open" ELSE IF Done(k) THEN "header"
                             ELSE IF Invalid(k) THEN "invalid" ELSE "outside"
<1> DEFINE stops == {n \in 1..Len(t) : LET u == SubSeq(t, 1, n) IN Viable(u) => IsHeader(u)}
<1>1. Len(t) \in Nat
  BY LenProperties DEF Texts
<1>2. Decided(t) = IF stops = {} THEN [how |-> "open", at |-> Len(t)]
                   ELSE [how |-> IF IsHeader(SubSeq(t, 1, Min(stops))) THEN "header"
                                 ELSE IF t[Min(stops)] \in SevenBit THEN "invalid"
                                 ELSE "outside",
                         at |-> Min(stops)]
  BY DEF Decided
<1>3. CASE ~Over(k)
  <2>1. stops = {}
    BY <1>3 DEF Progress, Undecided
  <2>2. j = Len(t)
    BY <1>3 DEF Progress
  <2> HIDE DEF stops
  <2> QED
    BY <1>2, <1>3, <2>1, <2>2
<1>4. CASE Over(k)
  <2>1. j \in 1..Len(t) /\ Undecided(t, j - 1) /\ Ended(k, t, j)
    BY <1>4 DEF Progress
  <2>2. j \in stops
    BY <2>1 DEF Ended, IsHeader
  <2>3. \A n \in stops : n \in 1..Len(t) /\ ~(n \in 1..j - 1)
    BY <2>1 DEF Undecided
  <2>4. \A n \in stops : j <= n
    BY <1>1, <2>1, <2>3
  <2>5. PICK T : T = stops
    OBVIOUS
  <2>6. T \subseteq Nat /\ T # {} /\ j \in T /\ j \in Nat
    BY <1>1, <2>1, <2>2, <2>5
  <2>7. Min(T) \in T /\ \A n \in T : Min(T) <= n
    BY <2>6, MinOfSet
  <2>8. Min(T) = j
    <3>1. Min(T) \in Nat /\ j <= Min(T) /\ Min(T) <= j
      BY <2>4, <2>5, <2>6, <2>7
    <3> QED
      BY <2>6, <3>1
  <2>9. IsHeader(SubSeq(t, 1, j)) <=> k.state = Finished
    BY <2>1, Kinds DEF Ended, IsHeader
  <2>10. k.state # Finished => (t[j] \in SevenBit <=> k.state = InvalidState)
    BY <2>1, Kinds DEF Ended
  <2>11. Decided(t) = [how |-> IF IsHeader(SubSeq(t, 1, j)) THEN "header"
                               ELSE IF t[j] \in SevenBit THEN "invalid" ELSE "outside",
                       at |-> j]
    <3> HIDE DEF stops
    <3> QED
      BY <1>2, <2>5, <2>6, <2>8
  <2> QED
    BY <1>4, <2>9, <2>10, <2>11, Kinds DEF Done, Invalid
<1> QED
  BY <1>3, <1>4

\* The string of a path is what the path was.
LEMMA PathString ==
  ASSUME NEW k, TokenizerOK(k), NEW place, NEW w, KeepsPath(k, place, w)
  PROVE  StringAt(k, place) = w
<1>1. /\ PathText(w) /\ place.block = k.block /\ place.at \in Nat
      /\ place.at + Len(w) < k.startOfCurrent
      /\ \A i \in 1..Len(w) : k.buffer[place.at + i - 1] = w[i]
      /\ k.buffer[place.at + Len(w)] = NUL
  BY DEF KeepsPath, Holds
<1>2. PICK l \in Nat : l = Len(w)
  BY <1>1, WrittenSet DEF PathText
<1>3. PICK at \in Nat : at = place.at
  BY <1>1
<1>4. PICK n \in Nat : n = Capacity(k)
  BY TokenizerMemory
<1>5. at + l < n
  <2>1. k.startOfCurrent <= k.bufferCursor /\ k.bufferCursor <= n
        /\ k.startOfCurrent \in Nat /\ k.bufferCursor \in Nat
    BY <1>4, TokenizerFields DEF TokenizerOK
  <2> QED
    BY <1>1, <1>2, <1>3, <2>1
<1> DEFINE Ends == {i \in at..n - 1 : k.buffer[i] = NUL}
           end == CHOOSE i \in Ends : \A j \in Ends : i <= j
<1>6. at + l \in Ends
  BY <1>1, <1>2, <1>3, <1>5
<1>7. \A i \in Ends : at + l <= i
  <2> SUFFICES ASSUME NEW i \in at..n - 1, k.buffer[i] = NUL, ~(at + l <= i)
               PROVE  FALSE
    BY <1>4
  <2>1. PICK m \in 1..l : i = at + m - 1
    <3>1. i - at + 1 \in 1..l /\ i = at + (i - at + 1) - 1
      BY <1>4
    <3> QED
      BY <3>1
  <2>2. w[m] = NUL
    BY <1>1, <1>2, <1>3, <2>1
  <2>3. w[m] \in WordChars
    BY <1>1, <1>2 DEF PathText
  <2> QED
    BY <2>2, <2>3, WordCharGoesOn DEF Stops
<1>8. end = at + l
  <2>1. Ends \subseteq Int
    BY <1>4
  <2> HIDE DEF Ends
  <2>2. end \in Ends /\ \A j \in Ends : end <= j
    BY <1>6, <1>7
  <2>3. end \in Int /\ end <= at + l /\ at + l <= end
    BY <1>6, <1>7, <2>1, <2>2
  <2> HIDE DEF end
  <2> QED
    BY <2>3
<1>9. StringAt(k, place) = [i \in 1..end - at |-> k.buffer[at + i - 1]]
  <2>1. StringAt(k, place) = IF place.block # k.block \/ Ends = {} THEN <<Junk>>
                             ELSE [i \in 1..end - at |-> k.buffer[at + i - 1]]
    BY <1>3, <1>4 DEF StringAt
  <2> HIDE DEF Ends, end
  <2> QED
    BY <1>1, <1>6, <2>1
<1>10. w = [i \in 1..l |-> w[i]]
  <2>1. w \in Seq(Int)
    BY <1>1 DEF PathText, Texts
  <2> QED
    BY <1>2, <2>1
<1>11. \A i \in 1..l : k.buffer[at + i - 1] = w[i]
  BY <1>1, <1>2, <1>3
<1>12. at + l - at = l
  OBVIOUS
<1> HIDE DEF end, Ends
<1>13. StringAt(k, place) = [i \in 1..l |-> k.buffer[at + i - 1]]
  BY <1>8, <1>9, <1>12
<1> QED
  BY <1>10, <1>11, <1>13

\* What a token says.
ReadOf(k, token) ==
  Lexeme(token.id, token.size, IF token.id = "Path" THEN StringAt(k, token.place) ELSE <<>>)

\* The tokens that were read are the meanings of their fields.
LEMMA ReadMeans ==
  ASSUME NEW k, TokenizerOK(k), NEW fields \in Seq(Written), HasRead(k, fields), Known(fields)
  PROVE  [n \in DOMAIN k.tokens |-> ReadOf(k, k.tokens[n])] = Meanings(fields)
<1>1. DOMAIN fields = 1..Len(fields) /\ \A n \in 1..Len(fields) : fields[n] \in Written
  BY ElementOfSeq, LenProperties
<1>2. DOMAIN k.tokens = 1..Len(fields)
  <2>1. k.tokens \in Seq(TokenTypes)
    BY TokenizerFields
  <2> QED
    BY <2>1, LenProperties DEF HasRead
<1>3. ASSUME NEW n \in 1..Len(fields)
      PROVE  ReadOf(k, k.tokens[n]) = Meaning(fields[n])
  <2>1. PICK w \in Written : w = fields[n]
    BY <1>1
  <2>2. Meaning(w) # NoLexeme
    BY <1>1, <2>1 DEF Known
  <2>3. PICK token : token = k.tokens[n]
    OBVIOUS
  <2>4. IsRead(k, token, w)
    BY <2>1, <2>3 DEF HasRead
  <2>5. /\ token.id = Meaning(w).id /\ token.size = Meaning(w).size
        /\ token.id = "Path" => KeepsPath(k, token.place, w)
    BY <2>4 DEF IsRead
  <2>6. ReadOf(k, token) = Meaning(w)
    <3>1. CASE \E x \in Keywords : Words[x] = w
      <4>1. PICK x \in Keywords : Words[x] = w
        BY <3>1
      <4>2. Meaning(w) = Lexeme(x, 0, <<>>) /\ x # "Path"
        BY <4>1, MeaningOfWord, GrammarAssumption
      <4> QED
        BY <2>5, <4>2 DEF ReadOf, Lexeme
    <3>2. CASE DigitText(w)
      BY <2>5, <3>2, MeaningOfDigits DEF ReadOf, Lexeme
    <3>3. CASE PathText(w)
      <4>1. Meaning(w) = Lexeme("Path", 0, w)
        BY <3>3, MeaningOfPath
      <4>2. token.id = "Path" /\ token.size = 0
        BY <2>5, <4>1 DEF Lexeme
      <4>3. StringAt(k, token.place) = w
        BY <2>5, <4>2, PathString
      <4> QED
        BY <4>1, <4>2, <4>3 DEF ReadOf
    <3> QED
      BY <2>2, <3>1, <3>2, <3>3, MeaningCases
  <2> QED
    BY <2>1, <2>3, <2>6
<1> QED
  BY <1>1, <1>2, <1>3 DEF Meanings

\* The length of a text.
Sized(t, n) == t \in Texts /\ n \in Nat /\ Len(t) = n

\* Texts that are joined, what a text begins with, and the copy of a text.
Both(a, b) == a \o b
Upto(t, n) == SubSeq(t, 1, n)
After(t, r, c) == SubSeq(t, r + 1, c)
Copied(t) == SubSeq(t, 1, Min({HeaderSize, Len(t)}))

\* A text behind another.
LEMMA BothFacts ==
  ASSUME NEW a \in Texts, NEW b \in Texts, NEW m \in Nat, Sized(a, m), NEW n \in Nat, Sized(b, n)
  PROVE  /\ Sized(Both(a, b), m + n)
         /\ \A i \in 1..m : Both(a, b)[i] = a[i]
         /\ \A i \in 1..n : Both(a, b)[m + i] = b[i]
<1>1. Len(a) = m /\ Len(b) = n
  BY DEF Sized
<1>2. PICK e : e = a \o b
  OBVIOUS
<1>3. /\ e \in Texts /\ Len(e) = m + n
      /\ \A i \in 1..m : e[i] = a[i]
      /\ \A i \in 1..n : e[m + i] = b[i]
  BY <1>1, <1>2, PieceBehind
<1> QED
  BY <1>2, <1>3 DEF Both, Sized

\* The first n chars of a text.
LEMMA UptoFacts ==
  ASSUME NEW t \in Texts, NEW l \in Nat, Sized(t, l), NEW n \in 0..l
  PROVE  Sized(Upto(t, n), n) /\ \A i \in 1..n : Upto(t, n)[i] = t[i]
<1>1. Len(t) = l
  BY DEF Sized
<1>2. PICK e : e = SubSeq(t, 1, n)
  OBVIOUS
<1>3. e \in Texts /\ Len(e) = n /\ \A i \in 1..n : e[i] = t[i]
  BY <1>1, <1>2, PrefixOf DEF Texts
<1> QED
  BY <1>2, <1>3 DEF Upto, Sized

\* The chars of a text behind the first r.
LEMMA AfterFacts ==
  ASSUME NEW t \in Texts, NEW c \in Nat, Sized(t, c), NEW r \in 0..c
  PROVE  /\ Sized(After(t, r, c), c - r)
         /\ \A i \in 1..c - r : After(t, r, c)[i] = t[r + i]
<1>1. \A i \in r + 1..c : t[i] \in Int
  BY ElementOfSeq DEF Texts, Sized
<1>2. PICK m \in Int : m = r + 1
  OBVIOUS
<1>3. /\ SubSeq(t, m, c) \in Seq(Int)
      /\ Len(SubSeq(t, m, c)) = IF m <= c THEN c - m + 1 ELSE 0
      /\ \A i \in 1..c - m + 1 : SubSeq(t, m, c)[i] = t[m + i - 1]
  BY <1>1, <1>2, SubSeqProperties
<1>4. PICK b : b = After(t, r, c)
  OBVIOUS
<1>5. /\ b \in Texts /\ Len(b) = IF m <= c THEN c - m + 1 ELSE 0
      /\ \A i \in 1..c - m + 1 : b[i] = t[m + i - 1]
  BY <1>2, <1>3, <1>4 DEF Texts, After
<1>6. PICK n \in Nat : n = c - r
  OBVIOUS
<1>7. c - m + 1 = n /\ (~(m <= c) => n = 0) /\ \A i \in 1..n : m + i - 1 = r + i
  BY <1>2, <1>6
<1>8. Len(b) = n /\ \A i \in 1..n : b[i] = t[r + i]
  BY <1>5, <1>7
<1> QED
  BY <1>4, <1>5, <1>6, <1>8 DEF Sized

\* Texts that agree char by char are the same.
LEMMA SameText ==
  ASSUME NEW a \in Texts, NEW b \in Texts, NEW n \in Nat, Sized(a, n), Sized(b, n),
         \A i \in 1..n : a[i] = b[i]
  PROVE  a = b
  BY SeqEqual DEF Texts, Sized

\* gfclient.c:151-162: the copy of a header's text is as much of it as fits.
LEMMA CopiedFacts ==
  ASSUME NEW t \in Texts, NEW l \in Nat, Sized(t, l), NEW s \in Nat, s = HeaderSize
  PROVE  Copied(t) = Upto(t, IF s <= l THEN s ELSE l)
<1>1. Min({s, l}) = IF s <= l THEN s ELSE l
  BY MinOfTwo
<1> QED
  BY <1>1 DEF Copied, Upto, Sized

\* A stream that is cut in two, and the copy of the part before the cut.
LEMMA HeaderCopied ==
  ASSUME NEW t \in Texts, NEW piece \in Texts, NEW l \in Nat, Sized(t, l),
         NEW c \in Nat, Sized(piece, c), NEW r \in 1..c, NEW f, f = Both(t, piece)
  PROVE  /\ Sized(Upto(f, l + r), l + r)
         /\ f = Both(Upto(f, l + r), After(piece, r, c))
         /\ Both(Copied(t), Upto(piece, Min({HeaderSize - Len(Copied(t)), r})))
              = Copied(Upto(f, l + r))
<1>1. PICK s \in Nat \ {0} : s = HeaderSize
  BY ReaderAssumption
<1>2. /\ Sized(f, l + c)
      /\ \A n \in 1..l : f[n] = t[n]
      /\ \A n \in 1..c : f[l + n] = piece[n]
  BY BothFacts
<1>3. PICK d \in Nat : d = l + c
  OBVIOUS
<1>4. PICK e \in 0..d : e = l + r
  BY <1>3
<1>5. PICK text \in Texts : text = Upto(f, e)
  BY <1>2, <1>3, UptoFacts DEF Sized
<1>6. Sized(text, e) /\ \A i \in 1..e : text[i] = f[i]
  BY <1>2, <1>3, <1>5, UptoFacts DEF Sized
<1>7. f = Both(text, After(piece, r, c))
  <2>1. PICK n \in 0..c : n = c - r
    OBVIOUS
  <2>2. PICK b \in Texts : b = After(piece, r, c)
    BY AfterFacts DEF Sized
  <2>3. Sized(b, n) /\ \A i \in 1..n : b[i] = piece[r + i]
    BY <2>1, <2>2, AfterFacts
  <2>4. PICK g : g = Both(text, b)
    OBVIOUS
  <2>5. /\ Sized(g, e + n)
        /\ \A i \in 1..e : g[i] = text[i]
        /\ \A i \in 1..n : g[e + i] = b[i]
    BY <1>6, <2>3, <2>4, BothFacts
  <2>6. ASSUME NEW i \in 1..d
        PROVE  g[i] = f[i]
    <3>1. CASE i <= e
      BY <1>6, <2>5, <3>1
    <3>2. CASE ~(i <= e)
      <4>1. PICK x \in 1..n : x = i - e
        BY <1>3, <1>4, <2>1, <3>2
      <4>2. PICK y \in 1..c : y = r + x
        BY <2>1, <4>1
      <4>3. e + x = i /\ l + y = i
        BY <1>4, <4>1, <4>2
      <4>4. g[e + x] = b[x] /\ b[x] = piece[r + x] /\ f[l + y] = piece[y]
        BY <1>2, <2>3, <2>5
      <4> QED
        BY <4>2, <4>3, <4>4
    <3> QED
      BY <3>1, <3>2
  <2>7. e + n = d
    BY <1>3, <1>4, <2>1
  <2>8. Sized(g, d) /\ Sized(f, d) /\ g \in Texts /\ f \in Texts
    BY <1>2, <1>3, <2>5, <2>7 DEF Sized
  <2>9. g = f
    BY <2>6, <2>8, SameText
  <2> QED
    BY <2>2, <2>4, <2>9
<1>8. PICK a \in 0..l : a = IF s <= l THEN s ELSE l
  OBVIOUS
<1>9. PICK h \in Texts : h = Copied(t)
  BY <1>1, <1>8, CopiedFacts, UptoFacts DEF Sized
<1>10. Sized(h, a) /\ \A i \in 1..a : h[i] = t[i]
  <2>1. h = Upto(t, a)
    BY <1>1, <1>8, <1>9, CopiedFacts
  <2> QED
    BY <2>1, UptoFacts
<1>11. PICK m \in 0..c : m = IF s - a <= r THEN s - a ELSE r
  BY <1>8
<1>12. Min({s - a, r}) = m
  <2>1. s - a \in Nat /\ r \in Nat
    BY <1>8
  <2> QED
    BY <1>11, <2>1, MinOfTwo
<1>13. PICK b \in Texts : b = Upto(piece, m)
  BY UptoFacts DEF Sized
<1>14. Sized(b, m) /\ \A i \in 1..m : b[i] = piece[i]
  BY <1>13, UptoFacts
<1>15. PICK z \in 0..e : z = IF s <= e THEN s ELSE e
  BY <1>4
<1>16. z = a + m /\ (m # 0 => a = l)
  <2>1. CASE s <= l
    <3>1. a = s /\ s - a = 0
      BY <1>8, <2>1
    <3>2. m = 0
      BY <1>11, <3>1
    <3> QED
      BY <1>4, <1>15, <2>1, <3>1, <3>2
  <2>2. CASE ~(s <= l)
    <3>1. a = l
      BY <1>8, <2>2
    <3>2. m = IF s <= l + r THEN s - l ELSE r
      BY <1>11, <3>1
    <3> QED
      BY <1>4, <1>15, <2>2, <3>1, <3>2
  <2> QED
    BY <2>1, <2>2
<1>17. PICK x : x = Copied(text)
  OBVIOUS
<1>18. Sized(x, z) /\ \A i \in 1..z : x[i] = text[i]
  <2>1. x = Upto(text, z)
    BY <1>1, <1>4, <1>6, <1>15, <1>17, CopiedFacts
  <2> QED
    BY <1>6, <2>1, UptoFacts
<1>19. PICK y : y = Both(h, b)
  OBVIOUS
<1>20. /\ Sized(y, a + m)
       /\ \A i \in 1..a : y[i] = h[i]
       /\ \A i \in 1..m : y[a + i] = b[i]
  BY <1>10, <1>14, <1>19, BothFacts
<1>21. ASSUME NEW i \in 1..z
       PROVE  y[i] = x[i]
  <2>1. x[i] = f[i]
    <3>1. i \in 1..e
      BY <1>4, <1>15
    <3> QED
      BY <1>6, <1>18, <3>1
  <2>2. CASE i <= a
    <3>1. i \in 1..a /\ i \in 1..l
      BY <1>8, <2>2
    <3> QED
      BY <1>2, <1>10, <1>20, <2>1, <3>1
  <2>3. CASE ~(i <= a)
    <3>1. PICK j \in 1..m : j = i - a
      BY <1>16, <2>3
    <3>2. a = l /\ j \in 1..c /\ a + j = i
      BY <1>16, <3>1
    <3>3. f[l + j] = piece[j] /\ b[j] = piece[j] /\ y[a + j] = b[j]
      BY <1>2, <1>14, <1>20, <3>2
    <3> QED
      BY <2>1, <3>2, <3>3
  <2> QED
    BY <2>2, <2>3
<1>22. y = x
  <2>1. Sized(y, z) /\ Sized(x, z) /\ y \in Texts /\ x \in Texts
    BY <1>16, <1>18, <1>20 DEF Sized
  <2> QED
    BY <1>21, <2>1, SameText
<1>23. Both(Copied(t), Upto(piece, Min({HeaderSize - Len(Copied(t)), r}))) = Copied(text)
  <2>1. Len(h) = a
    BY <1>10 DEF Sized
  <2>2. Min({HeaderSize - Len(h), r}) = m
    BY <1>1, <1>12, <2>1
  <2> QED
    BY <1>9, <1>13, <1>17, <1>19, <1>22, <2>2
<1> QED
  BY <1>4, <1>5, <1>6, <1>7, <1>23

\* What the loops know, of a stream of which the tokenizer has taken j bytes.
ReadAt(j) ==
  /\ Progress(tok, received, Len(received), j)
  /\ ~Over(tok) => processed >= 0 /\ header = Copied(received)
  /\ Done(tok) => /\ processed \in 1..Len(chunk)
                  /\ received = Both(Upto(received, j), After(chunk, processed, Len(chunk)))
                  /\ header = Copied(Upto(received, j))
  /\ socket # "open" => ~Over(tok) /\ chunk = <<>>

ReadInv == TypeInv /\ \E j : ReadAt(j)

\* A tokenizer that is new or was reset has read nothing.
LEMMA ReadNothing ==
  ASSUME NEW k, TokenizerOK(k), k.state = Start, k.tokens = <<>>
  PROVE  /\ Progress(k, <<>>, Len(<<>>), 0) /\ ~Over(k) /\ ~Done(k)
         /\ Copied(<<>>) = <<>>
<1>1. Progress(k, <<>>, 0, 0) /\ ~Over(k)
  BY NothingRead
<1>2. HeaderSize \in Nat /\ Len(<<>>) = 0 /\ <<>> \in Texts /\ Upto(<<>>, 0) = <<>>
  BY ReaderAssumption DEF Upto, Texts
<1>3. Sized(<<>>, 0)
  BY <1>2 DEF Sized
<1>4. Copied(<<>>) = Upto(<<>>, IF HeaderSize <= 0 THEN HeaderSize ELSE 0)
  BY <1>2, <1>3, CopiedFacts
<1>5. (IF HeaderSize <= 0 THEN HeaderSize ELSE 0) = 0
  BY <1>2
<1> QED
  BY <1>1, <1>2, <1>4, <1>5 DEF Over, Done

\* Nothing has been read at first,
LEMMA ReadInit == Init => ReadInv
<1> SUFFICES ASSUME Init
             PROVE  ReadInv
  OBVIOUS
<1>1. PICK k : k = NewTokenizer
  OBVIOUS
<1>2. TokenizerOK(k) /\ k.state = Start /\ k.tokens = <<>>
  BY <1>1, NewTokenizerOK DEF NewTokenizer
<1>3. /\ Progress(k, <<>>, Len(<<>>), 0) /\ ~Over(k) /\ ~Done(k)
      /\ Copied(<<>>) = <<>>
  BY <1>2, ReadNothing
<1>4. tok = k /\ received = <<>> /\ header = <<>> /\ processed = 0 /\ socket = "open"
  BY <1>1 DEF Init
<1>5. ReadAt(0)
  BY <1>3, <1>4 DEF ReadAt
<1> QED
  BY <1>5, TypeInit DEF ReadInv

\* nor when the server takes the next connection.
LEMMA ReadConnection == ReadInv /\ NextConnection => ReadInv'
<1> SUFFICES ASSUME ReadInv, NextConnection
             PROVE  ReadInv'
  OBVIOUS
<1>1. TypeInv'
  BY TypeNext DEF ReadInv, Next
<1>2. PICK k : k = Reset(tok)
  OBVIOUS
<1>3. TokenizerOK(k)
  BY <1>2, ResetOK DEF ReadInv, TypeInv
<1>4. k.state = Start /\ k.tokens = <<>>
  <2>1. tok \in Tokenizers
    BY TokenizerFields DEF ReadInv, TypeInv
  <2> QED
    BY <1>2, <2>1 DEF Reset, Tokenizers
<1>5. /\ Progress(k, <<>>, Len(<<>>), 0) /\ ~Over(k) /\ ~Done(k)
      /\ Copied(<<>>) = <<>>
  BY <1>3, <1>4, ReadNothing
<1>6. /\ tok' = k /\ received' = <<>> /\ header' = <<>> /\ processed' = 0
      /\ socket' = "open"
  BY <1>2 DEF NextConnection
<1>7. ReadAt(0)'
  BY <1>5, <1>6 DEF ReadAt
<1> QED
  BY <1>1, <1>7 DEF ReadInv

\* The end of a stream reads nothing.
LEMMA ReadEnd ==
  ASSUME ReadInv, NEW how \in {"closed", "failed"}, EndOfStream(how)
  PROVE  ReadInv'
<1>1. TypeInv'
  BY TypeNext DEF ReadInv, Next
<1>2. PICK j : ReadAt(j)
  BY DEF ReadInv
<1>3. /\ tok' = tok /\ received' = received /\ header' = header /\ processed' = processed
      /\ chunk' = <<>> /\ ~Over(tok) /\ ~Done(tok)
  BY DEF EndOfStream, Reading, Over, Done
<1>4. ReadAt(j)'
  BY <1>2, <1>3 DEF ReadAt
<1> QED
  BY <1>1, <1>4 DEF ReadInv

\* A piece is read from where the last one ended.
LEMMA ReadReceive ==
  ASSUME ReadInv, NEW piece \in Pieces, NEW moves \in BOOLEAN, Receive(piece, moves)
  PROVE  ReadInv'
<1>1. TypeInv'
  BY TypeNext DEF ReadInv, Next
<1>2. PICK t \in Texts : t = received
  BY DEF ReadInv, TypeInv
<1>3. PICK pc \in Texts : pc = piece
  BY ReaderAssumption DEF Texts
<1>4. PICK k : k = tok
  OBVIOUS
<1>5. ~Over(k) /\ socket = "open"
  BY <1>4 DEF Receive, Reading
<1>6. PICK i : ReadAt(i)
  BY DEF ReadInv
<1>7. Progress(k, t, Len(t), Len(t))
  BY <1>2, <1>4, <1>5, <1>6 DEF ReadAt, Progress
<1>8. TokenizerOK(k)
  BY <1>7 DEF Progress
<1>9. PICK g : AreTurns(g, k, pc, moves) /\ Process(k, pc, moves) = Outcome(g[Len(pc)])
  BY <1>8, ProcessTurns
<1>10. PICK f : f = Both(t, pc)
  OBVIOUS
<1>11. PICK c \in Nat : c = Len(pc)
  BY PieceBehind
<1>12. PICK q : q = g[c]
  OBVIOUS
<1>13. PICK l \in Nat : l = Len(t)
  BY PieceBehind
<1>14. f \in Texts /\ Len(f) = l + c
  <2>1. Sized(t, l) /\ Sized(pc, c)
    BY <1>11, <1>13 DEF Sized
  <2> QED
    BY <1>10, <2>1, BothFacts DEF Sized
<1>15. Progress(q.tok, f, l + c, l + q.i) /\ q.i \in Nat
  <2>1. c \in 0..Len(pc)
    BY <1>11
  <2> QED
    BY <1>5, <1>7, <1>9, <1>10, <1>12, <1>13, <2>1, TurnsProgress DEF Both
<1>16. c # 0
  BY <1>3, <1>11, EmptySeq, ReaderAssumption DEF Texts
<1>17. PICK ret : ret = IF Invalid(q.tok) THEN -1 ELSE q.i
  OBVIOUS
<1>18. /\ tok' = q.tok /\ processed' = ret /\ chunk' = pc /\ received' = f /\ socket' = "open"
       /\ header' = IF ret > 0
                    THEN Both(header, Upto(pc, Min({HeaderSize - Len(header), ret})))
                    ELSE header
  <2>1. PICK p : p = Process(tok, piece, moves)
    OBVIOUS
  <2>2. p = [tok |-> q.tok, ret |-> ret]
    BY <1>3, <1>4, <1>9, <1>11, <1>12, <1>17, <2>1 DEF Outcome
  <2>3. /\ tok' = p.tok /\ processed' = p.ret /\ chunk' = piece
        /\ received' = received \o piece /\ socket' = socket
        /\ header' = IF p.ret > 0
                     THEN header \o SubSeq(piece, 1, Min({HeaderSize - Len(header), p.ret}))
                     ELSE header
    BY <2>1 DEF Receive
  <2> QED
    BY <1>2, <1>3, <1>5, <1>10, <2>2, <2>3 DEF Both, Upto
<1>19. header = Copied(t)
  BY <1>2, <1>4, <1>5, <1>6 DEF ReadAt
<1>20. ASSUME NEW r \in 1..c, ret = r
       PROVE  LET text == Upto(f, l + r)
              IN  f = Both(text, After(pc, r, c)) /\ Len(text) = l + r /\ header' = Copied(text)
  <2>1. Sized(t, l) /\ Sized(pc, c)
    BY <1>11, <1>13 DEF Sized
  <2>2. /\ Sized(Upto(f, l + r), l + r)
        /\ f = Both(Upto(f, l + r), After(pc, r, c))
        /\ Both(Copied(t), Upto(pc, Min({HeaderSize - Len(Copied(t)), r})))
             = Copied(Upto(f, l + r))
    BY <1>10, <2>1, HeaderCopied
  <2>3. ret > 0
    BY <1>20
  <2> QED
    BY <1>18, <1>19, <1>20, <2>2, <2>3 DEF Sized
<1>21. CASE ~Over(q.tok)
  <2>1. q.i = c /\ ret = c /\ ~Done(q.tok)
    <3>1. l + q.i = l + c
      BY <1>15, <1>21 DEF Progress
    <3>2. q.i = c
      BY <1>15, <3>1
    <3> QED
      BY <1>17, <1>21, <3>2 DEF Over, Invalid, Done
  <2>2. c \in 1..c
    BY <1>16
  <2>3. header' = Copied(Upto(f, l + c))
    BY <1>20, <2>1, <2>2
  <2>4. Upto(f, l + c) = f
    BY <1>14, PrefixIsAll DEF Texts, Upto
  <2>5. ReadAt(l + c)'
    <3>1. Progress(tok', received', Len(received'), l + c)
      BY <1>14, <1>15, <1>18, <2>1
    <3>2. header' = Copied(received') /\ processed' >= 0
      BY <1>18, <2>1, <2>3, <2>4
    <3> QED
      BY Zenon, <1>18, <1>21, <2>1, <3>1, <3>2 DEF ReadAt
  <2> QED
    BY <1>1, <2>5 DEF ReadInv
<1>22. CASE Over(q.tok)
  <2>1. PICK j : j = l + q.i
    OBVIOUS
  <2>2. Progress(tok', received', Len(received'), j)
    BY <1>14, <1>15, <1>18, <2>1
  <2>3. CASE Done(q.tok)
    <3>1. ret = q.i
      BY <1>17, <2>3, Kinds DEF Done, Invalid
    <3>2. q.i \in 1..c
      <4>1. l + q.i \in 1..l + c
        BY <1>15, <1>22 DEF Progress
      <4>2. q.i # 0
        <5> SUFFICES ASSUME q.i = 0
                     PROVE  FALSE
          OBVIOUS
        <5>1. l + q.i = l /\ l \in 1..l
          BY <4>1
        <5>2. IsHeader(SubSeq(f, 1, l))
          BY <1>15, <1>22, <2>3, <5>1, Kinds DEF Progress, Ended, Done
        <5>3. Undecided(t, l)
          BY <1>5, <1>7, <1>13 DEF Progress
        <5>4. SubSeq(f, 1, l) = SubSeq(t, 1, l)
          <6>1. l \in 0..Len(t)
            BY <1>13
          <6> QED
            BY <1>10, <6>1, PieceBehind DEF Both
        <5> QED
          BY <5>1, <5>2, <5>3, <5>4 DEF Undecided
      <4> QED
        BY <1>15, <4>1, <4>2
    <3>3. PICK r \in 1..c : r = q.i
      BY <3>2
    <3>4. PICK text : text = Upto(f, j)
      OBVIOUS
    <3>5. f = Both(text, After(pc, r, c)) /\ header' = Copied(text)
      BY <1>20, <2>1, <3>1, <3>3, <3>4
    <3>6. processed' \in 1..Len(chunk') /\ processed' = r /\ Len(chunk') = c
      BY <1>11, <1>18, <3>1, <3>3
    <3>7. ReadAt(j)'
      BY <1>18, <1>22, <2>2, <3>4, <3>5, <3>6 DEF ReadAt
    <3> QED
      BY <1>1, <3>7 DEF ReadInv
  <2>4. CASE ~Done(q.tok)
    <3>1. ReadAt(j)'
      BY <1>18, <1>22, <2>2, <2>4 DEF ReadAt
    <3> QED
      BY <1>1, <3>1 DEF ReadInv
  <2> QED
    BY <2>3, <2>4
<1> QED
  BY <1>21, <1>22

\* Every step keeps what has been read.
LEMMA ReadInvNext == ReadInv /\ [Next]_vars => ReadInv'
<1> SUFFICES ASSUME ReadInv, [Next]_vars
             PROVE  ReadInv'
  OBVIOUS
<1>1. ASSUME NEW piece \in Pieces, NEW moves \in BOOLEAN, Receive(piece, moves)
      PROVE  ReadInv'
  BY <1>1, ReadReceive
<1>2. ASSUME NEW how \in {"closed", "failed"}, EndOfStream(how)
      PROVE  ReadInv'
  BY <1>2, ReadEnd
<1>3. CASE NextConnection
  BY <1>3, ReadConnection
<1>4. CASE UNCHANGED vars
  BY <1>4 DEF vars, ReadInv, ReadAt, TypeInv
<1> QED
  BY <1>1, <1>2, <1>3, <1>4 DEF Next

\* gf-student-gflib.h:33-37: for any pieces, the tokenizer is done exactly where a header ends,
\* and invalid exactly where a char of seven bits makes a header impossible.  Where a byte
\* outside of seven bits does, it is neither, against gf-student-gflib.h:100-101: the process
\* follows a NULL there, and only there.
THEOREM ReaderRecognizes == Spec => []HeaderRecognized
<1>1. ReadInv => HeaderRecognized
  <2> SUFFICES ASSUME ReadInv
               PROVE  HeaderRecognized
    OBVIOUS
  <2>1. PICK j : Progress(tok, received, Len(received), j)
    BY DEF ReadInv, ReadAt
  <2>2. received \in Texts
    BY DEF ReadInv, TypeInv
  <2>3. Decided(received).how = IF ~Over(tok) THEN "open" ELSE IF Done(tok) THEN "header"
                                ELSE IF Invalid(tok) THEN "invalid" ELSE "outside"
    BY <2>1, <2>2, DecidedIs
  <2> QED
    BY <2>3, Kinds DEF HeaderRecognized, Over, Done, Invalid
<1> QED
  BY <1>1, ReadInit, ReadInvNext, PTL DEF Spec

\* Every header begins with no text.
LEMMA EmptyViable == Viable(<<>>)
<1>1. <<>> \in Texts
  BY DEF Texts
<1> QED
  BY <1>1, ShapeEmpty, ViableShape

\* What a tokenizer has read of a stream.
LEMMA ProgressReads ==
  ASSUME NEW k, NEW t \in Texts, NEW j, Progress(k, t, Len(t), j), NEW end,
         end = IF ~Over(k) \/ Done(k) THEN j ELSE j - 1
  PROVE  /\ SubSeq(t, 1, end) \in Texts /\ HasRead(k, Complete(SubSeq(t, 1, end)))
         /\ Known(Complete(SubSeq(t, 1, end)))
<1>1. PICK l \in Nat : l = Len(t)
  BY PieceBehind
<1>2. end \in 0..l
  BY <1>1 DEF Progress
<1>3. PICK u \in Texts : u = SubSeq(t, 1, end)
  BY <1>1, <1>2, PrefixOf DEF Texts
<1>4. HasRead(k, Complete(u))
  <2>1. CASE ~Over(k)
    BY <1>3, <2>1 DEF Progress, Tracks
  <2>2. CASE Over(k)
    BY <1>3, <2>2, Kinds DEF Progress, Ended, Done
  <2> QED
    BY <2>1, <2>2
<1>5. Viable(u)
  <2>1. CASE ~Over(k)
    BY <1>3, <2>1, LiveViable DEF Progress, Tracks
  <2>2. CASE Done(k)
    BY <1>3, <2>2, Kinds DEF Progress, Ended, Done, IsHeader, Over
  <2>3. CASE Over(k) /\ ~Done(k)
    <3>1. j \in 1..l /\ Undecided(t, j - 1) /\ end = j - 1
      BY <1>1, <2>3 DEF Progress
    <3>2. CASE j = 1
      <4>1. u = <<>>
        BY <1>3, <3>1, <3>2
      <4> QED
        BY <4>1, EmptyViable
    <3>3. CASE j # 1
      <4>1. end \in 1..j - 1
        BY <3>1, <3>3
      <4> QED
        BY <1>3, <3>1, <4>1 DEF Undecided
    <3> QED
      BY <3>2, <3>3
  <2> QED
    BY <2>1, <2>2, <2>3
<1>6. Known(Complete(u))
  BY <1>5, ViableShape DEF Known
<1> QED
  BY <1>3, <1>4, <1>6

\* gf-student-gflib.h:98-107: the tokens are always those of the fields that are complete, with
\* the paths as they were received.
THEOREM ReaderReads == Spec => []TokensAreFields
<1>1. ReadInv => TokensAreFields
  <2> SUFFICES ASSUME ReadInv
               PROVE  TokensAreFields
    OBVIOUS
  <2>1. PICK j : Progress(tok, received, Len(received), j)
    BY DEF ReadInv, ReadAt
  <2>2. received \in Texts /\ TokenizerOK(tok)
    BY DEF ReadInv, TypeInv
  <2>3. PICK d : d = Decided(received)
    OBVIOUS
  <2>4. d.at = j /\ d.how = IF ~Over(tok) THEN "open" ELSE IF Done(tok) THEN "header"
                            ELSE IF Invalid(tok) THEN "invalid" ELSE "outside"
    BY <2>1, <2>2, <2>3, DecidedIs
  <2>5. PICK end : end = IF d.how \in {"header", "open"} THEN d.at ELSE d.at - 1
    OBVIOUS
  <2>6. end = IF ~Over(tok) \/ Done(tok) THEN j ELSE j - 1
    BY <2>4, <2>5
  <2>7. PICK u \in Texts : /\ u = SubSeq(received, 1, end) /\ HasRead(tok, Complete(u))
                           /\ Known(Complete(u))
    BY <2>1, <2>2, <2>6, ProgressReads
  <2>8. [n \in DOMAIN tok.tokens |-> ReadOf(tok, tok.tokens[n])] = Meanings(Complete(u))
    BY <2>2, <2>7, ShapeFacts, ReadMeans
  <2> QED
    BY <2>3, <2>5, <2>7, <2>8 DEF TokensAreFields, ReadOf
<1> QED
  BY <1>1, ReadInit, ReadInvNext, PTL DEF Spec

\* gfclient.c:151-162: behind a header that is done is what was received behind it, and the
\* callback gets as much of the header's text as fits.
THEOREM ReaderSplits == Spec => []SplitsAtHeader
<1>1. ReadInv => SplitsAtHeader
  <2> SUFFICES ASSUME ReadInv, Done(tok)
               PROVE  LET text == SubSeq(received, 1, Decided(received).at)
                      IN  /\ received = text \o Behind
                          /\ header = SubSeq(text, 1, Min({HeaderSize, Len(text)}))
    BY DEF SplitsAtHeader
  <2>1. PICK j : ReadAt(j)
    BY DEF ReadInv
  <2>2. Decided(received).at = j
    BY <2>1, DecidedIs DEF ReadAt, ReadInv, TypeInv
  <2>3. /\ received = Both(Upto(received, j), After(chunk, processed, Len(chunk)))
        /\ header = Copied(Upto(received, j))
    BY <2>1 DEF ReadAt
  <2> QED
    BY <2>2, <2>3 DEF Both, Upto, After, Copied, Behind
<1> QED
  BY <1>1, ReadInit, ReadInvNext, PTL DEF Spec

-----------------------------------------------------------------------------
(* Messages.                                                                 *)

\* What was appended to.
LEMMA AppendedTo ==
  ASSUME NEW S, NEW s \in Texts, NEW c \in Int, Append(s, c) \in Seq(S)
  PROVE  s \in Seq(S) /\ c \in S
<1>1. Front(Append(s, c)) = s /\ Last(Append(s, c)) = c /\ Append(s, c) # <<>>
  BY TextAppend
<1>2. PICK a \in Seq(S) : a = Append(s, c)
  OBVIOUS
<1>3. Front(a) \in Seq(S) /\ Last(a) \in S
  BY <1>1, <1>2, AppendOfFrontLast
<1> QED
  BY <1>1, <1>2, <1>3

\* A text that some field begins with: all that it begins with is one, too.
LEMMA PromisingBefore ==
  ASSUME NEW w \in Texts, NEW c \in Int, w # <<>>, Promising(Append(w, c))
  PROVE  Promising(w)
<1>1. PICK v \in Written : v = Append(w, c)
  BY WrittenFacts
<1>2. Len(w) \in Nat /\ 1 \in 1..Len(w) /\ Len(v) = Len(w) + 1 /\ \A i \in 1..Len(w) : v[i] = w[i]
  <2>1. Len(w) \in Nat /\ 1 \in 1..Len(w)
    BY WrittenSet
  <2>2. PICK a : a = Append(w, c)
    OBVIOUS
  <2>3. Len(a) = Len(w) + 1 /\ \A i \in 1..Len(w) : a[i] = w[i]
    BY <2>2, TextAppend
  <2> QED
    BY <1>1, <2>1, <2>2, <2>3
<1>3. \A i \in 1..Len(w) : i \in 1..Len(v)
  BY <1>2
<1>4. CASE v \in Stems
  <2>1. v \in Seq(WordChars)
    BY <1>4, StemFacts, GrammarAssumption
  <2>2. w \in Seq(WordChars) /\ c \in WordChars
    BY <1>1, <2>1, AppendedTo
  <2>3. w \in Stems
    BY <1>1, <1>4, <2>2, StemOfStem, GrammarAssumption
  <2> QED
    BY <2>3 DEF Promising
<1>5. CASE DigitText(v)
  <2>1. DigitText(w)
    BY <1>2, <1>3, <1>5 DEF DigitText
  <2> QED
    BY <2>1, MeaningOfDigits DEF Promising
<1>6. CASE PathText(v)
  <2>1. PathText(w)
    BY <1>2, <1>3, <1>6 DEF PathText
  <2> QED
    BY <2>1, MeaningOfPath DEF Promising
<1> QED
  BY <1>1, <1>4, <1>5, <1>6, PromisingCases

\* An end that goes on was a part of the terminator.
LEMMA RestBefore ==
  ASSUME NEW r \in Texts, NEW c \in Int, r # <<>>,
         Append(r, c) \in Parts(Terminator) \cup {<<NUL>>}
  PROVE  r \in Parts(Terminator)
<1>1. PICK a : a = Append(r, c)
  OBVIOUS
<1>2. Len(a) = Len(r) + 1 /\ Len(r) \in Nat /\ Len(r) # 0
  BY <1>1, TextAppend, WrittenSet
<1>3. a # <<NUL>>
  <2>1. Len(<<NUL>>) = 1
    OBVIOUS
  <2> QED
    BY <1>2, <2>1
<1>4. PICK w \in Seq(EndChars) : w = Terminator
  BY TerminatorFacts, GrammarAssumption
<1>5. a \in Parts(w)
  BY <1>1, <1>3, <1>4
<1>6. a \in Seq(EndChars)
  BY <1>5, PartFacts
<1>7. r \in Seq(EndChars) /\ c \in EndChars
  BY <1>1, <1>6, AppendedTo
<1>8. r \in Parts(w)
  BY <1>1, <1>5, <1>7, PartOfPart
<1> QED
  BY <1>4, <1>8

\* The fields before the last one.
LEMMA KnownBefore ==
  ASSUME NEW cs \in Seq(Written), NEW w \in Written, Known(Append(cs, w))
  PROVE  Known(cs) /\ Meaning(w) # NoLexeme
<1>1. PICK a : a = Append(cs, w)
  OBVIOUS
<1>2. /\ a \in Seq(Written) /\ Len(a) = Len(cs) + 1 /\ Len(cs) \in Nat
      /\ \A i \in 1..Len(cs) : a[i] = cs[i]
      /\ a[Len(cs) + 1] = w
  BY <1>1, AppendProperties, LenProperties
<1>3. DOMAIN a = 1..Len(cs) + 1 /\ DOMAIN cs = 1..Len(cs)
  BY <1>2, LenProperties
<1>4. Len(cs) + 1 \in DOMAIN a /\ \A i \in DOMAIN cs : i \in DOMAIN a
  BY <1>2, <1>3
<1> QED
  BY <1>1, <1>2, <1>3, <1>4 DEF Known

\* What a text that some header begins with begins with.
LEMMA ViableBefore ==
  ASSUME NEW t \in Texts, NEW c \in Int, Viable(Append(t, c))
  PROVE  Viable(t)
<1>1. PICK u \in Texts : u = Append(t, c)
  BY TextAppend
<1>2. PICK cs \in Seq(Written) : cs = Complete(t)
  BY ShapeFacts
<1>3. PICK w \in Texts : w = Open(t)
  BY ShapeFacts
<1>4. Known(Complete(u)) /\ (Open(u) # <<>> => Promising(Open(u)))
  BY <1>1, ViableShape DEF Known, Promising
<1>5. Rest(u) # <<>> => Lead(u) # <<>> /\ Rest(u) \in Parts(Terminator) \cup {<<NUL>>}
  BY <1>1, ViableShape
<1>6. CASE Rest(t) # <<>>
  <2>1. /\ Rest(u) = Append(Rest(t), c) /\ Lead(u) = Lead(t) /\ Open(t) = <<>>
        /\ Complete(u) = Complete(t)
    BY <1>1, <1>6, ShapeRest
  <2>2. PICK r \in Texts : r = Rest(t)
    BY LeadRest
  <2>3. Append(r, c) # <<>>
    BY <2>2, TextAppend
  <2>4. r \in Parts(Terminator)
    BY <1>5, <1>6, <2>1, <2>2, <2>3, RestBefore
  <2> QED
    BY <1>4, <1>5, <2>1, <2>2, <2>3, <2>4, ViableShape DEF Known
<1>7. CASE Rest(t) = <<>> /\ (c = Space \/ c \in Stops)
  <2>1. Complete(u) = IF w = <<>> THEN cs ELSE Append(cs, w)
    BY <1>1, <1>2, <1>3, <1>7, ShapeSpace, ShapeStop
  <2>2. Known(cs) /\ (w # <<>> => Meaning(w) # NoLexeme)
    BY <1>4, <2>1, KnownBefore DEF Written
  <2> QED
    BY <1>2, <1>3, <1>7, <2>2, ViableShape DEF Known
<1>8. CASE Rest(t) = <<>> /\ c # Space /\ c \notin Stops
  <2>1. Open(u) = Append(w, c) /\ Complete(u) = cs
    BY <1>1, <1>2, <1>3, <1>8, ShapeChar
  <2>2. Append(w, c) # <<>>
    BY TextAppend
  <2>3. w # <<>> => Promising(w)
    BY <1>4, <2>1, <2>2, PromisingBefore
  <2> QED
    BY <1>2, <1>3, <1>4, <1>8, <2>1, <2>3, ViableShape DEF Known, Promising
<1> QED
  BY <1>6, <1>7, <1>8

\* What a viable text begins with is viable.
LEMMA ViableUpto ==
  ASSUME NEW t \in Texts, NEW l \in Nat, Sized(t, l), Viable(t)
  PROVE  \A n \in 0..l : Viable(Upto(t, n))
<1> DEFINE S == {x \in Nat : x <= l => Viable(Upto(t, l - x))}
<1>1. 0 \in S
  <2>1. Upto(t, l - 0) = t
    BY PrefixIsAll DEF Sized, Upto, Texts
  <2> QED
    BY <2>1
<1>2. ASSUME NEW x \in Nat, x \in S
      PROVE  x + 1 \in S
  <2> SUFFICES ASSUME x + 1 <= l
               PROVE  Viable(Upto(t, l - (x + 1)))
    OBVIOUS
  <2>1. PICK n \in 1..l : n = l - x
    OBVIOUS
  <2>2. Viable(Upto(t, n))
    BY <1>2, <2>1
  <2>3. l - (x + 1) = n - 1 /\ n - 1 \in 0..l
    BY <2>1
  <2>4. PICK b \in Texts : b = Upto(t, n - 1)
    BY <2>3, UptoFacts DEF Sized
  <2>5. PICK c \in Int : c = t[n]
    BY ElementOfSeq DEF Sized, Texts
  <2>6. Upto(t, n) = Append(b, c)
    BY <2>4, <2>5, PrefixGrows DEF Sized, Upto, Texts
  <2>7. Viable(b)
    BY <2>2, <2>6, ViableBefore
  <2> QED
    BY <2>3, <2>4, <2>7
<1>3. Nat \subseteq S
  <2> HIDE DEF S
  <2> QED
    BY <1>1, <1>2, Inductive
<1>4. ASSUME NEW n \in 0..l
      PROVE  Viable(Upto(t, n))
  <2>1. PICK x \in Nat : x = l - n
    OBVIOUS
  <2>2. x \in S
    BY <1>3
  <2>3. l - x = n /\ x <= l
    BY <2>1
  <2> QED
    BY <2>2, <2>3
<1> QED
  BY <1>4

\* A header is not the beginning of another one.
LEMMA HeaderOnce ==
  ASSUME NEW t \in Texts, NEW l \in Nat, Sized(t, l), NEW n \in 0..l, IsHeader(Upto(t, n))
  PROVE  Lead(t) = Lead(Upto(t, n)) /\ (IsHeader(t) <=> n = l)
<1>1. PICK u \in Texts : u = Upto(t, n)
  BY UptoFacts DEF Sized
<1>2. Sized(u, n) /\ (\A i \in 1..n : u[i] = t[i]) /\ IsHeader(u)
  BY <1>1, UptoFacts
<1>3. PICK k \in 0..n : k = LeadLength(u)
  BY <1>2, LeadLengthFacts DEF Sized
<1>4. Rest(u) \in {Terminator, <<NUL>>}
  BY <1>2 DEF IsHeader
<1>5. Rest(u) # <<>>
  <2>1. <<NUL>> # <<>> /\ Terminator # <<>>
    BY TerminatorFacts, GrammarAssumption
  <2> QED
    BY <1>4, <2>1
<1>6. /\ Len(Lead(u)) = k /\ Len(Rest(u)) = n - k
      /\ \A i \in 1..k : Lead(u)[i] = u[i]
      /\ \A i \in 1..n - k : Rest(u)[i] = u[k + i]
      /\ Rest(u) = <<>> <=> k = n
      /\ Lead(u) \in Texts
  BY <1>2, <1>3, LeadRest DEF Sized
<1>7. k + 1 \in 1..n /\ 1 \in 1..n - k
  BY <1>5, <1>6
<1>8. (\A i \in 1..k : u[i] \notin Stops) /\ u[k + 1] \in Stops
  BY <1>2, <1>3, <1>7, LeadLengthFacts DEF Sized
<1>9. LeadLength(t) = k
  <2>1. k \in 0..Len(t) /\ k + 1 \in 1..n /\ \A i \in 1..k : i \in 1..n
    BY <1>7 DEF Sized
  <2>2. (\A i \in 1..k : t[i] \notin Stops) /\ t[k + 1] \in Stops
    BY <1>2, <1>8, <2>1
  <2> QED
    BY <2>1, <2>2, LeadLengthIs
<1>10. /\ Len(Lead(t)) = k /\ Len(Rest(t)) = l - k
       /\ \A i \in 1..k : Lead(t)[i] = t[i]
       /\ \A i \in 1..l - k : Rest(t)[i] = t[k + i]
       /\ Lead(t) \in Texts
  BY <1>9, LeadRest DEF Sized
<1>11. Lead(t) = Lead(u)
  <2>1. \A i \in 1..k : Lead(t)[i] = Lead(u)[i]
    BY <1>2, <1>6, <1>7, <1>10
  <2> QED
    BY <1>6, <1>10, <2>1, SameText DEF Sized
<1>12. ASSUME n # l
       PROVE  ~IsHeader(t)
  <2>1. n - k < l - k /\ 1 \in 1..l - k
    BY <1>7, <1>12
  <2>2. Rest(t)[1] = Rest(u)[1]
    BY <1>2, <1>6, <1>7, <1>10, <2>1
  <2>3. Rest(t) # Rest(u)
    BY <1>6, <1>10, <2>1
  <2>4. <<NUL>>[1] = NUL /\ Terminator[1] # NUL
    BY StopsFacts
  <2>5. Rest(t) \notin {Terminator, <<NUL>>}
    BY <1>4, <2>2, <2>3, <2>4
  <2> QED
    BY <2>5 DEF IsHeader
<1>13. n = l => u = t
  BY <1>1, PrefixIsAll DEF Sized, Upto, Texts
<1> QED
  BY <1>1, <1>2, <1>11, <1>12, <1>13

\* All that was read is a header when the tokenizer is done with the last of it.
LEMMA HeaderDone ==
  ASSUME NEW k, NEW t \in Texts, NEW j, Progress(k, t, Len(t), j)
  PROVE  IsHeader(t) <=> Done(k) /\ j = Len(t)
<1>1. PICK l \in Nat : l = Len(t)
  BY PieceBehind
<1>2. Sized(t, l) /\ Upto(t, l) = t
  BY <1>1, PrefixIsAll DEF Sized, Upto, Texts
<1>3. CASE ~Over(k)
  <2>1. Undecided(t, l) /\ ~Done(k)
    BY <1>1, <1>3 DEF Progress, Over, Done
  <2>2. CASE l = 0
    <3>1. t = <<>>
      BY <1>1, <2>2, EmptySeq DEF Texts
    <3>2. Rest(t) = <<>>
      BY <3>1, ShapeEmpty
    <3>3. <<NUL>> # <<>> /\ Terminator # <<>>
      BY TerminatorFacts, GrammarAssumption
    <3> QED
      BY <2>1, <3>2, <3>3 DEF IsHeader
  <2>3. CASE l # 0
    <3>1. l \in 1..l
      BY <2>3
    <3> QED
      BY <1>2, <2>1, <3>1 DEF Undecided, Upto
  <2> QED
    BY <2>2, <2>3
<1>4. CASE Over(k)
  <2>1. j \in 1..l /\ Ended(k, t, j)
    BY <1>1, <1>4 DEF Progress
  <2>2. PICK n \in 0..l : n = j
    BY <2>1
  <2>3. CASE Done(k)
    <3>1. IsHeader(Upto(t, n))
      BY <2>1, <2>2, <2>3, Kinds DEF Ended, Done, Upto
    <3> QED
      BY <1>1, <1>2, <2>2, <2>3, <3>1, HeaderOnce
  <2>4. CASE ~Done(k)
    <3>1. ~Viable(Upto(t, n))
      BY <2>1, <2>2, <2>4 DEF Ended, Done, Upto
    <3>2. ~Viable(t)
      BY <1>2, <3>1, ViableUpto
    <3> QED
      BY <2>4, <3>2 DEF IsHeader
  <2> QED
    BY <2>3, <2>4
<1> QED
  BY <1>3, <1>4

\* The tokens of a header are its fields.
LEMMA DoneMeans ==
  ASSUME NEW k, NEW t \in Texts, NEW j, Progress(k, t, Len(t), j), Done(k)
  PROVE  Meanings(Fields(Lead(t))) = [n \in DOMAIN k.tokens |-> ReadOf(k, k.tokens[n])]
<1>1. PICK l \in Nat : l = Len(t)
  BY PieceBehind
<1>2. Sized(t, l)
  BY <1>1 DEF Sized
<1>3. j \in 1..l /\ IsHeader(SubSeq(t, 1, j)) /\ HasRead(k, Complete(SubSeq(t, 1, j)))
  BY <1>1, Kinds DEF Progress, Ended, Done, Over
<1>4. PICK n \in 0..l : n = j
  BY <1>3
<1>5. PICK u \in Texts : u = Upto(t, n)
  BY <1>2, UptoFacts DEF Sized
<1>6. IsHeader(u) /\ HasRead(k, Complete(u))
  BY <1>3, <1>4, <1>5 DEF Upto
<1>7. Lead(t) = Lead(u)
  BY <1>2, <1>5, <1>6, HeaderOnce
<1>8. Rest(u) # <<>>
  <2>1. <<NUL>> # <<>> /\ Terminator # <<>>
    BY TerminatorFacts, GrammarAssumption
  <2> QED
    BY <1>6, <2>1 DEF IsHeader
<1>9. Open(u) = <<>>
  BY <1>8 DEF Open, Unfinished
<1>10. PICK fields \in Seq(Written) : fields = Complete(u)
  BY ShapeFacts
<1>11. Fields(Lead(t)) = fields
  BY <1>7, <1>9, <1>10, ShapeFacts
<1>12. Known(fields)
  BY <1>6, <1>10, ViableShape DEF IsHeader, Known
<1>13. TokenizerOK(k)
  BY DEF Progress
<1> QED
  BY <1>6, <1>10, <1>11, <1>12, <1>13, ReadMeans

\* The ids of lexemes.
IdsOf(fields) == [n \in DOMAIN fields |-> fields[n].id]

ARequest(fields) == IdsOf(fields) = <<"Getfile", "Get", "Path">>
AResponse(fields) ==
  \/ IdsOf(fields) = <<"Getfile", "Ok", "Size">>
  \/ \E s \in Statuses \ {"Ok"} : IdsOf(fields) = <<"Getfile", s>>

\* The tokens and the fields that they are.
LEMMA IdsAre ==
  ASSUME NEW k, TokenizerOK(k), NEW fields,
         fields = [n \in DOMAIN k.tokens |-> ReadOf(k, k.tokens[n])]
  PROVE  /\ Ids(k) = IdsOf(fields)
         /\ \A n \in DOMAIN k.tokens :
              /\ fields[n].id = k.tokens[n].id /\ fields[n].size = k.tokens[n].size
              /\ fields[n].id = "Path" => fields[n].path = StringAt(k, k.tokens[n].place)
<1>1. DOMAIN fields = DOMAIN k.tokens
  OBVIOUS
<1>2. ASSUME NEW n \in DOMAIN k.tokens
      PROVE  /\ fields[n].id = k.tokens[n].id /\ fields[n].size = k.tokens[n].size
             /\ fields[n].id = "Path" => fields[n].path = StringAt(k, k.tokens[n].place)
  <2>1. fields[n] = ReadOf(k, k.tokens[n])
    OBVIOUS
  <2> QED
    BY <2>1 DEF ReadOf, Lexeme
<1>3. Ids(k) = IdsOf(fields)
  BY <1>1, <1>2 DEF Ids, IdsOf
<1> QED
  BY <1>2, <1>3

\* The ids of tokens, one by one.
LEMMA ThirdOf ==
  ASSUME NEW k, NEW ids, Ids(k) = ids
  PROVE  DOMAIN k.tokens = DOMAIN ids /\ \A n \in DOMAIN ids : k.tokens[n].id = ids[n]
<1>1. DOMAIN Ids(k) = DOMAIN k.tokens
  BY DEF Ids
<1>2. \A n \in DOMAIN k.tokens : Ids(k)[n] = k.tokens[n].id
  BY DEF Ids
<1> QED
  BY <1>1, <1>2

\* unpack_request_get (gf-student-gflib.c:279-296): the path of a request.
LEMMA RequestOf ==
  ASSUME NEW k, TokenizerOK(k), Done(k), NEW fields,
         fields = [n \in DOMAIN k.tokens |-> ReadOf(k, k.tokens[n])]
  PROVE  UnpackRequest(k) = IF ARequest(fields) THEN fields[3].path ELSE NoPath
<1>1. PICK ids : ids = <<"Getfile", "Get", "Path">>
  OBVIOUS
<1>2. DOMAIN ids = 1..3 /\ ids[3] = "Path"
  BY <1>1
<1>3. CASE Ids(k) = ids
  <2>1. 3 \in DOMAIN k.tokens /\ k.tokens[3].id = "Path"
    BY <1>2, <1>3, ThirdOf
  <2>2. fields[3].path = StringAt(k, k.tokens[3].place)
    BY <2>1, IdsAre
  <2> QED
    BY <1>1, <1>3, <2>2, IdsAre DEF UnpackRequest, ARequest
<1>4. CASE Ids(k) # ids
  BY <1>1, <1>4, IdsAre DEF UnpackRequest, ARequest
<1> QED
  BY <1>3, <1>4

\* unpack_response (gf-student-gflib.c:339-369): the status and the size of a response.
LEMMA ResponseOf ==
  ASSUME NEW k, TokenizerOK(k), Done(k), NEW fields,
         fields = [n \in DOMAIN k.tokens |-> ReadOf(k, k.tokens[n])]
  PROVE  UnpackResponse(k)
           = IF AResponse(fields)
             THEN [status |-> IdsOf(fields)[2],
                   size |-> IF Len(IdsOf(fields)) = 3 THEN fields[3].size ELSE 0]
             ELSE [status |-> Refused, size |-> 0]
<1>1. PICK ids : ids = Ids(k)
  OBVIOUS
<1>2. IdsOf(fields) = ids
  BY <1>1, IdsAre
<1>3. PICK ok : ok = <<"Getfile", "Ok", "Size">>
  OBVIOUS
<1>4. DOMAIN ok = 1..3 /\ ok[2] = "Ok" /\ Len(ok) = 3
  BY <1>3
<1>5. CASE ids = ok
  <2>1. 3 \in DOMAIN k.tokens
    <3>1. Ids(k) = ok
      BY <1>1, <1>5
    <3>2. DOMAIN k.tokens = DOMAIN ok
      BY <3>1, ThirdOf
    <3> QED
      BY <1>4, <3>2
  <2>2. fields[3].size = k.tokens[3].size
    BY <2>1, IdsAre
  <2>3. \A s : ok # <<"Getfile", s>>
    <3>1. \A s : Len(<<"Getfile", s>>) = 2
      OBVIOUS
    <3> QED
      BY <1>4, <3>1
  <2>4. UnpackResponse(k) = [status |-> "Ok", size |-> k.tokens[3].size]
    BY <1>1, <1>3, <1>5, <2>3 DEF UnpackResponse
  <2>5. AResponse(fields)
    BY <1>2, <1>3, <1>5 DEF AResponse
  <2> QED
    BY <1>2, <1>4, <1>5, <2>2, <2>4, <2>5
<1>6. ASSUME NEW s \in Statuses \ {"Ok"}, ids = <<"Getfile", s>>
      PROVE  UnpackResponse(k)
               = IF AResponse(fields)
                 THEN [status |-> IdsOf(fields)[2],
                       size |-> IF Len(IdsOf(fields)) = 3 THEN fields[3].size ELSE 0]
                 ELSE [status |-> Refused, size |-> 0]
  <2>1. PICK two : two = <<"Getfile", s>>
    OBVIOUS
  <2>2. DOMAIN two = 1..2 /\ two[2] = s /\ Len(two) = 2
    BY <2>1
  <2>3. k.tokens[2].id = s
    <3>1. Ids(k) = two
      BY <1>1, <1>6, <2>1
    <3>2. \A n \in DOMAIN two : k.tokens[n].id = two[n]
      BY <3>1, ThirdOf
    <3> QED
      BY <2>2, <3>2
  <2>4. ids # ok
    BY <1>4, <1>6, <2>1, <2>2
  <2>5. UnpackResponse(k) = [status |-> k.tokens[2].id, size |-> 0]
    BY <1>1, <1>3, <1>6, <2>4 DEF UnpackResponse
  <2>6. AResponse(fields)
    BY <1>2, <1>6 DEF AResponse
  <2> QED
    BY <1>2, <1>6, <2>1, <2>2, <2>3, <2>5, <2>6
<1>7. CASE ids # ok /\ \A s \in Statuses \ {"Ok"} : ids # <<"Getfile", s>>
  <2>1. UnpackResponse(k) = [status |-> Refused, size |-> 0]
    BY <1>1, <1>3, <1>7 DEF UnpackResponse
  <2>2. ~AResponse(fields)
    BY <1>2, <1>3, <1>7 DEF AResponse
  <2> QED
    BY <2>1, <2>2
<1> QED
  BY <1>5, <1>6, <1>7

\* What recv returned is a text.
LEMMA ChunkIsText ==
  ASSUME TypeInv
  PROVE  chunk \in Texts
<1>1. <<>> \in Texts
  BY DEF Texts
<1>2. Pieces \subseteq Texts
  BY ReaderAssumption DEF Texts
<1> QED
  BY <1>1, <1>2 DEF TypeInv

\* A request or a response is what it is taken for.
LEMMA RequestExact ==
  ASSUME NEW j, ReadAt(j), TypeInv, NEW fields, fields = Meanings(Fields(Lead(received)))
  PROVE  Request = IF socket # "failed" /\ IsHeader(received) /\ ARequest(fields)
                   THEN fields[3].path ELSE NoPath
<1>1. PICK t \in Texts : t = received
  BY DEF TypeInv
<1>2. PICK k : k = tok
  OBVIOUS
<1>3. Progress(k, t, Len(t), j) /\ TokenizerOK(k)
  BY <1>1, <1>2 DEF ReadAt, Progress
<1>4. IsHeader(t) <=> Done(k) /\ j = Len(t)
  BY <1>3, HeaderDone
<1>5. CASE ~Done(k)
  BY <1>1, <1>2, <1>4, <1>5 DEF Request, UnpackRequest
<1>6. CASE Done(k)
  <2>1. socket = "open"
    BY <1>2, <1>6 DEF ReadAt, Over, Done
  <2>2. PICK c \in Nat : c = Len(chunk)
    <3>1. chunk \in Texts
      BY ChunkIsText
    <3> QED
      BY <3>1, PieceBehind
  <2>3. processed < Len(chunk) <=> j # Len(t)
    <3>1. PICK p \in 1..c : p = processed
      BY <1>2, <1>6, <2>2 DEF ReadAt
    <3>2. PICK l \in Nat : l = Len(t)
      BY PieceBehind
    <3>3. PICK n \in 0..l : n = j
      BY <1>3, <1>6, <3>2, Kinds DEF Progress, Over, Done
    <3>4. Sized(chunk, c) /\ Sized(t, l) /\ chunk \in Texts
      BY <2>2, <3>2, ChunkIsText DEF Sized
    <3>5. PICK a \in Texts : a = Upto(t, n)
      BY <3>4, UptoFacts DEF Sized
    <3>6. PICK b \in Texts : b = After(chunk, p, c)
      BY <3>4, AfterFacts DEF Sized
    <3>7. PICK d \in Nat : d = c - p
      OBVIOUS
    <3>8. Sized(a, n) /\ Sized(b, d)
      <4>1. Sized(a, n)
        BY <3>4, <3>5, UptoFacts
      <4>2. Sized(b, d)
        BY <3>4, <3>6, <3>7, AfterFacts
      <4> QED
        BY <4>1, <4>2
    <3>9. Sized(Both(a, b), n + d)
      BY <3>8, BothFacts
    <3>10. t = Both(a, b)
      BY <1>1, <1>2, <1>6, <2>2, <3>1, <3>3, <3>5, <3>6 DEF ReadAt
    <3>11. l = n + d
      BY <3>2, <3>9, <3>10 DEF Sized
    <3> QED
      BY <2>2, <3>1, <3>2, <3>3, <3>7, <3>11
  <2>4. fields = [n \in DOMAIN k.tokens |-> ReadOf(k, k.tokens[n])]
    BY <1>1, <1>3, <1>6, DoneMeans
  <2>5. UnpackRequest(k) = IF ARequest(fields) THEN fields[3].path ELSE NoPath
    BY <1>3, <1>6, <2>4, RequestOf
  <2> QED
    BY <1>1, <1>2, <1>4, <1>6, <2>1, <2>3, <2>5 DEF Request
<1> QED
  BY <1>5, <1>6

\* A response is taken exactly when a header of its fields was received, whatever is behind it.
LEMMA ResponseExact ==
  ASSUME NEW j, ReadAt(j), TypeInv, NEW fields, fields = Meanings(Fields(Lead(received)))
  PROVE  Response = IF socket # "failed" /\ Decided(received).how = "header" /\ AResponse(fields)
                    THEN [status |-> IdsOf(fields)[2],
                          size |-> IF Len(IdsOf(fields)) = 3 THEN fields[3].size ELSE 0]
                    ELSE [status |-> Refused, size |-> 0]
<1>1. PICK t \in Texts : t = received
  BY DEF TypeInv
<1>2. PICK k : k = tok
  OBVIOUS
<1>3. Progress(k, t, Len(t), j) /\ TokenizerOK(k)
  BY <1>1, <1>2 DEF ReadAt, Progress
<1>4. Decided(t).how = "header" <=> Done(k)
  <2>1. Decided(t).how = IF ~Over(k) THEN "open" ELSE IF Done(k) THEN "header"
                         ELSE IF Invalid(k) THEN "invalid" ELSE "outside"
    BY <1>3, DecidedIs
  <2> QED
    BY <2>1 DEF Over, Done
<1>5. CASE ~Done(k)
  BY <1>1, <1>2, <1>4, <1>5 DEF Response, UnpackResponse
<1>6. CASE Done(k)
  <2>1. socket = "open"
    BY <1>2, <1>6 DEF ReadAt, Over, Done
  <2>2. fields = [n \in DOMAIN k.tokens |-> ReadOf(k, k.tokens[n])]
    BY <1>1, <1>3, <1>6, DoneMeans
  <2>3. UnpackResponse(k)
          = IF AResponse(fields)
            THEN [status |-> IdsOf(fields)[2],
                  size |-> IF Len(IdsOf(fields)) = 3 THEN fields[3].size ELSE 0]
            ELSE [status |-> Refused, size |-> 0]
    BY <1>3, <1>6, <2>2, ResponseOf
  <2> QED
    BY <1>1, <1>2, <1>4, <1>6, <2>1, <2>3 DEF Response
<1> QED
  BY <1>5, <1>6

\* A message is taken exactly when it is one.
LEMMA TakenExactly == ReadInv => TakenWhenExact
<1> SUFFICES ASSUME ReadInv
             PROVE  TakenWhenExact
  OBVIOUS
<1>1. PICK j : ReadAt(j)
  BY DEF ReadInv
<1>2. TypeInv
  BY DEF ReadInv
<1>3. PICK fields : fields = Meanings(Fields(Lead(received)))
  OBVIOUS
<1>4. Request = IF socket # "failed" /\ IsHeader(received) /\ ARequest(fields)
                THEN fields[3].path ELSE NoPath
  BY <1>1, <1>2, <1>3, RequestExact
<1>5. Response = IF socket # "failed" /\ Decided(received).how = "header" /\ AResponse(fields)
                 THEN [status |-> IdsOf(fields)[2],
                       size |-> IF Len(IdsOf(fields)) = 3 THEN fields[3].size ELSE 0]
                 ELSE [status |-> Refused, size |-> 0]
  BY <1>1, <1>2, <1>3, ResponseExact
<1> QED
  BY <1>3, <1>4, <1>5 DEF TakenWhenExact, ARequest, AResponse, IdsOf

\* What is printed behind a text.
LEMMA JoinAppend ==
  ASSUME NEW a \in Texts, NEW b \in Texts, NEW c \in Int
  PROVE  /\ Both(a, Append(b, c)) = Append(Both(a, b), c) /\ Both(a, b) \in Texts
         /\ Both(a, <<c>>) = Append(a, c)
<1>1. PICK m \in Nat : m = Len(a)
  BY PieceBehind
<1>2. PICK n \in Nat : n = Len(b)
  BY PieceBehind
<1>3. Sized(a, m) /\ Sized(b, n)
  BY <1>1, <1>2 DEF Sized
<1>4. PICK bc \in Texts : bc = Append(b, c)
  BY TextAppend
<1>5. Sized(bc, n + 1) /\ bc[n + 1] = c /\ \A i \in 1..n : bc[i] = b[i]
  BY <1>2, <1>4, TextAppend DEF Sized
<1>6. PICK e \in Texts : e = Both(a, b)
  BY <1>3, BothFacts DEF Sized
<1>7. Sized(e, m + n) /\ (\A i \in 1..m : e[i] = a[i]) /\ \A i \in 1..n : e[m + i] = b[i]
  BY <1>3, <1>6, BothFacts
<1>8. PICK f \in Texts : f = Append(e, c)
  BY TextAppend
<1>9. Sized(f, m + n + 1) /\ f[m + n + 1] = c /\ \A i \in 1..m + n : f[i] = e[i]
  <2>1. PICK k \in Nat : k = m + n
    OBVIOUS
  <2>2. Len(e) = k
    BY <1>7, <2>1 DEF Sized
  <2>3. Len(f) = k + 1 /\ f[k + 1] = c /\ \A i \in 1..k : f[i] = e[i]
    BY <1>8, <2>2, TextAppend
  <2> QED
    BY <2>1, <2>3 DEF Sized
<1>10. PICK n1 \in Nat : n1 = n + 1
  OBVIOUS
<1>11. PICK g \in Texts : g = Both(a, bc)
  BY <1>3, <1>5, <1>10, BothFacts DEF Sized
<1>12. /\ Sized(g, m + n1) /\ (\A i \in 1..m : g[i] = a[i])
       /\ \A i \in 1..n1 : g[m + i] = bc[i]
  <2>1. Sized(bc, n1)
    BY <1>5, <1>10
  <2> QED
    BY <1>3, <1>11, <2>1, BothFacts
<1>13. PICK s \in Nat : s = m + n + 1
  OBVIOUS
<1>14. ASSUME NEW i \in 1..s
       PROVE  g[i] = f[i]
  <2>1. CASE i <= m
    <3>1. i \in 1..m /\ i \in 1..m + n
      BY <2>1
    <3> QED
      BY <1>7, <1>9, <1>12, <3>1
  <2>2. CASE i > m /\ i <= m + n
    <3>1. PICK x \in 1..n : x = i - m
      BY <2>2
    <3>2. m + x = i /\ x \in 1..n1 /\ i \in 1..m + n
      BY <1>10, <2>2, <3>1
    <3>3. g[m + x] = bc[x] /\ bc[x] = b[x] /\ e[m + x] = b[x] /\ f[i] = e[i]
      BY <1>5, <1>7, <1>9, <1>12, <3>2
    <3> QED
      BY <3>2, <3>3
  <2>3. CASE i > m + n
    <3>1. i = m + n + 1 /\ i = m + n1 /\ n1 \in 1..n1
      BY <1>10, <1>13, <2>3
    <3>2. g[m + n1] = bc[n1] /\ bc[n1] = c
      BY <1>5, <1>10, <1>12, <3>1
    <3> QED
      BY <1>9, <3>1, <3>2
  <2> QED
    BY <2>1, <2>2, <2>3
<1>15. g = f
  <2>1. Sized(g, s) /\ Sized(f, s)
    BY <1>9, <1>10, <1>12, <1>13
  <2> QED
    BY <1>14, <2>1, SameText
<1>16. Both(a, <<c>>) = Append(a, c)
  BY DEF Both, Texts
<1> QED
  BY <1>4, <1>6, <1>8, <1>11, <1>15, <1>16

\* The first part of JoinAppend, for texts that are bound.
LEMMA JoinLonger ==
  \A a, b \in Texts : \A c \in Int : Both(a, Append(b, c)) = Append(Both(a, b), c)
<1> TAKE a, b \in Texts
<1> TAKE c \in Int
<1>1. /\ Both(a, Append(b, c)) = Append(Both(a, b), c) /\ Both(a, b) \in Texts
      /\ Both(a, <<c>>) = Append(a, c)
  BY JoinAppend
<1> QED
  BY <1>1

\* A word of a header.
WordText(w) == w \in Written /\ \A i \in 1..Len(w) : w[i] \in WordChars

\* A text of fields cs and of a last one w.
Line(u, cs, w) == u \in Texts /\ Rest(u) = <<>> /\ Complete(u) = cs /\ Open(u) = w

\* A word behind a space is the last field,
LEMMA LineOpens ==
  ASSUME NEW t \in Texts, NEW cs, Line(t, cs, <<>>), NEW word, WordText(word)
  PROVE  Line(Both(t, word), cs, word)
<1> DEFINE S == {w \in Texts : (\A i \in 1..Len(w) : w[i] \in WordChars)
                                 => Line(Both(t, w), cs, w)}
<1>1. <<>> \in S
  <2>1. <<>> \in Texts /\ Both(t, <<>>) = t
    BY DEF Both, Texts
  <2> QED
    BY <2>1
<1>2. ASSUME NEW w \in Texts, NEW c \in Int, w \in S
      PROVE  Append(w, c) \in S
  <2>1. PICK v \in Texts : v = Append(w, c)
    BY TextAppend
  <2> SUFFICES ASSUME \A i \in 1..Len(v) : v[i] \in WordChars
               PROVE  Line(Both(t, v), cs, v)
    BY <2>1
  <2>2. /\ Len(w) \in Nat /\ Len(v) = Len(w) + 1 /\ v[Len(w) + 1] = c
        /\ \A i \in 1..Len(w) : v[i] = w[i]
    BY <2>1, TextAppend
  <2>3. c \in WordChars /\ \A i \in 1..Len(w) : w[i] \in WordChars
    BY <2>2
  <2>4. PICK u \in Texts : u = Both(t, w)
    BY JoinAppend
  <2>5. Line(u, cs, w)
    BY <1>2, <2>3, <2>4
  <2>6. Both(t, v) = Append(u, c)
    <3>1. Both(t, Append(w, c)) = Append(Both(t, w), c)
      BY JoinLonger, Zenon
    <3> QED
      BY <2>1, <2>4, <3>1
  <2>7. c \notin Stops /\ c # Space
    BY <2>3, WordCharGoesOn
  <2>8. /\ Rest(Append(u, c)) = <<>> /\ Open(Append(u, c)) = Append(w, c)
        /\ Complete(Append(u, c)) = cs /\ Append(u, c) \in Texts
    BY <2>5, <2>7, ShapeChar, TextAppend DEF Line
  <2> QED
    BY <2>1, <2>6, <2>8 DEF Line
<1>3. Texts \subseteq S
  <2>1. PICK s : s = S
    OBVIOUS
  <2> HIDE DEF S
  <2>2. <<>> \in s /\ \A w \in Texts : \A c \in Int : w \in s => Append(w, c) \in s
    BY <1>1, <1>2, <2>1
  <2> QED
    BY <2>1, <2>2, TextInduction
<1> QED
  BY <1>3 DEF WordText, Written

\* as it is at the beginning.
LEMMA LineBegins ==
  ASSUME NEW w, WordText(w)
  PROVE  Line(w, <<>>, w)
<1>1. <<>> \in Texts /\ Both(<<>>, w) = w
  BY DEF Both, Texts, WordText, Written
<1>2. Line(<<>>, <<>>, <<>>)
  BY <1>1, ShapeEmpty DEF Line
<1> QED
  BY <1>1, <1>2, LineOpens

\* A space and a word make one more field.
LEMMA LineGoesOn ==
  ASSUME NEW u, NEW cs, NEW v \in Written, Line(u, cs, v), NEW w, WordText(w)
  PROVE  Line((u \o <<Space>>) \o w, Append(cs, v), w)
<1>1. u \in Texts /\ Space \in Int
  BY DEF Line, Space
<1>2. PICK t \in Texts : t = Append(u, Space)
  BY <1>1, TextAppend
<1>3. u \o <<Space>> = t
  BY <1>1, <1>2, JoinAppend DEF Both
<1>4. Line(t, Append(cs, v), <<>>)
  BY <1>1, <1>2, ShapeSpace DEF Line, Written
<1>5. Line(Both(t, w), Append(cs, v), w)
  BY <1>4, LineOpens
<1> QED
  BY <1>3, <1>5 DEF Both

\* The terminator makes a header of a line whose fields have meanings.
LEMMA LineEnds ==
  ASSUME NEW u, NEW cs \in Seq(Written), NEW w \in Written, Line(u, cs, w),
         Known(Append(cs, w)), NEW t, t = u \o Terminator
  PROVE  t \in Texts /\ t # <<>> /\ IsHeader(t) /\ Fields(Lead(t)) = Append(cs, w)
<1>1. PICK e \in Texts : e = Terminator
  <2>1. PICK x \in Seq(EndChars) : x = Terminator
    BY TerminatorFacts, GrammarAssumption
  <2>2. PICK k \in Nat : x \in [1..k -> EndChars]
    BY SeqDef
  <2>3. x \in [1..k -> Int]
    <3>1. x = [i \in 1..k |-> x[i]]
      BY <2>2
    <3>2. \A i \in 1..k : x[i] \in EndChars
      BY <2>2
    <3>3. EndChars \subseteq Int
      BY DEF EndChars
    <3>4. \A i \in 1..k : x[i] \in Int
      BY <3>2, <3>3
    <3>5. [i \in 1..k |-> x[i]] \in [1..k -> Int]
      BY <3>4
    <3> QED
      BY <3>1, <3>5, Zenon
  <2>4. x \in Seq(Int)
    BY <2>3, SeqDef
  <2> QED
    BY <2>1, <2>4 DEF Texts
<1>2. PICK n \in Nat : n = Len(e)
  BY PieceBehind
<1>3. u \in Texts
  BY DEF Line
<1>4. PICK m \in Nat : m = Len(u)
  BY <1>3, PieceBehind
<1>5. Sized(u, m) /\ Sized(e, n) /\ t = Both(u, e)
  BY <1>1, <1>2, <1>3, <1>4 DEF Sized, Both
<1>6. /\ Sized(t, m + n) /\ (\A i \in 1..m : t[i] = u[i])
      /\ \A i \in 1..n : t[m + i] = e[i]
  BY <1>3, <1>5, BothFacts
<1>7. n >= 2 /\ e # <<>> /\ e[1] \in Stops
  BY <1>1, <1>2, TerminatorFacts, GrammarAssumption DEF Stops
<1>8. LeadLength(u) = m /\ Lead(u) = u
  BY <1>3, <1>4, LeadRest DEF Line
<1>9. \A i \in 1..m : u[i] \notin Stops
  BY <1>3, <1>8, LeadLengthFacts
<1>10. LeadLength(t) = m
  <2>1. t[m + 1] \in Stops
    <3>1. 1 \in 1..n
      BY <1>7
    <3> QED
      BY <1>6, <1>7, <3>1
  <2>2. m \in 0..Len(t) /\ t \in Texts /\ \A i \in 1..m : t[i] \notin Stops
    BY <1>6, <1>9 DEF Sized
  <2> QED
    BY <2>1, <2>2, LeadLengthIs
<1>11. t \in Texts /\ Len(t) = m + n
  BY <1>6 DEF Sized
<1>12. /\ Len(Lead(t)) = m /\ Len(Rest(t)) = n /\ Lead(t) \in Texts /\ Rest(t) \in Texts
       /\ \A i \in 1..m : Lead(t)[i] = t[i]
       /\ \A i \in 1..n : Rest(t)[i] = t[m + i]
  <2>1. PICK k \in Nat : k = m + n
    OBVIOUS
  <2>2. k - m = n /\ Len(t) = k
    BY <1>11, <2>1
  <2> QED
    BY <1>10, <1>11, <2>2, LeadRest
<1>13. Lead(t) = u
  <2>1. \A i \in 1..m : Lead(t)[i] = u[i]
    BY <1>6, <1>12
  <2> QED
    BY <1>3, <1>5, <1>12, <2>1, SameText DEF Sized
<1>14. Rest(t) = e
  <2>1. \A i \in 1..n : Rest(t)[i] = e[i]
    BY <1>6, <1>12
  <2> QED
    BY <1>5, <1>12, <2>1, SameText DEF Sized
<1>15. Fields(u) = Append(cs, w)
  <2>1. Open(u) # <<>> /\ Open(u) = w /\ Complete(u) = cs
    BY DEF Line, Written
  <2> QED
    BY <1>3, <1>8, <2>1, ShapeFacts
<1>16. Open(t) = <<>>
  BY <1>7, <1>14 DEF Open, Unfinished
<1>17. Complete(t) = Append(cs, w)
  BY <1>11, <1>13, <1>15, <1>16, ShapeFacts
<1>18. Lead(t) # <<>>
  <2>1. Open(u) # <<>> /\ Open(<<>>) = <<>>
    BY ShapeEmpty DEF Line, Written
  <2> QED
    BY <1>13, <2>1
<1>19. e \in Parts(Terminator)
  <2>1. PICK x \in Seq(EndChars) : x = Terminator
    BY TerminatorFacts, GrammarAssumption
  <2>2. x \in Parts(x)
    BY <1>1, <1>7, <2>1, WholeIsPart
  <2> QED
    BY <1>1, <2>1, <2>2
<1>20. Viable(t)
  BY <1>11, <1>14, <1>16, <1>17, <1>18, <1>19, ViableShape DEF Known
<1>21. IsHeader(t)
  BY <1>1, <1>14, <1>20 DEF IsHeader
<1>22. t # <<>>
  BY <1>7, <1>14, ShapeEmpty
<1> QED
  BY <1>11, <1>13, <1>15, <1>21, <1>22

\* snprintf_tokens of two and of three tokens.
Spaced(a, b) == (a \o <<Space>>) \o b

AreTexts(f, s) == f = [n \in 1..Len(s) |-> IF n = 1 THEN s[1] ELSE Spaced(f[n - 1], s[n])]

\* snprintf_tokens prints its tokens one after another.
LEMMA TextRun ==
  ASSUME NEW s, \E f : AreTexts(f, s)
  PROVE  \E f : AreTexts(f, s) /\ HeaderText(s) = f[Len(s)] \o Terminator
<1> DEFINE text[n \in 1..Len(s)] == IF n = 1 THEN s[1] ELSE (text[n - 1] \o <<Space>>) \o s[n]
<1>1. \E f : f = [n \in 1..Len(s) |-> IF n = 1 THEN s[1] ELSE (f[n - 1] \o <<Space>>) \o s[n]]
  BY DEF AreTexts, Spaced
<1>2. text = [n \in 1..Len(s) |->
                IF n = 1 THEN s[1] ELSE (text[n - 1] \o <<Space>>) \o s[n]]
  BY <1>1
<1>3. HeaderText(s) = text[Len(s)] \o Terminator
  BY DEF HeaderText
<1> HIDE DEF text
<1>4. AreTexts(text, s)
  BY <1>2 DEF AreTexts, Spaced
<1> QED
  BY <1>3, <1>4

\* The text of two tokens,
LEMMA TextOfTwo ==
  ASSUME NEW a, NEW b
  PROVE  HeaderText(<<a, b>>) = Spaced(a, b) \o Terminator
<1>1. PICK s : s = <<a, b>>
  OBVIOUS
<1>2. Len(s) = 2 /\ s[1] = a /\ s[2] = b
  BY <1>1
<1>3. PICK g : g = [n \in 1..2 |-> IF n = 1 THEN a ELSE Spaced(a, b)]
  OBVIOUS
<1>4. \A n \in 1..2 : g[n] = IF n = 1 THEN s[1] ELSE Spaced(g[n - 1], s[n])
  <2>1. g[1] = a /\ g[2] = Spaced(a, b) /\ 2 - 1 = 1
    BY <1>3
  <2>2. \A n \in 1..2 : n = 1 \/ n = 2
    OBVIOUS
  <2> QED
    BY <1>2, <2>1, <2>2
<1>5. AreTexts(g, s)
  BY <1>2, <1>3, <1>4 DEF AreTexts
<1>6. PICK f : AreTexts(f, s) /\ HeaderText(s) = f[Len(s)] \o Terminator
  BY <1>5, TextRun
<1>7. f = [n \in 1..2 |-> IF n = 1 THEN s[1] ELSE Spaced(f[n - 1], s[n])]
  BY <1>2, <1>6 DEF AreTexts
<1>8. f[1] = a
  BY <1>2, <1>7
<1>9. f[2] = Spaced(f[2 - 1], b)
  BY <1>2, <1>7
<1>10. f[2] = Spaced(a, b)
  <2>1. 2 - 1 = 1
    OBVIOUS
  <2> QED
    BY <1>8, <1>9, <2>1, Zenon
<1> QED
  BY <1>1, <1>2, <1>6, <1>10, Zenon

\* and of three.
LEMMA TextOfThree ==
  ASSUME NEW a, NEW b, NEW c
  PROVE  HeaderText(<<a, b, c>>) = Spaced(Spaced(a, b), c) \o Terminator
<1>1. PICK s : s = <<a, b, c>>
  OBVIOUS
<1>2. Len(s) = 3 /\ s[1] = a /\ s[2] = b /\ s[3] = c
  BY <1>1
<1>3. PICK g : g = [n \in 1..3 |-> IF n = 1 THEN a
                                  ELSE IF n = 2 THEN Spaced(a, b) ELSE Spaced(Spaced(a, b), c)]
  OBVIOUS
<1>4. \A n \in 1..3 : g[n] = IF n = 1 THEN s[1] ELSE Spaced(g[n - 1], s[n])
  <2>1. g[1] = a /\ g[2] = Spaced(a, b) /\ g[3] = Spaced(g[2], c) /\ 2 - 1 = 1 /\ 3 - 1 = 2
    BY <1>3
  <2>2. \A n \in 1..3 : n = 1 \/ n = 2 \/ n = 3
    OBVIOUS
  <2> QED
    BY <1>2, <2>1, <2>2
<1>5. AreTexts(g, s)
  BY <1>2, <1>3, <1>4 DEF AreTexts
<1>6. PICK f : AreTexts(f, s) /\ HeaderText(s) = f[Len(s)] \o Terminator
  BY <1>5, TextRun
<1>7. f = [n \in 1..3 |-> IF n = 1 THEN s[1] ELSE Spaced(f[n - 1], s[n])]
  BY <1>2, <1>6 DEF AreTexts
<1>8. f[1] = a
  BY <1>2, <1>7
<1>9. f[2] = Spaced(f[2 - 1], b)
  BY <1>2, <1>7
<1>10. f[3] = Spaced(f[3 - 1], c)
  BY <1>2, <1>7
<1>11. f[3] = Spaced(Spaced(a, b), c)
  <2>1. 2 - 1 = 1 /\ 3 - 1 = 2
    OBVIOUS
  <2> QED
    BY <1>8, <1>9, <1>10, <2>1, Zenon
<1> QED
  BY <1>1, <1>2, <1>6, <1>11, Zenon

-----------------------------------------------------------------------------
(* What %zu prints.                                                          *)

DigitsOf(f, n) == IF n < 10 THEN <<48 + n>> ELSE Append(f[n \div 10], 48 + (n % 10))

\* The texts of the numbers up to n.
Printed(f, n) == f \in [0..n -> Texts] /\ \A i \in 0..n : f[i] = DigitsOf(f, i)

\* The number before the last digit, and that digit.
LEMMA Tenth ==
  ASSUME NEW n \in Nat
  PROVE  /\ n >= 10 => n \div 10 \in Nat /\ n \div 10 < n /\ n % 10 \in 0..9
         /\ n >= 10 => 10 * (n \div 10) + (n % 10) = n
OBVIOUS

\* What is printed of one more digit is a text.
LEMMA DigitsAreText ==
  ASSUME NEW n \in Nat, NEW f, n >= 10 => f[n \div 10] \in Texts
  PROVE  DigitsOf(f, n) \in Texts
<1>1. CASE n < 10
  <2>1. <<48 + n>> \in Seq(Int)
    OBVIOUS
  <2> QED
    BY <1>1, <2>1 DEF DigitsOf, Texts
<1>2. CASE n >= 10
  <2>1. PICK c \in Int : c = 48 + (n % 10)
    BY <1>2, Tenth
  <2>2. PICK t \in Texts : t = f[n \div 10]
    BY <1>2
  <2>3. Append(t, c) \in Texts
    BY TextAppend
  <2> QED
    BY <1>2, <2>1, <2>2, <2>3 DEF DigitsOf
<1> QED
  BY <1>1, <1>2

\* What is printed of a number does not depend on how far the texts go.
LEMMA PrintedAlike ==
  ASSUME NEW n \in Nat, NEW f, Printed(f, n), NEW m \in Nat, n <= m, NEW g, Printed(g, m)
  PROVE  \A i \in 0..n : f[i] = g[i]
<1> SUFFICES ASSUME NEW i \in 0..n, f[i] # g[i]
             PROVE  FALSE
  OBVIOUS
<1>1. PICK T : T = {x \in 0..n : f[x] # g[x]}
  OBVIOUS
<1>2. T \subseteq Nat /\ i \in T
  BY <1>1
<1>3. PICK x \in T : \A y \in T : x <= y
  BY <1>2, LeastOfSet
<1>4. x \in Nat /\ x <= n /\ x \in 0..n /\ x \in 0..m /\ f[x] # g[x]
  BY <1>1, <1>3
<1>5. f[x] = DigitsOf(f, x) /\ g[x] = DigitsOf(g, x)
  BY <1>4 DEF Printed
<1>6. CASE x < 10
  BY <1>4, <1>5, <1>6 DEF DigitsOf
<1>7. CASE x >= 10
  <2>1. PICK y \in Nat : y = x \div 10
    BY <1>4, <1>7, Tenth
  <2>2. y < x
    BY <1>4, <1>7, <2>1, Tenth
  <2>3. y \in 0..n /\ y \notin T
    BY <1>3, <1>4, <2>2
  <2>4. f[y] = g[y]
    BY <1>1, <2>3
  <2> QED
    BY <1>4, <1>5, <1>7, <2>1, <2>4 DEF DigitsOf
<1> QED
  BY <1>4, <1>6, <1>7

\* There are texts of the numbers up to any.
LEMMA SomePrinted == \A n \in Nat : \E f : Printed(f, n)
<1> DEFINE S == {n \in Nat : \E f : Printed(f, n)}
<1>1. 0 \in S
  <2>1. PICK f : f = [i \in 0..0 |-> <<48>>]
    OBVIOUS
  <2>2. <<48>> \in Texts /\ 48 + 0 = 48
    BY DEF Texts
  <2>3. \A i \in 0..0 : i = 0
    OBVIOUS
  <2>4. DigitsOf(f, 0) = <<48>>
    BY <2>2 DEF DigitsOf
  <2> QED
    BY <2>1, <2>2, <2>3, <2>4 DEF Printed
<1>2. ASSUME NEW n \in Nat, n \in S
      PROVE  n + 1 \in S
  <2>1. PICK f : Printed(f, n)
    BY <1>2
  <2>2. PICK m \in Nat : m = n + 1
    OBVIOUS
  <2>3. ASSUME m >= 10
        PROVE  m \div 10 \in 0..n
    BY <2>2, <2>3, Tenth
  <2>4. PICK last \in Texts : last = DigitsOf(f, m)
    BY <2>1, <2>3, DigitsAreText DEF Printed
  <2>5. PICK g : g = [i \in 0..m |-> IF i <= n THEN f[i] ELSE last]
    OBVIOUS
  <2>6. g \in [0..m -> Texts]
    <3>1. \A i \in 0..m : i <= n => i \in 0..n
      BY <2>2
    <3>2. \A i \in 0..m : (IF i <= n THEN f[i] ELSE last) \in Texts
      BY <2>1, <3>1 DEF Printed
    <3> QED
      BY <2>5, <3>2
  <2>7. ASSUME NEW i \in 0..m
        PROVE  g[i] = DigitsOf(g, i)
    <3>1. DigitsOf(g, i) = DigitsOf(f, i)
      <4>1. CASE i < 10
        BY <4>1 DEF DigitsOf
      <4>2. CASE i >= 10
        <5>1. PICK y \in Nat : y = i \div 10 /\ y < i
          BY <4>2, Tenth
        <5>2. y \in 0..m /\ y <= n
          BY <2>2, <5>1
        <5>3. g[y] = f[y]
          BY <2>5, <5>2
        <5> QED
          BY <4>2, <5>1, <5>3 DEF DigitsOf
      <4> QED
        BY <4>1, <4>2
    <3>2. CASE i <= n
      <4>1. i \in 0..n
        BY <3>2
      <4>2. f[i] = DigitsOf(f, i)
        BY <2>1, <4>1 DEF Printed
      <4> QED
        BY <2>5, <3>1, <3>2, <4>2
    <3>3. CASE ~(i <= n)
      <4>1. i = m
        BY <2>2, <3>3
      <4> QED
        BY <2>4, <2>5, <3>1, <3>3, <4>1
    <3> QED
      BY <3>2, <3>3
  <2>8. Printed(g, m)
    BY <2>6, <2>7 DEF Printed
  <2> QED
    BY <2>2, <2>8
<1>3. Nat \subseteq S
  <2> HIDE DEF S
  <2> QED
    BY <1>1, <1>2, Inductive
<1> QED
  BY <1>3

\* Decimal is what its recursion says.
LEMMA DecimalIs == Decimal \in [Nat -> Texts] /\ \A n \in Nat : Decimal[n] = DigitsOf(Decimal, n)
<1> DEFINE F(n) == CHOOSE f : Printed(f, n)
           D == [n \in Nat |-> F(n)[n]]
<1>1. \A n \in Nat : Printed(F(n), n)
  BY SomePrinted
<1> HIDE DEF F
<1>2. D \in [Nat -> Texts]
  <2>1. \A n \in Nat : F(n)[n] \in Texts
    BY <1>1 DEF Printed
  <2> QED
    BY <2>1
<1>3. ASSUME NEW n \in Nat
      PROVE  D[n] = DigitsOf(D, n)
  <2>1. PICK f : f = F(n)
    OBVIOUS
  <2>2. Printed(f, n) /\ n \in 0..n
    BY <1>1, <2>1
  <2>3. D[n] = f[n] /\ f[n] = DigitsOf(f, n)
    BY <2>1, <2>2 DEF Printed
  <2>4. CASE n < 10
    BY <2>3, <2>4 DEF DigitsOf
  <2>5. CASE n >= 10
    <3>1. PICK y \in Nat : y = n \div 10 /\ y < n
      BY <2>5, Tenth
    <3>2. PICK g : g = F(y)
      OBVIOUS
    <3>3. Printed(g, y) /\ y \in 0..y /\ y <= n
      BY <1>1, <3>1, <3>2
    <3>4. g[y] = f[y]
      BY <2>2, <3>3, PrintedAlike
    <3>5. D[y] = f[y]
      BY <3>2, <3>4
    <3> QED
      BY <2>3, <2>5, <3>1, <3>5 DEF DigitsOf
  <2> QED
    BY <2>4, <2>5
<1>4. PICK d : d = D
  OBVIOUS
<1>5. d \in [Nat -> Texts] /\ \A n \in Nat : d[n] = DigitsOf(d, n)
  BY <1>2, <1>3, <1>4
<1> HIDE DEF D
<1>6. d = [n \in Nat |-> IF n < 10 THEN <<48 + n>> ELSE Append(d[n \div 10], 48 + (n % 10))]
  <2>1. d = [n \in Nat |-> d[n]]
    BY <1>5
  <2>2. d = [n \in Nat |-> DigitsOf(d, n)]
    BY <1>5, <2>1
  <2> QED
    BY <2>2 DEF DigitsOf
<1>7. Decimal = [n \in Nat |-> IF n < 10 THEN <<48 + n>>
                               ELSE Append(Decimal[n \div 10], 48 + (n % 10))]
  BY <1>6 DEF Decimal
<1>8. PICK e : e = Decimal
  OBVIOUS
<1>9. \A n \in Nat : e[n] = DigitsOf(e, n)
  BY <1>7, <1>8 DEF DigitsOf
<1>10. ASSUME NEW n \in Nat
       PROVE  e[n] \in Texts
  <2>1. SUFFICES ASSUME e[n] \notin Texts
                 PROVE  FALSE
    OBVIOUS
  <2>2. PICK T : T = {x \in Nat : e[x] \notin Texts}
    OBVIOUS
  <2>3. T \subseteq Nat /\ n \in T
    BY <2>1, <2>2
  <2>4. PICK x \in T : \A y \in T : x <= y
    BY <2>3, LeastOfSet
  <2>5. x \in Nat /\ e[x] \notin Texts
    BY <2>2, <2>4
  <2>6. ASSUME x >= 10
        PROVE  e[x \div 10] \in Texts
    <3>1. PICK y \in Nat : y = x \div 10 /\ y < x
      BY <2>5, <2>6, Tenth
    <3>2. y \notin T
      BY <2>4, <2>5, <3>1
    <3> QED
      BY <2>2, <3>1, <3>2
  <2>7. DigitsOf(e, x) \in Texts
    BY <2>5, <2>6, DigitsAreText
  <2> QED
    BY <1>9, <2>5, <2>7
<1>11. e = [n \in Nat |-> e[n]]
  BY <1>7, <1>8
<1>12. e \in [Nat -> Texts]
  BY <1>10, <1>11
<1> QED
  BY <1>8, <1>9, <1>12

\* A printed number is read as that number.
LEMMA NumberOfDecimal ==
  ASSUME NEW n \in Nat
  PROVE  DigitText(Decimal[n]) /\ Number(Decimal[n]) = n
<1>1. PICK e : e = Decimal
  OBVIOUS
<1>2. \A x \in Nat : e[x] \in Texts /\ e[x] = DigitsOf(e, x)
  BY <1>1, DecimalIs
<1> SUFFICES ASSUME ~(DigitText(e[n]) /\ Number(e[n]) = n)
             PROVE  FALSE
  BY <1>1
<1>3. PICK T : T = {x \in Nat : ~(DigitText(e[x]) /\ Number(e[x]) = x)}
  OBVIOUS
<1>4. T \subseteq Nat /\ n \in T
  BY <1>3
<1>5. PICK x \in T : \A y \in T : x <= y
  BY <1>4, LeastOfSet
<1>6. x \in Nat /\ ~(DigitText(e[x]) /\ Number(e[x]) = x)
  BY <1>3, <1>5
<1>7. CASE x < 10
  <2>1. PICK c \in Int : c = 48 + x
    BY <1>6
  <2>2. c \in Digits
    BY <1>6, <1>7, <2>1 DEF Digits
  <2>3. e[x] = <<c>>
    BY <1>2, <1>6, <1>7, <2>1 DEF DigitsOf
  <2>4. <<>> \in Texts
    BY DEF Texts
  <2>5. PICK t \in Texts : t = Append(<<>>, c)
    BY <2>4, TextAppend
  <2>6. e[x] = t /\ Len(t) = 1 /\ t[1] = c /\ t # <<>>
    BY <2>3, <2>5
  <2>7. DigitText(t)
    <3>1. \A i \in 1..1 : i = 1
      OBVIOUS
    <3> QED
      BY <2>2, <2>6, <3>1 DEF DigitText
  <2>8. Number(t) = 10 * 0 + (c - 48)
    BY <2>4, <2>5, NumberAppend, NumberEmpty
  <2> QED
    BY <1>6, <2>1, <2>6, <2>7, <2>8
<1>8. CASE x >= 10
  <2>1. PICK y \in Nat : y = x \div 10
    BY <1>6, <1>8, Tenth
  <2>2. PICK r \in 0..9 : r = x % 10
    BY <1>6, <1>8, Tenth
  <2>3. y < x /\ 10 * y + r = x
    BY <1>6, <1>8, <2>1, <2>2, Tenth
  <2>4. y \notin T
    BY <1>5, <1>6, <2>3
  <2>5. PICK w \in Texts : w = e[y]
    BY <1>2
  <2>6. DigitText(w) /\ Number(w) = y
    BY <1>3, <2>4, <2>5
  <2>7. PICK c \in Int : c = 48 + r
    OBVIOUS
  <2>8. c \in Digits
    BY <2>7 DEF Digits
  <2>9. PICK t \in Texts : t = Append(w, c)
    BY TextAppend
  <2>10. e[x] = t
    <3>1. e[x] = DigitsOf(e, x)
      BY <1>2, <1>6
    <3>2. DigitsOf(e, x) = Append(e[x \div 10], 48 + (x % 10))
      BY <1>6, <1>8 DEF DigitsOf
    <3>3. e[x \div 10] = w
      BY <2>1, <2>5
    <3>4. 48 + (x % 10) = c
      BY <2>2, <2>7
    <3> QED
      BY <2>9, <3>1, <3>2, <3>3, <3>4, Zenon
  <2>11. /\ Len(w) \in Nat /\ Len(t) = Len(w) + 1 /\ t # <<>> /\ t[Len(w) + 1] = c
         /\ \A i \in 1..Len(w) : t[i] = w[i]
    BY <2>9, TextAppend
  <2>12. DigitText(t)
    <3>1. ASSUME NEW i \in 1..Len(w) + 1
          PROVE  t[i] \in Digits
      <4>1. i \in 1..Len(w) \/ i = Len(w) + 1
        BY <2>11
      <4> QED
        BY <2>6, <2>8, <2>11, <4>1 DEF DigitText
    <3> QED
      BY <2>11, <3>1 DEF DigitText
  <2>13. Number(t) = 10 * Number(w) + (c - 48)
    BY <2>9, NumberAppend
  <2>14. Number(t) = x
    BY <2>3, <2>6, <2>7, <2>13
  <2> QED
    BY <1>6, <2>10, <2>12, <2>14
<1> QED
  BY <1>6, <1>7, <1>8

-----------------------------------------------------------------------------
(* The headers that are printed.                                             *)

\* Keywords, sizes and paths are words of a header.
LEMMA WordsAreText ==
  /\ \A k \in Keywords : WordText(Words[k])
  /\ \A w : DigitText(w) \/ PathText(w) => WordText(w)
<1>1. ASSUME NEW k \in Keywords
      PROVE  WordText(Words[k])
  <2>1. PICK w \in Seq(WordChars) : w = Words[k] /\ w # <<>>
    BY WordFacts, GrammarAssumption
  <2>2. \A i \in 1..Len(w) : w[i] \in WordChars
    BY <2>1, ElementOfSeq
  <2>3. PICK n \in Nat : w \in [1..n -> WordChars]
    BY SeqDef
  <2>4. w \in [1..n -> Int]
    <3>1. w = [i \in 1..n |-> w[i]]
      BY <2>3
    <3>2. \A i \in 1..n : w[i] \in WordChars
      BY <2>3
    <3>3. WordChars \subseteq Int
      BY DEF WordChars
    <3>4. \A i \in 1..n : w[i] \in Int
      BY <3>2, <3>3
    <3>5. [i \in 1..n |-> w[i]] \in [1..n -> Int]
      BY <3>4
    <3> QED
      BY <3>1, <3>5, Zenon
  <2>5. w \in Seq(Int)
    BY <2>4, SeqDef
  <2> QED
    BY <2>1, <2>2, <2>5 DEF WordText, Written, Texts
<1>2. Digits \subseteq WordChars
  BY DEF Digits, WordChars
<1>3. ASSUME NEW w, DigitText(w) \/ PathText(w)
      PROVE  WordText(w)
  BY <1>2, <1>3 DEF WordText, DigitText, PathText, Written
<1> QED
  BY <1>1, <1>3

\* What the meaning of a field can be.
LEMMA MeaningRanges ==
  ASSUME NEW w \in Written
  PROVE  /\ Meaning(w).id = "Path" => PathText(Meaning(w).path)
         /\ Meaning(w).size \in 0..Modulus - 1
<1>1. Modulus \in Nat /\ Modulus > 0
  BY TokenizerAssumption
<1>2. CASE Meaning(w) = NoLexeme
  BY <1>1, <1>2 DEF NoLexeme, Lexeme, Unknown
<1>3. CASE Meaning(w) # NoLexeme
  <2>1. CASE \E k \in Keywords : Words[k] = w
    <3>1. PICK k \in Keywords : Words[k] = w
      BY <2>1
    <3>2. Meaning(w) = Lexeme(k, 0, <<>>)
      BY <3>1, MeaningOfWord
    <3>3. k # "Path"
      BY WordFacts, GrammarAssumption
    <3> QED
      BY <1>1, <3>2, <3>3 DEF Lexeme
  <2>2. CASE DigitText(w)
    <3>1. Meaning(w) = Lexeme("Size", Number(w) % Modulus, <<>>)
      BY <2>2, MeaningOfDigits
    <3>2. PICK n \in Int : n = Number(w)
      <4>1. w \in Texts /\ 0 \in Int
        BY <2>2 DEF DigitText
      <4> QED
        BY <4>1, NumberAppend
    <3>3. n % Modulus \in 0..Modulus - 1
      BY <1>1
    <3> QED
      BY <3>1, <3>2, <3>3 DEF Lexeme
  <2>3. CASE PathText(w)
    <3>1. Meaning(w) = Lexeme("Path", 0, w)
      BY <2>3, MeaningOfPath
    <3> QED
      BY <1>1, <2>3, <3>1 DEF Lexeme
  <2> QED
    BY <1>3, <2>1, <2>2, <2>3, MeaningCases
<1> QED
  BY <1>2, <1>3

\* Tuples of fields.
LEMMA TwoFieldsAre ==
  ASSUME NEW S, NEW a \in S, NEW b \in S
  PROVE  Append(<<a>>, b) = <<a, b>> /\ <<a>> \in Seq(S) /\ <<a, b>> \in Seq(S)
<1>1. PICK u \in Seq(S) : u = <<a>>
  <2>1. <<a>> \in Seq(S)
    OBVIOUS
  <2> QED
    BY <2>1
<1>2. Len(u) = 1 /\ u[1] = a
  BY <1>1
<1>3. PICK x : x = Append(u, b)
  OBVIOUS
<1>4. x \in Seq(S) /\ Len(x) = 2 /\ x[1] = a /\ x[2] = b
  <2>1. /\ x \in Seq(S) /\ Len(x) = Len(u) + 1 /\ x[Len(u) + 1] = b
        /\ \A i \in 1..Len(u) : x[i] = u[i]
    BY <1>3, AppendProperties
  <2>2. 1 \in 1..1 /\ 1 + 1 = 2
    OBVIOUS
  <2> QED
    BY <1>2, <2>1, <2>2
<1>5. PICK y \in Seq(S) : y = <<a, b>>
  <2>1. <<a, b>> \in Seq(S)
    OBVIOUS
  <2> QED
    BY <2>1
<1>6. Len(y) = 2 /\ y[1] = a /\ y[2] = b
  BY <1>5
<1>7. \A i \in 1..2 : x[i] = y[i]
  <2>1. \A i \in 1..2 : i = 1 \/ i = 2
    OBVIOUS
  <2> QED
    BY <1>4, <1>6, <2>1
<1>8. x = y
  BY <1>4, <1>6, <1>7, SeqEqual
<1> QED
  BY <1>1, <1>3, <1>5, <1>8

\* Three fields.
LEMMA ThreeFieldsAre ==
  ASSUME NEW S, NEW a \in S, NEW b \in S, NEW c \in S
  PROVE  Append(<<a, b>>, c) = <<a, b, c>> /\ <<a, b, c>> \in Seq(S)
<1>1. PICK u \in Seq(S) : u = <<a, b>>
  <2>1. <<a, b>> \in Seq(S)
    OBVIOUS
  <2> QED
    BY <2>1
<1>2. Len(u) = 2 /\ u[1] = a /\ u[2] = b
  BY <1>1
<1>3. PICK x : x = Append(u, c)
  OBVIOUS
<1>4. x \in Seq(S) /\ Len(x) = 3 /\ x[1] = a /\ x[2] = b /\ x[3] = c
  <2>1. /\ x \in Seq(S) /\ Len(x) = Len(u) + 1 /\ x[Len(u) + 1] = c
        /\ \A i \in 1..Len(u) : x[i] = u[i]
    BY <1>3, AppendProperties
  <2>2. 1 \in 1..2 /\ 2 \in 1..2 /\ 2 + 1 = 3
    OBVIOUS
  <2> QED
    BY <1>2, <2>1, <2>2
<1>5. PICK y \in Seq(S) : y = <<a, b, c>>
  <2>1. <<a, b, c>> \in Seq(S)
    OBVIOUS
  <2> QED
    BY <2>1
<1>6. Len(y) = 3 /\ y[1] = a /\ y[2] = b /\ y[3] = c
  BY <1>5
<1>7. \A i \in 1..3 : x[i] = y[i]
  <2>1. \A i \in 1..3 : i = 1 \/ i = 2 \/ i = 3
    OBVIOUS
  <2> QED
    BY <1>4, <1>6, <2>1
<1>8. x = y
  BY <1>4, <1>6, <1>7, SeqEqual
<1> QED
  BY <1>1, <1>3, <1>5, <1>8

\* A header of two fields, and of three.
LEMMA TwoFields ==
  ASSUME NEW a, WordText(a), Meaning(a) # NoLexeme, NEW b, WordText(b)
  PROVE  /\ Line(Spaced(a, b), <<a>>, b)
         /\ <<a>> \in Seq(Written) /\ Known(<<a>>)
<1>1. Line(a, <<>>, a)
  BY LineBegins
<1>2. a \in Written /\ b \in Written
  BY DEF WordText
<1>3. Line(Spaced(a, b), Append(<<>>, a), b)
  BY <1>1, <1>2, LineGoesOn DEF Spaced
<1>4. Append(<<>>, a) = <<a>>
  OBVIOUS
<1>5. <<>> \in Seq(Written) /\ Known(<<>>)
  BY DEF Known
<1>6. Known(Append(<<>>, a))
  BY <1>2, <1>5, KnownAppend
<1> QED
  BY <1>2, <1>3, <1>4, <1>6

\* Three fields, spaced.
LEMMA ThreeFields ==
  ASSUME NEW a, WordText(a), Meaning(a) # NoLexeme, NEW b, WordText(b), Meaning(b) # NoLexeme,
         NEW c, WordText(c)
  PROVE  /\ Line(Spaced(Spaced(a, b), c), <<a, b>>, c)
         /\ <<a, b>> \in Seq(Written) /\ Known(<<a, b>>)
<1>1. Line(Spaced(a, b), <<a>>, b) /\ <<a>> \in Seq(Written) /\ Known(<<a>>)
  BY TwoFields
<1>2. a \in Written /\ b \in Written
  BY DEF WordText
<1>3. PICK u : u = Spaced(a, b)
  OBVIOUS
<1>4. PICK cs \in Seq(Written) : cs = <<a>>
  BY <1>1
<1>5. Line(u, cs, b) /\ Known(cs)
  BY <1>1, <1>3, <1>4
<1>6. Line((u \o <<Space>>) \o c, Append(cs, b), c)
  BY <1>2, <1>5, LineGoesOn
<1>7. Append(cs, b) = <<a, b>> /\ <<a, b>> \in Seq(Written)
  BY <1>2, <1>4, TwoFieldsAre
<1>8. Known(Append(cs, b))
  BY <1>2, <1>5, KnownAppend
<1>9. Spaced(u, c) = (u \o <<Space>>) \o c
  BY DEF Spaced
<1> QED
  BY <1>3, <1>6, <1>7, <1>8, <1>9

\* A text printed by either side, and its fields.
IsPrinted(t, fields) == t \in Texts /\ t # <<>> /\ IsHeader(t) /\ Fields(Lead(t)) = fields

\* What is printed of two fields is a header of them,
LEMMA PrintedTwo ==
  ASSUME NEW a, WordText(a), Meaning(a) # NoLexeme, NEW b, WordText(b), Meaning(b) # NoLexeme
  PROVE  IsPrinted(HeaderText(<<a, b>>), <<a, b>>)
<1>1. PICK u : u = Spaced(a, b)
  OBVIOUS
<1>2. PICK cs \in Seq(Written) : cs = <<a>>
  BY TwoFields
<1>3. Line(u, cs, b) /\ Known(cs) /\ b \in Written
  BY <1>1, <1>2, TwoFields DEF WordText
<1>4. Known(Append(cs, b))
  BY <1>3, KnownAppend
<1>5. PICK t : t = u \o Terminator
  OBVIOUS
<1>6. t \in Texts /\ t # <<>> /\ IsHeader(t) /\ Fields(Lead(t)) = Append(cs, b)
  BY <1>3, <1>4, <1>5, LineEnds
<1>7. t = HeaderText(<<a, b>>)
  BY <1>1, <1>5, TextOfTwo
<1>8. Append(cs, b) = <<a, b>>
  <2>1. a \in Written
    BY DEF WordText
  <2> QED
    BY <1>2, <1>3, <2>1, TwoFieldsAre
<1> QED
  BY <1>6, <1>7, <1>8 DEF IsPrinted

\* and of three.
LEMMA PrintedThree ==
  ASSUME NEW a, WordText(a), Meaning(a) # NoLexeme, NEW b, WordText(b), Meaning(b) # NoLexeme,
         NEW c, WordText(c), Meaning(c) # NoLexeme
  PROVE  IsPrinted(HeaderText(<<a, b, c>>), <<a, b, c>>)
<1>1. PICK u : u = Spaced(Spaced(a, b), c)
  OBVIOUS
<1>2. PICK cs \in Seq(Written) : cs = <<a, b>>
  BY ThreeFields
<1>3. Line(u, cs, c) /\ Known(cs) /\ c \in Written
  BY <1>1, <1>2, ThreeFields DEF WordText
<1>4. Known(Append(cs, c))
  BY <1>3, KnownAppend
<1>5. PICK t : t = u \o Terminator
  OBVIOUS
<1>6. t \in Texts /\ t # <<>> /\ IsHeader(t) /\ Fields(Lead(t)) = Append(cs, c)
  BY <1>3, <1>4, <1>5, LineEnds
<1>7. t = HeaderText(<<a, b, c>>)
  BY <1>1, <1>5, TextOfThree
<1>8. Append(cs, c) = <<a, b, c>>
  <2>1. a \in Written /\ b \in Written
    BY DEF WordText
  <2> QED
    BY <1>2, <1>3, <2>1, ThreeFieldsAre
<1> QED
  BY <1>6, <1>7, <1>8 DEF IsPrinted

\* A stream that begins with a printed header.
LEMMA BeginsWith ==
  ASSUME NEW k, NEW t \in Texts, NEW j, Progress(k, t, Len(t), j),
         NEW p, NEW fs, IsPrinted(p, fs), IsPrefix(p, t)
  PROVE  Decided(t).how = "header" /\ Fields(Lead(t)) = fs
<1>1. PICK l \in Nat : l = Len(t)
  BY PieceBehind
<1>2. PICK q \in Texts : q = p
  BY DEF IsPrinted
<1>3. PICK n \in Nat : n = Len(q)
  BY PieceBehind
<1>4. Sized(t, l) /\ Sized(q, n)
  BY <1>1, <1>3 DEF Sized
<1>5. n <= l /\ SubSeq(q, 1, n) = SubSeq(t, 1, n)
  BY <1>1, <1>2, <1>3 DEF IsPrefix
<1>6. Upto(q, n) = q
  BY <1>3, PrefixIsAll DEF Upto, Texts
<1>7. Upto(t, n) = q
  BY <1>5, <1>6 DEF Upto
<1>8. n \in 1..l
  <2>1. n # 0
    BY <1>2, <1>3, EmptySeq DEF IsPrinted, Texts
  <2> QED
    BY <1>5, <2>1
<1>9. IsHeader(q) /\ Fields(Lead(q)) = fs /\ Viable(q)
  BY <1>2 DEF IsPrinted, IsHeader
<1>10. Lead(t) = Lead(q)
  <2>1. n \in 0..l /\ IsHeader(Upto(t, n))
    BY <1>7, <1>8, <1>9
  <2> QED
    BY <1>4, <1>7, <2>1, HeaderOnce
<1>11. Over(k)
  <2>1. ASSUME ~Over(k)
        PROVE  FALSE
    <3>1. Undecided(t, l)
      BY <1>1, <2>1 DEF Progress
    <3> QED
      BY <1>7, <1>8, <1>9, <3>1 DEF Undecided, Upto
  <2> QED
    BY <2>1
<1>12. PICK i \in 1..l : i = j
  BY <1>1, <1>11 DEF Progress
<1>13. Undecided(t, i - 1) /\ Ended(k, t, i)
  BY <1>11, <1>12 DEF Progress
<1>14. i <= n
  <2>1. ASSUME n < i
        PROVE  FALSE
    <3>1. n \in 1..i - 1
      BY <1>8, <2>1
    <3> QED
      BY <1>7, <1>9, <1>13, <3>1 DEF Undecided, Upto
  <2> QED
    BY <2>1
<1>15. Viable(SubSeq(t, 1, i))
  <2>1. i \in 0..n
    BY <1>14
  <2>2. Viable(Upto(q, i))
    BY <1>4, <1>9, <2>1, ViableUpto
  <2>3. PICK x \in Texts : x = Upto(q, i)
    BY <1>4, <2>1, UptoFacts DEF Sized
  <2>4. PICK y \in Texts : y = Upto(t, i)
    <3>1. i \in 0..l
      OBVIOUS
    <3> QED
      BY <1>4, <3>1, UptoFacts DEF Sized
  <2>5. Sized(x, i) /\ \A m \in 1..i : x[m] = q[m]
    BY <1>4, <2>1, <2>3, UptoFacts
  <2>6. Sized(y, i) /\ \A m \in 1..i : y[m] = t[m]
    <3>1. i \in 0..l
      OBVIOUS
    <3> QED
      BY <1>4, <2>4, <3>1, UptoFacts
  <2>7. \A m \in 1..n : q[m] = t[m]
    <3>1. n \in 0..l
      BY <1>8
    <3> QED
      BY <1>4, <1>7, <3>1, UptoFacts
  <2>8. \A m \in 1..i : x[m] = y[m]
    <3>1. \A m \in 1..i : m \in 1..n
      BY <1>14
    <3> QED
      BY <2>5, <2>6, <2>7, <3>1
  <2>9. x = y
    BY <2>5, <2>6, <2>8, SameText
  <2> QED
    BY <2>2, <2>3, <2>4, <2>9 DEF Upto
<1>16. Done(k)
  BY <1>13, <1>15 DEF Ended, Done
<1>17. Decided(t).how = "header"
  BY <1>11, <1>16, DecidedIs
<1> QED
  BY <1>9, <1>10, <1>17

\* The tokens of two fields,
LEMMA IdsOfTwo ==
  ASSUME NEW a, NEW b, NEW x, NEW y, Meaning(a).id = x, Meaning(b).id = y
  PROVE  /\ IdsOf(Meanings(<<a, b>>)) = <<x, y>>
         /\ Len(IdsOf(Meanings(<<a, b>>))) = 2 /\ IdsOf(Meanings(<<a, b>>))[2] = y
<1>1. PICK fs : fs = <<a, b>>
  OBVIOUS
<1>2. DOMAIN fs = 1..2 /\ fs[1] = a /\ fs[2] = b
  BY <1>1
<1>3. PICK ms : ms = Meanings(fs)
  OBVIOUS
<1>4. DOMAIN ms = 1..2 /\ \A n \in 1..2 : ms[n] = Meaning(fs[n])
  BY <1>2, <1>3 DEF Meanings
<1>5. PICK ids : ids = IdsOf(ms)
  OBVIOUS
<1>6. ids = [n \in 1..2 |-> ids[n]] /\ \A n \in 1..2 : ids[n] = ms[n].id
  BY <1>4, <1>5 DEF IdsOf
<1>7. ids[1] = x /\ ids[2] = y
  BY <1>2, <1>4, <1>6
<1>8. PICK t : t = <<x, y>>
  OBVIOUS
<1>9. t = [n \in 1..2 |-> t[n]] /\ t[1] = x /\ t[2] = y /\ Len(t) = 2
  BY <1>8
<1>10. \A n \in 1..2 : ids[n] = t[n]
  <2>1. \A n \in 1..2 : n = 1 \/ n = 2
    OBVIOUS
  <2> QED
    BY <1>7, <1>9, <2>1
<1>11. ids = t
  BY <1>6, <1>9, <1>10
<1> QED
  BY <1>1, <1>3, <1>5, <1>8, <1>9, <1>11

\* and of three.
LEMMA IdsOfThree ==
  ASSUME NEW a, NEW b, NEW c, NEW x, NEW y, NEW z,
         Meaning(a).id = x, Meaning(b).id = y, Meaning(c).id = z
  PROVE  /\ IdsOf(Meanings(<<a, b, c>>)) = <<x, y, z>> /\ Meanings(<<a, b, c>>)[3] = Meaning(c)
         /\ Len(IdsOf(Meanings(<<a, b, c>>))) = 3 /\ IdsOf(Meanings(<<a, b, c>>))[2] = y
<1>1. PICK fs : fs = <<a, b, c>>
  OBVIOUS
<1>2. DOMAIN fs = 1..3 /\ fs[1] = a /\ fs[2] = b /\ fs[3] = c
  BY <1>1
<1>3. PICK ms : ms = Meanings(fs)
  OBVIOUS
<1>4. DOMAIN ms = 1..3 /\ \A n \in 1..3 : ms[n] = Meaning(fs[n])
  BY <1>2, <1>3 DEF Meanings
<1>5. PICK ids : ids = IdsOf(ms)
  OBVIOUS
<1>6. ids = [n \in 1..3 |-> ids[n]] /\ \A n \in 1..3 : ids[n] = ms[n].id
  BY <1>4, <1>5 DEF IdsOf
<1>7. ids[1] = x /\ ids[2] = y /\ ids[3] = z /\ ms[3] = Meaning(c)
  BY <1>2, <1>4, <1>6
<1>8. PICK t : t = <<x, y, z>>
  OBVIOUS
<1>9. t = [n \in 1..3 |-> t[n]] /\ t[1] = x /\ t[2] = y /\ t[3] = z /\ Len(t) = 3
  BY <1>8
<1>10. \A n \in 1..3 : ids[n] = t[n]
  <2>1. \A n \in 1..3 : n = 1 \/ n = 2 \/ n = 3
    OBVIOUS
  <2> QED
    BY <1>7, <1>9, <2>1
<1>11. ids = t
  BY <1>6, <1>9, <1>10
<1> QED
  BY <1>1, <1>3, <1>5, <1>7, <1>8, <1>9, <1>11

\* A keyword is a word of a header, and means itself.
LEMMA WordMeans ==
  ASSUME NEW k \in Keywords
  PROVE  /\ WordText(Words[k]) /\ Meaning(Words[k]) # NoLexeme /\ Meaning(Words[k]).id = k
<1>1. WordText(Words[k])
  BY WordsAreText
<1>2. Meaning(Words[k]) = Lexeme(k, 0, <<>>) /\ Meaning(Words[k]) # NoLexeme
  BY MeaningOfWord
<1>3. Lexeme(k, 0, <<>>).id = k
  BY DEF Lexeme
<1> QED
  BY <1>1, <1>2, <1>3, Zenon

\* The request, and the responses.
LEMMA RequestPrinted ==
  ASSUME NEW path, PathText(path)
  PROVE  /\ IsPrinted(RequestText(path), <<Words.Getfile, Words.Get, path>>)
         /\ ARequest(Meanings(<<Words.Getfile, Words.Get, path>>))
         /\ Meanings(<<Words.Getfile, Words.Get, path>>)[3].path = path
<1>1. "Getfile" \in Keywords /\ "Get" \in Keywords
  BY TokenizerAssumption
<1>2. PICK a : a = Words["Getfile"]
  OBVIOUS
<1>3. PICK b : b = Words["Get"]
  OBVIOUS
<1>4. WordText(a) /\ Meaning(a) # NoLexeme /\ Meaning(a).id = "Getfile"
  BY <1>1, <1>2, WordMeans
<1>5. WordText(b) /\ Meaning(b) # NoLexeme /\ Meaning(b).id = "Get"
  BY <1>1, <1>3, WordMeans
<1>6. /\ WordText(path) /\ Meaning(path) # NoLexeme
      /\ Meaning(path).id = "Path" /\ Meaning(path).path = path
  <2>1. Meaning(path) = Lexeme("Path", 0, path) /\ Meaning(path) # NoLexeme
    BY MeaningOfPath
  <2> QED
    BY <2>1, WordsAreText DEF Lexeme
<1>7. IsPrinted(HeaderText(<<a, b, path>>), <<a, b, path>>)
  BY <1>4, <1>5, <1>6, PrintedThree
<1>8. /\ IdsOf(Meanings(<<a, b, path>>)) = <<"Getfile", "Get", "Path">>
      /\ Meanings(<<a, b, path>>)[3] = Meaning(path)
  BY <1>4, <1>5, <1>6, IdsOfThree
<1> QED
  BY <1>2, <1>3, <1>6, <1>7, <1>8 DEF RequestText, ARequest

\* snprintf_response with OK prints a response with its size,
LEMMA OkPrinted ==
  ASSUME NEW size \in 0..Modulus - 1, "Ok" \in Statuses
  PROVE  \E fs : /\ IsPrinted(ResponseText("Ok", size), fs)
                 /\ IdsOf(Meanings(fs)) = <<"Getfile", "Ok", "Size">>
                 /\ Len(IdsOf(Meanings(fs))) = 3 /\ IdsOf(Meanings(fs))[2] = "Ok"
                 /\ Meanings(fs)[3].size = size
<1>1. "Getfile" \in Keywords /\ "Ok" \in Keywords
  BY TokenizerAssumption DEF Statuses
<1>2. PICK a : a = Words["Getfile"]
  OBVIOUS
<1>3. PICK b : b = Words["Ok"]
  OBVIOUS
<1>4. WordText(a) /\ Meaning(a) # NoLexeme /\ Meaning(a).id = "Getfile"
  BY <1>1, <1>2, WordMeans
<1>5. WordText(b) /\ Meaning(b) # NoLexeme /\ Meaning(b).id = "Ok"
  BY <1>1, <1>3, WordMeans
<1>6. PICK d : d = Decimal[size]
  OBVIOUS
<1>7. Modulus \in Nat /\ Modulus > 0 /\ size \in Nat /\ size % Modulus = size
  <2>1. Modulus \in Nat /\ Modulus > 0
    BY TokenizerAssumption
  <2>2. size \in Nat /\ size < Modulus
    BY <2>1
  <2>3. size % Modulus = size
    BY <2>1, <2>2
  <2> QED
    BY <2>1, <2>2, <2>3
<1>8. DigitText(d) /\ Number(d) = size
  BY <1>6, <1>7, NumberOfDecimal
<1>9. /\ WordText(d) /\ Meaning(d) # NoLexeme
      /\ Meaning(d).id = "Size" /\ Meaning(d).size = size
  <2>1. Meaning(d) = Lexeme("Size", Number(d) % Modulus, <<>>) /\ Meaning(d) # NoLexeme
    BY <1>8, MeaningOfDigits
  <2> QED
    BY <1>7, <1>8, <2>1, WordsAreText DEF Lexeme
<1>10. PICK fs : fs = <<a, b, d>>
  OBVIOUS
<1>11. IsPrinted(HeaderText(fs), fs)
  BY <1>4, <1>5, <1>9, <1>10, PrintedThree
<1>12. /\ IdsOf(Meanings(fs)) = <<"Getfile", "Ok", "Size">> /\ Meanings(fs)[3] = Meaning(d)
       /\ Len(IdsOf(Meanings(fs))) = 3 /\ IdsOf(Meanings(fs))[2] = "Ok"
  BY <1>4, <1>5, <1>9, <1>10, IdsOfThree
<1>13. <<a, b>> \o <<d>> = fs
  <2>1. a \in Written /\ b \in Written /\ d \in Written
    BY <1>4, <1>5, <1>9 DEF WordText
  <2>2. PICK e \in Seq(Written) : e = <<a, b>>
    BY <2>1, TwoFieldsAre
  <2>3. e \o <<d>> = Append(e, d)
    BY <2>1
  <2>4. Append(<<a, b>>, d) = fs
    BY <1>10, <2>1, ThreeFieldsAre
  <2> QED
    BY <2>2, <2>3, <2>4
<1>14. ResponseText("Ok", size) = HeaderText(fs)
  BY <1>2, <1>3, <1>6, <1>13 DEF ResponseText
<1> QED
  BY <1>9, <1>11, <1>12, <1>14

\* and with another status one without.
LEMMA StatusPrinted ==
  ASSUME NEW s \in Statuses \ {"Ok"}, NEW size
  PROVE  \E fs : /\ IsPrinted(ResponseText(s, size), fs)
                 /\ IdsOf(Meanings(fs)) = <<"Getfile", s>>
                 /\ Len(IdsOf(Meanings(fs))) = 2 /\ IdsOf(Meanings(fs))[2] = s
<1>1. "Getfile" \in Keywords /\ s \in Keywords /\ s # "Ok"
  BY TokenizerAssumption DEF Statuses
<1>2. PICK a : a = Words["Getfile"]
  OBVIOUS
<1>3. PICK b : b = Words[s]
  OBVIOUS
<1>4. WordText(a) /\ Meaning(a) # NoLexeme /\ Meaning(a).id = "Getfile"
  BY <1>1, <1>2, WordMeans
<1>5. WordText(b) /\ Meaning(b) # NoLexeme /\ Meaning(b).id = s
  BY <1>1, <1>3, WordMeans
<1>6. PICK fs : fs = <<a, b>>
  OBVIOUS
<1>7. IsPrinted(HeaderText(fs), fs)
  BY <1>4, <1>5, <1>6, PrintedTwo
<1>8. /\ IdsOf(Meanings(fs)) = <<"Getfile", s>>
      /\ Len(IdsOf(Meanings(fs))) = 2 /\ IdsOf(Meanings(fs))[2] = s
  BY <1>4, <1>5, <1>6, IdsOfTwo
<1>9. <<a, b>> \o <<>> = fs
  <2>1. a \in Written /\ b \in Written
    BY <1>4, <1>5 DEF WordText
  <2>2. fs \in Seq(Written)
    BY <1>6, <2>1, TwoFieldsAre
  <2>3. fs \o <<>> = fs
    BY <2>2
  <2> QED
    BY <1>6, <2>3
<1>10. ResponseText(s, size) = HeaderText(fs)
  BY <1>1, <1>2, <1>3, <1>9 DEF ResponseText
<1> QED
  BY <1>7, <1>8, <1>10

\* A request that was printed gives the handler its path.
LEMMA RequestsReadBack ==
  ASSUME NEW j, ReadAt(j), TypeInv, socket # "failed",
         NEW path, PathText(path), received = RequestText(path)
  PROVE  Request = path
<1>1. PICK fs : fs = <<Words.Getfile, Words.Get, path>>
  OBVIOUS
<1>2. IsPrinted(received, fs) /\ ARequest(Meanings(fs)) /\ Meanings(fs)[3].path = path
  BY <1>1, RequestPrinted
<1>3. PICK fields : fields = Meanings(Fields(Lead(received)))
  OBVIOUS
<1>4. fields = Meanings(fs) /\ IsHeader(received)
  BY <1>2, <1>3 DEF IsPrinted
<1>5. Request = IF socket # "failed" /\ IsHeader(received) /\ ARequest(fields)
                THEN fields[3].path ELSE NoPath
  BY <1>3, RequestExact
<1> QED
  BY <1>2, <1>4, <1>5

\* A response that was printed gives the client its status and size.
LEMMA ResponsesReadBack ==
  ASSUME NEW j, ReadAt(j), TypeInv, socket # "failed",
         NEW status \in Statuses, NEW size \in 0..Modulus - 1, status # "Ok" => size = 0,
         IsPrefix(ResponseText(status, size), received)
  PROVE  Response = [status |-> status, size |-> size]
<1>1. PICK fs : /\ IsPrinted(ResponseText(status, size), fs)
                /\ AResponse(Meanings(fs)) /\ IdsOf(Meanings(fs))[2] = status
                /\ (IF Len(IdsOf(Meanings(fs))) = 3 THEN Meanings(fs)[3].size ELSE 0) = size
  <2>1. CASE status = "Ok"
    BY <2>1, OkPrinted DEF AResponse
  <2>2. CASE status # "Ok"
    <3>1. status \in Statuses \ {"Ok"} /\ size = 0
      BY <2>2
    <3>2. PICK fs : /\ IsPrinted(ResponseText(status, size), fs)
                    /\ IdsOf(Meanings(fs)) = <<"Getfile", status>>
                    /\ Len(IdsOf(Meanings(fs))) = 2 /\ IdsOf(Meanings(fs))[2] = status
      BY <3>1, StatusPrinted
    <3> QED
      BY <3>1, <3>2 DEF AResponse
  <2> QED
    BY <2>1, <2>2
<1>2. PICK t \in Texts : t = received
  BY DEF TypeInv
<1>3. PICK k : k = tok
  OBVIOUS
<1>4. Progress(k, t, Len(t), j)
  BY <1>2, <1>3 DEF ReadAt
<1>5. PICK p : p = ResponseText(status, size)
  OBVIOUS
<1>6. Decided(t).how = "header" /\ Fields(Lead(t)) = fs
  <2>1. IsPrinted(p, fs) /\ IsPrefix(p, t)
    BY <1>1, <1>2, <1>5
  <2> QED
    BY <1>4, <2>1, BeginsWith
<1>7. PICK fields : fields = Meanings(Fields(Lead(received)))
  OBVIOUS
<1>8. fields = Meanings(fs) /\ Decided(received).how = "header"
  BY <1>2, <1>6, <1>7
<1>9. Response = IF socket # "failed" /\ Decided(received).how = "header" /\ AResponse(fields)
                 THEN [status |-> IdsOf(fields)[2],
                       size |-> IF Len(IdsOf(fields)) = 3 THEN fields[3].size ELSE 0]
                 ELSE [status |-> Refused, size |-> 0]
  BY <1>7, ResponseExact
<1> QED
  BY <1>1, <1>8, <1>9

\* The messages that either side prints are read as they were meant.
LEMMA ReadBack == ReadInv => RoundTrip
<1> SUFFICES ASSUME ReadInv, socket # "failed",
                    NEW meaning \in ToSet(Meanings(Fields(Lead(received))))
             PROVE  /\ meaning.id = "Path" /\ received = RequestText(meaning.path) =>
                         Request = meaning.path
                    /\ \A status \in Statuses :
                         LET size == IF status = "Ok" THEN meaning.size ELSE 0
                         IN  IsPrefix(ResponseText(status, size), received) =>
                               Response = [status |-> status, size |-> size]
  BY DEF RoundTrip
<1>1. PICK j : ReadAt(j)
  BY DEF ReadInv
<1>2. TypeInv
  BY DEF ReadInv
<1>3. PICK t \in Texts : t = received
  BY <1>2 DEF TypeInv
<1>4. PICK fs \in Seq(Written) : fs = Fields(Lead(t))
  BY LeadRest, AllFieldsFine DEF FieldsFine
<1>5. PICK w \in Written : meaning = Meaning(w)
  <2>1. PICK n \in DOMAIN fs : meaning = Meaning(fs[n])
    BY <1>3, <1>4 DEF ToSet, Meanings
  <2>2. fs[n] \in Written
    BY ElementOfSeq, LenProperties
  <2> QED
    BY <2>1, <2>2
<1>6. /\ meaning.id = "Path" => PathText(meaning.path)
      /\ meaning.size \in 0..Modulus - 1 /\ 0 \in 0..Modulus - 1
  <2>1. meaning.id = "Path" => PathText(meaning.path)
    BY <1>5, MeaningRanges
  <2>2. meaning.size \in 0..Modulus - 1
    BY <1>5, MeaningRanges
  <2>3. 0 \in 0..Modulus - 1
    BY TokenizerAssumption
  <2> QED
    BY <2>1, <2>2, <2>3
<1>7. ASSUME meaning.id = "Path", received = RequestText(meaning.path)
      PROVE  Request = meaning.path
  BY <1>1, <1>2, <1>6, <1>7, RequestsReadBack
<1>8. ASSUME NEW status \in Statuses, NEW size, size = IF status = "Ok" THEN meaning.size ELSE 0,
             IsPrefix(ResponseText(status, size), received)
      PROVE  Response = [status |-> status, size |-> size]
  <2>1. size \in 0..Modulus - 1 /\ (status # "Ok" => size = 0)
    BY <1>6, <1>8
  <2> QED
    BY <1>1, <1>2, <1>8, <2>1, ResponsesReadBack
<1> QED
  BY <1>7, <1>8

\* gfserver.c:319-326, gf-student-gflib.h:185-192: only messages are taken for messages, a
\* request with nothing behind it and a response with the size its status calls for, and the
\* messages that either side prints are read by the other as they were meant, in any pieces.
THEOREM ReaderMessages == Spec => []MessagesAreExact
<1>1. ReadInv => MessagesAreExact
  BY TakenExactly, ReadBack DEF MessagesAreExact
<1> QED
  BY <1>1, ReadInit, ReadInvNext, PTL DEF Spec
=============================================================================
