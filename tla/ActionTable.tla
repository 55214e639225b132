----------------------------- MODULE ActionTable ----------------------------
(***************************************************************************)
(* The generator of the tokenizer's action table: build_graph makes a      *)
(* graph of the grammar, compress_graph puts the chars that take the same  *)
(* edges from every state into one class, and write_table prints a row of  *)
(* actions for each state.  A char is its code.                            *)
(***************************************************************************)
EXTENDS Integers, Sequences, FiniteSets, SequencesExt

CONSTANTS
  Words,       \* Words[k]: the text of keyword k
  Terminator   \* what a header ends with

Keywords == DOMAIN Words

NUL == 0
Space == 32
Slash == 47
Digits == 48..57
WordChars == 33..126

\* What get_action_ has an entry for.
SevenBit == 0..127

\* validate_inputs, for the one char '/' that starts a generic word; Words is a map from the
\* texts.  The generator takes a terminator with a space or a NUL in it too, or of one char
\* (which would have to come twice), for which the graph would be another.
ASSUME GrammarAssumption ==
  /\ Words \in [Keywords -> Seq(WordChars) \ {<<>>}]
  /\ IsInjective(Words) /\ Keywords \cap {"Unknown", "Size", "Path"} = {}
  /\ \A k \in Keywords : Words[k][1] \notin Digits \cup {Slash}
  /\ Terminator \in Seq(1..31) /\ Len(Terminator) >= 2

-----------------------------------------------------------------------------
(* The graph.                                                                *)

\* A state of the graph, with the stem or the part of the terminator it stands for.
State(kind, text) == <<kind, text>>
Start == State("start", <<>>)
InvalidState == State("invalid", <<>>)
Finished == State("finished", <<>>)
InSpace == State("space", <<>>)
InDigits == State("digits", <<>>)
InGenericWord == State("generic", <<>>)
Stem(text) == State("stem", text)
Ending(text) == State("ending", text)

Unknown == "Unknown"

Parts(text) == {SubSeq(text, 1, n) : n \in 1..Len(text)}
Stems == UNION {Parts(Words[k]) : k \in Keywords}

Edge(from, chars, to, reset, token) ==
  [from |-> from, chars |-> chars, to |-> to, reset |-> reset, token |-> token]

\* Variant: a header does not end behind spaces.
ExitsOfLexemes == {[state |-> InDigits, reset |-> FALSE, token |-> "Size"],
                   [state |-> InGenericWord, reset |-> FALSE, token |-> "Path"]}
                  \cup {[state |-> Stem(Words[k]), reset |-> TRUE, token |-> k] : k \in Keywords}

\* Where a lexeme may end, with the token that ends there.
Exits == {[state |-> InSpace, reset |-> TRUE, token |-> Unknown],
          [state |-> InDigits, reset |-> FALSE, token |-> "Size"],
          [state |-> InGenericWord, reset |-> FALSE, token |-> "Path"]}
         \cup {[state |-> Stem(Words[k]), reset |-> TRUE, token |-> k] : k \in Keywords}

\* Where a field begins.
FieldEdges ==
  UNION {{Edge(between, Digits, InDigits, TRUE, Unknown),
          Edge(between, {Slash}, InGenericWord, TRUE, Unknown)}
         \cup {Edge(between, {s[1]}, Stem(<<s[1]>>), TRUE, Unknown) : s \in Stems}
         : between \in {Start, InSpace}}

\* Where a word goes on.
StemEdges == {Edge(Stem(Front(s)), {Last(s)}, Stem(s), TRUE, Unknown)
              : s \in {x \in Stems : Len(x) > 1}}

\* Where a lexeme ends.
ExitEdges ==
  UNION {{Edge(x.state, {Space}, InSpace, x.reset, x.token),
          Edge(x.state, {Terminator[1]}, Ending(<<Terminator[1]>>), x.reset, x.token),
          Edge(x.state, {NUL}, Finished, x.reset, x.token)} : x \in Exits}

\* Where the terminator goes on.
EndingEdges == {Edge(Ending(Front(e)), {Last(e)}, IF e = Terminator THEN Finished ELSE Ending(e),
                     TRUE, Unknown)
                : e \in {x \in Parts(Terminator) : Len(x) > 1}}

Edges ==
  {Edge(Start, {Space}, InSpace, TRUE, Unknown),
   Edge(InDigits, Digits, InDigits, FALSE, Unknown),
   Edge(InGenericWord, WordChars, InGenericWord, FALSE, Unknown)}
  \cup FieldEdges \cup StemEdges \cup ExitEdges \cup EndingEdges

States == {e.from : e \in Edges} \cup {InvalidState, Finished}

-----------------------------------------------------------------------------
(* The table.                                                                *)

Move(to, reset, token) == [to |-> to, reset |-> reset, token |-> token]
MoveOf(edge) == Move(edge.to, edge.reset, edge.token)

\* What is printed where a state has no edge for a class.
ToInvalid == Move(InvalidState, FALSE, Unknown)

\* used_characters
Used == UNION {e.chars : e \in Edges}

\* get_signature: what is digested for a char, its edge from every state.
Signature == [char \in Used |->
  {<<e.from, MoveOf(e)>> : e \in {x \in Edges : char \in x.chars}}]

\* The first of the chars that have the signature of a char.
FirstOfClass == [char \in Used |-> Min({c \in Used : Signature[c] = Signature[char]})]
FirstChars == {FirstOfClass[char] : char \in Used}

\* Variant: no number is set aside for the chars no edge takes.
ClassFromZero == [char \in SevenBit |->
  IF char \in Used THEN Cardinality({c \in FirstChars : c < FirstOfClass[char]}) ELSE 0]

\* The classes compress_graph gives to the chars, taken in their order: a signature that has
\* not been seen before gets the next number, and 0 is for the chars no edge takes.
Class == [char \in SevenBit |->
  IF char \in Used THEN Cardinality({c \in FirstChars : c <= FirstOfClass[char]}) ELSE 0]

\* numClasses
NumClasses == Max({Class[char] : char \in SevenBit}) + 1

\* The edges of a state in the compressed graph: of those for one class the first is kept.
EdgesOfClass(state, class) ==
  {e \in Edges : e.from = state /\ \E char \in e.chars : Class[char] = class}
Compressed(state, class) == MoveOf(CHOOSE e \in EdgesOfClass(state, class) : TRUE)

\* write_table: the rows it prints.
Table == [state \in States |-> [class \in 0..NumClasses - 1 |->
  IF EdgesOfClass(state, class) # {} THEN Compressed(state, class) ELSE ToInvalid]]

\* get_action_ of a char of the table.
Action == [state \in States |-> [char \in SevenBit |-> Table[state][Class[char]]]]

-----------------------------------------------------------------------------
\* The states whose row has for every char the action of the edge that takes it, which is the
\* only one, and the action to the invalid state when there is none.
FaithfulRows ==
  {state \in States : \A char \in SevenBit :
     LET edges == {MoveOf(e) : e \in {x \in Edges : x.from = state /\ char \in x.chars}}
     IN  {Action[state][char]} = IF edges = {} THEN {ToInvalid} ELSE edges}
=============================================================================
