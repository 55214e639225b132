------------------------------ MODULE Tokenizer ------------------------------
(***************************************************************************)
(* The tokenizer of GETFILE headers of mtgf/gf-student-gflib.c, as         *)
(* operators on its state, and the packing and unpacking of the headers.   *)
(* A char is its code.  The action table is that of ActionTable.           *)
(***************************************************************************)
EXTENDS ActionTable

CONSTANTS
  TokenCapacity,    \* the tokens and the
  BufferCapacity,   \*   chars a new tokenizer has memory for
  Modulus           \* 2^w for a size_t of w bits

ASSUME TokenizerAssumption ==
  /\ {TokenCapacity, BufferCapacity, Modulus} \subseteq Nat \ {0}
  /\ {"Getfile", "Get"} \subseteq Keywords

\* Past the end of the table: get_action_ has returned NULL, which tok_process follows.
Crashed == State("crashed", <<>>)

-----------------------------------------------------------------------------
(* The tokenizer.  A path is a place in a block of memory; realloc may move  *)
(* the buffer to another block.                                              *)

NoPlace == [block |-> 0, at |-> 0]
Token(id, size, place) == [id |-> id, size |-> size, place |-> place]

\* What malloc leaves in new memory.
Junk == -1000

Done(tok) == tok.state = Finished
Invalid(tok) == tok.state = InvalidState
Over(tok) == tok.state \in {Finished, InvalidState, Crashed}

\* tok_reset: neither the memory nor its contents change.  No token points into a block any
\* more, so that the blocks may be counted from 1 again.
Reset(tok) ==
  [tok EXCEPT !.state = Start, !.tokens = <<>>, !.startOfCurrent = 0,
              !.bufferCursor = 0, !.numberValue = 0, !.block = 1]

\* tok_create
NewTokenizer ==
  [state |-> Start, tokens |-> <<>>, tokenCapacity |-> TokenCapacity,
   buffer |-> [i \in 0..BufferCapacity - 1 |-> Junk], block |-> 1,
   startOfCurrent |-> 0, bufferCursor |-> 0, numberValue |-> 0]

Capacity(tok) == Cardinality(DOMAIN tok.buffer)

\* Variant: the paths keep the addresses they had before realloc.
GrownAlone(tok, moves) ==
  IF tok.bufferCursor < Capacity(tok) THEN tok
  ELSE [tok EXCEPT !.buffer = [i \in 0..2 * Capacity(tok) - 1 |->
                                 IF i < Capacity(tok) THEN tok.buffer[i] ELSE Junk],
                   !.block = IF moves THEN @ + 1 ELSE @]

\* push_char_: a full buffer is doubled, and the paths follow it when it moves.
Grown(tok, moves) ==
  IF tok.bufferCursor < Capacity(tok) THEN tok
  ELSE LET block == IF moves THEN tok.block + 1 ELSE tok.block
       IN  [tok EXCEPT
             !.buffer = [i \in 0..2 * Capacity(tok) - 1 |->
                           IF i < Capacity(tok) THEN tok.buffer[i] ELSE Junk],
             !.block = block,
             !.tokens = [i \in DOMAIN @ |->
                           IF @[i].id = "Path" THEN [@[i] EXCEPT !.place.block = block]
                           ELSE @[i]]]

PushChar(tok, char, moves) ==
  LET grown == Grown(tok, moves)
  IN  [grown EXCEPT !.buffer[grown.bufferCursor] = char, !.bufferCursor = @ + 1]

\* Variant: a full vector takes one more token.
PushTokenLate(tok, token) ==
  [tok EXCEPT !.tokenCapacity = IF Len(tok.tokens) > @ THEN 2 * @ ELSE @,
              !.tokens = Append(@, token)]

\* push_token_: the tokens hold no addresses of one another, so that only the capacity shows.
PushToken(tok, token) ==
  [tok EXCEPT !.tokenCapacity = IF Len(tok.tokens) = @ THEN 2 * @ ELSE @,
              !.tokens = Append(@, token)]

\* The end of a path: terminate it in the buffer, and start the next behind it.
PushPath(tok, moves) ==
  LET ended == PushChar(tok, NUL, moves)
      place == [block |-> ended.block, at |-> ended.startOfCurrent]
  IN  [PushToken(ended, Token("Path", 0, place)) EXCEPT !.startOfCurrent = ended.bufferCursor]

\* The switch of tok_process.
TakeToken(tok, id, moves) ==
  CASE id = Unknown -> tok
    [] id = "Path" -> PushPath(tok, moves)
    [] id = "Size" -> PushToken(tok, Token("Size", tok.numberValue, NoPlace))
    [] id \in Keywords -> PushToken(tok, Token(id, 0, NoPlace))

Recording(tok, reset) ==
  IF reset THEN [tok EXCEPT !.bufferCursor = tok.startOfCurrent, !.numberValue = 0] ELSE tok

\* What the turn for a char does with the action that get_action_ has found.
Act(tok, action, char, moves) ==
  LET taken == TakeToken([tok EXCEPT !.state = action.to], action.token, moves)
  IN  [PushChar(Recording(taken, action.reset), char, moves)
         EXCEPT !.numberValue = (10 * @ + (char - 48)) % Modulus]

\* One turn of the loop of tok_process.
TakeChar(tok, char, moves) ==
  IF char \notin SevenBit THEN [tok EXCEPT !.state = Crashed]
  ELSE Act(tok, Action[tok.state][char], char, moves)

Outcome(end) == [tok |-> end.tok, ret |-> IF Invalid(end.tok) THEN -1 ELSE end.i]

\* Variant: the last char of a header is left to what is behind it.
TurnShort(p, char, moves) ==
  LET next == TakeChar(p.tok, char, moves)
  IN  IF Over(p.tok) THEN p ELSE [tok |-> next, i |-> IF Done(next) THEN p.i ELSE p.i + 1]

\* The loop goes on until the tokenizer is done, or invalid.
Turn(p, char, moves) ==
  IF Over(p.tok) THEN p ELSE [tok |-> TakeChar(p.tok, char, moves), i |-> p.i + 1]

\* tok_process: the tokenizer, and what is returned.
Process(tok, text, moves) ==
  LET turns[n \in 0..Len(text)] ==
        IF n = 0 THEN [tok |-> tok, i |-> 0] ELSE Turn(turns[n - 1], text[n], moves)
  IN  Outcome(turns[Len(text)])

\* The null-terminated string at a place, <<Junk>> when the memory is no longer the buffer's.
StringAt(tok, place) ==
  LET Ends == {i \in place.at..Capacity(tok) - 1 : tok.buffer[i] = NUL}
      end == CHOOSE i \in Ends : \A j \in Ends : i <= j
  IN  IF place.block # tok.block \/ Ends = {} THEN <<Junk>>
      ELSE [i \in 1..end - place.at |-> tok.buffer[place.at + i - 1]]

-----------------------------------------------------------------------------
(* Headers.                                                                  *)

\* What %zu prints.
Decimal[n \in Nat] == IF n < 10 THEN <<48 + n>> ELSE Append(Decimal[n \div 10], 48 + (n % 10))

\* snprintf_tokens, of the texts of the tokens.
HeaderText(lexemes) ==
  LET text[n \in 1..Len(lexemes)] ==
        IF n = 1 THEN lexemes[1] ELSE text[n - 1] \o <<Space>> \o lexemes[n]
  IN  text[Len(lexemes)] \o Terminator

\* snprintf_request_get
RequestText(path) == HeaderText(<<Words["Getfile"], Words["Get"], path>>)

\* snprintf_response
ResponseText(status, size) ==
  HeaderText(<<Words["Getfile"], Words[status]>>
             \o IF status = "Ok" THEN <<Decimal[size]>> ELSE <<>>)

\* -1 of unpack_request_get and of unpack_response.
NoPath == <<>>
Refused == "refused"

Ids(tok) == [i \in DOMAIN tok.tokens |-> tok.tokens[i].id]

\* unpack_request_get: the path.
UnpackRequest(tok) ==
  IF Done(tok) /\ Ids(tok) = <<"Getfile", "Get", "Path">>
  THEN StringAt(tok, tok.tokens[3].place)
  ELSE NoPath

Statuses == Keywords \cap {"Ok", "FileNotFound", "Error", "Invalid"}

\* unpack_response: the status and the size.
UnpackResponse(tok) ==
  CASE Done(tok) /\ Ids(tok) = <<"Getfile", "Ok", "Size">> ->
         [status |-> "Ok", size |-> tok.tokens[3].size]
    [] Done(tok) /\ Ids(tok) \in {<<"Getfile", s>> : s \in Statuses \ {"Ok"}} ->
         [status |-> tok.tokens[2].id, size |-> 0]
    [] OTHER -> [status |-> Refused, size |-> 0]
=============================================================================
