---------------------------- MODULE HeaderReader ----------------------------
(***************************************************************************)
(* The loops that read a header from a socket: handle_connection_ of       *)
(* mtgf/gfserver.c, with one tokenizer for all its connections, and        *)
(* read_response_ of mtgf/gfclient.c, which keeps the bytes behind the     *)
(* header and a copy of its text.  A stream arrives in any pieces.         *)
(***************************************************************************)
EXTENDS Tokenizer, FiniteSetsExt

CONSTANTS
  Pieces,        \* what one recv may return
  HeaderSize,    \* sizeof(header) of read_response_
  MaxLead,       \* bound: the chars of header h before its end are at most MaxLead[h],
  MaxField,      \*   those of each of its fields at most MaxField
  MaxHeaders     \* bound: headers read with one tokenizer

ASSUME ReaderAssumption ==
  /\ Pieces \subseteq Seq(Int) \ {<<>>}
  /\ {HeaderSize, MaxField, MaxHeaders} \subseteq Nat \ {0}
  /\ MaxLead \in [1..MaxHeaders -> Nat]

VARIABLES
  tok,        \* gfs->tokenizer, tok
  chunk,      \* the numRead bytes of the last recv
  processed,  \* numProcessed
  header,     \* the text kept for the header callback
  socket,     \* "open", or how recv ended the loop: "closed" or "failed"
  received,   \* history: all the bytes of this stream so far
  headers     \* history: the headers begun

vars == <<tok, chunk, processed, header, socket, received, headers>>

-----------------------------------------------------------------------------
(* What a header is.                                                         *)

\* The length of a text up to what ends a header.
LeadLength(text) ==
  LET ends == {i \in DOMAIN text : text[i] \in {NUL, Terminator[1]}}
  IN  IF ends = {} THEN Len(text) ELSE Min(ends) - 1

Lead(text) == SubSeq(text, 1, LeadLength(text))
Rest(text) == SubSeq(text, LeadLength(text) + 1, Len(text))

\* A char that is not a space begins a field behind a space, and continues one otherwise.
AddChar(fields, before, char) ==
  CASE char = Space -> fields
    [] char # Space /\ before = Space -> Append(fields, <<char>>)
    [] OTHER -> [fields EXCEPT ![Len(fields)] = Append(@, char)]

\* The fields between the spaces of a text.
Fields(text) ==
  LET fields[n \in 0..Len(text)] ==
        IF n = 0 THEN <<>>
        ELSE AddChar(fields[n - 1], IF n = 1 THEN Space ELSE text[n - 1], text[n])
  IN  fields[Len(text)]

Lexeme(id, size, path) == [id |-> id, size |-> size, path |-> path]
NoLexeme == Lexeme(Unknown, 0, <<>>)

\* The number that digits stand for.
Number(digits) ==
  LET value[n \in 0..Len(digits)] ==
        IF n = 0 THEN 0 ELSE 10 * value[n - 1] + (digits[n] - 48)
  IN  value[Len(digits)]

\* The token a field stands for.
Meaning(field) ==
  CASE \E k \in Keywords : Words[k] = field ->
         Lexeme(CHOOSE k \in Keywords : Words[k] = field, 0, <<>>)
    [] ToSet(field) \subseteq Digits ->
         Lexeme("Size", Number(field) % Modulus, <<>>)
    [] field[1] = Slash /\ ToSet(field) \subseteq WordChars -> Lexeme("Path", 0, field)
    [] OTHER -> NoLexeme

\* The last field of a text may go on.
Unfinished(text) == text # <<>> /\ Rest(text) = <<>> /\ Last(text) # Space

\* The fields of a text that are known to be complete.
Complete(text) ==
  LET fields == Fields(Lead(text)) IN IF Unfinished(text) THEN Front(fields) ELSE fields

\* A text that some header begins with, and a header.
Viable(text) ==
  LET fields == Fields(Lead(text))
  IN  /\ \A n \in DOMAIN fields :
           \/ Meaning(fields[n]) # NoLexeme
           \/ (n = Len(fields) /\ Unfinished(text) /\ fields[n] \in Stems)
      /\ Rest(text) # <<>> => Lead(text) # <<>> /\ Rest(text) \in Parts(Terminator) \cup {<<NUL>>}
IsHeader(text) == Rest(text) \in {Terminator, <<NUL>>} /\ Viable(text)

\* Where the header of a stream ends or where the stream can no longer be one: after the last
\* byte, the byte that decides, or past the stream when none has decided yet.
Decided(text) ==
  LET stops == {n \in 1..Len(text) :
                  LET t == SubSeq(text, 1, n) IN Viable(t) => IsHeader(t)}
      stop == Min(stops)
  IN  IF stops = {} THEN [how |-> "open", at |-> Len(text)]
      ELSE [how |-> IF IsHeader(SubSeq(text, 1, stop)) THEN "header"
                    ELSE IF text[stop] \in SevenBit THEN "invalid" ELSE "outside",
            at |-> stop]

Meanings(fields) == [n \in DOMAIN fields |-> Meaning(fields[n])]

-----------------------------------------------------------------------------
(* The loops.                                                                *)

Init ==
  /\ tok = NewTokenizer
  /\ chunk = <<>> /\ processed = 0 /\ header = <<>>
  /\ socket = "open" /\ received = <<>> /\ headers = 1

Reading == socket = "open" /\ ~Over(tok)

InBounds(text) ==
  /\ LeadLength(text) <= MaxLead[headers]
  /\ Len(Rest(text)) <= Len(Terminator) + 1
  /\ \A field \in ToSet(Fields(Lead(text))) : Len(field) <= MaxField

\* recv returns a piece, and it is tokenized.
Receive(piece, moves) ==
  /\ Reading
  /\ InBounds(received \o piece)
  /\ \E p \in {Process(tok, piece, moves)} :
       /\ tok' = p.tok
       /\ processed' = p.ret
       /\ header' = IF p.ret > 0
                    THEN header \o SubSeq(piece, 1, Min({HeaderSize - Len(header), p.ret}))
                    ELSE header
  /\ chunk' = piece
  /\ received' = received \o piece
  /\ UNCHANGED <<socket, headers>>

\* recv returns 0, or -1.
EndOfStream(how) ==
  /\ Reading
  /\ socket' = how
  /\ chunk' = <<>>
  /\ UNCHANGED <<tok, processed, header, received, headers>>

\* The server's next connection.
NextConnection ==
  /\ ~Reading /\ tok.state # Crashed
  /\ headers < MaxHeaders
  /\ tok' = Reset(tok)
  /\ chunk' = <<>> /\ processed' = 0 /\ header' = <<>>
  /\ socket' = "open" /\ received' = <<>> /\ headers' = headers + 1

Next ==
  \/ \E piece \in Pieces, moves \in BOOLEAN : Receive(piece, moves)
  \/ \E how \in {"closed", "failed"} : EndOfStream(how)
  \/ NextConnection

Spec == Init /\ [][Next]_vars

\* Variant: bytes behind the header are not noticed.
RequestLax == IF socket = "failed" THEN NoPath ELSE UnpackRequest(tok)

\* What handle_connection_ makes of the request when its loop has ended.
Request ==
  IF socket = "failed" \/ processed < Len(chunk) THEN NoPath ELSE UnpackRequest(tok)

\* What read_response_ makes of the response, and the bytes it leaves behind the header.
Response == IF socket = "failed" THEN [status |-> Refused, size |-> 0] ELSE UnpackResponse(tok)
Behind == SubSeq(chunk, processed + 1, Len(chunk))

-----------------------------------------------------------------------------
\* Types, and the bounds of the memory of the tokenizer and of the header's copy.
TypeOK ==
  /\ tok.state \in States \cup {Crashed}
  /\ Len(tok.tokens) <= tok.tokenCapacity
  /\ DOMAIN tok.buffer = 0..Capacity(tok) - 1
  /\ tok.startOfCurrent <= tok.bufferCursor /\ tok.bufferCursor <= Capacity(tok)
  /\ tok.numberValue \in 0..Modulus - 1
  /\ chunk \in Pieces \cup {<<>>} /\ processed \in -1..Len(received)
  /\ Len(header) <= HeaderSize
  /\ socket \in {"open", "closed", "failed"} /\ headers \in 1..MaxHeaders

\* compress_graph.cpp:91-103, write_table.cpp:112-123: wherever a stream leads, the tokenizer
\* finds for every next char the action that build_graph has for it, although chars share
\* columns of the table and a state need not have an edge for each.
TableIsGraph == tok.state \in FaithfulRows \cup {Crashed}

\* gf-student-gflib.h:33-37: however the stream was cut into pieces, the tokenizer is done
\* where a header ends, and invalid where a char of seven bits makes a header impossible.
\* Not so where a byte outside of seven bits does: gf-student-gflib.h:100-101 promises -1 and
\* tok_invalid there too, but get_action_ returns NULL for it, and tok_process follows that
\* (gf-student-gflib.c:129,758).  The third part says that this happens there and nowhere else.
HeaderRecognized ==
  LET how == Decided(received).how
  IN  /\ Done(tok) <=> how = "header"
      /\ Invalid(tok) <=> how = "invalid"
      /\ tok.state = Crashed <=> how = "outside"

\* gf-student-gflib.h:98-107: the tokens completed so far, invalid or not, are those of the
\* stream, and the strings of the paths among them are where the tokens point, after any
\* realloc and any earlier header.
TokensAreFields ==
  LET decided == Decided(received)
      end == IF decided.how \in {"header", "open"} THEN decided.at ELSE decided.at - 1
      Read(token) == Lexeme(token.id, token.size,
                            IF token.id = "Path" THEN StringAt(tok, token.place) ELSE <<>>)
  IN  [n \in DOMAIN tok.tokens |-> Read(tok.tokens[n])]
        = Meanings(Complete(SubSeq(received, 1, end)))

\* gfclient.c:151-162: when a header is done, the tail is what was received behind it, and the
\* callback gets the header's text, as much of it as fits.
SplitsAtHeader ==
  Done(tok) =>
    LET text == SubSeq(received, 1, Decided(received).at)
    IN  received = text \o Behind /\ header = SubSeq(text, 1, Min({HeaderSize, Len(text)}))

\* gfserver.c:319-326, gf-student-gflib.h:185-192: a message is taken exactly when it is one.
\* A request is all that was read: GETFILE GET path and nothing behind it, and the handler gets
\* that path.  A response begins with GETFILE and a status, and a size exactly when the status
\* is OK, and the client gets its status and size.
TakenWhenExact ==
  ~Reading /\ tok.state # Crashed =>
    LET fields == Meanings(Fields(Lead(received)))
        ids == [n \in DOMAIN fields |-> fields[n].id]
        aRequest == /\ socket # "failed" /\ IsHeader(received)
                    /\ ids = <<"Getfile", "Get", "Path">>
        aResponse == /\ socket # "failed" /\ Decided(received).how = "header"
                     /\ \/ ids = <<"Getfile", "Ok", "Size">>
                        \/ \E s \in Statuses \ {"Ok"} : ids = <<"Getfile", s>>
    IN  /\ Request = IF aRequest THEN fields[3].path ELSE NoPath
        /\ Response = IF aResponse
                      THEN [status |-> ids[2],
                            size |-> IF Len(ids) = 3 THEN fields[3].size ELSE 0]
                      ELSE [status |-> Refused, size |-> 0]

\* The headers either side prints are read by the other as they were meant, in any pieces.
RoundTrip ==
  ~Reading /\ socket # "failed" =>
    \A meaning \in ToSet(Meanings(Fields(Lead(received)))) :
      /\ meaning.id = "Path" /\ received = RequestText(meaning.path) =>
           Request = meaning.path
      /\ \A status \in Statuses :
           LET size == IF status = "Ok" THEN meaning.size ELSE 0
           IN  IsPrefix(ResponseText(status, size), received) =>
                 Response = [status |-> status, size |-> size]

\* Only messages are taken for messages, and those that are printed are taken for what they
\* were meant to say.
MessagesAreExact == TakenWhenExact /\ RoundTrip
=============================================================================
