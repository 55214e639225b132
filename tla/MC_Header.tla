----------------------------- MODULE MC_Header -----------------------------
(***************************************************************************)
(* A small instance of HeaderReader: keywords of one and two letters, one  *)
(* the beginning of another, and the digit 1.                              *)
(***************************************************************************)
EXTENDS HeaderReader

G == 71
F == 70
One == 49
CR == 13
LF == 10

MCWords == [Getfile |-> <<G, F>>, Get |-> <<G>>, Ok |-> <<F>>, Error |-> <<F, G>>]

MCTerminator == <<CR, LF, CR, LF>>

\* Single chars, so that a header may be cut anywhere, one of them outside the table, and the
\* ends of a header with and without something behind them.
MCPieces ==
  {<<c>> : c \in {G, F, One, Slash, Space, CR, NUL, -23}}
  \cup {MCTerminator, Append(MCTerminator, G), <<LF, CR, LF>>}

\* A request or a response, then a header of one char in what the first has left behind.
MCMaxLead == <<6, 1>>
=============================================================================
