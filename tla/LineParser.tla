----------------------------- MODULE LineParser -----------------------------
(***************************************************************************)
(* irc::parse_irc_line (irc.cpp): a line of the server becomes a prefix, a *)
(* command and parameters.  The function walks over the line once, with a  *)
(* buffer of IRC_MAX_LINE_SIZE bytes; Parsed below says what it computes.  *)
(* A line is a sequence of characters, of which ":" and " " are special.   *)
(***************************************************************************)
EXTENDS SeqKeep

CONSTANTS
  MaxWord,       \* sizeof(buf) - 1 in parse_irc_line
  ParseLen       \* bound: the lines of up to this length are tried

ASSUME ParserAssumption == MaxWord \in Nat \ {0} /\ ParseLen \in Nat

\* irc_strupper; "a" stands for the letters.
Upper(w) == [i \in DOMAIN w |-> IF w[i] = "a" THEN "A" ELSE w[i]]

\* What the walk goes over: the line, without the colon before a prefix.
HasPrefix(line) == line # <<>> /\ line[1] = ":"
Body(line) == IF HasPrefix(line) THEN Tail(line) ELSE line

\* The variables of the walk; done is the break at the last parameter.
Start(line) ==
  [state |-> IF HasPrefix(line) THEN "PREFIX" ELSE "CMD",
   buf |-> <<>>, isspace |-> FALSE, done |-> FALSE,
   prefix |-> <<>>, cmd |-> <<>>, params |-> <<>>]

\* COMMIT_BUFFER
Commit(p) ==
  IF p.buf = <<>> THEN p
  ELSE CASE p.state = "PREFIX" ->
              [p EXCEPT !.prefix = p.buf, !.buf = <<>>, !.state = "CMD"]
         [] p.state = "CMD" ->
              [p EXCEPT !.cmd = Upper(p.buf), !.buf = <<>>, !.state = "PARAM"]
         [] OTHER ->
              [p EXCEPT !.params = Append(@, p.buf), !.buf = <<>>]

\* One turn of the loop, at position i of t.
Turn(t, p, i) ==
  IF p.done THEN p
  ELSE IF t[i] = " " THEN [Commit(p) EXCEPT !.isspace = TRUE]
  ELSE IF t[i] = ":" /\ p.isspace /\ p.state = "PARAM"
    THEN [p EXCEPT !.params = Append(@, SubSeq(t, i + 1, Len(t))), !.done = TRUE]
  ELSE IF Len(p.buf) >= MaxWord THEN Commit(p)
  ELSE [p EXCEPT !.buf = Append(@, t[i]), !.isspace = FALSE]

\* The variables after i turns.
Walk(line, i) ==
  LET t == Body(line)
      walk[j \in 0..Len(t)] == IF j = 0 THEN Start(line) ELSE Turn(t, walk[j - 1], j)
  IN walk[i]

\* parse_irc_line: the return value, and what it stores.
parse_irc_line(line) ==
  LET last == Walk(line, Len(Body(line)))
      end == IF last.done THEN last ELSE Commit(last)
  IN [ret |-> IF end.state = "PARAM" THEN 0 ELSE -1,
      prefix |-> end.prefix, cmd |-> end.cmd, params |-> end.params]
-----------------------------------------------------------------------------
(***************************************************************************)
(* What it should compute.                                                 *)
(***************************************************************************)
\* The words that end in the first n characters of t, and the one begun there; a
\* word that overflows the buffer becomes several, one character lost after each.
WordsTo(t, n) == PiecesTo(t, {" "}, {}, MaxWord, n)
WordAt(t, n) == PieceAt(t, {" "}, {}, MaxWord, n)

\* A line is its words: the prefix if it begins with a colon, the command, and
\* parameters, the last of which may begin with a colon after a space and is
\* then taken whole.
Parsed(line) ==
  LET t == Body(line)
      need == IF HasPrefix(line) THEN 2 ELSE 1
      lasts == {k \in 2..Len(t) : t[k] = ":" /\ t[k - 1] = " " /\ Len(WordsTo(t, k - 1)) >= need}
      cut == IF lasts = {} THEN Len(t) + 1
             ELSE CHOOSE k \in lasts : \A l \in lasts : k <= l
      begun == WordAt(t, cut - 1)
      ws == IF begun = <<>> THEN WordsTo(t, cut - 1) ELSE Append(WordsTo(t, cut - 1), begun)
      word(i) == IF i <= Len(ws) THEN ws[i] ELSE <<>>
  IN [ret |-> IF Len(ws) >= need THEN 0 ELSE -1,
      prefix |-> IF HasPrefix(line) THEN word(1) ELSE <<>>,
      cmd |-> Upper(word(need)),
      params |-> SubSeq(ws, need + 1, Len(ws))
                   \o IF lasts = {} THEN <<>> ELSE <<SubSeq(t, cut + 1, Len(t))>>]

\* The walk of parse_irc_line computes that for every line that fits the bound,
\* colons and spaces at the ends, empty words and words that are too long
\* included.  TLC evaluates it on every run that extends this module.
ASSUME ParseCorrect ==
  \A n \in 0..ParseLen : \A line \in [1..n -> {":", " ", "a"}] :
    parse_irc_line(line) = Parsed(line)
=============================================================================
