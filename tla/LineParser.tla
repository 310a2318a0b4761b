------------------------------- MODULE LineParser -------------------------------
(***************************************************************************)
(* The cursor of parse_base (detail/parse/parse_base.h, src/parse_base.cpp)  *)
(* and the two grammars built on it: a line of /proc/<pid>/maps              *)
(* (src/parse_maps.cpp) and one of /proc/<pid>/status (src/parse_status.cpp). *)
(*                                                                         *)
(* A text is a sequence of symbols, a position counts the symbols before it, *)
(* as in the code.  One symbol stands for one character or for several that  *)
(* no truncation need tell apart.  A piece of the text is an interval.       *)
(*                                                                         *)
(* substr throws for a position beyond the end, and every caller up to       *)
(* to_vector is noexcept: what throws here ends the program.                 *)
(***************************************************************************)
EXTENDS Integers, Sequences, FiniteSetsExt

CONSTANTS Letters,  \* symbols of words, ":" and "-" among them
          Digits    \* symbols of numbers

Blank == " "
NewLine == "\n"
Dash == "-"
ASSUME SeparatorsAreNeither == {Blank, NewLine} \cap (Letters \cup Digits) = {}

Symbols == Letters \cup Digits \cup {Blank, NewLine}

At(t, p) == t[p + 1]
Piece(t, i) == SubSeq(t, i.from + 1, i.to)

\* The first position from p on whose symbol is not accepted, or the end.
Past(t, p, accepted) == IF p >= Len(t) THEN p
                        ELSE Min({q \in p .. Len(t) : q = Len(t) \/ At(t, q) \notin accepted})

SkipWhitespace(t, p) == Past(t, p, {Blank})

\* next_token(call_back): blanks, then what call_back accepts.
NextToken(t, p, accepted) ==
    LET from == SkipWhitespace(t, p)
    IN  [from |-> from, to |-> Past(t, from, accepted)]
Word == Symbols \ {Blank, NewLine}
Line == Symbols \ {NewLine}
Throws(t, token) == token.from > Len(t)

\* Mutant: n symbols, whether or not the text has them.
GetTokenUnbounded(t, p, n) == LET from == SkipWhitespace(t, p)
                              IN  [from |-> from, to |-> from + n]

\* get_token(n): blanks, then at most n symbols, whatever they are.
GetToken(t, p, n) == LET from == SkipWhitespace(t, p)
                     IN  [from |-> from, to |-> from + Min({Len(t) - from, n})]

\* next_line: behind the next line feed.  Where there is none, find returns
\* npos, and npos + 1 is 0.
NextLine(t, p) ==
    LET feeds == {q \in p .. Len(t) - 1 : At(t, q) = NewLine}
    IN  IF p >= Len(t) THEN p ELSE IF feeds = {} THEN 0 ELSE Min(feeds) + 1

PermSize == 4

\* Mutant: only the offset and the device are skipped before the path.
ParseMapsShort(t, p) ==
    LET start == NextToken(t, p, Digits)
        end == NextToken(t, start.to + 1, Digits)
        perm == GetToken(t, end.to, PermSize)
        offset == NextToken(t, perm.to, Word)
        dev == NextToken(t, offset.to, Word)
        path == NextToken(t, dev.to, Line)
    IN  [start |-> start, end |-> end, perm |-> perm, path |-> path, pos |-> path.to,
         throws |-> Throws(t, start) \/ Throws(t, end)]

\* parse_maps::parse_line: start-end, permissions, three words, and the path to
\* the end of the line.  From the end of the range on the cursor stays in the
\* text, and nothing throws.
ParseMaps(t, p) ==
    LET start == NextToken(t, p, Digits)
        end == NextToken(t, start.to + 1, Digits)
        perm == GetToken(t, end.to, PermSize)
        offset == NextToken(t, perm.to, Word)
        dev == NextToken(t, offset.to, Word)
        inode == NextToken(t, dev.to, Word)
        path == NextToken(t, inode.to, Line)
    IN  [start |-> start, end |-> end, perm |-> perm, path |-> path, pos |-> path.to,
         throws |-> Throws(t, start) \/ Throws(t, end)]

\* to_int64 makes a number of a word of digits, of the empty one too.
IsInteger(word) == \A i \in DOMAIN word : word[i] \in Digits

\* Mutant: the values go on beyond the end of the line.
TokensFromAll(t, p) ==
    LET from[q \in 0 .. Len(t)] ==
          IF q = Len(t) THEN <<>>
          ELSE LET token == NextToken(t, IF At(t, q) = NewLine THEN q + 1 ELSE q, Word)
               IN  << token >> \o from[token.to]
    IN  from[p]

\* The loop of parse_status::parse_line: tokens up to the end of the line.  It
\* looks at the symbol before it compares the position with the end.
TokensFrom(t, p) ==
    LET from[q \in 0 .. Len(t)] ==
          IF q = Len(t) \/ At(t, q) = NewLine THEN <<>>
          ELSE LET token == NextToken(t, q, Word) IN << token >> \o from[token.to]
    IN  from[p]

\* parse_status::parse_line: a key, from which the last symbol (the colon) is
\* dropped, and the values.
ParseStatus(t, p) ==
    LET key == NextToken(t, p, Word)
        tokens == TokensFrom(t, key.to)
    IN  [key |-> IF key.to = key.from THEN <<>>
                 ELSE Piece(t, [from |-> key.from, to |-> key.to - 1]),
         values |-> tokens,
         pos |-> IF tokens = <<>> THEN key.to ELSE tokens[Len(tokens)].to]
================================================================================
