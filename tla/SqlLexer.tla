------------------------------- MODULE SqlLexer -------------------------------
(***************************************************************************)
(* CSQLParser::Parse (csqlparser.cpp): an SQL text is cut into tokens, one *)
(* in a step.  A text is a sequence of pieces: characters, and words that  *)
(* no other piece is a part of.  What a token contains is the part of the  *)
(* text it was made from; the conversion of escapes and hex digits is left *)
(* out.  The text ends with a NUL, here "end".                             *)
(***************************************************************************)
EXTENDS Integers, Sequences, SequencesExt, FiniteSetsExt

CONSTANTS
  Texts,     \* the texts that are parsed
  MaxBits    \* how many bits b'...' may have (128)

(* A text is what is before its first NUL. *)
ASSUME TextsAssumption ==
  \A t \in Texts : t \in Seq(STRING) /\ \A i \in DOMAIN t : t[i] # "end"

VARIABLES
  text, at,  \* the text, and p
  line, setSeen, \* the line, and ifsetexist
  tokens,    \* those found: kind, type, first piece, the piece behind, line
  status     \* "lexing", "done", "error", or "overrun": p is behind the NUL

lexVars == <<text, at, line, setSeen, tokens, status>>

Digit == {"0", "1"}
Hex == Digit \cup {"b", "e"}
Keyword == {"set", "where"}
Aggregate == {"count"}
Alpha == {"b", "e", "n", "x"} \cup Keyword \cup Aggregate
White == {" "}
Quote == {"'", "\""}
Escaped == Quote \cup {"\\", "b", "n", "0"}
Symbol == {",", ";", "(", ")"}
Operator == {"+", "*", "/", "%", "^"}
Separator == White \cup Symbol \cup {"+", "*", "/", "%", "\n", "=", "!", ">", "<", "-"}

At(p) == IF p \in DOMAIN text THEN text[p] ELSE "end"

(* The first place from p on where the text leaves the set. *)
Leaves(p, set) == Min({q \in p..(Len(text) + 1) : At(q) \notin set})

LastKind == IF tokens = <<>> THEN "none" ELSE Last(tokens).kind
-----------------------------------------------------------------------------
(* What is found at p: kind, type, the piece behind it, and where parsing  *)
(* goes on.                                                                *)
Token(kind, type, to) == [kind |-> kind, type |-> type, to |-> to, next |-> to]
Wrong == [kind |-> "wrong", type |-> "wrong", to |-> 0, next |-> 0]

(* ParseNumber: with an exponent it is a float, unless the text ends with  *)
(* it; an exponent may have a sign and no digit.                           *)
ParseNumber(p) ==
  LET q == Leaves(p, Digit \cup {"."})
      points == Cardinality({i \in p..(q - 1) : At(i) = "."})
      kind == IF points = 1 THEN "float" ELSE "integer"
      end == Leaves(IF At(q + 1) \in {"+", "-"} THEN q + 2 ELSE q + 1, Digit)
  IN  IF points > 1 THEN Wrong
      ELSE IF At(q) # "e" THEN Token(kind, "none", q)
      ELSE IF At(q + 1) \notin Digit \cup {"+", "-"} THEN Wrong
      ELSE Token(IF At(end) = "end" THEN kind ELSE "float", "none", end)

(* ParseHexString: x'...' *)
ParseHexString(p) ==
  LET q == Leaves(p + 1, Hex)
  IN  IF At(q) # At(p) \/ (q - p - 1) % 2 = 1 THEN Wrong ELSE Token("string", "hex", q + 1)

(* ParseHexString2: 0x... *)
ParseHexString2(p) ==
  LET q == Leaves(p, Hex)
  IN  IF At(q) \notin Separator \cup {"end"} \/ (q - p) % 2 = 1 THEN Wrong
      ELSE Token("string", "hex", q)

(* ParseBitNum: b'...' *)
ParseBitNum(p) ==
  LET q == Leaves(p + 1, Digit)
  IN  IF At(q) # At(p) \/ q - p - 1 > MaxBits THEN Wrong ELSE Token("integer", "bits", q + 1)

(* The places from p on that a string is read at, one by one: a backslash  *)
(* is read with what is behind it.                                         *)
ReadAt(p) ==
  LET reads[q \in p..(Len(text) + 1)] ==
        q = p \/ (q > p /\ reads[q - 1] /\ At(q - 1) # "\\")
              \/ (q > p + 1 /\ reads[q - 2] /\ At(q - 2) = "\\")
  IN  {q \in p..(Len(text) + 1) : reads[q]}

(* Faulty variant: a backslash does not keep the quote behind it. *)
ParseStringUnescaped(p) ==
  LET q == Leaves(p + 1, {At(i) : i \in 1..Len(text)} \ {At(p)})
  IN  IF At(q) # At(p) THEN Wrong ELSE Token("string", "normal", q + 1)

(* ParseString: up to the delimiter, unless a backslash is before it; no   *)
(* other characters than the special ones may follow a backslash.          *)
ParseString(p) ==
  LET ends == {q \in ReadAt(p + 1) : At(q) \in {At(p), "end"}
                                     \/ (At(q) = "\\" /\ At(q + 1) \notin Escaped)}
      q == Min(ends)
  IN  IF ends = {} \/ At(q) # At(p) THEN Wrong ELSE Token("string", "normal", q + 1)

ParseWord(p) ==
  LET q == Leaves(p, Alpha \cup Digit)
      word == IF q = p + 1 THEN At(p) ELSE "other"
  IN  IF word \in Keyword THEN Token("keyword", word, q)
      ELSE IF word \in Aggregate THEN Token("aggregate", word, q)
      ELSE Token("name", "none", q)

(* Faulty variant: p stays at a single &. *)
ParseDoubleStays(p) ==
  IF At(p + 1) = At(p) THEN Token("logical", At(p), p + 2)
  ELSE [Token("numeric", At(p), p + 1) EXCEPT !.next = p]

(* & and |, alone and doubled *)
ParseDouble(p) ==
  IF At(p + 1) = At(p) THEN Token("logical", At(p), p + 2) ELSE Token("numeric", At(p), p + 1)

(* !, > and <, with what may follow.  For <= the type that was set is set  *)
(* again, to that of <; and <=> is read as <>.                             *)
ParseComparison(p) ==
  LET equal == At(p + 1) = "="
      q == IF equal THEN p + 2 ELSE p + 1
  IN  CASE At(p) = "!" -> IF equal THEN Token("comparison", "<>", q) ELSE Token("logical", "!", q)
        [] At(p) = ">" -> Token("comparison", IF equal THEN ">=" ELSE ">", q)
        [] At(p) = "<" -> IF At(q) = ">" THEN Token("comparison", "<>", q + 1)
                          ELSE Token("comparison", "<", q)

(* Behind a value a minus is an operator, as it is at the beginning; p     *)
(* then moves on twice, over a character that is not looked at.            *)
ParseMinus(p) ==
  IF At(p + 1) \in Digit
     /\ LastKind \in {"keyword", "symbol", "assignment", "comparison", "logical", "numeric"}
  THEN ParseNumber(p + 1)
  ELSE [Token("numeric", "-", p + 1) EXCEPT !.next = p + 2]

Parsed(p) ==
  CASE At(p) \in Symbol -> Token("symbol", At(p), p + 1)
    [] At(p) = "." -> Token("point", "none", p + 1)
    [] At(p) = "=" -> Token(IF setSeen THEN "assignment" ELSE "comparison", "=", p + 1)
    [] At(p) \in {"!", ">", "<"} -> ParseComparison(p)
    [] At(p) \in Operator -> Token("numeric", At(p), p + 1)
    [] At(p) = "-" -> ParseMinus(p)
    [] At(p) \in {"&", "|"} -> ParseDouble(p)
    [] At(p) \in Quote -> ParseString(p)
    [] At(p) = "x" /\ At(p + 1) \in Quote -> ParseHexString(p + 1)
    [] At(p) = "0" /\ At(p + 1) = "x" -> ParseHexString2(p + 2)
    [] At(p) = "b" /\ At(p + 1) \in Quote -> ParseBitNum(p + 1)
    [] At(p) \in Alpha \ {"x", "b"} \/ (At(p) \in {"x", "b"} /\ At(p + 1) \notin Quote) -> ParseWord(p)
    [] At(p) \in Digit /\ ~(At(p) = "0" /\ At(p + 1) = "x") -> ParseNumber(p)
    [] OTHER -> Wrong
-----------------------------------------------------------------------------
LexInit ==
  /\ text \in Texts /\ at = 1 /\ line = 1 /\ setSeen = FALSE /\ tokens = <<>>
  /\ status = IF text = <<>> THEN "done" ELSE "lexing"

Skip(p) == Leaves(p, White)

(* The loop ends at the NUL, behind a token or a line; behind white space  *)
(* the NUL is a wrong character.                                           *)
Reached(p) ==
  status' = IF p > Len(text) + 1 THEN "overrun" ELSE IF p = Len(text) + 1 THEN "done" ELSE "lexing"

NextLine ==
  /\ status = "lexing" /\ At(Skip(at)) = "\n"
  /\ line' = line + 1 /\ at' = Skip(at) + 1 /\ Reached(at')
  /\ UNCHANGED <<text, setSeen, tokens>>

(* SET makes = an assignment, until WHERE. *)
Sees(token) ==
  IF token.type = "set" THEN TRUE ELSE IF token.type = "where" THEN FALSE ELSE setSeen

NextToken ==
  /\ status = "lexing" /\ At(Skip(at)) # "\n"
  /\ LET token == Parsed(Skip(at))
     IN  IF token = Wrong
         THEN status' = "error" /\ UNCHANGED <<at, setSeen, tokens>>
         ELSE /\ tokens' = Append(tokens, [kind |-> token.kind, type |-> token.type,
                                           from |-> Skip(at), to |-> token.to, line |-> line])
              /\ at' = token.next /\ Reached(at') /\ setSeen' = Sees(token)
  /\ UNCHANGED <<text, line>>

LexNext == NextLine \/ NextToken

LexSpec == LexInit /\ [][LexNext]_lexVars
-----------------------------------------------------------------------------
(* Type invariant: tokens follow one another, none is empty, and p leaves  *)
(* the text only over the piece a minus is skipped with.                   *)
LexTypeOK ==
  /\ at \in 1..(Len(text) + 2) /\ line \in 1..(Len(text) + 1) /\ setSeen \in BOOLEAN
  /\ status \in {"lexing", "done", "error", "overrun"}
  /\ \A i \in DOMAIN tokens :
       /\ tokens[i].from < tokens[i].to /\ tokens[i].to <= Len(text) + 1
       /\ i > 1 => tokens[i - 1].to <= tokens[i].from
  /\ status = "overrun" <=> at > Len(text) + 1
  /\ status = "overrun" => Last(tokens).type = "-"

Covered == UNION {tokens[i].from..(tokens[i].to - 1) : i \in DOMAIN tokens}
Swallowed == {tokens[i].to : i \in {j \in DOMAIN tokens : tokens[j].type = "-"}}

(* Nothing of the text is lost between the tokens but white space, ends of *)
(* lines and the piece behind a minus that is an operator.                 *)
OnlyWhiteIsSkipped ==
  \A q \in 1..(at - 1) : q \in Covered \/ q \in Swallowed \/ At(q) \in White \cup {"\n"}

(* The line a token is reported with is that of its first piece, but for   *)
(* the ends of lines within strings, and those a minus is skipped with.    *)
LinesAreCounted ==
  \A i \in DOMAIN tokens :
    tokens[i].line = 1 + Cardinality({q \in 1..(tokens[i].from - 1) :
                                        At(q) = "\n" /\ q \notin Covered \cup Swallowed})

(* A = assigns between SET and the next WHERE, and compares elsewhere; SET *)
(* and WHERE within strings or names do not count.                         *)
EqualsByKeyword ==
  \A i \in DOMAIN tokens : tokens[i].type = "=" =>
    LET before == {j \in 1..(i - 1) : tokens[j].kind = "keyword"}
    IN  tokens[i].kind = (IF before # {} /\ tokens[Max(before)].type = "set"
                          THEN "assignment" ELSE "comparison")

(* A string ends at the first delimiter of its kind that an even number of *)
(* backslashes is before: the others belong to it.                         *)
Backslashes(q) == q - 1 - Max({0} \cup {i \in 1..(q - 1) : At(i) # "\\"})
StringsEndAtQuote ==
  \A i \in DOMAIN tokens : tokens[i].kind = "string" /\ tokens[i].type = "normal" =>
    LET from == tokens[i].from
        to == tokens[i].to - 1
    IN  /\ At(to) = At(from) /\ Backslashes(to) % 2 = 0
        /\ \A q \in (from + 1)..(to - 1) : At(q) = At(from) => Backslashes(q) % 2 = 1

(* What the parser makes of a text: tokens that follow one another, with   *)
(* nothing lost between them, in their lines, with = read by the keywords  *)
(* before it and strings that end where they should (CSQLParser::Parse).   *)
TextIsCut ==
  /\ LexTypeOK
  /\ OnlyWhiteIsSkipped
  /\ LinesAreCounted
  /\ EqualsByKeyword
  /\ StringsEndAtQuote

(* Every turn of the loop moves on, or ends it: parsing ends. *)
TurnsMoveOn == [][at' > at \/ status' # "lexing"]_lexVars
=============================================================================
