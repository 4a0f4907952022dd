---------------------------- MODULE CodecProofs ----------------------------
(***************************************************************************)
(* Proofs about the two codecs, which do not interact:                     *)
(*   1. SqlLexer, for texts of every length and of any characters;         *)
(*   2. Decimal64, for every word, every range of scales and any operands. *)
(***************************************************************************)
EXTENDS SqlLexer, Decimal64, QueueFacts

-----------------------------------------------------------------------------
(* Part 1: SqlLexer.                                                       *)

TextLen == Len(text)
TextOK == text \in Seq(STRING) /\ \A i \in DOMAIN text : text[i] # "end"

(* What is where in a text. *)
LEMMA TextIs ==
  ASSUME TextOK
  PROVE  /\ TextLen \in Nat
         /\ \A p \in Nat \ {0} : (At(p) = "end" <=> p > TextLen) /\ (p <= TextLen => At(p) = text[p])
<1>1. TextLen \in Nat /\ DOMAIN text = 1..TextLen
  BY LenProperties DEF TextOK, TextLen
<1>2. QED
  BY <1>1 DEF TextOK, At

LEMMA MinIs ==
  ASSUME NEW S \in SUBSET Nat, S # {}
  PROVE  Min(S) \in S /\ \A k \in S : Min(S) <= k
  BY Least DEF Min

LEMMA MaxIs ==
  ASSUME NEW n \in Nat, NEW S \in SUBSET (0..n), S # {}
  PROVE  Max(S) \in S /\ \A k \in S : k <= Max(S)
<1>0. \A k \in S : k \in 0..n
  OBVIOUS
<1> DEFINE R == {k \in 0..n : n - k \in S}
<1>1. R \in SUBSET Nat /\ R # {}
  <2>1. PICK k \in S : TRUE
    OBVIOUS
  <2>2. k \in 0..n /\ n - k \in 0..n /\ n - (n - k) = k
    BY <1>0, <2>1
  <2>3. n - k \in R
    BY <2>1, <2>2
  <2>4. R \in SUBSET Nat
    OBVIOUS
  <2>5. QED
    BY <2>3, <2>4
<1>2. PICK m \in R : \A k \in R : m <= k
  BY <1>1, Least
<1>3. m \in 0..n /\ n - m \in S
  BY <1>2
<1>4. ASSUME NEW j \in S PROVE n - m >= j
  <2>1. j \in 0..n /\ n - j \in 0..n /\ n - (n - j) = j
    BY <1>0
  <2>2. m <= n - j
    BY <2>1, <1>2
  <2>3. QED
    BY <2>1, <2>2, <1>3
<1>5. Max(S) \in S /\ \A y \in S : Max(S) >= y
  BY <1>3, <1>4 DEF Max
<1>6. QED
  BY <1>0, <1>5

(* The place where a text leaves a set is the first one. *)
LEMMA LeavesIs ==
  ASSUME TextOK, NEW p \in 1..(TextLen + 1), NEW set, "end" \notin set
  PROVE  /\ Leaves(p, set) \in p..(TextLen + 1) /\ At(Leaves(p, set)) \notin set
         /\ \A i \in p..(Leaves(p, set) - 1) : At(i) \in set
         /\ At(p) \in set => Leaves(p, set) > p
<1> DEFINE S == {q \in p..(TextLen + 1) : At(q) \notin set}
<1>1. TextLen \in Nat /\ At(TextLen + 1) = "end"
  BY TextIs
<1>2. TextLen + 1 \in S /\ S \in SUBSET Nat
  BY <1>1
<1>3. Leaves(p, set) = Min(S)
  BY DEF Leaves, TextLen
<1>4. Min(S) \in S /\ \A k \in S : Min(S) <= k
  BY <1>2, MinIs
<1> DEFINE m == Min(S)
<1> HIDE DEF m
<1>5. m \in p..(TextLen + 1) /\ At(m) \notin set /\ \A i \in p..(TextLen + 1) : At(i) \notin set => m <= i
  BY <1>4 DEF m
<1>6. \A i \in p..(m - 1) : At(i) \in set
  BY <1>1, <1>5
<1>7. QED
  BY <1>1, <1>3, <1>5, <1>6 DEF m

-----------------------------------------------------------------------------
(* Strings.  A place is read when an even number of backslashes is before  *)
(* it.                                                                     *)
Even(q) == Backslashes(q) % 2 = 0

LEMMA BackslashesAre ==
  ASSUME TextOK, NEW q \in Nat, q >= 2
  PROVE  /\ Backslashes(q - 1) \in Nat /\ Backslashes(q) \in Nat
         /\ Backslashes(q) = IF At(q - 1) = "\\" THEN Backslashes(q - 1) + 1 ELSE 0
<1> DEFINE S(r) == {0} \cup {i \in 1..(r - 1) : At(i) # "\\"}
<1>1. \A r \in Nat \ {0} : S(r) \in SUBSET (0..(r - 1)) /\ S(r) # {}
  OBVIOUS
<1>2. \A r \in Nat \ {0} : Max(S(r)) \in S(r) /\ \A k \in S(r) : k <= Max(S(r))
  <2>1. ASSUME NEW r \in Nat \ {0} PROVE Max(S(r)) \in S(r) /\ \A k \in S(r) : k <= Max(S(r))
    <3>1. r - 1 \in Nat /\ S(r) \in SUBSET (0..(r - 1)) /\ S(r) # {}
      OBVIOUS
    <3> HIDE DEF S
    <3>2. QED
      BY <3>1, MaxIs
  <2>2. QED
    BY <2>1
<1>3. \A r \in Nat \ {0} : Max(S(r)) \in 0..(r - 1) /\ Backslashes(r) = (r - 1) - Max(S(r))
  BY <1>2 DEF Backslashes
<1>4. q \in Nat \ {0} /\ q - 1 \in Nat \ {0}
  OBVIOUS
<1>5. CASE At(q - 1) = "\\"
  <2>1. S(q) = S(q - 1)
    <3>1. ASSUME NEW i \in 1..(q - 1), At(i) # "\\" PROVE i \in 1..((q - 1) - 1)
      BY <1>5, <3>1
    <3>2. QED
      BY <3>1
  <2>2. Max(S(q)) = Max(S(q - 1))
    BY <2>1
  <2> HIDE DEF S
  <2>3. QED
    BY <1>3, <1>4, <1>5, <2>2
<1>6. CASE At(q - 1) # "\\"
  <2>1. q - 1 \in S(q)
    BY <1>4, <1>6
  <2>2. q - 1 <= Max(S(q))
    BY <1>2, <1>4, <2>1
  <2> HIDE DEF S
  <2>3. QED
    BY <1>3, <1>4, <1>6, <2>2
<1>7. QED
  BY <1>5, <1>6

(* The places that are read, by what is before them. *)
Reads(p, q, before) ==
  q = p \/ (q > p /\ before[q - 1] /\ At(q - 1) # "\\")
        \/ (q > p + 1 /\ before[q - 2] /\ At(q - 2) = "\\")

LEMMA EvenStep ==
  ASSUME TextOK, NEW p \in Nat, p >= 2, At(p - 1) # "\\", NEW q \in Nat, q >= p
  PROVE  Even(q) <=> \/ q = p \/ (q > p /\ Even(q - 1) /\ At(q - 1) # "\\")
                     \/ (q > p + 1 /\ Even(q - 2) /\ At(q - 2) = "\\")
<1>1. Backslashes(p) = 0 /\ Even(p)
  BY BackslashesAre DEF Even
<1>2. CASE q = p
  BY <1>1, <1>2
<1>3. CASE q = p + 1
  <2>1. /\ Backslashes(q) = IF At(q - 1) = "\\" THEN Backslashes(q - 1) + 1 ELSE 0
        /\ q - 1 = p /\ ~(q > p + 1)
    BY <1>3, BackslashesAre
  <2>2. QED
    BY <1>1, <1>3, <2>1 DEF Even
<1>4. CASE q > p + 1
  <2> DEFINE a == Backslashes(q)
             b == Backslashes(q - 1)
             c == Backslashes(q - 2)
  <2>1. a \in Nat /\ b \in Nat /\ a = IF At(q - 1) = "\\" THEN b + 1 ELSE 0
    BY BackslashesAre
  <2>2. c \in Nat /\ b = IF At(q - 2) = "\\" THEN c + 1 ELSE 0
    <3>1. q - 1 \in Nat /\ q - 1 >= 2 /\ (q - 1) - 1 = q - 2
      BY <1>4
    <3>2. QED
      BY <3>1, BackslashesAre
  <2>3. Even(q) <=> a % 2 = 0
    BY DEF Even
  <2>4. Even(q - 1) <=> b % 2 = 0
    BY DEF Even
  <2>5. Even(q - 2) <=> c % 2 = 0
    BY DEF Even
  <2> HIDE DEF a, b, c
  <2>6. q # p /\ q > p
    BY <1>4
  <2>7. (a % 2 = 0) <=> (b % 2 = 0 /\ At(q - 1) # "\\") \/ (c % 2 = 0 /\ At(q - 2) = "\\")
    BY <2>1, <2>2
  <2>8. QED
    BY <1>4, <2>3, <2>4, <2>5, <2>6, <2>7
<1>5. QED
  BY <1>2, <1>3, <1>4

LEMMA ReadAtIs ==
  ASSUME TextOK, NEW p \in 2..(TextLen + 1), At(p - 1) # "\\"
  PROVE  ReadAt(p) = {q \in p..(TextLen + 1) : Even(q)}
<1> DEFINE D == p..(TextLen + 1)
           Is(f) == f = [q \in D |-> Reads(p, q, f)]
           g == [q \in D |-> Even(q)]
           f == CHOOSE h : Is(h)
<1>0. TextLen \in Nat
  BY TextIs
<1>1. ASSUME NEW q \in D PROVE Reads(p, q, g) <=> Even(q)
  <2>1. q \in Nat /\ p \in Nat /\ p >= 2 /\ q >= p
    BY <1>0
  <2>2. /\ q > p => q - 1 \in D
        /\ q > p + 1 => q - 2 \in D
    BY <1>0
  <2>3. /\ q > p => (g[q - 1] <=> Even(q - 1))
        /\ q > p + 1 => (g[q - 2] <=> Even(q - 2))
    BY <2>2
  <2> HIDE DEF g
  <2>4. QED
    BY <2>1, <2>3, EvenStep DEF Reads
<1>2. Is(g)
  <2>1. \A q \in D : Reads(p, q, g) = Even(q)
    BY <1>1 DEF Reads, Even
  <2>2. QED
    BY <2>1
<1>3. Is(f)
  BY <1>2
<1>4. ReadAt(p) = {q \in D : f[q]}
  BY DEF ReadAt, Reads, TextLen
<1> HIDE DEF f
<1>5. \A q \in D : f[q] = Reads(p, q, f)
  BY <1>3
<1> DEFINE T == {n \in Nat : \A q \in D : q <= p + n => (f[q] <=> Even(q))}
<1>6. 0 \in T
  <2>1. ASSUME NEW q \in D, q <= p + 0 PROVE f[q] <=> Even(q)
    <3>1. q = p /\ q \in Nat /\ p \in Nat
      BY <2>1, <1>0
    <3>2. Even(q)
      BY <3>1, EvenStep
    <3>3. Reads(p, q, f)
      BY <3>1 DEF Reads
    <3>4. QED
      BY <3>2, <3>3, <1>5
  <2>2. QED
    BY <2>1
<1>7. ASSUME NEW n \in Nat, n \in T PROVE n + 1 \in T
  <2>1. ASSUME NEW q \in D, q <= p + (n + 1) PROVE f[q] <=> Even(q)
    <3>1. q \in Nat /\ p \in Nat /\ p >= 2 /\ q >= p
      BY <1>0
    <3>2. /\ q > p => q - 1 \in D /\ q - 1 <= p + n
          /\ q > p + 1 => q - 2 \in D /\ q - 2 <= p + n
      BY <1>0, <2>1
    <3>3. /\ q > p => (f[q - 1] <=> Even(q - 1))
          /\ q > p + 1 => (f[q - 2] <=> Even(q - 2))
      BY <3>2, <1>7
    <3>4. Reads(p, q, f) <=> Even(q)
      BY <3>1, <3>3, EvenStep DEF Reads
    <3>5. QED
      BY <3>4, <1>5
  <2>2. QED
    BY <2>1
<1>8. \A n \in Nat : n \in T
  <2> HIDE DEF T
  <2>1. QED
    BY <1>6, <1>7, Induction
<1>9. ASSUME NEW q \in D PROVE f[q] <=> Even(q)
  <2>1. q - p \in Nat /\ q <= p + (q - p)
    BY <1>0
  <2>2. QED
    BY <1>8, <2>1
<1>10. QED
  BY <1>4, <1>9

-----------------------------------------------------------------------------
(* A token that is found at p.                                             *)

StringAt(from, to) ==
  /\ At(to) = At(from) /\ Even(to)
  /\ \A q \in (from + 1)..(to - 1) : At(q) = At(from) => Backslashes(q) % 2 = 1

Found(p, t) ==
  /\ t.to \in (p + 1)..(TextLen + 1)
  /\ t.next = IF t.type = "-" THEN t.to + 1 ELSE t.to
  /\ t.type = "=" => t.kind = IF setSeen THEN "assignment" ELSE "comparison"
  /\ t.kind = "keyword" <=> t.type \in Keyword
  /\ t.kind = "string" /\ t.type = "normal" => StringAt(p, t.to - 1)

(* Most tokens are of a type nothing else is said of. *)
LEMMA TokenFound ==
  ASSUME NEW p \in Nat, NEW to \in (p + 1)..(TextLen + 1), NEW kind, kind # "keyword",
         NEW type, type \notin {"-", "=", "normal"} \cup Keyword
  PROVE  Found(p, Token(kind, type, to))
<1> DEFINE t == Token(kind, type, to)
<1>1. t.kind = kind /\ t.type = type /\ t.to = to /\ t.next = to
  BY DEF Token
<1> HIDE DEF t
<1>2. Found(p, t)
  BY <1>1 DEF Found, Keyword
<1>3. QED
  BY <1>2 DEF t

LEMMA NumberFound ==
  ASSUME TextOK, NEW p \in 1..TextLen, At(p) \in Digit, ParseNumber(p) # Wrong
  PROVE  Found(p, ParseNumber(p)) /\ ParseNumber(p).type = "none" /\ ParseNumber(p).kind \in {"integer", "float"}
<1> DEFINE q == Leaves(p, Digit \cup {"."})
           points == Cardinality({i \in p..(q - 1) : At(i) = "."})
           kind == IF points = 1 THEN "float" ELSE "integer"
           back == IF At(q + 1) \in {"+", "-"} THEN q + 2 ELSE q + 1
           end == Leaves(back, Digit)
<1>1. TextLen \in Nat /\ "end" \notin Digit /\ "end" \notin Digit \cup {"."}
  BY TextIs DEF Digit
<1>2. q \in (p + 1)..(TextLen + 1)
  <2>1. p \in 1..(TextLen + 1) /\ At(p) \in Digit \cup {"."}
    BY <1>1
  <2>2. q \in p..(TextLen + 1) /\ q > p
    BY <1>1, <2>1, LeavesIs
  <2> HIDE DEF q
  <2>3. QED
    BY <1>1, <2>2
<1>3. kind \in {"integer", "float"}
  OBVIOUS
<1>4. ASSUME At(q) = "e" PROVE end \in (p + 1)..(TextLen + 1)
  <2>1. q <= TextLen /\ q \in Nat \ {0}
    BY <1>1, <1>2, <1>4, TextIs
  <2>2. At(q + 1) \in {"+", "-"} => q + 1 <= TextLen
    <3>1. q + 1 \in Nat \ {0} /\ (At(q + 1) = "end" <=> q + 1 > TextLen)
      BY <1>1, <2>1, TextIs
    <3>2. QED
      BY <1>1, <2>1, <3>1
  <2>3. back \in 1..(TextLen + 1) /\ back > p
    BY <1>1, <1>2, <2>1, <2>2
  <2> HIDE DEF back
  <2>4. end \in back..(TextLen + 1)
    BY <1>1, <2>3, LeavesIs
  <2> HIDE DEF end
  <2>5. QED
    BY <1>1, <2>3, <2>4
<1>5. \/ ParseNumber(p) = Token(kind, "none", q)
      \/ At(q) = "e" /\ ParseNumber(p) = Token(IF At(end) = "end" THEN kind ELSE "float", "none", end)
  BY DEF ParseNumber
<1>6. ASSUME NEW k \in {"integer", "float"}, NEW to \in (p + 1)..(TextLen + 1)
      PROVE  /\ Found(p, Token(k, "none", to))
             /\ Token(k, "none", to).type = "none" /\ Token(k, "none", to).kind = k
  <2>1. k # "keyword" /\ "none" \notin {"-", "=", "normal"} \cup Keyword /\ p \in Nat
    BY DEF Keyword
  <2>2. QED
    BY <2>1, TokenFound DEF Token
<1> HIDE DEF q, kind, end
<1>7. QED
  BY <1>2, <1>3, <1>4, <1>5, <1>6

LEMMA HexFound ==
  ASSUME TextOK, NEW p \in 1..TextLen, p + 1 <= TextLen, At(p + 1) \in Quote, ParseHexString(p + 1) # Wrong
  PROVE  Found(p, ParseHexString(p + 1))
<1> DEFINE q == Leaves((p + 1) + 1, Hex)
<1>1. TextLen \in Nat /\ "end" \notin Hex /\ (p + 1) + 1 \in 1..(TextLen + 1)
  BY TextIs DEF Hex, Digit
<1>2. q \in ((p + 1) + 1)..(TextLen + 1)
  BY <1>1, LeavesIs
<1>3. ParseHexString(p + 1) = Token("string", "hex", q + 1) /\ At(q) = At(p + 1)
  BY DEF ParseHexString
<1> HIDE DEF q
<1>4. q <= TextLen
  <2>1. q \in Nat \ {0} /\ p + 1 \in Nat \ {0} /\ At(p + 1) # "end"
    BY <1>1, <1>2, TextIs
  <2>2. QED
    BY <1>1, <1>3, <2>1, TextIs
<1>5. q + 1 \in (p + 1)..(TextLen + 1) /\ p \in Nat
  BY <1>1, <1>2, <1>4
<1>6. "hex" \notin {"-", "=", "normal"} \cup Keyword
  BY DEF Keyword
<1>7. QED
  BY <1>3, <1>5, <1>6, TokenFound

LEMMA BitsFound ==
  ASSUME TextOK, NEW p \in 1..TextLen, p + 1 <= TextLen, At(p + 1) \in Quote, ParseBitNum(p + 1) # Wrong
  PROVE  Found(p, ParseBitNum(p + 1))
<1> DEFINE q == Leaves((p + 1) + 1, Digit)
<1>1. TextLen \in Nat /\ "end" \notin Digit /\ (p + 1) + 1 \in 1..(TextLen + 1)
  BY TextIs DEF Digit
<1>2. q \in ((p + 1) + 1)..(TextLen + 1)
  BY <1>1, LeavesIs
<1>3. ParseBitNum(p + 1) = Token("integer", "bits", q + 1) /\ At(q) = At(p + 1)
  BY DEF ParseBitNum
<1> HIDE DEF q
<1>4. q <= TextLen
  <2>1. q \in Nat \ {0} /\ p + 1 \in Nat \ {0} /\ At(p + 1) # "end"
    BY <1>1, <1>2, TextIs
  <2>2. QED
    BY <1>1, <1>3, <2>1, TextIs
<1>5. q + 1 \in (p + 1)..(TextLen + 1) /\ p \in Nat
  BY <1>1, <1>2, <1>4
<1>6. "bits" \notin {"-", "=", "normal"} \cup Keyword
  BY DEF Keyword
<1>7. QED
  BY <1>3, <1>5, <1>6, TokenFound

LEMMA HexNumberFound ==
  ASSUME TextOK, NEW p \in 1..TextLen, p + 1 <= TextLen, ParseHexString2(p + 2) # Wrong
  PROVE  Found(p, ParseHexString2(p + 2))
<1> DEFINE q == Leaves(p + 2, Hex)
<1>1. TextLen \in Nat /\ "end" \notin Hex /\ p + 2 \in 1..(TextLen + 1)
  BY TextIs DEF Hex, Digit
<1>2. q \in (p + 2)..(TextLen + 1)
  BY <1>1, LeavesIs
<1>3. ParseHexString2(p + 2) = Token("string", "hex", q)
  BY DEF ParseHexString2
<1> HIDE DEF q
<1>5. q \in (p + 1)..(TextLen + 1) /\ p \in Nat
  BY <1>1, <1>2
<1>6. "hex" \notin {"-", "=", "normal"} \cup Keyword
  BY DEF Keyword
<1>7. QED
  BY <1>3, <1>5, <1>6, TokenFound

(* A string ends at the first of its delimiters that is read. *)
LEMMA StringFound ==
  ASSUME TextOK, NEW p \in 1..TextLen, At(p) \in Quote, ParseString(p) # Wrong
  PROVE  Found(p, ParseString(p))
<1> DEFINE ends == {q \in ReadAt(p + 1) : At(q) \in {At(p), "end"}
                                          \/ (At(q) = "\\" /\ At(q + 1) \notin Escaped)}
           q == Min(ends)
           t == ParseString(p)
<1>1. TextLen \in Nat /\ p + 1 \in 2..(TextLen + 1) /\ At((p + 1) - 1) # "\\" /\ At(p) # "end"
  <2>1. TextLen \in Nat /\ p \in Nat \ {0} /\ (p + 1) - 1 = p /\ At(p) # "end"
    BY TextIs
  <2>2. At(p) # "\\"
    BY DEF Quote
  <2>3. QED
    BY <2>1, <2>2
<1>2. ReadAt(p + 1) = {i \in (p + 1)..(TextLen + 1) : Even(i)}
  BY <1>1, ReadAtIs
<1>3. ends # {} /\ At(q) = At(p) /\ t = Token("string", "normal", q + 1)
  BY DEF ParseString
<1>4. ends \in SUBSET Nat
  BY <1>1, <1>2
<1>5. q \in ends /\ \A i \in ends : q <= i
  BY <1>3, <1>4, MinIs
<1>6. q \in (p + 1)..(TextLen + 1) /\ Even(q)
  BY <1>2, <1>5
<1>7. \A i \in (p + 1)..(q - 1) : At(i) = At(p) => ~Even(i)
  <2>1. ASSUME NEW i \in (p + 1)..(q - 1), At(i) = At(p), Even(i) PROVE FALSE
    <3> HIDE DEF q
    <3>1. i \in (p + 1)..(TextLen + 1) /\ i < q /\ i \in Nat /\ q \in Nat
      BY <1>1, <1>6
    <3>2. i \in ends
      BY <1>2, <2>1, <3>1
    <3> HIDE DEF ends
    <3>3. q <= i
      BY <1>5, <3>2
    <3>4. QED
      BY <3>1, <3>3
  <2>2. QED
    BY <2>1
<1> HIDE DEF ends, q, t
<1>8. q <= TextLen
  <2>1. q \in Nat \ {0}
    BY <1>1, <1>6
  <2>2. QED
    BY <1>1, <1>3, <2>1, TextIs
<1>9. ASSUME NEW i \in (p + 1)..(q - 1), At(i) = At(p) PROVE Backslashes(i) % 2 = 1
  <2>1. i \in Nat /\ i >= 2
    BY <1>1, <1>6
  <2>2. Backslashes(i) \in Nat /\ Backslashes(i) % 2 # 0
    BY <1>7, <1>9, <2>1, BackslashesAre DEF Even
  <2>3. QED
    BY <2>2
<1>10. StringAt(p, q)
  BY <1>3, <1>6, <1>9 DEF StringAt
<1>11. t.kind = "string" /\ t.type = "normal" /\ t.to = q + 1 /\ t.next = q + 1
  BY <1>3 DEF Token
<1>12. q + 1 \in (p + 1)..(TextLen + 1) /\ t.to - 1 = q
  BY <1>1, <1>6, <1>8, <1>11
<1>13. Found(p, t)
  BY <1>10, <1>11, <1>12 DEF Found, Keyword
<1>14. QED
  BY <1>13 DEF t

LEMMA WordFound ==
  ASSUME TextOK, NEW p \in 1..TextLen, At(p) \in Alpha
  PROVE  Found(p, ParseWord(p))
<1> DEFINE q == Leaves(p, Alpha \cup Digit)
           word == IF q = p + 1 THEN At(p) ELSE "other"
           t == ParseWord(p)
<1>1. TextLen \in Nat /\ "end" \notin Alpha \cup Digit /\ p \in 1..(TextLen + 1)
  BY TextIs DEF Alpha, Digit, Keyword, Aggregate
<1>2. q \in p..(TextLen + 1) /\ q > p
  BY <1>1, LeavesIs
<1>3. t = IF word \in Keyword THEN Token("keyword", word, q)
          ELSE IF word \in Aggregate THEN Token("aggregate", word, q)
          ELSE Token("name", "none", q)
  BY DEF ParseWord
<1> HIDE DEF q, word, t
<1>4. q \in (p + 1)..(TextLen + 1) /\ p \in Nat
  BY <1>1, <1>2
<1>5. CASE word \in Keyword
  <2>1. t.kind = "keyword" /\ t.type = word /\ t.to = q /\ t.next = q
    BY <1>3, <1>5 DEF Token
  <2>2. word # "-" /\ word # "="
    BY <1>5 DEF Keyword
  <2>3. Found(p, t)
    BY <1>4, <1>5, <2>1, <2>2 DEF Found
  <2>4. QED
    BY <2>3 DEF t
<1>6. CASE word \notin Keyword
  <2>1. "none" \notin {"-", "=", "normal"} \cup Keyword
    BY DEF Keyword
  <2>2. word \in Aggregate => word \notin {"-", "=", "normal"} \cup Keyword
    BY <1>6 DEF Aggregate
  <2>3. Found(p, t)
    BY <1>3, <1>4, <1>6, <2>1, <2>2, TokenFound
  <2>4. QED
    BY <2>3 DEF t
<1>7. QED
  BY <1>5, <1>6

LEMMA ComparisonFound ==
  ASSUME TextOK, NEW p \in 1..TextLen, At(p) \in {"!", ">", "<"}
  PROVE  Found(p, ParseComparison(p))
<1> DEFINE q == IF At(p + 1) = "=" THEN p + 2 ELSE p + 1
<1>1. TextLen \in Nat
  BY TextIs
<1>2. q \in (p + 1)..(TextLen + 1) /\ p \in Nat
  <2>1. p + 1 \in Nat \ {0} /\ (At(p + 1) = "end" <=> p + 1 > TextLen)
    BY <1>1, TextIs
  <2>2. QED
    BY <1>1, <2>1
<1>3. At(q) = ">" => q + 1 \in (p + 1)..(TextLen + 1)
  <2> HIDE DEF q
  <2>1. q \in Nat \ {0} /\ (At(q) = "end" <=> q > TextLen)
    BY <1>1, <1>2, TextIs
  <2>2. QED
    BY <1>1, <1>2, <2>1
<1>4. \E kind \in {"comparison", "logical"}, type \in {"<>", "!", ">=", ">", "<"} :
        \/ ParseComparison(p) = Token(kind, type, q)
        \/ At(q) = ">" /\ ParseComparison(p) = Token(kind, type, q + 1)
  BY DEF ParseComparison
<1> HIDE DEF q
<1>5. \A type \in {"<>", "!", ">=", ">", "<"} : type \notin {"-", "=", "normal"} \cup Keyword
  BY DEF Keyword
<1>6. \A kind \in {"comparison", "logical"} : kind # "keyword"
  OBVIOUS
<1>7. QED
  BY <1>2, <1>3, <1>4, <1>5, <1>6, TokenFound

LEMMA DoubleFound ==
  ASSUME TextOK, NEW p \in 1..TextLen, At(p) \in {"&", "|"}
  PROVE  Found(p, ParseDouble(p))
<1>1. TextLen \in Nat
  BY TextIs
<1>2. p + 1 \in (p + 1)..(TextLen + 1) /\ p \in Nat /\ (At(p + 1) = At(p) => p + 2 \in (p + 1)..(TextLen + 1))
  <2>1. p + 1 \in Nat \ {0} /\ (At(p + 1) = "end" <=> p + 1 > TextLen)
    BY <1>1, TextIs
  <2>2. QED
    BY <1>1, <2>1
<1>3. At(p) \notin {"-", "=", "normal"} \cup Keyword
  BY DEF Keyword
<1>4. QED
  BY <1>2, <1>3, TokenFound DEF ParseDouble

(* A minus that is an operator is the one token behind which a piece of    *)
(* the text is skipped.                                                    *)
LEMMA MinusFound ==
  ASSUME TextOK, NEW p \in 1..TextLen, ParseMinus(p) # Wrong
  PROVE  Found(p, ParseMinus(p))
<1>1. TextLen \in Nat
  BY TextIs
<1>2. CASE ParseMinus(p) = ParseNumber(p + 1) /\ At(p + 1) \in Digit
  <2> DEFINE t == ParseNumber(p + 1)
  <2>1. p + 1 \in 1..TextLen
    <3>1. p + 1 \in Nat \ {0} /\ (At(p + 1) = "end" <=> p + 1 > TextLen)
      BY <1>1, TextIs
    <3>2. QED
      BY <1>1, <1>2, <3>1 DEF Digit
  <2>2. Found(p + 1, t) /\ t.type = "none" /\ t.kind \in {"integer", "float"}
    BY <1>2, <2>1, NumberFound
  <2> HIDE DEF t
  <2>3. t.to \in (p + 1)..(TextLen + 1)
    BY <1>1, <2>2 DEF Found
  <2>4. Found(p, t)
    BY <2>2, <2>3 DEF Found, Keyword
  <2>5. QED
    BY <1>2, <2>4 DEF t
<1>3. CASE ParseMinus(p) = [Token("numeric", "-", p + 1) EXCEPT !.next = p + 2]
  <2> DEFINE t == [Token("numeric", "-", p + 1) EXCEPT !.next = p + 2]
  <2>1. t.kind = "numeric" /\ t.type = "-" /\ t.to = p + 1 /\ t.next = p + 2
    BY DEF Token
  <2> HIDE DEF t
  <2>2. p + 1 \in (p + 1)..(TextLen + 1) /\ (p + 1) + 1 = p + 2
    BY <1>1
  <2>3. Found(p, t)
    BY <2>1, <2>2 DEF Found, Keyword
  <2>4. QED
    BY <1>3, <2>3 DEF t
<1>4. QED
  BY <1>2, <1>3 DEF ParseMinus

(* Every token that is parsed is found, and there is none at the end. *)
LEMMA ParsedFound ==
  ASSUME TextOK, NEW p \in 1..(TextLen + 1), Parsed(p) # Wrong
  PROVE  p <= TextLen /\ Found(p, Parsed(p))
<1> DEFINE Sym == At(p) \in Symbol
           Point == At(p) = "."
           Equal == At(p) = "="
           Compares == At(p) \in {"!", ">", "<"}
           Oper == At(p) \in Operator
           Hyphen == At(p) = "-"
           Double == At(p) \in {"&", "|"}
           Quotes == At(p) \in Quote
           Letter == At(p) \in Alpha
           Number == At(p) \in Digit
<1>0. /\ Sym => ~Point /\ ~Equal /\ ~Compares /\ ~Oper /\ ~Hyphen /\ ~Double /\ ~Quotes /\ ~Letter /\ ~Number
      /\ Point => ~Equal /\ ~Compares /\ ~Oper /\ ~Hyphen /\ ~Double /\ ~Quotes /\ ~Letter /\ ~Number
      /\ Equal => ~Compares /\ ~Oper /\ ~Hyphen /\ ~Double /\ ~Quotes /\ ~Letter /\ ~Number
      /\ Compares => ~Oper /\ ~Hyphen /\ ~Double /\ ~Quotes /\ ~Letter /\ ~Number
      /\ Oper => ~Hyphen /\ ~Double /\ ~Quotes /\ ~Letter /\ ~Number
      /\ Hyphen => ~Double /\ ~Quotes /\ ~Letter /\ ~Number
      /\ Double => ~Quotes /\ ~Letter /\ ~Number
      /\ Quotes => ~Letter /\ ~Number
      /\ Letter => ~Number
      /\ (At(p) = "x" => Letter) /\ (At(p) = "b" => Letter) /\ (At(p) = "0" => Number)
  BY DEF Symbol, Operator, Quote, Alpha, Keyword, Aggregate, Digit
<1>1. TextLen \in Nat /\ p \in Nat \ {0} /\ (At(p) = "end" <=> p > TextLen)
  BY TextIs
<1>2. p \in 1..TextLen
  <2>1. ASSUME At(p) = "end" PROVE Parsed(p) = Wrong
    BY <2>1 DEF Parsed, Symbol, Operator, Quote, Alpha, Keyword, Aggregate, Digit
  <2>2. QED
    BY <1>1, <2>1
<1>3. p + 1 \in (p + 1)..(TextLen + 1) /\ p + 1 \in Nat \ {0} /\ (At(p + 1) = "end" <=> p + 1 > TextLen)
  BY <1>1, <1>2, TextIs
<1>4. ASSUME At(p + 1) \in Quote \cup {"x"} PROVE p + 1 <= TextLen
  <2>1. At(p + 1) # "end"
    BY <1>4 DEF Quote
  <2>2. QED
    BY <1>1, <1>3, <2>1
<1>5. CASE At(p) \in Symbol
  <2>1. Parsed(p) = Token("symbol", At(p), p + 1)
    BY <1>0, <1>5 DEF Parsed
  <2>2. At(p) \notin {"-", "=", "normal"} \cup Keyword
    BY <1>5 DEF Symbol, Keyword
  <2>3. QED
    BY <1>2, <1>3, <2>1, <2>2, TokenFound
<1>6. CASE At(p) = "."
  <2>1. Parsed(p) = Token("point", "none", p + 1)
    BY <1>0, <1>6 DEF Parsed
  <2>2. "none" \notin {"-", "=", "normal"} \cup Keyword
    BY DEF Keyword
  <2>3. QED
    BY <1>2, <1>3, <2>1, <2>2, TokenFound
<1>7. CASE At(p) = "="
  <2> DEFINE t == Token(IF setSeen THEN "assignment" ELSE "comparison", "=", p + 1)
  <2>1. Parsed(p) = t
    BY <1>0, <1>7 DEF Parsed
  <2>2. /\ t.kind = IF setSeen THEN "assignment" ELSE "comparison"
        /\ t.type = "=" /\ t.to = p + 1 /\ t.next = p + 1
    BY DEF Token
  <2> HIDE DEF t
  <2>3. Found(p, t)
    BY <1>3, <2>2 DEF Found, Keyword
  <2>4. QED
    BY <1>2, <2>1, <2>3
<1>8. CASE At(p) \in {"!", ">", "<"}
  <2>1. Parsed(p) = ParseComparison(p)
    BY <1>0, <1>8 DEF Parsed
  <2>2. QED
    BY <1>2, <1>8, <2>1, ComparisonFound
<1>9. CASE At(p) \in Operator
  <2>1. Parsed(p) = Token("numeric", At(p), p + 1)
    BY <1>0, <1>9 DEF Parsed
  <2>2. At(p) \notin {"-", "=", "normal"} \cup Keyword
    BY <1>9 DEF Operator, Keyword
  <2>3. QED
    BY <1>2, <1>3, <2>1, <2>2, TokenFound
<1>10. CASE At(p) = "-"
  <2>1. Parsed(p) = ParseMinus(p)
    BY <1>0, <1>10 DEF Parsed
  <2>2. QED
    BY <1>2, <2>1, MinusFound
<1>11. CASE At(p) \in {"&", "|"}
  <2>1. Parsed(p) = ParseDouble(p)
    BY <1>0, <1>11 DEF Parsed
  <2>2. QED
    BY <1>2, <1>11, <2>1, DoubleFound
<1>12. CASE At(p) \in Quote
  <2>1. Parsed(p) = ParseString(p)
    BY <1>0, <1>12 DEF Parsed
  <2>2. QED
    BY <1>2, <1>12, <2>1, StringFound
<1>13. CASE At(p) \in Alpha \/ At(p) \in Digit
  <2>1. ~Sym /\ ~Point /\ ~Equal /\ ~Compares /\ ~Oper /\ ~Hyphen /\ ~Double /\ ~Quotes
    BY <1>0, <1>13
  <2>3. Parsed(p) =
          CASE At(p) = "x" /\ At(p + 1) \in Quote -> ParseHexString(p + 1)
            [] At(p) = "0" /\ At(p + 1) = "x" -> ParseHexString2(p + 2)
            [] At(p) = "b" /\ At(p + 1) \in Quote -> ParseBitNum(p + 1)
            [] At(p) \in Alpha \ {"x", "b"} \/ (At(p) \in {"x", "b"} /\ At(p + 1) \notin Quote) -> ParseWord(p)
            [] At(p) \in Digit /\ ~(At(p) = "0" /\ At(p + 1) = "x") -> ParseNumber(p)
            [] OTHER -> Wrong
    BY <2>1 DEF Parsed
  <2>4. CASE At(p) = "x" /\ At(p + 1) \in Quote
    <3>1. Parsed(p) = ParseHexString(p + 1)
      BY <1>0, <2>3, <2>4
    <3>2. QED
      BY <1>2, <1>4, <2>4, <3>1, HexFound
  <2>5. CASE At(p) = "0" /\ At(p + 1) = "x"
    <3>1. Parsed(p) = ParseHexString2(p + 2)
      BY <1>0, <2>3, <2>5
    <3>2. QED
      BY <1>2, <1>4, <2>5, <3>1, HexNumberFound
  <2>6. CASE At(p) = "b" /\ At(p + 1) \in Quote
    <3>1. Parsed(p) = ParseBitNum(p + 1)
      BY <1>0, <2>3, <2>6
    <3>2. QED
      BY <1>2, <1>4, <2>6, <3>1, BitsFound
  <2>7. CASE At(p) \in Alpha \ {"x", "b"} \/ (At(p) \in {"x", "b"} /\ At(p + 1) \notin Quote)
    <3>1. At(p) \in Alpha
      BY <2>7 DEF Alpha
    <3>3. Parsed(p) = ParseWord(p)
      BY <1>0, <2>3, <2>7, <3>1
    <3>4. QED
      BY <1>2, <3>1, <3>3, WordFound
  <2>8. CASE At(p) \in Digit /\ ~(At(p) = "0" /\ At(p + 1) = "x")
    <3>2. Parsed(p) = ParseNumber(p)
      BY <1>0, <2>3, <2>8
    <3>3. QED
      BY <1>2, <2>8, <3>2, NumberFound
  <2>9. QED
    BY <1>13, <2>4, <2>5, <2>6, <2>7, <2>8
<1>14. ASSUME ~Sym, ~Point, ~Equal, ~Compares, ~Oper, ~Hyphen, ~Double, ~Quotes, ~Letter, ~Number
       PROVE  FALSE
  <2>2. Parsed(p) = Wrong
    BY <1>0, <1>14 DEF Parsed
  <2>3. QED
    BY <2>2
<1>15. QED
  BY <1>5, <1>6, <1>7, <1>8, <1>9, <1>10, <1>11, <1>12, <1>13, <1>14

-----------------------------------------------------------------------------
(* The invariant.                                                          *)

(* The tokens so far are behind one another and behind p, and a minus that *)
(* swallowed a piece is behind that piece.                                 *)
TokensInv ==
  /\ \E S : tokens \in Seq(S)
  /\ \A i \in DOMAIN tokens :
       /\ tokens[i].from \in 1..TextLen /\ tokens[i].to \in (tokens[i].from + 1)..(TextLen + 1)
       /\ tokens[i].to <= at /\ (tokens[i].type = "-" => tokens[i].to < at)
       /\ i > 1 => tokens[i - 1].to <= tokens[i].from
       /\ tokens[i].kind = "keyword" <=> tokens[i].type \in Keyword

PlaceInv ==
  /\ at \in 1..(TextLen + 2) /\ line \in 1..(TextLen + 1) /\ line <= at /\ setSeen \in BOOLEAN
  /\ status \in {"lexing", "done", "error", "overrun"}
  /\ status = "overrun" <=> at > TextLen + 1
  /\ status = "lexing" => at <= TextLen
  /\ status = "overrun" => tokens # <<>> /\ Last(tokens).type = "-"

(* The lines that end between tokens in front of p. *)
LineEnds(p) == {q \in 1..(p - 1) : At(q) = "\n" /\ q \notin Covered \cup Swallowed}

(* The last keyword of the first n tokens is SET. *)
SetBefore(n) ==
  LET before == {j \in 1..n : tokens[j].kind = "keyword"}
  IN  before # {} /\ tokens[Max(before)].type = "set"

LexInv ==
  /\ TextOK /\ PlaceInv /\ TokensInv
  /\ OnlyWhiteIsSkipped
  /\ LinesAreCounted /\ line = 1 + Cardinality(LineEnds(at))
  /\ EqualsByKeyword /\ (setSeen <=> SetBefore(Len(tokens)))
  /\ StringsEndAtQuote

-----------------------------------------------------------------------------
(* What a step does.  White space is skipped, ...                          *)
BehindWhite(p) == p \in at..TextLen /\ \A q \in at..(p - 1) : At(q) \in White

(* ... and the end of a line or a token is taken.                          *)
TakesLine(p) ==
  /\ BehindWhite(p) /\ At(p) = "\n"
  /\ line' = line + 1 /\ at' = p + 1 /\ Reached(p + 1) /\ UNCHANGED <<text, setSeen, tokens>>

Takes(p, t) ==
  /\ BehindWhite(p) /\ Found(p, t)
  /\ tokens' = Append(tokens, [kind |-> t.kind, type |-> t.type, from |-> p, to |-> t.to, line |-> line])
  /\ at' = t.next /\ Reached(t.next) /\ setSeen' = Sees(t) /\ UNCHANGED <<text, line>>

LEMMA StepCases ==
  ASSUME TextOK, PlaceInv, LexNext
  PROVE  \/ \E p : TakesLine(p)
         \/ \E p, t : Takes(p, t)
         \/ status' = "error" /\ UNCHANGED <<text, at, line, setSeen, tokens>>
<1> DEFINE p == Skip(at)
<1>1. TextLen \in Nat /\ at \in 1..TextLen /\ "end" \notin White
  BY TextIs DEF LexNext, NextLine, NextToken, PlaceInv, White
<1>2. p \in at..(TextLen + 1) /\ \A q \in at..(p - 1) : At(q) \in White
  <2>1. at \in 1..(TextLen + 1)
    BY <1>1
  <2>2. QED
    BY <1>1, <2>1, LeavesIs DEF Skip
<1> HIDE DEF p
<1>3. p \in 1..(TextLen + 1) /\ p \in Nat \ {0} /\ (At(p) = "end" <=> p > TextLen)
  BY <1>1, <1>2, TextIs
<1>4. CASE NextLine
  <2>1. At(p) = "\n" /\ at' = p + 1 /\ Reached(p + 1)
    BY <1>4 DEF NextLine, p
  <2>2. At(p) # "end"
    BY <2>1
  <2>3. BehindWhite(p)
    BY <1>1, <1>2, <1>3, <2>2 DEF BehindWhite
  <2>4. TakesLine(p)
    BY <1>4, <2>1, <2>3 DEF NextLine, TakesLine
  <2>5. QED
    BY <2>4
<1>5. CASE NextToken
  <2> DEFINE t == Parsed(p)
  <2>1. UNCHANGED <<text, line>>
    BY <1>5 DEF NextToken
  <2>2. CASE t = Wrong
    <3>1. status' = "error" /\ UNCHANGED <<at, setSeen, tokens>>
      BY <1>5, <2>2 DEF NextToken, p
    <3>2. QED
      BY <2>1, <3>1
  <2>3. CASE t # Wrong
    <3>1. p <= TextLen /\ Found(p, t)
      BY <1>3, <2>3, ParsedFound
    <3>2. /\ tokens' = Append(tokens, [kind |-> t.kind, type |-> t.type, from |-> p, to |-> t.to, line |-> line])
          /\ at' = t.next /\ Reached(t.next) /\ setSeen' = Sees(t)
      BY <1>5, <2>3 DEF NextToken, p
    <3> HIDE DEF t
    <3>3. BehindWhite(p)
      BY <1>1, <1>2, <1>3, <3>1 DEF BehindWhite
    <3>4. Takes(p, t)
      BY <2>1, <3>1, <3>2, <3>3 DEF Takes
    <3>5. QED
      BY <3>4
  <2>4. QED
    BY <2>2, <2>3
<1>6. QED
  BY <1>4, <1>5 DEF LexNext

(* The text stays, and with it what is defined by the text alone. *)
LEMMA TextStays ==
  ASSUME UNCHANGED text
  PROVE  /\ TextOK => TextOK'
         /\ TextLen' = TextLen
         /\ \A q : At(q)' = At(q)
         /\ \A q : Backslashes(q)' = Backslashes(q)
<1>1. \A q : At(q)' = At(q)
  BY DEF At
<1>2. \A q : Backslashes(q)' = Backslashes(q)
  BY <1>1 DEF Backslashes, At
<1>3. QED
  BY <1>1, <1>2 DEF TextOK, TextLen

(* A token is added behind the others. *)
LEMMA TokenAdded ==
  ASSUME TokensInv, NEW p, NEW t, Takes(p, t)
  PROVE  /\ Len(tokens) \in Nat /\ DOMAIN tokens = 1..Len(tokens)
         /\ Len(tokens') = Len(tokens) + 1 /\ DOMAIN tokens' = 1..(Len(tokens) + 1)
         /\ \A i \in 1..Len(tokens) : tokens'[i] = tokens[i]
         /\ tokens'[Len(tokens) + 1] =
              [kind |-> t.kind, type |-> t.type, from |-> p, to |-> t.to, line |-> line]
         /\ tokens' # <<>> /\ Last(tokens') = tokens'[Len(tokens) + 1]
         /\ \E S : tokens' \in Seq(S)
<1> DEFINE new == [kind |-> t.kind, type |-> t.type, from |-> p, to |-> t.to, line |-> line]
           n == Len(tokens)
<1>1. PICK S : tokens \in Seq(S)
  BY DEF TokensInv
<1>2. tokens \in Seq(S \cup {new}) /\ tokens' = Append(tokens, new)
  BY <1>1 DEF Takes
<1> HIDE DEF new
<1>3. /\ tokens' \in Seq(S \cup {new}) /\ Len(tokens') = n + 1
      /\ \A i \in 1..n : tokens'[i] = tokens[i]
      /\ tokens'[n + 1] = new
  <2>1. new \in S \cup {new}
    OBVIOUS
  <2>2. QED
    BY <1>2, <2>1, AppendProperties
<1>4. n \in Nat /\ DOMAIN tokens = 1..n /\ DOMAIN tokens' = 1..(n + 1)
  BY <1>2, <1>3, LenProperties
<1>5. tokens' # <<>>
  BY <1>3, <1>4, EmptySeq
<1>6. Last(tokens') = tokens'[n + 1]
  BY <1>3 DEF Last
<1>7. QED
  BY <1>3, <1>4, <1>5, <1>6 DEF new

LEMMA PlaceKept == ASSUME TextOK, PlaceInv, TokensInv, LexNext PROVE PlaceInv'
<1>1. TextLen \in Nat /\ status = "lexing" /\ at \in 1..TextLen /\ line \in 1..(TextLen + 1) /\ line <= at
  BY TextIs DEF LexNext, NextLine, NextToken, PlaceInv
<1>2. ASSUME NEW p, TakesLine(p) PROVE PlaceInv'
  <2>1. p \in at..TextLen /\ at' = p + 1 /\ line' = line + 1 /\ TextLen' = TextLen /\ setSeen' = setSeen
    BY <1>2, TextStays DEF TakesLine, BehindWhite
  <2>2. status' = IF p + 1 = TextLen + 1 THEN "done" ELSE "lexing"
    BY <1>1, <1>2, <2>1 DEF TakesLine, Reached, TextLen
  <2>3. at' \in 1..(TextLen + 1) /\ line' \in 1..(TextLen + 1) /\ line' <= at'
    BY <1>1, <2>1
  <2>4. /\ status' \in {"lexing", "done"} /\ status' # "overrun"
        /\ ~(at' > TextLen + 1) /\ (status' = "lexing" => at' <= TextLen)
    BY <1>1, <2>1, <2>2, <2>3
  <2>5. QED
    BY <1>1, <2>1, <2>3, <2>4 DEF PlaceInv
<1>3. ASSUME NEW p, NEW t, Takes(p, t) PROVE PlaceInv'
  <2>1. p \in at..TextLen /\ at' = t.next /\ line' = line /\ TextLen' = TextLen
    BY <1>3, TextStays DEF Takes, BehindWhite
  <2>2. t.to \in (p + 1)..(TextLen + 1) /\ t.next = IF t.type = "-" THEN t.to + 1 ELSE t.to
    BY <1>3 DEF Takes, Found
  <2>3. status' = IF t.next > TextLen + 1 THEN "overrun" ELSE IF t.next = TextLen + 1 THEN "done" ELSE "lexing"
    BY <1>3 DEF Takes, Reached, TextLen
  <2>4. /\ tokens' # <<>> /\ Last(tokens').type = t.type
    <3>1. Last(tokens') = [kind |-> t.kind, type |-> t.type, from |-> p, to |-> t.to, line |-> line]
      BY <1>3, TokenAdded
    <3>2. QED
      BY <1>3, <3>1, TokenAdded
  <2>5. setSeen' \in BOOLEAN
    BY <1>3 DEF Takes, Sees, PlaceInv
  <2>6. at' \in 1..(TextLen + 2) /\ line' \in 1..(TextLen + 1) /\ line' <= at'
    BY <1>1, <2>1, <2>2
  <2>7. /\ status' \in {"lexing", "done", "error", "overrun"}
        /\ status' = "overrun" <=> at' > TextLen + 1
        /\ status' = "lexing" => at' <= TextLen
    BY <1>1, <2>1, <2>3, <2>6
  <2>8. status' = "overrun" => t.type = "-"
    BY <1>1, <2>1, <2>2, <2>7
  <2>9. QED
    BY <2>1, <2>4, <2>5, <2>6, <2>7, <2>8 DEF PlaceInv
<1>4. ASSUME status' = "error", UNCHANGED <<text, at, line, setSeen, tokens>> PROVE PlaceInv'
  BY <1>1, <1>4, TextStays DEF PlaceInv
<1>5. QED
  BY <1>2, <1>3, <1>4, StepCases

LEMMA TokensKept == ASSUME TextOK, PlaceInv, TokensInv, LexNext PROVE TokensInv'
<1>1. TextLen \in Nat /\ at \in 1..TextLen
  BY TextIs DEF LexNext, NextLine, NextToken, PlaceInv
<1>2. ASSUME NEW p, TakesLine(p) PROVE TokensInv'
  <2>1. p \in at..TextLen /\ at' = p + 1 /\ TextLen' = TextLen /\ tokens' = tokens
    BY <1>2, TextStays DEF TakesLine, BehindWhite
  <2>2. at' > at
    BY <1>1, <2>1
  <2>3. \A i \in DOMAIN tokens : tokens[i].to \in Int /\ tokens[i].to <= at
    BY <1>1 DEF TokensInv
  <2>4. \A i \in DOMAIN tokens : tokens[i].to < at'
    BY <1>1, <2>1, <2>3
  <2>5. \A i \in DOMAIN tokens : tokens[i].to <= at'
    BY <1>1, <2>1, <2>3
  <2>6. QED
    BY <2>1, <2>4, <2>5 DEF TokensInv
<1>3. ASSUME NEW p, NEW t, Takes(p, t) PROVE TokensInv'
  <2> DEFINE n == Len(tokens)
  <2>1. p \in at..TextLen /\ at' = t.next /\ TextLen' = TextLen
    BY <1>3, TextStays DEF Takes, BehindWhite
  <2>2. /\ t.to \in (p + 1)..(TextLen + 1) /\ t.next = IF t.type = "-" THEN t.to + 1 ELSE t.to
        /\ t.kind = "keyword" <=> t.type \in Keyword
    BY <1>3 DEF Takes, Found
  <2>3. /\ n \in Nat /\ DOMAIN tokens = 1..n /\ DOMAIN tokens' = 1..(n + 1)
        /\ \A i \in 1..n : tokens'[i] = tokens[i]
        /\ tokens'[n + 1] = [kind |-> t.kind, type |-> t.type, from |-> p, to |-> t.to, line |-> line]
        /\ \E S : tokens' \in Seq(S)
    BY <1>3, TokenAdded
  <2> HIDE DEF n
  <2>4. ASSUME NEW i \in 1..n
        PROVE  /\ tokens'[i].from \in 1..TextLen /\ tokens'[i].to \in (tokens'[i].from + 1)..(TextLen + 1)
               /\ tokens'[i].to <= at /\ tokens'[i].to <= at' /\ tokens'[i].to < at'
               /\ i > 1 => tokens'[i - 1].to <= tokens'[i].from
               /\ tokens'[i].kind = "keyword" <=> tokens'[i].type \in Keyword
    <3>1. /\ tokens[i].from \in 1..TextLen /\ tokens[i].to \in (tokens[i].from + 1)..(TextLen + 1)
          /\ tokens[i].to <= at
          /\ i > 1 => tokens[i - 1].to <= tokens[i].from
          /\ tokens[i].kind = "keyword" <=> tokens[i].type \in Keyword
      BY <2>3 DEF TokensInv
    <3>2. i > 1 => i - 1 \in 1..n
      BY <2>3
    <3>3. at < at' /\ at \in Int /\ at' \in Int /\ tokens[i].to \in Int
      BY <1>1, <2>1, <2>2, <3>1
    <3>4. tokens'[i] = tokens[i] /\ (i > 1 => tokens'[i - 1] = tokens[i - 1])
      BY <2>3, <3>2
    <3>5. tokens[i].to < at' /\ tokens[i].to <= at'
      BY <3>1, <3>3
    <3>6. QED
      BY <3>1, <3>4, <3>5
  <2> DEFINE new == tokens'[n + 1]
  <2>5. new.kind = t.kind /\ new.type = t.type /\ new.from = p /\ new.to = t.to
    BY <2>3
  <2>6. /\ new.from \in 1..TextLen /\ new.to \in (new.from + 1)..(TextLen + 1)
        /\ new.to <= at' /\ (new.type = "-" => new.to < at')
        /\ new.kind = "keyword" <=> new.type \in Keyword
    BY <1>1, <2>1, <2>2, <2>5
  <2>7. n + 1 > 1 => tokens'[(n + 1) - 1].to <= new.from
    <3>1. ASSUME n + 1 > 1 PROVE tokens'[n].to <= p
      <4>1. n \in 1..n
        BY <2>3, <3>1
      <4>2. tokens'[n].to <= at /\ tokens'[n].to \in Int
        BY <1>1, <2>4, <4>1
      <4>3. QED
        BY <1>1, <2>1, <4>2
    <3>2. (n + 1) - 1 = n
      BY <2>3
    <3>3. QED
      BY <2>5, <3>1, <3>2
  <2> HIDE DEF new
  <2>8. ASSUME NEW i \in DOMAIN tokens'
        PROVE  /\ tokens'[i].from \in 1..TextLen' /\ tokens'[i].to \in (tokens'[i].from + 1)..(TextLen' + 1)
               /\ tokens'[i].to <= at' /\ (tokens'[i].type = "-" => tokens'[i].to < at')
               /\ i > 1 => tokens'[i - 1].to <= tokens'[i].from
               /\ tokens'[i].kind = "keyword" <=> tokens'[i].type \in Keyword
    <3>1. CASE i \in 1..n
      BY <2>1, <2>4, <3>1
    <3>2. CASE i = n + 1
      BY <2>1, <2>6, <2>7, <3>2 DEF new
    <3>3. QED
      BY <2>3, <3>1, <3>2
  <2>9. QED
    BY <2>3, <2>8 DEF TokensInv
<1>4. ASSUME UNCHANGED <<text, at, tokens>> PROVE TokensInv'
  BY <1>4, TextStays DEF TokensInv
<1>5. QED
  BY <1>2, <1>3, <1>4, StepCases

-----------------------------------------------------------------------------
(* What tokens cover, and what a minus swallows.                           *)
LEMMA CoveredAre ==
  ASSUME TextOK, PlaceInv, TokensInv
  PROVE  /\ \A q : q \in Covered <=> \E i \in DOMAIN tokens : q \in tokens[i].from..(tokens[i].to - 1)
         /\ \A q : q \in Swallowed <=> \E i \in DOMAIN tokens : tokens[i].type = "-" /\ q = tokens[i].to
         /\ \A q \in Covered \cup Swallowed : q \in Nat /\ q < at
<1>1. \A q : q \in Covered <=> \E i \in DOMAIN tokens : q \in tokens[i].from..(tokens[i].to - 1)
  BY DEF Covered
<1>2. \A q : q \in Swallowed <=> \E i \in DOMAIN tokens : tokens[i].type = "-" /\ q = tokens[i].to
  BY DEF Swallowed
<1>3. TextLen \in Nat /\ at \in Nat
  BY TextIs DEF PlaceInv
<1>4. ASSUME NEW i \in DOMAIN tokens
      PROVE  /\ \A q \in tokens[i].from..(tokens[i].to - 1) : q \in Nat /\ q < at
             /\ tokens[i].type = "-" => tokens[i].to \in Nat /\ tokens[i].to < at
  BY <1>3 DEF TokensInv
<1>5. QED
  BY <1>1, <1>2, <1>4

LEMMA CoveredAfter ==
  ASSUME TextOK, PlaceInv, TokensInv, TokensInv', PlaceInv', NEW p, NEW t, Takes(p, t)
  PROVE  /\ Covered' = Covered \cup (p..(t.to - 1))
         /\ Swallowed' = Swallowed \cup (IF t.type = "-" THEN {t.to} ELSE {})
<1> DEFINE n == Len(tokens)
           new == tokens'[n + 1]
<1>1. TextOK'
  BY TextStays DEF Takes
<1>2. /\ \A q : q \in Covered' <=> \E i \in DOMAIN tokens' : q \in tokens'[i].from..(tokens'[i].to - 1)
      /\ \A q : q \in Swallowed' <=> \E i \in DOMAIN tokens' : tokens'[i].type = "-" /\ q = tokens'[i].to
  BY DEF Covered, Swallowed
<1>3. /\ n \in Nat /\ DOMAIN tokens = 1..n /\ DOMAIN tokens' = 1..(n + 1)
      /\ \A i \in 1..n : tokens'[i] = tokens[i]
      /\ new = [kind |-> t.kind, type |-> t.type, from |-> p, to |-> t.to, line |-> line]
  BY TokenAdded
<1>4. new.type = t.type /\ new.from = p /\ new.to = t.to
  BY <1>3
<1>5. \A i : i \in DOMAIN tokens' <=> i \in 1..n \/ i = n + 1
  BY <1>3
<1> HIDE DEF n
<1>6. \A q : q \in Covered' <=> q \in Covered \/ q \in p..(t.to - 1)
  BY <1>2, <1>3, <1>4, <1>5, CoveredAre
<1>7. \A q : q \in Swallowed' <=> q \in Swallowed \/ (t.type = "-" /\ q = t.to)
  BY <1>2, <1>3, <1>4, <1>5, CoveredAre
<1>8. QED
  BY <1>6, <1>7

LEMMA WhiteKept ==
  ASSUME TextOK, PlaceInv, TokensInv, TokensInv', PlaceInv', OnlyWhiteIsSkipped, LexNext
  PROVE  OnlyWhiteIsSkipped'
<1>1. TextLen \in Nat /\ at \in 1..TextLen
  BY TextIs DEF LexNext, NextLine, NextToken, PlaceInv
<1>2. ASSUME NEW p, TakesLine(p) PROVE OnlyWhiteIsSkipped'
  <2>1. /\ p \in at..TextLen /\ at' = p + 1 /\ At(p) = "\n" /\ \A q \in at..(p - 1) : At(q) \in White
        /\ Covered' = Covered /\ Swallowed' = Swallowed /\ UNCHANGED text
    BY <1>2 DEF TakesLine, BehindWhite, Covered, Swallowed
  <2>2. \A q : At(q)' = At(q)
    BY <2>1, TextStays
  <2>3. \A q \in 1..(at' - 1) : q \in 1..(at - 1) \/ q \in at..(p - 1) \/ q = p
    BY <1>1, <2>1
  <2>4. ASSUME NEW q \in 1..(at' - 1) PROVE q \in Covered \/ q \in Swallowed \/ At(q) \in White \cup {"\n"}
    BY <2>1, <2>3 DEF OnlyWhiteIsSkipped
  <2>5. QED
    BY <2>1, <2>2, <2>4 DEF OnlyWhiteIsSkipped
<1>3. ASSUME NEW p, NEW t, Takes(p, t) PROVE OnlyWhiteIsSkipped'
  <2>1. /\ p \in at..TextLen /\ at' = t.next /\ UNCHANGED text /\ \A q \in at..(p - 1) : At(q) \in White
        /\ t.to \in (p + 1)..(TextLen + 1) /\ t.next = IF t.type = "-" THEN t.to + 1 ELSE t.to
    BY <1>3 DEF Takes, BehindWhite, Found
  <2>2. \A q : At(q)' = At(q)
    BY <2>1, TextStays
  <2>3. /\ Covered' = Covered \cup (p..(t.to - 1))
        /\ Swallowed' = Swallowed \cup (IF t.type = "-" THEN {t.to} ELSE {})
    BY <1>3, CoveredAfter
  <2>4. \A q \in 1..(at' - 1) :
          q \in 1..(at - 1) \/ q \in at..(p - 1) \/ q \in p..(t.to - 1) \/ (t.type = "-" /\ q = t.to)
    BY <1>1, <2>1
  <2>5. ASSUME NEW q \in 1..(at' - 1)
        PROVE  q \in Covered' \/ q \in Swallowed' \/ At(q) \in White \cup {"\n"}
    BY <2>1, <2>3, <2>4 DEF OnlyWhiteIsSkipped
  <2>6. QED
    BY <2>2, <2>5 DEF OnlyWhiteIsSkipped
<1>4. ASSUME UNCHANGED <<text, at, tokens>> PROVE OnlyWhiteIsSkipped'
  BY <1>4 DEF OnlyWhiteIsSkipped, Covered, Swallowed, At
<1>5. QED
  BY <1>2, <1>3, <1>4, StepCases

(* The lines are counted: those that end behind a token do not matter to   *)
(* it, and those within a token or swallowed to nobody.                    *)
LinesInv == LinesAreCounted /\ line = 1 + Cardinality(LineEnds(at))

LEMMA LinesAre ==
  LinesAreCounted <=> \A i \in DOMAIN tokens : tokens[i].line = 1 + Cardinality(LineEnds(tokens[i].from))
  BY DEF LinesAreCounted, LineEnds

LEMMA LinesKept ==
  ASSUME TextOK, PlaceInv, TokensInv, TokensInv', PlaceInv', LinesInv, LexNext
  PROVE  LinesInv'
<1>1. TextLen \in Nat /\ at \in 1..TextLen /\ line \in Nat
  BY TextIs DEF LexNext, NextLine, NextToken, PlaceInv
<1>2. ASSUME NEW p, TakesLine(p) PROVE LinesInv'
  <2>1. /\ p \in at..TextLen /\ at' = p + 1 /\ At(p) = "\n" /\ \A q \in at..(p - 1) : At(q) \in White
        /\ Covered' = Covered /\ Swallowed' = Swallowed /\ UNCHANGED <<text, tokens>> /\ line' = line + 1
    BY <1>2 DEF TakesLine, BehindWhite, Covered, Swallowed
  <2>2. \A q : At(q)' = At(q)
    BY <2>1, TextStays
  <2>3. \A r : LineEnds(r)' = LineEnds(r)
    BY <2>1, <2>2 DEF LineEnds, At
  <2>4. LineEnds(p + 1) = LineEnds(at) \cup {p} /\ p \notin LineEnds(at)
    <3>1. p \notin Covered \cup Swallowed
      BY <1>1, <2>1, CoveredAre
    <3>2. \A q : q \in 1..((p + 1) - 1) <=> q \in 1..(at - 1) \/ q \in at..(p - 1) \/ q = p
      BY <1>1, <2>1
    <3>3. \A q \in at..(p - 1) : At(q) # "\n"
      BY <2>1 DEF White
    <3>4. p \notin 1..(at - 1)
      BY <1>1, <2>1
    <3>5. QED
      BY <2>1, <3>1, <3>2, <3>3, <3>4 DEF LineEnds
  <2>5. IsFiniteSet(LineEnds(at))
    <3>1. IsFiniteSet(1..(at - 1)) /\ LineEnds(at) \subseteq 1..(at - 1)
      BY <1>1, FS_Interval DEF LineEnds
    <3>2. QED
      BY <3>1, FS_Subset
  <2>6. Cardinality(LineEnds(p + 1)) = Cardinality(LineEnds(at)) + 1 /\ Cardinality(LineEnds(at)) \in Nat
    BY <2>4, <2>5, FS_AddElement, FS_CardinalityType
  <2>7. line' = 1 + Cardinality(LineEnds(p + 1))
    BY <2>1, <2>6 DEF LinesInv
  <2>8. LineEnds(at)' = LineEnds(p + 1)
    BY <2>1, <2>2 DEF LineEnds
  <2>9. LinesAreCounted'
    BY <2>1, <2>2 DEF LinesInv, LinesAreCounted
  <2>10. QED
    BY <2>7, <2>8, <2>9 DEF LinesInv
<1>3. ASSUME NEW p, NEW t, Takes(p, t) PROVE LinesInv'
  <2> DEFINE n == Len(tokens)
  <2>1. /\ p \in at..TextLen /\ at' = t.next /\ UNCHANGED <<text, line>> /\ \A q \in at..(p - 1) : At(q) \in White
        /\ t.to \in (p + 1)..(TextLen + 1) /\ t.next = IF t.type = "-" THEN t.to + 1 ELSE t.to
    BY <1>3 DEF Takes, BehindWhite, Found
  <2>2. \A q : At(q)' = At(q)
    BY <2>1, TextStays
  <2>3. /\ Covered' = Covered \cup (p..(t.to - 1))
        /\ Swallowed' = Swallowed \cup (IF t.type = "-" THEN {t.to} ELSE {})
    BY <1>3, CoveredAfter
  <2> DEFINE Ends(r) == {q \in 1..(r - 1) : At(q) = "\n" /\ q \notin Covered' \cup Swallowed'}
  <2>4. ASSUME NEW r \in 1..p PROVE Ends(r) = LineEnds(r)
    <3>1. \A q \in 1..(r - 1) : q \notin p..(t.to - 1) /\ q # t.to
      BY <1>1, <2>1
    <3>2. QED
      BY <2>3, <3>1 DEF LineEnds
  <2>5. LineEnds(p) = LineEnds(at)
    <3>1. \A q : q \in 1..(p - 1) <=> q \in 1..(at - 1) \/ q \in at..(p - 1)
      BY <1>1, <2>1
    <3>2. \A q \in at..(p - 1) : At(q) # "\n"
      BY <2>1 DEF White
    <3>3. QED
      BY <3>1, <3>2 DEF LineEnds
  <2>6. Ends(t.next) = LineEnds(p)
    <3>1. p \in 1..p
      BY <1>1, <2>1
    <3>2. \A q : q \in 1..(t.next - 1) <=>
                   q \in 1..(p - 1) \/ q \in p..(t.to - 1) \/ (t.type = "-" /\ q = t.to)
      BY <1>1, <2>1
    <3>3. Ends(t.next) = Ends(p)
      BY <2>3, <3>2
    <3>4. QED
      BY <2>4, <3>1, <3>3
  <2>7. \A r : LineEnds(r)' = Ends(r)
    BY <2>1, <2>2 DEF LineEnds, At
  <2> HIDE DEF Ends
  <2>8. line' = 1 + Cardinality(LineEnds(at)')
    <3>1. LineEnds(at)' = Ends(t.next)
      BY <2>1, <2>2 DEF LineEnds, Ends
    <3>2. QED
      BY <2>1, <2>5, <2>6, <3>1 DEF LinesInv
  <2>9. /\ n \in Nat /\ DOMAIN tokens = 1..n /\ DOMAIN tokens' = 1..(n + 1)
        /\ \A i \in 1..n : tokens'[i] = tokens[i]
        /\ tokens'[n + 1] = [kind |-> t.kind, type |-> t.type, from |-> p, to |-> t.to, line |-> line]
    BY <1>3, TokenAdded
  <2>10. tokens'[n + 1].from = p /\ tokens'[n + 1].line = line
    BY <2>9
  <2> HIDE DEF n
  <2>11. ASSUME NEW i \in 1..(n + 1) PROVE tokens'[i].line = 1 + Cardinality(Ends(tokens'[i].from))
    <3>1. CASE i \in 1..n
      <4>1. tokens[i].from \in 1..p
        <5>1. tokens[i].from \in 1..TextLen /\ tokens[i].to \in (tokens[i].from + 1)..(TextLen + 1) /\ tokens[i].to <= at
          BY <2>9, <3>1 DEF TokensInv
        <5>2. QED
          BY <1>1, <2>1, <5>1
      <4>2. tokens[i].line = 1 + Cardinality(LineEnds(tokens[i].from))
        BY <2>9, <3>1, LinesAre DEF LinesInv
      <4>3. QED
        BY <2>4, <2>9, <3>1, <4>1, <4>2
    <3>2. CASE i = n + 1
      <4>1. p \in 1..p
        BY <1>1, <2>1
      <4>2. QED
        BY <2>4, <2>5, <2>10, <3>2, <4>1 DEF LinesInv
    <3>3. QED
      BY <2>9, <3>1, <3>2
  <2>12. LinesAreCounted'
    BY <2>2, <2>9, <2>11 DEF LinesAreCounted, Ends
  <2>13. QED
    BY <2>8, <2>12 DEF LinesInv
<1>4. ASSUME UNCHANGED <<text, at, tokens, line>> PROVE LinesInv'
  BY <1>4 DEF LinesInv, LinesAreCounted, LineEnds, Covered, Swallowed, At
<1>5. QED
  BY <1>2, <1>3, <1>4, StepCases

(* Whether = assigns is known from the last keyword.                       *)
EqualsInv == EqualsByKeyword /\ (setSeen <=> SetBefore(Len(tokens)))

LEMMA EqualsAre ==
  EqualsByKeyword <=>
    \A i \in DOMAIN tokens : tokens[i].type = "=" =>
      tokens[i].kind = (IF SetBefore(i - 1) THEN "assignment" ELSE "comparison")
  BY DEF EqualsByKeyword, SetBefore

LEMMA SeenAfter ==
  ASSUME TokensInv, TokensInv', NEW p, NEW t, Takes(p, t)
  PROVE  /\ \A m \in 0..Len(tokens) : SetBefore(m)' <=> SetBefore(m)
         /\ \A m : m = Len(tokens) + 1 =>
              (SetBefore(m)' <=> t.type = "set" \/ (t.type # "where" /\ SetBefore(Len(tokens))))
<1> DEFINE n == Len(tokens)
           K(m) == {j \in 1..m : tokens[j].kind = "keyword"}
           L(m) == {j \in 1..m : tokens'[j].kind = "keyword"}
<1>1. /\ n \in Nat /\ \A i \in 1..n : tokens'[i] = tokens[i]
      /\ tokens'[n + 1] = [kind |-> t.kind, type |-> t.type, from |-> p, to |-> t.to, line |-> line]
  BY TokenAdded
<1>2. tokens'[n + 1].kind = t.kind /\ tokens'[n + 1].type = t.type
  BY <1>1
<1>3. t.kind = "keyword" <=> t.type \in {"set", "where"}
  BY DEF Takes, Found, Keyword
<1>4. \A m \in Nat : /\ SetBefore(m) <=> K(m) # {} /\ tokens[Max(K(m))].type = "set"
                     /\ SetBefore(m)' <=> L(m) # {} /\ tokens'[Max(L(m))].type = "set"
  BY DEF SetBefore
<1>5. \A m \in Nat : /\ K(m) # {} => Max(K(m)) \in K(m)
                     /\ L(m) # {} => Max(L(m)) \in L(m) /\ \A k \in L(m) : k <= Max(L(m))
  <2>1. ASSUME NEW m \in Nat
        PROVE  /\ K(m) # {} => Max(K(m)) \in K(m)
               /\ L(m) # {} => Max(L(m)) \in L(m) /\ \A k \in L(m) : k <= Max(L(m))
    <3>1. K(m) \in SUBSET (0..m) /\ L(m) \in SUBSET (0..m)
      OBVIOUS
    <3> HIDE DEF K, L
    <3>2. QED
      BY <3>1, MaxIs
  <2>2. QED
    BY <2>1
<1>6. \A m \in 0..n : L(m) = K(m)
  BY <1>1
<1>7. \A m \in Nat : \A k : /\ k \in K(m) => k \in 1..m
                            /\ k \in L(m) => k \in 1..m /\ tokens'[k].kind = "keyword"
  OBVIOUS
<1>8. L(n + 1) = IF t.type \in {"set", "where"} THEN L(n) \cup {n + 1} ELSE L(n)
  <2>1. \A j : j \in 1..(n + 1) <=> j \in 1..n \/ j = n + 1
    BY <1>1
  <2>2. QED
    BY <1>2, <1>3, <2>1
<1> HIDE DEF K, L, n
<1>9. ASSUME NEW m \in 0..n PROVE SetBefore(m)' <=> SetBefore(m)
  <2>1. m \in Nat /\ L(m) = K(m)
    BY <1>1, <1>6
  <2>2. K(m) # {} => Max(K(m)) \in 1..n
    <3>1. K(m) # {} => Max(K(m)) \in 1..m
      BY <1>5, <1>7, <2>1
    <3>2. QED
      BY <1>1, <3>1
  <2>3. K(m) # {} => tokens'[Max(K(m))] = tokens[Max(K(m))]
    BY <1>1, <2>2
  <2>4. QED
    BY <1>4, <2>1, <2>3
<1>10. ASSUME NEW m, m = n + 1
       PROVE  SetBefore(m)' <=> t.type = "set" \/ (t.type # "where" /\ SetBefore(n))
  <2>1. m \in Nat /\ n \in Nat /\ n \in 0..n /\ m # 0
    BY <1>1, <1>10
  <2>2. CASE t.type \in {"set", "where"}
    <3>1. m \in L(m)
      BY <1>8, <1>10, <2>2
    <3>2. Max(L(m)) \in 1..m /\ m <= Max(L(m))
      BY <1>5, <1>7, <2>1, <3>1
    <3>3. Max(L(m)) = m
      BY <2>1, <3>2
    <3>4. tokens'[Max(L(m))].type = t.type /\ L(m) # {}
      BY <1>2, <1>10, <3>1, <3>3
    <3>5. SetBefore(m)' <=> t.type = "set"
      BY <1>4, <2>1, <3>4
    <3>6. QED
      BY <2>2, <3>5
  <2>3. CASE t.type \notin {"set", "where"}
    <3>1. L(m) = K(n)
      BY <1>6, <1>8, <1>10, <2>1, <2>3
    <3>2. K(n) # {} => Max(K(n)) \in 1..n
      BY <1>5, <1>7, <2>1
    <3>3. K(n) # {} => tokens'[Max(K(n))] = tokens[Max(K(n))]
      BY <1>1, <3>2
    <3>4. SetBefore(m)' <=> K(n) # {} /\ tokens'[Max(K(n))].type = "set"
      BY <1>4, <2>1, <3>1
    <3>5. SetBefore(n) <=> K(n) # {} /\ tokens[Max(K(n))].type = "set"
      BY <1>4, <2>1
    <3>6. QED
      BY <2>3, <3>3, <3>4, <3>5
  <2>4. QED
    BY <2>2, <2>3
<1>11. QED
  BY <1>9, <1>10 DEF n

LEMMA EqualsKept ==
  ASSUME TextOK, PlaceInv, TokensInv, TokensInv', EqualsInv, LexNext
  PROVE  EqualsInv'
<1>1. ASSUME UNCHANGED <<tokens, setSeen>> PROVE EqualsInv'
  BY <1>1 DEF EqualsInv, EqualsByKeyword, SetBefore
<1>2. ASSUME NEW p, NEW t, Takes(p, t) PROVE EqualsInv'
  <2> DEFINE n == Len(tokens)
  <2>1. /\ n \in Nat /\ DOMAIN tokens = 1..n /\ DOMAIN tokens' = 1..(n + 1) /\ Len(tokens') = n + 1
        /\ \A i \in 1..n : tokens'[i] = tokens[i]
        /\ tokens'[n + 1] = [kind |-> t.kind, type |-> t.type, from |-> p, to |-> t.to, line |-> line]
    BY <1>2, TokenAdded
  <2>2. /\ \A m \in 0..n : SetBefore(m)' <=> SetBefore(m)
        /\ \A m : m = n + 1 =>
             (SetBefore(m)' <=> t.type = "set" \/ (t.type # "where" /\ SetBefore(n)))
    BY <1>2, SeenAfter
  <2>3. tokens'[n + 1].kind = t.kind /\ tokens'[n + 1].type = t.type
    BY <2>1
  <2>4. /\ t.type = "=" => t.kind = IF setSeen THEN "assignment" ELSE "comparison"
        /\ setSeen' = IF t.type = "set" THEN TRUE ELSE IF t.type = "where" THEN FALSE ELSE setSeen
    BY <1>2 DEF Takes, Found, Sees
  <2>5. setSeen <=> SetBefore(n)
    BY DEF EqualsInv
  <2> HIDE DEF n
  <2>6. (setSeen <=> SetBefore(Len(tokens)))'
    <3>1. ASSUME NEW m, m = Len(tokens') PROVE SetBefore(Len(tokens))' <=> SetBefore(m)'
      BY <3>1 DEF SetBefore
    <3>2. PICK m : m = Len(tokens')
      OBVIOUS
    <3>3. SetBefore(m)' <=> t.type = "set" \/ (t.type # "where" /\ SetBefore(n))
      BY <2>1, <2>2, <3>2
    <3>4. QED
      BY <2>4, <2>5, <3>1, <3>2, <3>3
  <2>7. ASSUME NEW i \in DOMAIN tokens', tokens'[i].type = "="
        PROVE  tokens'[i].kind = (IF SetBefore(i - 1)' THEN "assignment" ELSE "comparison")
    <3>1. CASE i \in 1..n
      <4>1. tokens[i].kind = (IF SetBefore(i - 1) THEN "assignment" ELSE "comparison")
        BY <2>1, <2>7, <3>1, EqualsAre DEF EqualsInv
      <4>2. i - 1 \in 0..n
        BY <2>1, <3>1
      <4>3. QED
        BY <2>1, <2>2, <3>1, <4>1, <4>2
    <3>2. CASE i = n + 1
      <4>1. i - 1 = n /\ n \in 0..n
        BY <2>1, <3>2
      <4>2. QED
        BY <2>2, <2>3, <2>4, <2>5, <2>7, <3>2, <4>1
    <3>3. QED
      BY <2>1, <3>1, <3>2
  <2>8. EqualsByKeyword'
    BY <2>7 DEF EqualsByKeyword, SetBefore
  <2>9. QED
    BY <2>6, <2>8 DEF EqualsInv
<1>3. QED
  BY <1>1, <1>2, StepCases DEF TakesLine

(* Strings end where they should. *)
LEMMA StringsAre ==
  StringsEndAtQuote <=>
    \A i \in DOMAIN tokens : tokens[i].kind = "string" /\ tokens[i].type = "normal" =>
      StringAt(tokens[i].from, tokens[i].to - 1)
  BY DEF StringsEndAtQuote, StringAt, Even

LEMMA StringsKept ==
  ASSUME TextOK, PlaceInv, TokensInv, TokensInv', StringsEndAtQuote, LexNext
  PROVE  StringsEndAtQuote'
<1>1. ASSUME UNCHANGED text PROVE \A from, to : StringAt(from, to)' <=> StringAt(from, to)
  <2>1. (\A q : At(q)' = At(q)) /\ (\A q : Backslashes(q)' = Backslashes(q))
    BY <1>1, TextStays
  <2>2. QED
    BY <2>1 DEF StringAt, Even
<1>2. ASSUME UNCHANGED <<text, tokens>> PROVE StringsEndAtQuote'
  <2>1. (\A q : At(q)' = At(q)) /\ (\A q : Backslashes(q)' = Backslashes(q))
    BY <1>2, TextStays
  <2>2. QED
    BY <1>2, <2>1 DEF StringsEndAtQuote
<1>3. ASSUME NEW p, NEW t, Takes(p, t) PROVE StringsEndAtQuote'
  <2> DEFINE n == Len(tokens)
  <2>1. /\ n \in Nat /\ DOMAIN tokens = 1..n /\ DOMAIN tokens' = 1..(n + 1)
        /\ \A i \in 1..n : tokens'[i] = tokens[i]
        /\ tokens'[n + 1] = [kind |-> t.kind, type |-> t.type, from |-> p, to |-> t.to, line |-> line]
    BY <1>3, TokenAdded
  <2>2. /\ tokens'[n + 1].kind = t.kind /\ tokens'[n + 1].type = t.type
        /\ tokens'[n + 1].from = p /\ tokens'[n + 1].to = t.to
    BY <2>1
  <2>3. /\ t.kind = "string" /\ t.type = "normal" => StringAt(p, t.to - 1)
        /\ UNCHANGED text
    BY <1>3 DEF Takes, Found
  <2> HIDE DEF n
  <2>4. ASSUME NEW i \in DOMAIN tokens', tokens'[i].kind = "string", tokens'[i].type = "normal"
        PROVE  StringAt(tokens'[i].from, tokens'[i].to - 1)
    <3>1. CASE i \in 1..n
      BY <2>1, <2>4, <3>1, StringsAre
    <3>2. CASE i = n + 1
      BY <2>2, <2>3, <2>4, <3>2
    <3>3. QED
      BY <2>1, <3>1, <3>2
  <2>5. (\A q : At(q)' = At(q)) /\ (\A q : Backslashes(q)' = Backslashes(q))
    BY <2>3, TextStays
  <2>6. QED
    BY <2>4, <2>5 DEF StringsEndAtQuote, StringAt, Even
<1>4. QED
  BY <1>2, <1>3, StepCases DEF TakesLine

-----------------------------------------------------------------------------
LEMMA InitLexInv == LexInit => LexInv
<1> SUFFICES ASSUME LexInit PROVE LexInv
  OBVIOUS
<1>1. TextOK
  BY TextsAssumption DEF LexInit, TextOK
<1>2. TextLen \in Nat /\ tokens = <<>> /\ DOMAIN tokens = {} /\ Len(tokens) = 0
  BY <1>1, TextIs DEF LexInit
<1>3. text # <<>> => TextLen >= 1
  BY <1>1, EmptySeq, LenProperties DEF TextOK, TextLen
<1>4. PlaceInv
  <2>1. /\ at = 1 /\ line = 1 /\ setSeen = FALSE
        /\ status = "done" \/ (status = "lexing" /\ text # <<>>)
    BY DEF LexInit
  <2>2. /\ at \in 1..(TextLen + 2) /\ line \in 1..(TextLen + 1) /\ line <= at
        /\ ~(at > TextLen + 1) /\ (status = "lexing" => at <= TextLen)
    BY <1>2, <1>3, <2>1
  <2>3. status \in {"lexing", "done", "error", "overrun"} /\ status # "overrun"
    BY <2>1
  <2>4. QED
    BY <2>1, <2>2, <2>3 DEF PlaceInv
<1>5. TokensInv
  <2>1. tokens \in Seq({})
    BY <1>2
  <2>2. QED
    BY <1>2, <2>1 DEF TokensInv
<1>6. OnlyWhiteIsSkipped /\ LinesAreCounted /\ EqualsByKeyword /\ StringsEndAtQuote
  BY <1>2 DEF LexInit, OnlyWhiteIsSkipped, LinesAreCounted, EqualsByKeyword, StringsEndAtQuote
<1>7. line = 1 + Cardinality(LineEnds(at))
  <2>1. at = 1 /\ line = 1
    BY DEF LexInit
  <2>2. LineEnds(at) = {}
    BY <2>1 DEF LineEnds
  <2>3. QED
    BY <2>1, <2>2, FS_EmptySet
<1>8. setSeen <=> SetBefore(Len(tokens))
  BY <1>2 DEF LexInit, SetBefore
<1>9. QED
  BY <1>1, <1>4, <1>5, <1>6, <1>7, <1>8 DEF LexInv

LEMMA NextLexInv == LexInv /\ [LexNext]_lexVars => LexInv'
<1> SUFFICES ASSUME LexInv, [LexNext]_lexVars PROVE LexInv'
  OBVIOUS
<1>1. CASE LexNext
  <2>1. UNCHANGED text
    BY <1>1 DEF LexNext, NextLine, NextToken
  <2>2. TextOK'
    BY <2>1, TextStays DEF LexInv
  <2>3. PlaceInv' /\ TokensInv'
    BY <1>1, PlaceKept, TokensKept DEF LexInv
  <2>4. OnlyWhiteIsSkipped'
    BY <1>1, <2>3, WhiteKept DEF LexInv
  <2>5. LinesInv'
    BY <1>1, <2>3, LinesKept DEF LexInv, LinesInv
  <2>6. EqualsInv'
    BY <1>1, <2>3, EqualsKept DEF LexInv, EqualsInv
  <2>7. StringsEndAtQuote'
    BY <1>1, <2>3, StringsKept DEF LexInv
  <2>8. QED
    BY <2>2, <2>3, <2>4, <2>5, <2>6, <2>7 DEF LexInv, LinesInv, EqualsInv
<1>2. CASE UNCHANGED lexVars
  <2>1. UNCHANGED <<text, at, line, setSeen, tokens, status>>
    BY <1>2 DEF lexVars
  <2>2. \A q : At(q)' = At(q)
    BY <2>1, TextStays
  <2>3. TextOK' /\ PlaceInv' /\ TokensInv'
    BY <2>1, TextStays DEF LexInv, PlaceInv, TokensInv
  <2>4. OnlyWhiteIsSkipped' /\ LinesAreCounted' /\ (line = 1 + Cardinality(LineEnds(at)))'
    <3>1. Covered' = Covered /\ Swallowed' = Swallowed
      BY <2>1, <2>2 DEF Covered, Swallowed
    <3>2. LineEnds(at)' = LineEnds(at)
      BY <2>1, <2>2, <3>1 DEF LineEnds
    <3>3. OnlyWhiteIsSkipped' /\ (line = 1 + Cardinality(LineEnds(at)))'
      BY <2>1, <2>2, <3>1, <3>2 DEF LexInv, OnlyWhiteIsSkipped
    <3>4. LinesAreCounted'
      BY <2>1, <2>2, <3>1 DEF LexInv, LinesAreCounted
    <3>5. QED
      BY <3>3, <3>4
  <2>5. EqualsByKeyword' /\ (setSeen <=> SetBefore(Len(tokens)))'
    BY <2>1 DEF LexInv, EqualsByKeyword, SetBefore
  <2>6. StringsEndAtQuote'
    <3>1. \A q : Backslashes(q)' = Backslashes(q)
      BY <2>1, TextStays
    <3>2. QED
      BY <2>1, <2>2, <3>1 DEF LexInv, StringsEndAtQuote
  <2>7. QED
    BY <2>3, <2>4, <2>5, <2>6 DEF LexInv
<1>3. QED
  BY <1>1, <1>2

LEMMA LexInvGives == LexInv => TextIsCut
<1> SUFFICES ASSUME LexInv PROVE TextIsCut
  OBVIOUS
<1>1. TextLen \in Nat
  BY TextIs DEF LexInv
<1>2. /\ at \in 1..(Len(text) + 2) /\ line \in 1..(Len(text) + 1) /\ setSeen \in BOOLEAN
      /\ status \in {"lexing", "done", "error", "overrun"}
      /\ status = "overrun" <=> at > Len(text) + 1
      /\ status = "overrun" => Last(tokens).type = "-"
  BY DEF LexInv, PlaceInv, TextLen
<1>3. ASSUME NEW i \in DOMAIN tokens
      PROVE  /\ tokens[i].from < tokens[i].to /\ tokens[i].to <= Len(text) + 1
             /\ i > 1 => tokens[i - 1].to <= tokens[i].from
  <2>1. /\ tokens[i].from \in 1..TextLen /\ tokens[i].to \in (tokens[i].from + 1)..(TextLen + 1)
        /\ i > 1 => tokens[i - 1].to <= tokens[i].from
    BY DEF LexInv, TokensInv
  <2>2. tokens[i].from < tokens[i].to /\ tokens[i].to <= TextLen + 1
    BY <1>1, <2>1
  <2>3. QED
    BY <2>1, <2>2 DEF TextLen
<1>4. LexTypeOK
  BY <1>2, <1>3 DEF LexTypeOK
<1>5. QED
  BY <1>4 DEF LexInv, TextIsCut

LEMMA LexInvHolds == LexSpec => []LexInv
  BY InitLexInv, NextLexInv, PTL DEF LexSpec

(* For texts of every length: the tokens follow one another within the     *)
(* text, nothing is lost between them but white space, the ends of lines   *)
(* and the piece behind a minus, each is in its line, = is read by the     *)
(* keywords before it, and a string ends at the first quote that an even   *)
(* number of backslashes is before (CSQLParser::Parse).                    *)
THEOREM TextsAreCut == LexSpec => []TextIsCut
  BY LexInvHolds, LexInvGives, PTL

(* Every turn of the loop moves p on, whatever it finds, or is its last.   *)
THEOREM ParsingMovesOn == LexSpec => TurnsMoveOn
<1>1. ASSUME LexInv, [LexNext]_lexVars PROVE [at' > at \/ status' # "lexing"]_lexVars
  <2>1. CASE LexNext
    <3>1. TextLen \in Nat /\ at \in 1..(TextLen + 2)
      BY <1>1, TextIs DEF LexInv, PlaceInv
    <3>2. ASSUME NEW p, TakesLine(p) PROVE at' > at
      <4>1. p \in at..TextLen /\ at' = p + 1
        BY <3>2 DEF TakesLine, BehindWhite
      <4>2. QED
        BY <3>1, <4>1
    <3>3. ASSUME NEW p, NEW t, Takes(p, t) PROVE at' > at
      <4>1. /\ p \in at..TextLen /\ at' = t.next /\ t.to \in (p + 1)..(TextLen + 1)
            /\ t.next = IF t.type = "-" THEN t.to + 1 ELSE t.to
        BY <3>3 DEF Takes, BehindWhite, Found
      <4>2. QED
        BY <3>1, <4>1
    <3>4. ASSUME status' = "error" PROVE status' # "lexing"
      BY <3>4
    <3>5. at' > at \/ status' # "lexing"
      BY <1>1, <2>1, <3>2, <3>3, <3>4, StepCases DEF LexInv
    <3>6. QED
      BY <3>5
  <2>2. CASE UNCHANGED lexVars
    BY <2>2
  <2>3. QED
    BY <1>1, <2>1, <2>2
<1>2. QED
  BY <1>1, LexInvHolds, PTL DEF LexSpec, TurnsMoveOn

-----------------------------------------------------------------------------
(* Part 2: Decimal64.                                                      *)

-----------------------------------------------------------------------------
(* Powers of ten.                                                          *)
LEMMA TenIs ==
  Ten[0] = 1 /\ \A k \in Nat : Ten[k] \in Nat \ {0} /\ Ten[k + 1] = 10 * Ten[k]
<1> DEFINE Upto(f, n) == f \in [0..n -> Nat] /\ f[0] = 1 /\ \A k \in 1..n : f[k] = 10 * f[k - 1]
           Is(h) == h = [k \in Nat |-> IF k = 0 THEN 1 ELSE 10 * h[k - 1]]
<1>1. ASSUME NEW n \in Nat PROVE \E f : Upto(f, n)
  <2> DEFINE F == [k \in 1..n |-> [v \in Nat |-> 10 * v]]
  <2>1. F \in [1..n -> [Nat -> Nat]] /\ \A k \in 1..n : \A v \in Nat : F[k][v] = 10 * v
    OBVIOUS
  <2> HIDE DEF F
  <2>2. PICK f \in [0..n -> Nat] : Recurs(f, n, 1, F)
    BY <2>1, Recursion
  <2>3. ASSUME NEW k \in 1..n PROVE f[k] = 10 * f[k - 1]
    <3>1. k - 1 \in 0..n /\ f[k - 1] \in Nat
      BY <2>2
    <3>2. f[k] = F[k][f[k - 1]]
      BY <2>2 DEF Recurs
    <3>3. QED
      BY <2>1, <3>1, <3>2
  <2>4. Upto(f, n)
    BY <2>2, <2>3 DEF Recurs
  <2>5. QED
    BY <2>4
<1>2. ASSUME NEW f, NEW n \in Nat, Upto(f, n), NEW g, NEW m \in Nat, Upto(g, m)
      PROVE  \A k \in Nat : k <= n /\ k <= m => f[k] = g[k]
  <2> DEFINE S == {k \in Nat : k <= n /\ k <= m => f[k] = g[k]}
  <2>1. 0 \in S
    BY <1>2
  <2>2. ASSUME NEW k \in Nat, k \in S PROVE k + 1 \in S
    <3> SUFFICES ASSUME k + 1 <= n, k + 1 <= m PROVE f[k + 1] = g[k + 1]
      OBVIOUS
    <3>1. f[k] = g[k] /\ k + 1 \in 1..n /\ k + 1 \in 1..m /\ (k + 1) - 1 = k
      BY <2>2
    <3>2. f[k + 1] = 10 * f[k] /\ g[k + 1] = 10 * g[k]
      BY <1>2, <3>1
    <3>3. QED
      BY <3>1, <3>2
  <2> HIDE DEF S, Upto
  <2>3. \A k \in Nat : k \in S
    BY <2>1, <2>2, Induction
  <2>4. QED
    BY <2>3 DEF S
<1> DEFINE c == [n \in Nat |-> CHOOSE f : Upto(f, n)]
           g == [k \in Nat |-> c[k][k]]
<1>3. \A n \in Nat : Upto(c[n], n)
  <2> HIDE DEF Upto
  <2>1. QED
    BY <1>1
<1> HIDE DEF c
<1>4. ASSUME NEW k \in Nat, k # 0 PROVE g[k] = 10 * g[k - 1]
  <2>1. k - 1 \in Nat /\ k \in 1..k /\ k - 1 <= k
    BY <1>4
  <2>2. Upto(c[k], k) /\ Upto(c[k - 1], k - 1)
    BY <1>3, <2>1
  <2>3. c[k][k - 1] = c[k - 1][k - 1]
    <3> HIDE DEF Upto
    <3>1. QED
      BY <1>2, <2>1, <2>2
  <2>4. c[k][k] = 10 * c[k][k - 1]
    BY <2>1, <2>2
  <2>5. QED
    BY <2>1, <2>3, <2>4
<1>5. g[0] = 1
  BY <1>3
<1>6. Is(g)
  BY <1>4, <1>5
<1> HIDE DEF g
<1>7. Is(Ten)
  BY <1>6 DEF Ten
<1>8. Ten[0] = 1 /\ \A k \in Nat : k # 0 => Ten[k] = 10 * Ten[k - 1]
  BY <1>7
<1>9. \A k \in Nat : Ten[k + 1] = 10 * Ten[k]
  <2>1. \A k \in Nat : k + 1 \in Nat /\ k + 1 # 0 /\ (k + 1) - 1 = k
    OBVIOUS
  <2>2. QED
    BY <1>8, <2>1
<1>10. \A k \in Nat : Ten[k] \in Nat \ {0}
  <2> DEFINE S == {k \in Nat : Ten[k] \in Nat \ {0}}
  <2>1. 0 \in S
    BY <1>8
  <2>2. \A k \in Nat : k \in S => k + 1 \in S
    BY <1>9
  <2> HIDE DEF S
  <2>3. \A k \in Nat : k \in S
    BY <2>1, <2>2, Induction
  <2>4. QED
    BY <2>3 DEF S
<1>11. QED
  BY <1>8, <1>9, <1>10

LEMMA TenSum == ASSUME NEW a \in Nat, NEW b \in Nat PROVE Ten[a + b] = Ten[a] * Ten[b]
<1> DEFINE S == {n \in Nat : Ten[a + n] = Ten[a] * Ten[n]}
<1>1. 0 \in S
  BY TenIs
<1>2. ASSUME NEW n \in Nat, n \in S PROVE n + 1 \in S
  <2>1. Ten[a + n] = Ten[a] * Ten[n] /\ Ten[n + 1] = 10 * Ten[n] /\ Ten[a] \in Nat /\ Ten[n] \in Nat
    BY <1>2, TenIs
  <2>2. Ten[a + (n + 1)] = 10 * Ten[a + n]
    <3>1. a + n \in Nat /\ a + (n + 1) = (a + n) + 1
      OBVIOUS
    <3>2. QED
      BY <3>1, TenIs
  <2>3. QED
    BY <2>1, <2>2
<1> HIDE DEF S
<1>3. b \in S
  BY <1>1, <1>2, Induction
<1>4. QED
  BY <1>3 DEF S

LEMMA TenGrows == ASSUME NEW a \in Nat, NEW b \in Nat, a < b PROVE 10 * Ten[a] <= Ten[b]
<1>1. b - a - 1 \in Nat /\ a + 1 \in Nat /\ b = (a + 1) + (b - a - 1)
  OBVIOUS
<1>2. Ten[b] = Ten[a + 1] * Ten[b - a - 1]
  BY <1>1, TenSum
<1>3. Ten[a + 1] = 10 * Ten[a] /\ Ten[a] \in Nat /\ Ten[b - a - 1] \in Nat \ {0}
  BY <1>1, TenIs
<1> DEFINE u == Ten[b - a - 1]
           v == Ten[a + 1]
<1>4. v \in Nat /\ u \in Nat \ {0} => v <= v * u
  <2> HIDE DEF u, v
  <2>1. QED
    OBVIOUS
<1>5. QED
  BY <1>2, <1>3, <1>4

-----------------------------------------------------------------------------
(* Division.                                                               *)
LEMMA QuoIs ==
  ASSUME NEW a \in Int, NEW b \in Nat \ {0}
  PROVE  /\ Quo(a, b) \in Int /\ Rem(a, b) \in Int /\ a = b * Quo(a, b) + Rem(a, b)
         /\ a >= 0 => Quo(a, b) >= 0 /\ Rem(a, b) >= 0 /\ Rem(a, b) < b
         /\ a <= 0 => Quo(a, b) <= 0 /\ Rem(a, b) <= 0 /\ -Rem(a, b) < b
<1>1. Abs(b) = b /\ ~(b < 0)
  BY DEF Abs
<1>2. CASE a >= 0
  <2> DEFINE q == a \div b
  <2>1. q \in Int /\ q >= 0 /\ b * q <= a /\ a < b * q + b
    BY <1>2
  <2>2. Quo(a, b) = q /\ Rem(a, b) = a - b * q
    BY <1>1, <1>2 DEF Quo, Rem, Abs
  <2> HIDE DEF q
  <2>3. QED
    BY <1>2, <2>1, <2>2
<1>3. CASE a < 0
  <2> DEFINE q == (-a) \div b
  <2>1. q \in Int /\ q >= 0 /\ b * q <= -a /\ -a < b * q + b
    <3>1. -a \in Nat
      BY <1>3
    <3>2. QED
      BY <3>1
  <2>2. Quo(a, b) = -q /\ Rem(a, b) = a - b * (-q)
    BY <1>1, <1>3 DEF Quo, Rem, Abs
  <2> HIDE DEF q
  <2>3. b * (-q) = -(b * q)
    BY <2>1
  <2>4. QED
    BY <1>3, <2>1, <2>2, <2>3
<1>4. QED
  BY <1>2, <1>3

LEMMA DropDigitIs ==
  ASSUME NEW n \in Int
  PROVE  /\ DropDigit(n) \in Int
         /\ n >= 0 => DropDigit(n) >= 0 /\ -5 <= n - 10 * DropDigit(n) /\ n - 10 * DropDigit(n) <= 4
         /\ n <= 0 => DropDigit(n) <= 0 /\ -4 <= n - 10 * DropDigit(n) /\ n - 10 * DropDigit(n) <= 5
<1> DEFINE q == Quo(n, 10)
           d == Rem(n, 10)
<1>1. /\ q \in Int /\ d \in Int /\ n = 10 * q + d
      /\ n >= 0 => q >= 0 /\ d >= 0 /\ d < 10
      /\ n <= 0 => q <= 0 /\ d <= 0 /\ -d < 10
  BY QuoIs
<1>2. DropDigit(n) = q + (IF d >= 5 THEN 1 ELSE IF d <= -5 THEN -1 ELSE 0)
  BY DEF DropDigit
<1> HIDE DEF q, d
<1>3. QED
  BY <1>1, <1>2

-----------------------------------------------------------------------------
(* The word.                                                               *)
LEMMA LeastIs ==
  ASSUME NEW S \in SUBSET Int, NEW m \in S, \A k \in S : m <= k
  PROVE  Min(S) = m
<1>1. Min(S) \in S /\ \A k \in S : Min(S) <= k
  BY DEF Min
<1>2. Min(S) \in Int /\ m \in Int /\ Min(S) <= m /\ m <= Min(S)
  BY <1>1
<1>3. QED
  BY <1>2

(* The size of a number is between two powers of ten. *)
LEMMA SizeIs ==
  ASSUME NEW n \in Int, Abs(n) < Ten[MaxDigits]
  PROVE  /\ Size(n) \in 1..MaxDigits \/ (n = 0 /\ MaxDigits = 0)
         /\ MaxDigits # 0 => Abs(n) < Ten[Size(n)] /\ (Size(n) = 1 \/ Ten[Size(n) - 1] <= Abs(n))
<1> DEFINE S == {k \in 1..MaxDigits : Abs(n) < Ten[k]}
<1>1. MaxDigits \in Nat /\ Abs(n) \in Nat /\ \A k \in Nat : Ten[k] \in Nat
  BY MaxValueAssumption, TenIs DEF Abs
<1>2. CASE MaxDigits = 0
  BY <1>1, <1>2, TenIs DEF Abs
<1>3. CASE MaxDigits # 0
  <2>1. MaxDigits \in S /\ S \in SUBSET Nat
    BY <1>1, <1>3
  <2>2. Size(n) = Min(S)
    BY DEF Size
  <2>3. Min(S) \in S /\ \A k \in S : Min(S) <= k
    BY <2>1, MinIs
  <2> DEFINE m == Min(S)
  <2> HIDE DEF m
  <2>4. m \in 1..MaxDigits /\ Abs(n) < Ten[m] /\ \A k \in 1..MaxDigits : Abs(n) < Ten[k] => m <= k
    BY <2>3 DEF m
  <2>5. m # 1 => Ten[m - 1] <= Abs(n)
    <3>1. m # 1 => m - 1 \in 1..MaxDigits /\ ~(m <= m - 1) /\ m - 1 \in Nat
      BY <1>1, <2>4
    <3>2. QED
      BY <1>1, <2>4, <3>1
  <2>6. QED
    BY <1>3, <2>2, <2>4, <2>5 DEF m
<1>4. QED
  BY <1>2, <1>3

LEMMA WordIs ==
  /\ MaxValue \in Nat /\ MaxValue >= 10 /\ MaxPrecision \in Nat /\ MaxPrecision >= 2
  /\ Ten[MaxPrecision - 1] <= MaxValue /\ MaxValue < Ten[MaxPrecision]
<1>1. /\ MaxValue \in Nat /\ MaxValue >= 10 /\ MaxDigits \in Nat /\ MaxValue < Ten[MaxDigits]
      /\ Abs(MaxValue) = MaxValue
  BY MaxValueAssumption DEF Abs
<1>2. Ten[0] = 1 /\ Ten[1] = 10
  <2>1. Ten[0 + 1] = 10 * Ten[0] /\ 0 + 1 = 1
    BY TenIs
  <2>2. QED
    BY <2>1, TenIs
<1>3. MaxDigits # 0
  BY <1>1, <1>2
<1>4. /\ MaxPrecision \in 1..MaxDigits /\ MaxValue < Ten[MaxPrecision]
      /\ MaxPrecision = 1 \/ Ten[MaxPrecision - 1] <= MaxValue
  BY <1>1, <1>3, SizeIs DEF MaxPrecision
<1>5. MaxPrecision # 1
  BY <1>1, <1>2, <1>4
<1>6. QED
  BY <1>1, <1>4, <1>5

LEMMA PowIs == \A k \in 0..(MaxPrecision - 1) : pow_10(k) = Ten[k]
  BY DEF pow_10

LEMMA AbsIs == \A n \in Int : Abs(n) \in Nat /\ (n >= 0 => Abs(n) = n) /\ (n <= 0 => Abs(n) = -n)
  BY DEF Abs

(* As many zeros fit behind a number as ToMaxDigits says. *)
LEMMA ToMaxDigitsIs ==
  ASSUME NEW n \in Int, n # 0
  PROVE  /\ ToMaxDigits(n) \in 0..(MaxPrecision - 1)
         /\ \A k \in Nat : k <= ToMaxDigits(n) => k = 0 \/ Abs(n) * Ten[k] <= MaxValue
         /\ \A k \in Nat : k > ToMaxDigits(n) => Abs(n) * Ten[k] > MaxValue
<1> DEFINE a == Abs(n)
           S == {0} \cup {k \in 1..(MaxPrecision - 1) : a * Ten[k] <= MaxValue}
           m == Max(S)
<1>1. a \in Nat \ {0} /\ MaxPrecision - 1 \in Nat /\ MaxValue \in Nat /\ MaxPrecision \in Nat
  BY AbsIs, WordIs
<1> HIDE DEF a
<1>2. ToMaxDigits(n) = m
  BY DEF ToMaxDigits, a
<1>3. m \in S /\ \A k \in S : k <= m
  <2>1. S \in SUBSET (0..(MaxPrecision - 1)) /\ S # {}
    BY <1>1
  <2> HIDE DEF S
  <2>2. QED
    BY <1>1, <2>1, MaxIs
<1> HIDE DEF m
<1>4. m \in 0..(MaxPrecision - 1) /\ (m = 0 \/ a * Ten[m] <= MaxValue)
  BY <1>1, <1>3
<1>5. \A k \in 1..(MaxPrecision - 1) : a * Ten[k] <= MaxValue => k <= m
  BY <1>3
<1>6. ASSUME NEW k \in Nat, k <= m PROVE k = 0 \/ a * Ten[k] <= MaxValue
  <2>1. CASE k = 0 \/ k = m
    BY <1>4, <2>1
  <2>2. CASE k # 0 /\ k # m
    <3>1. m \in Nat /\ k < m /\ m # 0
      BY <1>4, <1>6, <2>2
    <3>2. 10 * Ten[k] <= Ten[m] /\ Ten[k] \in Nat /\ Ten[m] \in Nat
      BY <3>1, TenGrows, TenIs
    <3>3. Ten[k] <= Ten[m]
      BY <3>2
    <3>4. a * Ten[k] <= a * Ten[m]
      <4> DEFINE u == Ten[k]
                 v == Ten[m]
      <4>1. u \in Nat /\ v \in Nat /\ u <= v
        BY <3>2, <3>3
      <4> HIDE DEF u, v
      <4>2. a * u <= a * v
        BY <1>1, <4>1
      <4>3. QED
        BY <4>2 DEF u, v
    <3>5. QED
      BY <1>1, <1>4, <3>1, <3>2, <3>4
  <2>3. QED
    BY <2>1, <2>2
<1>7. ASSUME NEW k \in Nat, k > m PROVE a * Ten[k] > MaxValue
  <2>1. CASE k <= MaxPrecision - 1
    <3>1. k \in 1..(MaxPrecision - 1) /\ ~(k <= m)
      BY <1>1, <1>4, <1>7, <2>1
    <3>2. Ten[k] \in Nat
      BY TenIs
    <3>3. QED
      BY <1>1, <1>5, <3>1, <3>2
  <2>2. CASE k >= MaxPrecision
    <3>1. Ten[k] \in Nat /\ Ten[k] > MaxValue
      <4>1. k = MaxPrecision \/ MaxPrecision < k
        BY <1>1, <2>2
      <4>2. Ten[MaxPrecision] \in Nat /\ Ten[k] \in Nat
        BY <1>1, TenIs
      <4>3. MaxPrecision < k => 10 * Ten[MaxPrecision] <= Ten[k]
        BY <1>1, TenGrows
      <4>4. QED
        BY <1>1, <4>1, <4>2, <4>3, WordIs
    <3> DEFINE u == Ten[k]
    <3>2. u \in Nat /\ u > MaxValue
      BY <3>1
    <3> HIDE DEF u
    <3>3. a * u > MaxValue
      BY <1>1, <3>2
    <3>4. QED
      BY <3>3 DEF u
  <2>3. QED
    BY <1>1, <2>1, <2>2
<1>8. QED
  BY <1>2, <1>4, <1>6, <1>7 DEF a

(* Dropping digits is rounding. *)
Half(gap, unit) == -unit <= 2 * gap /\ 2 * gap <= unit

(* Half away from zero, and never to the other side of it. *)
Away(n, d, unit) ==
  /\ n >= 0 => d >= 0 /\ -unit <= 2 * (n - d * unit) /\ 2 * (n - d * unit) < unit
  /\ n <= 0 => d <= 0 /\ -unit < 2 * (n - d * unit) /\ 2 * (n - d * unit) <= unit

LEMMA DropDigitsIs ==
  ASSUME NEW n \in Int, NEW k \in 1..MaxPrecision
  PROVE  /\ DropDigits(n, k) \in Int /\ Half(n - DropDigits(n, k) * Ten[k], Ten[k])
         /\ Away(n, DropDigits(n, k), Ten[k])
<1> DEFINE t == Ten[k - 1]
           q == Quo(n, t)
           d == DropDigit(q)
           e == q - 10 * d
           r == n - t * q
<1>1. k - 1 \in Nat /\ k - 1 \in 0..(MaxPrecision - 1) /\ (k - 1) + 1 = k
  BY WordIs
<1>2. t \in Nat \ {0} /\ Ten[k] = 10 * t
  BY <1>1, TenIs
<1>3. DropDigits(n, k) = d
  BY <1>1, PowIs DEF DropDigits
<1> HIDE DEF t
<1>4. /\ q \in Int /\ r \in Int
      /\ n >= 0 => q >= 0 /\ 0 <= r /\ r < t
      /\ n <= 0 => q <= 0 /\ -t < r /\ r <= 0
  <2> DEFINE z == Rem(n, t)
  <2>1. /\ q \in Int /\ z \in Int /\ n = t * q + z
        /\ n >= 0 => q >= 0 /\ z >= 0 /\ z < t
        /\ n <= 0 => q <= 0 /\ z <= 0 /\ -z < t
    BY <1>2, QuoIs
  <2> HIDE DEF q, z
  <2>2. r = z
    BY <1>2, <2>1
  <2>3. QED
    BY <1>2, <2>1, <2>2
<1> HIDE DEF q
<1>5. /\ d \in Int
      /\ q >= 0 => d >= 0 /\ -5 <= e /\ e <= 4
      /\ q <= 0 => d <= 0 /\ -4 <= e /\ e <= 5
  BY <1>4, DropDigitIs
<1>6. q = 10 * d + e /\ e \in Int /\ n = t * q + r
  BY <1>2, <1>4, <1>5
<1> HIDE DEF d, e, r
<1>7. n - d * (10 * t) = t * e + r
  <2>1. t * (10 * d + e) = t * (10 * d) + t * e
    BY <1>2, <1>5, <1>6
  <2>2. t * (10 * d) = d * (10 * t)
    BY <1>2, <1>5
  <2>3. QED
    BY <1>2, <1>4, <1>5, <1>6, <2>1, <2>2
<1>8. /\ n >= 0 => -(5 * t) <= t * e /\ t * e <= 4 * t
      /\ n <= 0 => -(4 * t) <= t * e /\ t * e <= 5 * t
  BY <1>2, <1>4, <1>5, <1>6
<1>9. Half(n - d * (10 * t), 10 * t) /\ Away(n, d, 10 * t)
  <2> DEFINE te == t * e
  <2>1. te \in Int
    BY <1>2, <1>6
  <2> HIDE DEF te
  <2>2. /\ n >= 0 => -(5 * t) <= te /\ te <= 4 * t
        /\ n <= 0 => -(4 * t) <= te /\ te <= 5 * t
    BY <1>8 DEF te
  <2>3. Half(te + r, 10 * t)
    BY <1>2, <1>4, <2>1, <2>2 DEF Half
  <2>4. /\ n >= 0 => -(10 * t) <= 2 * (te + r) /\ 2 * (te + r) < 10 * t
        /\ n <= 0 => -(10 * t) < 2 * (te + r) /\ 2 * (te + r) <= 10 * t
    BY <1>2, <1>4, <2>1, <2>2
  <2>5. (n >= 0 => d >= 0) /\ (n <= 0 => d <= 0)
    BY <1>4, <1>5
  <2>6. QED
    BY <1>7, <2>3, <2>4, <2>5 DEF te, Away
<1>10. QED
  BY <1>2, <1>3, <1>5, <1>9

-----------------------------------------------------------------------------
(* Changing a scale.                                                       *)
Fits(n) == n \in Int /\ Abs(n) <= 2 * MaxValue + 1

(* So many digits are more than a number has. *)
LEMMA FarIs ==
  ASSUME NEW n, Fits(n), NEW k \in Nat, k > MaxPrecision
  PROVE  Half(n, Ten[k])
<1>1. /\ MaxValue \in Nat /\ MaxPrecision \in Nat /\ MaxValue < Ten[MaxPrecision]
      /\ Ten[MaxPrecision] \in Nat /\ Ten[k] \in Nat
  BY WordIs, TenIs
<1>2. 10 * Ten[MaxPrecision] <= Ten[k]
  BY <1>1, TenGrows
<1>3. n \in Int /\ Abs(n) <= 2 * MaxValue + 1 /\ Abs(n) \in Nat /\ (n = Abs(n) \/ n = -Abs(n))
  BY AbsIs DEF Fits
<1>4. QED
  BY <1>1, <1>2, <1>3 DEF Half

LEMMA ChangeIs ==
  ASSUME NEW n, Fits(n), n # 0, NEW s \in Int, NEW t \in Int,
         NEW c, c = ChangeScale(Dec(n, s), t)
  PROVE  /\ c = Error => s > t /\ Abs(n) * Ten[s - t] > MaxValue
         /\ c # Error /\ s >= t => c = n * Ten[s - t] /\ c \in Int
         /\ c # Error /\ s < t => c \in Int /\ Half(n - c * Ten[t - s], Ten[t - s])
<1>1. Dec(n, s).data = n /\ Dec(n, s).scale = s /\ n \in Int /\ Error \notin Int
  BY DecimalAssumption DEF Dec, Fits
<1>2. c = IF s > t THEN IF s - t > ToMaxDigits(n) THEN Error ELSE n * pow_10(s - t)
          ELSE IF s = t THEN n
          ELSE IF t - s > MaxPrecision THEN 0
          ELSE DropDigits(n, t - s)
  BY <1>1 DEF ChangeScale
<1>3. CASE s > t
  <2> DEFINE k == s - t
  <2>1. k \in Nat /\ k # 0 /\ MaxPrecision \in Nat
    BY <1>3, WordIs
  <2> HIDE DEF k
  <2>2. CASE k > ToMaxDigits(n)
    <3>1. c = Error /\ Abs(n) * Ten[k] > MaxValue
      BY <1>1, <1>2, <1>3, <2>1, <2>2, ToMaxDigitsIs DEF k
    <3>2. QED
      BY <1>3, <3>1 DEF k
  <2>3. CASE ~(k > ToMaxDigits(n))
    <3>1. k \in 0..(MaxPrecision - 1)
      BY <1>1, <2>1, <2>3, ToMaxDigitsIs
    <3>2. c = n * Ten[k] /\ Ten[k] \in Int
      BY <1>2, <1>3, <2>1, <2>3, <3>1, PowIs, TenIs DEF k
    <3>3. c \in Int
      BY <1>1, <3>2
    <3>4. QED
      BY <1>1, <1>3, <3>2, <3>3 DEF k
  <2>4. QED
    BY <2>2, <2>3
<1>4. CASE s = t
  <2>1. c = n /\ s - t = 0 /\ n * 1 = n
    BY <1>1, <1>2, <1>4
  <2>2. QED
    BY <1>1, <1>4, <2>1, TenIs
<1>5. CASE s < t
  <2> DEFINE k == t - s
  <2>1. k \in Nat /\ k # 0 /\ MaxPrecision \in Nat /\ Ten[k] \in Int
    BY <1>5, WordIs, TenIs
  <2> HIDE DEF k
  <2>2. CASE k > MaxPrecision
    <3>1. c = 0 /\ 0 * Ten[k] = 0 /\ n - 0 = n
      BY <1>1, <1>2, <1>5, <2>1, <2>2 DEF k
    <3>2. Half(n - c * Ten[k], Ten[k])
      BY <2>1, <2>2, <3>1, FarIs
    <3>3. QED
      BY <1>1, <1>5, <3>1, <3>2 DEF k
  <2>3. CASE ~(k > MaxPrecision)
    <3>1. c = DropDigits(n, k) /\ k \in 1..MaxPrecision
      BY <1>2, <1>5, <2>1, <2>3 DEF k
    <3>2. c \in Int /\ Half(n - c * Ten[k], Ten[k])
      BY <1>1, <3>1, DropDigitsIs
    <3>3. QED
      BY <1>1, <1>5, <3>2 DEF k
  <2>4. QED
    BY <2>2, <2>3
<1>6. QED
  BY <1>3, <1>4, <1>5

-----------------------------------------------------------------------------
LEMMA AbsTimes == ASSUME NEW d \in Int, NEW e \in Nat PROVE Abs(d * e) = Abs(d) * e /\ Abs(d) \in Nat
<1>1. d * e \in Int /\ (-d) * e = -(d * e)
  OBVIOUS
<1>2. (d >= 0 => d * e >= 0) /\ (d <= 0 => d * e <= 0)
  OBVIOUS
<1>3. QED
  BY <1>1, <1>2, AbsIs

(* What is within, in whatever low unit it is reckoned.                    *)
WithinLow(n, s, m, t, by, unit, base) ==
  /\ unit >= base
  /\ n = 0 \/ s >= base
  /\ m = 0 \/ t >= base
  /\ 200 * Abs(In(n, s, base) - In(m, t, base)) <= 111 * by * Ten[unit - base]

LEMMA WithinBy ==
  ASSUME NEW n \in Int, NEW s \in Int, NEW m \in Int, NEW t \in Int, NEW by \in Nat, NEW unit \in Int,
         NEW base \in Int, WithinLow(n, s, m, t, by, unit, base)
  PROVE  Within(n, s, m, t, by, unit)
<1>0. /\ unit >= base /\ (n = 0 \/ s >= base) /\ (m = 0 \/ t >= base)
      /\ 200 * Abs(In(n, s, base) - In(m, t, base)) <= 111 * by * Ten[unit - base]
  BY DEF WithinLow
<1> DEFINE S == {unit} \cup (IF n = 0 THEN {} ELSE {s}) \cup (IF m = 0 THEN {} ELSE {t})
           low == Min(S)
<1>1. /\ low \in Int /\ low >= base /\ low <= unit
      /\ n = 0 \/ s >= low
      /\ m = 0 \/ t >= low
  <2>1. \E k \in S : \A j \in S : k <= j
    <3>1. CASE n = 0 /\ m = 0
      <4>1. S = {unit}
        BY <3>1
      <4>2. QED
        BY <4>1
    <3>2. CASE n # 0 /\ m = 0
      <4>1. S = {unit, s}
        BY <3>2
      <4>2. QED
        BY <4>1
    <3>3. CASE n = 0 /\ m # 0
      <4>1. S = {unit, t}
        BY <3>3
      <4>2. QED
        BY <4>1
    <3>4. CASE n # 0 /\ m # 0
      <4>1. S = {unit, s, t}
        BY <3>4
      <4>2. QED
        BY <4>1
    <3>5. QED
      BY <3>1, <3>2, <3>3, <3>4
  <2>2. PICK k \in S : \A j \in S : k <= j
    BY <2>1
  <2>3. low = k
    <3>1. S \in SUBSET Int
      OBVIOUS
    <3> HIDE DEF S
    <3>2. QED
        BY <2>2, <3>1, LeastIs
  <2>4. QED
    BY <1>0, <2>2, <2>3
<1>2. Within(n, s, m, t, by, unit) <=>
        IF unit < low + 3 THEN 200 * Abs(In(n, s, low) - In(m, t, low)) <= 111 * by * Ten[unit - low]
        ELSE Abs(In(n, s, low) - In(m, t, low)) <= 555 * by * Ten[unit - low - 3]
  BY DEF Within
<1> HIDE DEF low
<1> DEFINE e == Ten[low - base]
           x1 == In(n, s, low)
           y1 == In(m, t, low)
           gap == Abs(x1 - y1)
<1>3. e \in Nat \ {0} /\ low - base \in Nat
  BY <1>1, TenIs
<1>4. /\ x1 \in Int /\ In(n, s, base) = x1 * e
  <2>1. CASE n = 0
    <3>1. x1 = 0 /\ In(n, s, base) = 0 /\ 0 * e = 0
      BY <1>3, <2>1 DEF In
    <3>2. QED
      BY <3>1
  <2>2. CASE n # 0
    <3>1. s - low \in Nat /\ s - base = (s - low) + (low - base)
      BY <1>1, <2>2
    <3>2. Ten[s - base] = Ten[s - low] * e /\ Ten[s - low] \in Nat
      BY <1>3, <3>1, TenSum, TenIs
    <3> DEFINE u == Ten[s - low]
    <3>3. u \in Nat /\ x1 = n * u /\ In(n, s, base) = n * (u * e)
      BY <2>2, <3>2 DEF In
    <3> HIDE DEF u, x1, e
    <3>4. n * (u * e) = (n * u) * e /\ n * u \in Int
      BY <1>3, <3>3
    <3>5. QED
      BY <3>3, <3>4
  <2>3. QED
    BY <2>1, <2>2
<1>5. /\ y1 \in Int /\ In(m, t, base) = y1 * e
  <2>1. CASE m = 0
    <3>1. y1 = 0 /\ In(m, t, base) = 0 /\ 0 * e = 0
      BY <1>3, <2>1 DEF In
    <3>2. QED
      BY <3>1
  <2>2. CASE m # 0
    <3>1. t - low \in Nat /\ t - base = (t - low) + (low - base)
      BY <1>1, <2>2
    <3>2. Ten[t - base] = Ten[t - low] * e /\ Ten[t - low] \in Nat
      BY <1>3, <3>1, TenSum, TenIs
    <3> DEFINE u == Ten[t - low]
    <3>3. u \in Nat /\ y1 = m * u /\ In(m, t, base) = m * (u * e)
      BY <2>2, <3>2 DEF In
    <3> HIDE DEF u, y1, e
    <3>4. m * (u * e) = (m * u) * e /\ m * u \in Int
      BY <1>3, <3>3
    <3>5. QED
      BY <3>3, <3>4
  <2>3. QED
    BY <2>1, <2>2
<1> HIDE DEF x1, y1, e
<1>6. gap \in Nat /\ Abs(In(n, s, base) - In(m, t, base)) = gap * e
  <2>1. x1 - y1 \in Int /\ x1 * e - y1 * e = (x1 - y1) * e
    BY <1>3, <1>4, <1>5
  <2> DEFINE d == x1 - y1
  <2>2. d \in Int
    BY <2>1
  <2> HIDE DEF d
  <2>3. Abs(d * e) = Abs(d) * e /\ Abs(d) \in Nat
    BY <1>3, <2>2, AbsTimes
  <2>4. QED
    BY <1>4, <1>5, <2>1, <2>3 DEF d
<1> DEFINE w == Ten[unit - low]
<1>7. unit - low \in Nat /\ w \in Nat \ {0} /\ Ten[unit - base] = w * e
  <2>1. unit - low \in Nat /\ unit - base = (unit - low) + (low - base)
    BY <1>1
  <2>2. QED
    BY <1>3, <2>1, TenSum, TenIs DEF e
<1> HIDE DEF gap, w
<1>8. 200 * gap <= 111 * by * w
  <2>1. 200 * (gap * e) <= 111 * by * (w * e)
    BY <1>0, <1>6, <1>7
  <2>2. (200 * gap) * e <= (111 * by * w) * e
    BY <1>3, <1>6, <1>7, <2>1
  <2> DEFINE l == 200 * gap
             r == 111 * by * w
  <2>3. l \in Int /\ r \in Int /\ l * e <= r * e
    BY <1>6, <1>7, <2>2
  <2> HIDE DEF l, r
  <2>4. l <= r
    BY <1>3, <2>3
  <2>5. QED
    BY <2>4 DEF l, r
<1>9. CASE unit < low + 3
  BY <1>2, <1>8, <1>9 DEF gap, x1, y1, w
<1>10. CASE ~(unit < low + 3)
  <2> DEFINE v == Ten[unit - low - 3]
  <2>1. v \in Nat /\ w = 1000 * v
    <3>1. /\ unit - low - 3 \in Nat /\ unit - low - 2 \in Nat /\ unit - low - 1 \in Nat
          /\ (unit - low - 3) + 1 = unit - low - 2 /\ (unit - low - 2) + 1 = unit - low - 1
          /\ (unit - low - 1) + 1 = unit - low
      BY <1>1, <1>10
    <3>2. /\ Ten[unit - low - 2] = 10 * v /\ Ten[unit - low - 1] = 10 * Ten[unit - low - 2]
          /\ w = 10 * Ten[unit - low - 1] /\ v \in Nat
      BY <3>1, TenIs DEF w
    <3>3. QED
      BY <3>2
  <2> HIDE DEF v
  <2>2. 111 * by * (1000 * v) = 111000 * (by * v) /\ 555 * by * v = 555 * (by * v) /\ by * v \in Int
    BY <2>1
  <2>3. gap <= 555 * by * v
    BY <1>6, <1>8, <2>1, <2>2
  <2>4. QED
    BY <1>2, <1>10, <2>3 DEF gap, x1, y1, v
<1>11. QED
  BY <1>9, <1>10

LEMMA InIs ==
  ASSUME NEW n \in Int, NEW s \in Int, NEW base \in Int, s >= base
  PROVE  In(n, s, base) = n * Ten[s - base] /\ In(n, s, base) \in Int /\ Ten[s - base] \in Nat \ {0}
<1>1. s - base \in Nat /\ Ten[s - base] \in Nat \ {0}
  BY TenIs
<1> DEFINE u == Ten[s - base]
<1>2. u \in Nat \ {0}
  BY <1>1
<1>3. In(n, s, base) = IF n = 0 THEN 0 ELSE n * u
  BY DEF In
<1> HIDE DEF u
<1>4. In(n, s, base) = n * u /\ n * u \in Int
  BY <1>2, <1>3
<1>5. QED
  BY <1>2, <1>4 DEF u

LEMMA InAt == \A n, s, base \in Int : s >= base => In(n, s, base) = n * Ten[s - base]
<1> SUFFICES ASSUME NEW n \in Int, NEW s \in Int, NEW base \in Int, s >= base
             PROVE  In(n, s, base) = n * Ten[s - base]
  OBVIOUS
<1>1. QED
  BY InIs

LEMMA InSame == \A n \in Int, s \in Int : In(n, s, s) = n
<1>1. ASSUME NEW n \in Int, NEW s \in Int PROVE In(n, s, s) = n
  <2>1. In(n, s, s) = IF n = 0 THEN 0 ELSE n * Ten[0]
    <3>1. s - s = 0
      OBVIOUS
    <3>2. QED
      BY <3>1 DEF In
  <2>2. QED
    BY <2>1, TenIs
<1>2. QED
  BY <1>1

LEMMA NothingIsWithin ==
  ASSUME NEW s \in Int, NEW t \in Int, NEW by \in Nat, NEW unit \in Int
  PROVE  Within(0, s, 0, t, by, unit)
<1>1. In(0, s, unit) = 0 /\ In(0, t, unit) = 0 /\ Abs(0 - 0) = 0
  BY DEF In, Abs
<1> DEFINE w == Ten[unit - unit]
<1>2. w \in Nat
  <2>1. unit - unit \in Nat
    OBVIOUS
  <2>2. QED
    BY <2>1, TenIs
<1> HIDE DEF w
<1>3. 200 * Abs(In(0, s, unit) - In(0, t, unit)) <= 111 * by * w
  <2>1. 111 * by * w \in Nat /\ 200 * 0 = 0
    BY <1>2
  <2>2. QED
    BY <1>1, <2>1
<1>4. WithinLow(0, s, 0, t, by, unit, unit)
  BY <1>3 DEF WithinLow, w
<1>5. QED
  BY <1>4, WithinBy

LEMMA MinOfTwo ==
  ASSUME NEW a \in Int, NEW b \in Int
  PROVE  Min({a, b}) = IF a <= b THEN a ELSE b
<1> DEFINE S == {a, b}
<1>1. S \in SUBSET Int /\ a \in S /\ b \in S
  OBVIOUS
<1>2. \A k \in S : k = a \/ k = b
  OBVIOUS
<1> HIDE DEF S
<1>3. a <= b => Min(S) = a
  <2> SUFFICES ASSUME a <= b PROVE Min(S) = a
    OBVIOUS
  <2>1. \A j \in S : a <= j
    BY <1>2
  <2>2. QED
    BY <1>1, <2>1, LeastIs
<1>4. ~(a <= b) => Min(S) = b
  <2> SUFFICES ASSUME ~(a <= b) PROVE Min(S) = b
    OBVIOUS
  <2>1. \A j \in S : b <= j
    BY <1>2
  <2>2. QED
    BY <1>1, <2>1, LeastIs
<1>5. QED
  BY <1>3, <1>4 DEF S

LEMMA ExceedsIs ==
  ASSUME NEW n \in Int, NEW s \in Int, NEW t \in Int, s >= t
  PROVE  Exceeds(n, s, t) <=> Abs(n) * Ten[s - t] > MaxValue
<1>1. Min({s, t}) = t
  BY MinOfTwo
<1>2. t - t = 0 /\ MaxValue * 1 = MaxValue
  BY WordIs
<1>3. QED
  BY <1>1, <1>2, TenIs DEF Exceeds

(* A number that changes its scale is rounded, or exceeds the scale. *)
LEMMA ChangeRounds ==
  ASSUME NEW n, Fits(n), n # 0, NEW s \in Int, NEW t \in Int,
         NEW c, c = ChangeScale(Dec(n, s), t)
  PROVE  /\ c = Error => Exceeds(n, s, t)
         /\ c # Error => c \in Int /\ Within(n, s, c, t, 1, t)
<1>0. n \in Int
  BY DEF Fits
<1>1. CASE c = Error
  <2>1. s > t /\ Abs(n) * Ten[s - t] > MaxValue
    BY <1>1, ChangeIs
  <2>2. s >= t
    BY <2>1
  <2>3. Exceeds(n, s, t)
    BY <1>0, <2>1, <2>2, ExceedsIs
  <2>4. QED
    BY <1>1, <2>3
<1>2. CASE c # Error /\ s >= t
  <2>1. c = n * Ten[s - t] /\ c \in Int
    BY <1>2, ChangeIs
  <2>2. In(n, s, t) = c /\ In(c, t, t) = c
    <3>1. s >= t
      BY <1>2
    <3>2. In(n, s, t) = n * Ten[s - t]
      BY <1>0, <3>1, InIs
    <3>3. \A i \in Int : In(i, t, t) = i
      BY InSame
    <3>4. QED
      BY <2>1, <3>2, <3>3
  <2>3. Abs(c - c) = 0
    BY <2>1 DEF Abs
  <2>4. 200 * Abs(In(n, s, t) - In(c, t, t)) <= 111 * 1 * Ten[t - t]
    <3>1. t - t \in Nat
      OBVIOUS
    <3>2. Ten[t - t] \in Nat
      BY <3>1, TenIs
    <3>3. QED
      BY <2>2, <2>3, <3>2
  <2>5. Within(n, s, c, t, 1, t)
    <3>1. WithinLow(n, s, c, t, 1, t, t)
      BY <1>2, <2>4 DEF WithinLow
    <3>2. QED
      BY <1>0, <2>1, <3>1, WithinBy
  <2>6. QED
    BY <1>2, <2>1, <2>5
<1>3. CASE c # Error /\ s < t
  <2> DEFINE u == Ten[t - s]
             g == n - c * u
  <2>1. c \in Int /\ Half(g, u)
    BY <1>3, ChangeIs
  <2>2. In(n, s, s) = n /\ In(c, t, s) = c * u /\ u \in Nat
    <3>1. In(n, s, s) = n
      BY <1>0, InSame
    <3>2. In(c, t, s) = c * u /\ u \in Nat
      <4>1. t >= s
        BY <1>3
      <4>2. \A i \in Int : In(i, t, s) = i * Ten[t - s] /\ Ten[t - s] \in Nat
        BY <4>1, InIs
      <4>3. QED
        BY <2>1, <4>2
    <3>3. QED
      BY <3>1, <3>2, TenIs
  <2>3. g \in Int
    BY <1>0, <2>1, <2>2
  <2> HIDE DEF u
  <2>4. 200 * Abs(g) <= 111 * 1 * u
    <3> HIDE DEF g
    <3>1. QED
      BY <2>1, <2>2, <2>3 DEF Half, Abs
  <2>5. 200 * Abs(In(n, s, s) - In(c, t, s)) <= 111 * 1 * Ten[t - s]
    BY <2>2, <2>4 DEF u
  <2>6. Within(n, s, c, t, 1, t)
    <3>1. WithinLow(n, s, c, t, 1, t, s)
      BY <1>3, <2>5 DEF WithinLow
    <3>2. QED
      BY <1>0, <2>1, <3>1, WithinBy
  <2>7. QED
    BY <1>3, <2>1, <2>6
<1>4. QED
  BY <1>1, <1>2, <1>3

-----------------------------------------------------------------------------
(* Conversions.                                                            *)

(* A decimal that has not done its operation yet. *)
Fresh == x \in Decimal \cup NewDecimals

LEMMA FreshIs ==
  ASSUME Fresh
  PROVE  /\ x.data \in Int /\ Abs(x.data) <= MaxValue /\ Fits(x.data) /\ x.scale \in Int
         /\ x = Dec(x.data, x.scale)
         /\ x.scale \in MinScale..MaxScale \/ (x.scale = NotScale /\ x.data = 0)
<1>1. MaxValue \in Nat /\ MinScale \in Int /\ MaxScale \in Int /\ NotScale \in Int
  BY WordIs, ScaleAssumption
<1>2. CASE x \in Decimal
  <2>1. x \in [data : (-MaxValue)..MaxValue, scale : MinScale..MaxScale]
    BY <1>2, DecimalAssumption
  <2>2. x.data \in (-MaxValue)..MaxValue /\ x.scale \in MinScale..MaxScale /\ x = Dec(x.data, x.scale)
    BY <2>1 DEF Dec
  <2>3. QED
    BY <1>1, <2>2 DEF Fits, Abs
<1>3. CASE x \in NewDecimals
  <2>1. PICK scale \in Scales \cup {NotScale} : x = Dec(0, scale)
    BY <1>3 DEF NewDecimals
  <2>2. scale \in MinScale..MaxScale \/ scale = NotScale
    BY <2>1, ScaleAssumption
  <2>3. x.data = 0 /\ x.scale = scale
    BY <2>1 DEF Dec
  <2>4. QED
    BY <1>1, <2>1, <2>2, <2>3 DEF Fits, Abs
<1>4. QED
  BY <1>2, <1>3 DEF Fresh

LEMMA DecIs ==
  ASSUME NEW n \in Int, NEW s \in Int
  PROVE  Dec(n, s) # Error /\ Dec(n, s).data = n /\ Dec(n, s).scale = s
  BY DecimalAssumption DEF Dec

(* What is above the word does not fit a scale that is not above 0. *)
LEMMA TooLarge ==
  ASSUME NEW n \in Int, Abs(n) > MaxValue, NEW scale \in Int, scale <= 0
  PROVE  Exceeds(n, 0, scale)
<1>1. 0 >= scale /\ 0 - scale \in Nat
  OBVIOUS
<1>2. Ten[0 - scale] \in Nat \ {0} /\ Abs(n) \in Nat
  BY <1>1, TenIs, AbsIs
<1> DEFINE u == Ten[0 - scale]
           k == Abs(n)
<1>3. u \in Nat \ {0} /\ k \in Nat /\ k > MaxValue
  BY <1>2
<1> HIDE DEF u, k
<1>4. k * u > MaxValue
  <2>1. k * u >= k
    BY <1>3
  <2>2. k * u \in Nat
    BY <1>3
  <2>3. QED
    BY <1>3, <2>1, <2>2, WordIs
<1>5. QED
  BY <1>1, <1>4, ExceedsIs DEF u, k

(* An integer that is assigned changes its scale from 0. *)
LEMMA FittingRounds ==
  ASSUME NEW n, Fits(n), NEW asked \in Int, NEW scale \in Int,
         asked = NotScale => scale = 0, asked # NotScale => scale = asked,
         ~(n = MinInt64 /\ scale <= 0)
  PROVE  /\ SetSigned(n, asked) = Error => Exceeds(n, 0, scale)
         /\ SetSigned(n, asked) # Error =>
              /\ SetSigned(n, asked).data \in Int
              /\ Within(n, 0, SetSigned(n, asked).data, scale, 1, scale)
<1> DEFINE out == SetSigned(n, asked)
           c == ChangeScale(Dec(n, 0), scale)
<1>0. n \in Int /\ Error \notin Int
  BY DecimalAssumption DEF Fits
<1>9. scale = Given(asked)
  BY DEF Given
<1>1. out = IF n = 0 THEN Dec(0, scale)
            ELSE IF scale <= 0
            THEN IF -scale > ToMaxDigits(n) THEN Error ELSE Dec(n * pow_10(-scale), scale)
            ELSE IF scale > MaxPrecision THEN Dec(0, scale)
            ELSE Dec(DropDigits(n, scale), scale)
  BY <1>9 DEF SetSigned
<1>2. CASE n = 0
  <2>1. out = Dec(0, scale) /\ out # Error /\ out.data = 0
    BY <1>1, <1>2, DecIs
  <2>2. Within(n, 0, out.data, scale, 1, scale)
    BY <1>2, <2>1, NothingIsWithin
  <2>3. QED
    BY <2>1, <2>2
<1>3. CASE n # 0
  <2>1. c = IF 0 > scale THEN IF 0 - scale > ToMaxDigits(n) THEN Error ELSE n * pow_10(0 - scale)
            ELSE IF 0 = scale THEN n
            ELSE IF scale - 0 > MaxPrecision THEN 0
            ELSE DropDigits(n, scale - 0)
    BY <1>0, DecIs DEF ChangeScale
  <2>2. /\ c = Error => Exceeds(n, 0, scale)
        /\ c # Error => c \in Int /\ Within(n, 0, c, scale, 1, scale)
    BY <1>3, ChangeRounds
  <2>3. out = IF c = Error THEN Error ELSE Dec(c, scale)
    <3>1. CASE scale = 0
      <4>1. ToMaxDigits(n) \in Nat /\ pow_10(0) = 1 /\ n * 1 = n
        <5>1. 0 \in 0..(MaxPrecision - 1)
          BY WordIs
        <5>2. QED
          BY <1>0, <1>3, <5>1, PowIs, TenIs, ToMaxDigitsIs
      <4>2. c = n /\ -scale = 0 /\ ~(-scale > ToMaxDigits(n))
        <5>1. c = n
          BY <2>1, <3>1
        <5>2. -scale = 0
          <6>1. -scale = 0 - scale
            OBVIOUS
          <6>2. 0 - scale = 0
            BY <3>1
          <6>3. QED
            BY <6>1, <6>2
        <5>3. QED
          BY <4>1, <5>1, <5>2
      <4>3. out = Dec(n * pow_10(-scale), scale)
        BY <1>1, <1>3, <3>1, <4>2
      <4>4. QED
        BY <1>0, <4>1, <4>2, <4>3
    <3>2. CASE scale < 0
      <4>1. -scale = 0 - scale
        OBVIOUS
      <4>2. CASE -scale > ToMaxDigits(n)
        BY <1>1, <1>3, <2>1, <3>2, <4>1, <4>2
      <4>3. CASE ~(-scale > ToMaxDigits(n))
        <5>1. c = n * pow_10(-scale) /\ out = Dec(n * pow_10(-scale), scale)
          BY <1>1, <1>3, <2>1, <3>2, <4>1, <4>3
        <5>2. c # Error
          <6>1. -scale \in Nat /\ -scale \in 0..(MaxPrecision - 1)
            BY <1>0, <1>3, <3>2, <4>3, ToMaxDigitsIs, WordIs
          <6>2. pow_10(-scale) \in Int
            BY <6>1, PowIs, TenIs
          <6>3. QED
            BY <1>0, <5>1, <6>2
        <5>3. QED
          BY <5>1, <5>2
      <4>4. QED
        BY <4>2, <4>3
    <3>3. CASE scale > 0
      <4>1. scale - 0 = scale
        OBVIOUS
      <4>2. out = Dec(c, scale)
        BY <1>1, <1>3, <2>1, <3>3, <4>1
      <4>3. c # Error
        <5>1. ~(0 > scale)
          BY <3>3
        <5>2. CASE scale > MaxPrecision
          BY <1>0, <2>1, <3>3, <4>1, <5>2
        <5>3. CASE ~(scale > MaxPrecision)
          <6>1. scale \in 1..MaxPrecision /\ c = DropDigits(n, scale)
            BY <2>1, <3>3, <4>1, <5>3, WordIs
          <6>2. QED
            BY <1>0, <6>1, DropDigitsIs
        <5>4. QED
          BY <5>2, <5>3
      <4>4. QED
        BY <4>2, <4>3
    <3>4. QED
      BY <3>1, <3>2, <3>3
  <2> HIDE DEF c, out
  <2>4. CASE c = Error
    BY <2>2, <2>3, <2>4 DEF out
  <2>5. CASE c # Error
    <3>1. out # Error /\ out.data = c
      BY <2>2, <2>3, <2>5, DecIs
    <3>2. QED
      BY <2>2, <2>5, <3>1 DEF out
  <2>6. QED
    BY <2>4, <2>5
<1>4. QED
  BY <1>2, <1>3

LEMMA SignedRounds ==
  ASSUME NEW n, Fits(n), NEW asked \in Int, NEW scale \in Int,
         asked = NotScale => scale = 0, asked # NotScale => scale = asked
  PROVE  /\ SetSigned(n, asked) = Error => Exceeds(n, 0, scale)
         /\ SetSigned(n, asked) # Error =>
              /\ SetSigned(n, asked).data \in Int
              /\ Within(n, 0, SetSigned(n, asked).data, scale, 1, scale)
<1> DEFINE out == SetSigned(n, asked)
<1>0. n \in Int /\ Error \notin Int
  BY DecimalAssumption DEF Fits
<1>9. scale = Given(asked)
  BY DEF Given
<1>10. CASE n = MinInt64 /\ scale <= 0
  <2>1. Abs(n) > MaxValue /\ n # 0 /\ MaxValue \in Nat
    BY <1>0, <1>10, WordIs DEF MinInt64, Abs
  <2>2. out = Error
    BY <1>9, <1>10, <2>1 DEF SetSigned
  <2>3. QED
    BY <1>0, <1>10, <2>1, <2>2, TooLarge
<1>11. CASE ~(n = MinInt64 /\ scale <= 0)
  BY <1>11, FittingRounds
<1>12. QED
  BY <1>10, <1>11

LEMMA UnsignedRounds ==
  ASSUME NEW n \in Nat, Fits(n), NEW asked \in Int, NEW scale \in Int,
         asked = NotScale => scale = 0, asked # NotScale => scale = asked
  PROVE  /\ SetUnsigned(n, asked) = Error => Exceeds(n, 0, scale)
         /\ SetUnsigned(n, asked) # Error =>
              /\ SetUnsigned(n, asked).data \in Int
              /\ Within(n, 0, SetUnsigned(n, asked).data, scale, 1, scale)
<1>1. SetUnsigned(n, asked) = IF n > MaxValue /\ scale <= 0 THEN Error ELSE SetSigned(n, scale)
  BY DEF SetUnsigned, Given
<1>2. CASE n > MaxValue /\ scale <= 0
  <2>1. n \in Int /\ Abs(n) = n /\ scale <= 0
    BY <1>2, AbsIs
  <2>5. Exceeds(n, 0, scale)
    BY <1>2, <2>1, TooLarge
  <2>6. QED
    BY <1>1, <1>2, <2>5
<1>3. CASE ~(n > MaxValue /\ scale <= 0)
  <2>1. SetUnsigned(n, asked) = SetSigned(n, scale)
    BY <1>1, <1>3
  <2>2. scale = NotScale => scale = 0
    OBVIOUS
  <2>3. n \in Int
    OBVIOUS
  <2>4. /\ SetSigned(n, scale) = Error => Exceeds(n, 0, scale)
        /\ SetSigned(n, scale) # Error =>
             /\ SetSigned(n, scale).data \in Int
             /\ Within(n, 0, SetSigned(n, scale).data, scale, 1, scale)
    BY <2>2, <2>3, SignedRounds
  <2>5. QED
    BY <2>1, <2>4
<1>4. QED
  BY <1>2, <1>3

(* What is converted to an integer changes its scale to 0. *)
LEMMA ToInt64Is ==
  ASSUME NEW n, Fits(n), n # 0, NEW s \in Int
  PROVE  ToInt64(Dec(n, s), "round") = ChangeScale(Dec(n, s), 0)
<1> DEFINE r == "round"
<1>1. n \in Int /\ Dec(n, s).data = n /\ Dec(n, s).scale = s
  BY DecIs DEF Fits
<1>2. ToInt64(Dec(n, s), r) =
        IF s >= 0
        THEN IF s > ToMaxDigits(n) THEN Error ELSE n * pow_10(s)
        ELSE IF -s > MaxPrecision THEN 0
        ELSE DropDigits(n, -s)
  BY <1>1 DEF ToInt64
<1>3. ChangeScale(Dec(n, s), 0) =
        IF s > 0
        THEN IF s - 0 > ToMaxDigits(n) THEN Error ELSE n * pow_10(s - 0)
        ELSE IF s = 0 THEN n
        ELSE IF 0 - s > MaxPrecision THEN 0
        ELSE DropDigits(n, 0 - s)
  BY <1>1 DEF ChangeScale
<1>4. CASE s > 0
  <2>1. s - 0 = s /\ s >= 0
    BY <1>4
  <2>2. QED
    BY <1>2, <1>3, <1>4, <2>1
<1>5. CASE s = 0
  <2>1. 0 \in 0..(MaxPrecision - 1) /\ ToMaxDigits(n) \in Nat
    BY <1>1, WordIs, ToMaxDigitsIs
  <2>2. pow_10(0) = 1 /\ n * 1 = n /\ ~(0 > ToMaxDigits(n)) /\ 0 >= 0
    BY <1>1, <2>1, PowIs, TenIs
  <2>3. ToInt64(Dec(n, s), r) = n
    BY <1>2, <1>5, <2>2
  <2>4. ChangeScale(Dec(n, s), 0) = n
    BY <1>3, <1>5
  <2>5. QED
    BY <2>3, <2>4
<1>6. CASE s < 0
  <2>1. 0 - s = -s /\ ~(s >= 0) /\ ~(s > 0) /\ s # 0
    BY <1>6
  <2>2. QED
    BY <1>2, <1>3, <2>1
<1>7. QED
  BY <1>4, <1>5, <1>6

LEMMA Int64Rounds ==
  ASSUME NEW n, Fits(n), NEW s \in Int, NEW out, out = ToInt64(Dec(n, s), "round")
  PROVE  IF out = Error THEN Exceeds(n, s, 0) ELSE Within(n, s, out, 0, 1, 0)
<1>1. CASE n = 0
  <2>1. out = 0
    BY <1>1 DEF ToInt64, Dec
  <2>2. Within(0, s, 0, 0, 1, 0) /\ 0 # Error
    BY NothingIsWithin, DecimalAssumption
  <2>3. QED
    BY <1>1, <2>1, <2>2
<1>2. CASE n # 0
  <2>1. out = ChangeScale(Dec(n, s), 0)
    BY <1>2, ToInt64Is
  <2>2. QED
    BY <1>2, <2>1, ChangeRounds
<1>3. QED
  BY <1>1, <1>2

(* The narrow integer is the nearest one, and what is refused is at least  *)
(* half away from all of them.                                             *)
LEMMA LimitedRounds ==
  ASSUME NEW n, Fits(n), n # 0, NEW s \in Int, NEW lo \in Int, NEW hi \in Int,
         -MaxValue <= lo, hi <= MaxValue,
         NEW out, out = Limited(ToInt64(Dec(n, s), "round"), lo, hi)
  PROVE  LET low == Min({s, 0})
             all == n * Ten[s - low]
         IN  IF out = Error
             THEN \A m \in lo..hi : 2 * Abs(all - m * Ten[-low]) >= Ten[-low]
             ELSE out \in lo..hi /\ 2 * Abs(all - out * Ten[-low]) <= Ten[-low]
<1> DEFINE low == Min({s, 0})
           all == n * Ten[s - low]
           u == Ten[-low]
           c == ToInt64(Dec(n, s), "round")
<1>1. n \in Int /\ Error \notin Int /\ MaxValue \in Nat
  BY DecimalAssumption, WordIs DEF Fits
<1>2. /\ lo \in Int /\ hi \in Int
      /\ \A m \in lo..hi : m \in Int /\ -MaxValue <= m /\ m <= MaxValue
  BY <1>1
<1>4. c = ChangeScale(Dec(n, s), 0)
  BY ToInt64Is
<1> HIDE DEF c
<1>5. /\ all \in Int /\ u \in Nat \ {0}
      /\ c = Error => u = 1 /\ Abs(all) > MaxValue
      /\ c # Error => c \in Int /\ Half(all - c * u, u)
  <2>1. CASE s >= 0
    <3>1. low = 0
      <4>1. s <= 0 => s = 0
        BY <2>1
      <4>2. QED
        BY <4>1, MinOfTwo
    <3>2. all = n * Ten[s] /\ u = 1 /\ s - 0 = s
      <4>1. s - low = s /\ -low = 0
        <5>1. \A i \in Int : i >= 0 /\ i <= 0 => -i = 0
          OBVIOUS
        <5>2. low \in Int /\ low >= 0 /\ low <= 0
          BY <3>1
        <5> HIDE DEF low
        <5>3. s - low = s
          BY <3>1
        <5>4. QED
          BY <5>1, <5>2, <5>3
      <4>2. QED
        BY <4>1, TenIs
    <3>3. s \in Nat
      BY <2>1
    <3>4. Ten[s] \in Nat
      BY <3>3, TenIs
    <3> DEFINE v == Ten[s]
    <3>5. v \in Nat /\ all = n * v
      BY <3>2, <3>4
    <3>6. c = Error => Abs(n) * v > MaxValue
      BY <1>4, <3>2, ChangeIs
    <3>7. c # Error => c = n * v /\ c \in Int
      BY <1>4, <2>1, <3>2, ChangeIs
    <3> HIDE DEF v, all, u
    <3>8. all \in Int /\ Abs(all) = Abs(n) * v
      BY <1>1, <3>5, AbsTimes
    <3>9. c # Error => all - c * 1 = 0
      BY <3>5, <3>7
    <3>10. Half(0, 1)
      BY DEF Half
    <3>11. QED
      BY <3>2, <3>6, <3>7, <3>8, <3>9, <3>10
  <2>2. CASE s < 0
    <3>1. low = s /\ s - s = 0 /\ -s = 0 - s
      <4>1. s <= 0
        BY <2>2
      <4>2. QED
        BY <4>1, MinOfTwo
    <3>2. all = n
      <4>1. s - low = 0
        BY <3>1
      <4>2. all = n * Ten[0]
        BY <4>1
      <4>3. QED
        BY <1>1, <4>2, TenIs
    <3>3. u = Ten[0 - s]
      BY <3>1
    <3>4. -s \in Nat
      BY <2>2
    <3>5. u \in Nat \ {0}
      BY <3>1, <3>4, TenIs
    <3>6. c # Error
      BY <1>4, <2>2, ChangeIs
    <3>7. c \in Int /\ Half(n - c * Ten[0 - s], Ten[0 - s])
      BY <1>4, <2>2, <3>6, ChangeIs
    <3>8. QED
      BY <1>1, <3>2, <3>3, <3>5, <3>6, <3>7
  <2>3. QED
    BY <2>1, <2>2
<1>3. out = IF c = Error \/ (c # Error /\ (c > hi \/ c < lo)) THEN Error ELSE c
  <2>1. out = IF c = Error \/ c \notin lo..hi THEN Error ELSE c
    BY DEF Limited, c
  <2>2. c # Error => c \in Int
    BY <1>5
  <2>3. QED
    BY <2>1, <2>2
<1> HIDE DEF all, u
<1>6. CASE c = Error
  <2>1. out = Error /\ u = 1 /\ Abs(all) > MaxValue
    BY <1>3, <1>5, <1>6
  <2>2. ASSUME NEW m \in lo..hi PROVE 2 * Abs(all - m * u) >= u
    <3>1. m \in Int /\ -MaxValue <= m /\ m <= MaxValue
      BY <1>2
    <3>2. m * u = m /\ all - m \in Int
      BY <1>5, <2>1, <3>1
    <3>3. Abs(all - m) \in Nat /\ Abs(all - m) # 0
      BY <1>1, <1>5, <2>1, <3>1, <3>2 DEF Abs
    <3>4. QED
      BY <2>1, <3>2, <3>3
  <2>3. QED
    BY <2>1, <2>2 DEF all, u
<1>7. CASE c # Error /\ (c > hi \/ c < lo)
  <2>1. out = Error /\ c \in Int /\ Half(all - c * u, u)
    BY <1>3, <1>5, <1>7
  <2>2. ASSUME NEW m \in lo..hi PROVE 2 * Abs(all - m * u) >= u
    <3>1. m \in Int /\ (c - m >= 1 \/ c - m <= -1)
      BY <1>2, <1>7, <2>1
    <3> DEFINE d == c - m
               g == all - c * u
    <3>2. d \in Int /\ g \in Int /\ all - m * u = g + d * u
      BY <1>5, <2>1, <3>1
    <3>3. d >= 1 \/ d <= -1
      BY <3>1
    <3>4. Half(g, u)
      BY <2>1
    <3> HIDE DEF d, g
    <3>5. d * u >= u \/ d * u <= -u
      BY <1>5, <3>2, <3>3
    <3> DEFINE p == d * u
    <3>6. p \in Int
      BY <1>5, <3>2
    <3>7. p >= u \/ p <= -u
      BY <3>5
    <3> HIDE DEF p
    <3>8. 2 * Abs(g + p) >= u
      BY <1>5, <3>2, <3>4, <3>6, <3>7 DEF Half, Abs
    <3>9. QED
      BY <3>2, <3>8 DEF p
  <2>3. QED
    BY <2>1, <2>2 DEF all, u
<1>8. CASE c # Error /\ ~(c > hi \/ c < lo)
  <2>1. out = c /\ c \in Int /\ Half(all - c * u, u) /\ c # Error
    BY <1>3, <1>5, <1>8
  <2>2. c \in lo..hi
    BY <1>2, <1>8, <2>1
  <2>3. 2 * Abs(all - c * u) <= u
    <3> DEFINE g == all - c * u
    <3>1. g \in Int /\ Half(g, u)
      BY <1>5, <2>1
    <3> HIDE DEF g
    <3>2. 2 * Abs(g) <= u
      BY <1>5, <3>1 DEF Half, Abs
    <3>3. QED
      BY <3>2 DEF g
  <2>4. QED
    BY <2>1, <2>2, <2>3 DEF all, u
<1>9. QED
  BY <1>6, <1>7, <1>8

-----------------------------------------------------------------------------
(* Sums.                                                                   *)
InWord(n) == n \in Int /\ Abs(n) <= MaxValue

LEMMA InWordIs ==
  ASSUME NEW n \in Int
  PROVE  /\ InWord(n) <=> -MaxValue <= n /\ n <= MaxValue
         /\ InRange(n) <=> InWord(n)
         /\ InWord(n) => Fits(n)
<1>1. MaxValue \in Nat
  BY WordIs
<1>2. QED
  BY <1>1 DEF InWord, InRange, Fits, Abs

(* What Plus does with a sum of two numbers that is e in the unit 10^low. *)
LEMMA PlusRounds ==
  ASSUME NEW a \in Int, NEW b \in Int, NEW t \in Int, NEW low \in Int, t >= low, t <= MaxScale,
         NEW e \in Int, Half(e - (a + b) * Ten[t - low], Ten[t - low]),
         NEW out, out = Plus(a, b, t)
  PROVE  IF out = Error THEN Abs(e) > MaxValue * Ten[MaxScale - low]
         ELSE Within(out.data, out.scale, e, low, 1, out.scale)
<1> DEFINE n == a + b
           u == Ten[t - low]
           g == e - n * u
<1>1. t - low \in Nat /\ MaxValue \in Nat /\ MaxScale \in Int
  BY WordIs, ScaleAssumption
<1>2. n \in Int /\ u \in Nat \ {0} /\ Ten[(t - low) + 1] = 10 * u
  BY <1>1, TenIs
<1>3. g \in Int /\ Half(g, u)
  BY <1>2
<1>4. out = IF InRange(n) THEN Dec(n, t) ELSE IF t = MaxScale THEN Error ELSE Dec(DropDigit(n), t + 1)
  BY DEF Plus
<1>5. In(e, low, low) = e
  BY InSame
<1> HIDE DEF n, u
<1>6. n * u \in Int /\ e = n * u + g
  BY <1>2
<1>7. CASE InRange(n)
  <2>1. out = Dec(n, t) /\ out # Error /\ out.data = n /\ out.scale = t
    BY <1>2, <1>4, <1>7, DecIs
  <2>2. In(n, t, low) = n * u
    <3>1. In(n, t, low) = n * Ten[t - low]
      BY <1>2, InAt
    <3>2. QED
      BY <3>1 DEF u
  <2>3. 200 * Abs(n * u - e) <= 111 * 1 * u
    <3> DEFINE p == n * u
    <3>1. p \in Int /\ e = p + g
      BY <1>6
    <3> HIDE DEF p, g
    <3>2. 200 * Abs(p - e) <= 111 * 1 * u
      BY <1>2, <1>3, <3>1 DEF Half, Abs
    <3>3. QED
      BY <3>2 DEF p
  <2>4. WithinLow(n, t, e, low, 1, t, low)
    BY <1>5, <2>2, <2>3 DEF WithinLow, u
  <2>5. Within(n, t, e, low, 1, t)
    BY <1>2, <2>4, WithinBy
  <2>6. QED
    BY <2>1, <2>5
<1>8. CASE ~InRange(n) /\ t = MaxScale
  <2>1. out = Error /\ u = Ten[MaxScale - low]
    BY <1>4, <1>8 DEF u
  <2>2. n >= MaxValue + 1 \/ n <= -(MaxValue + 1)
    BY <1>1, <1>2, <1>8 DEF InRange
  <2> DEFINE p == n * u
             w == MaxValue * u
  <2>3. p \in Int /\ w \in Nat /\ (p >= w + u \/ p <= -(w + u))
    <3>1. (MaxValue + 1) * u = w + u /\ w \in Nat
      BY <1>1, <1>2
    <3>2. n >= MaxValue + 1 => n * u >= (MaxValue + 1) * u
      BY <1>1, <1>2
    <3>3. n <= -(MaxValue + 1) => n * u <= (-(MaxValue + 1)) * u
      BY <1>1, <1>2
    <3>4. (-(MaxValue + 1)) * u = -((MaxValue + 1) * u)
      BY <1>1, <1>2
    <3>5. QED
      BY <1>6, <2>2, <3>1, <3>2, <3>3, <3>4
  <2>4. e = p + g
    BY <1>6
  <2> HIDE DEF p, w, g
  <2>5. Abs(e) > w
    BY <1>2, <1>3, <2>3, <2>4 DEF Half, Abs
  <2>6. QED
    BY <2>1, <2>5 DEF w
<1>9. CASE ~InRange(n) /\ t # MaxScale
  <2> DEFINE d == DropDigit(n)
             r == n - 10 * d
  <2>1. d \in Int /\ r \in Int /\ -5 <= r /\ r <= 5
    <3>1. /\ d \in Int
          /\ n >= 0 => -5 <= r /\ r <= 4
          /\ n <= 0 => -4 <= r /\ r <= 5
      BY <1>2, DropDigitIs
    <3> HIDE DEF d
    <3>2. r \in Int
      BY <1>2, <3>1
    <3> HIDE DEF r
    <3>3. QED
      BY <1>2, <3>1, <3>2
  <2>2. out = Dec(d, t + 1) /\ out # Error /\ out.data = d /\ out.scale = t + 1
    BY <1>4, <1>9, <2>1, DecIs
  <2> HIDE DEF d
  <2>3. (t + 1) - low = (t - low) + 1 /\ t + 1 >= low /\ t + 1 \in Int
    OBVIOUS
  <2>4. Ten[(t + 1) - low] = 10 * u
    BY <1>2, <2>3
  <2>5. In(d, t + 1, low) = d * (10 * u)
    <3>1. In(d, t + 1, low) = d * Ten[(t + 1) - low]
      <4> DEFINE v == t + 1
      <4>1. v \in Int /\ v >= low
        OBVIOUS
      <4> HIDE DEF v
      <4>2. In(d, v, low) = d * Ten[v - low]
        BY <2>1, <4>1, InAt
      <4>3. QED
        BY <4>2 DEF v
    <3>2. QED
      BY <2>4, <3>1
  <2>6. 200 * Abs(d * (10 * u) - e) <= 111 * 1 * (10 * u)
    <3>1. n = 10 * d + r
      BY <1>2, <2>1
    <3> HIDE DEF r
    <3> DEFINE p == d * (10 * u)
               q == r * u
    <3>2. p \in Int /\ q \in Int /\ n * u = p + q
      <4>1. (10 * d + r) * u = (10 * d) * u + r * u
        BY <1>2, <2>1
      <4>2. (10 * d) * u = d * (10 * u)
        BY <1>2, <2>1
      <4>3. p \in Int /\ q \in Int
        BY <1>2, <2>1
      <4>4. QED
        BY <3>1, <4>1, <4>2, <4>3
    <3>3. -(5 * u) <= q /\ q <= 5 * u
      BY <1>2, <2>1
    <3>4. e = p + q + g
      BY <1>6, <3>2
    <3> HIDE DEF p, q, g
    <3>5. 200 * Abs(p - e) <= 111 * 1 * (10 * u)
      BY <1>2, <1>3, <3>2, <3>3, <3>4 DEF Half, Abs
    <3>6. QED
      BY <3>5 DEF p
  <2>7. WithinLow(d, t + 1, e, low, 1, t + 1, low)
    BY <1>5, <2>3, <2>4, <2>5, <2>6 DEF WithinLow
  <2>8. Within(d, t + 1, e, low, 1, t + 1)
    BY <2>1, <2>3, <2>7, WithinBy
  <2>9. QED
    BY <2>2, <2>8
<1>10. QED
  BY <1>7, <1>8, <1>9

(* The number with the larger scale gets zeros, the other loses digits. *)
LEMMA AlignedRounds ==
  ASSUME NEW h \in Int, h # 0, InWord(h), NEW l \in Int, l # 0, InWord(l),
         NEW s \in Int, NEW low \in Int, s >= low, s - low < MaxPrecision, s <= MaxScale,
         NEW up, up = Min({s - low, ToMaxDigits(h)}),
         NEW down, down = (IF up < s - low THEN DropDigits(l, s - low - up) ELSE l),
         NEW out, out = Plus(h * pow_10(up), down, s - up)
  PROVE  IF out = Error THEN Abs(h * Ten[s - low] + l) > MaxValue * Ten[MaxScale - low]
         ELSE Within(out.data, out.scale, h * Ten[s - low] + l, low, 1, out.scale)
<1> DEFINE diff == s - low
           k == diff - up
           t == s - up
           p == h * Ten[up]
           e == h * Ten[diff] + l
<1>1. diff \in Nat /\ MaxPrecision \in Nat /\ diff < MaxPrecision
  BY WordIs
<1>2. ToMaxDigits(h) \in 0..(MaxPrecision - 1)
  BY ToMaxDigitsIs
<1>3. up \in 0..(MaxPrecision - 1) /\ up <= diff
  <2> DEFINE z == ToMaxDigits(h)
  <2>1. z \in Nat /\ z <= MaxPrecision - 1
    BY <1>1, <1>2
  <2> HIDE DEF diff, z
  <2>2. up = IF diff <= z THEN diff ELSE z
    BY <1>1, <2>1, MinOfTwo DEF diff, z
  <2>3. QED
    BY <1>1, <2>1, <2>2
<1>4. k \in Nat /\ k <= diff /\ t - low = k /\ t \in Int /\ t >= low /\ t <= MaxScale /\ diff = up + k
      /\ s - low - up = k
  BY <1>1, <1>3, ScaleAssumption
<1>5. pow_10(up) = Ten[up] /\ Ten[up] \in Nat
  BY <1>1, <1>3, PowIs, TenIs
<1>6. Ten[diff] = Ten[up] * Ten[k] /\ Ten[k] \in Nat \ {0}
  <2>1. up \in Nat /\ k \in Nat /\ diff = up + k
    BY <1>1, <1>3, <1>4
  <2> HIDE DEF k, diff
  <2>2. Ten[up + k] = Ten[up] * Ten[k]
    BY <2>1, TenSum
  <2>3. QED
    BY <2>1, <2>2, TenIs
<1>7. p \in Int /\ h * Ten[diff] = p * Ten[k] /\ e \in Int
  <2> DEFINE u == Ten[up]
             v == Ten[k]
  <2>1. u \in Nat /\ v \in Nat /\ Ten[diff] = u * v
    BY <1>5, <1>6
  <2> HIDE DEF u, v
  <2>2. h * (u * v) = (h * u) * v /\ h * u \in Int /\ (h * u) * v \in Int
    BY <2>1
  <2>3. QED
    BY <2>1, <2>2 DEF u, v
<1>8. down \in Int /\ Half(l - down * Ten[k], Ten[k])
  <2>1. CASE up < diff
    <3>1. k \in 1..MaxPrecision
      BY <1>1, <1>3, <1>4, <2>1
    <3>2. down = DropDigits(l, k)
      BY <1>4, <2>1
    <3> HIDE DEF k
    <3>3. QED
      BY <3>1, <3>2, DropDigitsIs
  <2>2. CASE ~(up < diff)
    <3>1. down = l /\ k = 0
      BY <1>1, <1>3, <2>2
    <3>2. Ten[k] = 1 /\ l - l * 1 = 0
      BY <3>1, TenIs
    <3>3. QED
      BY <3>1, <3>2 DEF Half
  <2>3. QED
    BY <2>1, <2>2
<1>9. Half(e - (p + down) * Ten[t - low], Ten[t - low])
  <2>1. e - (p + down) * Ten[k] = l - down * Ten[k]
    <3> DEFINE v == Ten[k]
    <3>1. v \in Nat
      BY <1>6
    <3> HIDE DEF v, p
    <3>2. (p + down) * v = p * v + down * v /\ p * v \in Int /\ down * v \in Int
      BY <1>7, <1>8, <3>1
    <3>3. e = p * v + l
      BY <1>7 DEF v
    <3> HIDE DEF e
    <3>4. e - (p + down) * v = l - down * v
      BY <3>2, <3>3
    <3>5. QED
      BY <3>4 DEF v
  <2>2. QED
    BY <1>4, <1>8, <2>1
<1>10. out = Plus(p, down, t)
  BY <1>5
<1> HIDE DEF p, t, e
<1>11. IF out = Error THEN Abs(e) > MaxValue * Ten[MaxScale - low]
       ELSE Within(out.data, out.scale, e, low, 1, out.scale)
  BY <1>4, <1>7, <1>8, <1>9, <1>10, PlusRounds
<1>12. QED
  BY <1>11 DEF e

LEMMA AddRounds ==
  ASSUME NEW n \in Int, n # 0, InWord(n), NEW m \in Int, m # 0, InWord(m),
         NEW s \in MinScale..MaxScale, NEW t \in MinScale..MaxScale,
         Abs(s - t) < MaxPrecision,
         NEW out, out = Add(Dec(n, s), Dec(m, t))
  PROVE  LET low == Min({s, t})
             e == n * Ten[s - low] + m * Ten[t - low]
         IN  IF out = Error THEN Abs(e) > MaxValue * Ten[MaxScale - low]
             ELSE Within(out.data, out.scale, e, low, 1, out.scale)
<1> DEFINE a == Dec(n, s)
           b == Dec(m, t)
           low == Min({s, t})
           e == n * Ten[s - low] + m * Ten[t - low]
<1>1. /\ s \in Int /\ t \in Int /\ s <= MaxScale /\ t <= MaxScale /\ s # NotScale /\ t # NotScale
      /\ MaxPrecision \in Nat
  BY ScaleAssumption, WordIs
<1>2. a.data = n /\ a.scale = s /\ b.data = m /\ b.scale = t
  BY <1>1, DecIs
<1>3. CASE s > t
  <2>1. /\ low = t /\ s >= t /\ s - t < MaxPrecision /\ ~(s - t >= MaxPrecision)
    <3>1. low = t
      BY <1>1, <1>3, MinOfTwo
    <3>2. s - t \in Nat /\ Abs(s - t) = s - t
      BY <1>1, <1>3 DEF Abs
    <3>3. QED
      BY <1>1, <1>3, <3>1, <3>2
  <2> DEFINE up == Min({s - t, ToMaxDigits(n)})
             down == IF up < s - t THEN DropDigits(m, s - t - up) ELSE m
  <2>2. out = Plus(n * pow_10(up), down, s - up)
    BY <1>1, <1>2, <1>3, <2>1 DEF Add
  <2> HIDE DEF up
  <2>3. IF out = Error THEN Abs(n * Ten[s - t] + m) > MaxValue * Ten[MaxScale - t]
        ELSE Within(out.data, out.scale, n * Ten[s - t] + m, t, 1, out.scale)
    BY <1>1, <2>1, <2>2, AlignedRounds DEF up
  <2>4. e = n * Ten[s - t] + m
    <3>1. t - t = 0 /\ m * 1 = m
      BY <1>1
    <3>2. QED
      BY <2>1, <3>1, TenIs
  <2>5. QED
    BY <2>1, <2>3, <2>4
<1>4. CASE ~(s > t)
  <2>1. /\ low = s /\ t >= s /\ t - s < MaxPrecision /\ ~(t - s >= MaxPrecision)
    <3>1. low = s
      BY <1>1, <1>4, MinOfTwo
    <3>2. t - s \in Nat /\ Abs(s - t) = t - s
      BY <1>1, <1>4 DEF Abs
    <3>3. QED
      BY <1>1, <1>4, <3>1, <3>2
  <2> DEFINE up == Min({t - s, ToMaxDigits(m)})
             down == IF up < t - s THEN DropDigits(n, t - s - up) ELSE n
  <2>2. out = Plus(m * pow_10(up), down, t - up)
    BY <1>1, <1>2, <1>4, <2>1 DEF Add
  <2> HIDE DEF up
  <2>3. IF out = Error THEN Abs(m * Ten[t - s] + n) > MaxValue * Ten[MaxScale - s]
        ELSE Within(out.data, out.scale, m * Ten[t - s] + n, s, 1, out.scale)
    BY <1>1, <2>1, <2>2, AlignedRounds DEF up
  <2>4. e = m * Ten[t - s] + n
    <3>1. s - s = 0 /\ n * 1 = n
      BY <1>1
    <3>2. t - s \in Nat
      BY <1>1, <2>1
    <3>3. Ten[t - s] \in Nat
      BY <3>2, TenIs
    <3> DEFINE v == m * Ten[t - s]
    <3>4. v \in Int
      BY <3>3
    <3>5. e = n + v
      BY <2>1, <3>1, TenIs
    <3> HIDE DEF v, e
    <3>6. e = v + n
      BY <3>4, <3>5
    <3>7. QED
      BY <3>6 DEF v
  <2>5. QED
    BY <2>1, <2>3, <2>4
<1>5. QED
  BY <1>3, <1>4

-----------------------------------------------------------------------------
(* Products and quotients that are given a scale within the limits.        *)
LEMMA EffectiveIs ==
  ASSUME NEW n \in Int, InWord(n), n # 0, NEW t \in Int,
         NEW out, out = MakeScaleEffective(Dec(n, t))
  PROVE  /\ t < MinScale =>
              \E c \in Int : out = Dec(c, MinScale) /\ Away(n, c, Ten[MinScale - t])
         /\ t > MaxScale /\ out # Error =>
              t - MaxScale <= ToMaxDigits(n) /\ out = Dec(n * Ten[t - MaxScale], MaxScale)
         /\ t >= MinScale /\ t <= MaxScale => out = Dec(n, t)
<1>1. /\ MinScale \in Int /\ MaxScale \in Int /\ MinScale < MaxScale
      /\ MaxValue \in Nat /\ MaxPrecision \in Nat /\ MaxValue < Ten[MaxPrecision]
  BY ScaleAssumption, WordIs
<1>2. Dec(n, t).data = n /\ Dec(n, t).scale = t
  BY DecIs
<1>3. out = IF t < MinScale
            THEN IF MinScale - t > MaxPrecision THEN Dec(0, MinScale)
                 ELSE Dec(DropDigits(n, MinScale - t), MinScale)
            ELSE IF t > MaxScale
            THEN IF ToMaxDigits(n) < t - MaxScale THEN Error
                 ELSE Dec(n * pow_10(t - MaxScale), MaxScale)
            ELSE Dec(n, t)
  BY <1>2 DEF MakeScaleEffective
<1>4. ASSUME t < MinScale
      PROVE  \E c \in Int : out = Dec(c, MinScale) /\ Away(n, c, Ten[MinScale - t])
  <2> DEFINE k == MinScale - t
  <2>1. k \in Nat /\ k # 0
    BY <1>1, <1>4
  <2>2. out = IF k > MaxPrecision THEN Dec(0, MinScale) ELSE Dec(DropDigits(n, k), MinScale)
    BY <1>3, <1>4
  <2> HIDE DEF k
  <2>3. CASE k > MaxPrecision
    <3>1. Ten[MaxPrecision] \in Nat /\ Ten[k] \in Nat /\ 10 * Ten[MaxPrecision] <= Ten[k]
      BY <1>1, <2>1, <2>3, TenIs, TenGrows
    <3>2. Abs(n) < Ten[MaxPrecision] /\ -Abs(n) <= n /\ n <= Abs(n) /\ Abs(n) \in Nat
      BY <1>1, AbsIs, <3>1 DEF InWord
    <3>3. 0 * Ten[k] = 0
      BY <3>1
    <3>4. Away(n, 0, Ten[k])
      BY <3>1, <3>2, <3>3 DEF Away
    <3>5. QED
      BY <2>2, <2>3, <3>4 DEF k
  <2>4. CASE ~(k > MaxPrecision)
    <3>1. k \in 1..MaxPrecision
      BY <1>1, <2>1, <2>4
    <3>2. DropDigits(n, k) \in Int /\ Away(n, DropDigits(n, k), Ten[k])
      BY <3>1, DropDigitsIs
    <3>3. QED
      BY <2>2, <2>4, <3>2 DEF k
  <2>5. QED
    BY <2>3, <2>4
<1>5. ASSUME t > MaxScale, out # Error
      PROVE  t - MaxScale <= ToMaxDigits(n) /\ out = Dec(n * Ten[t - MaxScale], MaxScale)
  <2> DEFINE k == t - MaxScale
  <2>1. k \in Nat /\ ~(t < MinScale)
    BY <1>1, <1>5
  <2>2. ToMaxDigits(n) \in 0..(MaxPrecision - 1)
    BY ToMaxDigitsIs
  <2>3. out = IF ToMaxDigits(n) < k THEN Error ELSE Dec(n * pow_10(k), MaxScale)
    BY <1>3, <1>5, <2>1
  <2> HIDE DEF k
  <2>4. ~(ToMaxDigits(n) < k)
    BY <1>5, <2>3
  <2>5. k <= ToMaxDigits(n) /\ k \in 0..(MaxPrecision - 1)
    BY <1>1, <2>1, <2>2, <2>4
  <2>6. pow_10(k) = Ten[k]
    BY <2>5, PowIs
  <2>7. QED
    BY <2>3, <2>4, <2>5, <2>6 DEF k
<1>6. t >= MinScale /\ t <= MaxScale => out = Dec(n, t)
  BY <1>1, <1>3
<1>7. QED
  BY <1>4, <1>5, <1>6

(* Rounding in absolute values. *)
LEMMA AwayAbs ==
  ASSUME NEW n \in Int, NEW d \in Int, NEW u \in Nat, Away(n, d, u)
  PROVE  n # 0 => -u <= 2 * (Abs(n) - Abs(d) * u) /\ 2 * (Abs(n) - Abs(d) * u) < u
<1> DEFINE p == d * u
<1>1. p \in Int /\ (-d) * u = -p
  OBVIOUS
<1>2. CASE n > 0
  <2>1. d >= 0 /\ Abs(n) = n /\ -u <= 2 * (n - p) /\ 2 * (n - p) < u
    BY <1>2 DEF Away, Abs
  <2>2. Abs(d) * u = p
    BY <2>1, AbsIs
  <2> HIDE DEF p
  <2>3. QED
    BY <2>1, <2>2
<1>3. CASE n < 0
  <2>1. d <= 0 /\ Abs(n) = -n /\ -u < 2 * (n - p) /\ 2 * (n - p) <= u
    BY <1>3 DEF Away, Abs
  <2>2. Abs(d) * u = -p
    BY <1>1, <2>1, AbsIs
  <2> HIDE DEF p
  <2>3. 2 * (-n - (-p)) = -(2 * (n - p))
    BY <1>1
  <2>4. QED
    BY <1>1, <2>1, <2>2, <2>3
<1>4. QED
  BY <1>2, <1>3

(* How many digits Shrink gives up: the number then fits the word, and is  *)
(* short of it by two digits at most.                                      *)
LEMMA ShrinkIs ==
  ASSUME NEW n \in Int, ~InWord(n), Abs(n) <= MaxValue * MaxValue, NEW s \in Int
  PROVE  \E k \in 1..MaxPrecision, d \in Int :
           Shrink(n, s) = Dec(d, s + k) /\ Away(n, d, Ten[k]) /\ InWord(d) /\ 100 * Abs(d) > MaxValue
<1> DEFINE A == Abs(n)
           q == (A + MaxValue - 1) \div MaxValue
           k == GetDigits(q)
           d == DropDigits(n, k)
<1>1. MaxValue \in Nat /\ MaxValue >= 10 /\ MaxPrecision \in Nat /\ MaxPrecision >= 2
      /\ MaxDigits \in Nat /\ MaxValue < Ten[MaxPrecision] /\ MaxValue < Ten[MaxDigits]
      /\ Ten[MaxPrecision] \in Nat /\ MaxPrecision \in 1..MaxDigits
  <2>1. MaxDigits # 0
    BY MaxValueAssumption, TenIs
  <2>2. MaxPrecision \in 1..MaxDigits
    BY <2>1, MaxValueAssumption, AbsIs, SizeIs DEF MaxPrecision
  <2>3. QED
    BY <2>2, WordIs, MaxValueAssumption, TenIs
<1>2. A \in Nat /\ A > MaxValue /\ A <= MaxValue * MaxValue
  BY <1>1, AbsIs DEF InWord
<1> HIDE DEF A
<1>3. /\ q \in Nat /\ q >= 2 /\ q <= MaxValue
      /\ A <= q * MaxValue /\ A > (q - 1) * MaxValue
  <2>1. q \in Int /\ MaxValue * q <= A + MaxValue - 1 /\ A + MaxValue - 1 < MaxValue * q + MaxValue
    BY <1>1, <1>2
  <2> HIDE DEF q
  <2>2. MaxValue * q = q * MaxValue /\ (q - 1) * MaxValue = q * MaxValue - MaxValue
    BY <1>1, <2>1
  <2>3. A <= q * MaxValue /\ A > (q - 1) * MaxValue
    BY <1>1, <1>2, <2>1, <2>2
  <2>4. q >= 2
    <3>1. q <= 1 => q * MaxValue <= 1 * MaxValue
      BY <1>1, <2>1
    <3>2. QED
      BY <1>1, <1>2, <2>1, <2>3, <3>1
  <2>5. q <= MaxValue
    <3>1. q >= MaxValue + 1 => (q - 1) * MaxValue >= MaxValue * MaxValue
      BY <1>1, <2>1
    <3>2. QED
      BY <1>1, <1>2, <2>1, <2>3, <3>1
  <2>6. QED
    BY <2>1, <2>3, <2>4, <2>5
<1> HIDE DEF q
<1>4. k \in 1..MaxPrecision /\ q < Ten[k] /\ (k = 1 \/ Ten[k - 1] <= q)
  <2> DEFINE z == Size(q)
  <2>1. Abs(q) = q /\ q < Ten[MaxDigits]
    <3>1. Ten[MaxDigits] \in Nat
      BY <1>1, TenIs
    <3>2. Abs(q) = q
      BY <1>3, AbsIs
    <3>3. QED
      BY <1>1, <1>3, <3>1, <3>2
  <2>2. z \in 1..MaxDigits /\ q < Ten[z] /\ (z = 1 \/ Ten[z - 1] <= q)
    BY <1>1, <1>3, <2>1, SizeIs
  <2>3. z <= MaxPrecision
    <3> SUFFICES ASSUME z > MaxPrecision PROVE FALSE
      BY <1>1, <2>2
    <3>1. z - 1 \in Nat /\ z - 1 >= MaxPrecision /\ z # 1
      BY <1>1, <2>2
    <3> HIDE DEF z
    <3> DEFINE y == z - 1
    <3>2. y \in Nat /\ (y = MaxPrecision \/ MaxPrecision < y) /\ Ten[y] <= q
      BY <1>1, <2>2, <3>1
    <3> HIDE DEF y
    <3>3. Ten[y] \in Nat /\ Ten[MaxPrecision] <= Ten[y]
      <4>1. MaxPrecision < y => 10 * Ten[MaxPrecision] <= Ten[y]
        BY <1>1, <3>2, TenGrows
      <4>2. Ten[y] \in Nat
        BY <3>2, TenIs
      <4>3. QED
        BY <1>1, <3>2, <4>1, <4>2
    <3>4. QED
      BY <1>1, <1>3, <3>2, <3>3
  <2>4. k = z
    <3>1. k = Min({z, MaxPrecision})
      BY DEF GetDigits
    <3> HIDE DEF k, z
    <3>2. z \in Int
      BY <1>1, <2>2
    <3>3. QED
      BY <1>1, <2>3, <3>1, <3>2, MinOfTwo
  <2> HIDE DEF k, z
  <2>5. k \in 1..MaxPrecision
    BY <1>1, <2>2, <2>3, <2>4
  <2>6. QED
    BY <2>2, <2>4, <2>5
<1>5. Shrink(n, s) = Dec(d, s + k)
  BY DEF Shrink, q, A
<1> HIDE DEF k
<1>6. d \in Int /\ Away(n, d, Ten[k])
  BY <1>4, DropDigitsIs
<1> HIDE DEF d
<1> DEFINE T == Ten[k]
           S == Ten[k - 1]
           D == Abs(d)
<1>7. T \in Nat /\ S \in Nat /\ T = 10 * S /\ S <= q /\ q <= T - 1 /\ (k = 1 => S = 1) /\ (k # 1 => S >= 10)
  <2>1. k - 1 \in Nat /\ (k - 1) + 1 = k
    BY <1>1, <1>4
  <2>2. S \in Nat \ {0} /\ T = 10 * S
    BY <2>1, TenIs
  <2>3. k = 1 => S = 1
    BY TenIs
  <2>4. k # 1 => S >= 10
    <3> SUFFICES ASSUME k # 1 PROVE S >= 10
      OBVIOUS
    <3>1. k - 2 \in Nat /\ (k - 2) + 1 = k - 1
      BY <1>1, <1>4
    <3>2. Ten[k - 2] \in Nat \ {0} /\ S = 10 * Ten[k - 2]
      BY <3>1, TenIs
    <3> HIDE DEF S
    <3>3. QED
      BY <3>2
  <2> HIDE DEF S, T
  <2>5. S <= q /\ q < T
    BY <1>3, <1>4, <2>3 DEF S, T
  <2>6. QED
    BY <1>3, <2>2, <2>3, <2>4, <2>5
<1>8. D \in Nat /\ -T <= 2 * (A - D * T) /\ 2 * (A - D * T) < T
  <2>1. T \in Nat /\ n # 0
    BY <1>1, <1>2, <1>7, AbsIs DEF A
  <2> HIDE DEF T
  <2>2. Away(n, d, T)
    BY <1>6 DEF T
  <2>3. QED
    BY <1>6, <2>1, <2>2, AwayAbs, AbsIs DEF A
<1> HIDE DEF T, S, D
<1> DEFINE M == MaxValue
           DT == D * T
<1>9. DT \in Nat /\ -T <= 2 * (A - DT) /\ 2 * (A - DT) < T
  BY <1>7, <1>8
<1>10. D <= M
  <2> SUFFICES ASSUME D >= M + 1 PROVE FALSE
    BY <1>1, <1>8
  <2>1. DT >= (M + 1) * T /\ (M + 1) * T = M * T + T
    BY <1>1, <1>7, <1>8
  <2>2. q * M <= (T - 1) * M /\ (T - 1) * M = M * T - M
    BY <1>1, <1>3, <1>7
  <2> DEFINE MT == M * T
             qM == q * M
  <2>3. MT \in Nat /\ qM \in Nat
    BY <1>1, <1>3, <1>7
  <2>4. DT >= MT + T /\ qM <= MT - M /\ A <= qM
    BY <1>3, <2>1, <2>2
  <2> HIDE DEF MT, qM, DT
  <2>5. QED
    BY <1>1, <1>2, <1>7, <1>9, <2>3, <2>4
<1>11. 100 * D > M
  <2> SUFFICES ASSUME 100 * D <= M PROVE FALSE
    BY <1>1, <1>8
  <2>1. 100 * DT <= M * T
    <3>1. (100 * D) * T <= M * T /\ (100 * D) * T = 100 * (D * T)
      BY <1>1, <1>7, <1>8
    <3>2. QED
      BY <3>1
  <2> DEFINE MS == M * S
  <2>2. MS \in Nat /\ M * T = 10 * MS
    BY <1>1, <1>7
  <2>3. 200 * A < 20 * MS + 1000 * S
    BY <1>2, <1>7, <1>9, <2>1, <2>2
  <2>4. CASE k = 1
    <3>1. S = 1 /\ MS = M
      BY <1>1, <1>7, <2>4
    <3> HIDE DEF MS
    <3>2. QED
      BY <1>1, <1>2, <2>3, <3>1
  <2>5. CASE k # 1
    <3>1. S >= 10
      BY <1>7, <2>5
    <3>2. (q - 1) * M >= (S - 1) * M /\ (S - 1) * M = MS - M
      BY <1>1, <1>3, <1>7
    <3>3. A > MS - M
      <4> DEFINE p == (q - 1) * M
      <4>1. p \in Int /\ A > p /\ p >= MS - M
        BY <1>1, <1>3, <3>2
      <4> HIDE DEF p, MS
      <4>2. QED
        BY <1>1, <1>2, <2>2, <4>1
    <3>4. MS >= 10 * M /\ MS >= 10 * S
      BY <1>1, <1>7, <3>1
    <3> HIDE DEF MS
    <3>5. QED
      BY <1>1, <1>2, <1>7, <2>2, <2>3, <3>1, <3>3, <3>4
  <2>6. QED
    BY <2>4, <2>5
<1>12. InWord(d)
  BY <1>6, <1>10 DEF InWord, D
<1>13. QED
  BY <1>4, <1>5, <1>6, <1>11, <1>12 DEF D

(* A number that is rounded a second time to fit the lowest scale. *)
LEMMA TwiceRounded ==
  ASSUME NEW n \in Int, NEW m \in Int, NEW v \in Nat \ {0}, Half(n - m * v, v),
         NEW c \in Int, NEW u \in Nat, u >= 10, Away(m, c, u)
  PROVE  200 * Abs(c * (u * v) - n) <= 111 * (u * v)
<1> DEFINE g == n - m * v
           h == m - c * u
           uv == u * v
           p == c * uv
           hv == h * v
<1>1. g \in Int /\ h \in Int /\ uv \in Nat /\ p \in Int /\ hv \in Int
  OBVIOUS
<1>2. m * v = p + hv
  <2>1. (c * u + h) * v = (c * u) * v + h * v
    OBVIOUS
  <2>2. (c * u) * v = c * (u * v)
    OBVIOUS
  <2>3. c * u + h = m
    OBVIOUS
  <2>4. QED
    BY <2>1, <2>2, <2>3
<1>3. n = p + hv + g
  BY <1>2
<1>4. -u <= 2 * h /\ 2 * h <= u
  BY DEF Away
<1>5. -v <= 2 * g /\ 2 * g <= v
  BY DEF Half
<1>6. -uv <= 2 * hv /\ 2 * hv <= uv
  <2> HIDE DEF h
  <2>1. (2 * h) * v <= u * v /\ (-u) * v <= (2 * h) * v
    BY <1>1, <1>4
  <2>2. (2 * h) * v = 2 * (h * v) /\ (-u) * v = -(u * v)
    BY <1>1
  <2>3. QED
    BY <2>1, <2>2
<1>7. uv >= 10 * v
  OBVIOUS
<1> HIDE DEF g, hv, p, uv
<1>8. 200 * Abs(p - n) <= 111 * uv
  BY <1>1, <1>3, <1>5, <1>6, <1>7 DEF Abs
<1>9. QED
  BY <1>8 DEF p, uv

(* A product that was rounded once, or not at all, gets its scale. *)
LEMMA EffectiveRounds ==
  ASSUME NEW n \in Int, NEW s \in Int, s <= MaxScale, NEW k \in Nat,
         NEW m \in Int, InWord(m), m # 0, Half(n - m * Ten[k], Ten[k]),
         k # 0 => 100 * Abs(m) > MaxValue,
         NEW out, out = MakeScaleEffective(Dec(m, s + k)), out # Error
  PROVE  Within(out.data, out.scale, n, s, 1, IF out.scale = MaxScale THEN MaxScale + 1 ELSE Unit(out))
<1> DEFINE t == s + k
           V == Ten[k]
           unit == IF out.scale = MaxScale THEN MaxScale + 1 ELSE Unit(out)
<1>0. /\ MinScale \in Int /\ MaxScale \in Int /\ MinScale < MaxScale /\ t \in Int /\ V \in Nat \ {0}
      /\ MaxValue \in Nat
  BY ScaleAssumption, TenIs, WordIs
<1>1. In(n, s, s) = n
  BY InSame
<1> HIDE DEF t, V
<1>2. CASE t < MinScale
  <2> DEFINE j == MinScale - t
             U == Ten[j]
  <2>1. PICK c \in Int : out = Dec(c, MinScale) /\ Away(m, c, U)
    BY <1>0, <1>2, EffectiveIs DEF t
  <2>2. out.data = c /\ out.scale = MinScale
    BY <1>0, <2>1, DecIs
  <2>3. unit = MinScale
    BY <1>0, <2>2 DEF Unit
  <2>4. j \in Nat /\ 0 < j /\ MinScale - s = j + k
    BY <1>0, <1>2 DEF t
  <2>5. U \in Nat /\ U >= 10
    <3>1. 10 * Ten[0] <= Ten[j]
      BY <2>4, TenGrows
    <3>2. QED
      BY <2>4, <3>1, TenIs
  <2>6. Ten[MinScale - s] = U * V
    <3>1. Ten[j + k] = Ten[j] * Ten[k]
      BY <2>4, TenSum
    <3>2. QED
      BY <2>4, <3>1 DEF V
  <2> HIDE DEF U, unit
  <2>7. 200 * Abs(c * (U * V) - n) <= 111 * (U * V)
    BY <1>0, <2>1, <2>5, TwiceRounded DEF V
  <2>8. MinScale >= s
    BY <1>0, <2>4
  <2>9. In(c, MinScale, s) = c * (U * V)
    BY <1>0, <2>6, <2>8, InAt
  <2>10. WithinLow(c, MinScale, n, s, 1, MinScale, s)
    <3>1. 111 * 1 * (U * V) = 111 * (U * V)
      OBVIOUS
    <3>2. QED
      BY <1>1, <2>6, <2>7, <2>8, <2>9, <3>1 DEF WithinLow
  <2>11. Within(c, MinScale, n, s, 1, MinScale)
    BY <1>0, <2>10, WithinBy
  <2>12. QED
    BY <2>2, <2>3, <2>11 DEF unit
<1>3. ASSUME NEW y \in Int, NEW d \in Int, out = Dec(d, y), NEW w \in Int, unit = w, s <= y, t <= w,
             d * Ten[y - s] = m * V
      PROVE  Within(out.data, out.scale, n, s, 1, unit)
  <2>1. out.data = d /\ out.scale = y
    BY <1>3, DecIs
  <2>2. In(d, y, s) = m * V
    BY <1>3, InAt
  <2> DEFINE g == n - m * V
             W == Ten[w - s]
  <2>3. g \in Int /\ -V <= 2 * g /\ 2 * g <= V
    BY <1>0 DEF Half, V
  <2>4. W \in Nat /\ V <= W /\ w >= s
    <3>1. k <= w - s /\ w - s \in Nat
      BY <1>0, <1>3 DEF t
    <3> DEFINE z == w - s
    <3>2. z \in Nat /\ (k = z \/ k < z)
      BY <3>1
    <3> HIDE DEF z
    <3>3. k < z => 10 * Ten[k] <= Ten[z]
      BY <3>2, TenGrows
    <3>4. Ten[k] <= Ten[z] /\ Ten[z] \in Nat
      <4>1. Ten[k] \in Nat /\ Ten[z] \in Nat
        BY <3>2, TenIs
      <4>2. QED
        BY <3>2, <3>3, <4>1
    <3>5. w >= s
      BY <1>3, <3>1
    <3>6. QED
      BY <3>4, <3>5 DEF z, V
  <2>5. 200 * Abs(m * V - n) <= 111 * 1 * W
    <3> DEFINE p == m * V
    <3>1. p \in Int /\ n = p + g
      BY <1>0
    <3> HIDE DEF p, g, W
    <3>2. 200 * Abs(p - n) <= 111 * 1 * W
      BY <1>0, <2>3, <2>4, <3>1 DEF Abs
    <3>3. QED
      BY <3>2 DEF p
  <2>6. WithinLow(d, y, n, s, 1, w, s)
    BY <1>1, <1>3, <2>2, <2>4, <2>5 DEF WithinLow
  <2>7. Within(d, y, n, s, 1, w)
    BY <2>6, WithinBy
  <2>8. QED
    BY <1>3, <2>1, <2>7
<1>4. CASE t > MaxScale
  <2>1. t - MaxScale <= ToMaxDigits(m) /\ out = Dec(m * Ten[t - MaxScale], MaxScale)
    BY <1>0, <1>4, EffectiveIs DEF t
  <2>2. k # 0
    BY <1>0, <1>4 DEF t
  <2>3. ToMaxDigits(m) < 2
    <3> SUFFICES ASSUME ~(ToMaxDigits(m) < 2) PROVE FALSE
      OBVIOUS
    <3>1. ToMaxDigits(m) \in Nat
      BY ToMaxDigitsIs, WordIs
    <3>2. 2 <= ToMaxDigits(m)
      BY <3>1
    <3>3. Abs(m) * Ten[2] <= MaxValue
      BY <3>2, ToMaxDigitsIs
    <3>4. Ten[2] = 100
      <4>1. Ten[0 + 1] = 10 * Ten[0] /\ Ten[1 + 1] = 10 * Ten[1] /\ Ten[0] = 1
        BY TenIs
      <4>2. QED
        BY <4>1
    <3>5. QED
      BY <1>0, <2>2, <3>3, <3>4, AbsIs
  <2>4. t = MaxScale + 1
    <3>1. ToMaxDigits(m) \in Nat
      BY ToMaxDigitsIs, WordIs
    <3>2. QED
      BY <1>0, <1>4, <2>1, <2>3, <3>1
  <2>5. Ten[t - MaxScale] = 10
    <3>1. Ten[0 + 1] = 10 * Ten[0] /\ Ten[0] = 1 /\ t - MaxScale = 1
      BY <1>0, <2>4, TenIs
    <3>2. QED
      BY <3>1
  <2>6. unit = MaxScale + 1
    <3>1. m * Ten[t - MaxScale] \in Int
      BY <2>5
    <3>2. out.scale = MaxScale
      BY <1>0, <2>1, <3>1, DecIs
    <3>3. QED
      BY <3>2
  <2>7. (m * 10) * Ten[MaxScale - s] = m * V
    <3>1. MaxScale - s \in Nat /\ k = (MaxScale - s) + 1
      BY <1>0, <2>4 DEF t
    <3>2. V = 10 * Ten[MaxScale - s] /\ Ten[MaxScale - s] \in Nat
      BY <3>1, TenIs DEF V
    <3> DEFINE z == Ten[MaxScale - s]
    <3>3. z \in Nat /\ V = 10 * z
      BY <3>2
    <3> HIDE DEF z
    <3>4. (m * 10) * z = m * (10 * z)
      BY <3>3
    <3>5. QED
      BY <3>3, <3>4 DEF z
  <2>8. out = Dec(m * 10, MaxScale) /\ m * 10 \in Int /\ MaxScale + 1 \in Int /\ t <= MaxScale + 1
    BY <1>0, <2>1, <2>4, <2>5
  <2> HIDE DEF unit
  <2>9. QED
    BY <1>0, <1>3, <2>6, <2>7, <2>8 DEF unit
<1>5. CASE t >= MinScale /\ t <= MaxScale
  <2>1. out = Dec(m, t)
    BY <1>0, <1>5, EffectiveIs DEF t
  <2>2. out.data = m /\ out.scale = t
    BY <1>0, <2>1, DecIs
  <2>3. unit \in Int /\ t <= unit
    BY <1>0, <2>2 DEF Unit
  <2>4. m * Ten[t - s] = m * V /\ s <= t
    <3>1. t - s = k /\ s <= t
      BY DEF t
    <3>2. QED
      BY <3>1 DEF V
  <2> DEFINE w == unit
  <2>5. w \in Int /\ unit = w /\ t <= w
    BY <2>3
  <2> HIDE DEF w, unit
  <2>6. QED
    BY <1>0, <1>3, <2>1, <2>4, <2>5 DEF unit
<1>6. QED
  BY <1>0, <1>2, <1>4, <1>5

LEMMA ProductFits ==
  ASSUME NEW n \in Int, InWord(n), NEW m \in Int, InWord(m)
  PROVE  n * m \in Int /\ Abs(n * m) <= MaxValue * MaxValue
<1>1. MaxValue \in Nat /\ Abs(n) \in Nat /\ Abs(m) \in Nat /\ Abs(n) <= MaxValue /\ Abs(m) <= MaxValue
  BY WordIs, AbsIs DEF InWord
<1> DEFINE a == Abs(n)
           b == Abs(m)
<1>2. Abs(n * b) = a * b
  BY <1>1, AbsTimes
<1>3. Abs(n * m) = Abs(n * b)
  <2>1. m = b \/ m = -b
    BY AbsIs
  <2>2. n * (-b) = -(n * b) /\ n * b \in Int
    BY <1>1
  <2>3. Abs(-(n * b)) = Abs(n * b)
    BY <2>2 DEF Abs
  <2> HIDE DEF b
  <2>4. QED
    BY <2>1, <2>2, <2>3
<1>4. a * b <= MaxValue * MaxValue
  <2> HIDE DEF a, b
  <2>1. a \in Nat /\ b \in Nat /\ a <= MaxValue /\ b <= MaxValue
    BY <1>1 DEF a, b
  <2>2. a * b <= MaxValue * b /\ MaxValue * b <= MaxValue * MaxValue
    BY <1>1, <2>1
  <2>3. a * b \in Nat /\ MaxValue * b \in Nat /\ MaxValue * MaxValue \in Nat
    BY <1>1, <2>1
  <2>4. QED
    BY <2>2, <2>3
<1>5. QED
  BY <1>2, <1>3, <1>4

(* Zero stands for what is less than a tenth of the least number. *)
LEMMA NothingIsNear ==
  ASSUME NEW n \in Int, NEW s \in Int, NEW k \in Nat, Abs(n) < Ten[k], NEW by \in Nat \ {0},
         NEW unit \in Int, unit - s > k, NEW t \in Int
  PROVE  Within(0, t, n, s, by, unit)
<1> DEFINE w == Ten[unit - s]
           z == unit - s
<1>1. z \in Nat /\ k < z /\ unit >= s
  OBVIOUS
<1> HIDE DEF z
<1>2. 10 * Ten[k] <= Ten[z] /\ Ten[k] \in Nat /\ Ten[z] \in Nat
  BY <1>1, TenGrows, TenIs
<1>3. w \in Nat /\ Abs(n) \in Nat /\ 10 * Abs(n) <= w
  BY <1>2, AbsIs DEF z
<1> HIDE DEF w
<1>4. 111 * w <= 111 * by * w
  <2>1. w <= by * w /\ 111 * by * w = 111 * (by * w) /\ by * w \in Nat
    BY <1>3
  <2>2. QED
    BY <1>3, <2>1
<1>5. In(0, t, s) = 0 /\ In(n, s, s) = n
  BY InSame DEF In
<1>6. Abs(0 - n) = Abs(n)
  BY DEF Abs
<1>7. 200 * Abs(In(0, t, s) - In(n, s, s)) <= 111 * by * w
  <2>1. 200 * Abs(n) <= 111 * w
    BY <1>3
  <2>2. 111 * by * w \in Nat /\ 111 * w \in Nat
    BY <1>3
  <2>3. QED
    BY <1>3, <1>4, <1>5, <1>6, <2>1, <2>2
<1>8. WithinLow(0, t, n, s, by, unit, s)
  BY <1>1, <1>7 DEF WithinLow, w
<1>9. by \in Nat /\ 0 \in Int
  OBVIOUS
<1>10. QED
  BY <1>8, <1>9, WithinBy

LEMMA MultiplyRounds ==
  ASSUME NEW n \in Int, InWord(n), NEW m \in Int, InWord(m), NEW s \in Int, NEW t \in Int,
         NEW out, out = Multiply(Dec(n, s), Dec(m, t)), out # Error
  PROVE  Within(out.data, out.scale, n * m, s + t, 1,
                IF out.scale = MaxScale THEN MaxScale + 1 ELSE Unit(out))
<1> DEFINE p == n * m
           sc == s + t
           unit == IF out.scale = MaxScale THEN MaxScale + 1 ELSE Unit(out)
<1>1. /\ MinScale \in Int /\ MaxScale \in Int /\ MinScale < MaxScale
      /\ MaxPrecision \in Nat /\ MaxValue \in Nat /\ MaxValue < Ten[MaxPrecision] /\ sc \in Int
  BY ScaleAssumption, WordIs
<1>2. p \in Int /\ Abs(p) <= MaxValue * MaxValue
  BY ProductFits
<1>3. out = IF p = 0 \/ sc + 2 * MaxPrecision + 1 < MinScale THEN Dec(0, 0)
            ELSE IF sc > MaxScale THEN Error
            ELSE MakeScaleEffective(IF InRange(p) THEN Dec(p, sc) ELSE Shrink(p, sc))
  <2>1. Dec(n, s).data = n /\ Dec(n, s).scale = s /\ Dec(m, t).data = m /\ Dec(m, t).scale = t
    BY DecIs
  <2>2. QED
    BY <2>1 DEF Multiply
<1> HIDE DEF p, sc
<1>4. CASE p = 0 \/ sc + 2 * MaxPrecision + 1 < MinScale
  <2>1. out = Dec(0, 0) /\ out.data = 0 /\ out.scale = 0
    BY <1>3, <1>4, DecIs
  <2>2. unit \in Int /\ unit >= MinScale
    BY <1>1, <2>1 DEF Unit
  <2> HIDE DEF unit
  <2>3. CASE p = 0
    <3>1. Within(0, 0, 0, sc, 1, unit)
      BY <1>1, <2>2, NothingIsWithin
    <3>2. QED
      BY <2>1, <2>3, <3>1 DEF unit, p, sc
  <2>4. CASE p # 0
    <3> DEFINE k == 2 * MaxPrecision
    <3>1. k \in Nat /\ unit - sc > k /\ 1 \in Nat \ {0} /\ 0 \in Int
      BY <1>1, <1>4, <2>2, <2>4
    <3>2. Abs(p) < Ten[k]
      <4> DEFINE w == Ten[MaxPrecision]
      <4>1. Ten[MaxPrecision + MaxPrecision] = w * w /\ w \in Nat
        BY <1>1, TenSum, TenIs
      <4>2. k = MaxPrecision + MaxPrecision
        BY <1>1
      <4>3. MaxValue * MaxValue < w * w
        <5>1. w \in Nat /\ MaxValue < w
          BY <1>1, <4>1
        <5> HIDE DEF w
        <5>2. MaxValue * MaxValue <= MaxValue * w /\ MaxValue * w < w * w
          BY <1>1, <5>1
        <5>3. MaxValue * MaxValue \in Nat /\ MaxValue * w \in Nat /\ w * w \in Nat
          BY <1>1, <5>1
        <5>4. QED
          BY <5>2, <5>3
      <4> DEFINE ww == w * w
                 mm == MaxValue * MaxValue
      <4>4. ww \in Nat /\ mm \in Nat /\ mm < ww /\ Abs(p) <= mm /\ Abs(p) \in Nat
        BY <1>1, <1>2, <4>1, <4>3, AbsIs
      <4> HIDE DEF ww, mm
      <4>5. Abs(p) < ww
        BY <4>4
      <4>6. QED
        BY <4>1, <4>2, <4>5 DEF ww
    <3> HIDE DEF k
    <3>3. Within(0, 0, p, sc, 1, unit)
      BY <1>1, <1>2, <2>2, <3>1, <3>2, NothingIsNear
    <3>4. QED
      BY <2>1, <3>3 DEF unit, p, sc
  <2>5. QED
    BY <2>3, <2>4
<1>5. CASE ~(p = 0 \/ sc + 2 * MaxPrecision + 1 < MinScale)
  <2>1. sc <= MaxScale
    BY <1>1, <1>3, <1>5
  <2>2. out = MakeScaleEffective(IF InRange(p) THEN Dec(p, sc) ELSE Shrink(p, sc)) /\ p # 0
    BY <1>1, <1>3, <1>5, <2>1
  <2>3. CASE InRange(p)
    <3>1. InWord(p) /\ sc + 0 = sc
      BY <1>1, <1>2, <2>3, InWordIs
    <3>2. Half(p - p * Ten[0], Ten[0])
      <4>1. p - p * 1 = 0
        BY <1>2
      <4>2. QED
        BY <4>1, TenIs DEF Half
    <3>3. out = MakeScaleEffective(Dec(p, sc + 0))
      BY <2>2, <2>3, <3>1
    <3>4. Within(out.data, out.scale, p, sc, 1, unit)
      BY <1>1, <1>2, <2>1, <2>2, <3>1, <3>2, <3>3, EffectiveRounds
    <3>5. QED
      BY <3>4 DEF p, sc
  <2>4. CASE ~InRange(p)
    <3>1. ~InWord(p)
      BY <1>2, <2>4, InWordIs
    <3>2. PICK k \in 1..MaxPrecision, d \in Int :
             Shrink(p, sc) = Dec(d, sc + k) /\ Away(p, d, Ten[k]) /\ InWord(d) /\ 100 * Abs(d) > MaxValue
      BY <1>1, <1>2, <3>1, ShrinkIs
    <3>3. k \in Nat /\ k # 0
      BY <3>2
    <3>4. d # 0
      BY <1>1, <3>2 DEF Abs
    <3>5. Half(p - d * Ten[k], Ten[k])
      <4> DEFINE g == p - d * Ten[k]
      <4>1. Ten[k] \in Nat
        BY <3>3, TenIs
      <4>2. g \in Int
        BY <1>2, <4>1
      <4>3. /\ p >= 0 => -Ten[k] <= 2 * g /\ 2 * g < Ten[k]
            /\ p <= 0 => -Ten[k] < 2 * g /\ 2 * g <= Ten[k]
        BY <3>2 DEF Away
      <4> HIDE DEF g
      <4>4. Half(g, Ten[k])
        BY <1>2, <4>1, <4>2, <4>3 DEF Half
      <4>5. QED
        BY <4>4 DEF g
    <3>6. out = MakeScaleEffective(Dec(d, sc + k))
      BY <2>2, <2>4, <3>2
    <3>7. Within(out.data, out.scale, p, sc, 1, unit)
      BY <1>1, <1>2, <2>1, <3>2, <3>3, <3>4, <3>5, <3>6, EffectiveRounds
    <3>8. QED
      BY <3>7 DEF p, sc
  <2>5. QED
    BY <2>3, <2>4
<1>6. QED
  BY <1>4, <1>5

-----------------------------------------------------------------------------
(* Quotients, in absolute values: q of p by d is rounded, or is cut and    *)
(* then too large for the word.                                            *)
IsQuotient(p, d, q) ==
  \/ q <= MaxValue + 1 /\ -d <= 2 * (p - q * d) /\ 2 * (p - q * d) < d
  \/ q > MaxValue /\ 0 <= p - q * d /\ p - q * d < d

(* g is the sign of the quotient of n by b. *)
IsSign(g, n, b) ==
  \/ g = 1 /\ ((n > 0 /\ b > 0) \/ (n < 0 /\ b < 0))
  \/ g = -1 /\ ((n > 0 /\ b < 0) \/ (n < 0 /\ b > 0))

LEMMA SignIs ==
  ASSUME NEW n \in Int, n # 0, NEW b \in Int, b # 0, NEW g, IsSign(g, n, b), NEW f \in Int
  PROVE  /\ g \in {1, -1} /\ g * f \in Int
         /\ Abs((g * f) * b - n) = Abs(Abs(n) - f * Abs(b))
<1>1. g \in {1, -1}
  BY DEF IsSign
<1>2. g * f = IF g = 1 THEN f ELSE -f
  BY <1>1
<1>3. f * (-b) = -(f * b) /\ (-f) * b = -(f * b) /\ f * b \in Int
  OBVIOUS
<1> DEFINE p == f * b
<1>4. (g * f) * b = IF g = 1 THEN p ELSE -p
  BY <1>1, <1>2, <1>3
<1>5. f * Abs(b) = IF b > 0 THEN p ELSE -p
  BY <1>3 DEF Abs
<1>6. p \in Int
  BY <1>3
<1> HIDE DEF p
<1>7. Abs((g * f) * b - n) = Abs(Abs(n) - f * Abs(b))
  BY <1>4, <1>5, <1>6 DEF IsSign, Abs
<1>8. QED
  BY <1>1, <1>2, <1>7

LEMMA DividedIs ==
  ASSUME NEW n \in Int, n # 0, NEW b \in Int, b # 0
  PROVE  \E g \in {1, -1}, q \in Nat :
           Divided(n, b) = g * q /\ IsSign(g, n, b) /\ IsQuotient(Abs(n), Abs(b), q)
<1> DEFINE p == Abs(n)
           d == Abs(b)
           z == p \div d
           r == p - z * d
           same == (n < 0) = (b < 0)
           g == IF same THEN 1 ELSE -1
           q0 == Quo(n, b)
           rest == Rem(n, b)
<1>1. p \in Nat /\ p # 0 /\ d \in Nat /\ d # 0
  BY AbsIs
<1>2. z \in Nat /\ r \in Nat /\ r < d
  <2> HIDE DEF p, d
  <2>1. z \in Int /\ z >= 0 /\ d * z <= p /\ p < d * z + d
    BY <1>1
  <2> HIDE DEF z
  <2>2. d * z = z * d /\ z * d \in Int
    BY <1>1, <2>1
  <2>3. QED
    BY <1>1, <2>1, <2>2
<1>3. IsSign(g, n, b)
  BY DEF IsSign
<1>4. q0 = IF same THEN z ELSE -z
  BY DEF Quo
<1>5. Abs(rest) = r /\ rest \in Int
  <2> HIDE DEF z
  <2> DEFINE y == z * b
  <2>1. y \in Int /\ b * z = y /\ b * (-z) = -y
    BY <1>2
  <2>2. rest = IF same THEN n - y ELSE n + y
    BY <1>2, <1>4, <2>1 DEF Rem
  <2>3. z * d = IF b > 0 THEN y ELSE -y
    <3>1. z * (-b) = -(z * b)
      BY <1>2
    <3>2. QED
      BY <3>1 DEF Abs
  <2> DEFINE zd == z * d
  <2>4. zd = (IF b > 0 THEN y ELSE -y) /\ r = p - zd
    BY <2>3
  <2> HIDE DEF y, zd, r, q0, rest
  <2>5. QED
    BY <1>2, <2>1, <2>2, <2>4 DEF Abs
<1>6. Divided(n, b) = IF InRange(q0) /\ rest # 0 /\ 2 * Abs(rest) >= d
                      THEN IF same THEN q0 + 1 ELSE q0 - 1
                      ELSE q0
  BY DEF Divided
<1>7. InRange(q0) <=> z <= MaxValue
  <2> HIDE DEF z
  <2>1. QED
    BY <1>2, <1>4, WordIs DEF InRange
<1>8. rest # 0 <=> r # 0
  BY <1>5, AbsIs
<1> HIDE DEF q0, rest, z
<1>9. CASE z <= MaxValue /\ r # 0 /\ 2 * r >= d
  <2>1. Divided(n, b) = g * (z + 1)
    BY <1>2, <1>4, <1>5, <1>6, <1>7, <1>8, <1>9
  <2>2. p - (z + 1) * d = r - d
    <3>1. (z + 1) * d = z * d + d /\ z * d \in Int
      BY <1>1, <1>2
    <3>2. QED
      BY <1>1, <3>1
  <2>3. z + 1 \in Nat /\ IsQuotient(p, d, z + 1)
    <3> HIDE DEF p, d, r
    <3> DEFINE y == (z + 1) * d
    <3>1. p - y = r - d
      BY <2>2
    <3>2. y \in Int
      BY <1>1, <1>2
    <3> HIDE DEF y
    <3>3. z + 1 \in Nat /\ z + 1 <= MaxValue + 1 /\ -d <= 2 * (p - y) /\ 2 * (p - y) < d
      BY <1>1, <1>2, <1>9, <3>1, <3>2, WordIs
    <3>4. QED
      BY <3>3 DEF IsQuotient, y
  <2>4. QED
    BY <1>3, <2>1, <2>3
<1>10. CASE ~(z <= MaxValue /\ r # 0 /\ 2 * r >= d)
  <2>1. Divided(n, b) = g * z
    BY <1>2, <1>4, <1>5, <1>6, <1>7, <1>8, <1>10
  <2>2. IsQuotient(p, d, z)
    <3> DEFINE y == z * d
    <3>1. y \in Int /\ r = p - y
      BY <1>1, <1>2
    <3> HIDE DEF p, d, r, y
    <3>2. \/ z <= MaxValue + 1 /\ -d <= 2 * (p - y) /\ 2 * (p - y) < d
          \/ z > MaxValue /\ 0 <= p - y /\ p - y < d
      BY <1>1, <1>2, <1>10, <3>1, WordIs
    <3>3. QED
      BY <3>2 DEF IsQuotient, y
  <2>3. QED
    BY <1>2, <1>3, <2>1, <2>2
<1>11. QED
  BY <1>9, <1>10

(* A digit is dropped on either side of zero alike. *)
LEMMA DropDigitSigned ==
  ASSUME NEW g \in {1, -1}, NEW q \in Nat
  PROVE  \E d \in Nat : DropDigit(g * q) = g * d /\ -5 <= q - 10 * d /\ q - 10 * d <= 4
<1>1. CASE g = 1
  <2> DEFINE d == DropDigit(q)
  <2>1. g * q = q
    BY <1>1
  <2>2. d \in Nat /\ -5 <= q - 10 * d /\ q - 10 * d <= 4
    BY DropDigitIs
  <2> HIDE DEF d
  <2>3. g * d = d
    BY <1>1, <2>2
  <2>4. QED
    BY <2>1, <2>2, <2>3 DEF d
<1>2. CASE g = -1
  <2> DEFINE n == -q
             c == DropDigit(n)
  <2>1. g * q = n /\ n \in Int /\ n <= 0
    BY <1>2
  <2> HIDE DEF n
  <2>2. c \in Int /\ c <= 0 /\ -4 <= n - 10 * c /\ n - 10 * c <= 5
    BY <2>1, DropDigitIs
  <2> HIDE DEF c
  <2>3. -c \in Nat /\ c = g * (-c)
    BY <1>2, <2>2
  <2>4. -5 <= q - 10 * (-c) /\ q - 10 * (-c) <= 4
    BY <2>2 DEF n
  <2>5. QED
    BY <2>1, <2>3, <2>4 DEF c
<1>3. QED
  BY <1>1, <1>2

(* A number above the word that loses a digit is not a tenth of it. *)
LEMMA StaysLarge ==
  ASSUME NEW q \in Nat, q > MaxValue, NEW d \in Nat, q - 10 * d <= 4
  PROVE  10 * d > MaxValue
<1>1. MaxValue \in Nat /\ MaxValue % 10 >= 4
  BY MaxValueAssumption
<1> SUFFICES ASSUME 10 * d <= MaxValue PROVE FALSE
  BY <1>1
<1>2. MaxValue - 10 * d \in 0..3
  BY <1>1
<1>3. MaxValue % 10 = MaxValue - 10 * d
  <2> DEFINE r == MaxValue - 10 * d
  <2>1. r \in 0..3 /\ MaxValue = 10 * d + r
    BY <1>1, <1>2
  <2> HIDE DEF r
  <2>2. (10 * d + r) % 10 = r
    BY <2>1
  <2>3. QED
    BY <2>1, <2>2 DEF r
<1>4. QED
  BY <1>1, <1>2, <1>3

(* Fitted gives up two digits at most, and errs by little more than half   *)
(* of the last one that is left.                                           *)
IsFitted(g, q, p, d, s) ==
  \E j \in Nat, f \in Nat :
    /\ Fitted(g * q, s) = Dec(g * f, s + j) /\ f <= MaxValue /\ 10 * f > MaxValue
    /\ 20 * Abs(p - f * (Ten[j] * d)) <= 11 * (Ten[j] * d)

LEMMA FittedIs ==
  ASSUME NEW g \in {1, -1}, NEW q \in Nat, NEW p \in Nat, NEW d \in Nat \ {0}, IsQuotient(p, d, q),
         NEW w \in Nat, w <= MaxValue, q <= 100 * w, 10 * q > MaxValue, NEW s \in Int
  PROVE  IsFitted(g, q, p, d, s)
<1> SUFFICES \E j \in Nat, f \in Nat :
               /\ Fitted(g * q, s) = Dec(g * f, s + j) /\ f <= MaxValue /\ 10 * f > MaxValue
               /\ 20 * Abs(p - f * (Ten[j] * d)) <= 11 * (Ten[j] * d)
  BY DEF IsFitted
<1> DEFINE M == MaxValue
           y == q * d
           e0 == p - y
<1>1. M \in Nat /\ M >= 10 /\ y \in Nat /\ e0 \in Int /\ Ten[0] = 1 /\ Ten[1] = 10 /\ Ten[2] = 100
  <2>1. Ten[0 + 1] = 10 * Ten[0] /\ Ten[1 + 1] = 10 * Ten[1] /\ Ten[0] = 1
    BY TenIs
  <2>2. QED
    BY <2>1, WordIs
<1>2. ASSUME NEW f \in Nat PROVE InRange(g * f) <=> f <= M
  <2>1. g * f = f \/ g * f = -f
    OBVIOUS
  <2>2. QED
    BY <1>1, <2>1 DEF InRange
<1>3. \/ q <= M + 1 /\ -d <= 2 * e0 /\ 2 * e0 < d
      \/ q > M /\ 0 <= e0 /\ e0 < d
  BY DEF IsQuotient
<1>4. CASE q <= M
  <2>1. Fitted(g * q, s) = Dec(g * q, s + 0)
    <3>1. s + 0 = s
      OBVIOUS
    <3>2. QED
      BY <1>2, <1>4, <3>1 DEF Fitted
  <2>2. Ten[0] * d = d
    BY <1>1
  <2>3. 20 * Abs(e0) <= 11 * d
    <3> HIDE DEF e0
    <3>1. QED
      BY <1>1, <1>3, <1>4 DEF Abs
  <2>4. 20 * Abs(p - q * (Ten[0] * d)) <= 11 * (Ten[0] * d)
    BY <2>2, <2>3
  <2>5. QED
    BY <1>4, <2>1, <2>4
<1>5. CASE q > M
  <2>1. PICK d1 \in Nat : DropDigit(g * q) = g * d1 /\ -5 <= q - 10 * d1 /\ q - 10 * d1 <= 4
    BY DropDigitSigned
  <2>2. 10 * d1 > M
    BY <1>5, <2>1, StaysLarge
  <2> DEFINE r1 == q - 10 * d1
             x1 == r1 * d
             e1 == p - d1 * (10 * d)
  <2>3. e1 = e0 + x1 /\ x1 \in Int /\ e1 \in Int
    <3>1. (10 * d1 + r1) * d = (10 * d1) * d + r1 * d
      OBVIOUS
    <3>2. (10 * d1) * d = d1 * (10 * d)
      OBVIOUS
    <3>3. 10 * d1 + r1 = q
      OBVIOUS
    <3>4. x1 \in Int /\ d1 * (10 * d) \in Int
      OBVIOUS
    <3> HIDE DEF r1
    <3>5. y = d1 * (10 * d) + x1
      BY <3>1, <3>2, <3>3
    <3> DEFINE z == d1 * (10 * d)
    <3>6. z \in Int /\ y = z + x1 /\ e1 = p - z
      BY <3>4, <3>5
    <3> HIDE DEF z, x1, y, e1
    <3>7. e1 = e0 + x1 /\ e1 \in Int
      BY <1>1, <3>4, <3>6
    <3>8. QED
      BY <3>4, <3>7
  <2>4. -(5 * d) <= x1 /\ x1 <= 4 * d
    BY <2>1
  <2>5. CASE d1 <= M
    <3>1. Fitted(g * q, s) = Dec(g * d1, s + 1)
      <4> DEFINE n0 == g * q
                 n1 == g * d1
      <4>1. ~InRange(n0)
        BY <1>1, <1>2, <1>5
      <4>2. InRange(n1) /\ DropDigit(n0) = n1
        BY <1>2, <2>1, <2>5
      <4> HIDE DEF n0, n1
      <4>3. Fitted(n0, s) = Dec(n1, s + 1)
        BY <4>1, <4>2 DEF Fitted
      <4>4. QED
        BY <4>3 DEF n0, n1
    <3>2. 20 * Abs(e1) <= 11 * (10 * d)
      <4> HIDE DEF e0, x1, e1
      <4>1. QED
        BY <1>1, <1>3, <2>3, <2>4 DEF Abs
    <3>3. 20 * Abs(p - d1 * (Ten[1] * d)) <= 11 * (Ten[1] * d)
      BY <1>1, <3>2
    <3>4. QED
      BY <2>2, <2>5, <3>1, <3>3
  <2>6. CASE d1 > M
    <3>1. PICK d2 \in Nat : DropDigit(g * d1) = g * d2 /\ -5 <= d1 - 10 * d2 /\ d1 - 10 * d2 <= 4
      BY DropDigitSigned
    <3>2. 10 * d2 > M
      BY <2>6, <3>1, StaysLarge
    <3>3. d2 <= M
      <4>1. 10 * d1 <= 100 * w + 5
        BY <2>1
      <4>2. d1 <= 10 * w
        BY <4>1
      <4>3. d2 <= w
        BY <3>1, <4>2
      <4>4. QED
        BY <1>1, <4>3
    <3>4. Fitted(g * q, s) = Dec(g * d2, s + 2)
      <4> DEFINE n0 == g * q
                 n1 == g * d1
                 n2 == g * d2
      <4>1. ~InRange(n0)
        BY <1>1, <1>2, <1>5
      <4>2. ~InRange(n1) /\ DropDigit(n0) = n1
        BY <1>1, <1>2, <2>1, <2>6
      <4>3. InRange(n2) /\ DropDigit(n1) = n2
        BY <1>2, <3>1, <3>3
      <4> HIDE DEF n0, n1, n2
      <4>4. Fitted(n0, s) = Dec(n2, s + 2)
        BY <4>1, <4>2, <4>3 DEF Fitted
      <4>5. QED
        BY <4>4 DEF n0, n2
    <3>5. 0 <= e0 /\ e0 < d
      <4>1. ~(q <= M + 1)
        BY <1>1, <2>1, <2>6
      <4>2. QED
        BY <1>3, <4>1
    <3> DEFINE r2 == d1 - 10 * d2
               x2 == r2 * (10 * d)
               e2 == p - d2 * (100 * d)
    <3>6. e2 = e1 + x2 /\ x2 \in Int /\ e2 \in Int
      <4>1. (10 * d2 + r2) * (10 * d) = (10 * d2) * (10 * d) + r2 * (10 * d)
        OBVIOUS
      <4>2. (10 * d2) * (10 * d) = d2 * (100 * d)
        OBVIOUS
      <4>3. 10 * d2 + r2 = d1
        OBVIOUS
      <4>4. x2 \in Int /\ d2 * (100 * d) \in Int /\ d1 * (10 * d) \in Int
        OBVIOUS
      <4> DEFINE z == d2 * (100 * d)
                 v == d1 * (10 * d)
      <4> HIDE DEF r2
      <4>5. z \in Int /\ v \in Int /\ v = z + x2 /\ e2 = p - z /\ e1 = p - v
        BY <4>1, <4>2, <4>3, <4>4
      <4> HIDE DEF z, v, x2, e1, e2
      <4>6. e2 = e1 + x2 /\ e2 \in Int
        BY <4>4, <4>5
      <4>7. QED
        BY <4>4, <4>6
    <3>7. -(50 * d) <= x2 /\ x2 <= 40 * d
      BY <3>1
    <3>8. 20 * Abs(e2) <= 11 * (100 * d)
      <4> HIDE DEF e0, x1, e1, x2, e2
      <4>1. QED
        BY <1>1, <2>3, <2>4, <3>5, <3>6, <3>7 DEF Abs
    <3>9. 20 * Abs(p - d2 * (Ten[2] * d)) <= 11 * (Ten[2] * d)
      BY <1>1, <3>8
    <3>10. QED
      BY <3>2, <3>3, <3>4, <3>9
  <2>7. QED
    BY <1>1, <2>1, <2>5, <2>6
<1>6. QED
  BY <1>1, <1>4, <1>5

(* The digits of a number that fits the word. *)
LEMMA DigitsIs ==
  ASSUME NEW n \in Int, InWord(n), n # 0
  PROVE  /\ GetDigits(n) \in 1..MaxPrecision
         /\ Ten[GetDigits(n) - 1] <= Abs(n) /\ Abs(n) < Ten[GetDigits(n)]
<1> DEFINE z == Size(n)
           a == Abs(n)
<1>1. /\ MaxValue \in Nat /\ MaxPrecision \in Nat /\ MaxPrecision >= 2 /\ MaxDigits \in Nat
      /\ MaxValue < Ten[MaxPrecision] /\ Ten[MaxPrecision] \in Nat
      /\ MaxValue < Ten[MaxDigits] /\ Ten[MaxDigits] \in Nat /\ MaxDigits # 0
  <2>1. MaxDigits # 0
    BY MaxValueAssumption, TenIs
  <2>2. QED
    BY <2>1, MaxValueAssumption, WordIs, TenIs
<1>2. a \in Nat \ {0} /\ a <= MaxValue
  <2>1. a # 0
    BY DEF Abs
  <2>2. QED
    BY <2>1, AbsIs DEF InWord
<1>3. z \in 1..MaxDigits /\ a < Ten[z] /\ (z = 1 \/ Ten[z - 1] <= a)
  <2>1. a < Ten[MaxDigits]
    BY <1>1, <1>2
  <2>2. QED
    BY <1>1, <2>1, SizeIs
<1> HIDE DEF z, a
<1>4. z <= MaxPrecision
  <2> SUFFICES ASSUME z > MaxPrecision PROVE FALSE
    BY <1>1, <1>3
  <2> DEFINE y == z - 1
  <2>1. y \in Nat /\ (y = MaxPrecision \/ MaxPrecision < y) /\ Ten[y] <= a
    BY <1>1, <1>3
  <2> HIDE DEF y
  <2>2. Ten[y] \in Nat /\ Ten[MaxPrecision] <= Ten[y]
    <3>1. MaxPrecision < y => 10 * Ten[MaxPrecision] <= Ten[y]
      BY <1>1, <2>1, TenGrows
    <3>2. Ten[y] \in Nat
      BY <2>1, TenIs
    <3>3. QED
      BY <1>1, <2>1, <3>1, <3>2
  <2>3. QED
    BY <1>1, <1>2, <2>1, <2>2
<1>5. GetDigits(n) = z
  <2>1. GetDigits(n) = Min({z, MaxPrecision})
    BY DEF GetDigits, z
  <2>2. z \in Int
    BY <1>1, <1>3
  <2>3. QED
    BY <1>1, <1>4, <2>1, <2>2, MinOfTwo
<1>6. z = 1 => Ten[z - 1] <= a
  <2> SUFFICES ASSUME z = 1 PROVE Ten[0] <= a
    OBVIOUS
  <2>1. QED
    BY <1>2, TenIs
<1>7. QED
  BY <1>1, <1>3, <1>4, <1>5, <1>6 DEF a

(* How large the quotient is: it has as many digits as the word, one more  *)
(* or two.                                                                 *)
LEMMA QuotientSize ==
  ASSUME NEW n \in Int, InWord(n), n # 0, NEW m \in Int, InWord(m), m # 0,
         NEW zeros, zeros = GetDigits(m) + MaxPrecision - GetDigits(n),
         NEW q \in Nat, IsQuotient(Abs(n * Ten[zeros]), Abs(m), q)
  PROVE  q <= 100 * Ten[MaxPrecision - 1] /\ 10 * q > MaxValue
<1> DEFINE y == GetDigits(n)
           z == GetDigits(m)
           a == Abs(n)
           d == Abs(m)
           W == Ten[MaxPrecision - 1]
           Y == Ten[y]
           Z == Ten[z - 1]
           X == Ten[zeros]
           p == Abs(n * X)
<1>1. /\ MaxValue \in Nat /\ MaxPrecision \in Nat /\ MaxPrecision >= 2 /\ MaxPrecision - 1 \in Nat
      /\ W \in Nat /\ W <= MaxValue /\ MaxValue < 10 * W
  <2>1. MaxPrecision \in Nat /\ MaxPrecision >= 2 /\ MaxValue < Ten[MaxPrecision] /\ W <= MaxValue
        /\ MaxValue \in Nat
    BY WordIs
  <2>2. MaxPrecision - 1 \in Nat /\ (MaxPrecision - 1) + 1 = MaxPrecision
    BY <2>1
  <2>3. Ten[MaxPrecision] = 10 * W /\ W \in Nat
    BY <2>2, TenIs
  <2>4. QED
    BY <2>1, <2>2, <2>3
<1>2. /\ y \in 1..MaxPrecision /\ z \in 1..MaxPrecision
      /\ Ten[y - 1] <= a /\ a < Ten[y] /\ Ten[z - 1] <= d /\ d < Ten[z] /\ a \in Nat /\ d \in Nat
  BY DigitsIs, AbsIs
<1> HIDE DEF y, z
<1>3. zeros \in Nat /\ y + zeros = z + MaxPrecision /\ y - 1 \in Nat /\ z - 1 \in Nat
      /\ (y - 1) + zeros = z + (MaxPrecision - 1)
      /\ z = (z - 1) + 1 /\ (z - 1) + (MaxPrecision + 1) = z + MaxPrecision
      /\ MaxPrecision + 1 = ((MaxPrecision - 1) + 1) + 1 /\ y \in Nat /\ z \in Nat
  BY <1>1, <1>2 DEF y, z
<1>4. /\ X \in Nat /\ Y \in Nat /\ Z \in Nat \ {0}
      /\ Y * X = Z * (100 * W)
      /\ Ten[y - 1] \in Nat /\ Ten[z] \in Nat
      /\ Ten[y - 1] * X = Ten[z] * W
  <2>1. Ten[y + zeros] = Y * X /\ Ten[(y - 1) + zeros] = Ten[y - 1] * X
    BY <1>3, TenSum
  <2>2. Ten[z + (MaxPrecision - 1)] = Ten[z] * W
    BY <1>1, <1>3, TenSum
  <2>3. Ten[(z - 1) + (MaxPrecision + 1)] = Z * Ten[MaxPrecision + 1]
    BY <1>1, <1>3, TenSum
  <2>4. Ten[MaxPrecision + 1] = 100 * W
    <3> DEFINE k == MaxPrecision - 1
    <3>1. k \in Nat /\ k + 1 \in Nat /\ MaxPrecision + 1 = (k + 1) + 1
      BY <1>1
    <3> HIDE DEF k
    <3>2. Ten[k + 1] = 10 * Ten[k] /\ Ten[(k + 1) + 1] = 10 * Ten[k + 1] /\ Ten[k] \in Nat
      BY <3>1, TenIs
    <3>3. Ten[(k + 1) + 1] = 100 * Ten[k]
      BY <3>2
    <3>4. QED
      BY <3>1, <3>3 DEF k
  <2>5. X \in Nat /\ Y \in Nat /\ Z \in Nat \ {0} /\ Ten[y - 1] \in Nat /\ Ten[z] \in Nat
    BY <1>3, TenIs
  <2>6. QED
    BY <1>3, <2>1, <2>2, <2>3, <2>4, <2>5
<1>5. p = a * X /\ p \in Nat
  <2>1. p = a * X
    BY <1>4, AbsTimes
  <2>2. QED
    BY <1>2, <1>4, <2>1
<1> DEFINE y1 == Ten[y - 1]
           z1 == Ten[z]
<1>6. y1 \in Nat /\ z1 \in Nat /\ y1 * X = z1 * W /\ y1 <= a /\ d < z1 /\ a < Y /\ Z <= d
  BY <1>2, <1>4
<1> HIDE DEF y1, z1, X, Y, Z, p, W, a, d
<1> DEFINE dw == d * W
<1>7. p <= 100 * dw /\ p >= dw /\ dw \in Nat
  <2>1. a * X <= Y * X /\ y1 * X <= a * X
    BY <1>2, <1>4, <1>6
  <2>2. Z * (100 * W) <= d * (100 * W) /\ d * (100 * W) = 100 * (d * W) /\ dw \in Nat
    BY <1>1, <1>2, <1>4, <1>6
  <2>3. d * W <= z1 * W
    BY <1>1, <1>2, <1>6
  <2> DEFINE aX == a * X
             YX == Y * X
             y1X == y1 * X
  <2>4. aX \in Nat /\ YX \in Nat /\ y1X \in Nat
    BY <1>2, <1>4, <1>6
  <2>5. aX <= YX /\ y1X <= aX /\ YX <= 100 * dw /\ dw <= y1X /\ p = aX
    BY <1>4, <1>5, <1>6, <2>1, <2>2, <2>3
  <2> HIDE DEF aX, YX, y1X, dw
  <2>6. QED
    BY <2>2, <2>4, <2>5
<1>8. \/ -d <= 2 * (p - q * d) /\ 2 * (p - q * d) < d
      \/ q > MaxValue /\ 0 <= p - q * d /\ p - q * d < d
  BY DEF IsQuotient, p, X, d
<1>9. d # 0
  BY <1>4, <1>6
<1> DEFINE qd == q * d
<1>10. qd \in Nat
  BY <1>2
<1>11. q <= 100 * W
  <2> SUFFICES ASSUME q >= 100 * W + 1 PROVE FALSE
    BY <1>1
  <2>1. qd >= (100 * W + 1) * d /\ (100 * W + 1) * d = 100 * (d * W) + d
    BY <1>1, <1>2
  <2>2. qd >= 100 * dw + d
    BY <2>1
  <2> HIDE DEF dw, qd
  <2>3. \/ -d <= 2 * (p - qd)
        \/ 0 <= p - qd
    BY <1>8 DEF qd
  <2>4. QED
    BY <1>2, <1>5, <1>7, <1>9, <1>10, <2>2, <2>3
<1>12. q >= W
  <2> SUFFICES ASSUME q <= W - 1 PROVE FALSE
    BY <1>1
  <2>1. qd <= (W - 1) * d /\ (W - 1) * d = d * W - d
    BY <1>1, <1>2
  <2>2. qd <= dw - d
    BY <2>1
  <2> HIDE DEF dw, qd
  <2>3. \/ 2 * (p - qd) < d
        \/ p - qd < d
    BY <1>8 DEF qd
  <2>4. QED
    BY <1>2, <1>5, <1>7, <1>9, <1>10, <2>2, <2>3
<1>13. QED
  BY <1>1, <1>11, <1>12 DEF W

(* How far the quotient is from n / m, before and after it gets its scale. *)
Off(n, m, f, v) == 20 * Abs((f * v) * m - n) <= 11 * (v * Abs(m))
OffTwice(n, m, c, w) == 200 * Abs((c * m) * w - n) <= 111 * Abs(m) * w

(* A quotient that is rounded once more to fit the lowest scale. *)
LEMMA QuotientTwice ==
  ASSUME NEW n \in Int, NEW m \in Int, NEW f \in Int, NEW v \in Nat \ {0}, Off(n, m, f, v),
         NEW c \in Int, NEW u \in Nat, u >= 10, Away(f, c, u), NEW w, w = u * v
  PROVE  OffTwice(n, m, c, w)
<1> DEFINE d == Abs(m)
           vd == v * d
           uvd == u * vd
           h == f - c * u
           e == (f * v) * m - n
           x1 == h * (v * m)
<1>1. d \in Nat /\ vd \in Nat /\ uvd \in Nat /\ h \in Int /\ e \in Int /\ x1 \in Int
  <2>1. d \in Nat
    BY AbsIs
  <2>2. vd \in Nat
    BY <2>1
  <2>3. h \in Int /\ e \in Int
    OBVIOUS
  <2>4. uvd \in Nat /\ x1 \in Int
    BY <2>2, <2>3
  <2>5. QED
    BY <2>1, <2>2, <2>3, <2>4
<1>2. (c * m) * (u * v) = (f * v) * m - x1
  <2> DEFINE k == v * m
             cu == c * u
  <2>1. (c * m) * (u * v) = cu * k /\ (f * v) * m = f * k /\ k \in Int /\ cu \in Int
    OBVIOUS
  <2>2. (f - cu) * k = f * k - cu * k /\ f * k \in Int /\ cu * k \in Int
    BY <2>1
  <2> HIDE DEF k, cu
  <2>3. cu * k = f * k - (f - cu) * k
    BY <2>2
  <2>4. QED
    BY <2>1, <2>3 DEF k, cu
<1>3. 2 * Abs(x1) <= uvd
  <2>1. -u <= 2 * h /\ 2 * h <= u
    BY <1>1 DEF Away
  <2> HIDE DEF h
  <2>2. Abs(h) \in Nat /\ 2 * Abs(h) <= u
    BY <1>1, <2>1 DEF Abs
  <2>3. Abs(x1) = Abs(h) * vd
    <3>1. Abs(h * vd) = Abs(h) * vd
      BY <1>1, AbsTimes
    <3>2. v * m = vd \/ v * m = -vd
      <4>1. m = d \/ m = -d
        BY AbsIs
      <4>2. v * (-d) = -(v * d)
        BY <1>1
      <4> HIDE DEF d
      <4>3. QED
        BY <4>1, <4>2
    <3>3. h * (-vd) = -(h * vd) /\ h * vd \in Int
      BY <1>1
    <3>4. Abs(-(h * vd)) = Abs(h * vd)
      BY <3>3 DEF Abs
    <3> HIDE DEF vd
    <3>5. QED
      BY <3>1, <3>2, <3>3, <3>4
  <2> DEFINE a == Abs(h)
  <2> HIDE DEF vd, a
  <2>4. (2 * a) * vd <= u * vd /\ (2 * a) * vd = 2 * (a * vd)
    BY <1>1, <2>2 DEF a
  <2>5. QED
    BY <2>3, <2>4 DEF a
<1>4. 20 * Abs(e) <= 11 * vd /\ 10 * vd <= uvd
  <2>1. 20 * Abs(e) <= 11 * vd
    BY DEF Off
  <2> HIDE DEF vd
  <2>2. 10 * vd <= u * vd
    BY <1>1
  <2>3. QED
    BY <2>1, <2>2
<1>5. (c * m) * (u * v) - n = e - x1
  <2> DEFINE k == (c * m) * (u * v)
             l == (f * v) * m
  <2>1. k = l - x1 /\ e = l - n /\ l \in Int
    BY <1>2
  <2> HIDE DEF k, l, x1, e
  <2>2. k - n = e - x1
    BY <1>1, <2>1
  <2>3. QED
    BY <2>2 DEF k
<1>6. 111 * d * (u * v) = 111 * uvd
  BY <1>1
<1> HIDE DEF e, x1, uvd, vd, d
<1>7. 200 * Abs(e - x1) <= 111 * uvd
  BY <1>1, <1>3, <1>4 DEF Abs
<1>8. 200 * Abs((c * m) * (u * v) - n) <= 111 * Abs(m) * (u * v)
  BY <1>5, <1>6, <1>7 DEF d
<1>9. QED
  BY <1>8 DEF OffTwice

LEMMA DivideRounds ==
  ASSUME NEW n \in Int, InWord(n), NEW m \in Int, InWord(m), NEW s \in Int, NEW t \in Int,
         NEW out, out = Divide(Dec(n, s), Dec(m, t)), out # Error
  PROVE  Within(out.data * m, out.scale + t, n, s, Abs(m), Unit(out) + t)
<1> DEFINE sc == s - t
           zeros == GetDigits(m) + MaxPrecision - GetDigits(n)
           big == n * Ten[zeros]
           d == Abs(m)
<1>1. /\ MinScale \in Int /\ MaxScale \in Int /\ MinScale < MaxScale
      /\ MaxPrecision \in Nat /\ MaxPrecision >= 2 /\ MaxValue \in Nat /\ MaxValue < Ten[MaxPrecision]
      /\ sc \in Int /\ d \in Nat
  BY ScaleAssumption, WordIs, AbsIs
<1>2. out = IF m = 0 THEN Error
            ELSE IF n = 0 \/ sc + MaxPrecision < MinScale THEN Dec(0, 0)
            ELSE IF sc - MaxPrecision > MaxScale + MaxPrecision - 1 THEN Error
            ELSE MakeScaleEffective(Fitted(Divided(big, m), sc - zeros))
  <2>1. Dec(n, s).data = n /\ Dec(n, s).scale = s /\ Dec(m, t).data = m /\ Dec(m, t).scale = t
    BY DecIs
  <2>2. QED
    BY <2>1 DEF Divide
<1>3. m # 0
  BY <1>2
<1>4. d \in Nat \ {0}
  BY <1>1, <1>3 DEF Abs
<1> HIDE DEF zeros, sc
<1>5. CASE n = 0 \/ sc + MaxPrecision < MinScale
  <2>1. out = Dec(0, 0) /\ out.data = 0 /\ out.scale = 0
    BY <1>2, <1>3, <1>5, DecIs
  <2>2. out.data * m = 0 /\ out.scale + t = t /\ Unit(out) + t = MinScale + t
    BY <2>1 DEF Unit
  <2> DEFINE unit == MinScale + t
  <2>3. unit \in Int
    BY <1>1
  <2>4. CASE n = 0
    <3> HIDE DEF unit
    <3>1. Within(0, t, 0, s, d, unit)
      BY <1>1, <2>3, NothingIsWithin
    <3>2. QED
      BY <2>2, <2>4, <3>1 DEF unit
  <2>5. CASE sc + MaxPrecision < MinScale
    <3>1. unit - s > MaxPrecision
      BY <1>1, <2>5 DEF sc
    <3>2. Abs(n) < Ten[MaxPrecision]
      <4>1. Ten[MaxPrecision] \in Nat /\ Abs(n) \in Nat /\ Abs(n) <= MaxValue
        BY <1>1, TenIs, AbsIs DEF InWord
      <4>2. QED
        BY <1>1, <4>1
    <3> HIDE DEF unit
    <3>3. Within(0, t, n, s, d, unit)
      BY <1>1, <1>4, <2>3, <3>1, <3>2, NothingIsNear
    <3>4. QED
      BY <2>2, <3>3 DEF unit
  <2>6. QED
    BY <1>5, <2>4, <2>5
<1>6. CASE ~(n = 0 \/ sc + MaxPrecision < MinScale)
  <2>1. n # 0 /\ out = MakeScaleEffective(Fitted(Divided(big, m), sc - zeros))
    BY <1>2, <1>3, <1>6
  <2>2. zeros \in Nat
    BY <1>1, <1>3, <2>1, DigitsIs DEF zeros
  <2> DEFINE X == Ten[zeros]
  <2>3. X \in Nat \ {0} /\ big \in Int /\ big # 0
    <3>1. X \in Nat \ {0}
      BY <2>2, TenIs
    <3> HIDE DEF X
    <3>2. n * X \in Int /\ n * X # 0
      BY <2>1, <3>1
    <3>3. QED
      BY <3>1, <3>2 DEF X
  <2>4. PICK g \in {1, -1}, q \in Nat :
           Divided(big, m) = g * q /\ IsSign(g, big, m) /\ IsQuotient(Abs(big), d, q)
    <3> HIDE DEF big
    <3>1. QED
      BY <1>3, <2>3, DividedIs
  <2>5. q <= 100 * Ten[MaxPrecision - 1] /\ 10 * q > MaxValue
    BY <1>3, <2>1, <2>4, QuotientSize DEF zeros
  <2> DEFINE w == Ten[MaxPrecision - 1]
             s0 == sc - zeros
  <2>6. w \in Nat /\ w <= MaxValue /\ s0 \in Int
    <3>1. MaxPrecision - 1 \in Nat
      BY <1>1
    <3>2. QED
      BY <1>1, <2>2, <3>1, TenIs, WordIs
  <2>7. Abs(big) \in Nat
    BY <2>3, AbsIs
  <2> HIDE DEF w, s0, X
  <2>8. PICK j \in Nat, f \in Nat :
           /\ Fitted(g * q, s0) = Dec(g * f, s0 + j) /\ f <= MaxValue /\ 10 * f > MaxValue
           /\ 20 * Abs(Abs(big) - f * (Ten[j] * d)) <= 11 * (Ten[j] * d)
    <3> DEFINE p == Abs(big)
    <3>1. p \in Nat /\ IsQuotient(p, d, q)
      BY <2>4, <2>7
    <3> HIDE DEF p, d
    <3>0. q <= 100 * w /\ 10 * q > MaxValue
      BY <2>5 DEF w
    <3>2. IsFitted(g, q, p, d, s0)
      BY <1>4, <2>6, <3>0, <3>1, FittedIs
    <3>3. QED
      BY <3>2 DEF p, IsFitted
  <2> DEFINE F == g * f
             V == Ten[j]
             y0 == s0 + j
             base == s0 + t
  <2>9. out = MakeScaleEffective(Dec(F, y0))
    BY <2>1, <2>4, <2>8 DEF s0
  <2>10. V \in Nat \ {0} /\ y0 \in Int /\ base \in Int /\ F \in Int
    BY <2>6, <2>8, TenIs
  <2>11. F # 0 /\ Abs(F) = f /\ InWord(F)
    <3>1. F = f \/ F = -f
      OBVIOUS
    <3>2. f # 0
      BY <1>1, <2>8
    <3> HIDE DEF F
    <3>3. F # 0 /\ Abs(F) = f
      BY <2>10, <3>1, <3>2 DEF Abs
    <3>4. QED
      BY <2>8, <2>10, <3>3 DEF InWord
  <2>12. Off(big, m, F, V)
    <3> DEFINE fV == f * V
    <3>1. fV \in Int /\ F * V = g * fV
      BY <2>10
    <3>2. Abs((g * fV) * m - big) = Abs(Abs(big) - fV * d)
      <4> HIDE DEF fV, big
      <4>1. QED
        BY <1>3, <2>3, <2>4, <3>1, SignIs
    <3>3. fV * d = f * (V * d)
      BY <1>1, <2>10
    <3>4. 20 * Abs(Abs(big) - f * (V * d)) <= 11 * (V * d)
      BY <2>8
    <3> HIDE DEF F, V, fV, big
    <3>5. 20 * Abs((F * V) * m - big) <= 11 * (V * d)
      <4> HIDE DEF d
      <4>1. QED
        BY <3>1, <3>2, <3>3, <3>4
    <3>6. QED
      BY <3>5 DEF Off
  <2> HIDE DEF F, V, y0, base
  <2>13. In(n, s, base) = big /\ s >= base
    <3>1. base = s - zeros
      BY <1>1, <2>2 DEF base, s0, sc
    <3>2. s >= base /\ s - base = zeros
      BY <2>2, <3>1
    <3>3. QED
      BY <2>10, <3>2, InAt
  <2>14. ASSUME NEW c \in Int, NEW y \in Int, y >= y0, out = Dec(c, y), Unit(out) = y,
                NEW W \in Nat, W = Ten[y - y0] * V, OffTwice(big, m, c, W)
         PROVE  Within(out.data * m, out.scale + t, n, s, d, Unit(out) + t)
    <3>1. out.data = c /\ out.scale = y
      BY <2>14, DecIs
    <3> DEFINE yt == y + t
               cm == c * m
    <3>2. yt \in Int /\ cm \in Int
      OBVIOUS
    <3>3. yt >= base /\ y - y0 \in Nat /\ yt - base = (y - y0) + j
      BY <2>6, <2>14 DEF base, y0
    <3>4. Ten[yt - base] = W
      <4> DEFINE k == y - y0
      <4>1. k \in Nat /\ W = Ten[k] * V
        BY <2>14, <3>3
      <4> HIDE DEF k
      <4>2. Ten[k + j] = Ten[k] * Ten[j]
        BY <4>1, TenSum
      <4>3. QED
        BY <3>3, <4>1, <4>2 DEF k, V
    <3> HIDE DEF yt
    <3>5. In(cm, yt, base) = cm * W
      BY <2>10, <3>2, <3>3, <3>4, InAt
    <3>6. WithinLow(cm, yt, n, s, d, yt, base)
      <4>1. 200 * Abs(cm * W - big) <= 111 * d * W
        BY <2>14 DEF OffTwice
      <4> HIDE DEF big, d, cm
      <4>2. QED
        BY <2>13, <3>3, <3>4, <3>5, <4>1 DEF WithinLow
    <3> HIDE DEF cm, d
    <3>7. Within(cm, yt, n, s, d, yt)
      BY <1>1, <2>10, <3>2, <3>6, WithinBy
    <3>8. QED
      BY <2>14, <3>1, <3>7 DEF cm, yt
  <2>15. CASE y0 < MinScale
    <3> DEFINE k == MinScale - y0
               U == Ten[k]
    <3>1. PICK c \in Int : out = Dec(c, MinScale) /\ Away(F, c, U)
      BY <2>9, <2>10, <2>11, <2>15, EffectiveIs
    <3>2. k \in Nat /\ 0 < k
      BY <1>1, <2>10, <2>15
    <3>3. U \in Nat /\ U >= 10
      <4> HIDE DEF k
      <4>1. 10 * Ten[0] <= Ten[k]
        BY <3>2, TenGrows
      <4>2. QED
        BY <3>2, <4>1, TenIs
    <3>4. Unit(out) = MinScale
      BY <1>1, <3>1, DecIs DEF Unit
    <3>5. MinScale >= y0
      BY <1>1, <2>10, <2>15
    <3> DEFINE u == U
    <3>6. u \in Nat /\ u >= 10 /\ Away(F, c, u) /\ u = Ten[MinScale - y0]
      BY <3>1, <3>3
    <3> DEFINE W == u * V
    <3> HIDE DEF u, big, U, d
    <3>9. W \in Nat /\ W = u * V /\ W = Ten[MinScale - y0] * V
      BY <2>10, <3>6
    <3> HIDE DEF W
    <3>7. OffTwice(big, m, c, W)
      BY <2>3, <2>10, <2>12, <3>1, <3>6, <3>9, QuotientTwice
    <3>8. Within(out.data * m, out.scale + t, n, s, d, Unit(out) + t)
      BY <1>1, <2>14, <3>1, <3>4, <3>5, <3>7, <3>9
    <3>10. QED
      BY <3>8 DEF d
  <2>16. CASE y0 > MaxScale
    <3>1. y0 - MaxScale <= ToMaxDigits(F)
      BY <2>9, <2>10, <2>11, <2>16, EffectiveIs
    <3>2. ToMaxDigits(F) \in Nat
      BY <1>1, <2>10, <2>11, ToMaxDigitsIs
    <3>3. 1 <= ToMaxDigits(F)
      BY <1>1, <2>10, <2>16, <3>1, <3>2
    <3>4. Abs(F) * Ten[1] <= MaxValue
      BY <2>10, <2>11, <3>3, ToMaxDigitsIs
    <3>5. Ten[1] = 10
      <4>1. Ten[0 + 1] = 10 * Ten[0] /\ Ten[0] = 1
        BY TenIs
      <4>2. QED
        BY <4>1
    <3>6. FALSE
      BY <1>1, <2>8, <2>11, <3>4, <3>5
    <3>7. QED
      BY <3>6
  <2>17. CASE y0 >= MinScale /\ y0 <= MaxScale
    <3>1. out = Dec(F, y0)
      BY <2>9, <2>10, <2>11, <2>17, EffectiveIs
    <3>2. Unit(out) = y0
      BY <2>10, <2>11, <3>1, DecIs DEF Unit
    <3>3. V = Ten[y0 - y0] * V /\ y0 >= y0 /\ V \in Nat
      <4>1. y0 - y0 = 0 /\ 1 * V = V
        BY <2>10
      <4>2. QED
        BY <2>10, <4>1, TenIs
    <3>4. OffTwice(big, m, F, V)
      <4> DEFINE e == (F * V) * m - big
                 vd == V * d
      <4>1. (F * m) * V = (F * V) * m
        BY <2>10
      <4>2. 111 * d * V = 111 * (V * d)
        BY <1>1, <2>10
      <4>3. e \in Int /\ vd \in Nat
        BY <1>1, <2>3, <2>10
      <4>4. 20 * Abs(e) <= 11 * vd
        BY <2>12 DEF Off
      <4> HIDE DEF e, vd
      <4>5. 200 * Abs(e) <= 111 * vd
        BY <4>3, <4>4, AbsIs
      <4>6. 200 * Abs((F * m) * V - big) <= 111 * d * V
        <5> HIDE DEF big, d
        <5>1. QED
          BY <4>1, <4>2, <4>5 DEF e, vd
      <4>7. QED
        BY <4>6 DEF OffTwice
    <3> HIDE DEF big, d
    <3>5. Within(out.data * m, out.scale + t, n, s, d, Unit(out) + t)
      BY <2>10, <2>14, <3>1, <3>2, <3>3, <3>4
    <3>6. QED
      BY <3>5 DEF d
  <2>18. QED
    BY <1>1, <2>10, <2>15, <2>16, <2>17
<1>7. QED
  BY <1>5, <1>6

-----------------------------------------------------------------------------
(* The inductive invariant: before its operation a decimal is one to begin *)
(* with.                                                                   *)
Begun == last = NoOp => Fresh

LEMMA Beginning == Init => Begun /\ last = NoOp
  BY DEF Init, Begun, Fresh

(* What an operation leaves in last. *)
LEMMA DoneOnce ==
  ASSUME NEW op, NEW b, NEW out, Does(op, b, out)
  PROVE  /\ last'.op = op /\ last'.a = x /\ last'.b = b /\ last'.out = out
         /\ op # "none" => last' # NoOp
  BY DEF Does, NoOp

LEMMA Begins == Begun /\ [Next]_vars => Begun'
<1> SUFFICES ASSUME Begun, [Next]_vars PROVE Begun'
  OBVIOUS
<1>1. CASE Next
  <2>1. last' # NoOp
    <3>1. CASE Arithmetic
      <4>1. PICK b \in Operand :
              \/ Does("add", b, Add(x, b)) \/ Does("subtract", b, Subtract(x, b))
              \/ Does("multiply", b, Multiply(x, b)) \/ Does("divide", b, Divide(x, b))
        BY <3>1 DEF Arithmetic
      <4>2. QED
        BY <4>1, DoneOnce
    <3>2. CASE Set
      <4>1. \/ \E t \in Text : Does("text", t, SetText(t, x.scale))
            \/ \E n \in Signed : \E out \in SignedResults(n, x.scale) : Does("signed", n, out)
            \/ \E n \in Unsigned : Does("unsigned", n, SetUnsigned(n, x.scale))
            \/ \E scale \in Scales : Does("scale", scale, SetDecimal(x, scale))
        BY <3>2 DEF Set
      <4>2. QED
        BY <4>1, DoneOnce
    <3>3. CASE Convert
      <4>1. last'.op \in {"int64", "uint64", "narrow", "narrow_unsigned"}
        BY <3>3 DEF Convert
      <4>2. QED
        BY <4>1 DEF NoOp
    <3>4. QED
      BY <1>1, <3>1, <3>2, <3>3 DEF Next
  <2>2. QED
    BY <2>1 DEF Begun
<1>2. CASE UNCHANGED vars
  BY <1>2 DEF Begun, Fresh, vars
<1>3. QED
  BY <1>1, <1>2

(* What the integers are that are set. *)
LEMMA IntegersFit ==
  /\ \A n \in Signed : n \in Int /\ Fits(n)
  /\ \A n \in Unsigned : n \in Nat /\ Fits(n)
<1>1. MaxValue \in Nat
  BY WordIs
<1>2. ASSUME NEW n \in Signed PROVE n \in Int /\ Fits(n)
  <2>1. n \in Int /\ -MaxValue - 1 <= n /\ n <= MaxValue
    BY <1>1, IntegerAssumption
  <2>2. QED
    BY <1>1, <2>1 DEF Fits, Abs
<1>3. ASSUME NEW n \in Unsigned PROVE n \in Nat /\ Fits(n)
  <2>1. n \in Nat /\ n <= 2 * MaxValue + 1
    BY <1>1, IntegerAssumption
  <2>2. QED
    BY <1>1, <2>1 DEF Fits, Abs
<1>4. QED
  BY <1>2, <1>3

LEMMA SetConverts ==
  ASSUME Fresh, Set
  PROVE  ConversionsAreRounded'
<1>0. /\ x.data \in Int /\ Fits(x.data) /\ x.scale \in Int /\ x = Dec(x.data, x.scale)
      /\ Error \notin Int /\ MinScale \in Int /\ MaxScale \in Int /\ NotScale \in Int
  BY FreshIs, DecimalAssumption, ScaleAssumption
<1>1. ASSUME NEW t \in Text, Does("text", t, SetText(t, x.scale)) PROVE ConversionsAreRounded'
  <2>1. last'.op = "text"
    BY <1>1, DoneOnce
  <2>2. QED
    BY <2>1 DEF ConversionsAreRounded
<1> DEFINE scale == IF x.scale = NotScale THEN 0 ELSE x.scale
<1>2. scale \in Int /\ (x.scale = NotScale => scale = 0) /\ (x.scale # NotScale => scale = x.scale)
  BY <1>0
<1> HIDE DEF scale
<1>3. ASSUME NEW n \in Signed, NEW out \in SignedResults(n, x.scale), Does("signed", n, out)
      PROVE  ConversionsAreRounded'
  <2>1. last'.op = "signed" /\ last'.a = x /\ last'.b = n /\ last'.out = out
    BY <1>3, DoneOnce
  <2>2. Fits(n)
    BY IntegersFit
  <2>3. (n = MinInt64 => scale >= 0) =>
          IF out = Error THEN Exceeds(n, 0, scale) ELSE Within(n, 0, out.data, scale, 1, scale)
    <3> SUFFICES ASSUME n = MinInt64 => scale >= 0
                 PROVE  IF out = Error THEN Exceeds(n, 0, scale)
                        ELSE Within(n, 0, out.data, scale, 1, scale)
      OBVIOUS
    <3>1. ~(n = MinInt64 /\ Given(x.scale) < 0)
      BY <1>2 DEF Given, scale
    <3>2. out = SetSigned(n, x.scale)
      BY <1>3, <3>1 DEF SignedResults
    <3>3. QED
      BY <1>0, <1>2, <2>2, <3>2, SignedRounds
  <2>4. QED
    BY <2>1, <2>3 DEF ConversionsAreRounded, Given, scale
<1>4. ASSUME NEW n \in Unsigned, Does("unsigned", n, SetUnsigned(n, x.scale)) PROVE ConversionsAreRounded'
  <2> DEFINE out == SetUnsigned(n, x.scale)
  <2>1. last'.op = "unsigned" /\ last'.a = x /\ last'.b = n /\ last'.out = out
    BY <1>4, DoneOnce
  <2>2. Fits(n) /\ n \in Nat
    BY IntegersFit
  <2>3. IF out = Error THEN Exceeds(n, 0, scale) ELSE Within(n, 0, out.data, scale, 1, scale)
    BY <1>0, <1>2, <2>2, UnsignedRounds
  <2> HIDE DEF out
  <2>4. QED
    BY <2>1, <2>3 DEF ConversionsAreRounded, Given, scale
<1>5. ASSUME NEW t \in Scales, Does("scale", t, SetDecimal(x, t)) PROVE ConversionsAreRounded'
  <2> DEFINE out == SetDecimal(x, t)
             c == ChangeScale(Dec(x.data, x.scale), t)
  <2>1. last'.op = "scale" /\ last'.a = x /\ last'.b = t /\ last'.out = out
    BY <1>5, DoneOnce
  <2>2. t \in Int /\ t # NotScale
    BY ScaleAssumption
  <2>3. c = ChangeScale(x, t)
    BY <1>0
  <2>4. out = IF c = Error THEN Error ELSE Dec(c, t)
    BY <2>2, <2>3 DEF SetDecimal
  <2>5. x.data # 0 =>
          /\ c = Error => Exceeds(x.data, x.scale, t)
          /\ c # Error => c \in Int /\ Within(x.data, x.scale, c, t, 1, t)
    BY <1>0, <2>2, ChangeRounds
  <2> HIDE DEF out, c
  <2>6. x.data # 0 =>
          IF out = Error THEN Exceeds(x.data, x.scale, t)
          ELSE Within(x.data, x.scale, out.data, t, 1, t)
    <3>1. CASE c = Error
      BY <2>4, <2>5, <3>1
    <3>2. CASE c # Error /\ x.data # 0
      <4>1. c \in Int /\ Within(x.data, x.scale, c, t, 1, t)
        BY <2>5, <3>2
      <4>2. out # Error /\ out.data = c
        BY <2>2, <2>4, <3>2, <4>1, DecIs
      <4>3. QED
        BY <4>1, <4>2
    <3>3. QED
      BY <3>1, <3>2
  <2>7. QED
    BY <2>1, <2>6 DEF ConversionsAreRounded
<1>6. QED
  BY <1>1, <1>3, <1>4, <1>5 DEF Set

LEMMA ConvertConverts ==
  ASSUME Fresh, Convert
  PROVE  ConversionsAreRounded'
<1>0. /\ x.data \in Int /\ Fits(x.data) /\ x.scale \in Int /\ x = Dec(x.data, x.scale)
  BY FreshIs
<1>1. PICK round \in {"round", "floor", "ceil"} :
         \/ last' = [op |-> "int64", a |-> x, b |-> round, out |-> ToInt64(x, round)]
         \/ last' = [op |-> "uint64", a |-> x, b |-> round, out |-> ToUInt64(x, round)]
         \/ last' = [op |-> "narrow", a |-> x, b |-> round, out |-> ToNarrow(x, round)]
         \/ last' = [op |-> "narrow_unsigned", a |-> x, b |-> round, out |-> ToUnsigned(x, round)]
  BY DEF Convert
<1>2. CASE last' = [op |-> "int64", a |-> x, b |-> round, out |-> ToInt64(x, round)]
  <2> DEFINE out == ToInt64(x, "round")
  <2>1. last'.op = "int64" /\ last'.a = x /\ last'.b = round /\ (round = "round" => last'.out = out)
    BY <1>2
  <2>2. out = ToInt64(Dec(x.data, x.scale), "round")
    BY <1>0
  <2>3. IF out = Error THEN Exceeds(x.data, x.scale, 0) ELSE Within(x.data, x.scale, out, 0, 1, 0)
    BY <1>0, <2>2, Int64Rounds
  <2> HIDE DEF out
  <2>4. QED
    BY <2>1, <2>3 DEF ConversionsAreRounded
<1>3. ASSUME NEW lo \in Int, NEW hi \in Int, -MaxValue <= lo, hi <= MaxValue, x.data # 0,
             last'.a = x, last'.out = Limited(ToInt64(x, "round"), lo, hi)
      PROVE  NextTo(lo, hi)'
  <2> DEFINE low == Min({x.scale, 0})
             all == x.data * Ten[x.scale - low]
             out == Limited(ToInt64(x, "round"), lo, hi)
  <2>1. out = Limited(ToInt64(Dec(x.data, x.scale), "round"), lo, hi)
    BY <1>0
  <2>2. IF out = Error
        THEN \A m \in lo..hi : 2 * Abs(all - m * Ten[-low]) >= Ten[-low]
        ELSE out \in lo..hi /\ 2 * Abs(all - out * Ten[-low]) <= Ten[-low]
    BY <1>0, <1>3, <2>1, LimitedRounds
  <2> HIDE DEF out
  <2>3. QED
    BY <1>3, <2>2 DEF NextTo, out
<1>4. /\ Narrowest \in Int /\ Widest \in Int /\ -MaxValue <= Narrowest /\ Widest <= MaxValue
      /\ 2 * Widest + 1 \in Int /\ 2 * Widest + 1 <= MaxValue /\ -MaxValue <= 0 /\ MaxValue \in Int
  BY WordIs, IntegerAssumption
<1>5. CASE last' = [op |-> "uint64", a |-> x, b |-> round, out |-> ToUInt64(x, round)]
  <2>1. /\ last'.op = "uint64" /\ last'.a = x /\ last'.b = round
        /\ round = "round" => last'.out = Limited(ToInt64(x, "round"), 0, MaxValue)
    BY <1>5 DEF ToUInt64
  <2>2. round = "round" /\ x.data # 0 => NextTo(0, MaxValue)'
    BY <1>3, <1>4, <2>1
  <2>3. QED
    BY <2>1, <2>2 DEF ConversionsAreRounded
<1>6. CASE last' = [op |-> "narrow", a |-> x, b |-> round, out |-> ToNarrow(x, round)]
  <2>1. /\ last'.op = "narrow" /\ last'.a = x /\ last'.b = round
        /\ round = "round" => last'.out = Limited(ToInt64(x, "round"), Narrowest, Widest)
    BY <1>6 DEF ToNarrow
  <2>2. round = "round" /\ x.data # 0 => NextTo(Narrowest, Widest)'
    BY <1>3, <1>4, <2>1
  <2>3. QED
    BY <2>1, <2>2 DEF ConversionsAreRounded
<1>7. CASE last' = [op |-> "narrow_unsigned", a |-> x, b |-> round, out |-> ToUnsigned(x, round)]
  <2>1. /\ last'.op = "narrow_unsigned" /\ last'.a = x /\ last'.b = round
        /\ x.data < 0 => last'.out = Error
        /\ round = "round" /\ ~(x.data < 0) =>
             last'.out = Limited(ToInt64(x, "round"), 0, 2 * Widest + 1)
    BY <1>7 DEF ToUnsigned
  <2>2. round = "round" /\ x.data # 0 /\ ~(x.data < 0) => NextTo(0, 2 * Widest + 1)'
    BY <1>3, <1>4, <2>1
  <2>3. QED
    BY <2>1, <2>2 DEF ConversionsAreRounded
<1>8. QED
  BY <1>1, <1>2, <1>5, <1>6, <1>7

(* The decimals that are combined. *)
LEMMA OperandIs ==
  ASSUME NEW b \in Operand
  PROVE  /\ b.data \in Int /\ InWord(b.data) /\ InWord(-b.data) /\ b.scale \in MinScale..MaxScale
         /\ b.scale \in Int /\ b = Dec(b.data, b.scale)
<1>1. MaxValue \in Nat /\ MinScale \in Int /\ MaxScale \in Int
  BY WordIs, ScaleAssumption
<1>2. b \in [data : (-MaxValue)..MaxValue, scale : MinScale..MaxScale]
  BY DecimalAssumption
<1>3. b.data \in (-MaxValue)..MaxValue /\ b.scale \in MinScale..MaxScale /\ b = Dec(b.data, b.scale)
  BY <1>2 DEF Dec
<1>4. b.data \in Int /\ InWord(b.data) /\ InWord(-b.data)
  BY <1>1, <1>3 DEF InWord, Abs
<1>5. QED
  BY <1>1, <1>3, <1>4

LEMMA SumRounds ==
  ASSUME Fresh, NEW b \in Operand, NEW op, NEW out,
         Does(op, b, out),
         \/ op = "add" /\ out = Add(x, b)
         \/ op = "subtract" /\ out = Subtract(x, b)
  PROVE  SumsAreRounded'
<1> DEFINE n == x.data
           s == x.scale
           m == IF op = "add" THEN b.data ELSE -b.data
           t == b.scale
           low == Min({s, t})
           e == n * Ten[s - low] + m * Ten[t - low]
<1>1. /\ last'.op = op /\ last'.a = x /\ last'.b = b /\ last'.out = out
  BY DoneOnce
<1>2. /\ n \in Int /\ InWord(n) /\ s \in Int /\ x = Dec(n, s)
      /\ n # 0 => s \in MinScale..MaxScale
  BY FreshIs DEF InWord
<1>3. /\ m \in Int /\ InWord(m) /\ t \in MinScale..MaxScale /\ t \in Int /\ (m = 0 <=> b.data = 0)
      /\ b = Dec(b.data, t)
  BY OperandIs
<1>4. out = Add(Dec(n, s), Dec(m, t))
  BY <1>2, <1>3 DEF Subtract, Minus
<1>5. Near' => n # 0 /\ m # 0 /\ Abs(s - t) < MaxPrecision
  BY <1>1, <1>3 DEF Near
<1>6. ASSUME Near'
      PROVE  IF out = Error THEN Abs(e) > MaxValue * Ten[MaxScale - low]
             ELSE Within(out.data, out.scale, e, low, 1, out.scale)
  <2>1. n # 0 /\ m # 0 /\ Abs(s - t) < MaxPrecision /\ s \in MinScale..MaxScale
    BY <1>2, <1>5, <1>6
  <2> HIDE DEF n, s, m, t
  <2>2. QED
    BY <1>2, <1>3, <1>4, <2>1, AddRounds
<1>7. ExactSum' = e
  <2>1. s - low \in Nat /\ t - low \in Nat
    <3>1. low = IF s <= t THEN s ELSE t
      BY <1>2, <1>3, MinOfTwo
    <3> HIDE DEF low, s, t
    <3>2. QED
      BY <1>2, <1>3, <3>1
  <2> DEFINE u == Ten[t - low]
  <2>2. u \in Int
    BY <2>1, TenIs
  <2>3. ExactSum' = n * Ten[s - low] + (IF op = "add" THEN 1 ELSE -1) * b.data * u
    BY <1>1 DEF ExactSum
  <2>4. (IF op = "add" THEN 1 ELSE -1) * b.data * u = m * u
    <3>1. b.data \in Int
      BY OperandIs
    <3> DEFINE c == b.data
    <3>2. c \in Int
      BY <3>1
    <3> HIDE DEF c, u
    <3>3. 1 * c * u = c * u /\ (-1) * c * u = (-c) * u
      BY <2>2, <3>2
    <3>4. CASE op = "add"
      BY <3>3, <3>4 DEF c
    <3>5. CASE op # "add"
      BY <3>3, <3>5 DEF c
    <3>6. QED
      BY <3>4, <3>5
  <2>5. QED
    BY <2>3, <2>4
<1> HIDE DEF e
<1>8. Near' => IF out = Error THEN Abs(ExactSum') > MaxValue * Ten[MaxScale - low]
               ELSE Within(out.data, out.scale, ExactSum', low, 1, out.scale)
  BY <1>6, <1>7
<1>9. QED
  BY <1>1, <1>8 DEF SumsAreRounded

LEMMA ProductRounds ==
  ASSUME Fresh, NEW b \in Operand, Does("multiply", b, Multiply(x, b))
  PROVE  ProductsAreRounded'
<1> DEFINE n == x.data
           s == x.scale
           m == b.data
           t == b.scale
           out == Multiply(x, b)
<1>1. last'.op = "multiply" /\ last'.a = x /\ last'.b = b /\ last'.out = out
  BY DoneOnce
<1>2. n \in Int /\ InWord(n) /\ s \in Int /\ x = Dec(n, s)
  BY FreshIs DEF InWord
<1>3. m \in Int /\ InWord(m) /\ t \in Int /\ b = Dec(m, t)
  BY OperandIs
<1>4. out = Multiply(Dec(n, s), Dec(m, t))
  BY <1>2, <1>3
<1>5. out # Error => Within(out.data, out.scale, n * m, s + t, 1,
                            IF out.scale = MaxScale THEN MaxScale + 1 ELSE Unit(out))
  <2> HIDE DEF n, s, m, t, out
  <2>1. QED
    BY <1>2, <1>3, <1>4, MultiplyRounds
<1> HIDE DEF out
<1>6. QED
  BY <1>1, <1>5 DEF ProductsAreRounded, Done

LEMMA QuotientRounds ==
  ASSUME Fresh, NEW b \in Operand, Does("divide", b, Divide(x, b))
  PROVE  QuotientsAreRounded'
<1> DEFINE n == x.data
           s == x.scale
           m == b.data
           t == b.scale
           out == Divide(x, b)
<1>1. last'.op = "divide" /\ last'.a = x /\ last'.b = b /\ last'.out = out
  BY DoneOnce
<1>2. n \in Int /\ InWord(n) /\ s \in Int /\ x = Dec(n, s)
  BY FreshIs DEF InWord
<1>3. m \in Int /\ InWord(m) /\ t \in Int /\ b = Dec(m, t)
  BY OperandIs
<1>4. out = Divide(Dec(n, s), Dec(m, t))
  BY <1>2, <1>3
<1>5. out # Error => Within(out.data * m, out.scale + t, n, s, Abs(m), Unit(out) + t)
  <2> HIDE DEF n, s, m, t, out
  <2>1. QED
    BY <1>2, <1>3, <1>4, DivideRounds
<1> HIDE DEF out
<1>6. QED
  BY <1>1, <1>5 DEF QuotientsAreRounded, Done

LEMMA OthersRound ==
  ASSUME Set \/ Convert
  PROVE  ArithmeticIsRounded'
<1>1. last'.op \notin {"add", "subtract", "multiply", "divide"}
  <2>1. CASE Set
    <3>1. \/ \E t \in Text : Does("text", t, SetText(t, x.scale))
          \/ \E n \in Signed : \E out \in SignedResults(n, x.scale) : Does("signed", n, out)
          \/ \E n \in Unsigned : Does("unsigned", n, SetUnsigned(n, x.scale))
          \/ \E scale \in Scales : Does("scale", scale, SetDecimal(x, scale))
      BY <2>1 DEF Set
    <3>2. QED
      BY <3>1, DoneOnce
  <2>2. CASE Convert
    <3>1. last'.op \in {"int64", "uint64", "narrow", "narrow_unsigned"}
      BY <2>2 DEF Convert
    <3>2. QED
      BY <3>1
  <2>3. QED
    BY <2>1, <2>2
<1>2. QED
  BY <1>1 DEF ArithmeticIsRounded, SumsAreRounded, ProductsAreRounded, QuotientsAreRounded, Done

LEMMA ArithmeticRoundsOnce ==
  ASSUME Fresh, Arithmetic
  PROVE  ArithmeticIsRounded'
<1>1. PICK b \in Operand :
        \/ Does("add", b, Add(x, b)) \/ Does("subtract", b, Subtract(x, b))
        \/ Does("multiply", b, Multiply(x, b)) \/ Does("divide", b, Divide(x, b))
  BY DEF Arithmetic
<1>2. CASE Does("add", b, Add(x, b)) \/ Does("subtract", b, Subtract(x, b))
  <2>1. SumsAreRounded'
    BY <1>2, SumRounds
  <2>2. last'.op \in {"add", "subtract"}
    BY <1>2, DoneOnce
  <2>3. ProductsAreRounded' /\ QuotientsAreRounded'
    BY <2>2 DEF ProductsAreRounded, QuotientsAreRounded, Done
  <2>4. QED
    BY <2>1, <2>3 DEF ArithmeticIsRounded
<1>3. CASE Does("multiply", b, Multiply(x, b))
  <2>1. ProductsAreRounded'
    BY <1>3, ProductRounds
  <2>2. last'.op = "multiply"
    BY <1>3, DoneOnce
  <2>3. SumsAreRounded' /\ QuotientsAreRounded'
    BY <2>2 DEF SumsAreRounded, QuotientsAreRounded, Done
  <2>4. QED
    BY <2>1, <2>3 DEF ArithmeticIsRounded
<1>4. CASE Does("divide", b, Divide(x, b))
  <2>1. QuotientsAreRounded'
    BY <1>4, QuotientRounds
  <2>2. last'.op = "divide"
    BY <1>4, DoneOnce
  <2>3. SumsAreRounded' /\ ProductsAreRounded'
    BY <2>2 DEF SumsAreRounded, ProductsAreRounded, Done
  <2>4. QED
    BY <2>1, <2>3 DEF ArithmeticIsRounded
<1>5. QED
  BY <1>1, <1>2, <1>3, <1>4

(* Addition, subtraction, multiplication and division return the exact     *)
(* result rounded in its last digit, by little more than half a unit as a  *)
(* result may be rounded up to three times, for every word and every range *)
(* of scales (operator+, -, * and /).  Sums, of operands fewer than        *)
(* MaxPrecision apart in scale, are refused only when they do not fit.     *)
THEOREM ArithmeticRounds == Spec => []ArithmeticIsRounded
<1>1. Init => Begun /\ ArithmeticIsRounded
  <2>1. ASSUME Init PROVE last.op = "none"
    BY <2>1 DEF Init, NoOp
  <2>2. Init => ArithmeticIsRounded
    BY <2>1 DEF ArithmeticIsRounded, SumsAreRounded, ProductsAreRounded, QuotientsAreRounded, Done
  <2>3. QED
    BY <2>2, Beginning
<1>2. Begun /\ ArithmeticIsRounded /\ [Next]_vars => Begun' /\ ArithmeticIsRounded'
  <2> SUFFICES ASSUME Begun, ArithmeticIsRounded, [Next]_vars PROVE ArithmeticIsRounded'
    BY Begins
  <2>1. CASE Next
    <3>1. Fresh /\ (Arithmetic \/ Set \/ Convert)
      BY <2>1 DEF Next, Begun
    <3>2. QED
      BY <3>1, ArithmeticRoundsOnce, OthersRound
  <2>2. CASE UNCHANGED vars
    BY <2>2 DEF ArithmeticIsRounded, SumsAreRounded, ProductsAreRounded, QuotientsAreRounded,
                Done, Near, ExactSum, vars
  <2>3. QED
    BY <2>1, <2>2
<1>3. QED
  BY <1>1, <1>2, PTL DEF Spec

LEMMA ArithmeticConverts ==
  ASSUME Arithmetic
  PROVE  ConversionsAreRounded'
<1>1. last'.op \in {"add", "subtract", "multiply", "divide"}
  <2>1. PICK b \in Operand :
          \/ Does("add", b, Add(x, b)) \/ Does("subtract", b, Subtract(x, b))
          \/ Does("multiply", b, Multiply(x, b)) \/ Does("divide", b, Divide(x, b))
    BY DEF Arithmetic
  <2>2. QED
    BY <2>1, DoneOnce
<1>2. QED
  BY <1>1 DEF ConversionsAreRounded

(* Conversions to and from integers and to another scale round to the      *)
(* nearest and refuse only what does not fit, for every word and every     *)
(* range of scales: Set, ToInt64, ToUInt64, and ToInt32 and ToUInt32 and   *)
(* their kin, of which the unsigned ones refuse all below zero.  It leaves *)
(* out the least int64_t where Set overflows, at a scale below 0.          *)
THEOREM ConversionsRound == Spec => []ConversionsAreRounded
<1>1. Init => Begun /\ ConversionsAreRounded
  <2>1. ASSUME Init PROVE last.op = "none"
    BY <2>1 DEF Init, NoOp
  <2>2. Init => ConversionsAreRounded
    BY <2>1 DEF ConversionsAreRounded
  <2>3. QED
    BY <2>2, Beginning
<1>2. Begun /\ ConversionsAreRounded /\ [Next]_vars => Begun' /\ ConversionsAreRounded'
  <2> SUFFICES ASSUME Begun, ConversionsAreRounded, [Next]_vars PROVE ConversionsAreRounded'
    BY Begins
  <2>1. CASE Next
    <3>1. Fresh /\ (Arithmetic \/ Set \/ Convert)
      BY <2>1 DEF Next, Begun
    <3>2. QED
      BY <3>1, ArithmeticConverts, SetConverts, ConvertConverts
  <2>2. CASE UNCHANGED vars
    BY <2>2 DEF ConversionsAreRounded, NextTo, vars
  <2>3. QED
    BY <2>1, <2>2
<1>3. QED
  BY <1>1, <1>2, PTL DEF Spec
=============================================================================
