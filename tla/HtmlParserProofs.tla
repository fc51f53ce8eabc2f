--------------------------- MODULE HtmlParserProofs ---------------------------
(***************************************************************************)
(* Proofs about HtmlParser: for input of any length, the parser matches    *)
(* only behind CR LF CR LF, and the header matches exactly at the end of   *)
(* the lines that are a header, with the key and the value of that line.   *)
(*                                                                         *)
(* The invariant of the parser says that the last m_ptr characters are the *)
(* first m_ptr of Eom.  The invariant of the header says, for each of its  *)
(* states, where in the line that began at position b the colon (p), the   *)
(* first space behind it (s) and the first CR behind that (r) are.         *)
(***************************************************************************)
EXTENDS HtmlParser, SequenceTheorems, TLAPS

n == Len(input)

\* None of the characters i .. j of the input is c.
NoneOf(c, i, j) == \A k \in i .. j : input[k] # c

\* The last line begins at b; it may have ended at the last character.
LineBegins(b) == /\ b \in 1 .. n /\ (b = 1 \/ input[b - 1] = "LF")
                 /\ NoneOf("LF", b, n - 1)

\* The line that began at b is a header, with its colon at p.
HeaderAt(b, p) ==
  /\ p \in b + 1 .. n - 3
  /\ input[p] = "colon" /\ NoneOf("colon", b + 1, p - 1) /\ input[p + 1] = "space"
  /\ NoneOf("CR", p + 2, n - 2) /\ input[n - 1] = "CR" /\ input[n] = "LF"

ColonAt(b, p) == /\ p \in b + 1 .. n /\ input[p] = "colon" /\ NoneOf("colon", b + 1, p - 1)
                 /\ m_key = SubSeq(input, b, p - 1)
SpaceAt(p, s) == s \in p + 1 .. n /\ input[s] = "space" /\ NoneOf("space", p + 1, s - 1)

InBegin(b) == /\ m_state = "begin" /\ m_key = <<>>
              /\ input[n] = "LF" /\ \A p \in Nat : ~HeaderAt(b, p)
InKey(b)   == /\ m_state = "key" /\ input[n] # "LF" /\ ~m_error /\ m_value = <<>>
              /\ NoneOf("colon", b + 1, n) /\ m_key = SubSeq(input, b, n)
InColon(b, p) ==
  /\ m_state = "colon" /\ input[n] # "LF" /\ m_value = <<>>
  /\ ColonAt(b, p) /\ NoneOf("space", p + 1, n) /\ (m_error <=> p < n)
InValue(b, p, s) ==
  /\ m_state = "value" /\ input[n] # "LF"
  /\ ColonAt(b, p) /\ SpaceAt(p, s) /\ NoneOf("CR", s + 1, n)
  /\ m_value = SubSeq(input, s + 1, n) /\ (m_error <=> s > p + 1)
InReturn(b, p, s, r) ==
  /\ m_state = "carriage_return" /\ input[n] # "LF"
  /\ ColonAt(b, p) /\ SpaceAt(p, s)
  /\ r \in s + 1 .. n /\ input[r] = "CR" /\ NoneOf("CR", s + 1, r - 1)
  /\ m_value = SubSeq(input, s + 1, r - 1) /\ (m_error <=> s > p + 1 \/ r < n)
Matched(b, p) ==
  /\ m_state = "matched" /\ HeaderAt(b, p)
  /\ m_key = SubSeq(input, b, p - 1) /\ m_value = SubSeq(input, p + 2, n - 2)

LineInv ==
  \/ m_state = "begin" /\ m_key = <<>> /\ input = <<>>
  \/ \E b \in 1 .. n :
       /\ LineBegins(b)
       /\ \/ InBegin(b)
          \/ InKey(b)
          \/ \E p \in 1 .. n : InColon(b, p)
          \/ \E p, s \in 1 .. n : InValue(b, p, s)
          \/ \E p, s, r \in 1 .. n : InReturn(b, p, s, r)
          \/ \E p \in 1 .. n : Matched(b, p)

ParserInv ==
  /\ m_ptr \in 0 .. Len(Eom) /\ m_ptr <= n
  /\ \A i \in 1 .. m_ptr : input[n - m_ptr + i] = Eom[i]

-----------------------------------------------------------------------------
(* Lemmas about sequences.                                                 *)

\* The input got one character longer.
Grows(c) ==
  /\ n \in Nat /\ n' = n + 1 /\ input'[n + 1] = c
  /\ \A k \in 1 .. n : input'[k] = input[k]
  /\ \A i \in 1 .. n + 1, j \in 0 .. n : SubSeq(input', i, j) = SubSeq(input, i, j)
  /\ \A i \in 1 .. n + 1 : SubSeq(input', i, n + 1) = Append(SubSeq(input, i, n), c)

\* Feeding a character leaves everything before it where it was.
LEMMA InputGrows ==
  ASSUME input \in Seq(Char), NEW c \in Char, input' = Append(input, c)
  PROVE  Grows(c) /\ input' \in Seq(Char)
<1>1. /\ input' \in Seq(Char) /\ n \in Nat /\ n' = n + 1 /\ input'[n + 1] = c
      /\ \A k \in 1 .. n : input'[k] = input[k]
  BY DEF n
<1>2. ASSUME NEW i \in 1 .. n + 1, NEW j \in 0 .. n
      PROVE  SubSeq(input', i, j) = SubSeq(input, i, j)
  <2> DEFINE u == SubSeq(input', i, j)
             v == SubSeq(input, i, j)
  <2>1. u \in Seq(Char) /\ v \in Seq(Char)
    BY <1>1 DEF n
  <2>2. Len(u) = Len(v) /\ \A k \in 1 .. Len(u) : u[k] = v[k]
    BY <1>1 DEF n
  <2> QED
    BY <2>1, <2>2, SeqEqual
<1>3. ASSUME NEW i \in 1 .. n + 1
      PROVE  SubSeq(input', i, n + 1) = Append(SubSeq(input, i, n), c)
  <2> DEFINE u == SubSeq(input', i, n + 1)
             v == Append(SubSeq(input, i, n), c)
  <2>1. u \in Seq(Char) /\ v \in Seq(Char)
    BY <1>1 DEF n
  <2>2. Len(u) = Len(v) /\ \A k \in 1 .. Len(u) : u[k] = v[k]
    BY <1>1 DEF n
  <2> QED
    BY <2>1, <2>2, SeqEqual
<1> QED
  BY <1>1, <1>2, <1>3 DEF Grows

-----------------------------------------------------------------------------
(* header::feed, one lemma per state.                                      *)

\* A line that did not end goes on.
LEMMA LineGoesOn ==
  ASSUME NEW c, Grows(c), NEW b \in 1 .. n, LineBegins(b), input[n] # "LF"
  PROVE  LineBegins(b)' /\ b \in 1 .. n'
<1>1. /\ n \in Nat /\ n' = n + 1 /\ \A k \in 1 .. n : input'[k] = input[k]
  BY DEF Grows
<1>2. b = 1 \/ input'[b - 1] = "LF"
  BY <1>1 DEF LineBegins
<1>3. \A k \in b .. n' - 1 : input'[k] # "LF"
  BY <1>1 DEF LineBegins, NoneOf
<1> QED
  BY <1>1, <1>2, <1>3 DEF LineBegins, NoneOf

\* A colon, and the space behind it, stay where they are.
LEMMA MarksStay ==
  ASSUME NEW c, Grows(c), NEW b \in 1 .. n, NEW p \in 1 .. n, ColonAt(b, p), m_key' = m_key
  PROVE  /\ ColonAt(b, p)' /\ p \in 1 .. n'
         /\ \A s \in 1 .. n : SpaceAt(p, s) => SpaceAt(p, s)' /\ s \in 1 .. n'
<1>1. /\ n \in Nat /\ n' = n + 1 /\ \A k \in 1 .. n : input'[k] = input[k]
      /\ \A i \in 1 .. n + 1, j \in 0 .. n : SubSeq(input', i, j) = SubSeq(input, i, j)
  BY DEF Grows
<1>2. ColonAt(b, p)'
  <2>1. p \in b + 1 .. n /\ p - 1 \in 0 .. n /\ b \in 1 .. n + 1
    BY <1>1 DEF ColonAt
  <2>2. p \in b + 1 .. n' /\ input'[p] = "colon" /\ \A k \in b + 1 .. p - 1 : input'[k] # "colon"
    BY <1>1, <2>1 DEF ColonAt, NoneOf
  <2>3. m_key' = SubSeq(input', b, p - 1)
    BY <1>1, <2>1 DEF ColonAt
  <2> QED
    BY <2>2, <2>3 DEF ColonAt, NoneOf
<1>3. ASSUME NEW s \in 1 .. n, SpaceAt(p, s) PROVE SpaceAt(p, s)' /\ s \in 1 .. n'
  <2>1. /\ s \in p + 1 .. n' /\ input'[s] = "space"
        /\ \A k \in p + 1 .. s - 1 : input'[k] # "space"
    BY <1>1, <1>3 DEF SpaceAt, NoneOf
  <2> QED
    BY <2>1, <1>1 DEF SpaceAt, NoneOf
<1> QED
  BY <1>1, <1>2, <1>3

\* Nothing of the line was read yet: the first character is part of the key, whatever it
\* is, except for a line feed.
LEMMA FeedBegin ==
  ASSUME NEW c, Grows(c), Header_feed(c),
         m_state \in {"begin", "matched"}, m_state = "begin" => m_key = <<>>,
         input = <<>> \/ input[n] = "LF"
  PROVE  LineInv'
<1>2. /\ n \in Nat /\ n' = n + 1 /\ input'[n + 1] = c
      /\ \A k \in 1 .. n : input'[k] = input[k]
      /\ SubSeq(input', n + 1, n + 1) = Append(SubSeq(input, n + 1, n), c)
  BY DEF Grows
<1>3. PICK b \in Nat : b = n + 1
  BY <1>2
<1>4. LineBegins(b)' /\ b \in 1 .. n'
  <2>1. b = 1 \/ input'[b - 1] = "LF"
    BY <1>2, <1>3 DEF n
  <2>2. \A k \in b .. n' - 1 : input'[k] # "LF"
    BY <1>2, <1>3
  <2> QED
    BY <1>2, <1>3, <2>1, <2>2 DEF LineBegins, NoneOf
<1>5. CASE c = "LF"
  <2>1. m_state' = "begin" /\ m_key' = <<>>
    BY <1>5 DEF Header_feed, Header_reset, Header
  <2>2. input'[n'] = "LF"
    BY <1>2, <1>5
  <2>3. \A p \in Nat : ~HeaderAt(b, p)'
    BY <1>2, <1>3 DEF HeaderAt
  <2>4. InBegin(b)'
    BY <2>1, <2>2, <2>3 DEF InBegin
  <2> QED
    BY <1>4, <2>4 DEF LineInv
<1>6. CASE c # "LF"
  <2>1. m_state' = "key" /\ m_error' = FALSE /\ m_key' = Append(<<>>, c) /\ m_value' = <<>>
    BY <1>6 DEF Header_feed, Header
  <2>2. SubSeq(input, n + 1, n) = <<>>
    BY <1>2, SubSeqEmpty
  <2>3. m_key' = SubSeq(input', b, n')
    BY <1>2, <1>3, <2>1, <2>2
  <2>4. \A k \in b + 1 .. n' : input'[k] # "colon"
    BY <1>2, <1>3
  <2>5. InKey(b)'
    BY <1>2, <1>6, <2>1, <2>3, <2>4 DEF InKey, NoneOf
  <2> QED
    BY <1>4, <2>5 DEF LineInv
<1> QED
  BY <1>5, <1>6

\* In the key, only a colon or a line feed is special.
LEMMA FeedKey ==
  ASSUME NEW c, Grows(c), Header_feed(c), NEW b \in 1 .. n, LineBegins(b), InKey(b)
  PROVE  LineInv'
<1>1. /\ n \in Nat /\ n' = n + 1 /\ input'[n + 1] = c
      /\ \A k \in 1 .. n : input'[k] = input[k]
      /\ SubSeq(input', b, n) = SubSeq(input, b, n)
      /\ SubSeq(input', b, n + 1) = Append(SubSeq(input, b, n), c)
  BY DEF Grows
<1>2. m_state = "key" /\ \A k \in b + 1 .. n : input[k] # "colon"
  BY DEF InKey, NoneOf
<1>3. LineBegins(b)' /\ b \in 1 .. n'
  BY LineGoesOn DEF InKey
<1>4. \A k \in b + 1 .. n : input'[k] # "colon"
  BY <1>1, <1>2
<1>5. CASE c = "LF"
  <2>1. m_state' = "begin" /\ m_key' = <<>>
    BY <1>2, <1>5 DEF Header_feed, Header_reset, Header
  <2>2. \A p \in Nat : ~HeaderAt(b, p)'
    BY <1>1, <1>4 DEF HeaderAt
  <2>3. InBegin(b)'
    BY <1>1, <1>5, <2>1, <2>2 DEF InBegin
  <2> QED
    BY <1>3, <2>3 DEF LineInv
<1>6. CASE c = "colon"
  <2>1. m_state' = "colon" /\ m_error' = m_error /\ m_key' = m_key /\ m_value' = m_value
    BY <1>2, <1>6 DEF Header_feed, Header
  <2>2. PICK p \in Nat : p = n + 1
    BY <1>1
  <2>3. m_key' = SubSeq(input', b, p - 1)
    BY <1>1, <2>1, <2>2 DEF InKey
  <2>4. ColonAt(b, p)'
    BY <1>1, <1>4, <1>6, <2>2, <2>3 DEF ColonAt, NoneOf
  <2>5. ~m_error' /\ m_value' = <<>>
    BY <2>1 DEF InKey
  <2>6. InColon(b, p)' /\ p \in 1 .. n'
    BY <1>1, <1>6, <2>1, <2>2, <2>4, <2>5 DEF InColon, NoneOf
  <2> QED
    BY <1>3, <2>6 DEF LineInv
<1>7. CASE c # "colon" /\ c # "LF"
  <2>1. /\ m_state' = "key" /\ m_error' = m_error /\ m_key' = Append(m_key, c)
        /\ m_value' = m_value
    BY <1>2, <1>7 DEF Header_feed, Header
  <2>2. m_key' = SubSeq(input', b, n') /\ ~m_error' /\ m_value' = <<>>
    BY <1>1, <2>1 DEF InKey
  <2>3. \A k \in b + 1 .. n' : input'[k] # "colon"
    BY <1>1, <1>4, <1>7
  <2>4. InKey(b)'
    BY <1>1, <1>7, <2>1, <2>2, <2>3 DEF InKey, NoneOf
  <2> QED
    BY <1>3, <2>4 DEF LineInv
<1> QED
  BY <1>5, <1>6, <1>7

\* Behind the colon has to be a space; anything before it is an error.
LEMMA FeedColon ==
  ASSUME NEW c, Grows(c), Header_feed(c), m_error \in BOOLEAN,
         NEW b \in 1 .. n, LineBegins(b), NEW p \in 1 .. n, InColon(b, p)
  PROVE  LineInv'
<1>1. /\ n \in Nat /\ n' = n + 1 /\ input'[n + 1] = c
      /\ \A k \in 1 .. n : input'[k] = input[k]
  BY DEF Grows
<1>2. /\ m_state = "colon" /\ p \in b + 1 .. n /\ \A k \in p + 1 .. n : input'[k] # "space"
      /\ m_value = <<>> /\ (m_error <=> p < n)
  BY <1>1 DEF InColon, NoneOf, ColonAt
<1>3. LineBegins(b)' /\ b \in 1 .. n'
  BY LineGoesOn DEF InColon
<1>4. CASE c = "LF"
  <2>1. m_state' = "begin" /\ m_key' = <<>>
    BY <1>2, <1>4 DEF Header_feed, Header_reset, Header
  <2>2. ASSUME NEW q \in Nat, HeaderAt(b, q)' PROVE FALSE
    <3>1. /\ q \in b + 1 .. n - 2 /\ input'[q] = "colon" /\ input'[q + 1] = "space"
          /\ \A k \in b + 1 .. q - 1 : input'[k] # "colon"
      BY <1>1, <2>2 DEF HeaderAt, NoneOf
    <3>2. /\ input'[p] = "colon" /\ \A k \in b + 1 .. p - 1 : input'[k] # "colon"
      BY <1>1, <1>2 DEF InColon, ColonAt, NoneOf
    <3>3. q = p
      BY <1>1, <1>2, <3>1, <3>2
    <3> QED
      BY <1>1, <1>2, <3>1, <3>3
  <2>3. InBegin(b)'
    BY <1>1, <1>4, <2>1, <2>2 DEF InBegin
  <2> QED
    BY <1>3, <2>3 DEF LineInv
<1>5. CASE c = "space"
  <2>1. m_state' = "value" /\ m_error' = m_error /\ m_key' = m_key /\ m_value' = m_value
    BY <1>2, <1>5 DEF Header_feed, Header
  <2>2. PICK s \in Nat : s = n + 1
    BY <1>1
  <2>3. ColonAt(b, p)' /\ p \in 1 .. n'
    BY <2>1, MarksStay DEF InColon
  <2>4. SpaceAt(p, s)' /\ s \in 1 .. n'
    BY <1>1, <1>2, <1>5, <2>2 DEF SpaceAt, NoneOf
  <2>5. m_value' = SubSeq(input', s + 1, n')
    BY <1>1, <1>2, <2>1, <2>2, SubSeqEmpty
  <2>6. m_error' <=> s > p + 1
    BY <1>1, <1>2, <2>1, <2>2
  <2>7. \A k \in s + 1 .. n' : input'[k] # "CR"
    BY <1>1, <2>2
  <2>8. InValue(b, p, s)'
    BY <1>1, <1>5, <2>1, <2>3, <2>4, <2>5, <2>6, <2>7 DEF InValue, NoneOf
  <2> QED
    BY <1>3, <2>3, <2>4, <2>8 DEF LineInv
<1>6. CASE c # "space" /\ c # "LF"
  <2>1. m_state' = "colon" /\ m_error' = TRUE /\ m_key' = m_key /\ m_value' = m_value
    BY <1>2, <1>6 DEF Header_feed, Header
  <2>2. ColonAt(b, p)' /\ p \in 1 .. n'
    BY <2>1, MarksStay DEF InColon
  <2>3. \A k \in p + 1 .. n' : input'[k] # "space"
    BY <1>1, <1>2, <1>6
  <2>4. m_error' <=> p < n'
    BY <1>1, <1>2, <2>1
  <2>5. InColon(b, p)'
    BY <1>1, <1>2, <1>6, <2>1, <2>2, <2>3, <2>4 DEF InColon, NoneOf
  <2> QED
    BY <1>3, <2>2, <2>5 DEF LineInv
<1> QED
  BY <1>4, <1>5, <1>6

\* The value ends at a CR.
LEMMA FeedValue ==
  ASSUME NEW c, Grows(c), Header_feed(c), m_error \in BOOLEAN,
         NEW b \in 1 .. n, LineBegins(b), NEW p \in 1 .. n, NEW s \in 1 .. n,
         InValue(b, p, s)
  PROVE  LineInv'
<1>1. /\ n \in Nat /\ n' = n + 1 /\ input'[n + 1] = c
      /\ \A k \in 1 .. n : input'[k] = input[k]
      /\ SubSeq(input', s + 1, n) = SubSeq(input, s + 1, n)
      /\ SubSeq(input', s + 1, n + 1) = Append(SubSeq(input, s + 1, n), c)
  <2>1. n \in Nat /\ s + 1 \in 1 .. n + 1 /\ n \in 0 .. n
    BY DEF Grows
  <2> QED
    BY <2>1 DEF Grows
<1>2. /\ m_state = "value" /\ p \in b + 1 .. n /\ s \in p + 1 .. n /\ input'[s] = "space"
      /\ \A k \in s + 1 .. n : input'[k] # "CR"
      /\ m_value = SubSeq(input, s + 1, n) /\ (m_error <=> s > p + 1)
  BY <1>1 DEF InValue, NoneOf, ColonAt, SpaceAt
<1>3. LineBegins(b)' /\ b \in 1 .. n'
  BY LineGoesOn DEF InValue
<1>4. ASSUME m_key' = m_key
      PROVE  ColonAt(b, p)' /\ p \in 1 .. n' /\ SpaceAt(p, s)' /\ s \in 1 .. n'
  BY <1>4, MarksStay DEF InValue
<1>5. CASE c = "LF"
  <2>1. m_state' = "begin" /\ m_key' = <<>>
    BY <1>2, <1>5 DEF Header_feed, Header_reset, Header
  <2>2. ASSUME NEW q \in Nat, HeaderAt(b, q)' PROVE FALSE
    <3>1. /\ q \in b + 1 .. n - 2 /\ input'[q] = "colon" /\ input'[q + 1] = "space"
          /\ input'[n] = "CR" /\ \A k \in b + 1 .. q - 1 : input'[k] # "colon"
      BY <1>1, <2>2 DEF HeaderAt, NoneOf
    <3>2. n \in s + 1 .. n
      BY <1>1, <1>2, <3>1
    <3> QED
      BY <1>2, <3>1, <3>2
  <2>3. InBegin(b)'
    BY <1>1, <1>5, <2>1, <2>2 DEF InBegin
  <2> QED
    BY <1>3, <2>3 DEF LineInv
<1>6. CASE c = "CR"
  <2>1. /\ m_state' = "carriage_return" /\ m_error' = m_error /\ m_key' = m_key
        /\ m_value' = m_value
    BY <1>2, <1>6 DEF Header_feed, Header
  <2>2. PICK r \in Nat : r = n + 1
    BY <1>1
  <2>3. m_value' = SubSeq(input', s + 1, r - 1)
    BY <1>1, <1>2, <2>1, <2>2
  <2>4. m_error' <=> s > p + 1 \/ r < n'
    BY <1>1, <1>2, <2>1, <2>2
  <2>5. /\ r \in s + 1 .. n' /\ input'[r] = "CR" /\ r \in 1 .. n'
        /\ \A k \in s + 1 .. r - 1 : input'[k] # "CR"
    BY <1>1, <1>2, <1>6, <2>2
  <2>6. InReturn(b, p, s, r)'
    BY <1>1, <1>4, <1>6, <2>1, <2>3, <2>4, <2>5 DEF InReturn, NoneOf
  <2> QED
    BY <1>3, <1>4, <2>1, <2>5, <2>6 DEF LineInv
<1>7. CASE c # "CR" /\ c # "LF"
  <2>1. /\ m_state' = "value" /\ m_error' = m_error /\ m_key' = m_key
        /\ m_value' = Append(m_value, c)
    BY <1>2, <1>7 DEF Header_feed, Header
  <2>2. m_value' = SubSeq(input', s + 1, n') /\ (m_error' <=> s > p + 1)
    BY <1>1, <1>2, <2>1
  <2>3. \A k \in s + 1 .. n' : input'[k] # "CR"
    BY <1>1, <1>2, <1>7
  <2>4. InValue(b, p, s)'
    BY <1>1, <1>4, <1>7, <2>1, <2>2, <2>3 DEF InValue, NoneOf
  <2> QED
    BY <1>3, <1>4, <2>1, <2>4 DEF LineInv
<1> QED
  BY <1>5, <1>6, <1>7

\* A line feed directly behind the CR of a line without an error completes the header.
LEMMA FeedReturn ==
  ASSUME NEW c, Grows(c), Header_feed(c), m_error \in BOOLEAN,
         NEW b \in 1 .. n, LineBegins(b), NEW p \in 1 .. n, NEW s \in 1 .. n,
         NEW r \in 1 .. n, InReturn(b, p, s, r)
  PROVE  LineInv'
<1>1. /\ n \in Nat /\ n' = n + 1 /\ input'[n + 1] = c
      /\ \A k \in 1 .. n : input'[k] = input[k]
      /\ SubSeq(input', s + 1, r - 1) = SubSeq(input, s + 1, r - 1)
  <2>1. n \in Nat /\ s + 1 \in 1 .. n + 1 /\ r - 1 \in 0 .. n
    BY DEF Grows
  <2> QED
    BY <2>1 DEF Grows
<1>2. /\ m_state = "carriage_return" /\ p \in b + 1 .. n /\ s \in p + 1 .. n
      /\ r \in s + 1 .. n /\ input'[r] = "CR" /\ \A k \in s + 1 .. r - 1 : input'[k] # "CR"
      /\ m_value = SubSeq(input, s + 1, r - 1) /\ (m_error <=> s > p + 1 \/ r < n)
  BY <1>1 DEF InReturn, NoneOf, ColonAt, SpaceAt
<1>3. LineBegins(b)' /\ b \in 1 .. n'
  BY LineGoesOn DEF InReturn
<1>4. ASSUME m_key' = m_key
      PROVE  ColonAt(b, p)' /\ p \in 1 .. n' /\ SpaceAt(p, s)' /\ s \in 1 .. n'
  BY <1>4, MarksStay DEF InReturn
<1>5. CASE c = "LF" /\ m_error
  <2>1. m_state' = "begin" /\ m_key' = <<>>
    BY <1>2, <1>5 DEF Header_feed, Header_reset, Header, LineIsGood
  <2>2. ASSUME NEW q \in Nat, HeaderAt(b, q)' PROVE FALSE
    <3>1. /\ q \in b + 1 .. n - 2 /\ input'[q] = "colon" /\ input'[q + 1] = "space"
          /\ \A k \in b + 1 .. q - 1 : input'[k] # "colon"
          /\ \A k \in q + 2 .. n - 1 : input'[k] # "CR"
      BY <1>1, <2>2 DEF HeaderAt, NoneOf
    <3>2. /\ input'[p] = "colon" /\ \A k \in b + 1 .. p - 1 : input'[k] # "colon"
          /\ input'[s] = "space" /\ \A k \in p + 1 .. s - 1 : input'[k] # "space"
      BY <1>1, <1>2 DEF InReturn, ColonAt, SpaceAt, NoneOf
    <3>3. q = p
      BY <1>1, <1>2, <3>1, <3>2
    <3>4. s = p + 1
      BY <1>1, <1>2, <3>1, <3>2, <3>3
    <3>5. r < n
      BY <1>1, <1>2, <1>5, <3>4
    <3> QED
      BY <1>1, <1>2, <3>1, <3>3, <3>4, <3>5
  <2>3. InBegin(b)'
    BY <1>1, <1>5, <2>1, <2>2 DEF InBegin
  <2> QED
    BY <1>3, <2>3 DEF LineInv
<1>6. CASE c = "LF" /\ ~m_error
  <2>1. /\ m_state' = "matched" /\ m_key' = m_key /\ m_value' = m_value
    BY <1>2, <1>6 DEF Header_feed, Header, LineIsGood
  <2>2. s = p + 1 /\ r = n
    BY <1>1, <1>2, <1>6
  <2>3. /\ p \in b + 1 .. n' - 3 /\ input'[p + 1] = "space"
        /\ \A k \in p + 2 .. n' - 2 : input'[k] # "CR"
        /\ input'[n' - 1] = "CR" /\ input'[n'] = "LF"
    BY <1>1, <1>2, <1>6, <2>2 DEF InReturn, SpaceAt
  <2>4. /\ m_key' = SubSeq(input', b, p - 1) /\ input'[p] = "colon"
        /\ \A k \in b + 1 .. p - 1 : input'[k] # "colon"
    BY <1>4, <2>1 DEF ColonAt, NoneOf
  <2>5. m_value' = SubSeq(input', p + 2, n' - 2)
    <3>1. s + 1 = p + 2 /\ r - 1 = n' - 2
      BY <1>1, <2>2
    <3> QED
      BY <1>1, <1>2, <2>1, <3>1
  <2>6. Matched(b, p)'
    BY <2>1, <2>3, <2>4, <2>5 DEF Matched, HeaderAt, NoneOf
  <2> QED
    BY <1>3, <1>4, <2>1, <2>6 DEF LineInv
<1>7. CASE c # "LF"
  <2>1. /\ m_state' = "carriage_return" /\ m_error' = TRUE /\ m_key' = m_key
        /\ m_value' = m_value
    BY <1>2, <1>7 DEF Header_feed, Header
  <2>2. /\ m_value' = SubSeq(input', s + 1, r - 1) /\ (m_error' <=> s > p + 1 \/ r < n')
        /\ r \in s + 1 .. n' /\ r \in 1 .. n'
    BY <1>1, <1>2, <2>1
  <2>3. InReturn(b, p, s, r)'
    BY <1>1, <1>2, <1>4, <1>7, <2>1, <2>2 DEF InReturn, NoneOf
  <2> QED
    BY <1>3, <1>4, <2>1, <2>2, <2>3 DEF LineInv
<1> QED
  BY <1>5, <1>6, <1>7

-----------------------------------------------------------------------------
(* Invariance.                                                             *)

IndInv == TypeOK /\ ParserInv /\ LineInv

\* header::feed stays within its states, and both its strings are strings of characters.
LEMMA FeedKeepsType ==
  ASSUME TypeOK, NEW c \in Char, Feed(c)
  PROVE  TypeOK'
<1>1. input' \in Seq(Char)
  BY DEF TypeOK, Feed
<1>2. m_ptr \in 0 .. 3
  BY DEF TypeOK, Feed, Eom
<1>3. m_ptr' \in 0 .. Len(Eom)
  BY <1>2 DEF Feed, Parser_feed, Eom
<1>4. m_match' = (m_ptr' = Len(Eom)) /\ (m_ptr' = Len(Eom)) \in BOOLEAN
  BY DEF Feed, Parser_feed
<1>5. /\ m_state' \in States /\ m_error' \in BOOLEAN
      /\ m_key' \in Seq(Char) /\ m_value' \in Seq(Char)
  <2>1. /\ m_state \in States /\ m_error \in BOOLEAN
        /\ m_key \in Seq(Char) /\ m_value \in Seq(Char) /\ Header_feed(c)
    BY DEF TypeOK, Feed
  <2>2. Append(m_key, c) \in Seq(Char) /\ Append(<<>>, c) \in Seq(Char)
        /\ Append(m_value, c) \in Seq(Char) /\ <<>> \in Seq(Char)
    BY <2>1
  <2> QED
    BY <2>1, <2>2 DEF Header_feed, Header_reset, Header, States
<1> QED
  BY <1>1, <1>3, <1>4, <1>5, Zenon DEF TypeOK

\* parser::feed: what was matched are the last characters that were fed.
LEMMA FeedKeepsParser ==
  ASSUME TypeOK, ParserInv, NEW c \in Char, Feed(c)
  PROVE  ParserInv'
<1>1. Grows(c)
  BY InputGrows DEF Feed, TypeOK
<1>2. /\ n \in Nat /\ n' = n + 1 /\ input'[n + 1] = c
      /\ \A k \in 1 .. n : input'[k] = input[k]
  BY <1>1 DEF Grows
<1>3. m_ptr \in 0 .. 3 /\ m_ptr <= n
  BY DEF TypeOK, Feed, Eom, ParserInv
<1>4. /\ m_ptr' = IF c = Eom[m_ptr + 1] THEN m_ptr + 1 ELSE 0
      /\ Len(Eom) = 4
  BY DEF Feed, Parser_feed, Eom
<1>5. \A i \in 1 .. m_ptr : input[n - m_ptr + i] = Eom[i]
  BY DEF ParserInv
<1>6. CASE c = Eom[m_ptr + 1]
  <2>1. ASSUME NEW i \in 1 .. m_ptr + 1 PROVE input'[(n + 1) - (m_ptr + 1) + i] = Eom[i]
    <3>1. CASE i = m_ptr + 1
      <4>1. (n + 1) - (m_ptr + 1) + i = n + 1
        BY <1>2, <1>3, <3>1
      <4> QED
        BY <1>2, <1>6, <3>1, <4>1
    <3>2. CASE i \in 1 .. m_ptr
      <4>1. /\ (n + 1) - (m_ptr + 1) + i = n - m_ptr + i
            /\ n - m_ptr + i \in 1 .. n
        BY <1>2, <1>3, <3>2
      <4> QED
        BY <1>2, <1>5, <3>2, <4>1
    <3> QED
      BY <1>3, <3>1, <3>2
  <2>2. m_ptr' = m_ptr + 1
    BY <1>4, <1>6
  <2> QED
    BY <1>2, <1>3, <1>4, <2>1, <2>2 DEF ParserInv
<1>7. CASE c # Eom[m_ptr + 1]
  BY <1>2, <1>4, <1>7 DEF ParserInv
<1> QED
  BY <1>6, <1>7

\* header::feed, in whatever state it is.
LEMMA FeedKeepsLine ==
  ASSUME TypeOK, LineInv, NEW c \in Char, Feed(c)
  PROVE  LineInv'
<1>1. Grows(c) /\ Header_feed(c) /\ m_error \in BOOLEAN
  BY InputGrows DEF Feed, TypeOK
<1>2. CASE m_state = "begin" /\ m_key = <<>> /\ input = <<>>
  BY <1>1, <1>2, FeedBegin
<1>3. CASE \E b \in 1 .. n :
             /\ LineBegins(b)
             /\ \/ InBegin(b)
                \/ InKey(b)
                \/ \E p \in 1 .. n : InColon(b, p)
                \/ \E p, s \in 1 .. n : InValue(b, p, s)
                \/ \E p, s, r \in 1 .. n : InReturn(b, p, s, r)
                \/ \E p \in 1 .. n : Matched(b, p)
  <2>1. PICK b \in 1 .. n : /\ LineBegins(b)
                            /\ \/ InBegin(b)
                               \/ InKey(b)
                               \/ \E p \in 1 .. n : InColon(b, p)
                               \/ \E p, s \in 1 .. n : InValue(b, p, s)
                               \/ \E p, s, r \in 1 .. n : InReturn(b, p, s, r)
                               \/ \E p \in 1 .. n : Matched(b, p)
    BY <1>3
  <2>2. CASE InBegin(b)
    BY <1>1, <2>2, FeedBegin DEF InBegin
  <2>3. CASE InKey(b)
    BY <1>1, <2>1, <2>3, FeedKey
  <2>4. CASE \E p \in 1 .. n : InColon(b, p)
    BY <1>1, <2>1, <2>4, FeedColon
  <2>5. CASE \E p, s \in 1 .. n : InValue(b, p, s)
    BY <1>1, <2>1, <2>5, FeedValue
  <2>6. CASE \E p, s, r \in 1 .. n : InReturn(b, p, s, r)
    BY <1>1, <2>1, <2>6, FeedReturn
  <2>7. CASE \E p \in 1 .. n : Matched(b, p)
    BY <1>1, <2>7, FeedBegin DEF Matched, HeaderAt
  <2> QED
    BY <2>1, <2>2, <2>3, <2>4, <2>5, <2>6, <2>7
<1> QED
  BY <1>2, <1>3 DEF LineInv

\* The invariant holds at the beginning and is kept by every character and every reset.
LEMMA IndInvInductive == (Init => IndInv) /\ (IndInv /\ [Next]_vars => IndInv')
<1>1. Init => IndInv
  <2> SUFFICES ASSUME Init PROVE IndInv
    OBVIOUS
  <2>1. TypeOK
    <3>1. /\ input \in Seq(Char) /\ m_ptr \in 0 .. Len(Eom) /\ m_key \in Seq(Char)
          /\ m_value \in Seq(Char) /\ m_ptr # Len(Eom)
      BY DEF Init, Eom
    <3> QED
      BY <3>1, Zenon DEF Init, TypeOK, States
  <2>2. ParserInv /\ LineInv
    BY DEF Init, ParserInv, LineInv, Eom, n
  <2> QED
    BY <2>1, <2>2 DEF IndInv
<1>2. ASSUME IndInv, NEW c \in Char, Feed(c) PROVE IndInv'
  BY <1>2, FeedKeepsType, FeedKeepsParser, FeedKeepsLine DEF IndInv
<1>3. ASSUME IndInv, End_of_request PROVE IndInv'
  <2>1. /\ input' = <<>> /\ m_ptr' = 0 /\ m_match' = FALSE /\ m_state' = "begin"
        /\ m_error' = FALSE /\ m_key' = <<>> /\ m_value' = <<>>
    BY <1>3 DEF End_of_request, Header_reset, Header
  <2>2. TypeOK'
    <3>1. /\ input' \in Seq(Char) /\ m_ptr' \in 0 .. Len(Eom) /\ m_key' \in Seq(Char)
          /\ m_value' \in Seq(Char) /\ m_ptr' # Len(Eom)
      BY <2>1 DEF Eom
    <3> QED
      BY <2>1, <3>1, Zenon DEF TypeOK, States
  <2>3. ParserInv' /\ LineInv'
    BY <2>1 DEF ParserInv, LineInv, Eom, n
  <2> QED
    BY <2>2, <2>3 DEF IndInv
<1>4. ASSUME IndInv, UNCHANGED vars PROVE IndInv'
  <2> USE <1>4 DEF vars, headerVars
  <2>1. TypeOK' /\ ParserInv'
    BY DEF IndInv, TypeOK, ParserInv, n
  <2>2. \A b : LineBegins(b)' <=> LineBegins(b)
    BY DEF LineBegins, NoneOf, n
  <2>3. \A b, p : HeaderAt(b, p)' <=> HeaderAt(b, p)
    BY DEF HeaderAt, NoneOf, n
  <2>4. \A b, p : ColonAt(b, p)' <=> ColonAt(b, p)
    BY DEF ColonAt, NoneOf, n
  <2>5. \A p, s : SpaceAt(p, s)' <=> SpaceAt(p, s)
    BY DEF SpaceAt, NoneOf, n
  <2>6. \A b : (InBegin(b)' <=> InBegin(b)) /\ (InKey(b)' <=> InKey(b))
    BY <2>3 DEF InBegin, InKey, NoneOf, n
  <2>7. \A b, p : (InColon(b, p)' <=> InColon(b, p)) /\ (Matched(b, p)' <=> Matched(b, p))
    BY <2>3, <2>4 DEF InColon, Matched, NoneOf, n
  <2>8. \A b, p, s : InValue(b, p, s)' <=> InValue(b, p, s)
    BY <2>4, <2>5 DEF InValue, NoneOf, n
  <2>9. \A b, p, s, r : InReturn(b, p, s, r)' <=> InReturn(b, p, s, r)
    BY <2>4, <2>5 DEF InReturn, NoneOf, n
  <2>10. LineInv'
    BY <2>2, <2>6, <2>7, <2>8, <2>9 DEF IndInv, LineInv, n
  <2> QED
    BY <2>1, <2>10 DEF IndInv
<1> QED
  BY <1>1, <1>2, <1>3, <1>4 DEF Next

-----------------------------------------------------------------------------
(* From positions to lines.                                                *)

\* The last line is the one that began behind the last line feed that does not end it.
LEMMA LastLineIs ==
  ASSUME input \in Seq(Char), NEW b \in 1 .. n, LineBegins(b)
  PROVE  LastLine = SubSeq(input, b, n)
<1> DEFINE begins == {k \in 1 .. Len(input) : k = 1 \/ input[k - 1] = "LF"}
<1>1. n \in Nat /\ Len(input) = n
  BY DEF n
<1>2. b \in begins
  BY <1>1 DEF LineBegins
<1>3. ASSUME NEW j \in begins PROVE j <= b
  <2>1. j \in 1 .. n /\ (j = 1 \/ input[j - 1] = "LF")
    BY <1>1
  <2>2. j > b => j - 1 \in b .. n - 1 /\ j # 1
    BY <1>1, <2>1
  <2>3. ~(j > b)
    BY <2>1, <2>2 DEF LineBegins, NoneOf
  <2> QED
    BY <1>1, <2>1, <2>3
<1>4. \A k \in begins : (\A j \in begins : j <= k) => k = b
  <2>1. \A k \in begins : k \in Nat
    BY <1>1
  <2> HIDE DEF begins
  <2> QED
    BY <1>2, <1>3, <2>1
<1> HIDE DEF begins
<1>5. (CHOOSE k \in begins : \A j \in begins : j <= k) = b
  BY <1>2, <1>3, <1>4, Zenon
<1> QED
  BY <1>1, <1>5 DEF LastLine, begins

\* A header line, character by character.
LEMMA HeaderConcat ==
  ASSUME NEW key \in Seq(Char), NEW value \in Seq(Char)
  PROVE  LET w == key \o <<"colon", "space">> \o value \o <<"CR", "LF">>
             k == Len(key)
             v == Len(value)
         IN  /\ w \in Seq(Char) /\ Len(w) = k + v + 4
             /\ \A i \in 1 .. k : w[i] = key[i]
             /\ w[k + 1] = "colon" /\ w[k + 2] = "space"
             /\ \A i \in 1 .. v : w[k + 2 + i] = value[i]
             /\ w[k + v + 3] = "CR" /\ w[k + v + 4] = "LF"
<1> DEFINE k == Len(key)
           v == Len(value)
           w1 == key \o <<"colon", "space">>
           w2 == w1 \o value
           w  == w2 \o <<"CR", "LF">>
<1>1. k \in Nat /\ v \in Nat
  OBVIOUS
<1>2. /\ w1 \in Seq(Char) /\ Len(w1) = k + 2 /\ \A i \in 1 .. k : w1[i] = key[i]
      /\ w1[k + 1] = "colon" /\ w1[k + 2] = "space"
  BY DEF Char
<1> HIDE DEF w1
<1>3. /\ w2 \in Seq(Char) /\ Len(w2) = k + 2 + v /\ \A i \in 1 .. k + 2 : w2[i] = w1[i]
      /\ \A i \in 1 .. v : w2[k + 2 + i] = value[i]
  BY <1>1, <1>2
<1> HIDE DEF w2
<1>4. /\ w \in Seq(Char) /\ Len(w) = k + v + 4 /\ \A i \in 1 .. k + 2 + v : w[i] = w2[i]
      /\ w[k + v + 3] = "CR" /\ w[k + v + 4] = "LF"
  <2> DEFINE m == k + 2 + v
  <2>1. m \in Nat /\ m + 1 = k + v + 3 /\ m + 2 = k + v + 4
    BY <1>1
  <2>2. w2 \in Seq(Char) /\ Len(w2) = m
    BY <1>3
  <2> HIDE DEF k, v, m
  <2>3. /\ w \in Seq(Char) /\ Len(w) = m + 2 /\ \A i \in 1 .. m : w[i] = w2[i]
        /\ w[m + 1] = "CR" /\ w[m + 2] = "LF"
    BY <2>1, <2>2 DEF Char
  <2> HIDE DEF w
  <2> QED
    BY <2>1, <2>3 DEF m
<1> HIDE DEF w, k, v
<1>5. \A i \in 1 .. k : w[i] = key[i]
  BY <1>1, <1>2, <1>3, <1>4
<1>6. w[k + 1] = "colon" /\ w[k + 2] = "space"
  BY <1>1, <1>2, <1>3, <1>4
<1>7. \A i \in 1 .. v : w[k + 2 + i] = value[i]
  <2>1. \A i \in 1 .. v : k + 2 + i \in 1 .. k + 2 + v
    BY <1>1
  <2> QED
    BY <2>1, <1>3, <1>4
<1> QED
  BY <1>4, <1>5, <1>6, <1>7 DEF w, w1, w2, k, v

\* A line is a header with a key of k characters exactly when its colon, its space, its CR
\* and its LF are where they have to be, and the key and the value have none of their own.
LEMMA HeaderShape ==
  ASSUME NEW line \in Seq(Char), NEW k \in 1 .. Len(line)
  PROVE  LET len == Len(line)
         IN  IsHeader(line, SubSeq(line, 1, k), SubSeq(line, k + 3, len - 2)) <=>
               /\ k + 4 <= len /\ line[k + 1] = "colon" /\ line[k + 2] = "space"
               /\ line[len - 1] = "CR" /\ line[len] = "LF"
               /\ \A i \in 2 .. k : line[i] # "colon"
               /\ \A i \in k + 3 .. len - 2 : line[i] # "CR"
<1> DEFINE len == Len(line)
           key == SubSeq(line, 1, k)
           value == SubSeq(line, k + 3, len - 2)
           w == key \o <<"colon", "space">> \o value \o <<"CR", "LF">>
           v == Len(value)
<1>1. len \in Nat /\ k \in Nat /\ k >= 1 /\ k <= len /\ \A i \in 1 .. len : line[i] \in Char
  OBVIOUS
<1>2. key \in Seq(Char) /\ Len(key) = k /\ \A i \in 1 .. k : key[i] = line[i]
  BY <1>1
<1>3. /\ value \in Seq(Char) /\ v = IF k + 3 <= len - 2 THEN (len - 2) - (k + 3) + 1 ELSE 0
      /\ \A i \in 1 .. (len - 2) - (k + 3) + 1 : value[i] = line[k + 3 + i - 1]
  <2>1. k + 3 \in Int /\ len - 2 \in Int /\ \A i \in k + 3 .. len - 2 : line[i] \in Char
    BY <1>1
  <2> QED
    BY <2>1, SubSeqProperties
<1>4. /\ w \in Seq(Char) /\ Len(w) = k + v + 4
      /\ \A i \in 1 .. k : w[i] = key[i]
      /\ w[k + 1] = "colon" /\ w[k + 2] = "space"
      /\ \A i \in 1 .. v : w[k + 2 + i] = value[i]
      /\ w[k + v + 3] = "CR" /\ w[k + v + 4] = "LF"
  <2>1. Len(key) = k
    BY <1>2
  <2> HIDE DEF key, value, w, v
  <2>2. /\ w \in Seq(Char) /\ Len(w) = Len(key) + Len(value) + 4
        /\ \A i \in 1 .. Len(key) : w[i] = key[i]
        /\ w[Len(key) + 1] = "colon" /\ w[Len(key) + 2] = "space"
        /\ \A i \in 1 .. Len(value) : w[Len(key) + 2 + i] = value[i]
        /\ w[Len(key) + Len(value) + 3] = "CR" /\ w[Len(key) + Len(value) + 4] = "LF"
    BY <1>2, <1>3, HeaderConcat, Zenon DEF w
  <2> QED
    BY <2>1, <2>2, Zenon DEF v
<1>5. v \in Nat
  BY <1>3
<1> DEFINE Shape == /\ k + 4 <= len /\ line[k + 1] = "colon" /\ line[k + 2] = "space"
                    /\ line[len - 1] = "CR" /\ line[len] = "LF"
                    /\ \A i \in 2 .. k : line[i] # "colon"
                    /\ \A i \in k + 3 .. len - 2 : line[i] # "CR"
<1> HIDE DEF len, key, value, w, v
<1>6. ASSUME IsHeader(line, key, value) PROVE Shape
  <2>1. line = w /\ (\A i \in 2 .. k : key[i] # "colon") /\ \A i \in 1 .. v : value[i] # "CR"
    BY <1>2, <1>6 DEF IsHeader, w, v
  <2>2. len = k + v + 4
    BY <1>4, <2>1 DEF len
  <2>3. \A i \in 2 .. k : line[i] # "colon"
    BY <1>1, <1>2, <2>1
  <2>4. \A i \in k + 3 .. len - 2 : i - (k + 2) \in 1 .. v /\ k + 2 + (i - (k + 2)) = i
    BY <1>1, <1>5, <2>2
  <2>5. \A i \in k + 3 .. len - 2 : line[i] # "CR"
    BY <1>4, <2>1, <2>4
  <2>6. k + 4 <= len /\ len - 1 = k + v + 3
    BY <1>1, <1>5, <2>2
  <2> QED
    BY <1>4, <2>1, <2>2, <2>3, <2>5, <2>6
<1>7. ASSUME Shape PROVE IsHeader(line, key, value)
  <2>1. v = len - k - 4 /\ len = k + v + 4 /\ len - 1 = k + v + 3
    BY <1>1, <1>3, <1>7
  <2>2. \A i \in 1 .. v : value[i] = line[k + 2 + i] /\ k + 2 + i \in k + 3 .. len - 2
    <3>1. \A i \in 1 .. v : /\ i \in 1 .. (len - 2) - (k + 3) + 1
                            /\ k + 3 + i - 1 = k + 2 + i /\ k + 2 + i \in k + 3 .. len - 2
      BY <1>1, <2>1
    <3> QED
      BY <3>1, <1>3
  <2>3. ASSUME NEW i \in 1 .. len PROVE line[i] = w[i]
    <3>1. \/ i \in 1 .. k \/ i = k + 1 \/ i = k + 2
          \/ (i - (k + 2) \in 1 .. v /\ k + 2 + (i - (k + 2)) = i)
          \/ i = k + v + 3 \/ i = k + v + 4
      BY <1>1, <1>5, <2>1
    <3>2. CASE i \in 1 .. k
      BY <1>2, <1>4, <3>2
    <3>3. CASE i \in {k + 1, k + 2}
      BY <1>4, <1>7, <3>3
    <3>4. CASE i - (k + 2) \in 1 .. v /\ k + 2 + (i - (k + 2)) = i
      BY <1>4, <2>2, <3>4
    <3>5. CASE i \in {k + v + 3, k + v + 4}
      BY <1>4, <1>7, <2>1, <3>5
    <3> QED
      BY <3>1, <3>2, <3>3, <3>4, <3>5
  <2>4. line = w
    BY <1>4, <2>1, <2>3, SeqEqual DEF len
  <2>5. key # <<>> /\ \A i \in 2 .. Len(key) : key[i] # "colon"
    BY <1>1, <1>2, <1>7
  <2>6. \A i \in 1 .. Len(value) : value[i] # "CR"
    BY <1>7, <2>2 DEF v
  <2> QED
    BY <2>4, <2>5, <2>6 DEF IsHeader, w
<1> QED
  BY <1>6, <1>7 DEF len, key, value

\* The two descriptions of a header line agree.
LEMMA HeaderOfLine ==
  ASSUME input \in Seq(Char), NEW b \in 1 .. n
  PROVE  LET line == SubSeq(input, b, n)
             len  == Len(line)
         IN  /\ line \in Seq(Char) /\ len = n - b + 1
             /\ \A k \in 1 .. len :
                  IsHeader(line, SubSeq(line, 1, k), SubSeq(line, k + 3, len - 2))
                    <=> HeaderAt(b, b + k)
             /\ \A p \in Nat : HeaderAt(b, p) =>
                  /\ SubSeq(line, 1, p - b) = SubSeq(input, b, p - 1)
                  /\ SubSeq(line, (p - b) + 3, len - 2) = SubSeq(input, p + 2, n - 2)
<1> DEFINE line == SubSeq(input, b, n)
           len  == Len(line)
<1>1. n \in Nat /\ \A i \in 1 .. n : input[i] \in Char
  BY DEF n
<1>2. /\ line \in Seq(Char) /\ len = n - b + 1
      /\ \A i \in 1 .. len : line[i] = input[b + i - 1]
  <2>1. b \in Int /\ n \in Int /\ b <= n /\ \A i \in b .. n : input[i] \in Char
    BY <1>1
  <2> QED
    BY <2>1, SubSeqProperties
<1> HIDE DEF line, len
<1>3. ASSUME NEW k \in 1 .. len
      PROVE  IsHeader(line, SubSeq(line, 1, k), SubSeq(line, k + 3, len - 2))
               <=> HeaderAt(b, b + k)
  <2> DEFINE Shape == /\ k + 4 <= len /\ line[k + 1] = "colon" /\ line[k + 2] = "space"
                      /\ line[len - 1] = "CR" /\ line[len] = "LF"
                      /\ \A i \in 2 .. k : line[i] # "colon"
                      /\ \A i \in k + 3 .. len - 2 : line[i] # "CR"
  <2>1. IsHeader(line, SubSeq(line, 1, k), SubSeq(line, k + 3, len - 2)) <=> Shape
    BY <1>2, HeaderShape DEF len
  <2>2. ASSUME Shape PROVE HeaderAt(b, b + k)
    <3>1. /\ b + k \in b + 1 .. n - 3
          /\ input[b + k] = line[k + 1] /\ input[(b + k) + 1] = line[k + 2]
          /\ input[n - 1] = line[len - 1] /\ input[n] = line[len]
      BY <1>1, <1>2, <2>2
    <3>2. \A i \in b + 1 .. (b + k) - 1 : i - b + 1 \in 2 .. k /\ input[i] = line[i - b + 1]
      BY <1>1, <1>2, <2>2
    <3>3. \A i \in (b + k) + 2 .. n - 2 : /\ i - b + 1 \in k + 3 .. len - 2
                                          /\ input[i] = line[i - b + 1]
      BY <1>1, <1>2, <2>2
    <3> QED
      BY <2>2, <3>1, <3>2, <3>3 DEF HeaderAt, NoneOf
  <2>3. ASSUME HeaderAt(b, b + k) PROVE Shape
    <3>1. /\ k + 4 <= len
          /\ input[b + k] = line[k + 1] /\ input[(b + k) + 1] = line[k + 2]
          /\ input[n - 1] = line[len - 1] /\ input[n] = line[len]
      BY <1>1, <1>2, <2>3 DEF HeaderAt
    <3>2. \A i \in 2 .. k : /\ b + i - 1 \in b + 1 .. (b + k) - 1
                            /\ line[i] = input[b + i - 1]
      BY <1>1, <1>2
    <3>3. \A i \in k + 3 .. len - 2 : /\ b + i - 1 \in (b + k) + 2 .. n - 2
                                      /\ line[i] = input[b + i - 1]
      BY <1>1, <1>2
    <3> QED
      BY <2>3, <3>1, <3>2, <3>3 DEF HeaderAt, NoneOf
  <2> QED
    BY <2>1, <2>2, <2>3
<1>4. ASSUME NEW p \in Nat, HeaderAt(b, p)
      PROVE  /\ SubSeq(line, 1, p - b) = SubSeq(input, b, p - 1)
             /\ SubSeq(line, (p - b) + 3, len - 2) = SubSeq(input, p + 2, n - 2)
  <2>1. p \in b + 1 .. n - 3
    BY <1>4 DEF HeaderAt
  <2> DEFINE u1 == SubSeq(line, 1, p - b)
             v1 == SubSeq(input, b, p - 1)
             u2 == SubSeq(line, (p - b) + 3, len - 2)
             v2 == SubSeq(input, p + 2, n - 2)
  <2>2. /\ u1 \in Seq(Char) /\ Len(u1) = p - b
        /\ \A i \in 1 .. p - b : u1[i] = line[i] /\ line[i] = input[b + i - 1]
    BY <1>1, <1>2, <2>1 DEF len
  <2>3. /\ v1 \in Seq(Char) /\ Len(v1) = p - b /\ \A i \in 1 .. p - b : v1[i] = input[b + i - 1]
    <3>1. b \in Int /\ p - 1 \in Int /\ \A i \in b .. p - 1 : input[i] \in Char
      BY <1>1, <2>1
    <3>2. (p - 1) - b + 1 = p - b /\ b <= p - 1
      BY <1>1, <2>1
    <3> QED
      BY <3>1, <3>2, SubSeqProperties
  <2>4. u1 = v1
    BY <2>2, <2>3, SeqEqual
  <2>5. /\ u2 \in Seq(Char) /\ Len(u2) = n - 2 - (p + 2) + 1
        /\ \A i \in 1 .. n - 2 - (p + 2) + 1 : u2[i] = input[p + 2 + i - 1]
    <3>1. /\ (p - b) + 3 \in Int /\ len - 2 \in Int
          /\ \A i \in (p - b) + 3 .. len - 2 : line[i] \in Char
      BY <1>1, <1>2, <2>1 DEF len
    <3>2. /\ u2 \in Seq(Char)
          /\ Len(u2) = IF (p - b) + 3 <= len - 2 THEN (len - 2) - ((p - b) + 3) + 1 ELSE 0
          /\ \A i \in 1 .. (len - 2) - ((p - b) + 3) + 1 : u2[i] = line[(p - b) + 3 + i - 1]
      <4>1. PICK f \in Int, g \in Int : f = (p - b) + 3 /\ g = len - 2
        BY <3>1
      <4>2. \A i \in f .. g : line[i] \in Char
        BY <3>1, <4>1
      <4>3. /\ SubSeq(line, f, g) \in Seq(Char)
            /\ Len(SubSeq(line, f, g)) = IF f <= g THEN g - f + 1 ELSE 0
            /\ \A i \in 1 .. g - f + 1 : SubSeq(line, f, g)[i] = line[f + i - 1]
        BY <4>2, SubSeqProperties
      <4> QED
        BY <4>1, <4>3
    <3>3. /\ (len - 2) - ((p - b) + 3) + 1 = n - 2 - (p + 2) + 1
          /\ ~((p - b) + 3 <= len - 2) => n - 2 - (p + 2) + 1 = 0
      BY <1>1, <1>2, <2>1
    <3>4. \A i \in 1 .. n - 2 - (p + 2) + 1 :
            /\ (p - b) + 3 + i - 1 \in 1 .. len
            /\ b + ((p - b) + 3 + i - 1) - 1 = p + 2 + i - 1
      BY <1>1, <1>2, <2>1
    <3> HIDE DEF u2
    <3> QED
      BY <1>2, <3>2, <3>3, <3>4
  <2>6. /\ v2 \in Seq(Char) /\ Len(v2) = n - 2 - (p + 2) + 1
        /\ \A i \in 1 .. n - 2 - (p + 2) + 1 : v2[i] = input[p + 2 + i - 1]
    <3>1. p + 2 \in Int /\ n - 2 \in Int /\ \A i \in p + 2 .. n - 2 : input[i] \in Char
      BY <1>1, <2>1
    <3>2. ~(p + 2 <= n - 2) => n - 2 - (p + 2) + 1 = 0
      BY <1>1, <2>1
    <3>3. /\ v2 \in Seq(Char)
          /\ Len(v2) = IF p + 2 <= n - 2 THEN n - 2 - (p + 2) + 1 ELSE 0
          /\ \A i \in 1 .. n - 2 - (p + 2) + 1 : v2[i] = input[p + 2 + i - 1]
      BY <3>1, SubSeqProperties
    <3> QED
      BY <3>2, <3>3
  <2>7. u2 = v2
    <3> HIDE DEF u2, v2
    <3>1. Len(u2) = Len(v2) /\ \A i \in 1 .. Len(u2) : u2[i] = v2[i]
      BY <2>5, <2>6
    <3> QED
      BY <2>5, <2>6, <3>1, SeqEqual
  <2> QED
    BY <2>4, <2>7
<1> QED
  BY <1>2, <1>3, <1>4 DEF line, len

-----------------------------------------------------------------------------
(* Theorems.                                                               *)

\* The invariant of both state machines.
THEOREM Invariance == Spec => []IndInv
BY IndInvInductive, PTL DEF Spec

\* The iterator of the parser stays within the string it looks for, and m_match is set
\* exactly at its end (parser::feed and parser::reset).
THEOREM TypeCorrect == Spec => []TypeOK
<1>1. IndInv => TypeOK
  BY DEF IndInv
<1> QED
  BY <1>1, Invariance, PTL

\* handle_read only queues a reply behind the sequence that ends a request.
THEOREM MatchIsEom == Spec => []MatchMeansEom
<1>1. ASSUME IndInv, m_match PROVE IsSuffix(Eom, input)
  <2>1. /\ m_ptr = 4 /\ n \in Nat /\ Len(input) = n /\ Len(Eom) = 4 /\ 4 <= n
        /\ \A i \in 1 .. 4 : input[n - 4 + i] = Eom[i]
    BY <1>1 DEF IndInv, TypeOK, ParserInv, Eom, n
  <2> DEFINE e == Reverse(Eom)
             t == Reverse(input)
  <2>2. /\ e \in Seq(Char) /\ Len(e) = 4 /\ \A i \in 1 .. 4 : e[i] = Eom[4 - i + 1]
    <3>1. Eom \in Seq(Char) /\ \A i \in 1 .. 4 : Eom[4 - i + 1] \in Char
      BY DEF Eom, Char
    <3> QED
      BY <2>1, <3>1, IsASeq DEF Reverse
  <2>3. /\ t \in Seq(Char) /\ Len(t) = n /\ \A i \in 1 .. n : t[i] = input[n - i + 1]
    <3>1. \A i \in 1 .. n : input[n - i + 1] \in Char
      BY <1>1, <2>1 DEF IndInv, TypeOK
    <3> QED
      BY <2>1, <3>1, IsASeq DEF Reverse
  <2>4. \A i \in 1 .. 4 : e[i] = t[i]
    <3>1. ASSUME NEW i \in 1 .. 4 PROVE e[i] = t[i]
      <4>1. /\ 4 - i + 1 \in 1 .. 4 /\ i \in 1 .. n
            /\ n - 4 + (4 - i + 1) = n - i + 1
        BY <2>1
      <4> QED
        BY <2>1, <2>2, <2>3, <4>1
    <3> QED
      BY <3>1
  <2> HIDE DEF e, t
  <2>5. SubSeq(e, 1, 4) = SubSeq(t, 1, 4)
    <3>1. /\ SubSeq(e, 1, 4) \in Seq(Char) /\ SubSeq(t, 1, 4) \in Seq(Char)
          /\ Len(SubSeq(e, 1, 4)) = 4 /\ Len(SubSeq(t, 1, 4)) = 4
          /\ \A i \in 1 .. 4 : SubSeq(e, 1, 4)[i] = e[i] /\ SubSeq(t, 1, 4)[i] = t[i]
      BY <2>1, <2>2, <2>3
    <3> QED
      BY <3>1, <2>4, SeqEqual
  <2> QED
    BY <2>1, <2>2, <2>3, <2>5 DEF IsSuffix, IsPrefix, e, t
<1>2. IndInv => MatchMeansEom
  BY <1>1 DEF MatchMeansEom
<1> QED
  BY <1>2, Invariance, PTL

\* handle_read acts on a header exactly at the end of a well formed header line, with the
\* key and the value of that line (header::feed, for lines of any length).
THEOREM HeaderIsLine == Spec => []HeaderMatchesLine
<1>1. ASSUME IndInv PROVE HeaderMatchesLine
  <2> DEFINE pairs == {<<SubSeq(LastLine, 1, k), SubSeq(LastLine, k + 3, Len(LastLine) - 2)>> :
                         k \in 1 .. Len(LastLine)}
             headers == {kv \in pairs : IsHeader(LastLine, kv[1], kv[2])}
  <2>1. CASE m_state = "begin" /\ input = <<>>
    BY <2>1 DEF HeaderMatchesLine
  <2>2. CASE ~(m_state = "begin" /\ input = <<>>)
    <3>1. PICK b \in 1 .. n : /\ LineBegins(b)
                              /\ \/ InBegin(b)
                                 \/ InKey(b)
                                 \/ \E p \in 1 .. n : InColon(b, p)
                                 \/ \E p, s \in 1 .. n : InValue(b, p, s)
                                 \/ \E p, s, r \in 1 .. n : InReturn(b, p, s, r)
                                 \/ \E p \in 1 .. n : Matched(b, p)
      BY <1>1, <2>2 DEF IndInv, LineInv
    <3> DEFINE line == SubSeq(input, b, n)
               len == Len(line)
    <3>2. input \in Seq(Char) /\ n \in Nat
      BY <1>1 DEF IndInv, TypeOK, n
    <3>3. LastLine = line
      BY <3>1, <3>2, LastLineIs
    <3>4. /\ len = n - b + 1
          /\ \A k \in 1 .. len :
               IsHeader(line, SubSeq(line, 1, k), SubSeq(line, k + 3, len - 2))
                 <=> HeaderAt(b, b + k)
          /\ \A p \in Nat : HeaderAt(b, p) =>
               /\ SubSeq(line, 1, p - b) = SubSeq(input, b, p - 1)
               /\ SubSeq(line, (p - b) + 3, len - 2) = SubSeq(input, p + 2, n - 2)
      BY <3>2, HeaderOfLine
    <3>5. ASSUME m_state = "matched" PROVE <<m_key, m_value>> \in headers
      <4>1. PICK p \in 1 .. n : Matched(b, p)
        BY <3>1, <3>5 DEF InBegin, InKey, InColon, InValue, InReturn
      <4>2. /\ HeaderAt(b, p) /\ m_key = SubSeq(input, b, p - 1)
            /\ m_value = SubSeq(input, p + 2, n - 2)
        BY <4>1 DEF Matched
      <4>3. PICK k \in Nat : k = p - b /\ k \in 1 .. len /\ b + k = p
        BY <3>2, <3>4, <4>2 DEF HeaderAt
      <4>4. /\ m_key = SubSeq(line, 1, k) /\ m_value = SubSeq(line, k + 3, len - 2)
            /\ IsHeader(line, m_key, m_value)
        <5>1. /\ m_key = SubSeq(line, 1, p - b)
              /\ m_value = SubSeq(line, (p - b) + 3, len - 2)
          <6> HIDE DEF line, len
          <6>1. p \in Nat
            BY <3>2
          <6> QED
            BY <3>4, <4>2, <6>1
        <5>2. /\ m_key = SubSeq(line, 1, k) /\ m_value = SubSeq(line, k + 3, len - 2)
          BY <4>3, <5>1
        <5>3. IsHeader(line, SubSeq(line, 1, k), SubSeq(line, k + 3, len - 2))
          BY <3>4, <4>2, <4>3
        <5> QED
          BY <5>2, <5>3
      <4> HIDE DEF line
      <4>5. <<m_key, m_value>> \in pairs
        BY <3>3, <4>3, <4>4
      <4> QED
        BY <3>3, <4>4, <4>5
    <3>6. ASSUME headers # {} PROVE m_state = "matched"
      <4>1. PICK k \in 1 .. len :
              IsHeader(line, SubSeq(line, 1, k), SubSeq(line, k + 3, len - 2))
        <5> HIDE DEF line
        <5>1. PICK kv \in pairs : IsHeader(line, kv[1], kv[2])
          BY <3>3, <3>6
        <5>2. PICK k \in 1 .. len :
                kv = <<SubSeq(line, 1, k), SubSeq(line, k + 3, len - 2)>>
          BY <3>3, <5>1
        <5> QED
          BY <5>1, <5>2
      <4>2. HeaderAt(b, b + k) /\ b + k \in Nat
        BY <3>2, <3>4, <4>1
      <4>3. input[n] = "LF"
        BY <4>2 DEF HeaderAt
      <4> QED
        BY <3>1, <4>2, <4>3 DEF InBegin, InKey, InColon, InValue, InReturn, Matched
    <3> QED
      BY <3>5, <3>6 DEF HeaderMatchesLine
  <2> QED
    BY <2>1, <2>2
<1>2. IndInv => HeaderMatchesLine
  BY <1>1
<1> QED
  BY <1>2, Invariance, PTL
===============================================================================
