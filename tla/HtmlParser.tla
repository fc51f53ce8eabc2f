------------------------------ MODULE HtmlParser ------------------------------
(***************************************************************************)
(* tests/HtmlPipeLineServerFixture.h: the two state machines that          *)
(* tcp_connection::handle_read feeds with every character it reads:        *)
(* `parser', that looks for the end of a request, and `header', that       *)
(* splits a line in a key and a value.                                     *)
(*                                                                         *)
(* Characters are abstracted to the four that the code compares with, and  *)
(* one that stands for all others.                                         *)
(***************************************************************************)
EXTENDS Naturals, Sequences, SequencesExt

CONSTANT MaxLength    \* bound on the number of characters fed since the last request

ASSUME HtmlParserAssumption == MaxLength \in Nat

Char == {"CR", "LF", "colon", "space", "x"}

\* The string that m_eom was constructed with.
Eom == <<"CR", "LF", "CR", "LF">>

VARIABLES
  input,        \* the characters since the last request, or since the beginning
  m_ptr,        \* parser: number of characters of Eom matched so far
  m_match,
  m_state,      \* header
  m_error,
  m_key, m_value

headerVars == <<m_state, m_error, m_key, m_value>>
vars == <<input, m_ptr, m_match, headerVars>>

States == {"begin", "key", "colon", "value", "carriage_return", "matched"}

\* The iterator of the parser stays within the string it looks for.
TypeOK ==
  /\ input \in Seq(Char)
  /\ m_ptr \in 0 .. Len(Eom) /\ m_match \in BOOLEAN
  /\ m_state \in States /\ m_error \in BOOLEAN
  /\ m_key \in Seq(Char) /\ m_value \in Seq(Char)
  /\ m_match <=> m_ptr = Len(Eom)

Init ==
  /\ input = <<>>
  /\ m_ptr = 0 /\ m_match = FALSE
  /\ m_state = "begin" /\ m_error = FALSE /\ m_key = <<>> /\ m_value = <<>>

\* Mutant: a mismatch does not start over.
Parser_feed_keeps_ptr(c) ==
  /\ m_ptr' = IF c = Eom[m_ptr + 1] THEN m_ptr + 1 ELSE m_ptr
  /\ m_match' = (m_ptr' = Len(Eom))

\* Mutant: the iterator is advanced twice.
Parser_feed_skips(c) ==
  /\ m_ptr' = IF c = Eom[m_ptr + 1] THEN m_ptr + 2 ELSE 0
  /\ m_match' = (m_ptr' = Len(Eom) + 1)

Parser_feed(c) ==
  /\ m_ptr' = IF c = Eom[m_ptr + 1] THEN m_ptr + 1 ELSE 0
  /\ m_match' = (m_ptr' = Len(Eom))

Header(state, error, key, value) ==
  /\ m_state' = state /\ m_error' = error /\ m_key' = key /\ m_value' = value

Header_reset == Header("begin", FALSE, <<>>, <<>>)

\* Mutant: an error does not keep the line from matching.
LineIsGood_always == TRUE

LineIsGood == ~m_error

\* header::feed.  The first character of a line is part of the key, whatever it is;
\* a line feed always starts a new line, except where it completes a match.
Header_feed(c) ==
  LET key   == IF m_state = "matched" THEN <<>> ELSE m_key
      state == IF m_state = "matched" THEN "begin" ELSE m_state
  IN  IF state = "carriage_return" /\ c = "LF" /\ LineIsGood
      THEN Header("matched", m_error, m_key, m_value)
      ELSE IF c = "LF" THEN Header_reset
      ELSE CASE state = "key" /\ c = "colon" -> Header("colon", m_error, key, m_value)
             [] state = "begin" -> Header("key", FALSE, Append(key, c), <<>>)
             [] state = "key" /\ c # "colon" -> Header("key", m_error, Append(key, c), m_value)
             [] state = "colon" ->
                  IF c = "space" THEN Header("value", m_error, key, m_value)
                                 ELSE Header("colon", TRUE, key, m_value)
             [] state = "value" ->
                  IF c = "CR" THEN Header("carriage_return", m_error, key, m_value)
                              ELSE Header("value", m_error, key, Append(m_value, c))
             [] state = "carriage_return" -> Header("carriage_return", TRUE, key, m_value)

\* handle_read: one character, that does not end the request.
Feed(c) ==
  /\ ~m_match /\ Len(input) < MaxLength
  /\ input' = Append(input, c)
  /\ Parser_feed(c)
  /\ Header_feed(c)

\* handle_read: the request ended; both are reset.
End_of_request ==
  /\ m_match
  /\ input' = <<>>
  /\ m_ptr' = 0 /\ m_match' = FALSE
  /\ Header_reset

Next == (\E c \in Char : Feed(c)) \/ End_of_request

Spec == Init /\ [][Next]_vars

-----------------------------------------------------------------------------
(* Properties.                                                             *)

\* A reply is only sent at the end of a request (line 247).
MatchMeansEom == m_match => IsSuffix(Eom, input)

\* The last line that was completed, with its line end, if input ends there.
LastLine ==
  LET n      == Len(input)
      begins == {k \in 1 .. n : k = 1 \/ input[k - 1] = "LF"}
  IN  SubSeq(input, CHOOSE k \in begins : \A j \in begins : j <= k, n)

\* line is a header: the key, a colon and a space, the value and CR LF.
IsHeader(line, key, value) ==
  /\ line = key \o <<"colon", "space">> \o value \o <<"CR", "LF">>
  /\ key # <<>> /\ \A k \in 2 .. Len(key) : key[k] # "colon"
  /\ \A k \in 1 .. Len(value) : value[k] # "CR"

\* handle_read acts on a header exactly at the end of a well formed header line, with
\* the key and the value of that line: nothing is left over from a malformed line
\* before it, or from the previous header (lines 82-131, 257-265).
HeaderMatchesLine ==
  LET headers == {kv \in {<<SubSeq(LastLine, 1, k), SubSeq(LastLine, k + 3, Len(LastLine) - 2)>> :
                           k \in 1 .. Len(LastLine)} : IsHeader(LastLine, kv[1], kv[2])}
  IN  /\ m_state = "matched" => <<m_key, m_value>> \in headers
      /\ input # <<>> /\ headers # {} => m_state = "matched"

\* What the comment in handle_read says (line 251): "Send reply every time we
\* received the sequence "\r\n\r\n"."
EomMeansMatch == IsSuffix(Eom, input) => m_match
===============================================================================
