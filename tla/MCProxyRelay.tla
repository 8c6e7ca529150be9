---------------------------- MODULE MCProxyRelay ----------------------------
\* A small instance of ProxyRelay for TLC: answers with and without a length,
\* with hop-by-hop headers, in chunks, with a reason too long to keep, one whose
\* head is too long for the buffer, two that leave no room for the end, and one
\* that may go on for ever.
EXTENDS ProxyRelay

CONSTANT NotFound

CRLF == <<"CR", "LF">>
AnswerOf(st, lng, len, lines, body) ==
  [status |-> st, long |-> lng, length |-> len, endless |-> FALSE,
   bytes |-> <<"S">> \o CRLF \o FlattenSeq([k \in DOMAIN lines |-> <<lines[k]>> \o CRLF])
             \o CRLF \o body]

MCResponses == {
  AnswerOf(OK, FALSE, 3, <<"L", "H">>, <<"a", "b", "c">>),
  AnswerOf(NotFound, FALSE, Absent, <<"K">>, <<"a", "CR", "LF", "CR", "LF", "b">>),
  AnswerOf(OK, FALSE, Absent, <<"T">>, <<"x", "a">>),
  [AnswerOf(OK, FALSE, Absent, <<"H">>, <<"a">>) EXCEPT !.endless = TRUE],
  AnswerOf(NotFound, TRUE, 0, <<"L">>, <<>>),
  AnswerOf(OK, FALSE, Absent, <<"H", "H", "H">>, <<"a", "b">>),
  AnswerOf(OK, FALSE, 1, <<"H", "H", "H", "L">>, <<"a">>) }
MCBodyBytes == {"a", "b", "c", "x", "y", "z"}
MCPostBodies == {<<>>, <<"x", "y", "z">>}
=============================================================================
