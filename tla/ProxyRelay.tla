----------------------------- MODULE ProxyRelay -----------------------------
(***************************************************************************)
(* One request relayed to the HTTP gateway (main/proxy_relay.c): it is     *)
(* rebuilt and sent upstream with its body; the head of the answer is read *)
(* into a buffer, rewritten and sent to the phone, then the body is passed *)
(* on. All of it is one call in the HTTP server's task; what may happen at *)
(* each step is how much a receive brings, that it brings nothing (a close *)
(* or 5 s of silence), and that a send or an allocation fails.             *)
(*                                                                         *)
(* Data is bytes. In a head, "S" stands for the status line, "L", "T", "K" *)
(* and "H" for a header line each (Content-Length, Transfer-Encoding,      *)
(* Connection, another), and CR LF ends them; every other byte is of a     *)
(* body, but for the two that no source sends: NUL, the 0 that ends a      *)
(* string, and STRAY, a byte of the heap.                                  *)
(***************************************************************************)
EXTENDS Naturals, Sequences, FiniteSets, SequencesExt

CONSTANTS
  HEAD_BUF_SIZE,      \* 2048
  CHUNK,              \* sizeof(buf), sizeof(body_buf): 512
  Responses,          \* [status, long, length, bytes, endless]: the status,
                      \*   whether its reason is too long for status[], what
                      \*   Content-Length says (or Absent), what upstream sends,
                      \*   and whether it may go on sending after that
  BodyBytes,          \* bytes of a body that are none of a head's
  PostBodies,         \* bodies of requests
  OK, Absent          \* the status "200 OK"

HeaderLines == {"L", "T", "K", "H"}
Bytes == BodyBytes \cup HeaderLines \cup {"S", "CR", "LF"}
End == <<"CR", "LF", "CR", "LF">>
\* Where the blank line that ends the head of an answer begins.
BlankLine(bytes) ==
  CHOOSE i \in 1..(Len(bytes) - 3) :
    /\ SubSeq(bytes, i, i + 3) = End
    /\ \A j \in 1..(i - 1) : SubSeq(bytes, j, j + 3) # End

\* An answer: a status line, header lines, of which those with a length say one,
\* a blank line and the body. (What comes after a length is not looked at, and so
\* only an answer without one is endless.)
IsAnswer(r) ==
  /\ r.bytes \in Seq(Bytes) /\ r.length \in Nat \cup {Absent} /\ r.long \in BOOLEAN
  /\ r.endless \in BOOLEAN /\ (r.endless => r.length = Absent)
  /\ \E i \in 1..(Len(r.bytes) - 3) : SubSeq(r.bytes, i, i + 3) = End
  /\ SubSeq(r.bytes, 1, 3) = <<"S", "CR", "LF">>
  /\ \A i \in 1..(BlankLine(r.bytes) - 1) : r.bytes[i] = "LF" =>
       /\ r.bytes[i + 1] \in HeaderLines
       /\ r.bytes[i + 2] = "CR" /\ r.bytes[i + 3] = "LF"
  /\ r.length # Absent <=> \E i \in 1..BlankLine(r.bytes) : r.bytes[i] = "L"

ASSUME RelayAssumption ==
  /\ HEAD_BUF_SIZE \in Nat /\ HEAD_BUF_SIZE > 3 /\ CHUNK \in Nat \ {0}
  /\ Absent \notin Responses \cup Nat /\ \A r \in Responses : IsAnswer(r)
  /\ PostBodies \subseteq Seq(Bytes)

VARIABLES
  stage,              \* where the handler is
  answer,             \* what the phone has been sent besides a relayed answer:
                      \*   "none", "page", "portal", "500"
  post, remaining,    \* the request's body, and what of it is still to come
  to_upstream,        \* what was sent after the head of the request
  response, upstream, \* the answer, and what of it has not been received
  sock, heap,         \* upstream_sock is open; buffers allocated
  head, found_terminator,
  line_start,         \* the header line looked at; 0 before, and without any
  out,                \* what is put together for the phone: [status, lines,
                      \*   len], len as out_len; or Absent
  sent_head,          \* what the phone got: [status, lines, ended], or Absent,
  sent_body,          \*   and all that follows the text of that head
  has_content_length, body_relayed,
  lapses              \* history of this request: "cut" (silence in the middle),
                      \*   "cut_head" (in the head), "long_head", "cramped" (no
                      \*   room for the end of the head), "short" (a send took
                      \*   less than it was given), "gone" (the phone), "memory",
                      \*   "endless" (upstream went on)

reqVars == <<answer, post, remaining, to_upstream>>
upVars == <<response, upstream>>
headVars == <<head, found_terminator>>
outVars == <<line_start, out>>
sentVars == <<sent_head, sent_body, has_content_length, body_relayed>>
relayVars == <<stage, reqVars, upVars, sock, heap, headVars, outVars, sentVars, lapses>>

Least(a, b) == IF a < b THEN a ELSE b
First(s, n) == SubSeq(s, 1, n)
From(s, n) == SubSeq(s, n, Len(s))

\* send() takes all of it, or less of it, which nobody notices (bound: once in a
\* request): what has been sent becomes now.
Send(sent, now, bytes) ==
  \/ now = sent \o bytes /\ lapses' = lapses
  \/ \E n \in 0..(Len(bytes) - 1) :
       /\ "short" \notin lapses
       /\ now = sent \o First(bytes, n)
       /\ lapses' = lapses \cup {"short"}

-----------------------------------------------------------------------------
(* Which requests are relayed.                                             *)

\* What the Host header may name: the bridge by one of its addresses, another
\* address, a name; or there is none.
HostKinds == {"gateway", "station", "address", "name", "absent"}
host_matches_bridge(h) == h \in {"gateway", "station"}
is_foreign_host(h) == h # "absent" /\ ~host_matches_bridge(h)
captive_check(h, bridging) == bridging \/ h \in {"gateway", "station", "address", "absent"}

\* handler_root() and the wildcard route; the gateway is on or not.
Request == \E h \in HostKinds, on, bridging, root \in BOOLEAN, body \in PostBodies :
  /\ stage = "idle"
  /\ IF on /\ is_foreign_host(h)
     THEN /\ stage' = "upstream" /\ answer' = "none"
          /\ post' = body /\ remaining' = body
     ELSE /\ stage' = "idle"
          /\ answer' = IF root /\ captive_check(h, bridging) THEN "page"
                                                             ELSE "portal"
          /\ UNCHANGED <<post, remaining>>
  /\ UNCHANGED <<to_upstream, upVars, sock, heap, headVars, outVars, sentVars, lapses>>

-----------------------------------------------------------------------------
(* handler_proxy_relay()                                                   *)

\* No address, no socket or no connection.
Refuse ==
  /\ stage = "upstream" /\ stage' = "idle" /\ answer' = "500"
  /\ post' = <<>> /\ remaining' = <<>>
  /\ UNCHANGED <<to_upstream, upVars, sock, heap, headVars, outVars, sentVars, lapses>>
OpenSocket ==
  /\ stage = "upstream" /\ stage' = "connect" /\ sock' = TRUE
  /\ UNCHANGED <<reqVars, upVars, heap, headVars, outVars, sentVars, lapses>>
ConnectFailsOpen ==                     \* mutant: the socket is not closed
  /\ stage = "connect" /\ stage' = "idle" /\ answer' = "500"
  /\ post' = <<>> /\ remaining' = <<>>
  /\ UNCHANGED <<to_upstream, upVars, sock, heap, headVars, outVars, sentVars, lapses>>
ConnectFails ==
  /\ stage = "connect" /\ stage' = "idle" /\ answer' = "500" /\ sock' = FALSE
  /\ post' = <<>> /\ remaining' = <<>>
  /\ UNCHANGED <<to_upstream, upVars, heap, headVars, outVars, sentVars, lapses>>

\* The head of the request; its last send is given 22 bytes of a string of 21,
\* and so the 0 that ends it.
SendRequest ==
  /\ stage = "connect" /\ stage' = "post"
  /\ Send(<<>>, to_upstream', <<"NUL">>)
  /\ UNCHANGED <<answer, post, remaining, upVars, sock, heap, headVars, outVars, sentVars>>

\* The body of the request, as the phone sends it.
PostChunk ==
  /\ stage = "post" /\ remaining # <<>>
  /\ \/ \E n \in 1..Least(CHUNK, Len(remaining)) :
          /\ Send(to_upstream, to_upstream', First(remaining, n))
          /\ remaining' = From(remaining, n + 1)
          /\ UNCHANGED stage
     \/ /\ stage' = "answer" /\ lapses' = lapses \cup {"gone"}
        /\ UNCHANGED <<to_upstream, remaining>>
  /\ UNCHANGED <<answer, post, upVars, sock, heap, headVars, outVars, sentVars>>
PostEnds ==
  /\ stage = "post" /\ remaining = <<>> /\ stage' = "answer"
  /\ UNCHANGED <<reqVars, upVars, sock, heap, headVars, outVars, sentVars, lapses>>

\* Upstream answers, in its own time; the phone's socket is there and head is
\* allocated, or the phone gets nothing.
Answer ==
  /\ stage = "answer"
  /\ \E r \in Responses : response' = r /\ upstream' = r.bytes
  /\ \/ stage' = "head" /\ heap' = {"head"} /\ UNCHANGED lapses
     \/ /\ stage' = "close" /\ UNCHANGED heap
        /\ \E why \in {"gone", "memory"} : lapses' = lapses \cup {why}
  /\ post' = <<>> /\ remaining' = <<>> /\ to_upstream' = <<>>
  /\ UNCHANGED <<answer, sock, headVars, outVars, sentVars>>

\* A receive into the head's buffer. Each time what has come is searched for
\* the end of the head, from three bytes before.
EndIn(s, from) == \E i \in from..(Len(s) - 3) : SubSeq(s, i, i + 3) = End
Scan(s, n) == EndIn(s, IF Len(s) - n < 3 THEN 1 ELSE Len(s) - n - 2)
HeadRoom == HEAD_BUF_SIZE - 1 - Len(head)
ReadHead ==
  /\ stage = "head"
  /\ \/ \E n \in 1..Least(HeadRoom, Len(upstream)) :
          LET h == head \o First(upstream, n) IN
          /\ head' = h /\ upstream' = From(upstream, n + 1)
          /\ found_terminator' = Scan(h, n)
          /\ stage' = IF found_terminator' \/ Len(h) = HEAD_BUF_SIZE - 1
                      THEN "build" ELSE "head"
          /\ lapses' = IF stage' = "build" /\ ~found_terminator'
                       THEN lapses \cup {"long_head"} ELSE lapses
     \/ /\ stage' = "build" /\ lapses' = lapses \cup {"cut_head"}
        /\ UNCHANGED <<headVars, upstream>>
  /\ UNCHANGED <<reqVars, response, sock, heap, outVars, sentVars>>

-----------------------------------------------------------------------------
(* The head the phone gets.                                                *)

\* The length of the head up to the blank line; all of it if there is none.
Ends == {i \in 1..(Len(head) - 3) : SubSeq(head, i, i + 3) = End}
HeadEndLast ==                          \* mutant: the last blank line
  IF Ends = {} THEN 0 ELSE (CHOOSE i \in Ends : \A j \in Ends : i >= j) + 3
HeadEnd == IF Ends = {} THEN 0 ELSE (CHOOSE i \in Ends : \A j \in Ends : i <= j) + 3

StatusLine == Len(head) >= 3 /\ head[2] = "CR" /\ head[3] = "LF"
\* Without a status line, or with one that does not fit, it is "200 OK".
StatusTold == IF StatusLine /\ ~response.long THEN response.status ELSE OK

\* Its first line is written, and the first header line looked for.
StartHead ==
  /\ stage = "build"
  /\ \/ /\ stage' = "lines" /\ heap' = heap \cup {"out"}
        /\ out' = [status |-> StatusTold, lines |-> <<>>, len |-> 3]
        /\ line_start' = IF StatusLine THEN 4 ELSE 0
        /\ UNCHANGED lapses
     \/ /\ stage' = "close" /\ heap' = heap \ {"head"}
        /\ lapses' = lapses \cup {"memory"}
        /\ UNCHANGED outVars
  /\ UNCHANGED <<reqVars, upVars, sock, headVars, sentVars>>

\* The next header line, if it came in whole: the first two bytes of a blank
\* line are none.
LineHere ==
  /\ line_start > 0 /\ line_start + 2 <= Len(head) /\ head[line_start] # "CR"
  /\ head[line_start + 1] = "CR" /\ head[line_start + 2] = "LF"

\* snprintf() writes what there is room for, with the 0 behind it, but returns
\* how much it would have been, and so much is added to out_len.
Fits(n) == out.len + n < HEAD_BUF_SIZE

\* A Content-Length is put there as long as there is any room, another line if
\* it fits with 4 bytes to spare, and none that is hop-by-hop.
PassedOn(line) == \/ line = "L" /\ out.len < HEAD_BUF_SIZE
                  \/ line = "H" /\ out.len + 1 + 4 < HEAD_BUF_SIZE
ForwardLine ==
  /\ stage = "lines" /\ LineHere
  /\ LET line == head[line_start] IN
     /\ out' = IF PassedOn(line)
               THEN [out EXCEPT !.lines = IF Fits(3) THEN Append(@, line) ELSE @,
                                !.len = @ + 3]
               ELSE out
     /\ has_content_length' = (has_content_length \/ line = "L")
  /\ line_start' = line_start + 3
  /\ UNCHANGED <<stage, reqVars, upVars, sock, heap, headVars, sent_head,
                 sent_body, body_relayed, lapses>>

\* "Connection: close" and the blank line, 5 bytes: if they do not fit, send() is
\* given the 0 that snprintf() put at the end of the buffer and what lies behind
\* the buffer, as far as out_len counts.
EndFits == Fits(5)
OutLen == IF out.len < HEAD_BUF_SIZE THEN out.len + 5 ELSE out.len
Overread == IF EndFits THEN <<>>
            ELSE <<"NUL">> \o [i \in 1..(OutLen - HEAD_BUF_SIZE) |-> "STRAY"]
Cramped == IF EndFits THEN {} ELSE {"cramped"}
HeadWith(lines, ended) == [status |-> out.status, lines |-> lines, ended |-> ended]
\* One send of it all, which may take less.
SendHead ==
  /\ stage = "lines" /\ ~LineHere /\ stage' = "leftover"
  /\ \/ /\ sent_head' = HeadWith(out.lines, EndFits) /\ sent_body' = Overread
        /\ lapses' = lapses \cup Cramped
     \/ /\ "short" \notin lapses
        /\ \/ /\ \E n \in 0..Len(out.lines) :
                  sent_head' = HeadWith(First(out.lines, n), FALSE)
              /\ sent_body' = <<>>
           \/ /\ sent_head' = HeadWith(out.lines, FALSE)
              /\ \E n \in 1..(Len(Overread) - 1) : sent_body' = First(Overread, n)
        /\ lapses' = lapses \cup Cramped \cup {"short"}
  /\ heap' = heap \ {"out"} /\ out' = Absent /\ line_start' = 0
  /\ UNCHANGED <<reqVars, upVars, sock, headVars, has_content_length, body_relayed>>

-----------------------------------------------------------------------------
(* The body.                                                               *)

Pass(bytes) == Send(sent_body, sent_body', bytes)

\* What came in with the head; then its buffer is free.
LeftoverUncounted ==                    \* mutant: not counted
  /\ stage = "leftover" /\ stage' = "rest" /\ heap' = heap \ {"head"}
  /\ IF HeadEnd > 0 /\ HeadEnd < Len(head)
     THEN Pass(From(head, HeadEnd + 1)) /\ UNCHANGED body_relayed
     ELSE UNCHANGED <<sent_body, body_relayed, lapses>>
  /\ head' = <<>> /\ found_terminator' = FALSE
  /\ UNCHANGED <<reqVars, upVars, sock, outVars, sent_head, has_content_length>>
Leftover ==
  /\ stage = "leftover" /\ stage' = "rest" /\ heap' = heap \ {"head"}
  /\ IF HeadEnd > 0 /\ HeadEnd < Len(head)
     THEN /\ Pass(From(head, HeadEnd + 1))
          /\ body_relayed' = Len(head) - HeadEnd
     ELSE UNCHANGED <<sent_body, body_relayed, lapses>>
  /\ head' = <<>> /\ found_terminator' = FALSE
  /\ UNCHANGED <<reqVars, upVars, sock, outVars, sent_head, has_content_length>>

More == IF has_content_length THEN body_relayed < response.length ELSE TRUE
\* Bound: what upstream sends when it goes on is not kept.
PassOn(bytes) ==
  IF "endless" \in lapses THEN UNCHANGED <<sent_body, body_relayed, lapses>>
  ELSE Pass(bytes) /\ body_relayed' = body_relayed + Len(bytes)
RestRetries ==                          \* mutant: silence is not the end
  /\ stage = "rest" /\ More
  /\ \E n \in 1..Least(CHUNK, Len(upstream)) :
       /\ upstream' = From(upstream, n + 1)
       /\ PassOn(First(upstream, n)) /\ UNCHANGED stage
  /\ UNCHANGED <<reqVars, response, sock, heap, headVars, outVars, sent_head,
                 has_content_length>>
Rest ==
  /\ stage = "rest" /\ More
  /\ \/ \E n \in 1..Least(CHUNK, Len(upstream)) :
          /\ upstream' = From(upstream, n + 1)
          /\ \/ PassOn(First(upstream, n)) /\ UNCHANGED stage
             \/ /\ stage' = "close" /\ lapses' = lapses \cup {"gone"}
                /\ UNCHANGED <<sent_body, body_relayed>>
     \/ /\ stage' = "close"
        /\ lapses' = IF upstream = <<>> THEN lapses ELSE lapses \cup {"cut"}
        /\ UNCHANGED <<upstream, sent_body, body_relayed>>
  /\ UNCHANGED <<reqVars, response, sock, heap, headVars, outVars, sent_head,
                 has_content_length>>
RestEnds ==
  /\ stage = "rest" /\ ~More /\ stage' = "close"
  /\ UNCHANGED <<reqVars, upVars, sock, heap, headVars, outVars, sentVars, lapses>>

\* Not the handler's step: upstream, whose answer has no length, sends one more
\* byte. It may do so every few seconds: each receive has its 5 s, all of them
\* together have no limit.
UpstreamGoesOn ==
  /\ stage = "rest" /\ response.endless /\ upstream = <<>>
  /\ \E byte \in BodyBytes : upstream' = <<byte>>
  /\ lapses' = lapses \cup {"endless"}
  /\ UNCHANGED <<stage, reqVars, response, sock, heap, headVars, outVars, sentVars>>

\* The session with the phone is closed too, and the locals are gone.
Close ==
  /\ stage = "close" /\ stage' = "idle" /\ sock' = FALSE
  /\ response' = Absent /\ upstream' = <<>> /\ lapses' = {}
  /\ head' = <<>> /\ found_terminator' = FALSE
  /\ sent_head' = Absent /\ sent_body' = <<>>
  /\ has_content_length' = FALSE /\ body_relayed' = 0
  /\ UNCHANGED <<reqVars, heap, outVars>>

-----------------------------------------------------------------------------
RelayInit ==
  /\ stage = "idle" /\ answer = "none"
  /\ post = <<>> /\ remaining = <<>> /\ to_upstream = <<>>
  /\ response = Absent /\ upstream = <<>>
  /\ sock = FALSE /\ heap = {}
  /\ head = <<>> /\ found_terminator = FALSE
  /\ line_start = 0 /\ out = Absent
  /\ sent_head = Absent /\ sent_body = <<>>
  /\ has_content_length = FALSE /\ body_relayed = 0
  /\ lapses = {}

RelayStep ==
  \/ Refuse \/ OpenSocket \/ ConnectFails \/ SendRequest \/ PostChunk \/ PostEnds
  \/ Answer \/ ReadHead \/ StartHead \/ ForwardLine \/ SendHead
  \/ Leftover \/ Rest \/ RestEnds \/ Close

RelayNext == Request \/ RelayStep \/ UpstreamGoesOn

RelaySpec == RelayInit /\ [][RelayNext]_relayVars

\* Every receive and send of the handler ends: upstream's socket and the phone's
\* have timeouts. Upstream and the phone owe nothing.
FairRelay == RelaySpec /\ WF_relayVars(RelayStep)

-----------------------------------------------------------------------------
(* Properties.                                                             *)

Stages == {"idle", "upstream", "connect", "post", "answer", "head", "build",
           "lines", "leftover", "rest", "close"}

RelayTypeOK ==
  /\ stage \in Stages /\ answer \in {"none", "page", "portal", "500"}
  /\ sock \in BOOLEAN /\ heap \in SUBSET {"head", "out"}
  /\ found_terminator \in BOOLEAN /\ has_content_length \in BOOLEAN
  /\ Len(head) < HEAD_BUF_SIZE
  /\ body_relayed \in Nat
  /\ lapses \in SUBSET {"cut", "cut_head", "long_head", "cramped", "short",
                        "gone", "memory", "endless"}

\* However the handler leaves, the socket is closed and nothing stays allocated.
NothingLeaks == stage = "idle" => ~sock /\ heap = {}

\* The end of the head is seen when it is there, though it comes in any number
\* of parts.
EndIsSeen ==
  stage \in {"build", "lines", "leftover"} => (found_terminator <=> HeadEnd > 0)

\* What upstream sent after the first blank line.
Body == From(response.bytes, BlankLine(response.bytes) + 4)
Honest == response.length \in {Absent, Len(Body)}

\* What the phone gets after the head is upstream's body from its beginning, as it
\* came: no byte of the head, none left out, none twice, wherever the receives cut
\* it; unless the head is longer than its buffer or stops half way, a send takes
\* less than it is given, or there is no room for the end of the head: then the
\* phone gets bytes from behind the buffer first (proxy_relay.c:139).
BodyInOrder ==
  response # Absent
    /\ lapses \cap {"cut_head", "long_head", "short", "cramped"} = {} =>
      IsPrefix(sent_body, Body)

\* ... and all of it when nothing went wrong. (Of an answer in chunks the phone gets
\* all the bytes but is not told that they are chunks: that is no body.)
Plain == \A i \in 1..BlankLine(response.bytes) : response.bytes[i] # "T"
BodyWhole ==
  stage = "close" /\ lapses = {} /\ Honest /\ Plain => sent_body = Body

\* With a Content-Length the relay does not wait for bytes that will not come
\* ("stop exactly there", proxy_relay.c:163), counting those that came with the
\* head.
NoWaitPastLength ==
  stage = "rest" /\ More /\ has_content_length /\ Honest
    /\ lapses \cap {"cut_head", "long_head"} = {} => upstream # <<>>

\* The phone is told the status upstream gave and only headers it should get,
\* and a Content-Length that is the upstream's, unless the head did not come in
\* whole or was not sent whole, or the status line is too long: then it is told
\* 200.
HeadTold ==
  sent_head # Absent /\ (sent_head.ended \/ "short" \notin lapses)
    /\ lapses \cap {"cut_head", "long_head"} = {} =>
    /\ response.long \/ sent_head.status = response.status
    /\ (response.length # Absent) = ("L" \in ToSet(sent_head.lines))
    /\ ToSet(sent_head.lines) \cap {"T", "K"} = {}

\* After the head of the request, and the 0 behind it, upstream gets the phone's
\* body in its order, no byte lost or twice, wherever the receives cut it; and
\* before the answer is read all of it, if the phone stays.
PostInOrder ==
  stage \in {"post", "answer"} /\ "short" \notin lapses =>
    /\ IsPrefix(to_upstream, <<"NUL">> \o post)
    /\ stage = "answer" /\ "gone" \notin lapses => to_upstream = <<"NUL">> \o post

\* The handler in order, in parts: types and the head's room, what it gives back,
\* what upstream is sent, the end of the head, and what the phone is told.
RelaySafety == RelayTypeOK /\ NothingLeaks /\ PostInOrder /\ EndIsSeen /\ HeadTold

\* The body is right at every moment, and at the end if nothing went wrong.
BodyRight == BodyInOrder /\ BodyWhole

\* The handler comes back whatever fails, wherever upstream and the phone fall
\* silent or go away; but not from an upstream that goes on sending for ever.
RelayEnds == \/ stage # "idle" ~> stage = "idle"
             \/ []<><<UpstreamGoesOn>>_relayVars

-----------------------------------------------------------------------------
(* What the repository says and the code does not do.                      *)

\* README.md:417: "The proxy supports HTTP requests including POST bodies."
\* Upstream takes as many bytes as Content-Length says, from where the head ends.
PostBodyArrives ==
  stage = "answer" /\ lapses = {} => First(to_upstream, Len(post)) = post
=============================================================================
