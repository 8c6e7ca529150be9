------------------------------ MODULE DnsCache ------------------------------
(***************************************************************************)
(* What the DNS server answers (main/dns_server.c): from its cache, from   *)
(* the upstream server, or with a reply of its own that leads to the       *)
(* bridge's pages. A task that hangs is told to end and its cache is       *)
(* cleared; it may come back while that is done, and goes on with the      *)
(* query it has. Only one task at a time serves port 53 (DnsServer).       *)
(*                                                                         *)
(* A query is a question and an id of the phone's choice. An upstream reply *)
(* is named by the query it is for. A cache entry's saved_ms is kept as its *)
(* 32-bit age, which the passing time changes.                             *)
(***************************************************************************)
EXTENDS Naturals, Sequences, FiniteSets, SequencesExt

CONSTANTS
  Questions, Ids,
  Kind,               \* Kind[q]: "A", "other", or "bad" (it has no end)
  Hash,               \* dns_query_hash() and the length
  DNS_CACHE_SIZE,
  Ttl,                \* 60000 ms, in units of the model's clock
  Wrap,               \* 2^32 ms in the same units
  None,
  MaxFlight           \* bound: queries that upstream has not answered and
                      \*   replies that the socket holds

ASSUME CacheAssumption ==
  /\ DNS_CACHE_SIZE \in Nat \ {0}
  /\ Ttl \in Nat /\ Wrap \in Nat /\ Wrap > Ttl + 1
  /\ Kind \in [Questions -> {"A", "other", "bad"}]

VARIABLES
  dns_cache,          \* slot -> [valid, hash, query, reply, age], and as history
                      \*   since, the time since it was stored, up to Ttl + 1
  dns_cache_next,
  pc,                 \* where the task is in its loop, or "ended"
  query,              \* its query: [q, id]
  slot,               \* the entry it uses
  reply,              \* [q, from], from is "upstream", "own" (the bridge's
                      \*   address) or "no such name"; or None
  why,                \* history: why it is not from upstream
  asked, arrived,     \* queries upstream has; replies in the task's socket
  dns_restart_flag,
  clearing,           \* the watchdog: 0, or the slot it clears next
  lapses              \* history: "overlap" (the cache was cleared while the
                      \*   task used it), "id_reused" (for another question,
                      \*   the first being unanswered), "late" (upstream
                      \*   silent, its reply may still come), "wrapped" (an
                      \*   entry nobody looked at for 49.7 days)

cacheVars == <<dns_cache, dns_cache_next>>
netVars == <<asked, arrived>>
watchVars == <<dns_restart_flag, clearing>>
localVars == <<query, slot, reply, why>>
vars == <<cacheVars, pc, localVars, netVars, watchVars, lapses>>

Slots == 1..DNS_CACHE_SIZE
Empty == [valid |-> FALSE, hash |-> None, query |-> None, reply |-> None,
          age |-> 0, since |-> 0]
Goto(l) == pc' = l

\* The task and the watchdog are both at the cache.
Using == pc \in {"copy", "store"}
Touch == lapses' = IF clearing > 0 THEN lapses \cup {"overlap"} ELSE lapses

-----------------------------------------------------------------------------
(* The reply that leads to the bridge's pages.                             *)

dns_make_captive_reply(q) ==
  CASE Kind[q] = "A" -> [q |-> q, from |-> "own"]
    [] Kind[q] = "other" -> [q |-> q, from |-> "no such name"]
    [] OTHER -> None

AnswerCaptive(reason) ==
  /\ reply' = dns_make_captive_reply(query.q)
  /\ why' = reason
  /\ Goto("send")

-----------------------------------------------------------------------------
(* The cache.                                                              *)

Never(e) == FALSE                       \* mutant: the age is not looked at
Expired(e) == e.age > Ttl

SameQuestion(e, q) == e.query = q

\* dns_cache_lookup(): entries are gone through in order up to a hit; those
\* with the right hash that are too old are invalidated on the way.
Candidate(e, q) == e.valid /\ e.hash = Hash[q]
Hits(q) == {i \in Slots : /\ Candidate(dns_cache[i], q) /\ ~Expired(dns_cache[i])
                          /\ SameQuestion(dns_cache[i], q)}
Passed(q, i) == \A j \in Hits(q) : i < j
Swept(q) == [i \in Slots |->
  IF Passed(q, i) /\ Candidate(dns_cache[i], q) /\ Expired(dns_cache[i])
  THEN [dns_cache[i] EXCEPT !.valid = FALSE] ELSE dns_cache[i]]

Lookup ==
  /\ pc = "lookup" /\ Touch
  /\ dns_cache' = Swept(query.q)
  /\ \/ Hits(query.q) = {} /\ Goto("forward") /\ UNCHANGED slot
     \/ /\ slot' \in Hits(query.q) /\ \A j \in Hits(query.q) : slot' <= j
        /\ Goto("copy")
  /\ UNCHANGED <<dns_cache_next, query, reply, why, netVars, watchVars>>

\* The reply is copied out and given the id of this query.
Copy ==
  /\ pc = "copy" /\ Touch /\ Goto("send")
  /\ reply' = dns_cache[slot].reply
  /\ UNCHANGED <<cacheVars, query, slot, why, netVars, watchVars>>

\* dns_cache_store(): the entry is valid before the query and the reply are in.
NextSlot(n) == (n % DNS_CACHE_SIZE) + 1
StoreHead ==
  /\ pc = "storing" /\ Touch /\ Goto("store")
  /\ slot' = dns_cache_next /\ dns_cache_next' = NextSlot(dns_cache_next)
  /\ dns_cache' = [dns_cache EXCEPT ![dns_cache_next] =
       [@ EXCEPT !.valid = TRUE, !.hash = Hash[query.q], !.age = 0,
                !.since = 0]]
  /\ UNCHANGED <<query, reply, why, netVars, watchVars>>
StoreReplyOnly ==                       \* mutant: the query is not stored
  /\ pc = "store" /\ Touch /\ Goto("send")
  /\ dns_cache' = [dns_cache EXCEPT ![slot].reply = reply]
  /\ UNCHANGED <<dns_cache_next, localVars, netVars, watchVars>>
StoreRest ==
  /\ pc = "store" /\ Touch /\ Goto("send")
  /\ dns_cache' = [dns_cache EXCEPT ![slot].query = query.q, ![slot].reply = reply]
  /\ UNCHANGED <<dns_cache_next, localVars, netVars, watchVars>>

-----------------------------------------------------------------------------
(* The loop of dns_server_task().                                          *)

\* The phone may repeat a query or give an id to another question.
Receive == \E q \in Questions, id \in Ids :
  /\ pc = "recv" /\ Goto("proxy")
  /\ query' = [q |-> q, id |-> id]
  /\ lapses' = IF \E d \in asked \cup ToSet(arrived) : d.id = id /\ d.q # q
               THEN lapses \cup {"id_reused"} ELSE lapses
  /\ UNCHANGED <<cacheVars, slot, reply, why, netVars, watchVars>>

\* With the proxy on and the bridge up every name leads to the bridge. The call
\* may hang.
Proxy ==
  /\ pc = "proxy"
  /\ \/ AnswerCaptive("proxy")
     \/ Goto("lookup") /\ UNCHANGED <<reply, why>>
  /\ UNCHANGED <<cacheVars, query, slot, netVars, watchVars, lapses>>

\* dns_forward(), when WiFi is connected and the query can be sent.
Forward ==
  /\ pc = "forward"
  /\ \/ AnswerCaptive("offline") /\ UNCHANGED asked
     \/ /\ Cardinality(asked) + Len(arrived) < MaxFlight
        /\ asked' = asked \cup {query}
        /\ Goto("wait") /\ UNCHANGED <<reply, why>>
  /\ UNCHANGED <<cacheVars, query, slot, arrived, watchVars, lapses>>

\* One datagram is received, whichever it is; only the id is compared (and the
\* sender).
AcceptAny(d) == TRUE                    \* mutant: the id is not compared
Accept(d) == d.id = query.id
Received(a) == Tail(a)
TakeReply ==
  /\ pc = "wait" /\ arrived # <<>> /\ arrived' = Received(arrived)
  /\ IF Accept(Head(arrived))
     THEN /\ reply' = [q |-> Head(arrived).q, from |-> "upstream"]
          /\ Goto("storing") /\ UNCHANGED why
     ELSE AnswerCaptive("mismatch")
  /\ UNCHANGED <<cacheVars, query, slot, asked, watchVars, lapses>>
Timeout ==
  /\ pc = "wait" /\ arrived = <<>> /\ AnswerCaptive("silent")
  /\ lapses' = IF asked = {} THEN lapses ELSE lapses \cup {"late"}
  /\ UNCHANGED <<cacheVars, query, slot, netVars, watchVars>>

\* Then back to the head of the loop, where the restart flag is looked at.
Send ==
  /\ pc = "send" /\ Goto(IF dns_restart_flag THEN "ended" ELSE "recv")
  /\ query' = None /\ slot' = 1 /\ reply' = None /\ why' = "none"
  /\ UNCHANGED <<cacheVars, netVars, watchVars, lapses>>

TaskStep ==
  \/ Receive \/ Proxy \/ Lookup \/ Copy \/ Forward \/ TakeReply \/ Timeout
  \/ StoreHead \/ StoreRest \/ Send

-----------------------------------------------------------------------------
(* Around it.                                                              *)

\* Upstream answers a query, or the query or the answer is lost.
Arrive == \E d \in asked :
  /\ asked' = asked \ {d}
  /\ \/ arrived' = Append(arrived, d)
     \/ UNCHANGED arrived
  /\ UNCHANGED <<cacheVars, pc, localVars, watchVars, lapses>>

Older(e) ==
  IF e.valid THEN [e EXCEPT !.age = (@ + 1) % Wrap,
                            !.since = IF @ > Ttl THEN @ ELSE @ + 1]
             ELSE [e EXCEPT !.age = 0, !.since = 0]
Tick ==
  /\ dns_cache' = [i \in Slots |-> Older(dns_cache[i])]
  /\ lapses' = IF \E i \in Slots : dns_cache[i].valid /\ dns_cache[i].age + 1 = Wrap
               THEN lapses \cup {"wrapped"} ELSE lapses
  /\ UNCHANGED <<dns_cache_next, pc, localVars, netVars, watchVars>>

\* The watchdog, when the task hangs: the flag is set, the cache is cleared
\* after a pause, entry by entry as far as the task can tell, ...
StartClear ==
  /\ clearing = 0 /\ pc = "proxy"
  /\ dns_restart_flag' = TRUE /\ clearing' = 1
  /\ UNCHANGED <<cacheVars, pc, localVars, netVars, lapses>>
Clear ==
  /\ clearing \in Slots /\ clearing' = clearing + 1
  /\ dns_cache' = [dns_cache EXCEPT ![clearing] = Empty]
  /\ lapses' = IF Using THEN lapses \cup {"overlap"} ELSE lapses
  /\ UNCHANGED <<dns_cache_next, pc, localVars, netVars, dns_restart_flag>>
\* ... and another task starts, with a socket of its own, if the first has ended
\* and left the port. Else the first goes on, and DnsServer tells the rest.
StartTask ==
  /\ clearing > DNS_CACHE_SIZE /\ clearing' = 0
  /\ dns_cache_next' = 1
  /\ lapses' = IF Using THEN lapses \cup {"overlap"} ELSE lapses
  /\ IF pc = "ended"
     THEN Goto("recv") /\ dns_restart_flag' = FALSE /\ asked' = {} /\ arrived' = <<>>
     ELSE UNCHANGED <<pc, dns_restart_flag, netVars>>
  /\ UNCHANGED <<dns_cache, localVars>>

Init ==
  /\ dns_cache = [i \in Slots |-> Empty] /\ dns_cache_next = 1
  /\ pc = "recv" /\ query = None /\ slot = 1 /\ reply = None /\ why = "none"
  /\ asked = {} /\ arrived = <<>>
  /\ dns_restart_flag = FALSE /\ clearing = 0 /\ lapses = {}

Next == TaskStep \/ Arrive \/ Tick \/ StartClear \/ Clear \/ StartTask

Spec == Init /\ [][Next]_vars

-----------------------------------------------------------------------------
(* Properties.                                                             *)

Queries == [q : Questions, id : Ids]
Replies == [q : Questions, from : {"upstream", "own", "no such name"}]
Entries == [valid : BOOLEAN, hash : {Hash[q] : q \in Questions} \cup {None},
            query : Questions \cup {None}, reply : Replies \cup {None},
            age : 0..(Wrap - 1), since : 0..(Ttl + 1)]

TypeOK ==
  /\ dns_cache \in [Slots -> Entries] /\ dns_cache_next \in Slots
  /\ pc \in {"recv", "proxy", "lookup", "copy", "forward", "wait", "storing",
             "store", "send", "ended"}
  /\ query \in Queries \cup {None} /\ slot \in Slots
  /\ reply \in Replies \cup {None}
  /\ why \in {"none", "proxy", "offline", "silent", "mismatch"}
  /\ asked \in SUBSET Queries /\ arrived \in Seq(Queries)
  /\ dns_restart_flag \in BOOLEAN /\ clearing \in 0..(DNS_CACHE_SIZE + 1)
  /\ lapses \in SUBSET {"overlap", "id_reused", "late", "wrapped"}

Sound == lapses \cap {"overlap", "id_reused"} = {}

\* The phone gets the answer to the question it asked, wherever from: replies
\* that come late, a task that comes back late and a cache that is cleared do
\* no harm, unless the cache is cleared while the task uses it or an id is used
\* again too early.
RightAnswer == Sound /\ pc = "send" /\ reply # None => reply.q = query.q

\* What is in the cache is what upstream said to that question, and it is there
\* once: a question is stored only when its old entry has been given up.
Whole(i) == dns_cache[i].valid /\ ~(pc = "store" /\ slot = i)
CacheTruth ==
  Sound => \A i \in Slots : Whole(i) =>
    /\ dns_cache[i].query \in Questions
    /\ dns_cache[i].hash = Hash[dns_cache[i].query]
    /\ dns_cache[i].reply = [q |-> dns_cache[i].query, from |-> "upstream"]
    /\ \A j \in Slots :
         Whole(j) /\ dns_cache[j].query = dns_cache[i].query => i = j

\* What is answered from the cache was stored no longer than 60 s before it was
\* found, however often it was used since, unless the 32 bits of the clock went
\* all the way round with the entry unused.
FreshAnswers ==
  [][pc = "lookup" /\ pc' = "copy" /\ "wrapped" \notin lapses
       => dns_cache[slot'].since <= Ttl]_vars

\* An answer of upstream's is passed over, and the name sent to the bridge's own
\* pages, only after one that was late: from then on each reply may be taken
\* for the next query's.
NoMismatchUnlessLate == "late" \notin lapses => why # "mismatch"
=============================================================================
