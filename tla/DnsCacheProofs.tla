--------------------------- MODULE DnsCacheProofs ---------------------------
(***************************************************************************)
(* Proofs about DnsCache, for any questions, ids, hash and size of the     *)
(* cache: the answer is to the question, as long as the cache is not       *)
(* cleared while the task uses it and no id is used again too early.       *)
(***************************************************************************)
EXTENDS DnsCache, TLAPS

Active == {"proxy", "lookup", "copy", "forward", "wait", "storing", "store", "send"}

\* From the moment a query is received until it is answered the task has one.
HasQuery == pc \in Active => query \in Queries

Types == TypeOK /\ HasQuery

Flying == asked \cup ToSet(arrived)

\* What is under way with the id of this query is for this query.
Flight ==
  pc \in Active => \A d \in Flying : d.id = query.id => d.q = query.q

\* What the task has in hand.
Answer ==
  /\ pc \in {"storing", "store"} => reply = [q |-> query.q, from |-> "upstream"]
  /\ pc = "send" /\ reply # None => reply.q = query.q

\* What a lookup found, and what is half stored.
Found ==
  pc = "copy" => dns_cache[slot].valid /\ dns_cache[slot].query = query.q
Half == pc = "store" => dns_cache[slot].hash = Hash[query.q]

Truth ==
  \A i \in Slots : Whole(i) =>
    /\ dns_cache[i].query \in Questions
    /\ dns_cache[i].hash = Hash[dns_cache[i].query]
    /\ dns_cache[i].reply = [q |-> dns_cache[i].query, from |-> "upstream"]
    /\ \A j \in Slots :
         Whole(j) /\ dns_cache[j].query = dns_cache[i].query => i = j

\* A question that is forwarded is not in the cache.
Gone ==
  pc \in {"forward", "wait", "storing", "store"} =>
    \A i \in Slots : Whole(i) => dns_cache[i].query # query.q

SInv == Flight /\ Answer /\ Found /\ Half /\ Truth /\ Gone

IInv == Types /\ (Sound => SInv)

-----------------------------------------------------------------------------
(* Sequences as sets.                                                      *)

LEMMA ToSetAppend ==
  ASSUME NEW S, NEW s \in Seq(S), NEW e \in S
  PROVE  ToSet(Append(s, e)) = ToSet(s) \cup {e}
<1>1. /\ DOMAIN Append(s, e) = 1..(Len(s) + 1) /\ DOMAIN s = 1..Len(s)
      /\ \A i \in 1..Len(s) : Append(s, e)[i] = s[i]
      /\ Append(s, e)[Len(s) + 1] = e /\ Len(s) \in Nat
  OBVIOUS
<1>2. \A i \in 1..(Len(s) + 1) : i \in 1..Len(s) \/ i = Len(s) + 1
  BY <1>1
<1>3. ToSet(Append(s, e)) \subseteq ToSet(s) \cup {e}
  BY <1>1, <1>2 DEF ToSet
<1>4. \A i \in 1..Len(s) : i \in 1..(Len(s) + 1)
  BY <1>1
<1>5. Len(s) + 1 \in 1..(Len(s) + 1)
  BY <1>1
<1>6. ToSet(s) \cup {e} \subseteq ToSet(Append(s, e))
  BY <1>1, <1>4, <1>5 DEF ToSet
<1> QED BY <1>3, <1>6

LEMMA ToSetTail ==
  ASSUME NEW S, NEW s \in Seq(S), s # <<>>
  PROVE  /\ Head(s) \in S /\ Head(s) \in ToSet(s)
         /\ Tail(s) \in Seq(S) /\ ToSet(Tail(s)) \subseteq ToSet(s)
  BY DEF ToSet

-----------------------------------------------------------------------------
(* Types.                                                                  *)

LEMMA SlotTypes ==
  /\ 1 \in Slots /\ \A n \in Slots : NextSlot(n) \in Slots
  BY CacheAssumption DEF Slots, NextSlot

LEMMA EmptyType == Empty \in Entries
  BY CacheAssumption DEF Empty, Entries

LEMMA CaptiveType ==
  ASSUME NEW q \in Questions
  PROVE  /\ dns_make_captive_reply(q) \in Replies \cup {None}
         /\ dns_make_captive_reply(q) # None => dns_make_captive_reply(q).q = q
<1>1. Kind[q] \in {"A", "other", "bad"}
  BY CacheAssumption
<1>2. CASE Kind[q] = "A"
  BY <1>2 DEF dns_make_captive_reply, Replies
<1>3. CASE Kind[q] = "other"
  BY <1>3 DEF dns_make_captive_reply, Replies
<1>4. CASE Kind[q] = "bad"
  BY <1>4 DEF dns_make_captive_reply
<1> QED BY <1>1, <1>2, <1>3, <1>4

LEMMA OlderType ==
  ASSUME NEW e \in Entries
  PROVE  /\ Older(e) \in Entries
         /\ Older(e).valid = e.valid /\ Older(e).hash = e.hash
         /\ Older(e).query = e.query /\ Older(e).reply = e.reply
<1>1. (e.age + 1) % Wrap \in 0..(Wrap - 1)
  BY CacheAssumption DEF Entries
<1>2. e.since <= Ttl => e.since + 1 \in 0..(Ttl + 1)
  BY CacheAssumption DEF Entries
<1>3. 0 \in 0..(Wrap - 1) /\ 0 \in 0..(Ttl + 1)
  BY CacheAssumption
<1>4. CASE e.valid
  <2> DEFINE age == (e.age + 1) % Wrap
             since == IF e.since > Ttl THEN e.since ELSE e.since + 1
  <2>1. since \in 0..(Ttl + 1)
    BY <1>2, CacheAssumption DEF Entries
  <2>2. Older(e) = [e EXCEPT !.age = age, !.since = since]
    BY <1>4 DEF Older
  <2>3. age \in 0..(Wrap - 1)
    BY <1>1
  <2> HIDE DEF age, since
  <2> QED BY <2>1, <2>2, <2>3 DEF Entries
<1>5. CASE ~e.valid
  BY <1>3, <1>5 DEF Older, Entries
<1> QED BY <1>4, <1>5

LEMMA SweptType ==
  ASSUME dns_cache \in [Slots -> Entries], NEW q
  PROVE  /\ Swept(q) \in [Slots -> Entries]
         /\ \A i \in Slots :
              /\ Swept(q)[i].query = dns_cache[i].query
              /\ Swept(q)[i].reply = dns_cache[i].reply
              /\ Swept(q)[i].hash = dns_cache[i].hash
              /\ Swept(q)[i].valid => dns_cache[i].valid
<1> SUFFICES ASSUME NEW i \in Slots
             PROVE  /\ Swept(q)[i] \in Entries
                    /\ Swept(q)[i].query = dns_cache[i].query
                    /\ Swept(q)[i].reply = dns_cache[i].reply
                    /\ Swept(q)[i].hash = dns_cache[i].hash
                    /\ Swept(q)[i].valid => dns_cache[i].valid
  BY DEF Swept
<1>1. \/ Swept(q)[i] = dns_cache[i]
      \/ Swept(q)[i] = [dns_cache[i] EXCEPT !.valid = FALSE]
  BY DEF Swept
<1>2. dns_cache[i] \in Entries
  OBVIOUS
<1> QED BY <1>1, <1>2 DEF Entries

\* TypeOK in groups.
CacheOK == dns_cache \in [Slots -> Entries] /\ dns_cache_next \in Slots
TaskOK ==
  /\ pc \in Active \cup {"recv", "ended"} /\ slot \in Slots
  /\ query \in Queries \cup {None} /\ reply \in Replies \cup {None}
  /\ why \in {"none", "proxy", "offline", "silent", "mismatch"}
NetOK == asked \in SUBSET Queries /\ arrived \in Seq(Queries)
RestOK ==
  /\ dns_restart_flag \in BOOLEAN /\ clearing \in 0..(DNS_CACHE_SIZE + 1)
  /\ lapses \in SUBSET {"overlap", "id_reused", "late", "wrapped"}

LEMMA Groups == Types <=> CacheOK /\ TaskOK /\ NetOK /\ RestOK /\ HasQuery
  BY DEF Types, TypeOK, CacheOK, TaskOK, NetOK, RestOK, Active

LEMMA TypesInit == Init => Types
<1> SUFFICES ASSUME Init PROVE Types
  OBVIOUS
<1>1. CacheOK
  BY EmptyType, SlotTypes DEF Init, CacheOK
<1>2. TaskOK /\ HasQuery
  BY SlotTypes DEF Init, TaskOK, HasQuery, Active
<1>3. NetOK
  BY DEF Init, NetOK
<1>4. RestOK
  <2>1. lapses \in SUBSET {"overlap", "id_reused", "late", "wrapped"}
    BY DEF Init
  <2>2. clearing \in 0..(DNS_CACHE_SIZE + 1)
    BY CacheAssumption DEF Init
  <2>3. dns_restart_flag \in BOOLEAN
    BY DEF Init
  <2> QED BY <2>1, <2>2, <2>3 DEF RestOK
<1> QED BY <1>1, <1>2, <1>3, <1>4, Groups

LEMMA CacheStep == Types /\ Next => CacheOK'
<1> SUFFICES ASSUME CacheOK, TaskOK, HasQuery, Next PROVE CacheOK'
  BY Groups
<1> USE DEF CacheOK
<1>1. CASE Receive \/ Proxy \/ Copy \/ Forward \/ TakeReply \/ Timeout \/ Send
  BY <1>1 DEF Receive, Proxy, Copy, Forward, TakeReply, Timeout, Send, cacheVars
<1>2. CASE Lookup
  BY <1>2, SweptType DEF Lookup
<1>3. CASE StoreHead
  <2>1. query.q \in Questions
    BY <1>3 DEF StoreHead, HasQuery, Active, Queries
  <2>2. [dns_cache[dns_cache_next] EXCEPT !.valid = TRUE, !.hash = Hash[query.q],
                                          !.age = 0, !.since = 0] \in Entries
    BY <2>1, EmptyType DEF Entries, Empty
  <2>3. dns_cache' \in [Slots -> Entries]
    BY <1>3, <2>2 DEF StoreHead
  <2> QED BY <1>3, <2>3, SlotTypes DEF StoreHead
<1>4. CASE StoreRest
  <2>1. query.q \in Questions
    BY <1>4 DEF StoreRest, HasQuery, Active, Queries
  <2>2. [dns_cache[slot] EXCEPT !.query = query.q, !.reply = reply] \in Entries
    BY <2>1 DEF TaskOK, Entries
  <2>3. dns_cache' = [dns_cache EXCEPT ![slot] =
          [dns_cache[slot] EXCEPT !.query = query.q, !.reply = reply]]
    BY <1>4 DEF StoreRest, TaskOK, Entries
  <2> HIDE DEF Entries
  <2> QED BY <1>4, <2>2, <2>3 DEF StoreRest
<1>5. CASE Arrive \/ StartClear \/ StartTask
  BY <1>5, SlotTypes DEF Arrive, StartClear, StartTask, cacheVars
<1>6. CASE Tick
  BY <1>6, OlderType DEF Tick
<1>7. CASE Clear
  BY <1>7, EmptyType DEF Clear
<1> QED BY <1>1, <1>2, <1>3, <1>4, <1>5, <1>6, <1>7 DEF Next, TaskStep

LEMMA TaskOKStep == Types /\ Next => TaskOK' /\ HasQuery'
<1> SUFFICES ASSUME Types, Next PROVE TaskOK' /\ HasQuery'
  OBVIOUS
<1> USE Groups DEF TaskOK, HasQuery, Goto
<1>1. CASE Receive
  BY <1>1 DEF Receive, Active, Queries
<1>2. CASE Proxy
  BY <1>2, CaptiveType DEF Proxy, AnswerCaptive, Active, Queries
<1>3. CASE Lookup
  BY <1>3 DEF Lookup, Hits, Active
<1>4. CASE Copy
  <2>1. dns_cache[slot].reply \in Replies \cup {None}
    BY DEF CacheOK, Entries
  <2> QED BY <1>4, <2>1 DEF Copy, Active
<1>5. CASE Forward
  BY <1>5, CaptiveType DEF Forward, AnswerCaptive, Active, Queries
<1>6. CASE TakeReply
  <2>1. Head(arrived) \in Queries /\ query \in Queries
    BY <1>6, ToSetTail DEF TakeReply, NetOK, Active
  <2>2. [q |-> Head(arrived).q, from |-> "upstream"] \in Replies
    BY <2>1 DEF Queries, Replies
  <2>3. dns_make_captive_reply(query.q) \in Replies \cup {None}
    BY <2>1, CaptiveType DEF Queries
  <2> QED BY <1>6, <2>1, <2>2, <2>3 DEF TakeReply, AnswerCaptive, Active
<1>7. CASE Timeout
  BY <1>7, CaptiveType DEF Timeout, AnswerCaptive, Active, Queries
<1>8. CASE StoreHead \/ StoreRest
  BY <1>8 DEF StoreHead, StoreRest, CacheOK, localVars, Active
<1>9. CASE Send
  BY <1>9, SlotTypes DEF Send, Active
<1>10. CASE Arrive \/ Tick \/ StartClear \/ Clear
  BY <1>10 DEF Arrive, Tick, StartClear, Clear, localVars
<1>11. CASE StartTask
  BY <1>11 DEF StartTask, localVars, Active
<1> QED
  BY <1>1, <1>2, <1>3, <1>4, <1>5, <1>6, <1>7, <1>8, <1>9, <1>10, <1>11
     DEF Next, TaskStep

LEMMA NetStep == Types /\ Next => NetOK'
<1> SUFFICES ASSUME Types, Next PROVE NetOK'
  OBVIOUS
<1> USE Groups DEF NetOK
<1>1. CASE Receive \/ Proxy \/ Lookup \/ Copy \/ Timeout \/ StoreHead \/ StoreRest
           \/ Send \/ Tick \/ StartClear \/ Clear
  BY <1>1 DEF Receive, Proxy, Lookup, Copy, Timeout, StoreHead, StoreRest, Send,
              Tick, StartClear, Clear, netVars
<1>2. CASE Forward
  BY <1>2 DEF Forward, HasQuery, Active
<1>3. CASE TakeReply
  BY <1>3, ToSetTail DEF TakeReply, Received
<1>4. CASE Arrive
  BY <1>4 DEF Arrive
<1>5. CASE StartTask
  <2>1. CASE pc = "ended"
    BY <1>5, <2>1 DEF StartTask
  <2>2. CASE pc # "ended"
    BY <1>5, <2>2 DEF StartTask, netVars
  <2> QED BY <2>1, <2>2
<1> QED BY <1>1, <1>2, <1>3, <1>4, <1>5 DEF Next, TaskStep

LEMMA RestStep == Types /\ Next => RestOK'
<1> SUFFICES ASSUME RestOK, Next PROVE RestOK'
  BY Groups
<1>1. dns_restart_flag' \in BOOLEAN
  BY DEF RestOK, Next, TaskStep, Receive, Proxy, Lookup, Copy, Forward, TakeReply,
         Timeout, StoreHead, StoreRest, Send, Arrive, Tick, StartClear, Clear,
         StartTask, watchVars
<1>2. clearing' \in 0..(DNS_CACHE_SIZE + 1)
  BY CacheAssumption
     DEF RestOK, Next, TaskStep, Receive, Proxy, Lookup, Copy, Forward, TakeReply,
         Timeout, StoreHead, StoreRest, Send, Arrive, Tick, StartClear, Clear,
         StartTask, watchVars, Slots
<1>3. lapses' \in SUBSET {"overlap", "id_reused", "late", "wrapped"}
  BY DEF RestOK, Next, TaskStep, Receive, Proxy, Lookup, Copy, Forward, TakeReply,
         Timeout, StoreHead, StoreRest, Send, Arrive, Tick, StartClear, Clear,
         StartTask, Touch
<1> QED BY <1>1, <1>2, <1>3 DEF RestOK

LEMMA TypesStep == Types /\ [Next]_vars => Types'
<1> SUFFICES ASSUME Types, [Next]_vars PROVE Types'
  OBVIOUS
<1>1. CASE UNCHANGED vars
  BY <1>1 DEF Types, TypeOK, HasQuery, vars, cacheVars, localVars, netVars, watchVars
<1>2. CASE Next
  BY <1>2, CacheStep, TaskOKStep, NetStep, RestStep
     DEF Types, TypeOK, CacheOK, TaskOK, NetOK, RestOK, Active
<1> QED BY <1>1, <1>2

-----------------------------------------------------------------------------
(* The answer is to the question.                                          *)

\* Lapses are not forgiven; while there are none nobody clears what is used.
LEMMA SoundBack ==
  ASSUME Types, Next, Sound'
  PROVE  /\ Sound
         /\ Lookup \/ Copy \/ StoreHead \/ StoreRest => clearing = 0
         /\ Clear \/ StartTask => ~Using
         /\ Receive => \A d \in Flying : d.id = query'.id => d.q = query'.q
<1>1. lapses \subseteq lapses'
  BY DEF Next, TaskStep, Receive, Proxy, Lookup, Copy, Forward, TakeReply, Timeout,
         StoreHead, StoreRest, Send, Arrive, Tick, StartClear, Clear, StartTask,
         Touch
<1>2. Sound
  BY <1>1 DEF Sound
<1>3. clearing \in 0..(DNS_CACHE_SIZE + 1)
  BY DEF Types, TypeOK
<1>4. ASSUME Lookup \/ Copy \/ StoreHead \/ StoreRest PROVE clearing = 0
  <2>1. ~(clearing > 0)
    BY <1>4 DEF Lookup, Copy, StoreHead, StoreRest, Touch, Sound
  <2> QED BY <1>3, <2>1, CacheAssumption
<1>5. ASSUME Clear \/ StartTask PROVE ~Using
  BY <1>5 DEF Clear, StartTask, Sound
<1>6. ASSUME Receive PROVE \A d \in Flying : d.id = query'.id => d.q = query'.q
  BY <1>6 DEF Receive, Sound, Flying
<1> QED BY <1>2, <1>4, <1>5, <1>6

LEMMA FlightStep ==
  ASSUME Types, Flight, Next, Sound'
  PROVE  Flight'
<1> USE DEF Flight
<1>1. CASE Receive
  <2>1. Flying' = Flying
    BY <1>1 DEF Receive, Flying, netVars
  <2> QED BY <1>1, <2>1, SoundBack
<1>2. CASE Proxy \/ Lookup \/ Copy \/ Timeout \/ StoreHead \/ StoreRest
  <2>1. Flying' = Flying /\ query' = query /\ pc \in Active
    BY <1>2 DEF Proxy, Lookup, Copy, Timeout, StoreHead, StoreRest, Flying, netVars,
                localVars, Active
  <2> QED BY <2>1
<1>3. CASE Tick \/ StartClear \/ Clear
  <2>1. Flying' = Flying /\ query' = query /\ pc' = pc
    BY <1>3 DEF Tick, StartClear, Clear, Flying, netVars, localVars
  <2> QED BY <2>1
<1>4. CASE Forward
  <2>1. Flying' \subseteq Flying \cup {query} /\ query' = query /\ pc \in Active
    BY <1>4 DEF Forward, Flying, Active
  <2> QED BY <2>1
<1>5. CASE TakeReply
  <2>1. arrived \in Seq(Queries) /\ arrived # <<>>
    BY <1>5 DEF Types, TypeOK, TakeReply
  <2>2. Flying' \subseteq Flying /\ query' = query /\ pc \in Active
    BY <1>5, <2>1, ToSetTail DEF TakeReply, Received, Flying, Active
  <2> QED BY <2>2
<1>6. CASE Send
  BY <1>6 DEF Send, Goto, Active
<1>7. CASE Arrive
  <2>1. arrived \in Seq(Queries) /\ asked \in SUBSET Queries
    BY DEF Types, TypeOK
  <2>2. PICK d \in asked : /\ asked' = asked \ {d}
                           /\ arrived' = Append(arrived, d) \/ arrived' = arrived
    BY <1>7 DEF Arrive
  <2>3. ToSet(Append(arrived, d)) = ToSet(arrived) \cup {d}
    BY <2>1, ToSetAppend
  <2>4. ToSet(arrived') \subseteq ToSet(arrived) \cup {d}
    <3>1. CASE arrived' = Append(arrived, d)
      BY <2>3, <3>1
    <3>2. CASE arrived' = arrived
      BY <3>2
    <3> QED BY <2>2, <3>1, <3>2
  <2>5. asked' \subseteq asked
    BY <2>2
  <2>6. Flying' \subseteq Flying
    BY <2>4, <2>5 DEF Flying
  <2>7. query' = query /\ pc' = pc
    BY <1>7 DEF Arrive, localVars
  <2> QED BY <2>6, <2>7
<1>8. CASE StartTask
  <2>1. CASE pc = "ended"
    BY <1>8, <2>1 DEF StartTask, Goto, Active
  <2>2. CASE pc # "ended"
    <3>1. Flying' = Flying /\ query' = query /\ pc' = pc
      BY <1>8, <2>2 DEF StartTask, Flying, netVars, localVars
    <3> QED BY <3>1
  <2> QED BY <2>1, <2>2
<1> QED BY <1>1, <1>2, <1>4, <1>5, <1>6, <1>7, <1>8, <1>3
     DEF Next, TaskStep

LEMMA AnswerStep ==
  ASSUME Types, Flight, Answer, Found, Truth, Next
  PROVE  Answer'
<1> USE DEF Answer, Goto
<1>1. CASE Receive \/ Lookup \/ Send \/ StoreHead \/ StoreRest
  BY <1>1 DEF Receive, Lookup, Send, StoreHead, StoreRest, localVars
<1>2. CASE Proxy \/ Forward \/ Timeout
  <2>1. pc \in Active /\ query.q \in Questions /\ query' = query
    BY <1>2 DEF Proxy, Forward, Timeout, Types, HasQuery, Active, Queries
  <2>2. \/ pc' \in {"lookup", "wait"}
        \/ pc' = "send" /\ reply' = dns_make_captive_reply(query.q)
    BY <1>2 DEF Proxy, Forward, Timeout, AnswerCaptive
  <2> QED BY <2>1, <2>2, CaptiveType
<1>3. CASE Copy
  <2>1. slot \in Slots /\ Whole(slot) /\ dns_cache[slot].query = query.q
    BY <1>3 DEF Copy, Found, Whole, Types, TypeOK
  <2>2. dns_cache[slot].reply = [q |-> query.q, from |-> "upstream"]
    BY <2>1 DEF Truth
  <2> QED BY <1>3, <2>2 DEF Copy
<1>4. CASE TakeReply
  <2>1. query.q \in Questions /\ pc \in Active /\ query' = query
    BY <1>4 DEF TakeReply, Types, HasQuery, Active, Queries
  <2>2. CASE Accept(Head(arrived))
    <3>1. Head(arrived) \in Flying
      BY <1>4, ToSetTail DEF TakeReply, Types, TypeOK, Flying
    <3>2. Head(arrived).q = query.q
      BY <2>1, <2>2, <3>1 DEF Accept, Flight
    <3> QED BY <1>4, <2>1, <2>2, <3>2 DEF TakeReply
  <2>3. CASE ~Accept(Head(arrived))
    BY <1>4, <2>1, <2>3, CaptiveType DEF TakeReply, AnswerCaptive
  <2> QED BY <2>2, <2>3
<1>5. CASE Arrive \/ Tick \/ StartClear \/ Clear
  BY <1>5 DEF Arrive, Tick, StartClear, Clear, localVars
<1>6. CASE StartTask
  BY <1>6 DEF StartTask, localVars
<1> QED BY <1>1, <1>2, <1>3, <1>4, <1>5, <1>6 DEF Next, TaskStep

LEMMA FoundStep ==
  ASSUME Types, Found, Half, Next, Sound'
  PROVE  Found' /\ Half'
<1> USE DEF Found, Half, Goto
<1>1. CASE Receive \/ Proxy \/ Copy \/ Forward \/ TakeReply \/ Timeout \/ StoreRest
           \/ Send
  BY <1>1 DEF Receive, Proxy, Copy, Forward, TakeReply, Timeout, StoreRest, Send,
              AnswerCaptive
<1>2. CASE Lookup
  <2>1. CASE pc' = "copy"
    <3>1. slot' \in Hits(query.q) /\ dns_cache' = Swept(query.q) /\ query' = query
      BY <1>2, <2>1 DEF Lookup
    <3>2. dns_cache'[slot'] = dns_cache[slot']
      BY <3>1 DEF Hits, Swept
    <3> QED BY <2>1, <3>1, <3>2 DEF Hits, Candidate, SameQuestion
  <2>2. CASE pc' = "forward"
    BY <2>2
  <2> QED BY <1>2, <2>1, <2>2 DEF Lookup
<1>3. CASE StoreHead
  <2>1. dns_cache_next \in Slots /\ dns_cache \in [Slots -> Entries]
    BY DEF Types, TypeOK
  <2>2. dns_cache'[dns_cache_next].hash = Hash[query.q]
    BY <1>3, <2>1 DEF StoreHead, Entries
  <2> QED BY <1>3, <2>2 DEF StoreHead
<1>4. CASE Arrive \/ StartClear
  BY <1>4 DEF Arrive, StartClear, localVars, cacheVars
<1>5. CASE Tick
  <2>1. dns_cache \in [Slots -> Entries] /\ slot \in Slots
    BY DEF Types, TypeOK
  <2>2. /\ dns_cache'[slot].valid = dns_cache[slot].valid
        /\ dns_cache'[slot].query = dns_cache[slot].query
        /\ dns_cache'[slot].hash = dns_cache[slot].hash
    BY <1>5, <2>1, OlderType DEF Tick
  <2> QED BY <1>5, <2>2 DEF Tick, localVars
<1>6. CASE Clear \/ StartTask
  <2>1. pc \notin {"copy", "store"}
    BY <1>6, SoundBack DEF Using
  <2>2. pc' \in {pc, "recv"}
    BY <1>6 DEF Clear, StartTask
  <2> QED BY <2>1, <2>2
<1> QED BY <1>1, <1>2, <1>3, <1>4, <1>5, <1>6 DEF Next, TaskStep

\* An entry that is whole after the step was whole before it, unless the step
\* completed it, and says the same.
LEMMA Kept ==
  ASSUME Types, Next, Sound', NEW i \in Slots, Whole(i)'
  PROVE  \/ StoreRest /\ i = slot
         \/ /\ Whole(i)
            /\ dns_cache'[i].query = dns_cache[i].query
            /\ dns_cache'[i].hash = dns_cache[i].hash
            /\ dns_cache'[i].reply = dns_cache[i].reply
<1> USE DEF Whole, Goto
<1>1. dns_cache \in [Slots -> Entries] /\ slot \in Slots /\ dns_cache_next \in Slots
  BY DEF Types, TypeOK
<1>2. CASE Receive \/ Proxy \/ Copy \/ Forward \/ TakeReply \/ Timeout \/ Send
  BY <1>2 DEF Receive, Proxy, Copy, Forward, TakeReply, Timeout, Send, cacheVars
<1>3. CASE Lookup
  BY <1>1, <1>3, SweptType DEF Lookup
<1>4. CASE StoreHead
  <2>1. pc = "storing" /\ pc' = "store" /\ slot' = dns_cache_next
    BY <1>4 DEF StoreHead
  <2>2. i # dns_cache_next
    BY <2>1
  <2>3. dns_cache'[i] = dns_cache[i]
    BY <1>1, <1>4, <2>2 DEF StoreHead
  <2> QED BY <2>1, <2>3
<1>5. CASE StoreRest
  <2>1. CASE i = slot
    BY <1>5, <2>1
  <2>2. CASE i # slot
    <3>1. dns_cache'[i] = dns_cache[i]
      BY <1>1, <1>5, <2>2 DEF StoreRest
    <3> QED BY <2>2, <3>1
  <2> QED BY <2>1, <2>2
<1>6. CASE Arrive \/ StartClear
  BY <1>6 DEF Arrive, StartClear, localVars, cacheVars
<1>7. CASE Tick
  <2>1. dns_cache'[i] = Older(dns_cache[i]) /\ UNCHANGED <<pc, slot>>
    BY <1>7 DEF Tick, localVars
  <2> QED BY <1>1, <2>1, OlderType
<1>8. CASE Clear
  <2>1. UNCHANGED <<pc, slot>>
    BY <1>8 DEF Clear, localVars
  <2>2. dns_cache'[i] = dns_cache[i] \/ dns_cache'[i] = Empty
    BY <1>1, <1>8 DEF Clear
  <2>3. ~Empty.valid
    BY DEF Empty
  <2> QED BY <2>1, <2>2, <2>3
<1>9. CASE StartTask
  <2>1. UNCHANGED <<dns_cache, slot>> /\ pc # "store"
    BY <1>9, SoundBack DEF StartTask, localVars, Using
  <2> QED BY <2>1
<1> QED
  BY <1>2, <1>3, <1>4, <1>5, <1>6, <1>7, <1>8, <1>9 DEF Next, TaskStep

LEMMA TruthStep ==
  ASSUME Types, Answer, Half, Truth, Gone, Next, Sound'
  PROVE  Truth'
<1>1. CASE ~StoreRest
  <2> SUFFICES ASSUME NEW i \in Slots, Whole(i)'
               PROVE  /\ dns_cache'[i].query \in Questions
                      /\ dns_cache'[i].hash = Hash[dns_cache'[i].query]
                      /\ dns_cache'[i].reply =
                           [q |-> dns_cache'[i].query, from |-> "upstream"]
                      /\ \A j \in Slots :
                           Whole(j)' /\ dns_cache'[j].query = dns_cache'[i].query
                             => i = j
    BY DEF Truth
  <2>1. /\ Whole(i)
        /\ dns_cache'[i].query = dns_cache[i].query
        /\ dns_cache'[i].hash = dns_cache[i].hash
        /\ dns_cache'[i].reply = dns_cache[i].reply
    BY <1>1, Kept
  <2>2. ASSUME NEW j \in Slots, Whole(j)', dns_cache'[j].query = dns_cache'[i].query
        PROVE  i = j
    <3>1. Whole(j) /\ dns_cache'[j].query = dns_cache[j].query
      BY <1>1, <2>2, Kept
    <3> QED BY <2>1, <2>2, <3>1 DEF Truth
  <2> QED BY <2>1, <2>2 DEF Truth
<1>2. CASE StoreRest
  <2>0. dns_cache \in [Slots -> Entries] /\ slot \in Slots /\ query.q \in Questions
    BY <1>2 DEF StoreRest, Types, TypeOK, HasQuery, Active, Queries
  <2>1. dns_cache' = [dns_cache EXCEPT ![slot] =
          [dns_cache[slot] EXCEPT !.query = query.q, !.reply = reply]]
    BY <1>2, <2>0 DEF StoreRest, Entries
  <2>2. /\ dns_cache'[slot].query = query.q /\ dns_cache'[slot].reply = reply
        /\ dns_cache'[slot].hash = dns_cache[slot].hash
    BY <2>0, <2>1 DEF Entries
  <2>3. /\ reply = [q |-> query.q, from |-> "upstream"]
        /\ dns_cache[slot].hash = Hash[query.q]
    BY <1>2 DEF StoreRest, Answer, Half
  <2>4. ASSUME NEW i \in Slots, i # slot, Whole(i)'
        PROVE  Whole(i) /\ dns_cache'[i] = dns_cache[i] /\ dns_cache[i].query # query.q
    <3>1. dns_cache'[i] = dns_cache[i]
      BY <2>0, <2>1, <2>4
    <3>2. Whole(i)
      BY <1>2, <2>4, <3>1 DEF Whole, StoreRest
    <3> QED BY <1>2, <3>1, <3>2 DEF StoreRest, Gone
  <2>5. ASSUME NEW i \in Slots, Whole(i)'
        PROVE  /\ dns_cache'[i].query \in Questions
               /\ dns_cache'[i].hash = Hash[dns_cache'[i].query]
               /\ dns_cache'[i].reply =
                    [q |-> dns_cache'[i].query, from |-> "upstream"]
    <3>1. CASE i = slot
      BY <2>0, <2>2, <2>3, <3>1
    <3>2. CASE i # slot
      BY <2>4, <2>5, <3>2 DEF Truth
    <3> QED BY <3>1, <3>2
  <2>6. ASSUME NEW i \in Slots, NEW j \in Slots, Whole(i)', Whole(j)',
               dns_cache'[j].query = dns_cache'[i].query
        PROVE  i = j
    <3>1. CASE i = slot \/ j = slot
      BY <2>2, <2>4, <2>6, <3>1
    <3>2. CASE i # slot /\ j # slot
      BY <2>4, <2>6, <3>2 DEF Truth
    <3> QED BY <3>1, <3>2
  <2> QED BY <2>5, <2>6 DEF Truth
<1> QED BY <1>1, <1>2

\* A lookup that finds nothing leaves nothing of the question.
LEMMA Missed ==
  ASSUME Types, Truth, Lookup, pc' = "forward", NEW i \in Slots, Whole(i)'
  PROVE  dns_cache'[i].query # query.q
<1>1. dns_cache \in [Slots -> Entries]
  BY DEF Types, TypeOK
<1>2. Hits(query.q) = {} /\ dns_cache' = Swept(query.q)
  BY DEF Lookup, Goto
<1>3. /\ dns_cache'[i].query = dns_cache[i].query
      /\ dns_cache'[i].valid /\ dns_cache[i].valid
  BY <1>1, <1>2, SweptType DEF Whole
<1>4. SUFFICES ASSUME dns_cache[i].query = query.q PROVE FALSE
  BY <1>3
<1>5. Candidate(dns_cache[i], query.q)
  BY <1>3, <1>4 DEF Truth, Whole, Lookup, Candidate
<1>6. Expired(dns_cache[i])
  BY <1>2, <1>4, <1>5 DEF Hits, SameQuestion
<1>7. dns_cache'[i] = [dns_cache[i] EXCEPT !.valid = FALSE]
  BY <1>2, <1>5, <1>6 DEF Swept, Passed
<1> QED BY <1>1, <1>3, <1>7 DEF Entries

LEMMA GoneStep ==
  ASSUME Types, Truth, Gone, Next, Sound'
  PROVE  Gone'
<1> SUFFICES ASSUME pc' \in {"forward", "wait", "storing", "store"},
                    NEW i \in Slots, Whole(i)'
             PROVE  dns_cache'[i].query # query'.q
  BY DEF Gone
<1>1. CASE Lookup
  <2>1. pc' = "forward" /\ query' = query
    BY <1>1 DEF Lookup, Goto
  <2> QED BY <1>1, <2>1, Missed
<1>2. CASE ~Lookup
  <2>1. /\ pc \in {"forward", "wait", "storing", "store"}
        /\ query' = query /\ ~StoreRest
    <3>1. ~Receive /\ ~Proxy /\ ~Copy /\ ~Send /\ ~Timeout /\ ~StoreRest
      BY DEF Receive, Proxy, Copy, Send, Timeout, StoreRest, AnswerCaptive, Goto
    <3>2. CASE Forward \/ TakeReply \/ StoreHead
      BY <3>1, <3>2 DEF Forward, TakeReply, StoreHead
    <3>3. CASE Arrive \/ Tick \/ StartClear \/ Clear
      BY <3>1, <3>3 DEF Arrive, Tick, StartClear, Clear, localVars
    <3>4. CASE StartTask
      BY <3>1, <3>4 DEF StartTask, Goto, localVars
    <3> QED BY <1>2, <3>1, <3>2, <3>3, <3>4 DEF Next, TaskStep
  <2>2. Whole(i) /\ dns_cache'[i].query = dns_cache[i].query
    BY <2>1, Kept
  <2> QED BY <2>1, <2>2 DEF Gone
<1> QED BY <1>1, <1>2

LEMMA IInvInit == Init => IInv
<1> SUFFICES ASSUME Init PROVE IInv
  OBVIOUS
<1>1. SInv
  BY DEF Init, SInv, Flight, Answer, Found, Half, Truth, Gone, Whole, Active, Empty
<1> QED BY <1>1, TypesInit DEF IInv

LEMMA IInvStep == IInv /\ [Next]_vars => IInv'
<1> SUFFICES ASSUME IInv, [Next]_vars PROVE IInv'
  OBVIOUS
<1>1. Types'
  BY TypesStep DEF IInv
<1>2. ASSUME Sound' PROVE SInv'
  <2>1. CASE UNCHANGED vars
    <3> USE <2>1 DEF vars, cacheVars, localVars, netVars, watchVars
    <3>1. SInv
      BY <1>2 DEF IInv, Sound
    <3>2. Flight' /\ Answer' /\ Found' /\ Half'
      BY <3>1 DEF SInv, Flight, Flying, Answer, Found, Half
    <3>3. Truth' /\ Gone'
      BY <3>1 DEF SInv, Truth, Gone, Whole
    <3> QED BY <3>2, <3>3 DEF SInv
  <2>2. CASE Next
    <3>1. SInv
      BY <1>2, <2>2, SoundBack DEF IInv
    <3> QED BY <1>2, <2>2, <3>1, FlightStep, AnswerStep, FoundStep, TruthStep, GoneStep
               DEF IInv, SInv
  <2> QED BY <2>1, <2>2
<1> QED BY <1>1, <1>2 DEF IInv

LEMMA Invariance == Spec => []IInv
  BY IInvInit, IInvStep, PTL DEF Spec

-----------------------------------------------------------------------------
\* The types, for any cache, questions and clock.
THEOREM TypeCorrect == Spec => []TypeOK
<1>1. IInv => TypeOK
  BY DEF IInv, Types
<1> QED BY Invariance, <1>1, PTL

\* dns_server_task() sends the answer to the question it received, whatever came
\* late and whatever was cleared.
THEOREM RightAnswerCorrect == Spec => []RightAnswer
<1>1. IInv => RightAnswer
  BY DEF IInv, SInv, Answer, RightAnswer
<1> QED BY Invariance, <1>1, PTL

\* dns_cache_lookup() and dns_cache_store() keep the cache true, and each
\* question in it once, for every size and every hash.
THEOREM CacheCorrect == Spec => []CacheTruth
<1>1. IInv => CacheTruth
  BY DEF IInv, SInv, Truth, CacheTruth
<1> QED BY Invariance, <1>1, PTL

-----------------------------------------------------------------------------
(* How old an answer is.                                                   *)

\* Until an unused entry's clock has gone all the way round, its 32-bit age is
\* the time since it was stored, as far as that is kept.
Dated ==
  "wrapped" \notin lapses => \A i \in Slots : dns_cache[i].valid =>
    dns_cache[i].since = IF dns_cache[i].age > Ttl THEN Ttl + 1 ELSE dns_cache[i].age

LEMMA ModSmall ==
  ASSUME NEW a \in Nat, NEW w \in Nat, a < w
  PROVE  a % w = a
  BY SMT

LEMMA OlderDated ==
  ASSUME NEW e \in Entries, e.valid, e.age + 1 # Wrap,
         e.since = IF e.age > Ttl THEN Ttl + 1 ELSE e.age
  PROVE  LET o == Older(e) IN
           o.since = IF o.age > Ttl THEN Ttl + 1 ELSE o.age
<1>1. e.age \in 0..(Wrap - 1) /\ Wrap \in Nat /\ Ttl \in Nat /\ Wrap > Ttl + 1
  BY CacheAssumption DEF Entries
<1>2. e.age + 1 \in Nat /\ e.age + 1 < Wrap
  BY <1>1
<1>3. (e.age + 1) % Wrap = e.age + 1
  BY <1>1, <1>2, ModSmall
<1>4. Older(e).age = e.age + 1
  BY <1>3 DEF Older, Entries
<1>5. Older(e).since = IF e.since > Ttl THEN e.since ELSE e.since + 1
  BY DEF Older, Entries
<1> QED BY <1>1, <1>4, <1>5

LEMMA DatedStep == TypeOK /\ Dated /\ [Next]_vars => Dated'
<1> SUFFICES ASSUME TypeOK, Dated, [Next]_vars, "wrapped" \notin lapses',
                    NEW i \in Slots, dns_cache'[i].valid
             PROVE  dns_cache'[i].since =
                      IF dns_cache'[i].age > Ttl THEN Ttl + 1 ELSE dns_cache'[i].age
  BY DEF Dated
<1>1. dns_cache \in [Slots -> Entries] /\ Ttl \in Nat
  BY CacheAssumption DEF TypeOK
<1>2. lapses \subseteq lapses'
  BY DEF Next, TaskStep, Receive, Proxy, Lookup, Copy, Forward, TakeReply, Timeout,
         StoreHead, StoreRest, Send, Arrive, Tick, StartClear, Clear, StartTask,
         Touch, vars
<1>3. dns_cache[i].valid =>
        dns_cache[i].since = IF dns_cache[i].age > Ttl THEN Ttl + 1 ELSE dns_cache[i].age
  BY <1>2 DEF Dated
<1>4. CASE dns_cache' = dns_cache
  BY <1>3, <1>4
<1>5. CASE Tick
  <2>1. dns_cache'[i] = Older(dns_cache[i])
    BY <1>5 DEF Tick
  <2>2. dns_cache[i].valid
    BY <1>1, <2>1 DEF Older, Entries
  <2>3. dns_cache[i].age + 1 # Wrap
    BY <1>5, <2>2 DEF Tick
  <2> QED BY <1>1, <1>3, <2>1, <2>2, <2>3, OlderDated
<1>6. CASE Lookup
  <2>1. dns_cache'[i] \in {dns_cache[i], [dns_cache[i] EXCEPT !.valid = FALSE]}
    BY <1>6 DEF Lookup, Swept
  <2>2. dns_cache'[i] = dns_cache[i]
    BY <1>1, <2>1 DEF Entries
  <2> QED BY <1>3, <2>2
<1>7. CASE StoreHead
  <2>1. CASE i = dns_cache_next
    <3>1. dns_cache'[i] = [dns_cache[i] EXCEPT !.valid = TRUE, !.hash = Hash[query.q],
                                              !.age = 0, !.since = 0]
      BY <1>1, <1>7, <2>1 DEF StoreHead
    <3>2. dns_cache'[i].age = 0 /\ dns_cache'[i].since = 0
      BY <1>1, <3>1 DEF Entries
    <3> QED BY <1>1, <3>2
  <2>2. CASE i # dns_cache_next
    <3>1. dns_cache'[i] = dns_cache[i]
      BY <1>1, <1>7, <2>2 DEF StoreHead
    <3> QED BY <1>3, <3>1
  <2> QED BY <2>1, <2>2
<1>8. CASE StoreRest
  <2>1. /\ dns_cache'[i].valid = dns_cache[i].valid
        /\ dns_cache'[i].age = dns_cache[i].age
        /\ dns_cache'[i].since = dns_cache[i].since
    BY <1>1, <1>8 DEF StoreRest, Entries
  <2> QED BY <1>3, <2>1
<1>9. CASE Clear
  <2>1. dns_cache'[i] \in {dns_cache[i], Empty}
    BY <1>1, <1>9 DEF Clear
  <2> QED BY <1>3, <2>1 DEF Empty
<1> QED BY <1>4, <1>5, <1>6, <1>7, <1>8, <1>9
     DEF Next, TaskStep, Receive, Proxy, Copy, Forward, TakeReply, Timeout, Send,
         Arrive, StartClear, StartTask, cacheVars, vars

\* What dns_cache_lookup() finds is at most 60 s old, for every size, lifetime and
\* width of the clock, unless the clock has gone round with the entry unused.
THEOREM FreshCorrect == Spec => FreshAnswers
<1>1. Init => Dated
  BY DEF Init, Dated, Empty
<1>2. TypeOK /\ Dated /\ [Next]_vars =>
        [pc = "lookup" /\ pc' = "copy" /\ "wrapped" \notin lapses
           => dns_cache[slot'].since <= Ttl]_vars
  <2> SUFFICES ASSUME TypeOK, Dated, Next, pc = "lookup", pc' = "copy",
                      "wrapped" \notin lapses
               PROVE  dns_cache[slot'].since <= Ttl
    OBVIOUS
  <2>1. Lookup
    BY DEF Next, TaskStep, Receive, Proxy, Copy, Forward, TakeReply, Timeout,
           StoreHead, StoreRest, Send, Arrive, Tick, StartClear, Clear, StartTask,
           localVars, Goto
  <2>2. slot' \in Hits(query.q)
    BY <2>1 DEF Lookup, Goto
  <2>3. /\ slot' \in Slots /\ dns_cache[slot'].valid /\ ~Expired(dns_cache[slot'])
    BY <2>2 DEF Hits, Candidate
  <2>4. dns_cache[slot'].age \in 0..(Wrap - 1)
    BY <2>3 DEF TypeOK, Entries
  <2>5. ~(dns_cache[slot'].age > Ttl)
    BY <2>3 DEF Expired
  <2>6. dns_cache[slot'].since = dns_cache[slot'].age
    BY <2>3, <2>5 DEF Dated
  <2> QED BY CacheAssumption, <2>4, <2>5, <2>6
<1> QED BY TypeCorrect, DatedStep, <1>1, <1>2, PTL DEF Spec, FreshAnswers

-----------------------------------------------------------------------------
(* Which replies are passed over.                                          *)

\* Until a reply was late there is at most one under way, and it is for the
\* query that is waited for.
OneAsked ==
  "late" \notin lapses =>
    /\ why # "mismatch"
    /\ pc = "wait" => \/ asked = {query} /\ arrived = <<>>
                      \/ asked = {} /\ arrived = <<>>
                      \/ asked = {} /\ arrived = <<query>>
    /\ pc # "wait" => asked = {} /\ arrived = <<>>

LEMMA OneAskedStep == Types /\ OneAsked /\ [Next]_vars => OneAsked'
<1> SUFFICES ASSUME Types, OneAsked, [Next]_vars, "late" \notin lapses' PROVE OneAsked'
  BY DEF OneAsked
<1>1. "late" \notin lapses
  BY DEF Next, TaskStep, Receive, Proxy, Lookup, Copy, Forward, TakeReply, Timeout,
         StoreHead, StoreRest, Send, Arrive, Tick, StartClear, Clear, StartTask,
         Touch, vars
<1> USE <1>1 DEF OneAsked
<1>2. CASE UNCHANGED vars
  BY <1>2 DEF vars, localVars, netVars
<1>3. CASE Receive \/ Proxy \/ Lookup \/ Copy \/ StoreHead \/ StoreRest \/ Send
  BY <1>3 DEF Receive, Proxy, Lookup, Copy, StoreHead, StoreRest, Send, AnswerCaptive,
              Goto, localVars, netVars
<1>4. CASE Forward
  BY <1>4 DEF Forward, AnswerCaptive, Goto
<1>5. CASE TakeReply
  <2>1. asked = {} /\ arrived = <<query>>
    BY <1>5 DEF TakeReply
  <2>2. Head(arrived) = query /\ Tail(arrived) = <<>>
    BY <2>1
  <2> QED BY <1>5, <2>1, <2>2 DEF TakeReply, Accept, Received, Goto
<1>6. CASE Timeout
  <2>1. asked = {}
    BY <1>6 DEF Timeout
  <2> QED BY <1>6, <2>1 DEF Timeout, AnswerCaptive, Goto, netVars
<1>7. CASE Arrive
  <2>1. PICK d \in asked : /\ asked' = asked \ {d}
                           /\ arrived' = Append(arrived, d) \/ arrived' = arrived
    BY <1>7 DEF Arrive
  <2>2. pc = "wait" /\ asked = {query} /\ arrived = <<>> /\ d = query
    BY <2>1
  <2>3. asked' = {} /\ (arrived' = <<query>> \/ arrived' = <<>>)
    BY <2>1, <2>2
  <2>4. pc' = pc /\ query' = query /\ why' = why
    BY <1>7 DEF Arrive, localVars
  <2> QED BY <2>2, <2>3, <2>4
<1>8. CASE Tick \/ StartClear \/ Clear
  BY <1>8 DEF Tick, StartClear, Clear, localVars, netVars
<1>9. CASE StartTask
  BY <1>9 DEF StartTask, Goto, localVars, netVars
<1> QED BY <1>2, <1>3, <1>4, <1>5, <1>6, <1>7, <1>8, <1>9 DEF Next, TaskStep

\* dns_forward() passes over a reply that upstream sent only after one that came
\* too late, for any number of questions and replies.
THEOREM NoMismatchCorrect == Spec => []NoMismatchUnlessLate
<1>1. Init => OneAsked
  BY DEF Init, OneAsked
<1>2. OneAsked => NoMismatchUnlessLate
  BY DEF OneAsked, NoMismatchUnlessLate
<1>3. IInv => Types
  BY DEF IInv
<1> QED BY Invariance, OneAskedStep, <1>1, <1>2, <1>3, PTL DEF Spec
=============================================================================
