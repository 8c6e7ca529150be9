--------------------------- MODULE StorageProofs ---------------------------
(***************************************************************************)
(* Proofs about what is kept in flash.                                     *)
(*                                                                         *)
(* NvsNetworks, for any names, passwords and list length: the two keys     *)
(* agree after a change that nothing disturbed, a load that no write fell  *)
(* into finds what that change left, only a torn save leaves junk, and a   *)
(* power cut in an add loses no other network.                             *)
(*                                                                         *)
(* Clipboard, for any texts, ring and list of favourites: no number is     *)
(* given twice, so no link ever names another clip; flash has what memory  *)
(* has unless a save failed; and no clip goes but as it was asked to, or   *)
(* as the oldest of a full ring.                                           *)
(***************************************************************************)
EXTENDS NvsNetworks, Clipboard, SequenceTheorems, WellFoundedInduction, TLAPS

\* A save that nothing has disturbed so far has its count in flash.
SavePending ==
  http = "write_blob" /\ since = {} =>
    net_count = Len(list) /\ worker # "erase"

\* A forget that nothing has disturbed so far has erased the count.
ErasePending ==
  worker = "erase" /\ lapses = {} /\ http # "write_blob" => net_count = None

\* What the worker read of the count still holds.
LoadPending ==
  worker \in {"blob", "loaded"} /\ ~overlapped =>
    /\ http # "write_blob"
    /\ worker = "blob" => wk_count = net_count /\ net_count \notin {None, 0}

IInv == /\ TypeOK /\ StoredWhole /\ SavePending /\ ErasePending
        /\ LoadPending /\ LoadFindsSaved

-----------------------------------------------------------------------------
(* The operators on lists.                                                 *)

LEMMA FunctionIsSeq ==
  ASSUME NEW n \in Nat, NEW S, NEW f \in [1..n -> S]
  PROVE  f \in Seq(S) /\ Len(f) = n
OBVIOUS

\* A load yields a list of at most as many entries as the count says.
LEMMA LoadType ==
  ASSUME NEW c \in {None} \cup 0..MaxSaved, NEW b, b = None \/ IsList(b),
         NEW l \in LoadResults(c, b)
  PROVE  IsList(l)
<1>1. <<>> \in Seq(Entries) /\ Len(<<>>) = 0
  OBVIOUS
<1>2. 0 <= MaxSaved
  BY NvsAssumption
<1>3. CASE c \in {None, 0} \/ b = None
  BY <1>1, <1>2, <1>3 DEF LoadResults, IsList
<1>4. CASE ~(c \in {None, 0} \/ b = None)
  <2>1. c \in Nat /\ c <= MaxSaved /\ b \in Seq(Entries) /\ Len(b) \in Nat
    BY <1>4, NvsAssumption DEF IsList
  <2>2. CASE Len(b) > c
    BY <1>4, <2>2, <1>1, <1>2 DEF LoadResults, IsList
  <2>3. CASE ~(Len(b) > c)
    <3>1. PICK rest \in [1..(c - Len(b)) -> Entries] : l = b \o rest
      BY <1>4, <2>3 DEF LoadResults
    <3>2. c - Len(b) \in Nat
      BY <2>1, <2>3
    <3>3. rest \in Seq(Entries) /\ Len(rest) = c - Len(b)
      BY <3>1, <3>2, FunctionIsSeq
    <3>4. l \in Seq(Entries) /\ Len(l) = Len(b) + Len(rest)
      BY <2>1, <3>1, <3>3
    <3> QED BY <2>1, <3>2, <3>3, <3>4 DEF IsList
  <2> QED BY <2>2, <2>3
<1> QED BY <1>3, <1>4

\* A load of a count and the blob that belongs to it yields that blob.
LEMMA LoadWhole ==
  ASSUME NEW b \in Seq(Entries), NEW l \in LoadResults(Len(b), b),
         Len(b) # 0
  PROVE  l = b
<1>1. Len(b) \in Nat /\ Len(b) \notin {None, 0} /\ ~(Len(b) > Len(b)) /\ b # None
  BY NvsAssumption
<1>2. PICK rest \in [1..(Len(b) - Len(b)) -> Entries] : l = b \o rest
  BY <1>1 DEF LoadResults
<1>3. Len(b) - Len(b) = 0
  BY <1>1
<1>4. rest \in Seq(Entries) /\ Len(rest) = 0
  BY <1>2, <1>3, FunctionIsSeq
<1> QED BY <1>2, <1>4, EmptySeq, ConcatEmptySeq

\* A change of a list of entries is one, of at most MaxSaved when accepted.
LEMMA ChangedType ==
  ASSUME NEW l, IsList(l), NEW o \in Ops, Accepted(l, o)
  PROVE  IsList(Changed(l, o))
<1>1. l \in Seq(Entries) /\ Len(l) \in 0..MaxSaved /\ MaxSaved \in Nat
  BY NvsAssumption DEF IsList
<1>2. CASE o.kind = "add"
  <2>1. o.net \in Entries
    BY <1>2 DEF Ops, Entries
  <2>2. CASE Known(l, o.net)
    <3> DEFINE k == CHOOSE i \in DOMAIN l :
                      /\ l[i].ssid = o.net.ssid
                      /\ \A j \in 1..(i - 1) : l[j].ssid # o.net.ssid
               new == [l EXCEPT ![k] = o.net]
    <3>1. Added(l, o.net) = new
      BY <2>2 DEF Added
    <3>2. l \in [1..Len(l) -> Entries]
      BY <1>1
    <3> HIDE DEF k
    <3>3. new \in [1..Len(l) -> Entries]
      BY <3>2, <2>1
    <3>4. new \in Seq(Entries) /\ Len(new) = Len(l)
      BY <1>1, <3>3, FunctionIsSeq
    <3> QED BY <1>1, <1>2, <3>1, <3>4 DEF Changed, IsList
  <2>3. CASE ~Known(l, o.net)
    <3>1. Added(l, o.net) \in Seq(Entries) /\ Len(Added(l, o.net)) = Len(l) + 1
      BY <1>1, <2>1, <2>3, AppendProperties DEF Added
    <3>2. Len(l) < MaxSaved
      BY <1>2, <2>3 DEF Accepted
    <3> QED BY <1>1, <1>2, <3>1, <3>2 DEF Changed, IsList
  <2> QED BY <2>2, <2>3
<1>3. CASE o.kind = "remove"
  <2>1. o.index \in 1..Len(l)
    BY <1>3, <1>1 DEF Ops, Accepted
  <2> DEFINE front == SubSeq(l, 1, o.index - 1)
             back == SubSeq(l, o.index + 1, Len(l))
  <2>2. front \in Seq(Entries) /\ Len(front) = o.index - 1
    BY <1>1, <2>1
  <2>3. back \in Seq(Entries) /\ Len(back) = Len(l) - o.index
    BY <1>1, <2>1
  <2>4. RemoveAt(l, o.index) = front \o back
    BY DEF RemoveAt
  <2> HIDE DEF front, back
  <2>5. front \o back \in Seq(Entries)
        /\ Len(front \o back) = Len(front) + Len(back)
    BY <2>2, <2>3, ConcatProperties
  <2> QED BY <1>1, <1>3, <2>1, <2>2, <2>3, <2>4, <2>5 DEF Changed, IsList
<1> QED BY <1>2, <1>3 DEF Ops

-----------------------------------------------------------------------------
LEMMA TypeStep ==
  ASSUME TypeOK, [Next]_vars
  PROVE  TypeOK'
<1> USE DEF TypeOK
<1>1. IsList(<<>>)
  BY NvsAssumption DEF IsList
<1>2. CASE \E o \in Ops : Request(o)
  BY <1>1, <1>2 DEF Request, workerVars, history
<1>3. CASE LoadBlob
  <2>1. IsList(list')
    BY <1>3, LoadType DEF LoadBlob
  <2> QED BY <1>3, <2>1 DEF LoadBlob, workerVars, history
<1>4. CASE Refused
  BY <1>4 DEF Refused, workerVars, history
<1>5. CASE WriteCount
  <2>1. IsList(list')
    BY <1>5, ChangedType DEF WriteCount
  <2>2. net_count' \in {None} \cup 0..MaxSaved
    BY <1>5, <2>1, NvsAssumption DEF WriteCount, IsList
  <2>3. since' \in SUBSET {"race", "failed"} /\ torn' \in BOOLEAN
    BY <1>5 DEF WriteCount
  <2>4. overlapped' \in BOOLEAN
    BY <1>5 DEF WriteCount, Overlap
  <2> QED BY <1>5, <2>1, <2>2, <2>3, <2>4 DEF WriteCount
<1>6. CASE WriteBlob
  <2>1. net_blob' = None \/ IsList(net_blob')
    BY <1>6 DEF WriteBlob
  <2>2. lapses' \in SUBSET {"race", "failed", "crash"} /\ torn' \in BOOLEAN
    BY <1>6 DEF WriteBlob
  <2>3. overlapped' \in BOOLEAN
    BY <1>6 DEF WriteBlob, Overlap
  <2> QED BY <1>6, <2>1, <2>2, <2>3 DEF WriteBlob
<1>7. CASE WorkerLoadCount
  BY <1>1, <1>7 DEF WorkerLoadCount, httpVars, history
<1>8. CASE WorkerLoadBlob
  <2>1. IsList(wk_list')
    BY <1>8, LoadType DEF WorkerLoadBlob
  <2> QED BY <1>8, <2>1 DEF WorkerLoadBlob, httpVars, history
<1>9. CASE WorkerUses
  BY <1>1, <1>9 DEF WorkerUses, httpVars, history
<1>10. CASE EraseCount
  <2>1. since' \in SUBSET {"race", "failed"}
    BY <1>10 DEF EraseCount
  <2>2. lapses' \in SUBSET {"race", "failed", "crash"}
    BY <1>10 DEF EraseCount
  <2> QED BY <1>10, <2>1, <2>2 DEF EraseCount, httpVars
<1>11. CASE EraseBlob
  BY <1>1, <1>11 DEF EraseBlob, httpVars
<1>12. CASE Crash
  <2>1. lapses' \in SUBSET {"race", "failed", "crash"} /\ torn' \in BOOLEAN
    BY <1>12 DEF Crash
  <2> QED BY <1>1, <1>12, <2>1 DEF Crash
<1>13. CASE UNCHANGED vars
  BY <1>13 DEF vars, httpVars, workerVars, history
<1> QED BY <1>2, <1>3, <1>4, <1>5, <1>6, <1>7, <1>8, <1>9, <1>10, <1>11, <1>12,
           <1>13 DEF Next

\* The pending parts tell a save and a forget that end what they found.
LEMMA PendingStep ==
  ASSUME TypeOK, SavePending, ErasePending, [Next]_vars
  PROVE  SavePending' /\ ErasePending'
<1>1. CASE (\E o \in Ops : Request(o)) \/ LoadBlob \/ Refused
  BY <1>1 DEF SavePending, ErasePending, Request, LoadBlob, Refused, workerVars,
              history
<1>2. CASE WriteCount
  BY <1>2 DEF SavePending, ErasePending, WriteCount
<1>3. CASE WriteBlob
  BY <1>3 DEF SavePending, ErasePending, WriteBlob
<1>4. CASE WorkerLoadCount \/ WorkerLoadBlob \/ WorkerUses
  BY <1>4 DEF SavePending, ErasePending, WorkerLoadCount, WorkerLoadBlob,
              WorkerUses, httpVars, history
<1>5. CASE EraseCount \/ EraseBlob
  BY <1>5 DEF SavePending, ErasePending, EraseCount, EraseBlob, httpVars
<1>6. CASE Crash
  BY <1>6 DEF SavePending, ErasePending, Crash
<1>7. CASE UNCHANGED vars
  BY <1>7 DEF SavePending, ErasePending, vars, httpVars, workerVars, history
<1> QED BY <1>1, <1>2, <1>3, <1>4, <1>5, <1>6, <1>7 DEF Next

LEMMA WholeStep ==
  ASSUME TypeOK, StoredWhole, SavePending, ErasePending, [Next]_vars
  PROVE  StoredWhole'
<1>1. CASE (\E o \in Ops : Request(o)) \/ LoadBlob \/ Refused
  BY <1>1 DEF StoredWhole, Request, LoadBlob, Refused, workerVars, history
<1>2. CASE WriteCount
  BY <1>2 DEF StoredWhole, WriteCount
<1>3. CASE WriteBlob
  <2> SUFFICES ASSUME lapses' = {}
               PROVE  IF saved' = <<>> THEN net_count' \in {None, 0}
                      ELSE net_count' = Len(saved') /\ net_blob' = saved'
    BY DEF StoredWhole
  <2>1. since = {} /\ net_blob' = IF list = <<>> THEN None ELSE list
    BY <1>3 DEF WriteBlob
  <2>2. net_count' = Len(list) /\ saved' = list
    BY <1>3, <2>1 DEF WriteBlob, SavePending
  <2> QED BY <2>1, <2>2
<1>4. CASE WorkerLoadCount \/ WorkerLoadBlob \/ WorkerUses
  BY <1>4 DEF StoredWhole, WorkerLoadCount, WorkerLoadBlob, WorkerUses, httpVars,
              history
<1>5. CASE EraseCount \/ EraseBlob
  BY <1>5 DEF StoredWhole, ErasePending, EraseCount, EraseBlob, httpVars
<1>6. CASE Crash
  BY <1>6 DEF StoredWhole, Crash
<1>7. CASE UNCHANGED vars
  BY <1>7 DEF StoredWhole, vars, httpVars, workerVars, history
<1> QED BY <1>1, <1>2, <1>3, <1>4, <1>5, <1>6, <1>7 DEF Next

LEMMA LoadStep ==
  ASSUME TypeOK, StoredWhole, LoadPending, LoadFindsSaved, [Next]_vars
  PROVE  LoadPending' /\ LoadFindsSaved'
<1>1. CASE (\E o \in Ops : Request(o)) \/ LoadBlob \/ Refused
  BY <1>1 DEF LoadPending, LoadFindsSaved, Request, LoadBlob, Refused, workerVars,
              history
<1>2. CASE WriteCount \/ WriteBlob
  BY <1>2 DEF LoadPending, LoadFindsSaved, WriteCount, WriteBlob, Overlap, TypeOK
<1>3. CASE WorkerLoadCount
  <2>1. /\ overlapped' = (http = "write_blob") /\ http' = http
        /\ worker = "idle" /\ wk_count' = net_count /\ net_count' = net_count
        /\ lapses' = lapses /\ saved' = saved /\ wk_list' = <<>>
        /\ worker' = IF net_count \in {None, 0} THEN "loaded" ELSE "blob"
    BY <1>3 DEF WorkerLoadCount, httpVars, history
  <2>2. LoadPending'
    BY <2>1 DEF LoadPending
  <2>3. ASSUME worker' = "loaded", ~overlapped', lapses' = {} PROVE saved = <<>>
    <3>1. net_count \in {None, 0} /\ http # "write_blob" /\ lapses = {}
      BY <2>1, <2>3
    <3>2. saved \in Seq(Entries) /\ Len(saved) \in Nat /\ None \notin Nat
      BY NvsAssumption DEF TypeOK, IsList
    <3>3. CASE saved # <<>>
      <4>1. net_count = Len(saved)
        BY <2>1, <3>1, <3>3 DEF StoredWhole
      <4> QED BY <3>1, <3>2, <3>3, <4>1, EmptySeq
    <3> QED BY <3>3
  <2> QED BY <2>1, <2>2, <2>3 DEF LoadFindsSaved
<1>4. CASE WorkerLoadBlob
  <2>1. LoadPending'
    BY <1>4 DEF LoadPending, WorkerLoadBlob, httpVars, history
  <2>2. ASSUME ~overlapped, lapses = {} PROVE wk_list' = saved
    <3>1. wk_count = net_count /\ net_count \notin {None, 0} /\ http # "write_blob"
      BY <1>4, <2>2 DEF LoadPending, WorkerLoadBlob
    <3>2. net_count = Len(saved) /\ net_blob = saved
      BY <1>4, <2>2, <3>1 DEF StoredWhole, WorkerLoadBlob
    <3>3. wk_list' \in LoadResults(Len(saved), saved) /\ Len(saved) # 0
      BY <1>4, <3>1, <3>2 DEF WorkerLoadBlob
    <3> QED BY <3>3, LoadWhole DEF TypeOK, IsList
  <2> QED BY <1>4, <2>1, <2>2 DEF LoadFindsSaved, WorkerLoadBlob, history
<1>5. CASE WorkerUses \/ EraseCount \/ EraseBlob
  BY <1>5 DEF LoadPending, LoadFindsSaved, WorkerUses, EraseCount, EraseBlob
<1>6. CASE Crash
  BY <1>6 DEF LoadPending, LoadFindsSaved, Crash
<1>7. CASE UNCHANGED vars
  BY <1>7 DEF LoadPending, LoadFindsSaved, vars, httpVars, workerVars, history
<1> QED BY <1>1, <1>2, <1>3, <1>4, <1>5, <1>6, <1>7 DEF Next

LEMMA IInvInit == Init => IInv
<1> SUFFICES ASSUME Init PROVE IInv
  OBVIOUS
<1>1. IsList(<<>>)
  BY NvsAssumption DEF IsList
<1>2. op \in Ops
  BY NvsAssumption DEF Init, Ops
<1>3. TypeOK
  BY <1>1, <1>2 DEF Init, TypeOK
<1>4. StoredWhole /\ SavePending /\ ErasePending /\ LoadPending /\ LoadFindsSaved
  BY DEF Init, StoredWhole, SavePending, ErasePending, LoadPending, LoadFindsSaved
<1> QED BY <1>3, <1>4 DEF IInv

LEMMA IInvInductive == Spec => []IInv
<1>1. IInv /\ [Next]_vars => IInv'
  BY TypeStep, PendingStep, WholeStep, LoadStep DEF IInv
<1> QED BY <1>1, IInvInit, PTL DEF Spec

\* Every variable has its type; no list ever holds more than MaxSaved entries.
THEOREM TypeCorrect == Spec => []TypeOK
<1>1. IInv => TypeOK
  BY DEF IInv
<1> QED BY <1>1, IInvInductive, PTL

\* After a change that nothing disturbed (nvs_storage.c:34) the two keys agree
\* with each other and with it, whatever happened before.
THEOREM StoredCorrect == Spec => []StoredWhole
<1>1. IInv => StoredWhole
  BY DEF IInv
<1> QED BY <1>1, IInvInductive, PTL

\* A load (nvs_storage.c:10) that no write fell into finds the saved list.
THEOREM LoadCorrect == Spec => []LoadFindsSaved
<1>1. IInv => LoadFindsSaved
  BY DEF IInv
<1> QED BY <1>1, IInvInductive, PTL

-----------------------------------------------------------------------------
(* What is left of a change that was crossed or cut. Only the HTTP task    *)
(* writes a list; so a count that it reads is that of the blob it finds,   *)
(* or there is none, unless one of its own saves was torn.                 *)

Clean(l) ==
  \A i, j \in DOMAIN l : l[i] # Junk /\ (i # j => l[i].ssid # l[j].ssid)

Neat ==
  /\ net_blob # None => Clean(net_blob)
  /\ http \in {"write_count", "write_blob"} => Clean(list)
  /\ http # "write_blob" =>
       net_count \in {None, 0} \/ net_blob = None \/ Len(net_blob) = net_count
  /\ http = "blob" =>
       count \notin {None, 0} /\ (net_blob = None \/ Len(net_blob) = count)
  /\ http = "write_blob" => net_count \in {None, Len(list)}

\* A list without junk and without a name twice stays so when it is changed.
LEMMA AddedClean ==
  ASSUME NEW l \in Seq(Entries), Clean(l), NEW net \in Networks
  PROVE  Clean(Added(l, net))
<1>1. l \in [1..Len(l) -> Entries] /\ Len(l) \in Nat /\ DOMAIN l = 1..Len(l)
  OBVIOUS
<1>2. net # Junk
  BY NvsAssumption DEF Networks, Junk
<1>3. CASE Known(l, net)
  <2> DEFINE Chosen(i) == /\ l[i].ssid = net.ssid
                          /\ \A j \in 1..(i - 1) : l[j].ssid # net.ssid
             k == CHOOSE i \in DOMAIN l : Chosen(i)
             new == [l EXCEPT ![k] = net]
  <2>1. Added(l, net) = new
    BY <1>3 DEF Added
  <2>2. PICK i \in 1..Len(l) : l[i].ssid = net.ssid
    BY <1>1, <1>3 DEF Known
  <2>3. \E m \in DOMAIN l : Chosen(m)
    <3>1. \E m \in 1..Len(l) : l[m].ssid = net.ssid
      BY <2>2
    <3>2. \A a, b \in 1..Len(l) :
            l[a].ssid = net.ssid /\ l[b].ssid = net.ssid => a = b
      BY <1>1 DEF Clean
    <3>3. Chosen(i)
      <4>1. \A j \in 1..(i - 1) : j \in 1..Len(l) /\ j # i
        BY <1>1, <2>2
      <4> QED BY <2>2, <3>2, <4>1
    <3> QED BY <1>1, <2>2, <3>3
  <2>4. k \in DOMAIN l /\ Chosen(k)
    BY <2>3
  <2> HIDE DEF k
  <2>5. /\ DOMAIN new = DOMAIN l /\ new[k] = net
        /\ \A j \in DOMAIN l : j # k => new[j] = l[j]
    BY <1>1, <2>4
  <2>6. l[k].ssid = net.ssid
    BY <2>4
  <2> HIDE DEF new, Chosen
  <2>7. Clean(new)
    BY <1>2, <2>4, <2>5, <2>6 DEF Clean
  <2> QED BY <2>1, <2>7
<1>4. CASE ~Known(l, net)
  <2> DEFINE new == Append(l, net)
  <2>1. net \in Entries
    BY DEF Entries
  <2>2. /\ Len(new) = Len(l) + 1 /\ DOMAIN new = 1..(Len(l) + 1)
        /\ new[Len(l) + 1] = net
        /\ \A j \in 1..Len(l) : new[j] = l[j]
    BY <1>1, <2>1
  <2> HIDE DEF new
  <2>3. \A j \in 1..Len(l) : l[j].ssid # net.ssid
    BY <1>1, <1>4 DEF Known
  <2>4. \A j \in DOMAIN new : j \in 1..Len(l) \/ j = Len(l) + 1
    BY <1>1, <2>2
  <2>5. \A j \in DOMAIN new : new[j] # Junk
    BY <1>1, <1>2, <2>2, <2>4 DEF Clean
  <2>6. \A i, j \in DOMAIN new : i # j => new[i].ssid # new[j].ssid
    BY <1>1, <2>2, <2>3, <2>4 DEF Clean
  <2>7. Added(l, net) = new
    BY <1>4 DEF Added, new
  <2> QED BY <1>1, <2>2, <2>5, <2>6, <2>7 DEF Clean
<1> QED BY <1>3, <1>4

LEMMA RemovedClean ==
  ASSUME NEW l \in Seq(Entries), Clean(l), NEW k \in 1..Len(l)
  PROVE  Clean(RemoveAt(l, k))
<1> DEFINE t == RemoveAt(l, k)
           old(i) == IF i < k THEN i ELSE i + 1
<1>1. Len(l) \in Nat /\ DOMAIN l = 1..Len(l)
  OBVIOUS
<1>2. /\ DOMAIN t = 1..(Len(l) - 1)
      /\ \A i \in 1..(Len(l) - 1) : t[i] = l[old(i)]
  <2> DEFINE front == SubSeq(l, 1, k - 1)
             back == SubSeq(l, k + 1, Len(l))
  <2>1. /\ front \in Seq(Entries) /\ Len(front) = k - 1
        /\ \A i \in 1..(k - 1) : front[i] = l[i]
    BY <1>1
  <2>2. /\ back \in Seq(Entries) /\ Len(back) = Len(l) - k
        /\ \A i \in 1..(Len(l) - k) : back[i] = l[k + i]
    <3>1. /\ back \in Seq(Entries)
          /\ Len(back) = IF k + 1 <= Len(l) THEN Len(l) - (k + 1) + 1 ELSE 0
          /\ \A i \in 1..(Len(l) - (k + 1) + 1) : back[i] = l[(k + 1) + i - 1]
      <4>1. k + 1 \in Int /\ Len(l) \in Int /\ \A i \in (k + 1)..Len(l) : l[i] \in Entries
        BY <1>1
      <4> QED BY <4>1, SubSeqProperties
    <3> HIDE DEF back
    <3>2. Len(back) = Len(l) - k
      <4>1. k \in Int /\ Len(l) \in Int /\ k <= Len(l)
        BY <1>1
      <4>2. (IF k + 1 <= Len(l) THEN Len(l) - (k + 1) + 1 ELSE 0) = Len(l) - k
        BY <4>1
      <4> QED BY <3>1, <4>2
    <3>3. Len(l) - (k + 1) + 1 = Len(l) - k
          /\ \A i \in 1..(Len(l) - k) : (k + 1) + i - 1 = k + i
      BY <1>1
    <3> QED BY <3>1, <3>2, <3>3
  <2>3. t = front \o back
    BY DEF RemoveAt
  <2> HIDE DEF front, back, t
  <2>4. /\ Len(t) = Len(l) - 1 /\ t \in Seq(Entries)
        /\ \A i \in 1..(Len(l) - 1) :
             t[i] = IF i <= k - 1 THEN front[i] ELSE back[i - (k - 1)]
    <3>1. /\ t \in Seq(Entries) /\ Len(t) = Len(front) + Len(back)
          /\ \A i \in 1..(Len(front) + Len(back)) :
               t[i] = IF i <= Len(front) THEN front[i] ELSE back[i - Len(front)]
      BY <2>1, <2>2, <2>3, ConcatProperties
    <3>2. Len(front) + Len(back) = Len(l) - 1
      BY <1>1, <2>1, <2>2
    <3> QED BY <2>1, <3>1, <3>2
  <2>5. ASSUME NEW i \in 1..(Len(l) - 1), i >= k
        PROVE  back[i - (k - 1)] = l[i + 1]
    <3>1. i - (k - 1) \in 1..(Len(l) - k) /\ k + (i - (k - 1)) = i + 1
      BY <1>1, <2>5
    <3> QED BY <2>2, <3>1
  <2>6. DOMAIN t = 1..(Len(l) - 1)
    BY <2>4
  <2>7. ASSUME NEW i \in 1..(Len(l) - 1) PROVE t[i] = l[old(i)]
    <3>1. CASE i < k
      <4>1. i \in 1..(k - 1) /\ i <= k - 1
        BY <1>1, <3>1
      <4> QED BY <2>1, <2>4, <3>1, <4>1
    <3>2. CASE i >= k
      <4>1. ~(i <= k - 1) /\ ~(i < k)
        BY <1>1, <3>2
      <4> QED BY <2>4, <2>5, <3>2, <4>1
    <3> QED BY <1>1, <3>1, <3>2
  <2> QED BY <2>6, <2>7
<1> HIDE DEF t
<1>3. \A i \in 1..(Len(l) - 1) : old(i) \in 1..Len(l)
  BY <1>1
<1>4. \A i, j \in 1..(Len(l) - 1) : i # j => old(i) # old(j)
  BY <1>1
<1> HIDE DEF old
<1>5. Clean(t)
  BY <1>1, <1>2, <1>3, <1>4 DEF Clean
<1> QED BY <1>5 DEF t

LEMMA ChangedClean ==
  ASSUME NEW l \in Seq(Entries), Clean(l), NEW o \in Ops, Accepted(l, o)
  PROVE  Clean(Changed(l, o))
<1>1. CASE o.kind = "add"
  <2>1. o.net \in Networks
    BY <1>1 DEF Ops
  <2> QED BY <1>1, <2>1, AddedClean DEF Changed
<1>2. CASE o.kind = "remove"
  <2>1. o.index \in 1..Len(l)
    BY <1>2 DEF Ops, Accepted
  <2> QED BY <1>2, <2>1, RemovedClean DEF Changed
<1> QED BY <1>1, <1>2 DEF Ops

\* The HTTP task loads what is in flash, or nothing.
LEMMA NeatLoad ==
  ASSUME TypeOK, Neat, LoadBlob
  PROVE  Clean(list')
<1>1. Clean(<<>>)
  BY DEF Clean
<1>2. CASE net_blob = None
  BY <1>1, <1>2 DEF LoadBlob, LoadResults
<1>3. CASE net_blob # None
  <2>1. net_blob \in Seq(Entries) /\ Len(net_blob) = count /\ count # 0
    BY <1>3 DEF TypeOK, IsList, Neat, LoadBlob
  <2>2. list' = net_blob
    BY <2>1, LoadWhole DEF LoadBlob
  <2> QED BY <1>3, <2>2 DEF Neat
<1> QED BY <1>2, <1>3

LEMMA NeatStep ==
  ASSUME TypeOK, ~torn => Neat, [Next]_vars, ~torn'
  PROVE  Neat'
<1>1. ~torn
  BY DEF Next, Request, LoadBlob, Refused, WriteCount, WriteBlob, WorkerLoadCount,
         WorkerLoadBlob, WorkerUses, EraseCount, EraseBlob, Crash, history, vars
<1>2. Neat
  BY <1>1
<1>3. CASE \E o \in Ops : Request(o)
  <2>1. Clean(<<>>)
    BY DEF Clean
  <2> QED BY <1>2, <1>3, <2>1 DEF Request, Neat
<1>4. CASE LoadBlob
  BY <1>2, <1>4, NeatLoad DEF LoadBlob, Neat
<1>5. CASE Refused
  BY <1>2, <1>5 DEF Refused, Neat
<1>6. CASE WriteCount
  <2>1. Clean(list) /\ list \in Seq(Entries) /\ op \in Ops /\ Accepted(list, op)
    BY <1>2, <1>6 DEF WriteCount, Neat, TypeOK, IsList
  <2>2. Clean(list')
    BY <1>6, <2>1, ChangedClean DEF WriteCount
  <2>3. net_count' = Len(list') /\ net_blob' = net_blob /\ http' = "write_blob"
    BY <1>6 DEF WriteCount
  <2> QED BY <1>2, <2>2, <2>3 DEF Neat
<1>7. CASE WriteBlob
  <2>1. /\ net_blob' = (IF list = <<>> THEN None ELSE list)
        /\ http' = "idle" /\ net_count' = net_count
    BY <1>7 DEF WriteBlob
  <2>2. Clean(list) /\ net_count \in {None, Len(list)}
    BY <1>2, <1>7 DEF WriteBlob, Neat
  <2> QED BY <2>1, <2>2 DEF Neat
<1>8. CASE WorkerLoadCount \/ WorkerLoadBlob \/ WorkerUses
  BY <1>2, <1>8 DEF WorkerLoadCount, WorkerLoadBlob, WorkerUses, httpVars, Neat
<1>9. CASE EraseCount \/ EraseBlob
  BY <1>2, <1>9 DEF EraseCount, EraseBlob, httpVars, Neat
<1>10. CASE Crash
  BY <1>2, <1>10 DEF Crash, Neat
<1>11. CASE UNCHANGED vars
  BY <1>2, <1>11 DEF vars, httpVars, Neat
<1> QED BY <1>3, <1>4, <1>5, <1>6, <1>7, <1>8, <1>9, <1>10, <1>11 DEF Next

\* Requests that cross a forget, and power cuts outside a save
\* (nvs_storage.c:88), leave no entry nobody entered and none twice.
THEOREM CleanCorrect == Spec => []BlobClean
<1>1. Init => (~torn => Neat)
  BY DEF Init, Neat
<1>2. IInv /\ (~torn => Neat) /\ [Next]_vars => (~torn => Neat)'
  BY NeatStep DEF IInv
<1>3. (~torn => Neat) => BlobClean
  BY DEF Neat, Clean, BlobClean
<1> QED BY <1>1, <1>2, <1>3, IInvInductive, PTL DEF Spec

-----------------------------------------------------------------------------
(* A power cut in an add. As long as nothing disturbs it the HTTP task     *)
(* works on the list that was saved, and the old blob under the new count  *)
(* still has all of it: the count of an add is never the smaller one.      *)

Follows ==
  lapses = {} /\ saved # <<>> =>
    /\ http = "blob" /\ worker # "erase" => count = Len(saved)
    /\ http = "write_count" /\ worker # "erase" => list = saved
    /\ http = "write_blob" /\ since = {} /\ op.kind = "add" =>
         net_blob = saved /\ Len(list) >= Len(saved)

\* A load with a count that is not smaller keeps every entry of the blob.
LEMMA LoadKeeps ==
  ASSUME NEW b \in Seq(Entries), Len(b) # 0,
         NEW c \in Nat, c >= Len(b), NEW l \in LoadResults(c, b)
  PROVE  \A i \in 1..Len(b) : i \in DOMAIN l /\ l[i] = b[i]
<1>1. Len(b) \in Nat /\ c \notin {None, 0} /\ ~(Len(b) > c) /\ b # None
  BY NvsAssumption
<1>2. PICK rest \in [1..(c - Len(b)) -> Entries] : l = b \o rest
  BY <1>1 DEF LoadResults
<1>3. c - Len(b) \in Nat
  BY <1>1
<1>4. rest \in Seq(Entries) /\ Len(rest) = c - Len(b)
  BY <1>2, <1>3, FunctionIsSeq
<1> QED BY <1>1, <1>2, <1>3, <1>4

\* An add does not make the list shorter.
LEMMA AddedLonger ==
  ASSUME NEW l \in Seq(Entries), NEW net \in Networks
  PROVE  Len(Added(l, net)) >= Len(l)
<1>1. l \in [1..Len(l) -> Entries] /\ Len(l) \in Nat /\ net \in Entries
  BY DEF Entries
<1>2. CASE Known(l, net)
  <2> DEFINE k == CHOOSE i \in DOMAIN l :
                    /\ l[i].ssid = net.ssid
                    /\ \A j \in 1..(i - 1) : l[j].ssid # net.ssid
             new == [l EXCEPT ![k] = net]
  <2>1. Added(l, net) = new
    BY <1>2 DEF Added
  <2> HIDE DEF k
  <2>2. new \in [1..Len(l) -> Entries]
    BY <1>1
  <2> QED BY <1>1, <2>1, <2>2, FunctionIsSeq
<1>3. CASE ~Known(l, net)
  <2>1. Len(Added(l, net)) = Len(l) + 1
    BY <1>1, <1>3, AppendProperties DEF Added
  <2> QED BY <1>1, <2>1
<1> QED BY <1>2, <1>3

\* While nothing disturbs it, flash has the list that was saved.
LEMMA SavedIsStored ==
  ASSUME TypeOK, StoredWhole, lapses = {}, saved # <<>>,
         http # "write_blob", worker # "erase"
  PROVE  /\ net_count = Len(saved) /\ net_blob = saved
         /\ saved \in Seq(Entries) /\ Len(saved) # 0 /\ Len(saved) # None
<1>1. saved \in Seq(Entries) /\ Len(saved) \in Nat /\ None \notin Nat
  BY NvsAssumption DEF TypeOK, IsList
<1>2. Len(saved) # 0
  BY <1>1, EmptySeq
<1> QED BY <1>1, <1>2 DEF StoredWhole

LEMMA FollowsStep ==
  ASSUME IInv, Follows, [Next]_vars, lapses' = {}, saved' # <<>>
  PROVE  /\ (http = "blob" /\ worker # "erase" => count = Len(saved))'
         /\ (http = "write_count" /\ worker # "erase" => list = saved)'
         /\ (http = "write_blob" /\ since = {} /\ op.kind = "add" =>
               net_blob = saved /\ Len(list) >= Len(saved))'
<1> USE DEF IInv
<1>1. CASE \E o \in Ops : Request(o)
  <2> PICK o \in Ops : Request(o)
    BY <1>1
  <2>1. lapses = {} /\ saved # <<>> /\ http = "idle" /\ worker' = worker
        /\ saved' = saved
    BY DEF Request, history, workerVars
  <2>2. CASE worker = "erase"
    BY <2>1, <2>2 DEF Request
  <2>3. CASE worker # "erase"
    <3>1. net_count = Len(saved) /\ net_count \notin {None, 0}
      BY <2>1, <2>3, SavedIsStored
    <3> QED BY <2>1, <3>1 DEF Request
  <2> QED BY <2>2, <2>3
<1>2. CASE LoadBlob
  <2>1. lapses = {} /\ saved # <<>> /\ http = "blob" /\ worker' = worker
        /\ saved' = saved /\ http' = "write_count"
    BY <1>2 DEF LoadBlob, history, workerVars
  <2>2. ASSUME worker # "erase" PROVE list' = saved
    <3>1. count = Len(saved)
      BY <2>1, <2>2 DEF Follows
    <3>2. net_blob = saved /\ saved \in Seq(Entries) /\ Len(saved) # 0
      BY <2>1, <2>2, SavedIsStored
    <3> QED BY <1>2, <3>1, <3>2, LoadWhole DEF LoadBlob
  <2> QED BY <2>1, <2>2
<1>3. CASE WriteCount
  <2>1. lapses = {} /\ saved # <<>> /\ http = "write_count" /\ worker' = worker
        /\ saved' = saved /\ http' = "write_blob" /\ op' = op
        /\ net_blob' = net_blob /\ list' = Changed(list, op)
    BY <1>3 DEF WriteCount
  <2>2. ASSUME since' = {}, op.kind = "add"
        PROVE  net_blob = saved /\ Len(list') >= Len(saved)
    <3>1. worker # "erase"
      BY <1>3, <2>2 DEF WriteCount
    <3>2. list = saved
      BY <2>1, <3>1 DEF Follows
    <3>3. net_blob = saved /\ saved \in Seq(Entries)
      BY <2>1, <3>1, SavedIsStored
    <3>4. op.net \in Networks
      BY <2>2 DEF TypeOK, Ops
    <3>5. list' = Added(saved, op.net)
      BY <2>1, <2>2, <3>2 DEF Changed
    <3> QED BY <3>3, <3>4, <3>5, AddedLonger
  <2> QED BY <2>1, <2>2
<1>4. CASE Refused \/ WriteBlob \/ Crash
  BY <1>4 DEF Refused, WriteBlob, Crash
<1>5. CASE WorkerLoadCount \/ WorkerLoadBlob \/ WorkerUses
  BY <1>5 DEF Follows, WorkerLoadCount, WorkerLoadBlob, WorkerUses, httpVars,
              history
<1>6. CASE EraseCount
  <2>1. lapses = {} /\ saved # <<>> /\ worker' = "erase" /\ UNCHANGED httpVars
        /\ since' = IF http = "write_blob" THEN since \cup {"race"} ELSE since
    BY <1>6 DEF EraseCount
  <2> QED BY <2>1 DEF httpVars
<1>7. CASE EraseBlob
  BY <1>7 DEF EraseBlob
<1>8. CASE UNCHANGED vars
  BY <1>8 DEF vars, httpVars, workerVars, history, Follows
<1> QED BY <1>1, <1>2, <1>3, <1>4, <1>5, <1>6, <1>7, <1>8 DEF Next

LEMMA Survives ==
  ASSUME IInv, Follows, Undisturbed, ~(http = "write_blob" /\ op.kind = "remove")
  PROVE  StillLoaded
<1>1. TypeOK /\ StoredWhole /\ SavePending /\ lapses = {} /\ worker # "erase"
  BY DEF IInv, Undisturbed
<1>2. CASE saved = <<>>
  <2>1. Untouched = {}
    BY <1>2 DEF Untouched
  <2> QED BY <2>1 DEF StillLoaded
<1>3. CASE saved # <<>>
  <2>1. /\ net_blob = saved /\ net_count \in Nat /\ net_count >= Len(saved)
        /\ saved \in Seq(Entries) /\ Len(saved) # 0
    <3>1. saved \in Seq(Entries) /\ Len(saved) \in Nat /\ Len(saved) # 0
          /\ list \in Seq(Entries) /\ Len(list) \in Nat
      BY <1>1, <1>3, EmptySeq DEF TypeOK, IsList
    <3>2. CASE http # "write_blob"
      BY <1>1, <1>3, <3>1, <3>2, SavedIsStored
    <3>3. CASE http = "write_blob"
      <4>1. since = {} /\ op.kind = "add"
        BY <1>1, <3>3 DEF Undisturbed, TypeOK, Ops
      <4>2. net_count = Len(list)
        BY <1>1, <3>3, <4>1 DEF SavePending
      <4> QED BY <1>1, <1>3, <3>1, <3>3, <4>1, <4>2 DEF Follows
    <3> QED BY <3>2, <3>3
  <2>2. \A n \in Untouched : \E i \in 1..Len(saved) : n = saved[i]
    BY <2>1 DEF Untouched
  <2>3. ASSUME NEW l \in LoadResults(net_count, net_blob)
        PROVE  \A i \in 1..Len(saved) : i \in DOMAIN l /\ l[i] = saved[i]
    BY <2>1, LoadKeeps
  <2> QED BY <2>2, <2>3 DEF StillLoaded
<1> QED BY <1>2, <1>3

\* A power cut in an add (nvs_storage.c:38) keeps every other network, for any
\* lists: the new count is never below the old blob's.
THEOREM CrashCorrect == Spec => AddSurvivesCrash
<1>1. Init => Follows
  BY DEF Init, Follows
<1>2. IInv /\ Follows /\ [Next]_vars => Follows'
  BY FollowsStep DEF Follows
<1>3. IInv /\ Follows =>
        [Crash /\ Undisturbed
         /\ ~(http = "write_blob" /\ op.kind = "remove") => StillLoaded]_vars
  BY Survives
<1> QED BY <1>1, <1>2, <1>3, IInvInductive, PTL DEF Spec, AddSurvivesCrash

-----------------------------------------------------------------------------
(* The clipboard: the operators on its sequences.                          *)

\* A non-empty set of naturals has a least element.
LEMMA NatHasLeast ==
  ASSUME NEW T \in SUBSET Nat, T # {}
  PROVE  \E x \in T : \A y \in T : x <= y
<1> DEFINE R == OpToRel(<, Nat)
<1>1. IsWellFoundedOn(R, Nat)
  BY NatLessThanWellFounded
<1>2. PICK x \in T : \A y \in T : ~ (<<y, x>> \in R)
  <2> HIDE DEF R
  <2> QED BY <1>1, WFMin
<1>3. \A y \in T : ~ (y < x)
  BY <1>2 DEF OpToRel
<1> HIDE DEF R
<1> QED BY <1>3, SMT

\* A sequence without its k-th element.
LEMMA RemovedAt ==
  ASSUME NEW S, NEW q \in Seq(S), NEW k \in 1..Len(q)
  PROVE  /\ RemoveAt(q, k) \in Seq(S)
         /\ Len(RemoveAt(q, k)) = Len(q) - 1
         /\ \A j \in 1..(Len(q) - 1) :
              RemoveAt(q, k)[j] = q[IF j < k THEN j ELSE j + 1]
         /\ ToSet(RemoveAt(q, k)) \subseteq ToSet(q)
         /\ ToSet(q) \subseteq ToSet(RemoveAt(q, k)) \cup {q[k]}
<1> DEFINE t == RemoveAt(q, k)
           front == SubSeq(q, 1, k - 1)
           back == SubSeq(q, k + 1, Len(q))
<1>1. k \in Nat /\ Len(q) \in Nat /\ 1 <= k /\ k <= Len(q)
  OBVIOUS
<1>2. front \in Seq(S) /\ Len(front) = k - 1
      /\ \A j \in 1..(k - 1) : front[j] = q[j]
  BY <1>1
<1>3. back \in Seq(S) /\ Len(back) = Len(q) - k
      /\ \A j \in 1..(Len(q) - k) : back[j] = q[k + j]
  BY <1>1
<1>4. t = front \o back
  BY DEF RemoveAt
<1> HIDE DEF t, front, back
<1>5. t \in Seq(S) /\ Len(t) = Len(q) - 1
  BY <1>1, <1>2, <1>3, <1>4, ConcatProperties
<1>6. \A j \in 1..(Len(q) - 1) : t[j] = q[IF j < k THEN j ELSE j + 1]
  <2> TAKE j \in 1..(Len(q) - 1)
  <2>1. CASE j < k
    BY <2>1, <1>1, <1>2, <1>3, <1>4, ConcatProperties
  <2>2. CASE ~(j < k)
    <3>1. j \in 1..(Len(front) + Len(back)) /\ ~(j <= Len(front))
      BY <2>2, <1>1, <1>2, <1>3
    <3>2. t[j] = back[j - Len(front)]
      BY <3>1, <1>2, <1>3, <1>4, ConcatProperties
    <3>3. j - (k - 1) \in 1..(Len(q) - k) /\ k + (j - (k - 1)) = j + 1
      BY <2>2, <1>1
    <3> QED BY <3>2, <3>3, <2>2, <1>2, <1>3
  <2> QED BY <2>1, <2>2
<1>7. ToSet(t) \subseteq ToSet(q)
  <2> SUFFICES ASSUME NEW j \in 1..Len(t) PROVE t[j] \in ToSet(q)
    BY <1>5 DEF ToSet
  <2>1. j \in 1..(Len(q) - 1)
    BY <1>5
  <2>2. (IF j < k THEN j ELSE j + 1) \in 1..Len(q)
    BY <2>1, <1>1
  <2> QED BY <1>6, <2>1, <2>2 DEF ToSet
<1>8. ToSet(q) \subseteq ToSet(t) \cup {q[k]}
  <2> SUFFICES ASSUME NEW i \in 1..Len(q), i # k PROVE q[i] \in ToSet(t)
    BY DEF ToSet
  <2>1. CASE i < k
    <3>1. i \in 1..(Len(q) - 1) /\ i \in DOMAIN t
      BY <2>1, <1>1, <1>5
    <3>2. t[i] = q[i]
      BY <3>1, <2>1, <1>6
    <3> QED BY <3>1, <3>2 DEF ToSet
  <2>2. CASE i > k
    <3>1. i - 1 \in 1..(Len(q) - 1) /\ i - 1 \in DOMAIN t /\ ~(i - 1 < k)
          /\ (i - 1) + 1 = i
      BY <2>2, <1>1, <1>5
    <3>2. t[i - 1] = q[i]
      BY <3>1, <1>6
    <3> QED BY <3>1, <3>2 DEF ToSet
  <2> QED BY <2>1, <2>2, <1>1
<1> QED BY <1>5, <1>6, <1>7, <1>8 DEF t

\* The first entry with a number is one with that number; if there is none, no
\* entry has it.
LEMMA FoundAt ==
  ASSUME NEW q \in Seq(Entry), NEW id
  PROVE  /\ IndexOf(q, id) \in 0..Len(q)
         /\ IndexOf(q, id) # 0 => q[IndexOf(q, id)].id = id
         /\ IndexOf(q, id) = 0 => \A j \in 1..Len(q) : q[j].id # id
<1> DEFINE I == {i \in 1..Len(q) : q[i].id = id}
<1>1. IndexOf(q, id) = IF I # {} THEN Min(I) ELSE 0
  BY DEF IndexOf, SelectInSeq
<1>2. CASE I # {}
  <2>0. I \in SUBSET Nat
    OBVIOUS
  <2>1. \E x \in I : \A y \in I : x <= y
    <3> HIDE DEF I
    <3> QED BY <1>2, <2>0, NatHasLeast
  <2>2. Min(I) \in I
    BY <2>1 DEF Min
  <2> QED BY <1>1, <1>2, <2>2
<1>3. CASE I = {}
  BY <1>1, <1>3
<1> QED BY <1>2, <1>3

-----------------------------------------------------------------------------
(* The operations on a store, one by one.                                  *)

\* What a clip that is taken off a store leaves is a store with its numbers in
\* order.
LEMMA RingRemoved ==
  ASSUME NEW s, WithinLimits(s), Numbered(s), NEW k \in 1..Len(s.ring)
  PROVE  LET t == [s EXCEPT !.ring = RemoveAt(@, k)] IN
         /\ WithinLimits(t) /\ Numbered(t) /\ Clips(t) \subseteq Clips(s)
         /\ t.next_id = s.next_id /\ Recent(s) \subseteq Recent(t) \cup {s.ring[k]}
         /\ Favourites(t) = Favourites(s)
<1> DEFINE r == RemoveAt(s.ring, k)
           t == [s EXCEPT !.ring = RemoveAt(@, k)]
<1>1. /\ s \in Stores /\ s.ring \in Seq(Entry) /\ s.favorites \in Seq(Entry)
      /\ Len(s.ring) <= CLIP_RING_MAX /\ Len(s.favorites) <= CLIP_FAV_MAX
      /\ Len(s.ring) \in Nat /\ CLIP_RING_MAX \in Nat
  BY ClipboardAssumption DEF WithinLimits, Stores
<1>2. /\ r \in Seq(Entry) /\ Len(r) = Len(s.ring) - 1
      /\ \A j \in 1..(Len(s.ring) - 1) : r[j] = s.ring[IF j < k THEN j ELSE j + 1]
      /\ ToSet(r) \subseteq ToSet(s.ring)
      /\ ToSet(s.ring) \subseteq ToSet(r) \cup {s.ring[k]}
  <2> HIDE DEF t
  <2>1. PICK q \in Seq(Entry) : q = s.ring
    BY <1>1
  <2>2. /\ RemoveAt(q, k) \in Seq(Entry) /\ Len(RemoveAt(q, k)) = Len(q) - 1
        /\ \A j \in 1..(Len(q) - 1) :
             RemoveAt(q, k)[j] = q[IF j < k THEN j ELSE j + 1]
        /\ ToSet(RemoveAt(q, k)) \subseteq ToSet(q)
        /\ ToSet(q) \subseteq ToSet(RemoveAt(q, k)) \cup {q[k]}
    <3>1. k \in 1..Len(q)
      BY <2>1
    <3> QED BY <3>1, RemovedAt
  <2> QED BY <2>1, <2>2, Zenon
<1>3. t = [next_id |-> s.next_id, ring |-> r, favorites |-> s.favorites]
  BY <1>1 DEF Stores
<1> HIDE DEF r, t
<1>4. WithinLimits(t)
  BY <1>1, <1>2, <1>3 DEF WithinLimits, Stores
<1>5. Clips(t) \subseteq Clips(s) /\ Recent(t) \subseteq Recent(s)
      /\ Recent(s) \subseteq Recent(t) \cup {s.ring[k]} /\ Favourites(t) = Favourites(s)
  BY <1>2, <1>3 DEF Clips, Recent, Favourites
<1>6. \A i, j \in 1..Len(r) : i < j => r[i].id < r[j].id
  <2> SUFFICES ASSUME NEW i \in 1..Len(r), NEW j \in 1..Len(r), i < j
               PROVE  r[i].id < r[j].id
    OBVIOUS
  <2> DEFINE a == IF i < k THEN i ELSE i + 1
             b == IF j < k THEN j ELSE j + 1
  <2>1. a \in 1..Len(s.ring) /\ b \in 1..Len(s.ring) /\ a < b
    BY <1>1, <1>2
  <2>2. r[i] = s.ring[a] /\ r[j] = s.ring[b]
    BY <1>1, <1>2
  <2> HIDE DEF a, b
  <2> QED BY <2>1, <2>2 DEF Numbered
<1>7. Numbered(t)
  BY <1>3, <1>5, <1>6 DEF Numbered
<1> QED BY <1>3, <1>4, <1>5, <1>7 DEF t

LEMMA FavouriteRemoved ==
  ASSUME NEW s, WithinLimits(s), Numbered(s), NEW k \in 1..Len(s.favorites)
  PROVE  LET t == [s EXCEPT !.favorites = RemoveAt(@, k)] IN
         /\ WithinLimits(t) /\ Numbered(t) /\ Clips(t) \subseteq Clips(s)
         /\ t.next_id = s.next_id /\ t.ring = s.ring
         /\ Favourites(s) \subseteq Favourites(t) \cup {s.favorites[k]}
<1> DEFINE r == RemoveAt(s.favorites, k)
           t == [s EXCEPT !.favorites = RemoveAt(@, k)]
<1>1. /\ s \in Stores /\ s.ring \in Seq(Entry) /\ s.favorites \in Seq(Entry)
      /\ Len(s.ring) <= CLIP_RING_MAX /\ Len(s.favorites) <= CLIP_FAV_MAX
      /\ Len(s.favorites) \in Nat /\ CLIP_FAV_MAX \in Nat
  BY ClipboardAssumption DEF WithinLimits, Stores
<1>2. /\ r \in Seq(Entry) /\ Len(r) = Len(s.favorites) - 1
      /\ \A j \in 1..(Len(s.favorites) - 1) :
           r[j] = s.favorites[IF j < k THEN j ELSE j + 1]
      /\ ToSet(r) \subseteq ToSet(s.favorites)
      /\ ToSet(s.favorites) \subseteq ToSet(r) \cup {s.favorites[k]}
  <2> HIDE DEF t
  <2>1. PICK q \in Seq(Entry) : q = s.favorites
    BY <1>1
  <2>2. /\ RemoveAt(q, k) \in Seq(Entry) /\ Len(RemoveAt(q, k)) = Len(q) - 1
        /\ \A j \in 1..(Len(q) - 1) :
             RemoveAt(q, k)[j] = q[IF j < k THEN j ELSE j + 1]
        /\ ToSet(RemoveAt(q, k)) \subseteq ToSet(q)
        /\ ToSet(q) \subseteq ToSet(RemoveAt(q, k)) \cup {q[k]}
    <3>1. k \in 1..Len(q)
      BY <2>1
    <3> QED BY <3>1, RemovedAt
  <2> QED BY <2>1, <2>2, Zenon
<1>3. t = [next_id |-> s.next_id, ring |-> s.ring, favorites |-> r]
  BY <1>1 DEF Stores
<1> HIDE DEF r, t
<1>4. WithinLimits(t)
  BY <1>1, <1>2, <1>3 DEF WithinLimits, Stores
<1>5. Clips(t) \subseteq Clips(s) /\ Recent(t) = Recent(s)
      /\ Favourites(t) \subseteq Favourites(s)
      /\ Favourites(s) \subseteq Favourites(t) \cup {s.favorites[k]}
  BY <1>2, <1>3 DEF Clips, Recent, Favourites
<1>6. \A i, j \in 1..Len(r) : i # j => r[i].id # r[j].id
  <2> SUFFICES ASSUME NEW i \in 1..Len(r), NEW j \in 1..Len(r), i # j
               PROVE  r[i].id # r[j].id
    OBVIOUS
  <2> DEFINE a == IF i < k THEN i ELSE i + 1
             b == IF j < k THEN j ELSE j + 1
  <2>1. a \in 1..Len(s.favorites) /\ b \in 1..Len(s.favorites) /\ a # b
    BY <1>1, <1>2
  <2>2. r[i] = s.favorites[a] /\ r[j] = s.favorites[b]
    BY <1>1, <1>2
  <2> HIDE DEF a, b
  <2> QED BY <2>1, <2>2 DEF Numbered
<1>7. Numbered(t)
  BY <1>3, <1>5, <1>6 DEF Numbered
<1> QED BY <1>3, <1>4, <1>5, <1>7 DEF t

\* Adding a clip: it is the newest of the ring, under the next number, and only
\* the oldest of a full ring goes.
LEMMA ClipAdded ==
  ASSUME NEW s, WithinLimits(s), Numbered(s), NEW text \in Texts
  PROVE  LET t == clip_add(s, text)
             new == [id |-> s.next_id, text |-> text] IN
         /\ WithinLimits(t) /\ Numbered(t)
         /\ t.next_id = s.next_id + 1 /\ t.favorites = s.favorites
         /\ Last(t.ring) = new /\ new \in Recent(t)
         /\ Recent(t) \subseteq Recent(s) \cup {new}
         /\ \A e \in Recent(s) :
              \/ e \in Recent(t)
              \/ Len(s.ring) = CLIP_RING_MAX /\ e = Head(s.ring)
<1> DEFINE t == clip_add(s, text)
           new == [id |-> s.next_id, text |-> text]
           q == Room(s.ring)
           r == Append(q, new)
<1>1. /\ s \in Stores /\ s.ring \in Seq(Entry) /\ s.favorites \in Seq(Entry)
      /\ Len(s.ring) <= CLIP_RING_MAX /\ Len(s.favorites) <= CLIP_FAV_MAX
      /\ Len(s.ring) \in Nat /\ CLIP_RING_MAX \in Nat \ {0} /\ text # Empty
      /\ s.next_id \in Nat \ {0}
  BY ClipboardAssumption DEF WithinLimits, Stores
<1>2. new \in Entry
  BY <1>1 DEF Entry
<1>3. t = [next_id |-> s.next_id + 1, ring |-> r, favorites |-> s.favorites]
  BY <1>1 DEF clip_add, Stores
<1>4. \E d \in Nat :
        /\ d = (IF Len(s.ring) = CLIP_RING_MAX THEN 1 ELSE 0)
        /\ q \in Seq(Entry) /\ Len(q) = Len(s.ring) - d
        /\ \A i \in 1..Len(q) : q[i] = s.ring[i + d]
  <2>1. CASE Len(s.ring) = CLIP_RING_MAX
    <3>1. s.ring # <<>> /\ q = Tail(s.ring)
      BY <1>1, <2>1 DEF Room
    <3> QED BY <1>1, <2>1, <3>1, HeadTailProperties
  <2>2. CASE Len(s.ring) # CLIP_RING_MAX
    BY <1>1, <2>2 DEF Room
  <2> QED BY <2>1, <2>2
<1> HIDE DEF t, new, q
<1>5. PICK d \in Nat :
        /\ d = (IF Len(s.ring) = CLIP_RING_MAX THEN 1 ELSE 0)
        /\ q \in Seq(Entry) /\ Len(q) = Len(s.ring) - d
        /\ \A i \in 1..Len(q) : q[i] = s.ring[i + d]
  BY <1>4
<1>6. /\ r \in Seq(Entry) /\ Len(r) = Len(q) + 1 /\ r[Len(q) + 1] = new
      /\ \A i \in 1..Len(q) : r[i] = q[i]
  <2>1. q \in Seq(Entry)
    BY <1>5
  <2> QED BY <1>2, <2>1, AppendProperties
<1> HIDE DEF r
<1>7. /\ d \in Nat /\ Len(q) \in Nat /\ Len(q) + d = Len(s.ring)
      /\ Len(r) = Len(q) + 1 /\ Len(r) <= CLIP_RING_MAX
      /\ r[Len(r)] = new
  BY <1>1, <1>5, <1>6
<1>8. WithinLimits(t)
  BY <1>1, <1>3, <1>6, <1>7 DEF WithinLimits, Stores
<1>9. Recent(t) \subseteq Recent(s) \cup {new}
  <2> SUFFICES ASSUME NEW i \in 1..Len(r) PROVE r[i] \in Recent(s) \cup {new}
    BY <1>3, <1>6 DEF Recent, ToSet
  <2>1. CASE i = Len(r)
    BY <2>1, <1>6
  <2>2. CASE i # Len(r)
    <3>1. i \in 1..Len(q) /\ i + d \in 1..Len(s.ring)
      BY <2>2, <1>1, <1>7
    <3>2. r[i] = s.ring[i + d]
      BY <3>1, <1>5, <1>6
    <3> QED BY <3>1, <3>2, <1>1 DEF Recent, ToSet
  <2> QED BY <2>1, <2>2
<1>10. new \in Recent(t) /\ Last(t.ring) = new
  BY <1>3, <1>6, <1>7 DEF Recent, ToSet, Last
<1>11. \A e \in Recent(s) :
         \/ e \in Recent(t)
         \/ Len(s.ring) = CLIP_RING_MAX /\ e = Head(s.ring)
  <2> SUFFICES ASSUME NEW i \in 1..Len(s.ring)
               PROVE  \/ s.ring[i] \in Recent(t)
                      \/ Len(s.ring) = CLIP_RING_MAX /\ s.ring[i] = Head(s.ring)
    BY DEF Recent, ToSet
  <2>1. CASE i - d \in 1..Len(q)
    <3>1. r[i - d] = s.ring[i] /\ i - d \in 1..Len(r)
      <4>1. i - d \in 1..Len(r) /\ (i - d) + d = i
        BY <2>1, <1>7
      <4>2. r[i - d] = q[i - d]
        BY <2>1, <1>6
      <4>3. q[i - d] = s.ring[(i - d) + d]
        BY <2>1, <1>5
      <4> QED BY <4>1, <4>2, <4>3
    <3> QED BY <3>1, <1>3, <1>6 DEF Recent, ToSet
  <2>2. CASE i - d \notin 1..Len(q)
    <3>1. d = 1 /\ i = 1
      BY <2>2, <1>1, <1>5
    <3>2. Head(s.ring) = s.ring[1]
      BY <1>1
    <3> QED BY <3>1, <3>2, <1>5
  <2> QED BY <2>1, <2>2
<1>12. Numbered(t)
  <2>1. \A i, j \in 1..Len(r) : i < j => r[i].id < r[j].id
    <3> SUFFICES ASSUME NEW i \in 1..Len(r), NEW j \in 1..Len(r), i < j
                 PROVE  r[i].id < r[j].id
      OBVIOUS
    <3>0. i \in 1..Len(q) /\ i + d \in 1..Len(s.ring)
      BY <1>1, <1>7
    <3>1. i \in 1..Len(q) /\ i + d \in 1..Len(s.ring) /\ r[i] = s.ring[i + d]
      BY <3>0, <1>5, <1>6
    <3>2. CASE j = Len(r)
      <4>1. s.ring[i + d] \in Clips(s)
        BY <3>1, <1>1 DEF Clips, Recent, ToSet
      <4>2. r[i].id < s.next_id /\ r[j].id = s.next_id
        BY <3>1, <3>2, <4>1, <1>6 DEF Numbered, new
      <4> QED BY <4>2
    <3>3. CASE j # Len(r)
      <4>0. j \in 1..Len(q) /\ j + d \in 1..Len(s.ring) /\ i + d < j + d
        <5>1. i \in Nat /\ j \in Nat /\ 1 <= i /\ i < j /\ j <= Len(q)
          BY <3>3, <1>7
        <5>2. i + d < j + d /\ 1 <= j + d /\ j + d <= Len(s.ring)
          BY <5>1, <1>7
        <5> QED BY <5>1, <5>2, <1>7
      <4>1. r[j] = s.ring[j + d]
        BY <4>0, <1>5, <1>6
      <4> QED BY <3>1, <4>0, <4>1 DEF Numbered
    <3> QED BY <3>2, <3>3
  <2>2. \A e \in Clips(s) : e.id \in Nat /\ e.id < s.next_id
    <3> SUFFICES ASSUME NEW e \in Clips(s) PROVE e.id \in Nat /\ e.id < s.next_id
      OBVIOUS
    <3>1. e \in Entry
      BY <1>1 DEF Clips, Recent, Favourites, ToSet
    <3> QED BY <3>1 DEF Numbered, Entry
  <2>3. new.id = s.next_id /\ Clips(t) \subseteq Clips(s) \cup {new}
    BY <1>3, <1>9 DEF new, Clips, Favourites
  <2>4. \A e \in Clips(t) : e.id < t.next_id
    BY <1>1, <1>3, <2>2, <2>3
  <2>5. \A e \in Recent(t), f \in Favourites(t) : e.id # f.id
    <3> SUFFICES ASSUME NEW e \in Recent(t), NEW f \in Favourites(t)
                 PROVE  e.id # f.id
      OBVIOUS
    <3>1. f \in Favourites(s) /\ f \in Clips(s)
      BY <1>3 DEF Favourites, Clips
    <3>2. CASE e \in Recent(s)
      BY <3>1, <3>2 DEF Numbered
    <3>3. CASE e = new
      BY <3>1, <3>3, <2>2, <2>3, <1>1
    <3> QED BY <3>2, <3>3, <1>9
  <2>6. \A i, j \in 1..Len(t.favorites) :
          i # j => t.favorites[i].id # t.favorites[j].id
    BY <1>3 DEF Numbered
  <2> QED BY <2>1, <2>4, <2>5, <2>6, <1>3 DEF Numbered
<1> QED BY <1>3, <1>8, <1>9, <1>10, <1>11, <1>12 DEF t, new

-----------------------------------------------------------------------------
\* What every operation makes of a store: a store within its limits, numbered,
\* whose clips are old ones or have numbers never given before.
ClipFollows(s, t) ==
  /\ WithinLimits(t) /\ Numbered(t) /\ s.next_id <= t.next_id
  /\ \A e \in Clips(t) : e \in Clips(s) \/ e.id >= s.next_id

\* A favourite stays, or its own link was used: it is deleted, or its text is
\* the newest of the ring.
FavouriteStays(s, t, act, id, e) ==
  \/ e \in Favourites(t)
  \/ act = "delete" /\ id = e.id
  \/ act = "unpin" /\ id = e.id /\ Last(t.ring).text = e.text

\* A recent clip stays, is pinned or deleted, or was the oldest of a full ring.
RecentStays(s, t, act, id, e) ==
  \/ e \in Clips(t)
  \/ act = "delete" /\ id = e.id
  \/ /\ Len(s.ring) = CLIP_RING_MAX /\ e = Head(s.ring)
     /\ \E new \in Recent(t) : new.id >= s.next_id

LEMMA NumbersAreNat ==
  ASSUME NEW s, WithinLimits(s)
  PROVE  \A e \in Clips(s) : e \in Entry /\ e.id \in Nat /\ e.text \in Texts
<1> SUFFICES ASSUME NEW e \in Clips(s)
             PROVE  e \in Entry /\ e.id \in Nat /\ e.text \in Texts
  OBVIOUS
<1>1. s.ring \in Seq(Entry) /\ s.favorites \in Seq(Entry)
  BY DEF WithinLimits, Stores
<1>2. e \in Entry
  BY <1>1 DEF Clips, Recent, Favourites, ToSet
<1> QED BY <1>2 DEF Entry

LEMMA SameFollows ==
  ASSUME NEW s, WithinLimits(s), Numbered(s)
  PROVE  ClipFollows(s, s)
<1>1. s.next_id \in Nat
  BY DEF WithinLimits, Stores
<1> QED BY <1>1 DEF ClipFollows

LEMMA AddFollows ==
  ASSUME NEW s, WithinLimits(s), Numbered(s), NEW text \in Texts \cup {Empty}
  PROVE  LET t == clip_add(s, text) IN
         /\ ClipFollows(s, t) /\ t.favorites = s.favorites
         /\ \A e \in Recent(s) : \A act, id : RecentStays(s, t, act, id, e)
<1> DEFINE t == clip_add(s, text)
<1>1. CASE text = Empty
  <2>1. t = s
    BY <1>1 DEF clip_add
  <2> HIDE DEF t
  <2> QED BY <2>1, SameFollows DEF t, RecentStays, Clips
<1>2. CASE text # Empty
  <2> DEFINE new == [id |-> s.next_id, text |-> text]
  <2>1. text \in Texts /\ s.next_id \in Nat
    BY <1>2 DEF WithinLimits, Stores
  <2>2. /\ WithinLimits(t) /\ Numbered(t)
        /\ t.next_id = s.next_id + 1 /\ t.favorites = s.favorites
        /\ new \in Recent(t) /\ Recent(t) \subseteq Recent(s) \cup {new}
        /\ \A e \in Recent(s) :
             \/ e \in Recent(t)
             \/ Len(s.ring) = CLIP_RING_MAX /\ e = Head(s.ring)
    BY <2>1, ClipAdded
  <2>3. new.id = s.next_id
    OBVIOUS
  <2> HIDE DEF t, new
  <2>4. ClipFollows(s, t)
    BY <2>1, <2>2, <2>3 DEF ClipFollows, Clips, Favourites
  <2>5. new.id >= s.next_id
    BY <2>1, <2>3
  <2> QED BY <2>2, <2>4, <2>5 DEF t, RecentStays, Clips
<1> QED BY <1>1, <1>2

LEMMA DeleteFollows ==
  ASSUME NEW s, WithinLimits(s), Numbered(s), NEW id
  PROVE  LET t == clip_delete(s, id) IN
         /\ ClipFollows(s, t)
         /\ \A e \in Favourites(s) : FavouriteStays(s, t, "delete", id, e)
         /\ \A e \in Recent(s) : RecentStays(s, t, "delete", id, e)
<1> DEFINE t == clip_delete(s, id)
           i == IndexOf(s.ring, id)
           f == IndexOf(s.favorites, id)
<1>1. s.ring \in Seq(Entry) /\ s.favorites \in Seq(Entry) /\ s.next_id \in Nat
  BY DEF WithinLimits, Stores
<1>2. /\ i \in 0..Len(s.ring) /\ (i # 0 => s.ring[i].id = id)
      /\ f \in 0..Len(s.favorites) /\ (f # 0 => s.favorites[f].id = id)
  BY <1>1, FoundAt
<1>3. t = IF i # 0 THEN [s EXCEPT !.ring = RemoveAt(@, i)]
          ELSE IF f # 0 THEN [s EXCEPT !.favorites = RemoveAt(@, f)] ELSE s
  BY DEF clip_delete
<1> HIDE DEF t, i, f
<1>4. CASE i # 0
  <2>1. i \in 1..Len(s.ring)
    BY <1>2, <1>4
  <2>2. /\ WithinLimits(t) /\ Numbered(t) /\ Clips(t) \subseteq Clips(s)
        /\ t.next_id = s.next_id /\ Recent(s) \subseteq Recent(t) \cup {s.ring[i]}
        /\ Favourites(t) = Favourites(s)
    BY <1>3, <1>4, <2>1, RingRemoved
  <2> QED BY <1>1, <1>2, <1>4, <2>2 DEF t, ClipFollows, FavouriteStays, RecentStays, Clips
<1>5. CASE i = 0 /\ f # 0
  <2>1. f \in 1..Len(s.favorites)
    BY <1>2, <1>5
  <2>2. /\ WithinLimits(t) /\ Numbered(t) /\ Clips(t) \subseteq Clips(s)
        /\ t.next_id = s.next_id /\ t.ring = s.ring
        /\ Favourites(s) \subseteq Favourites(t) \cup {s.favorites[f]}
    BY <1>3, <1>5, <2>1, FavouriteRemoved
  <2>3. Recent(t) = Recent(s)
    BY <2>2 DEF Recent
  <2> QED BY <1>1, <1>2, <1>5, <2>2, <2>3
          DEF t, ClipFollows, FavouriteStays, RecentStays, Clips
<1>6. CASE i = 0 /\ f = 0
  <2>1. t = s
    BY <1>3, <1>6
  <2> QED BY <2>1, SameFollows DEF t, FavouriteStays, RecentStays, Clips
<1> QED BY <1>4, <1>5, <1>6

LEMMA PinFollows ==
  ASSUME NEW s, WithinLimits(s), Numbered(s), NEW id
  PROVE  LET t == clip_pin(s, id) IN
         /\ ClipFollows(s, t) /\ Favourites(s) \subseteq Favourites(t)
         /\ Recent(s) \subseteq Clips(t)
<1> DEFINE t == clip_pin(s, id)
           i == IndexOf(s.ring, id)
           e == s.ring[i]
           fs == Append(s.favorites, e)
           u == [s EXCEPT !.ring = RemoveAt(@, i)]
<1>1. /\ s \in Stores /\ s.ring \in Seq(Entry) /\ s.favorites \in Seq(Entry)
      /\ s.next_id \in Nat \ {0} /\ Len(s.favorites) \in Nat /\ CLIP_FAV_MAX \in Nat
  BY ClipboardAssumption DEF WithinLimits, Stores
<1>2. i \in 0..Len(s.ring)
  BY <1>1, FoundAt
<1>3. CASE Len(s.favorites) >= CLIP_FAV_MAX \/ i = 0
  <2>1. t = s
    BY <1>3 DEF clip_pin
  <2> HIDE DEF t
  <2> QED BY <2>1, SameFollows DEF t, Clips
<1>4. CASE ~(Len(s.favorites) >= CLIP_FAV_MAX \/ i = 0)
  <2>1. t = [next_id |-> s.next_id, ring |-> RemoveAt(s.ring, i), favorites |-> fs]
    BY <1>1, <1>4 DEF clip_pin, Stores
  <2>2. u = [next_id |-> s.next_id, ring |-> RemoveAt(s.ring, i),
             favorites |-> s.favorites]
    BY <1>1 DEF Stores
  <2>3. i \in 1..Len(s.ring) /\ e \in Entry /\ e \in Recent(s)
    BY <1>1, <1>2, <1>4 DEF Recent, ToSet
  <2> HIDE DEF i, t
  <2>4. /\ WithinLimits(u) /\ Numbered(u) /\ Clips(u) \subseteq Clips(s)
        /\ Recent(s) \subseteq Recent(u) \cup {e}
    BY <2>3, RingRemoved
  <2> HIDE DEF u, e
  <2>5. /\ fs \in Seq(Entry) /\ Len(fs) = Len(s.favorites) + 1
        /\ \A k \in 1..Len(s.favorites) : fs[k] = s.favorites[k]
        /\ fs[Len(s.favorites) + 1] = e
    BY <1>1, <2>3, AppendProperties
  <2> HIDE DEF fs
  <2>6. ToSet(fs) = ToSet(s.favorites) \cup {e}
    <3>1. DOMAIN fs = 1..(Len(s.favorites) + 1)
          /\ DOMAIN s.favorites = 1..Len(s.favorites)
      BY <1>1, <2>5
    <3>2. 1..(Len(s.favorites) + 1) = 1..Len(s.favorites) \cup {Len(s.favorites) + 1}
      BY <1>1
    <3> QED BY <3>1, <3>2, <2>5 DEF ToSet
  <2>7. Recent(t) = Recent(u) /\ Favourites(t) = Favourites(s) \cup {e}
        /\ Favourites(u) = Favourites(s)
    BY <2>1, <2>2, <2>6 DEF Recent, Favourites
  <2>8. WithinLimits(t)
    <3>1. RemoveAt(s.ring, i) \in Seq(Entry) /\ Len(RemoveAt(s.ring, i)) <= CLIP_RING_MAX
      BY <2>2, <2>4 DEF WithinLimits, Stores
    <3>2. Len(fs) <= CLIP_FAV_MAX
      BY <1>1, <1>4, <2>5
    <3> QED BY <1>1, <2>1, <2>5, <3>1, <3>2 DEF WithinLimits, Stores
  <2>9. \A r \in Recent(u) : r.id # e.id
    <3> SUFFICES ASSUME NEW j \in 1..Len(RemoveAt(s.ring, i))
                 PROVE  RemoveAt(s.ring, i)[j].id # e.id
      <4>1. DOMAIN RemoveAt(s.ring, i) = 1..Len(RemoveAt(s.ring, i))
        BY <2>2, <2>4 DEF WithinLimits, Stores
      <4> QED BY <2>2, <4>1 DEF Recent, ToSet
    <3> DEFINE k == IF j < i THEN j ELSE j + 1
    <3>1. /\ Len(RemoveAt(s.ring, i)) = Len(s.ring) - 1
          /\ \A m \in 1..(Len(s.ring) - 1) :
               RemoveAt(s.ring, i)[m] = s.ring[IF m < i THEN m ELSE m + 1]
      <4>1. PICK q \in Seq(Entry) : q = s.ring
        BY <1>1
      <4>2. i \in 1..Len(q)
        BY <4>1, <2>3
      <4> HIDE DEF k
      <4>3. /\ Len(RemoveAt(q, i)) = Len(q) - 1
            /\ \A m \in 1..(Len(q) - 1) :
                 RemoveAt(q, i)[m] = q[IF m < i THEN m ELSE m + 1]
        BY <4>2, RemovedAt
      <4> QED BY <4>1, <4>3, Zenon
    <3>2. Len(s.ring) \in Nat
      BY <1>1
    <3>3. k \in 1..Len(s.ring) /\ k # i /\ RemoveAt(s.ring, i)[j] = s.ring[k]
      BY <2>3, <3>1, <3>2
    <3> HIDE DEF k
    <3>4. s.ring[k].id \in Nat /\ s.ring[i].id \in Nat
      <4>1. s.ring[k] \in Entry /\ s.ring[i] \in Entry
        BY <1>1, <2>3, <3>3
      <4> QED BY <4>1 DEF Entry
    <3>5. CASE k < i
      BY <2>3, <3>3, <3>4, <3>5 DEF Numbered, e
    <3>6. CASE i < k
      BY <2>3, <3>3, <3>4, <3>6 DEF Numbered, e
    <3> QED BY <2>3, <3>3, <3>5, <3>6
  <2>10. \A k, m \in 1..Len(fs) : k # m => fs[k].id # fs[m].id
    <3>1. \A k \in 1..Len(s.favorites) : s.favorites[k].id # e.id
      BY <1>1, <2>3 DEF Numbered, Favourites, ToSet
    <3> SUFFICES ASSUME NEW k \in 1..Len(fs), NEW m \in 1..Len(fs), k # m
                 PROVE  fs[k].id # fs[m].id
      OBVIOUS
    <3>2. CASE k = Len(s.favorites) + 1
      <4>1. m \in 1..Len(s.favorites)
        BY <1>1, <2>5, <3>2
      <4> QED BY <3>1, <3>2, <4>1, <2>5
    <3>3. CASE m = Len(s.favorites) + 1
      <4>1. k \in 1..Len(s.favorites)
        BY <1>1, <2>5, <3>3
      <4> QED BY <3>1, <3>3, <4>1, <2>5
    <3>4. CASE k # Len(s.favorites) + 1 /\ m # Len(s.favorites) + 1
      <4>1. k \in 1..Len(s.favorites) /\ m \in 1..Len(s.favorites)
        BY <1>1, <2>5, <3>4
      <4> QED BY <4>1, <2>5 DEF Numbered
    <3> QED BY <3>2, <3>3, <3>4
  <2>11. Numbered(t)
    <3>1. t.ring = u.ring /\ t.next_id = u.next_id /\ t.favorites = fs
      BY <2>1, <2>2
    <3>2. \A r \in Recent(t), f \in Favourites(t) : r.id # f.id
      BY <2>4, <2>7, <2>9 DEF Numbered
    <3>3. \A c \in Clips(t) : c.id < t.next_id
      <4>1. Clips(t) \subseteq Clips(u) \cup {e}
        BY <2>7 DEF Clips
      <4>2. e.id < s.next_id /\ t.next_id = s.next_id
        BY <2>1, <2>3 DEF Numbered, Clips
      <4> QED BY <4>1, <4>2, <3>1, <2>4 DEF Numbered
    <3> QED BY <3>1, <3>2, <3>3, <2>4, <2>10 DEF Numbered
  <2>12. t.next_id = s.next_id
    BY <2>1
  <2> QED BY <1>1, <2>3, <2>4, <2>7, <2>8, <2>11, <2>12 DEF t, ClipFollows, Clips
<1> QED BY <1>3, <1>4

LEMMA UnpinFollows ==
  ASSUME NEW s, WithinLimits(s), Numbered(s), NEW id
  PROVE  LET t == clip_unpin(s, id) IN
         /\ ClipFollows(s, t)
         /\ \A e \in Favourites(s) : FavouriteStays(s, t, "unpin", id, e)
         /\ \A e \in Recent(s) : RecentStays(s, t, "unpin", id, e)
<1> DEFINE i == IndexOf(s.favorites, id)
           e == s.favorites[i]
           u == [s EXCEPT !.favorites = RemoveAt(@, i)]
           t == clip_unpin(s, id)
<1>1. /\ s \in Stores /\ s.ring \in Seq(Entry) /\ s.favorites \in Seq(Entry)
      /\ s.next_id \in Nat
  BY DEF WithinLimits, Stores
<1>2. i \in 0..Len(s.favorites) /\ (i # 0 => e.id = id)
  BY <1>1, FoundAt
<1>3. CASE i = 0 \/ IndexOf(s.ring, id) # 0
  <2>1. t = s
    BY <1>3 DEF clip_unpin
  <2> HIDE DEF t
  <2> QED BY <2>1, SameFollows DEF t, FavouriteStays, RecentStays, Clips
<1>4. CASE ~(i = 0 \/ IndexOf(s.ring, id) # 0)
  <2>1. t = clip_add(u, e.text)
    BY <1>4 DEF clip_unpin
  <2> HIDE DEF i
  <2>0. i \in 1..Len(s.favorites) /\ e \in Entry
    BY <1>1, <1>2, <1>4
  <2>2. i \in 1..Len(s.favorites) /\ e \in Entry /\ e.text \in Texts
    BY <2>0 DEF Entry
  <2> HIDE DEF t
  <2>3. /\ WithinLimits(u) /\ Numbered(u) /\ Clips(u) \subseteq Clips(s)
        /\ u.next_id = s.next_id /\ u.ring = s.ring
        /\ Favourites(s) \subseteq Favourites(u) \cup {e}
    BY <2>2, FavouriteRemoved
  <2> HIDE DEF u, e
  <2>4. /\ Last(t.ring) = [id |-> u.next_id, text |-> e.text]
        /\ t.favorites = u.favorites
    BY <2>1, <2>2, <2>3, ClipAdded
  <2>5. /\ ClipFollows(u, t)
        /\ \A c \in Recent(u) : RecentStays(u, t, "unpin", id, c)
    BY <2>1, <2>2, <2>3, AddFollows
  <2>6. ClipFollows(s, t)
    BY <2>3, <2>5 DEF ClipFollows
  <2>7. Last(t.ring).text = e.text /\ Favourites(t) = Favourites(u)
    BY <2>4 DEF Favourites
  <2>8. \A c \in Favourites(s) : FavouriteStays(s, t, "unpin", id, c)
    BY <1>2, <1>4, <2>3, <2>7 DEF FavouriteStays, e, i
  <2>9. \A c \in Recent(s) : RecentStays(s, t, "unpin", id, c)
    BY <2>3, <2>5 DEF RecentStays, Recent
  <2> QED BY <2>6, <2>8, <2>9 DEF t
<1> QED BY <1>3, <1>4
-----------------------------------------------------------------------------
(* The invariant: types, numbers in memory and in flash, and what a link on *)
(* a page may still name.                                                   *)

\* A link shown names a number already given, and no clip but its own has it.
LinkGiven ==
  ~lost /\ link # Absent =>
    /\ link \in Entry /\ link.id < g_store.next_id
    /\ \A e \in Clips(g_store) : e.id = link.id => e = link

ClipInv ==
  /\ ClipTypeOK /\ OneNumberEach /\ MemoryIsSaved /\ LinkGiven
  /\ flash # Absent => Numbered(flash)

LEMMA FreshFine == WithinLimits(Fresh) /\ Numbered(Fresh)
<1>1. <<>> \in Seq(Entry) /\ Len(<<>>) = 0 /\ ToSet(<<>>) = {}
  BY DEF ToSet
<1>2. WithinLimits(Fresh)
  BY <1>1, ClipboardAssumption DEF WithinLimits, Stores, Fresh
<1>3. Numbered(Fresh)
  BY <1>1 DEF Numbered, Fresh, Clips, Recent, Favourites
<1> QED BY <1>2, <1>3

\* What a handler leaves, if it follows from what it found, is saved or known
\* not to be, and no link loses its clip to another.
LEMMA BecomesStep ==
  ASSUME ClipInv, NEW t, ClipFollows(g_store, t), Becomes(t)
  PROVE  ClipInv'
<1>1. /\ g_store' = t /\ SaveIfDone(g_store, t) /\ link' = link /\ lost' = lost
      /\ WithinLimits(t) /\ Numbered(t) /\ g_store.next_id <= t.next_id
      /\ \A e \in Clips(t) : e \in Clips(g_store) \/ e.id >= g_store.next_id
  BY DEF Becomes, ClipFollows
<1>2. /\ WithinLimits(g_store) /\ link \in Entry \cup {Absent}
      /\ unsaved \in BOOLEAN /\ lost \in BOOLEAN
      /\ flash # Absent => WithinLimits(flash) /\ Numbered(flash)
  BY DEF ClipInv, ClipTypeOK
<1>3. t # Absent
  BY <1>1, ClipboardAssumption DEF WithinLimits
<1>4. /\ flash' # Absent => WithinLimits(flash') /\ Numbered(flash')
      /\ unsaved' \in BOOLEAN /\ (unsaved' \/ t = Stored')
  <2>1. CASE t = g_store
    BY <1>1, <1>2, <2>1 DEF SaveIfDone, ClipInv, MemoryIsSaved, Stored
  <2>2. CASE flash' = t /\ unsaved' = FALSE
    BY <1>1, <1>3, <2>2 DEF Stored
  <2>3. CASE flash' = flash /\ unsaved' = TRUE
    BY <1>2, <2>3
  <2> QED BY <1>1, <2>1, <2>2, <2>3 DEF SaveIfDone, Save
<1>5. LinkGiven'
  <2> SUFFICES ASSUME ~lost, link # Absent
               PROVE  /\ link \in Entry /\ link.id < t.next_id
                      /\ \A e \in Clips(t) : e.id = link.id => e = link
    BY <1>1 DEF LinkGiven
  <2>1. /\ link \in Entry /\ link.id < g_store.next_id
        /\ \A e \in Clips(g_store) : e.id = link.id => e = link
    BY DEF ClipInv, LinkGiven
  <2>2. link.id \in Nat /\ g_store.next_id \in Nat /\ t.next_id \in Nat
    BY <1>1, <1>2, <2>1 DEF Entry, WithinLimits, Stores
  <2>3. \A e \in Clips(t) : e.id \in Nat
    BY <1>1, NumbersAreNat
  <2> QED BY <1>1, <2>1, <2>2, <2>3
<1>6. ClipTypeOK' /\ OneNumberEach' /\ MemoryIsSaved'
  BY <1>1, <1>2, <1>4 DEF ClipTypeOK, OneNumberEach, MemoryIsSaved
<1> QED BY <1>4, <1>5, <1>6 DEF ClipInv

\* Each link's operation follows from the store it finds.
LEMMA ActionFollows ==
  ASSUME NEW s, WithinLimits(s), Numbered(s),
         NEW act \in {"pin", "unpin", "delete"}, NEW id
  PROVE  LET t == Performed(s, act, id) IN
         /\ ClipFollows(s, t)
         /\ \A e \in Favourites(s) : FavouriteStays(s, t, act, id, e)
         /\ \A e \in Recent(s) : RecentStays(s, t, act, id, e)
<1>1. CASE act = "pin"
  BY <1>1, PinFollows DEF Performed, FavouriteStays, RecentStays
<1>2. CASE act = "unpin"
  BY <1>2, UnpinFollows DEF Performed
<1>3. CASE act = "delete"
  BY <1>3, DeleteFollows DEF Performed
<1> QED BY <1>1, <1>2, <1>3

\* What one sequence put behind another is, place by place.
LEMMA Joined ==
  ASSUME NEW S, NEW a \in Seq(S), NEW b \in Seq(S)
  PROVE  /\ a \o b \in Seq(S) /\ Len(a \o b) = Len(a) + Len(b)
         /\ \A k \in 1..(Len(a) + Len(b)) :
              (a \o b)[k] = IF k <= Len(a) THEN a[k] ELSE b[k - Len(a)]
BY ConcatProperties

LEMMA PageStep ==
  ASSUME ClipInv, PageGet
  PROVE  ClipInv'
<1>1. /\ link' \in ToSet(Listed(g_store)) /\ g_store' = g_store /\ flash' = flash
      /\ unsaved' = unsaved /\ lost' = lost
  BY DEF PageGet
<1>2. WithinLimits(g_store) /\ Numbered(g_store)
  BY DEF ClipInv, ClipTypeOK, OneNumberEach
<1>3. link' \in Clips(g_store)
  <2> DEFINE fs == g_store.favorites
             ring == g_store.ring
             back == Reverse(ring)
  <2>1. fs \in Seq(Entry) /\ ring \in Seq(Entry) /\ Len(ring) \in Nat
        /\ Len(fs) \in Nat
    BY <1>2 DEF WithinLimits, Stores
  <2>2. \A k \in 1..Len(ring) : (Len(ring) - k) + 1 \in 1..Len(ring)
    BY <2>1
  <2>3. back \in [1..Len(ring) -> Entry]
        /\ \A k \in 1..Len(ring) : back[k] = ring[(Len(ring) - k) + 1]
    BY <2>1, <2>2 DEF Reverse
  <2>0. link' \in ToSet(fs \o back)
    BY <1>1 DEF Listed
  <2>a. /\ \A j \in 1..Len(fs) : fs[j] \in Clips(g_store)
        /\ \A j \in 1..Len(ring) : ring[j] \in Clips(g_store)
    BY <2>1 DEF Clips, Favourites, Recent, ToSet
  <2> HIDE DEF back, ring, fs
  <2>4. back \in Seq(Entry) /\ Len(back) = Len(ring)
    BY <2>1, <2>3, FunctionIsSeq
  <2>5. /\ fs \o back \in Seq(Entry) /\ Len(fs \o back) = Len(fs) + Len(ring)
        /\ \A k \in 1..(Len(fs) + Len(ring)) :
             (fs \o back)[k] = IF k <= Len(fs) THEN fs[k] ELSE back[k - Len(fs)]
    <3>1. Len(fs) + Len(back) = Len(fs) + Len(ring)
      BY <2>4
    <3>2. fs \in Seq(Entry) /\ back \in Seq(Entry)
      BY <2>1, <2>4
    <3>3. /\ fs \o back \in Seq(Entry) /\ Len(fs \o back) = Len(fs) + Len(back)
          /\ \A k \in 1..(Len(fs) + Len(back)) :
             (fs \o back)[k] = IF k <= Len(fs) THEN fs[k] ELSE back[k - Len(fs)]
      BY <3>2, Joined
    <3> QED BY <3>1, <3>3
  <2>6. PICK k \in 1..(Len(fs) + Len(ring)) : link' = (fs \o back)[k]
    <3>1. PICK k \in DOMAIN (fs \o back) : link' = (fs \o back)[k]
      BY <2>0 DEF ToSet
    <3>2. DOMAIN (fs \o back) = 1..(Len(fs) + Len(ring))
      BY <2>5
    <3> QED BY <3>1, <3>2
  <2>7. CASE k <= Len(fs)
    <3>1. link' = fs[k] /\ k \in 1..Len(fs)
      BY <2>1, <2>5, <2>6, <2>7
    <3> QED BY <3>1, <2>a
  <2>8. CASE ~(k <= Len(fs))
    <3>1. link' = back[k - Len(fs)]
      BY <2>5, <2>6, <2>8
    <3>2. k - Len(fs) \in 1..Len(ring)
      BY <2>1, <2>8
    <3>3. link' = ring[(Len(ring) - (k - Len(fs))) + 1]
      BY <3>1, <3>2, <2>3
    <3> QED BY <3>2, <3>3, <2>2, <2>a
  <2> QED BY <2>7, <2>8
<1>4. link' \in Entry /\ link'.id < g_store.next_id
  BY <1>2, <1>3, NumbersAreNat DEF Numbered
<1>5. \A e \in Clips(g_store) : e.id = link'.id => e = link'
  <2> SUFFICES ASSUME NEW e \in Clips(g_store), NEW l \in Clips(g_store), e.id = l.id
               PROVE  e = l
    BY <1>3
  <2>1. g_store.ring \in Seq(Entry) /\ g_store.favorites \in Seq(Entry)
        /\ \A k \in 1..Len(g_store.ring) : g_store.ring[k].id \in Nat
    <3>1. g_store.ring \in Seq(Entry) /\ g_store.favorites \in Seq(Entry)
      BY <1>2 DEF WithinLimits, Stores
    <3>2. \A k \in 1..Len(g_store.ring) : g_store.ring[k] \in Clips(g_store)
      BY <3>1 DEF Clips, Recent, ToSet
    <3>3. \A c \in Clips(g_store) : c.id \in Nat
      BY <1>2, NumbersAreNat
    <3> QED BY <3>1, <3>2, <3>3, Zenon
  <2>2. CASE e \in Recent(g_store) /\ l \in Recent(g_store)
    <3>1. PICK i \in 1..Len(g_store.ring) : e = g_store.ring[i]
      BY <2>1, <2>2 DEF Recent, ToSet
    <3>2. PICK j \in 1..Len(g_store.ring) : l = g_store.ring[j]
      BY <2>1, <2>2 DEF Recent, ToSet
    <3>3. ~(i < j) /\ ~(j < i)
      BY <1>2, <2>1, <3>1, <3>2 DEF Numbered
    <3> QED BY <3>1, <3>2, <3>3
  <2>3. CASE e \in Favourites(g_store) /\ l \in Favourites(g_store)
    <3>1. PICK i \in 1..Len(g_store.favorites) : e = g_store.favorites[i]
      BY <2>1, <2>3 DEF Favourites, ToSet
    <3>2. PICK j \in 1..Len(g_store.favorites) : l = g_store.favorites[j]
      BY <2>1, <2>3 DEF Favourites, ToSet
    <3> QED BY <1>2, <3>1, <3>2 DEF Numbered
  <2>4. CASE e \in Recent(g_store) /\ l \in Favourites(g_store)
    BY <1>2, <2>4 DEF Numbered
  <2>5. CASE e \in Favourites(g_store) /\ l \in Recent(g_store)
    BY <1>2, <2>5 DEF Numbered
  <2> QED BY <2>2, <2>3, <2>4, <2>5 DEF Clips
<1>6. LinkGiven'
  BY <1>1, <1>4, <1>5 DEF LinkGiven
<1>7. ClipTypeOK' /\ OneNumberEach' /\ MemoryIsSaved'
  BY <1>1, <1>4 DEF ClipInv, ClipTypeOK, OneNumberEach, MemoryIsSaved, Stored
<1> QED BY <1>1, <1>6, <1>7 DEF ClipInv

LEMMA RebootStep ==
  ASSUME ClipInv, Reboot
  PROVE  ClipInv'
<1>1. PICK s \in {Stored, Fresh} :
        /\ g_store' = s
        /\ unsaved' = (s # Stored) /\ lost' = (lost \/ s # g_store)
  BY DEF Reboot
<1>2. flash' = flash /\ link' = link
  BY DEF Reboot
<1>3. WithinLimits(s) /\ Numbered(s)
  BY <1>1, FreshFine DEF Stored, ClipInv, ClipTypeOK
<1>4. ClipTypeOK'
  BY <1>1, <1>2, <1>3 DEF ClipInv, ClipTypeOK
<1>5. OneNumberEach' /\ MemoryIsSaved'
  BY <1>1, <1>2, <1>3 DEF OneNumberEach, MemoryIsSaved, Stored
<1>6. LinkGiven'
  <2>1. ~lost' => g_store' = g_store /\ ~lost
    BY <1>1 DEF ClipInv, ClipTypeOK
  <2> QED BY <2>1, <1>2 DEF ClipInv, LinkGiven
<1> QED BY <1>2, <1>4, <1>5, <1>6 DEF ClipInv

LEMMA ClipStep == ClipInv /\ [ClipNext]_clipVars => ClipInv'
<1> SUFFICES ASSUME ClipInv, [ClipNext]_clipVars PROVE ClipInv'
  OBVIOUS
<1>0. WithinLimits(g_store) /\ Numbered(g_store)
  BY DEF ClipInv, ClipTypeOK, OneNumberEach
<1>1. CASE AddPost
  BY <1>0, <1>1, AddFollows, BecomesStep DEF AddPost
<1>2. CASE \E act \in {"pin", "unpin", "delete"}, id \in Numbers : ActionGet(act, id)
  BY <1>0, <1>2, ActionFollows, BecomesStep DEF ActionGet
<1>3. CASE PageGet
  BY <1>3, PageStep
<1>4. CASE Reboot
  BY <1>4, RebootStep
<1>5. CASE UNCHANGED clipVars
  BY <1>5 DEF clipVars, ClipInv, ClipTypeOK, OneNumberEach, MemoryIsSaved, LinkGiven,
              Stored
<1> QED BY <1>1, <1>2, <1>3, <1>4, <1>5 DEF ClipNext

LEMMA ClipInvariance == ClipSpec => []ClipInv
<1>1. ClipInit => ClipInv
  BY FreshFine DEF ClipInit, ClipInv, ClipTypeOK, OneNumberEach, MemoryIsSaved,
                   LinkGiven, Stored
<1> QED BY <1>1, ClipStep, PTL DEF ClipSpec

-----------------------------------------------------------------------------
\* The store keeps within its limits, numbers name one clip each and were given
\* in order, and flash has what memory has unless a save is known to have
\* failed: clip_add(), clip_pin(), clip_unpin() and clip_delete() in any order.
THEOREM ClipSafetyCorrect == ClipSpec => []ClipSafety
<1>1. ClipInv => ClipSafety
  BY DEF ClipInv, ClipSafety
<1> QED BY <1>1, ClipInvariance, PTL

\* However old a page is, its links are to the clip it showed or to none, unless
\* numbers were forgotten by a reboot.
THEOREM LinksCorrect == ClipSpec => []LinksHold
<1>1. ClipInv => LinksHold
  BY DEF ClipInv, LinkGiven, LinksHold
<1> QED BY <1>1, ClipInvariance, PTL

LEMMA FavouriteStep ==
  ASSUME ClipInv, ClipNext, NEW e \in Favourites(g_store)
  PROVE  \/ e \in Favourites(g_store)' \/ lost'
         \/ ActionGet("delete", e.id)
         \/ ActionGet("unpin", e.id) /\ Last(g_store.ring)'.text = e.text
<1>0. WithinLimits(g_store) /\ Numbered(g_store)
  BY DEF ClipInv, ClipTypeOK, OneNumberEach
<1>1. CASE AddPost
  <2>1. PICK text \in Texts \cup {Empty} : g_store' = clip_add(g_store, text)
    BY <1>1 DEF AddPost, Becomes
  <2>2. g_store'.favorites = g_store.favorites
    BY <2>1, <1>0, AddFollows
  <2> QED BY <2>2 DEF Favourites
<1>2. CASE \E act \in {"pin", "unpin", "delete"}, id \in Numbers : ActionGet(act, id)
  <2>1. PICK act \in {"pin", "unpin", "delete"}, id \in Numbers : ActionGet(act, id)
    BY <1>2
  <2>2. g_store' = Performed(g_store, act, id)
    BY <2>1 DEF ActionGet, Becomes
  <2>3. FavouriteStays(g_store, g_store', act, id, e)
    BY <2>2, <1>0, ActionFollows
  <2> QED BY <2>1, <2>3 DEF FavouriteStays, Favourites
<1>3. CASE PageGet
  BY <1>3 DEF PageGet
<1>4. CASE Reboot
  <2>1. lost' \/ g_store' = g_store
    BY <1>4 DEF Reboot
  <2> QED BY <2>1
<1> QED BY <1>1, <1>2, <1>3, <1>4 DEF ClipNext

LEMMA RecentStep ==
  ASSUME ClipInv, ClipNext, NEW e \in Recent(g_store)
  PROVE  \/ e \in Clips(g_store)' \/ lost'
         \/ ActionGet("delete", e.id)
         \/ /\ Len(g_store.ring) = CLIP_RING_MAX /\ e = Head(g_store.ring)
            /\ \E n \in Recent(g_store)' : n.id >= g_store.next_id
<1>0. WithinLimits(g_store) /\ Numbered(g_store)
  BY DEF ClipInv, ClipTypeOK, OneNumberEach
<1>1. CASE AddPost
  <2>1. PICK text \in Texts \cup {Empty} : g_store' = clip_add(g_store, text)
    BY <1>1 DEF AddPost, Becomes
  <2>2. RecentStays(g_store, g_store', "add", 0, e)
    BY <2>1, <1>0, AddFollows
  <2> QED BY <2>2 DEF RecentStays
<1>2. CASE \E act \in {"pin", "unpin", "delete"}, id \in Numbers : ActionGet(act, id)
  <2>1. PICK act \in {"pin", "unpin", "delete"}, id \in Numbers : ActionGet(act, id)
    BY <1>2
  <2>2. g_store' = Performed(g_store, act, id)
    BY <2>1 DEF ActionGet, Becomes
  <2>3. RecentStays(g_store, g_store', act, id, e)
    BY <2>2, <1>0, ActionFollows
  <2> QED BY <2>1, <2>3 DEF RecentStays
<1>3. CASE PageGet
  BY <1>3 DEF PageGet, Clips
<1>4. CASE Reboot
  <2>1. lost' \/ g_store' = g_store
    BY <1>4 DEF Reboot
  <2> QED BY <2>1 DEF Clips
<1> QED BY <1>1, <1>2, <1>3, <1>4 DEF ClipNext

\* A favourite goes only by its own link, and an unpinned one is the newest of
\* the ring; a recent clip goes only when deleted, or as the oldest of a full
\* ring: pinning, unpinning and adding lose nothing else.
THEOREM ClipsKeptCorrect == ClipSpec => ClipsKept
<1> DEFINE F == \A e \in Favourites(g_store) :
                  \/ e \in Favourites(g_store)' \/ lost'
                  \/ ActionGet("delete", e.id)
                  \/ /\ ActionGet("unpin", e.id)
                     /\ Last(g_store.ring)'.text = e.text
           R == \A e \in Recent(g_store) :
                  \/ e \in Clips(g_store)' \/ lost'
                  \/ ActionGet("delete", e.id)
                  \/ /\ Len(g_store.ring) = CLIP_RING_MAX /\ e = Head(g_store.ring)
                     /\ \E n \in Recent(g_store)' : n.id >= g_store.next_id
<1>1. ClipInv /\ [ClipNext]_clipVars => [F]_clipVars
  BY FavouriteStep
<1>2. ClipInv /\ [ClipNext]_clipVars => [R]_clipVars
  BY RecentStep
<1>3. ClipSpec => [][F]_clipVars
  BY <1>1, ClipInvariance, PTL DEF ClipSpec
<1>4. ClipSpec => [][R]_clipVars
  BY <1>2, ClipInvariance, PTL DEF ClipSpec
<1> QED BY <1>3, <1>4 DEF ClipsKept, FavouritesKept, OnlyOldestEvicted
=============================================================================
