------------------------- MODULE SharedStateProofs -------------------------
(***************************************************************************)
(* Proofs about what the threads share without a lock of their own.        *)
(*                                                                         *)
(* Bridge, for a tcpip mailbox of any size: NAT agrees with the links, and *)
(* the page goes with them but for a look that was overtaken.              *)
(*                                                                         *)
(* WifiScan, for lists of any size: what the pages read while the worker   *)
(* scans and chooses, and what the lists hold once it has. The invariant   *)
(* ScanInv follows build_candidate_list() through its two loops.           *)
(***************************************************************************)
EXTENDS Bridge, WifiScan, SequenceTheorems, WellFoundedInduction, TLAPS

-----------------------------------------------------------------------------
(* Bridge                                                                  *)

\* Inside its own handler a thread's own link is still as it set it.
OwnLink ==
  /\ bt_pc \in {"event", "busy", "creds", "nat", "read", "page"} => bt_connected
  /\ Closing => ~bt_connected
  /\ wk_pc \in {"nat", "read", "page"} => wifi_connected

IInv == TypeOK /\ NatAgrees /\ OwnLink /\ PageTrue

\* A post leaves a callback in the mailbox or is recorded as lost.
LEMMA PostType ==
  ASSUME callbacks \in 0..MboxSize, lost \in BOOLEAN, PostNat
  PROVE  /\ callbacks' \in 0..MboxSize
         /\ lost' \in BOOLEAN
         /\ callbacks' > 0 \/ lost'
<1>1. CASE callbacks < MboxSize /\ callbacks' = callbacks + 1 /\ UNCHANGED lost
  BY <1>1, BridgeAssumption
<1>2. CASE lost' = TRUE /\ UNCHANGED callbacks
  BY <1>2
<1> QED BY <1>1, <1>2 DEF PostNat

LEMMA TypeStep ==
  ASSUME TypeOK, Next
  PROVE  TypeOK'
<1> USE DEF TypeOK, AppStates, BtPcs, WkPcs, pageVars
<1>1. CASE ChannelOpened \/ ChannelClosed
  <2> HIDE DEF AppStates, WkPcs
  <2>1. CASE ChannelOpened
    <3>1. bt_connected' \in BOOLEAN /\ bt_pc' \in BtPcs
      BY <2>1 DEF ChannelOpened
    <3>2. UNCHANGED <<pageVars, bt_saw_wifi, callbacks, lost, wkVars, natVars, any_saved>>
      BY <2>1 DEF ChannelOpened, OthersThanBt
    <3> QED BY <3>1, <3>2 DEF wkVars, natVars
  <2>2. CASE ChannelClosed
    <3>1. bt_connected' \in BOOLEAN /\ bt_pc' \in BtPcs
      BY <2>2 DEF ChannelClosed
    <3>2. UNCHANGED <<pageVars, bt_saw_wifi, callbacks, lost, wkVars, natVars, any_saved>>
      BY <2>2 DEF ChannelClosed, OthersThanBt
    <3> QED BY <3>1, <3>2 DEF wkVars, natVars
  <2> QED BY <1>1, <2>1, <2>2
<1>2. CASE OnBtEvent \/ OnBtBusy \/ OnBtCredentials
  BY <1>2 DEF OnBtEvent, OnBtBusy, OnBtCredentials, OthersThanBt, wkVars, natVars
<1>3. CASE DownlinkUp \/ DownlinkDown
  <2>1. callbacks' \in 0..MboxSize /\ lost' \in BOOLEAN
    BY <1>3, PostType DEF DownlinkUp, DownlinkDown
  <2> QED BY <1>3, <2>1 DEF DownlinkUp, DownlinkDown, OthersThanBt, wkVars, natVars
<1>4. CASE ReadUplink \/ BtPage \/ ClosedPage
  <2>1. CASE ReadUplink
    BY <2>1 DEF ReadUplink, OthersThanBt, wkVars, natVars
  <2>2. CASE BtPage \/ ClosedPage
    <3>1. app' \in AppStates /\ bt_pc' \in BtPcs
      BY <2>2 DEF BtPage, ClosedPage
    <3>2. overtaken' \in BOOLEAN
      BY <2>2 DEF BtPage, ClosedPage
    <3>3. UNCHANGED <<bt_connected, bt_saw_wifi, callbacks, lost, wkVars, natVars,
                      any_saved>>
      BY <2>2 DEF BtPage, ClosedPage, OthersThanBt
    <3> HIDE DEF AppStates, BtPcs, WkPcs
    <3> QED BY <3>1, <3>2, <3>3 DEF wkVars, natVars
  <2> QED BY <1>4, <2>1, <2>2
<1>5. CASE GotIp \/ LinkLost \/ ReadDownlink
  <2> HIDE DEF AppStates, BtPcs
  <2>1. CASE GotIp
    <3>1. wifi_connected' \in BOOLEAN /\ wk_pc' \in WkPcs
      BY <2>1 DEF GotIp
    <3>2. UNCHANGED <<wk_saw_bt, pageVars, any_saved, callbacks, lost, btVars, natVars>>
      BY <2>1 DEF GotIp, OthersThanWorker
    <3> QED BY <3>1, <3>2 DEF btVars, natVars
  <2>2. CASE LinkLost
    <3>1. wifi_connected' \in BOOLEAN /\ wk_pc' \in WkPcs
      BY <2>2 DEF LinkLost
    <3>2. UNCHANGED <<wk_saw_bt, pageVars, any_saved, callbacks, lost, btVars, natVars>>
      BY <2>2 DEF LinkLost, OthersThanWorker
    <3> QED BY <3>1, <3>2 DEF btVars, natVars
  <2>3. CASE ReadDownlink
    <3>1. wk_saw_bt' \in BOOLEAN /\ wk_pc' \in WkPcs
      BY <2>3 DEF ReadDownlink
    <3>2. UNCHANGED <<wifi_connected, pageVars, any_saved, callbacks, lost, btVars,
                      natVars>>
      BY <2>3 DEF ReadDownlink, OthersThanWorker
    <3> QED BY <3>1, <3>2 DEF btVars, natVars
  <2> QED BY <1>5, <2>1, <2>2, <2>3
<1>6. CASE UplinkUp \/ UplinkDown
  <2>1. callbacks' \in 0..MboxSize /\ lost' \in BOOLEAN
    BY <1>6, PostType DEF UplinkUp, UplinkDown
  <2> QED BY <1>6, <2>1 DEF UplinkUp, UplinkDown, OthersThanWorker, btVars, natVars
<1>7. CASE WorkerPage \/ LostCredentials \/ LostRead \/ LostPage
  <2>1. app' \in AppStates /\ wk_pc' \in WkPcs
    BY <1>7 DEF WorkerPage, LostCredentials, LostRead, LostPage
  <2>2. overtaken' \in BOOLEAN
    BY <1>7 DEF WorkerPage, LostCredentials, LostRead, LostPage
  <2>3. UNCHANGED <<wifi_connected, wk_saw_bt, any_saved, callbacks, lost, btVars,
                    natVars>>
    BY <1>7 DEF WorkerPage, LostCredentials, LostRead, LostPage, OthersThanWorker
  <2> HIDE DEF AppStates, BtPcs, WkPcs
  <2> QED BY <2>1, <2>2, <2>3 DEF btVars, natVars
<1>8. CASE WorkerElsewhere \/ Http
  <2>1. app' \in AppStates
    BY <1>8 DEF WorkerElsewhere, Http
  <2>2. any_saved' \in BOOLEAN
    BY <1>8 DEF WorkerElsewhere, Http
  <2>3. UNCHANGED <<btVars, wkVars, natVars, callbacks, lost, overtaken>>
    BY <1>8 DEF WorkerElsewhere, Http, OthersThanWorker
  <2> QED BY <2>1, <2>2, <2>3 DEF btVars, wkVars, natVars
<1>9. CASE NatCallback
  <2>1. callbacks' \in 0..MboxSize
    BY <1>9, BridgeAssumption DEF NatCallback
  <2> QED BY <1>9, <2>1 DEF NatCallback, OthersThanTcpip, btVars, wkVars
<1>10. CASE FindDownlink \/ FindUplink \/ EnableNapt
  BY <1>10 DEF FindDownlink, FindUplink, EnableNapt, OthersThanTcpip, btVars, wkVars
<1> QED BY <1>1, <1>2, <1>3, <1>4, <1>5, <1>6, <1>7, <1>8, <1>9, <1>10
        DEF Next, BtThread, WorkerSteps, TcpipThread

LEMMA OwnLinkStep ==
  ASSUME OwnLink, Next
  PROVE  OwnLink'
<1>1. CASE ChannelOpened \/ ChannelClosed \/ BtThread
  BY <1>1 DEF OwnLink, Closing, ChannelOpened, ChannelClosed, BtThread, OnBtEvent, OnBtBusy,
              OnBtCredentials, DownlinkUp, ReadUplink, BtPage, DownlinkDown,
              ClosedPage, OthersThanBt, wkVars
<1>2. CASE GotIp \/ LinkLost \/ WorkerElsewhere \/ WorkerSteps
  BY <1>2 DEF OwnLink, Closing, GotIp, LinkLost, WorkerElsewhere, WorkerSteps, UplinkUp,
              ReadDownlink, WorkerPage, UplinkDown, LostCredentials, LostRead,
              LostPage, OthersThanWorker, btVars, wkVars
<1>3. CASE Http \/ TcpipThread
  BY <1>3 DEF OwnLink, Closing, Http, TcpipThread, NatCallback, FindDownlink, FindUplink,
              EnableNapt, OthersThanTcpip, btVars, wkVars
<1> QED BY <1>1, <1>2, <1>3 DEF Next

\* Every change of a flag is followed by a post, and a callback reads the
\* uplink after it was taken from the mailbox.
LEMMA NatStep ==
  ASSUME TypeOK, NatAgrees, Next
  PROVE  NatAgrees'
<1>1. CASE ChannelOpened \/ GotIp \/ LinkLost
  BY <1>1 DEF NatAgrees, WillPost, ChannelOpened, GotIp, LinkLost
<1>2. CASE ChannelClosed
  BY <1>2 DEF NatAgrees, ChannelClosed
<1>3. CASE DownlinkUp \/ DownlinkDown \/ UplinkUp \/ UplinkDown
  <2>1. callbacks' > 0 \/ lost'
    BY <1>3, PostType DEF DownlinkUp, DownlinkDown, UplinkUp, UplinkDown, TypeOK
  <2> QED BY <2>1 DEF NatAgrees
<1>4. CASE OnBtEvent \/ OnBtBusy \/ OnBtCredentials \/ ReadUplink \/ BtPage
           \/ ClosedPage
  BY <1>4 DEF NatAgrees, WillPost, OnBtEvent, OnBtBusy, OnBtCredentials,
              ReadUplink, BtPage, ClosedPage, OthersThanBt, wkVars, natVars
<1>5. CASE ReadDownlink \/ WorkerPage \/ LostCredentials \/ LostRead \/ LostPage
           \/ WorkerElsewhere
  BY <1>5 DEF NatAgrees, WillPost, ReadDownlink, WorkerPage, LostCredentials,
              LostRead, LostPage, WorkerElsewhere, OthersThanWorker, btVars,
              wkVars, natVars
<1>6. CASE Http
  BY <1>6 DEF NatAgrees, WillPost, Http, btVars, wkVars, natVars
<1>7. CASE NatCallback \/ FindDownlink \/ FindUplink \/ EnableNapt
  BY <1>7 DEF NatAgrees, WillPost, NatCallback, FindDownlink, FindUplink,
              EnableNapt, OthersThanTcpip, btVars, wkVars
<1> QED BY <1>1, <1>2, <1>3, <1>4, <1>5, <1>6, <1>7
        DEF Next, BtThread, WorkerSteps, TcpipThread

\* A handler looks at the other link after it has set its own flag, and writes what
\* it saw.
LEMMA PageStep ==
  ASSUME TypeOK, OwnLink, PageTrue, Next
  PROVE  PageTrue'
<1> USE DEF PageTrue, Closing, Losing, WillBridge, pageVars
<1>1. CASE ChannelOpened \/ ChannelClosed \/ OnBtEvent \/ OnBtBusy \/ OnBtCredentials
           \/ DownlinkUp \/ ReadUplink \/ DownlinkDown
  BY <1>1 DEF ChannelOpened, ChannelClosed, OnBtEvent, OnBtBusy, OnBtCredentials,
              DownlinkUp, ReadUplink, DownlinkDown, OthersThanBt, wkVars
<1>2. CASE BtPage \/ ClosedPage
  BY <1>2 DEF BtPage, ClosedPage, OwnLink, TypeOK, OthersThanBt, wkVars
<1>3. CASE GotIp \/ LinkLost \/ UplinkUp \/ UplinkDown \/ ReadDownlink
           \/ LostCredentials \/ LostRead \/ LostPage \/ WorkerElsewhere
  BY <1>3 DEF GotIp, LinkLost, UplinkUp, UplinkDown, ReadDownlink, LostCredentials,
              LostRead, LostPage, WorkerElsewhere, OthersThanWorker, btVars, wkVars
<1>4. CASE WorkerPage
  BY <1>4 DEF WorkerPage, OwnLink, TypeOK, OthersThanWorker, btVars
<1>5. CASE Http
  BY <1>5 DEF Http, btVars, wkVars
<1>6. CASE TcpipThread
  BY <1>6 DEF TcpipThread, NatCallback, FindDownlink, FindUplink, EnableNapt,
              OthersThanTcpip, btVars, wkVars
<1> QED BY <1>1, <1>2, <1>3, <1>4, <1>5, <1>6 DEF Next, BtThread, WorkerSteps

LEMMA IInvInit == Init => IInv
<1> SUFFICES ASSUME Init PROVE IInv
  OBVIOUS
<1>1. callbacks \in 0..MboxSize
  BY BridgeAssumption DEF Init
<1>2. TypeOK
  BY <1>1 DEF Init, TypeOK, AppStates, BtPcs, WkPcs
<1>3. NatAgrees /\ OwnLink /\ PageTrue
  BY DEF Init, NatAgrees, OwnLink, Closing, PageTrue
<1> QED BY <1>2, <1>3 DEF IInv

LEMMA IInvStep == IInv /\ [Next]_vars => IInv'
<1> SUFFICES ASSUME IInv, [Next]_vars PROVE IInv'
  OBVIOUS
<1>1. CASE Next
  BY <1>1, TypeStep, OwnLinkStep, NatStep, PageStep DEF IInv
<1>2. CASE UNCHANGED vars
  BY <1>2 DEF vars, btVars, wkVars, natVars, pageVars, IInv, TypeOK, NatAgrees,
              WillPost, OwnLink, PageTrue, Closing, Losing, WillBridge
<1> QED BY <1>1, <1>2

LEMMA Invariance == Spec => []IInv
  BY IInvInit, IInvStep, PTL DEF Spec

\* Every variable keeps its type and the mailbox its size.
THEOREM TypeCorrect == Spec => []TypeOK
<1>1. IInv => TypeOK
  BY DEF IInv
<1> QED BY Invariance, <1>1, PTL

\* NAT on the downlink is the uplink's state or about to become it.
THEOREM NatCorrect == Spec => []NatAgrees
<1>1. IInv => NatAgrees
  BY DEF IInv
<1> QED BY Invariance, <1>1, PTL

\* However the Bluetooth thread's and the worker's handlers cross, a bridge is shown
\* only over two links and a wait for the phone never over two, unless the other's
\* link changed between the look at it and the page; and never a bridge over none.
THEOREM PageCorrect == Spec => []PageTrue
<1>1. IInv => PageTrue
  BY DEF IInv
<1> QED BY Invariance, <1>1, PTL

-----------------------------------------------------------------------------
(* WifiScan: the invariant                                                 *)

\* What a page holds of what it reads; and that what it copies is still the list
\* unless somebody started to rewrite it.
PageTyped ==
  /\ n \in 0..WIFI_MAX_SCAN_RESULTS
  /\ httpd = "copy" => page \in Seq(Entries)
  /\ httpd = "cnt" => page \in Seq(Nat) /\ Len(page) = 1
PageCopies ==
  httpd = "copy" /\ lapses \cap {"dropped", "slow"} = {} =>
    /\ pc \notin {"fill", "done"}
    /\ n = scan_result_count /\ Len(page) <= n
    /\ \A j \in 1..Len(page) : page[j] = scan_results[j]

\* Of the records gone through, each name is in the list once, as strong as it
\* was heard.
ListFilled ==
  pc \in {"fill", "done"} =>
    /\ seen \subseteq Networks
    /\ \A j, k \in 1..scan_result_count :
         scan_results[j].ssid = scan_results[k].ssid => j = k
    /\ \A j \in 1..scan_result_count :
         /\ scan_results[j] \in seen
         /\ \A s \in seen : s.ssid = scan_results[j].ssid => s.rssi <= scan_results[j].rssi
    /\ \A s \in seen : \E j \in 1..scan_result_count : scan_results[j].ssid = s.ssid

\* The candidate a saved network becomes, the candidates of the first k of them,
\* and which of two is saved first.
CandidateOf(s) == [ssid |-> s.ssid, rssi |-> Signal(s)]
CandidatesOf(k) == {CandidateOf(saved[j]) : j \in {j \in 1..k : Eligible(saved[j])}}
SavedBefore(c, d) ==
  \A a, b \in 1..Len(saved) : saved[a].ssid = c.ssid /\ saved[b].ssid = d.ssid => a < b
Outranks(c, d) == c.rssi > d.rssi \/ (c.rssi = d.rssi /\ SavedBefore(c, d))

Cands == [ssid : SSIDs, rssi : Int]
CandidatesTyped ==
  pc \in {"collect", "sort", "chosen"} =>
    /\ saved \in SavedLists /\ loop_i \in Nat
    /\ candidate_list \in Seq(Cands)
    /\ Len(candidate_list) = candidate_count
CandidatesGone ==
  pc \notin {"collect", "sort", "chosen"} => candidate_list = <<>>
CandidatesCollected ==
  pc = "collect" =>
    /\ loop_i \in 1..(Len(saved) + 1) /\ candidate_count <= loop_i - 1
    /\ ToSet(candidate_list) = CandidatesOf(loop_i - 1)
    /\ \A k \in 1..candidate_count : \A j \in 1..(k - 1) :
         SavedBefore(candidate_list[j], candidate_list[k])
CandidatesSorted ==
  pc \in {"sort", "chosen"} =>
    /\ ToSet(candidate_list) = CandidatesOf(Len(saved))
    /\ \A k \in 1..candidate_count : \A j \in 1..(k - 1) :
         IF k < loop_i \/ pc = "chosen" THEN Outranks(candidate_list[j], candidate_list[k])
         ELSE SavedBefore(candidate_list[j], candidate_list[k])
SortFrom2 == pc = "sort" => loop_i \in Nat \ {0, 1}

ScanInv ==
  /\ ScanTypeOK /\ PageTyped /\ FlagMeansScan /\ PageCopies /\ ProgressInRange
  /\ ListFilled
  /\ CandidatesTyped /\ CandidatesGone
  /\ CandidatesCollected /\ CandidatesSorted /\ SortFrom2

-----------------------------------------------------------------------------
(* Least and greatest elements, sequences.                                 *)

LEMMA LeastNat ==
  ASSUME NEW T \in SUBSET Nat, T # {}
  PROVE  \E x \in T : \A y \in T : x <= y
<1> DEFINE R == OpToRel(<, Nat)
<1>1. IsWellFoundedOn(R, Nat)
  BY NatLessThanWellFounded
<1>2. PICK x \in T : \A y \in T : ~ (<<y, x>> \in R)
  <2> HIDE DEF R
  <2> QED BY <1>1, WFMin
<1>3. \A y \in T : ~ (y < x)
  BY <1>2 DEF OpToRel
<1> HIDE DEF R
<1> QED BY <1>3, SMT

\* The least index of a nonempty set of them is one of them.
LEMMA MinOfIndices ==
  ASSUME NEW T \in SUBSET Nat, T # {}
  PROVE  Min(T) \in T /\ \A y \in T : Min(T) <= y
<1>1. \E x \in T : \A y \in T : x <= y
  BY LeastNat
<1> QED BY <1>1 DEF Min

\* A signal is at most 0, so that a nonempty set of signals has a strongest.
LEMMA MaxOfSignals ==
  ASSUME NEW T, T \subseteq (-127)..0, T # {}
  PROVE  Max(T) \in T /\ \A y \in T : Max(T) >= y
<1> DEFINE U == {x \in 0..127 : -x \in T}
<1>1. U \subseteq Nat
  OBVIOUS
<1>2. U # {}
  <2>1. PICK y \in T : TRUE
    OBVIOUS
  <2>2. y \in (-127)..0
    OBVIOUS
  <2>3. -y \in 0..127 /\ -(-y) = y
    BY <2>2
  <2> QED BY <2>1, <2>3
<1>3. PICK x \in U : \A y \in U : x <= y
  <2> HIDE DEF U
  <2> QED BY <1>1, <1>2, LeastNat
<1>4. -x \in T /\ x \in 0..127
  OBVIOUS
<1>5. \A y \in T : -x >= y
  <2> SUFFICES ASSUME NEW y \in T PROVE -x >= y
    OBVIOUS
  <2>1. y \in (-127)..0
    OBVIOUS
  <2>2. -y \in 0..127 /\ -(-y) = y
    BY <2>1
  <2>3. -y \in U
    BY <2>2
  <2>4. x <= -y
    BY <2>3, <1>3
  <2> HIDE DEF U
  <2> QED BY <2>1, <2>4, <1>4
<1>6. \E z \in T : \A y \in T : z >= y
  BY <1>4, <1>5
<1> QED BY <1>6 DEF Max

\* A list of signals and names with one more.
LEMMA SetAppended ==
  ASSUME NEW S, NEW s \in Seq(S), NEW e \in S
  PROVE  /\ Append(s, e) \in Seq(S) /\ Len(Append(s, e)) = Len(s) + 1
         /\ \A j \in 1..Len(s) : Append(s, e)[j] = s[j]
         /\ Append(s, e)[Len(s) + 1] = e
         /\ ToSet(Append(s, e)) = ToSet(s) \cup {e}
<1> DEFINE t == Append(s, e)
<1>1. /\ t \in Seq(S) /\ Len(t) = Len(s) + 1 /\ Len(s) \in Nat /\ t[Len(s) + 1] = e
      /\ \A j \in 1..Len(s) : t[j] = s[j]
  BY AppendProperties
<1> HIDE DEF t
<1>2. DOMAIN t = 1..(Len(s) + 1) /\ DOMAIN s = 1..Len(s)
  BY <1>1
<1>3. \A j \in 1..(Len(s) + 1) : j \in 1..Len(s) \/ j = Len(s) + 1
  BY <1>1
<1>4. \A j \in 1..Len(s) : j \in 1..(Len(s) + 1)
  BY <1>1
<1>5. Len(s) + 1 \in 1..(Len(s) + 1)
  BY <1>1
<1>6. ToSet(t) = ToSet(s) \cup {e}
  BY <1>1, <1>2, <1>3, <1>4, <1>5, Zenon DEF ToSet
<1> QED BY <1>1, <1>6 DEF t

LEMMA SetOf ==
  ASSUME NEW S, NEW s \in Seq(S)
  PROVE  \A e : e \in ToSet(s) <=> \E j \in 1..Len(s) : e = s[j]
<1>1. DOMAIN s = 1..Len(s)
  OBVIOUS
<1> QED BY <1>1, Zenon DEF ToSet

\* A sequence of the saved networks.
LEMMA SavedListsAre ==
  ASSUME NEW s \in SavedLists
  PROVE  /\ s \in Seq([ssid : SSIDs, hidden : BOOLEAN])
         /\ Len(s) \in 0..WIFI_MAX_SAVED_NETWORKS /\ DOMAIN s = 1..Len(s)
         /\ \A j, k \in 1..Len(s) : s[j].ssid = s[k].ssid => j = k
<1> DEFINE E == [ssid : SSIDs, hidden : BOOLEAN]
<1>1. PICK m \in 0..WIFI_MAX_SAVED_NETWORKS : s \in [1..m -> E]
  BY DEF SavedLists, BoundedSeq, SeqOf
<1> HIDE DEF E
<1>2. m \in Nat
  BY ScanAssumption
<1>3. s \in Seq(E) /\ Len(s) = m /\ DOMAIN s = 1..m
  BY <1>1, <1>2
<1>4. \A j, k \in DOMAIN s : s[j].ssid = s[k].ssid => j = k
  BY DEF SavedLists
<1> QED BY <1>3, <1>4 DEF E

-----------------------------------------------------------------------------
(* The insertion sort.                                                     *)

\* The sort finds a place for the k-th candidate: those before it, of the first
\* k - 1, are not all weaker, and those from there on all are.
LEMMA PlaceFound ==
  ASSUME NEW list \in Seq(Cands), NEW k \in 1..Len(list)
  PROVE  /\ PlaceOf(list, k) \in 1..k
         /\ \A j \in PlaceOf(list, k)..(k - 1) : list[j].rssi < list[k].rssi
         /\ PlaceOf(list, k) = 1 \/ ~(list[PlaceOf(list, k) - 1].rssi < list[k].rssi)
<1> DEFINE Good(p) == \A j \in p..(k - 1) : Weaker(list[j], list[k])
           T == {p \in 1..k : Good(p)}
<1>1. k \in T
  OBVIOUS
<1>2. T \subseteq Nat /\ T # {}
  BY <1>1
<1>3. PICK p \in T : \A q \in T : p <= q
  <2> HIDE DEF T
  <2> QED BY <1>2, LeastNat
<1>4. p = 1 \/ ~Weaker(list[p - 1], list[k])
  <2> SUFFICES ASSUME p # 1, Weaker(list[p - 1], list[k]) PROVE FALSE
    OBVIOUS
  <2>1. p \in 1..k /\ Good(p)
    OBVIOUS
  <2>2. p - 1 \in 1..k
    BY <2>1
  <2>3. \A j \in (p - 1)..(k - 1) : j = p - 1 \/ j \in p..(k - 1)
    BY <2>1
  <2>4. Good(p - 1)
    BY <2>1, <2>3
  <2>5. p <= p - 1
    BY <2>2, <2>4, <1>3
  <2> QED BY <2>1, <2>5
<1>5. \E x \in 1..k : /\ \A j \in x..(k - 1) : Weaker(list[j], list[k])
                      /\ x = 1 \/ ~Weaker(list[x - 1], list[k])
  BY <1>3, <1>4
<1> DEFINE q == PlaceOf(list, k)
<1>6. /\ q \in 1..k
      /\ \A j \in q..(k - 1) : Weaker(list[j], list[k])
      /\ q = 1 \/ ~Weaker(list[q - 1], list[k])
  <2> HIDE DEF T, Good
  <2> QED BY <1>5 DEF PlaceOf
<1> HIDE DEF q, T, Good
<1>7. /\ q \in 1..k
      /\ \A j \in q..(k - 1) : list[j].rssi < list[k].rssi
      /\ q = 1 \/ ~(list[q - 1].rssi < list[k].rssi)
  BY <1>6 DEF Weaker
<1> QED BY <1>7 DEF q

\* Moving the k-th to place p keeps the candidates.
LEMMA MovedKeeps ==
  ASSUME NEW list \in Seq(Cands), NEW k \in 1..Len(list), NEW p \in 1..k
  PROVE  /\ Moved(list, k, p) \in Seq(Cands) /\ Len(Moved(list, k, p)) = Len(list)
         /\ Moved(list, k, p)[p] = list[k]
         /\ \A j \in 1..Len(list) : p < j /\ j <= k => Moved(list, k, p)[j] = list[j - 1]
         /\ \A j \in 1..Len(list) : j < p \/ k < j => Moved(list, k, p)[j] = list[j]
         /\ ToSet(Moved(list, k, p)) = ToSet(list)
<1> DEFINE t == Moved(list, k, p)
           L == Len(list)
<1>1. L \in Nat /\ k \in Nat /\ p \in Nat /\ p <= k /\ k <= L /\ 1 <= p
  OBVIOUS
<1>2. \A j \in 1..L : list[j] \in Cands
  OBVIOUS
<1>3. t = [j \in 1..L |-> CASE j = p -> list[k]
                          [] p < j /\ j <= k -> list[j - 1]
                          [] OTHER -> list[j]]
  BY DEF Moved
<1>4. \A j \in 1..L : t[j] = IF j = p THEN list[k]
                             ELSE IF p < j /\ j <= k THEN list[j - 1] ELSE list[j]
  <2> SUFFICES ASSUME NEW j \in 1..L
               PROVE  t[j] = IF j = p THEN list[k]
                             ELSE IF p < j /\ j <= k THEN list[j - 1] ELSE list[j]
    OBVIOUS
  <2>1. t[j] = CASE j = p -> list[k] [] p < j /\ j <= k -> list[j - 1]
               [] OTHER -> list[j]
    BY <1>3
  <2> HIDE DEF t
  <2>2. ~(j = p /\ p < j)
    BY <1>1
  <2> QED BY <2>1, <2>2
<1>5. DOMAIN t = 1..L
  BY <1>3
<1>15. t = [j \in 1..L |-> t[j]]
  BY <1>3
<1> HIDE DEF t, L
<1>6. \A j \in 1..L : t[j] \in Cands
  <2> SUFFICES ASSUME NEW j \in 1..L PROVE t[j] \in Cands
    OBVIOUS
  <2>1. CASE p < j /\ j <= k
    <3>1. j - 1 \in 1..L /\ j # p
      BY <2>1, <1>1
    <3> QED BY <3>1, <2>1, <1>2, <1>4
  <2>2. CASE ~(p < j /\ j <= k)
    BY <2>2, <1>1, <1>2, <1>4
  <2> QED BY <2>1, <2>2
<1>7. t \in [1..L -> Cands]
  BY <1>6, <1>15
<1>8. t \in Seq(Cands) /\ Len(t) = L
  BY <1>7, <1>1
<1>9. t[p] = list[k]
  BY <1>1, <1>4
<1>10. \A j \in 1..L : p < j /\ j <= k => t[j] = list[j - 1]
  BY <1>1, <1>4
<1>11. \A j \in 1..L : j < p \/ k < j => t[j] = list[j]
  BY <1>1, <1>4
<1>12. \A j \in 1..L : \E x \in 1..L : t[j] = list[x]
  <2> SUFFICES ASSUME NEW j \in 1..L PROVE \E x \in 1..L : t[j] = list[x]
    OBVIOUS
  <2>1. CASE p < j /\ j <= k
    <3>1. j - 1 \in 1..L
      BY <2>1, <1>1
    <3> QED BY <3>1, <2>1, <1>10
  <2>2. CASE j = p
    BY <2>2, <1>9, <1>1
  <2>3. CASE j < p \/ k < j
    BY <2>3, <1>11
  <2> QED BY <2>1, <2>2, <2>3, <1>1
<1>13. \A j \in 1..L : \E x \in 1..L : list[j] = t[x]
  <2> SUFFICES ASSUME NEW j \in 1..L PROVE \E x \in 1..L : list[j] = t[x]
    OBVIOUS
  <2>1. CASE p <= j /\ j < k
    <3>1. j + 1 \in 1..L /\ p < j + 1 /\ j + 1 <= k /\ (j + 1) - 1 = j
      BY <2>1, <1>1
    <3>2. t[j + 1] = list[(j + 1) - 1]
      BY <3>1, <1>10
    <3> QED BY <3>1, <3>2
  <2>2. CASE j = k
    BY <2>2, <1>9, <1>1
  <2>3. CASE j < p \/ k < j
    BY <2>3, <1>11
  <2> QED BY <2>1, <2>2, <2>3, <1>1
<1>14. ToSet(t) = ToSet(list)
  <2>1. \A e : e \in ToSet(t) <=> \E j \in 1..L : e = t[j]
    BY <1>5, Zenon DEF ToSet
  <2>2. \A e : e \in ToSet(list) <=> \E j \in 1..L : e = list[j]
    BY SetOf DEF L
  <2> QED BY <2>1, <2>2, <1>12, <1>13
<1> QED BY <1>8, <1>9, <1>10, <1>11, <1>14 DEF t, L

\* If the first k - 1 are in order and each of them was saved before the k-th,
\* then the first k are in order once the k-th has its place.
LEMMA SortedOneMore ==
  ASSUME NEW list \in Seq(Cands), NEW k \in 2..Len(list),
         \A m \in 1..Len(list) : \A j \in 1..(m - 1) :
           IF m < k THEN Outranks(list[j], list[m]) ELSE SavedBefore(list[j], list[m])
  PROVE  LET t == Moved(list, k, PlaceOf(list, k)) IN
         \A m \in 1..Len(list) : \A j \in 1..(m - 1) :
           IF m < k + 1 THEN Outranks(t[j], t[m]) ELSE SavedBefore(t[j], t[m])
<1> DEFINE p == PlaceOf(list, k)
           t == Moved(list, k, p)
           L == Len(list)
           Out(c, d) == Outranks(c, d)
           Bef(c, d) == SavedBefore(c, d)
<1>1. L \in Nat /\ k \in 1..L /\ k \in Nat
  OBVIOUS
<1>2. /\ p \in 1..k
      /\ \A j \in p..(k - 1) : list[j].rssi < list[k].rssi
      /\ p = 1 \/ ~(list[p - 1].rssi < list[k].rssi)
  BY <1>1, PlaceFound
<1> HIDE DEF p
<1>3. /\ t[p] = list[k]
      /\ \A j \in 1..L : p < j /\ j <= k => t[j] = list[j - 1]
      /\ \A j \in 1..L : j < p \/ k < j => t[j] = list[j]
  BY <1>1, <1>2, MovedKeeps
<1>4. \A j \in 1..L : list[j].rssi \in Int
  <2>1. \A j \in 1..L : list[j] \in Cands
    OBVIOUS
  <2> HIDE DEF L
  <2> QED BY <2>1 DEF Cands
<1>5. \A c, d : Out(c, d) <=> c.rssi > d.rssi \/ (c.rssi = d.rssi /\ Bef(c, d))
  BY DEF Outranks
<1>6. \A m \in 1..L : \A j \in 1..(m - 1) :
        IF m < k THEN Out(list[j], list[m]) ELSE Bef(list[j], list[m])
  OBVIOUS
<1> HIDE DEF t, L, Out, Bef
<1>20. p \in Nat /\ 1 <= p /\ p <= k /\ k <= L /\ 2 <= k
  BY <1>1, <1>2
<1>7. \A m \in 1..(k - 1) : \A j \in 1..(m - 1) : Out(list[j], list[m])
  <2> SUFFICES ASSUME NEW m \in 1..(k - 1), NEW j \in 1..(m - 1) PROVE Out(list[j], list[m])
    OBVIOUS
  <2>1. m \in 1..L /\ m < k
    BY <1>20, <1>1
  <2> QED BY <2>1, <1>6
<1>8. \A j \in 1..(k - 1) : Bef(list[j], list[k])
  <2> SUFFICES ASSUME NEW j \in 1..(k - 1) PROVE Bef(list[j], list[k])
    OBVIOUS
  <2>1. k \in 1..L /\ ~(k < k)
    BY <1>20, <1>1
  <2> QED BY <2>1, <1>6
<1>9. \A m \in (k + 1)..L : \A j \in 1..(m - 1) : Bef(list[j], list[m])
  <2> SUFFICES ASSUME NEW m \in (k + 1)..L, NEW j \in 1..(m - 1) PROVE Bef(list[j], list[m])
    OBVIOUS
  <2>1. m \in 1..L /\ ~(m < k)
    BY <1>20, <1>1
  <2> QED BY <2>1, <1>6
\* Those before the place are as strong at least as the k-th.
<1>10. \A j \in 1..(p - 1) : Out(list[j], list[k])
  <2> SUFFICES ASSUME NEW j \in 1..(p - 1) PROVE Out(list[j], list[k])
    OBVIOUS
  <2>1. j \in 1..L /\ p - 1 \in 1..L /\ j \in 1..(k - 1) /\ p # 1 /\ k \in 1..L
    BY <1>20, <1>1
  <2>2. list[j].rssi \in Int /\ list[p - 1].rssi \in Int /\ list[k].rssi \in Int
    BY <2>1, <1>4
  <2>3. list[p - 1].rssi >= list[k].rssi
    BY <2>1, <2>2, <1>2
  <2>4. list[j].rssi >= list[p - 1].rssi
    <3>1. CASE j = p - 1
      BY <3>1, <2>2
    <3>2. CASE j # p - 1
      <4>1. p - 1 \in 1..(k - 1) /\ j \in 1..((p - 1) - 1)
        BY <3>2, <1>20
      <4>2. Out(list[j], list[p - 1])
        BY <4>1, <1>7
      <4> QED BY <4>2, <1>5, <2>2
    <3> QED BY <3>1, <3>2
  <2>5. Bef(list[j], list[k])
    BY <2>1, <1>8
  <2> QED BY <2>2, <2>3, <2>4, <2>5, <1>5
<1>11. \A j \in p..(k - 1) : Out(list[k], list[j])
  <2> SUFFICES ASSUME NEW j \in p..(k - 1) PROVE Out(list[k], list[j])
    OBVIOUS
  <2>1. j \in 1..L /\ k \in 1..L
    BY <1>20, <1>1
  <2>2. list[j].rssi \in Int /\ list[k].rssi \in Int /\ list[j].rssi < list[k].rssi
    BY <2>1, <1>4, <1>2
  <2> QED BY <2>2, <1>5
<1>12. ASSUME NEW m \in 1..k, NEW j \in 1..(m - 1)
       PROVE  Out(t[j], t[m])
  <2>0. m \in 1..L /\ j \in 1..L /\ j < m /\ j \in Nat /\ m \in Nat /\ m <= k
    BY <1>20, <1>1
  <2>1. CASE m < p
    <3>1. t[j] = list[j] /\ t[m] = list[m] /\ m \in 1..(k - 1)
      BY <2>0, <2>1, <1>3, <1>20
    <3> QED BY <3>1, <1>7
  <2>2. CASE m = p
    <3>1. t[j] = list[j] /\ t[m] = list[k] /\ j \in 1..(p - 1)
      BY <2>0, <2>2, <1>3, <1>20
    <3> QED BY <3>1, <1>10
  <2>3. CASE m > p /\ j < p
    <3>1. t[j] = list[j] /\ t[m] = list[m - 1]
      BY <2>0, <2>3, <1>3, <1>20
    <3>2. m - 1 \in 1..(k - 1) /\ j \in 1..((m - 1) - 1)
      BY <2>0, <2>3, <1>20
    <3> QED BY <3>1, <3>2, <1>7
  <2>4. CASE m > p /\ j = p
    <3>1. t[j] = list[k] /\ t[m] = list[m - 1]
      BY <2>0, <2>4, <1>3, <1>20
    <3>2. m - 1 \in p..(k - 1)
      BY <2>0, <2>4, <1>20
    <3> QED BY <3>1, <3>2, <1>11
  <2>5. CASE m > p /\ j > p
    <3>1. t[j] = list[j - 1] /\ t[m] = list[m - 1]
      BY <2>0, <2>5, <1>3, <1>20
    <3>2. m - 1 \in 1..(k - 1) /\ j - 1 \in 1..((m - 1) - 1)
      BY <2>0, <2>5, <1>20
    <3> QED BY <3>1, <3>2, <1>7
  <2> QED BY <2>0, <2>1, <2>2, <2>3, <2>4, <2>5, <1>20
<1>13. ASSUME NEW m \in (k + 1)..L, NEW j \in 1..(m - 1)
       PROVE  Bef(t[j], t[m])
  <2>0. m \in 1..L /\ j \in 1..L /\ j < m /\ j \in Nat /\ m \in Nat /\ k < m
    BY <1>20, <1>1
  <2>1. t[m] = list[m]
    BY <2>0, <1>3
  <2>2. CASE j < p \/ k < j
    BY <2>0, <2>1, <2>2, <1>3, <1>9
  <2>3. CASE j = p
    <3>1. k \in 1..(m - 1)
      BY <2>0, <1>20
    <3> QED BY <3>1, <2>3, <2>1, <1>3, <1>9
  <2>4. CASE p < j /\ j <= k
    <3>1. j - 1 \in 1..(m - 1)
      BY <2>0, <2>4, <1>20
    <3> QED BY <3>1, <2>0, <2>4, <2>1, <1>3, <1>9
  <2> QED BY <2>0, <2>2, <2>3, <2>4, <1>20
<1>14. \A m \in 1..L : \A j \in 1..(m - 1) :
         IF m < k + 1 THEN Out(t[j], t[m]) ELSE Bef(t[j], t[m])
  <2> SUFFICES ASSUME NEW m \in 1..L, NEW j \in 1..(m - 1)
               PROVE  IF m < k + 1 THEN Out(t[j], t[m]) ELSE Bef(t[j], t[m])
    OBVIOUS
  <2>1. CASE m < k + 1
    <3>1. m \in 1..k
      BY <2>1, <1>1
    <3> QED BY <3>1, <2>1, <1>12
  <2>2. CASE ~(m < k + 1)
    <3>1. m \in (k + 1)..L
      BY <2>2, <1>1
    <3> QED BY <3>1, <2>2, <1>13
  <2> QED BY <2>1, <2>2
<1> QED BY <1>14 DEF t, p, L, Out, Bef

-----------------------------------------------------------------------------
(* The list of networks.                                                   *)

LEMMA SignalsAreNumbers ==
  /\ \A s \in Networks : s.rssi \in Int
  /\ \A s \in Entries : s.rssi \in (-127)..0
<1>1. \A x \in Rssis \cup {0} : x \in Int /\ x \in (-127)..0
  BY ScanAssumption
<1>2. \A s \in Networks : s.rssi \in Rssis
  BY DEF Networks
<1>3. \A s \in Entries : s.rssi \in Rssis \cup {0}
  BY DEF Entries
<1> QED BY <1>1, <1>2, <1>3

\* What a page may read of the list.
LEMMA FoundIs ==
  ASSUME ScanTypeOK
  PROVE  /\ Found \in Seq(Entries) /\ Len(Found) = scan_result_count
         /\ DOMAIN Found = 1..scan_result_count
         /\ \A j \in 1..scan_result_count : Found[j] = scan_results[j]
<1> DEFINE c == scan_result_count
<1>1. c \in Nat /\ \A j \in 1..c : scan_results[j] \in Entries
  BY ScanAssumption DEF ScanTypeOK
<1>2. /\ SubSeq(scan_results, 1, c) \in Seq(Entries)
      /\ Len(SubSeq(scan_results, 1, c)) = IF 1 <= c THEN c - 1 + 1 ELSE 0
      /\ \A j \in 1..(c - 1 + 1) : SubSeq(scan_results, 1, c)[j] = scan_results[1 + j - 1]
  <2> HIDE DEF c
  <2> QED BY <1>1, SubSeqProperties
<1> HIDE DEF c
<1>3. Found = SubSeq(scan_results, 1, c)
  BY DEF Found, c
<1>4. Found \in Seq(Entries) /\ Len(Found) = c
  BY <1>1, <1>2, <1>3
<1>5. \A j \in 1..c : j \in 1..(c - 1 + 1) /\ 1 + j - 1 = j
  BY <1>1
<1>6. \A j \in 1..c : Found[j] = scan_results[j]
  BY <1>2, <1>3, <1>5
<1> QED BY <1>4, <1>6 DEF c

\* One record keeps the list right: its name is there once, with the strongest
\* signal so far.
LEMMA RecordStored ==
  ASSUME ScanTypeOK, ListFilled, pc = "fill", Room, NEW r \in Networks, StoreRecord(r),
         seen' = seen \cup {r}, pc' = pc
  PROVE  /\ scan_results' \in [1..WIFI_MAX_SCAN_RESULTS -> Entries]
         /\ scan_result_count' \in 0..WIFI_MAX_SCAN_RESULTS
         /\ ListFilled'
<1> DEFINE M == WIFI_MAX_SCAN_RESULTS
           c == scan_result_count
           f == scan_results
<1>1. /\ M \in Nat /\ c \in Nat /\ c < M /\ f \in [1..M -> Entries]
      /\ \A j \in 1..c : j \in 1..M
  BY ScanAssumption DEF Room, ScanTypeOK
<1>2. /\ seen \subseteq Networks
      /\ \A j, k \in 1..c : f[j].ssid = f[k].ssid => j = k
      /\ \A j \in 1..c : f[j] \in seen
      /\ \A j \in 1..c : \A s \in seen : s.ssid = f[j].ssid => s.rssi <= f[j].rssi
      /\ \A s \in seen : \E j \in 1..c : f[j].ssid = s.ssid
  BY DEF ListFilled
<1>3. \A s \in Networks : s.rssi \in Int
  BY SignalsAreNumbers
<1>4. Networks \subseteq Entries
  BY DEF Networks, Entries
<1>5. CASE Known(r) # {}
  <2> DEFINE j0 == Min(Known(r))
             g == [f EXCEPT ![j0].rssi = Stronger(@, r.rssi)]
  <2>1. Known(r) \subseteq Nat
    BY <1>1 DEF Known
  <2>2. j0 \in Known(r)
    BY <1>5, <2>1, MinOfIndices
  <2> HIDE DEF j0
  <2>3. j0 \in 1..c /\ f[j0].ssid = r.ssid /\ j0 \in 1..M
    BY <2>2, <1>1 DEF Known
  <2>4. scan_results' = g /\ scan_result_count' = c
    BY <1>5 DEF StoreRecord, j0
  <2>5. f[j0] \in Networks /\ f[j0].rssi \in Int /\ r.rssi \in Int
    BY <2>3, <1>2, <1>3
  <2> DEFINE e == [f[j0] EXCEPT !.rssi = Stronger(@, r.rssi)]
  <2>6. g[j0] = e /\ \A k \in 1..M : k # j0 => g[k] = f[k]
    BY <1>1, <2>3
  <2>7. e.ssid = r.ssid /\ e.rssi = Stronger(f[j0].rssi, r.rssi) /\ e \in {f[j0], r}
    <3>1. f[j0] \in [ssid : SSIDs, rssi : Rssis] /\ r \in [ssid : SSIDs, rssi : Rssis]
      BY <2>5 DEF Networks
    <3>2. f[j0] = [ssid |-> f[j0].ssid, rssi |-> f[j0].rssi]
      BY <3>1
    <3>3. r = [ssid |-> r.ssid, rssi |-> r.rssi]
      BY <3>1
    <3>4. e = [ssid |-> f[j0].ssid, rssi |-> Stronger(f[j0].rssi, r.rssi)]
      BY <3>1
    <3> HIDE DEF e
    <3>5. Stronger(f[j0].rssi, r.rssi) \in {f[j0].rssi, r.rssi}
      BY DEF Stronger
    <3> QED BY <3>2, <3>3, <3>4, <3>5, <2>3
  <2>8. e.rssi \in Int /\ e.rssi >= r.rssi /\ e.rssi >= f[j0].rssi
    BY <2>5, <2>7 DEF Stronger
  <2>9. g \in [1..M -> Entries]
    <3>1. e \in Entries
      BY <2>5, <2>7, <1>4
    <3>2. \A k \in 1..M : g[k] \in Entries
      BY <3>1, <2>6, <1>1
    <3>3. g = [k \in 1..M |-> g[k]]
      BY <1>1
    <3> HIDE DEF g
    <3> QED BY <3>2, <3>3
  <2> HIDE DEF g, e
  <2>10. \A k \in 1..c : g[k].ssid = f[k].ssid
    BY <2>3, <2>6, <2>7, <1>1
  <2>11. \A k \in 1..c : g[k] \in seen \cup {r}
    BY <2>3, <2>6, <2>7, <1>1, <1>2
  <2>12. ASSUME NEW k \in 1..c, NEW s \in seen \cup {r}, s.ssid = g[k].ssid
         PROVE  s.rssi <= g[k].rssi
    <3>1. s \in Networks /\ s.rssi \in Int
      BY <1>2, <1>3
    <3>2. CASE k = j0 /\ s = r
      BY <3>2, <2>6, <2>8, <2>3, <2>5
    <3>3. CASE k = j0 /\ s \in seen
      <4>1. s.rssi <= f[j0].rssi
        BY <3>3, <2>3, <2>12, <2>10, <1>2
      <4> QED BY <4>1, <3>3, <3>1, <2>6, <2>8, <2>3, <2>5
    <3>4. CASE k # j0
      <4>1. g[k] = f[k] /\ f[k].ssid # r.ssid
        BY <3>4, <2>3, <2>6, <1>1, <1>2
      <4> QED BY <4>1, <2>12, <1>2
    <3> QED BY <3>2, <3>3, <3>4
  <2>13. \A s \in seen \cup {r} : \E k \in 1..c : g[k].ssid = s.ssid
    BY <2>3, <2>10, <1>2
  <2>14. \A j, k \in 1..c : g[j].ssid = g[k].ssid => j = k
    BY <2>10, <1>2
  <2>15. seen \cup {r} \subseteq Networks
    BY <1>2
  <2> QED BY <1>1, <2>4, <2>9, <2>11, <2>12, <2>13, <2>14, <2>15 DEF ListFilled
<1>6. CASE Known(r) = {}
  <2> DEFINE g == [f EXCEPT ![c + 1] = r]
  <2>1. scan_results' = g /\ scan_result_count' = c + 1
    BY <1>6 DEF StoreRecord
  <2>2. \A k \in 1..c : f[k].ssid # r.ssid
    BY <1>6 DEF Known
  <2>3. c + 1 \in 1..M /\ g[c + 1] = r /\ \A k \in 1..c : g[k] = f[k]
    BY <1>1
  <2>4. \A k \in 1..(c + 1) : k \in 1..c \/ k = c + 1
    BY <1>1
  <2>5. \A k \in 1..c : k \in 1..(c + 1) /\ k # c + 1
    BY <1>1
  <2>6. c + 1 \in 1..(c + 1)
    BY <1>1
  <2>7. g \in [1..M -> Entries]
    BY <1>1, <1>4
  <2> HIDE DEF g
  <2>8. \A s \in seen : s.ssid # r.ssid
    BY <2>2, <1>2
  <2>9. \A j, k \in 1..(c + 1) : g[j].ssid = g[k].ssid => j = k
    BY <2>2, <2>3, <2>4, <1>2
  <2>10. \A j \in 1..(c + 1) : g[j] \in seen \cup {r}
    BY <2>3, <2>4, <1>2
  <2>11. \A j \in 1..(c + 1) : \A s \in seen \cup {r} :
           s.ssid = g[j].ssid => s.rssi <= g[j].rssi
    <3>1. r.rssi <= r.rssi
      BY <1>3
    <3> QED BY <3>1, <2>2, <2>3, <2>4, <2>8, <1>2
  <2>12. \A s \in seen \cup {r} : \E j \in 1..(c + 1) : g[j].ssid = s.ssid
    BY <2>3, <2>5, <2>6, <1>2
  <2>13. seen \cup {r} \subseteq Networks
    BY <1>2
  <2>14. c + 1 \in 0..M
    BY <1>1
  <2> QED BY <2>1, <2>7, <2>9, <2>10, <2>11, <2>12, <2>13, <2>14 DEF ListFilled
<1> QED BY <1>5, <1>6

\* The other steps of a scan begin with an empty list or leave it alone.
LEMMA ListStep ==
  ASSUME ScanTypeOK, ListFilled, ScanNext
  PROVE  ListFilled'
<1>1. CASE Fill
  <2>1. PICK r \in Networks : StoreRecord(r) /\ seen' = seen \cup {r}
    BY <1>1 DEF Fill
  <2> QED BY <1>1, <2>1, RecordStored DEF Fill
<1>2. CASE ScanEnds
  <2>1. 1..0 = {}
    OBVIOUS
  <2>2. scan_result_count' = 0 /\ seen' = {}
    BY <1>2 DEF ScanEnds
  <2> QED BY <2>1, <2>2 DEF ListFilled
<1>3. CASE Filled
  BY <1>3 DEF Filled, ListFilled, scanVars
<1>4. CASE Done \/ ScanFails
  <2>1. pc' \notin {"fill", "done"}
    BY <1>4 DEF Done, ScanFails, Return
  <2> QED BY <2>1 DEF ListFilled
<1>5. CASE OnScanRequest \/ StartCycle
  BY <1>5 DEF OnScanRequest, StartCycle, StartScan, ListFilled, scanVars
<1>6. CASE LoadSaved \/ Consider \/ Considered \/ SortOne \/ Sorted \/ Begin
  BY <1>6 DEF LoadSaved, Consider, Considered, SortOne, Sorted, Begin, ListFilled
<1>7. CASE NextCandidate \/ Rest \/ Leave \/ Httpd
  BY <1>7 DEF NextCandidate, Rest, Leave, Httpd, Ask, Post, Look, Copy, Shown,
              ReadIndex, ReadCount, ShowProgress, ListFilled, scanVars
<1> QED BY <1>1, <1>2, <1>3, <1>4, <1>5, <1>6, <1>7 DEF ScanNext, Worker

\* The list of a scan that is over: what is in it is what was heard the strongest.
LEMMA FilledIsRight ==
  ASSUME ScanTypeOK, ListFilled
  PROVE  ResultsRight
<1> SUFFICES ASSUME pc = "done" PROVE
      /\ \A j, k \in DOMAIN Found : Found[j].ssid = Found[k].ssid => j = k
      /\ {Found[j] : j \in DOMAIN Found} =
           {r \in seen : \A s \in seen : s.ssid = r.ssid => s.rssi <= r.rssi}
  BY DEF ResultsRight
<1> DEFINE c == scan_result_count
           f == scan_results
<1>1. c \in Nat /\ \A j \in 1..c : f[j] \in Entries
  BY ScanAssumption DEF ScanTypeOK
<1>2. /\ seen \subseteq Networks
      /\ \A j, k \in 1..c : f[j].ssid = f[k].ssid => j = k
      /\ \A j \in 1..c : f[j] \in seen
      /\ \A j \in 1..c : \A s \in seen : s.ssid = f[j].ssid => s.rssi <= f[j].rssi
      /\ \A s \in seen : \E j \in 1..c : f[j].ssid = s.ssid
  BY DEF ListFilled
<1>3. \A s \in Networks : s.rssi \in Int
  BY SignalsAreNumbers
<1>4. DOMAIN Found = 1..c /\ \A j \in 1..c : Found[j] = f[j]
  BY <1>1, FoundIs
<1> HIDE DEF c, f
<1>5. \A j, k \in DOMAIN Found : Found[j].ssid = Found[k].ssid => j = k
  BY <1>2, <1>4
<1>6. ASSUME NEW r \in seen, \A s \in seen : s.ssid = r.ssid => s.rssi <= r.rssi
      PROVE  \E j \in 1..c : r = f[j]
  <2>1. PICK j \in 1..c : f[j].ssid = r.ssid
    BY <1>2
  <2>2. f[j] \in Networks /\ r \in Networks /\ f[j].rssi \in Int /\ r.rssi \in Int
    BY <1>2, <1>3
  <2>3. f[j].rssi <= r.rssi /\ r.rssi <= f[j].rssi
    BY <2>1, <1>2, <1>6
  <2>4. f[j].rssi = r.rssi
    BY <2>2, <2>3
  <2>5. r = f[j]
    BY <2>1, <2>2, <2>4 DEF Networks
  <2> QED BY <2>5
<1>7. {Found[j] : j \in DOMAIN Found} =
         {r \in seen : \A s \in seen : s.ssid = r.ssid => s.rssi <= r.rssi}
  BY <1>2, <1>4, <1>6
<1> QED BY <1>5, <1>7

-----------------------------------------------------------------------------
(* What the pages read.                                                    *)

\* The worker's steps and the pages' leave each other's variables alone.
LEMMA PageTypedStep ==
  ASSUME ScanTypeOK, PageTyped, ScanNext
  PROVE  PageTyped'
<1>1. CASE Look
  <2>1. n' \in 0..WIFI_MAX_SCAN_RESULTS /\ page' = <<>> /\ httpd' = "copy"
    BY <1>1 DEF Look, ScanTypeOK
  <2>2. <<>> \in Seq(Entries)
    OBVIOUS
  <2> QED BY <2>1, <2>2 DEF PageTyped
<1>2. CASE Copy
  <2> DEFINE l == Len(page) + 1
  <2>1. page \in Seq(Entries) /\ n \in 0..WIFI_MAX_SCAN_RESULTS /\ Len(page) < n
    BY <1>2 DEF Copy, PageTyped
  <2>2. Len(page) \in Nat /\ WIFI_MAX_SCAN_RESULTS \in Nat
    BY <2>1, ScanAssumption
  <2>3. l \in 1..WIFI_MAX_SCAN_RESULTS
    BY <2>1, <2>2
  <2> HIDE DEF l
  <2>4. scan_results[l] \in Entries
    BY <2>3 DEF ScanTypeOK
  <2>5. page' = Append(page, scan_results[l]) /\ UNCHANGED <<httpd, n>> /\ httpd = "copy"
    BY <1>2 DEF Copy, l
  <2>6. page' \in Seq(Entries)
    BY <2>1, <2>4, <2>5
  <2> QED BY <2>1, <2>5, <2>6 DEF PageTyped
<1>3. CASE ReadIndex
  <2>1. candidate_index \in Nat /\ page' = <<candidate_index>> /\ httpd' = "cnt"
    BY <1>3, ScanAssumption DEF ReadIndex, ScanTypeOK
  <2>2. page' \in Seq(Nat) /\ Len(page') = 1
    BY <2>1
  <2>3. n' = n
    BY <1>3 DEF ReadIndex
  <2> QED BY <2>1, <2>2, <2>3 DEF PageTyped
<1>4. CASE Shown
  <2>1. n' = 0 /\ httpd' = "idle"
    BY <1>4 DEF Shown
  <2> QED BY <2>1, ScanAssumption DEF PageTyped
<1>5. CASE Ask \/ Post \/ ReadCount \/ ShowProgress
  <2>1. httpd' \in {"post", "idle", "progress"} /\ n' = n
    BY <1>5 DEF Ask, Post, ReadCount, ShowProgress
  <2> QED BY <2>1 DEF PageTyped
<1>6. CASE Worker \/ StartCycle \/ NextCandidate \/ Rest \/ Leave
  <2>1. UNCHANGED <<httpd, page, n>>
    BY <1>6 DEF Worker, OnScanRequest, ScanFails, ScanEnds, Fill, Filled, Done, LoadSaved,
                Consider, Considered, SortOne, Sorted, Begin, StartCycle, NextCandidate,
                Rest, Leave, httpVars
  <2> QED BY <2>1 DEF PageTyped
<1> QED BY <1>1, <1>2, <1>3, <1>4, <1>5, <1>6 DEF ScanNext, Httpd

\* The index that was read is brought below the count that was read after it.
LEMMA ProgressStep ==
  ASSUME ScanTypeOK, PageTyped, ProgressInRange, ScanNext
  PROVE  ProgressInRange'
<1>1. CASE ReadCount
  <2> DEFINE cnt == IF candidate_count = 0 THEN 1 ELSE candidate_count
             idx == page[1]
  <2>1. page' = <<Clamped(idx, cnt), cnt>> /\ page \in Seq(Nat) /\ Len(page) = 1
    BY <1>1 DEF ReadCount, PageTyped
  <2>2. idx \in Nat
    BY <2>1
  <2>3. candidate_count \in Nat
    BY ScanAssumption DEF ScanTypeOK
  <2>4. cnt \in Nat \ {0}
    BY <2>3
  <2> HIDE DEF cnt, idx
  <2>5. Clamped(idx, cnt) \in 0..(cnt - 1)
    BY <2>2, <2>4 DEF Clamped
  <2>6. page'[1] = Clamped(idx, cnt) /\ page'[2] = cnt
    BY <2>1
  <2> QED BY <2>5, <2>6 DEF ProgressInRange
<1>2. CASE Httpd /\ ~ReadCount
  <2>1. httpd' # "progress"
    BY <1>2 DEF Httpd, Ask, Post, Look, Copy, Shown, ReadIndex, ShowProgress
  <2> QED BY <2>1 DEF ProgressInRange
<1>3. CASE Worker \/ StartCycle \/ NextCandidate \/ Rest \/ Leave
  <2>1. UNCHANGED <<httpd, page>>
    BY <1>3 DEF Worker, OnScanRequest, ScanFails, ScanEnds, Fill, Filled, Done, LoadSaved,
                Consider, Considered, SortOne, Sorted, Begin, StartCycle, NextCandidate,
                Rest, Leave, httpVars
  <2> QED BY <2>1 DEF ProgressInRange
<1> QED BY <1>1, <1>2, <1>3 DEF ScanNext

\* The flag: what turns it off while it should be on is a request that finds the
\* queue full, and what leaves it on is one that a busy worker takes.
LEMMA FlagStep ==
  ASSUME ScanTypeOK, FlagMeansScan, ScanNext
  PROVE  FlagMeansScan'
<1>0. /\ scan_in_progress \in BOOLEAN /\ queue \in Nat
      /\ "dropped" \notin lapses /\ pc \in {"scan", "fill", "done"} => scan_in_progress
      /\ scan_in_progress /\ "ignored" \notin lapses =>
           httpd = "post" \/ queue > 0 \/ pc \in {"scan", "fill", "done"}
  BY ScanAssumption DEF ScanTypeOK, FlagMeansScan
<1>1. CASE OnScanRequest \/ StartCycle
  <2>1. CASE fsm = "rest" /\ OnScanRequest
    BY <1>0, <2>1 DEF OnScanRequest, StartScan, FlagMeansScan, httpVars
  <2>2. CASE fsm # "rest" /\ OnScanRequest
    BY <1>0, <2>2 DEF OnScanRequest, StartScan, FlagMeansScan, httpVars
  <2>3. CASE StartCycle
    BY <1>0, <2>3 DEF StartCycle, StartScan, FlagMeansScan, httpVars
  <2> QED BY <1>1, <2>1, <2>2, <2>3
<1>2. CASE ScanFails \/ Done
  <2>1. scan_in_progress' = FALSE /\ pc' \notin {"scan", "fill", "done"}
    BY <1>2 DEF ScanFails, Done, Return
  <2> QED BY <2>1 DEF FlagMeansScan
<1>3. CASE ScanEnds
  <2>1. /\ pc = "scan" /\ pc' = "fill" /\ scan_in_progress' = scan_in_progress
        /\ ("dropped" \in lapses => "dropped" \in lapses')
    BY <1>3 DEF ScanEnds, StillScanning
  <2> QED BY <1>0, <2>1 DEF FlagMeansScan
<1>4. CASE Fill \/ Filled
  BY <1>0, <1>4 DEF Fill, Filled, FlagMeansScan, httpVars
<1>5. CASE LoadSaved \/ Consider \/ Considered \/ SortOne \/ Sorted \/ Begin
  BY <1>0, <1>5 DEF LoadSaved, Consider, Considered, SortOne, Sorted, Begin, FlagMeansScan,
                    httpVars
<1>6. CASE NextCandidate \/ Rest \/ Leave
  BY <1>0, <1>6 DEF NextCandidate, Rest, Leave, FlagMeansScan, httpVars
<1>7. CASE Ask
  BY <1>0, <1>7 DEF Ask, FlagMeansScan
<1>8. CASE Post
  <2>1. CASE /\ queue < MaxPending /\ queue' = queue + 1
             /\ UNCHANGED <<scan_in_progress, lapses>>
    <3>1. queue' > 0 /\ UNCHANGED pc
      BY <1>0, <1>8, <2>1 DEF Post
    <3> QED BY <1>0, <2>1, <3>1 DEF FlagMeansScan
  <2>2. CASE scan_in_progress' = FALSE /\ lapses' = lapses \cup {"dropped"}
    BY <2>2 DEF FlagMeansScan
  <2> QED BY <1>8, <2>1, <2>2 DEF Post, Drop
<1>9. CASE Look \/ Copy \/ ReadIndex \/ ReadCount \/ ShowProgress
  BY <1>0, <1>9 DEF Look, Copy, ReadIndex, ReadCount, ShowProgress, FlagMeansScan
<1>10. CASE Shown
  <2>1. /\ httpd = "copy" /\ UNCHANGED <<scan_in_progress, queue, pc>>
        /\ "dropped" \in lapses <=> "dropped" \in lapses'
        /\ "ignored" \in lapses <=> "ignored" \in lapses'
    BY <1>10 DEF Shown
  <2> QED BY <1>0, <2>1 DEF FlagMeansScan
<1> QED BY <1>1, <1>2, <1>3, <1>4, <1>5, <1>6, <1>7, <1>8, <1>9, <1>10
        DEF ScanNext, Worker, Httpd

\* A page that reads the list has it of one scan, unless a scan ended meanwhile,
\* or the flag it looked at had been turned off by a dropped request.
LEMMA CopiesStep ==
  ASSUME ScanTypeOK, PageTyped, FlagMeansScan, PageCopies, ScanNext
  PROVE  PageCopies'
<1>1. CASE Look
  <2>1. /\ ~scan_in_progress /\ n' = scan_result_count /\ page' = <<>>
        /\ UNCHANGED <<scan_results, scan_result_count, pc, lapses>>
    BY <1>1 DEF Look, scanVars
  <2>2. "dropped" \notin lapses => pc \notin {"fill", "done"}
    BY <2>1 DEF FlagMeansScan
  <2>3. Len(page') = 0 /\ Len(page') <= n'
    BY <2>1, ScanAssumption DEF ScanTypeOK
  <2>4. 1..0 = {}
    OBVIOUS
  <2> QED BY <2>1, <2>2, <2>3, <2>4 DEF PageCopies
<1>2. CASE Copy
  <2> SUFFICES ASSUME lapses \cap {"dropped", "slow"} = {} PROVE
        /\ pc \notin {"fill", "done"}
        /\ n = scan_result_count /\ Len(page') <= n
        /\ \A j \in 1..Len(page') : page'[j] = scan_results[j]
    BY <1>2 DEF Copy, PageCopies, scanVars
  <2>1. /\ pc \notin {"fill", "done"} /\ n = scan_result_count
        /\ \A j \in 1..Len(page) : page[j] = scan_results[j]
    BY <1>2 DEF Copy, PageCopies
  <2> DEFINE l == Len(page)
  <2>2. page \in Seq(Entries) /\ n \in 0..WIFI_MAX_SCAN_RESULTS /\ l < n /\ l \in Nat
        /\ WIFI_MAX_SCAN_RESULTS \in Nat
    BY <1>2, ScanAssumption DEF Copy, PageTyped
  <2>3. l + 1 \in 1..WIFI_MAX_SCAN_RESULTS /\ l + 1 <= n
    BY <2>2
  <2> HIDE DEF l
  <2>4. scan_results[l + 1] \in Entries
    BY <2>3 DEF ScanTypeOK
  <2>5. page' = Append(page, scan_results[l + 1])
    BY <1>2 DEF Copy, l
  <2>6. /\ Len(page') = l + 1 /\ page'[l + 1] = scan_results[l + 1]
        /\ \A j \in 1..l : page'[j] = page[j]
    BY <2>2, <2>4, <2>5, SetAppended DEF l
  <2>7. \A j \in 1..(l + 1) : j \in 1..l \/ j = l + 1
    BY <2>2
  <2> QED BY <2>1, <2>3, <2>6, <2>7 DEF l
<1>3. CASE Httpd /\ ~Look /\ ~Copy
  <2>1. httpd' # "copy"
    BY <1>3 DEF Httpd, Ask, Post, Shown, ReadIndex, ReadCount, ShowProgress
  <2> QED BY <2>1 DEF PageCopies
<1>4. CASE ScanEnds
  <2>1. httpd' = httpd /\ (httpd = "copy" => "slow" \in lapses')
    BY <1>4 DEF ScanEnds, httpVars
  <2> QED BY <2>1 DEF PageCopies
<1>5. CASE Fill \/ Filled
  <2>1. /\ pc = "fill" /\ UNCHANGED <<httpd, lapses>>
    BY <1>5 DEF Fill, Filled, httpVars
  <2> QED BY <2>1 DEF PageCopies
<1>6. CASE Done
  <2>1. /\ pc = "done" /\ httpd' = httpd
        /\ "dropped" \in lapses /\ httpd = "copy" => "slow" \in lapses'
        /\ "slow" \in lapses => "slow" \in lapses'
    BY <1>6 DEF Done, Return, httpVars
  <2> QED BY <2>1 DEF PageCopies
<1>7. CASE ScanFails
  <2>1. /\ pc' \notin {"fill", "done"}
        /\ UNCHANGED <<httpd, page, n, scan_results, scan_result_count>>
        /\ "dropped" \in lapses /\ httpd = "copy" => "slow" \in lapses'
        /\ "slow" \in lapses => "slow" \in lapses'
    BY <1>7 DEF ScanFails, Return, httpVars, scanVars
  <2> QED BY <2>1 DEF PageCopies
<1>8. CASE OnScanRequest \/ StartCycle
  <2>1. /\ pc' \notin {"fill", "done"}
        /\ UNCHANGED <<httpd, page, n, scan_results, scan_result_count>>
        /\ "dropped" \in lapses => "dropped" \in lapses'
        /\ "slow" \in lapses => "slow" \in lapses'
    BY <1>8 DEF OnScanRequest, StartCycle, StartScan, httpVars, scanVars, ScanTypeOK
  <2> QED BY <2>1 DEF PageCopies
<1>9. CASE LoadSaved \/ Consider \/ Considered \/ SortOne \/ Sorted \/ Begin
           \/ NextCandidate \/ Rest \/ Leave
  <2>1. /\ pc' \notin {"fill", "done"}
        /\ UNCHANGED <<httpd, page, n, scan_results, scan_result_count, lapses>>
    BY <1>9 DEF LoadSaved, Consider, Considered, SortOne, Sorted, Begin, NextCandidate,
                Rest, Leave, httpVars, scanVars
  <2> QED BY <2>1 DEF PageCopies
<1> QED BY <1>1, <1>2, <1>3, <1>4, <1>5, <1>6, <1>7, <1>8, <1>9 DEF ScanNext, Worker

LEMMA CopiesAreShown ==
  ASSUME ScanTypeOK, PageTyped, PageCopies
  PROVE  OneScanShown
<1> SUFFICES ASSUME httpd = "copy", Len(page) = n, lapses \cap {"dropped", "slow"} = {}
             PROVE  page = Found
  BY DEF OneScanShown
<1>1. /\ page \in Seq(Entries) /\ n = scan_result_count
      /\ \A j \in 1..Len(page) : page[j] = scan_results[j]
  BY DEF PageTyped, PageCopies
<1>2. /\ Found \in Seq(Entries) /\ Len(Found) = scan_result_count
      /\ \A j \in 1..scan_result_count : Found[j] = scan_results[j]
  BY FoundIs
<1> QED BY <1>1, <1>2, SeqEqual

-----------------------------------------------------------------------------
(* The candidates.                                                         *)

\* The signals a name was heard with have a strongest.
LEMMA SignalOf ==
  ASSUME ScanTypeOK, NEW s
  PROVE  /\ Signal(s) \in Int
         /\ {scan_results[j].rssi : j \in Visible(s)} \subseteq (-127)..0
<1> DEFINE T == {scan_results[j].rssi : j \in Visible(s)}
<1>1. \A j \in Visible(s) : scan_results[j] \in Entries
  BY ScanAssumption DEF Visible, ScanTypeOK
<1>2. T \subseteq (-127)..0
  BY <1>1, SignalsAreNumbers
<1>3. CASE Visible(s) # {}
  <2>1. T # {}
    BY <1>3
  <2> HIDE DEF T
  <2>2. Max(T) \in (-127)..0
    BY <1>2, <2>1, MaxOfSignals
  <2>3. Signal(s) = Max(T)
    BY <1>3 DEF Signal, T
  <2> QED BY <1>2, <2>2, <2>3 DEF T
<1>4. CASE Visible(s) = {}
  BY <1>2, <1>4 DEF Signal
<1> QED BY <1>3, <1>4

\* One more saved network is one more candidate if it is heard or hidden.
LEMMA CandidatesGrow ==
  ASSUME NEW k \in Nat \ {0}
  PROVE  CandidatesOf(k) = CandidatesOf(k - 1) \cup
           (IF Eligible(saved[k]) THEN {CandidateOf(saved[k])} ELSE {})
<1>1. \A j : j \in 1..k <=> j \in 1..(k - 1) \/ j = k
  OBVIOUS
<1> QED BY <1>1 DEF CandidatesOf

LEMMA SameCandidates ==
  ASSUME UNCHANGED <<scan_results, scan_result_count, saved>>
  PROVE  /\ \A k : CandidatesOf(k)' = CandidatesOf(k)
         /\ \A c, d : SavedBefore(c, d)' <=> SavedBefore(c, d)
         /\ \A c, d : Outranks(c, d)' <=> Outranks(c, d)
<1>1. \A c, d : SavedBefore(c, d)' <=> SavedBefore(c, d)
  BY DEF SavedBefore
<1>2. \A k : CandidatesOf(k)' = CandidatesOf(k)
  BY DEF CandidatesOf, CandidateOf, Signal, Visible, Eligible
<1> QED BY <1>1, <1>2 DEF Outranks

\* The next saved network's candidate comes after those of the networks before
\* it.
LEMMA ConsiderStep ==
  ASSUME ScanTypeOK, CandidatesTyped, CandidatesCollected, Consider
  PROVE  /\ CandidatesTyped' /\ CandidatesCollected'
         /\ candidate_count' \in 0..WIFI_MAX_SAVED_NETWORKS
<1> DEFINE k == loop_i
           s == saved[k]
           list == candidate_list
           new == CandidateOf(s)
<1>1. /\ saved \in SavedLists /\ k \in Nat /\ list \in Seq(Cands)
      /\ Len(list) = candidate_count /\ k \in 1..(Len(saved) + 1)
      /\ candidate_count <= k - 1 /\ ToSet(list) = CandidatesOf(k - 1)
      /\ \A m \in 1..candidate_count : \A j \in 1..(m - 1) : SavedBefore(list[j], list[m])
  BY DEF Consider, CandidatesTyped, CandidatesCollected
<1>2. /\ saved \in Seq([ssid : SSIDs, hidden : BOOLEAN])
      /\ Len(saved) \in 0..WIFI_MAX_SAVED_NETWORKS
      /\ \A a, b \in 1..Len(saved) : saved[a].ssid = saved[b].ssid => a = b
  BY <1>1, SavedListsAre
<1>3. /\ k <= Len(saved) /\ loop_i' = k + 1
      /\ UNCHANGED <<scan_results, scan_result_count, saved, pc>> /\ pc = "collect"
  BY DEF Consider, scanVars
<1>4. WIFI_MAX_SAVED_NETWORKS \in Nat /\ Len(saved) \in Nat /\ candidate_count \in Nat
  BY <1>2, ScanAssumption DEF ScanTypeOK
<1>5. k \in 1..Len(saved) /\ k \in Nat \ {0} /\ k + 1 \in 1..(Len(saved) + 1)
      /\ (k + 1) - 1 = k /\ k + 1 \in Nat
  BY <1>1, <1>3, <1>4
<1>6. s \in [ssid : SSIDs, hidden : BOOLEAN]
  <2> HIDE DEF k
  <2> QED BY <1>2, <1>5, ElementOfSeq
<1>7. new \in Cands /\ new.ssid = s.ssid /\ new = [ssid |-> s.ssid, rssi |-> Signal(s)]
  <2>1. s.ssid \in SSIDs
    BY <1>6
  <2>2. Signal(s) \in Int
    BY SignalOf
  <2> HIDE DEF s
  <2> QED BY <2>1, <2>2 DEF CandidateOf, Cands
<1>8. CandidatesOf(k) = CandidatesOf(k - 1) \cup (IF Eligible(s) THEN {new} ELSE {})
  BY <1>5, CandidatesGrow
<1>9. \A j \in 1..Len(list) : SavedBefore(list[j], new)
  <2> SUFFICES ASSUME NEW j \in 1..Len(list),
                      NEW a \in 1..Len(saved), NEW b \in 1..Len(saved),
                      saved[a].ssid = list[j].ssid, saved[b].ssid = new.ssid
               PROVE  a < b
    BY DEF SavedBefore
  <2>1. list[j] \in CandidatesOf(k - 1)
    BY <1>1, SetOf
  <2>2. PICK x \in 1..(k - 1) : list[j] = CandidateOf(saved[x])
    BY <2>1 DEF CandidatesOf
  <2>3. x \in 1..Len(saved) /\ x < k
    BY <1>5, <1>4
  <2>4. list[j].ssid = saved[x].ssid
    BY <2>2 DEF CandidateOf
  <2>5. a = x
    BY <2>3, <2>4, <1>2
  <2>6. b = k
    BY <1>5, <1>7, <1>2
  <2> QED BY <2>3, <2>5, <2>6
<1>10. CASE Eligible(s)
  <2> DEFINE t == Append(list, new)
  <2>1. candidate_list' = t /\ candidate_count' = candidate_count + 1
    BY <1>10, <1>7 DEF Consider
  <2>2. /\ t \in Seq(Cands) /\ Len(t) = Len(list) + 1
        /\ \A j \in 1..Len(list) : t[j] = list[j]
        /\ t[Len(list) + 1] = new
        /\ ToSet(t) = ToSet(list) \cup {new}
    BY <1>1, <1>7, SetAppended
  <2> HIDE DEF t, new, s, list, k
  <2>3. ToSet(t) = CandidatesOf(k)
    BY <2>2, <1>1, <1>8, <1>10
  <2>4. \A m \in 1..(candidate_count + 1) : \A j \in 1..(m - 1) : SavedBefore(t[j], t[m])
    <3> SUFFICES ASSUME NEW m \in 1..(candidate_count + 1), NEW j \in 1..(m - 1)
                 PROVE  SavedBefore(t[j], t[m])
      OBVIOUS
    <3>1. j \in 1..candidate_count
      BY <1>4
    <3>2. CASE m \in 1..candidate_count
      BY <3>1, <3>2, <2>2, <1>1
    <3>3. CASE m = candidate_count + 1
      BY <3>1, <3>3, <2>2, <1>1, <1>9
    <3> QED BY <3>2, <3>3, <1>4
  <2>5. candidate_count + 1 <= (k + 1) - 1
    BY <1>1, <1>4, <1>5
  <2>6. candidate_count + 1 \in 0..WIFI_MAX_SAVED_NETWORKS
    BY <1>1, <1>2, <1>4, <1>5
  <2>7. CandidatesTyped'
    BY <2>1, <2>2, <1>1, <1>3, <1>5 DEF CandidatesTyped
  <2>8. CandidatesCollected'
    <3>1. ToSet(candidate_list') = CandidatesOf(loop_i - 1)'
      <4>1. PICK x : x = loop_i
        OBVIOUS
      <4>2. CandidatesOf(x)' = CandidatesOf(x)
        BY <1>3, SameCandidates
      <4>3. CandidatesOf(loop_i - 1)' = CandidatesOf(x)'
        <5>1. (loop_i - 1)' = x
          BY <4>1, <1>3, <1>5 DEF k
        <5> QED BY <5>1 DEF CandidatesOf
      <4>4. ToSet(t) = CandidatesOf(x)
        BY <2>3, <4>1 DEF k
      <4> QED BY <4>2, <4>3, <4>4, <2>1
    <3> QED BY <3>1, <2>1, <2>4, <2>5, <1>3, <1>5 DEF CandidatesCollected, SavedBefore
  <2> QED BY <2>1, <2>6, <2>7, <2>8
<1>11. CASE ~Eligible(s)
  <2>1. UNCHANGED <<candidate_list, candidate_count>>
    BY <1>11 DEF Consider
  <2> HIDE DEF new, s, list, k
  <2>2. ToSet(list) = CandidatesOf(k)
    BY <1>1, <1>8, <1>11
  <2>3. candidate_count <= (k + 1) - 1
    BY <1>1, <1>4, <1>5
  <2>4. CandidatesTyped'
    BY <2>1, <1>1, <1>3, <1>5 DEF CandidatesTyped, list
  <2>5. ToSet(candidate_list') = CandidatesOf(loop_i - 1)'
    <3>1. PICK x : x = loop_i
      OBVIOUS
    <3>2. CandidatesOf(x)' = CandidatesOf(x)
      BY <1>3, SameCandidates
    <3>3. CandidatesOf(loop_i - 1)' = CandidatesOf(x)'
      <4>1. (loop_i - 1)' = x
        BY <3>1, <1>3, <1>5 DEF k
      <4> QED BY <4>1 DEF CandidatesOf
    <3>4. ToSet(list) = CandidatesOf(x)
      BY <2>2, <3>1 DEF k
    <3> QED BY <3>2, <3>3, <3>4, <2>1 DEF list
  <2>6. CandidatesCollected'
    BY <2>1, <2>3, <2>5, <1>1, <1>3, <1>5 DEF CandidatesCollected, SavedBefore, list
  <2> QED BY <2>1, <2>4, <2>6 DEF ScanTypeOK
<1> QED BY <1>10, <1>11

\* One step of the sort, with the index k of the loop fixed.
LEMMA SortOneStep ==
  ASSUME ScanTypeOK, CandidatesTyped, CandidatesSorted, SortOne, loop_i \in Nat \ {0, 1}
  PROVE  /\ CandidatesTyped' /\ CandidatesSorted' /\ Len(candidate_list)' = candidate_count
         /\ loop_i' \in Nat \ {0, 1}
<1>1. PICK k : k = loop_i
  OBVIOUS
<1> DEFINE list == candidate_list
           t == Moved(list, k, PlaceOf(list, k))
           L == Len(list)
<1>2. /\ pc = "sort" /\ pc' = "sort" /\ k <= candidate_count /\ loop_i' = k + 1
      /\ candidate_list' = t
      /\ UNCHANGED <<scan_results, scan_result_count, saved, candidate_count>>
  BY <1>1 DEF SortOne, scanVars
<1>3. /\ saved \in SavedLists /\ k \in Nat \ {0, 1} /\ list \in Seq(Cands)
      /\ L = candidate_count /\ ToSet(list) = CandidatesOf(Len(saved))
  BY <1>1, <1>2 DEF CandidatesTyped, CandidatesSorted
<1>4. \A m \in 1..L : \A j \in 1..(m - 1) :
        IF m < k THEN Outranks(list[j], list[m]) ELSE SavedBefore(list[j], list[m])
  BY <1>1, <1>2, <1>3 DEF CandidatesSorted
<1>5. L \in Nat /\ k \in 2..L /\ k \in 1..L
  BY <1>2, <1>3
<1>6. \A m \in 1..L : \A j \in 1..(m - 1) :
        IF m < k + 1 THEN Outranks(t[j], t[m]) ELSE SavedBefore(t[j], t[m])
  <2> HIDE DEF list
  <2> QED BY <1>3, <1>4, <1>5, SortedOneMore
<1>7. t \in Seq(Cands) /\ Len(t) = L /\ ToSet(t) = ToSet(list)
  <2> DEFINE p == PlaceOf(list, k)
  <2>1. p \in 1..k
    BY <1>3, <1>5, PlaceFound
  <2> HIDE DEF p, list
  <2>2. LET u == Moved(list, k, p) IN
        u \in Seq(Cands) /\ Len(u) = L /\ ToSet(u) = ToSet(list)
    BY <1>3, <1>5, <2>1, MovedKeeps
  <2> QED BY <2>2 DEF p
<1> HIDE DEF t, list, L
<1>8. CandidatesTyped'
  BY <1>2, <1>3, <1>7 DEF CandidatesTyped
<1>9. ToSet(candidate_list') = CandidatesOf(Len(saved))'
  <2>1. PICK x : x = Len(saved)
    OBVIOUS
  <2>2. CandidatesOf(x)' = CandidatesOf(x)
    BY <1>2, SameCandidates
  <2>3. CandidatesOf(Len(saved))' = CandidatesOf(x)'
    <3>1. Len(saved)' = x
      BY <2>1, <1>2
    <3> QED BY <3>1 DEF CandidatesOf
  <2> QED BY <2>1, <2>2, <2>3, <1>2, <1>3, <1>7
<1>10. CandidatesSorted'
  <2>1. PICK u : u = t
    OBVIOUS
  <2>2. \A m \in 1..L : \A j \in 1..(m - 1) :
          IF m < k + 1 THEN Outranks(u[j], u[m]) ELSE SavedBefore(u[j], u[m])
    BY <2>1, <1>6
  <2>3. candidate_list' = u /\ L = candidate_count' /\ pc' # "chosen" /\ saved' = saved
    BY <2>1, <1>2, <1>3
  <2>4. \A m \in 1..candidate_count' : \A j \in 1..(m - 1) :
          IF m < loop_i' THEN Outranks(candidate_list[j], candidate_list[m])'
          ELSE SavedBefore(candidate_list[j], candidate_list[m])'
    BY <2>2, <2>3, <1>2 DEF Outranks, SavedBefore
  <2> QED BY <2>3, <2>4, <1>9 DEF CandidatesSorted
<1> QED BY <1>2, <1>3, <1>7, <1>8, <1>10

\* A step that leaves the worker's lists alone.
LEMMA CandidatesStutter ==
  ASSUME CandidatesTyped, CandidatesGone, CandidatesCollected, CandidatesSorted, SortFrom2,
         UNCHANGED <<candVars, scanVars, pc>>
  PROVE  /\ CandidatesTyped' /\ CandidatesGone' /\ CandidatesCollected'
         /\ CandidatesSorted' /\ SortFrom2'
         /\ UNCHANGED <<candidate_list, candidate_count>>
<1>1. UNCHANGED <<candidate_list, candidate_count, saved, loop_i, scan_results,
                  scan_result_count, pc>>
  BY DEF candVars, scanVars
<1>2. CandidatesOf(loop_i - 1)' = CandidatesOf(loop_i - 1)
  BY <1>1 DEF CandidatesOf, CandidateOf, Signal, Visible, Eligible
<1>3. CandidatesOf(Len(saved))' = CandidatesOf(Len(saved))
  BY <1>1 DEF CandidatesOf, CandidateOf, Signal, Visible, Eligible
<1>4. CandidatesTyped' /\ CandidatesGone' /\ SortFrom2'
  BY <1>1 DEF CandidatesTyped, CandidatesGone, SortFrom2
<1>5. CandidatesCollected'
  BY <1>1, <1>2 DEF CandidatesCollected, SavedBefore
<1>6. CandidatesSorted'
  <2> SUFFICES ASSUME pc' \in {"sort", "chosen"} PROVE
        /\ ToSet(candidate_list') = CandidatesOf(Len(saved))'
        /\ \A k \in 1..candidate_count' : \A j \in 1..(k - 1) :
             IF k < loop_i' \/ pc' = "chosen"
             THEN Outranks(candidate_list[j], candidate_list[k])'
             ELSE SavedBefore(candidate_list[j], candidate_list[k])'
    BY DEF CandidatesSorted
  <2>1. /\ ToSet(candidate_list) = CandidatesOf(Len(saved))
        /\ \A k \in 1..candidate_count : \A j \in 1..(k - 1) :
             IF k < loop_i \/ pc = "chosen"
             THEN Outranks(candidate_list[j], candidate_list[k])
             ELSE SavedBefore(candidate_list[j], candidate_list[k])
    BY <1>1 DEF CandidatesSorted
  <2>2. ToSet(candidate_list') = CandidatesOf(Len(saved))'
    BY <1>1, <1>3, <2>1
  <2>3. \A k \in 1..candidate_count' : \A j \in 1..(k - 1) :
             IF k < loop_i' \/ pc' = "chosen"
             THEN Outranks(candidate_list[j], candidate_list[k])'
             ELSE SavedBefore(candidate_list[j], candidate_list[k])'
    BY <1>1, <2>1 DEF Outranks, SavedBefore
  <2> QED BY <2>2, <2>3
<1> QED BY <1>1, <1>4, <1>5, <1>6

\* The lists of candidates and its order, through every step of the worker and the
\* pages.
LEMMA CandidatesStep ==
  ASSUME ScanTypeOK, CandidatesTyped, CandidatesGone, CandidatesCollected, CandidatesSorted,
         SortFrom2, ScanNext
  PROVE  /\ CandidatesTyped' /\ CandidatesGone' /\ CandidatesCollected'
         /\ CandidatesSorted' /\ SortFrom2'
         /\ candidate_count' \in 0..WIFI_MAX_SAVED_NETWORKS
         /\ (Len(candidate_list) \in {0, candidate_count})'
<1>0. /\ candidate_count \in 0..WIFI_MAX_SAVED_NETWORKS /\ WIFI_MAX_SAVED_NETWORKS \in Nat
      /\ Len(candidate_list) \in {0, candidate_count}
      /\ Len(<<>>) = 0
  BY ScanAssumption DEF ScanTypeOK
<1>1. CASE LoadSaved
  <2>1. /\ pc' = "collect" /\ saved' \in SavedLists /\ loop_i' = 1
        /\ candidate_list' = <<>> /\ candidate_count' = 0
    BY <1>1 DEF LoadSaved
  <2>2. Len(saved') \in Nat
    BY <2>1, SavedListsAre, ScanAssumption
  <2>3. <<>> \in Seq(Cands) /\ ToSet(<<>>) = {} /\ Len(<<>>) = 0
    BY DEF ToSet
  <2>4. CandidatesOf(loop_i - 1)' = {}
    <3>1. 1..(loop_i' - 1) = {}
      BY <2>1
    <3> QED BY <3>1 DEF CandidatesOf
  <2>5. CandidatesTyped'
    BY <2>1, <2>3 DEF CandidatesTyped
  <2>6. CandidatesCollected'
    <3>1. 1 \in 1..(Len(saved') + 1) /\ 0 <= 1 - 1 /\ 1..0 = {}
      BY <2>2
    <3> QED BY <2>1, <2>3, <2>4, <3>1 DEF CandidatesCollected
  <2>7. CandidatesGone' /\ CandidatesSorted' /\ SortFrom2'
    BY <2>1 DEF CandidatesGone, CandidatesSorted, SortFrom2
  <2> QED BY <2>1, <2>3, <2>5, <2>6, <2>7, <1>0
<1>2. CASE Consider
  <2>1. /\ CandidatesTyped' /\ CandidatesCollected'
        /\ candidate_count' \in 0..WIFI_MAX_SAVED_NETWORKS
    BY <1>2, ConsiderStep
  <2>2. pc' = "collect"
    BY <1>2 DEF Consider
  <2> QED BY <2>1, <2>2 DEF CandidatesTyped, CandidatesGone, CandidatesSorted, SortFrom2
<1>3. CASE Considered
  <2>1. /\ pc = "collect" /\ pc' = "sort" /\ loop_i' = 2 /\ loop_i > Len(saved)
        /\ UNCHANGED <<candidate_list, candidate_count, saved, scan_results,
                       scan_result_count>>
    BY <1>3 DEF Considered, scanVars
  <2>2. /\ saved \in SavedLists /\ loop_i \in 1..(Len(saved) + 1)
        /\ candidate_list \in Seq(Cands) /\ Len(candidate_list) = candidate_count
        /\ ToSet(candidate_list) = CandidatesOf(loop_i - 1)
        /\ \A k \in 1..candidate_count : \A j \in 1..(k - 1) :
             SavedBefore(candidate_list[j], candidate_list[k])
    BY <2>1 DEF CandidatesTyped, CandidatesCollected
  <2>3. loop_i - 1 = Len(saved)
    <3>1. Len(saved) \in Nat
      BY <2>2, SavedListsAre, ScanAssumption
    <3> QED BY <3>1, <2>1, <2>2
  <2>4. ToSet(candidate_list') = CandidatesOf(Len(saved))'
    <3>1. PICK x : x = Len(saved)
      OBVIOUS
    <3>2. CandidatesOf(x)' = CandidatesOf(x)
      BY <2>1, SameCandidates
    <3>3. CandidatesOf(Len(saved))' = CandidatesOf(x)'
      <4>1. Len(saved)' = x
        BY <3>1, <2>1
      <4> QED BY <4>1 DEF CandidatesOf
    <3> QED BY <3>1, <3>2, <3>3, <2>1, <2>2, <2>3
  <2>5. \A k \in 1..candidate_count : k < 2 => 1..(k - 1) = {}
    BY <1>0
  <2>6. CandidatesSorted'
    <3>1. \A k \in 1..candidate_count : \A j \in 1..(k - 1) : ~(k < 2)
      BY <2>5
    <3>2. \A k \in 1..candidate_count' : \A j \in 1..(k - 1) :
            SavedBefore(candidate_list[j], candidate_list[k])'
      BY <2>1, <2>2 DEF SavedBefore
    <3> QED BY <3>1, <3>2, <2>1, <2>4 DEF CandidatesSorted
  <2>7. CandidatesTyped' /\ CandidatesGone' /\ CandidatesCollected' /\ SortFrom2'
    BY <2>1, <2>2 DEF CandidatesTyped, CandidatesGone, CandidatesCollected, SortFrom2
  <2> QED BY <2>1, <2>6, <2>7, <1>0
<1>4. CASE SortOne
  <2>1. pc = "sort" /\ pc' = "sort" /\ candidate_count' = candidate_count
    BY <1>4 DEF SortOne
  <2>2. loop_i \in Nat \ {0, 1}
    BY <2>1 DEF SortFrom2
  <2>3. /\ CandidatesTyped' /\ CandidatesSorted' /\ Len(candidate_list)' = candidate_count
        /\ loop_i' \in Nat \ {0, 1}
    BY <1>4, <2>2, SortOneStep
  <2> QED BY <2>1, <2>3, <1>0 DEF CandidatesGone, CandidatesCollected, SortFrom2
<1>5. CASE Sorted
  <2>1. /\ pc = "sort" /\ pc' = "chosen" /\ loop_i > candidate_count
        /\ UNCHANGED <<candidate_list, candidate_count, saved, loop_i, scan_results,
                       scan_result_count>>
    BY <1>5 DEF Sorted, scanVars
  <2>2. CandidatesTyped' /\ CandidatesGone' /\ CandidatesCollected' /\ SortFrom2'
    BY <2>1 DEF CandidatesTyped, CandidatesGone, CandidatesCollected, SortFrom2
  <2>3. \A k \in 1..candidate_count : k < loop_i
    BY <2>1, <1>0 DEF SortFrom2
  <2>4. /\ ToSet(candidate_list) = CandidatesOf(Len(saved))
        /\ \A k \in 1..candidate_count : \A j \in 1..(k - 1) :
             Outranks(candidate_list[j], candidate_list[k])
    BY <2>1, <2>3 DEF CandidatesSorted
  <2>5. ToSet(candidate_list') = CandidatesOf(Len(saved))'
    <3>1. PICK x : x = Len(saved)
      OBVIOUS
    <3>2. CandidatesOf(x)' = CandidatesOf(x)
      BY <2>1, SameCandidates
    <3>3. CandidatesOf(Len(saved))' = CandidatesOf(x)'
      <4>1. Len(saved)' = x
        BY <3>1, <2>1
      <4> QED BY <4>1 DEF CandidatesOf
    <3> QED BY <3>1, <3>2, <3>3, <2>1, <2>4
  <2>6. CandidatesSorted'
    BY <2>1, <2>4, <2>5 DEF CandidatesSorted, Outranks, SavedBefore
  <2> QED BY <2>1, <2>2, <2>6, <1>0
<1>6. CASE Begin
  <2>1. /\ pc' = "ready" /\ candidate_list' = <<>> /\ candidate_count' = candidate_count
    BY <1>6 DEF Begin
  <2> QED BY <2>1, <1>0 DEF CandidatesTyped, CandidatesGone, CandidatesCollected,
                            CandidatesSorted, SortFrom2
<1>7. CASE NextCandidate
  <2>1. /\ pc = "ready" /\ pc' = "ready" /\ candidate_list' = candidate_list
        /\ candidate_count' \in {0, candidate_count}
    BY <1>7 DEF NextCandidate
  <2>2. candidate_list = <<>>
    BY <2>1 DEF CandidatesGone
  <2> QED BY <2>1, <2>2, <1>0 DEF CandidatesTyped, CandidatesGone, CandidatesCollected,
                                  CandidatesSorted, SortFrom2
<1>8. CASE OnScanRequest \/ ScanFails \/ ScanEnds \/ Fill \/ Filled \/ Done \/ StartCycle
           \/ Rest \/ Leave
  <2>1. /\ pc \notin {"collect", "sort", "chosen"}
        /\ pc' \notin {"collect", "sort", "chosen"}
        /\ UNCHANGED <<candidate_list, candidate_count>>
    BY <1>8 DEF OnScanRequest, ScanFails, ScanEnds, Fill, Filled, Done, StartCycle,
                StartScan,
                Rest, Leave, Return, candVars
  <2> QED BY <2>1, <1>0 DEF CandidatesTyped, CandidatesGone, CandidatesCollected,
                            CandidatesSorted, SortFrom2
<1>9. CASE Httpd
  <2>1. UNCHANGED <<candVars, scanVars, pc>>
    BY <1>9 DEF Httpd, Ask, Post, Look, Copy, Shown, ReadIndex, ReadCount, ShowProgress
  <2> QED BY <2>1, <1>0, CandidatesStutter
<1> QED BY <1>1, <1>2, <1>3, <1>4, <1>5, <1>6, <1>7, <1>8, <1>9 DEF ScanNext, Worker

\* The candidates of a cycle, sorted, are what the list and the saved networks say.
LEMMA SortedIsInOrder ==
  ASSUME ScanTypeOK, CandidatesTyped, CandidatesSorted
  PROVE  CandidatesInOrder
<1> DEFINE At(c) == CHOOSE j \in DOMAIN saved : saved[j].ssid = c.ssid
           Heard(s) == {e.rssi : e \in {e \in ToSet(Found) : e.ssid = s.ssid}}
           L == candidate_list
<1> SUFFICES ASSUME pc = "chosen" PROVE
      /\ ToSet(L) = {[ssid |-> s.ssid,
                      rssi |-> IF Heard(s) = {} THEN -127 ELSE Max(Heard(s))] :
                       s \in {s \in ToSet(saved) : s.hidden \/ Heard(s) # {}}}
      /\ \A j, k \in DOMAIN L : j < k =>
           \/ L[j].rssi > L[k].rssi
           \/ L[j].rssi = L[k].rssi /\ At(L[j]) < At(L[k])
  BY DEF CandidatesInOrder
<1>1. /\ saved \in SavedLists /\ L \in Seq(Cands) /\ Len(L) = candidate_count
      /\ ToSet(L) = CandidatesOf(Len(saved))
      /\ \A k \in 1..candidate_count : \A j \in 1..(k - 1) : Outranks(L[j], L[k])
  BY DEF CandidatesTyped, CandidatesSorted
<1>2. /\ saved \in Seq([ssid : SSIDs, hidden : BOOLEAN])
      /\ DOMAIN saved = 1..Len(saved) /\ Len(saved) \in Nat
      /\ \A a, b \in 1..Len(saved) : saved[a].ssid = saved[b].ssid => a = b
  <2>1. saved \in SavedLists
    BY <1>1
  <2> HIDE DEF At, Heard, L
  <2>2. /\ saved \in Seq([ssid : SSIDs, hidden : BOOLEAN]) /\ DOMAIN saved = 1..Len(saved)
        /\ \A a, b \in 1..Len(saved) : saved[a].ssid = saved[b].ssid => a = b
    BY <2>1, SavedListsAre
  <2>3. Len(saved) \in Nat
    BY <2>2
  <2> QED BY <2>2, <2>3
<1>3. /\ Found \in Seq(Entries)
      /\ \A e : e \in ToSet(Found) <=> \E j \in 1..scan_result_count : e = scan_results[j]
  BY FoundIs, SetOf
<1>4. ASSUME NEW s PROVE Heard(s) = {scan_results[j].rssi : j \in Visible(s)}
  BY <1>3 DEF Visible
<1>5. ASSUME NEW s
      PROVE  /\ (Heard(s) = {} <=> Visible(s) = {})
             /\ Signal(s) = IF Heard(s) = {} THEN -127 ELSE Max(Heard(s))
  <2>1. Heard(s) = {scan_results[j].rssi : j \in Visible(s)}
    BY <1>4
  <2> HIDE DEF Heard
  <2>2. Heard(s) = {} <=> Visible(s) = {}
    BY <2>1
  <2> QED BY <2>1, <2>2 DEF Signal
<1> DEFINE Cand(s) == [ssid |-> s.ssid,
                       rssi |-> IF Heard(s) = {} THEN -127 ELSE Max(Heard(s))]
<1>6. \A s : CandidateOf(s) = Cand(s)
  BY <1>5 DEF CandidateOf
<1>7. \A s : Eligible(s) <=> s.hidden \/ Heard(s) # {}
  <2> HIDE DEF Heard
  <2> QED BY <1>5 DEF Eligible
<1>8. \A s : s \in ToSet(saved) <=> \E j \in 1..Len(saved) : s = saved[j]
  BY <1>2, SetOf
<1>9. ToSet(L) = {Cand(s) : s \in {s \in ToSet(saved) : s.hidden \/ Heard(s) # {}}}
  <2> HIDE DEF Heard, Cand, L
  <2>1. ToSet(L) = {CandidateOf(saved[j]) :
                      j \in {j \in 1..Len(saved) : Eligible(saved[j])}}
    BY <1>1 DEF CandidatesOf
  <2>2. ToSet(L) = {Cand(saved[j]) : j \in {j \in 1..Len(saved) : Eligible(saved[j])}}
    BY <2>1, <1>6
  <2> QED BY <2>2, <1>7, <1>8
<1>10. ASSUME NEW k \in 1..Len(L), NEW j \in 1..Len(L), j < k
       PROVE  \/ L[j].rssi > L[k].rssi
              \/ L[j].rssi = L[k].rssi /\ At(L[j]) < At(L[k])
  <2>1. Outranks(L[j], L[k])
    BY <1>1, <1>10
  <2>2. ASSUME NEW m \in 1..Len(L)
        PROVE  /\ At(L[m]) \in 1..Len(saved)
               /\ saved[At(L[m])].ssid = L[m].ssid
    <3>1. L[m] \in CandidatesOf(Len(saved))
      BY <1>1, SetOf
    <3>2. \E a \in 1..Len(saved) : saved[a].ssid = L[m].ssid
      BY <3>1 DEF CandidatesOf, CandidateOf
    <3> HIDE DEF L
    <3> QED BY <3>2, <1>2
  <2> HIDE DEF At, L
  <2>3. SavedBefore(L[j], L[k]) => At(L[j]) < At(L[k])
    BY <2>2 DEF SavedBefore
  <2> QED BY <2>1, <2>3 DEF Outranks
<1>11. DOMAIN L = 1..Len(L)
  BY <1>1
<1> QED BY <1>9, <1>10, <1>11

-----------------------------------------------------------------------------
(* The invariant.                                                          *)

LEMMA ScanTypeStep ==
  ASSUME ScanTypeOK, ListFilled, CandidatesTyped, CandidatesGone, CandidatesCollected,
         CandidatesSorted, SortFrom2, ScanNext
  PROVE  ScanTypeOK'
<1>1. /\ candidate_count' \in 0..WIFI_MAX_SAVED_NETWORKS
      /\ (Len(candidate_list) \in {0, candidate_count})'
  BY CandidatesStep
<1>2. /\ WIFI_MAX_SCAN_RESULTS \in Nat /\ MaxPending \in Nat /\ MaxIndex \in Nat
      /\ scan_in_progress \in BOOLEAN /\ cycle \in BOOLEAN
      /\ scan_results \in [1..WIFI_MAX_SCAN_RESULTS -> Entries]
      /\ scan_result_count \in 0..WIFI_MAX_SCAN_RESULTS
      /\ candidate_index \in 0..MaxIndex /\ queue \in 0..MaxPending
      /\ fsm \in {"rest", "busy"}
      /\ pc \in {"ready", "scan", "fill", "done", "build", "collect", "sort", "chosen"}
      /\ httpd \in {"idle", "post", "copy", "cnt", "progress"}
      /\ lapses \in SUBSET {"dropped", "ignored", "slow"}
  BY ScanAssumption DEF ScanTypeOK
<1> DEFINE Flags == /\ scan_in_progress \in BOOLEAN /\ cycle \in BOOLEAN
                    /\ queue \in 0..MaxPending /\ fsm \in {"rest", "busy"}
                    /\ pc \in {"ready", "scan", "fill", "done", "build", "collect", "sort",
                               "chosen"}
                    /\ httpd \in {"idle", "post", "copy", "cnt", "progress"}
                    /\ lapses \in SUBSET {"dropped", "ignored", "slow"}
<1>3. Flags'
  <2>1. CASE OnScanRequest \/ StartCycle
    <3>1. /\ queue' = queue \/ (queue' = queue - 1 /\ queue > 0)
          /\ UNCHANGED <<fsm, httpd>>
      BY <2>1 DEF OnScanRequest, StartCycle, httpVars
    <3>2. /\ scan_in_progress' \in {scan_in_progress, TRUE}
          /\ cycle' \in {cycle, TRUE, FALSE} /\ pc' \in {pc, "scan"}
          /\ lapses' \in {lapses, lapses \cup {"ignored"}}
      BY <2>1 DEF OnScanRequest, StartCycle, StartScan
    <3>3. queue' \in 0..MaxPending
      BY <1>2, <3>1
    <3>4. lapses' \in SUBSET {"dropped", "ignored", "slow"}
      BY <1>2, <3>2
    <3> QED BY <1>2, <3>1, <3>2, <3>3, <3>4
  <2>2. CASE ScanFails \/ Done
    <3>1. /\ scan_in_progress' = FALSE /\ UNCHANGED <<cycle, queue, fsm, httpd>>
          /\ pc' \in {"build", "ready"}
          /\ lapses' \in SUBSET {"dropped", "ignored", "slow"}
      BY <1>2, <2>2 DEF ScanFails, Done, Return, httpVars
    <3> QED BY <1>2, <3>1
  <2>3. CASE ScanEnds \/ Fill \/ Filled
    BY <1>2, <2>3 DEF ScanEnds, StillScanning, Fill, Filled, httpVars
  <2>4. CASE LoadSaved \/ Consider \/ Considered \/ SortOne \/ Sorted \/ Begin
    BY <1>2, <2>4 DEF LoadSaved, Consider, Considered, SortOne, Sorted, Begin, httpVars
  <2>5. CASE NextCandidate \/ Rest \/ Leave
    BY <1>2, <2>5 DEF NextCandidate, Rest, Leave, httpVars
  <2>6. CASE Post
    <3>1. queue' = queue \/ (queue' = queue + 1 /\ queue < MaxPending)
      BY <2>6 DEF Post
    <3>2. /\ scan_in_progress' \in {scan_in_progress, FALSE} /\ UNCHANGED <<cycle, fsm, pc>>
          /\ lapses' \in {lapses, lapses \cup {"dropped"}} /\ httpd' = "idle"
      BY <2>6 DEF Post, Drop
    <3>3. queue' \in 0..MaxPending
      BY <1>2, <3>1
    <3>4. lapses' \in SUBSET {"dropped", "ignored", "slow"}
      BY <1>2, <3>2
    <3> QED BY <1>2, <3>2, <3>3, <3>4
  <2>7. CASE Ask \/ Look \/ Copy \/ Shown \/ ReadIndex \/ ReadCount \/ ShowProgress
    BY <1>2, <2>7 DEF Ask, Look, Copy, Shown, ReadIndex, ReadCount, ShowProgress
  <2> QED BY <2>1, <2>2, <2>3, <2>4, <2>5, <2>6, <2>7 DEF ScanNext, Worker, Httpd
<1>4. /\ scan_results' \in [1..WIFI_MAX_SCAN_RESULTS -> Entries]
      /\ scan_result_count' \in 0..WIFI_MAX_SCAN_RESULTS
  <2>1. CASE Fill
    <3>1. PICK r \in Networks : StoreRecord(r) /\ seen' = seen \cup {r}
      BY <2>1 DEF Fill
    <3> QED BY <2>1, <3>1, RecordStored DEF Fill
  <2>2. CASE ScanEnds
    BY <1>2, <2>2 DEF ScanEnds
  <2>3. CASE ~Fill /\ ~ScanEnds
    <3>1. UNCHANGED <<scan_results, scan_result_count>>
      BY <2>3 DEF ScanNext, Worker, Httpd, OnScanRequest, ScanFails, Filled, Done,
                  LoadSaved,
                  Consider, Considered, SortOne, Sorted, Begin, StartCycle, NextCandidate,
                  Rest, Leave, Ask, Post, Look, Copy, Shown, ReadIndex, ReadCount,
                  ShowProgress, scanVars
    <3> QED BY <1>2, <3>1
  <2> QED BY <2>1, <2>2, <2>3
<1>5. candidate_index' \in 0..MaxIndex
  <2>1. CASE NextCandidate
    BY <1>2, <2>1 DEF NextCandidate
  <2>2. CASE Sorted
    BY <1>2, <2>2 DEF Sorted
  <2>3. CASE ~NextCandidate /\ ~Sorted
    <3>1. UNCHANGED candidate_index
      BY <2>3 DEF ScanNext, Worker, Httpd, OnScanRequest, ScanFails, ScanEnds, Fill, Filled,
                  Done, LoadSaved, Consider, Considered, SortOne, Begin, StartCycle, Rest,
                  Leave, Ask, Post, Look, Copy, Shown, ReadIndex, ReadCount, ShowProgress,
                  candVars
    <3> QED BY <1>2, <3>1
  <2> QED BY <2>1, <2>2, <2>3
<1> QED BY <1>1, <1>3, <1>4, <1>5 DEF ScanTypeOK

LEMMA ScanInvInit == ScanInit => ScanInv
<1> SUFFICES ASSUME ScanInit PROVE ScanInv
  OBVIOUS
<1>1. /\ WIFI_MAX_SCAN_RESULTS \in Nat /\ WIFI_MAX_SAVED_NETWORKS \in Nat
      /\ MaxPending \in Nat /\ MaxIndex \in Nat /\ Len(<<>>) = 0
  BY ScanAssumption
<1>2. scan_results \in [1..WIFI_MAX_SCAN_RESULTS -> Entries]
  <2>1. NoEntry \in Entries
    BY DEF NoEntry, Entries
  <2> QED BY <2>1 DEF ScanInit
<1>3. ScanTypeOK
  <2>1. /\ scan_result_count \in 0..WIFI_MAX_SCAN_RESULTS
        /\ candidate_count \in 0..WIFI_MAX_SAVED_NETWORKS
        /\ candidate_index \in 0..MaxIndex /\ queue \in 0..MaxPending
        /\ Len(candidate_list) \in {0, candidate_count}
    BY <1>1 DEF ScanInit
  <2>2. /\ scan_in_progress \in BOOLEAN /\ fsm \in {"rest", "busy"} /\ cycle \in BOOLEAN
        /\ pc = "ready" /\ httpd = "idle" /\ lapses = {}
    BY DEF ScanInit
  <2> QED BY <1>2, <2>1, <2>2 DEF ScanTypeOK
<1>4. PageTyped /\ FlagMeansScan /\ PageCopies /\ ProgressInRange
  BY <1>1 DEF ScanInit, PageTyped, FlagMeansScan, PageCopies, ProgressInRange
<1>5. /\ ListFilled /\ CandidatesTyped /\ CandidatesGone /\ CandidatesCollected
      /\ CandidatesSorted /\ SortFrom2
  BY DEF ScanInit, ListFilled, CandidatesTyped, CandidatesGone, CandidatesCollected,
         CandidatesSorted, SortFrom2
<1> QED BY <1>3, <1>4, <1>5 DEF ScanInv

LEMMA ScanInvStep == ScanInv /\ [ScanNext]_scannerVars => ScanInv'
<1> SUFFICES ASSUME ScanInv, [ScanNext]_scannerVars PROVE ScanInv'
  OBVIOUS
<1>1. CASE ScanNext
  BY <1>1, ScanTypeStep, PageTypedStep, FlagStep, CopiesStep, ProgressStep, ListStep,
     CandidatesStep DEF ScanInv
<1>2. CASE UNCHANGED scannerVars
  <2>1. /\ UNCHANGED <<candVars, scanVars, pc>>
        /\ UNCHANGED <<scan_in_progress, scan_results, scan_result_count, seen,
                       candidate_list, candidate_count, candidate_index, queue, fsm, pc,
                       cycle, httpd, page, n, lapses>>
    BY <1>2 DEF scannerVars, candVars, scanVars, httpVars
  <2>2. /\ CandidatesTyped' /\ CandidatesGone' /\ CandidatesCollected'
        /\ CandidatesSorted' /\ SortFrom2'
    BY <2>1, CandidatesStutter DEF ScanInv
  <2>3. ScanTypeOK' /\ PageTyped'
    BY <2>1 DEF ScanInv, ScanTypeOK, PageTyped
  <2>4. FlagMeansScan' /\ PageCopies' /\ ProgressInRange' /\ ListFilled'
    BY <2>1 DEF ScanInv, FlagMeansScan, PageCopies, ProgressInRange, ListFilled
  <2> QED BY <2>2, <2>3, <2>4 DEF ScanInv
<1> QED BY <1>1, <1>2

LEMMA ScanInvariance == ScanSpec => []ScanInv
  BY ScanInvInit, ScanInvStep, PTL DEF ScanSpec

\* What the pages read with no lock, whatever the number of networks, of requests
\* and of steps between two reads: the flag is on while the worker scans, the list
\* that is shown is one scan's, and the progress is in range.
THEOREM ScanSafetyCorrect == ScanSpec => []ScanSafety
<1>1. ScanInv => ScanSafety
  BY CopiesAreShown DEF ScanInv, ScanSafety
<1> QED BY ScanInvariance, <1>1, PTL

\* The list a scan leaves has each name once with its strongest signal, and the
\* candidates built from it are the saved networks that are heard or hidden, in
\* the order they will be tried.
THEOREM ListsCorrect == ScanSpec => []ListsRight
<1>1. ScanInv => ListsRight
  BY FilledIsRight, SortedIsInOrder DEF ScanInv, ListsRight
<1> QED BY ScanInvariance, <1>1, PTL
=============================================================================
