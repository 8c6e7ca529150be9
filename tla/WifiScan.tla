------------------------------ MODULE WifiScan ------------------------------
(***************************************************************************)
(* A scan of the WiFi worker (main/wifi_manager.c): who asks for it, the   *)
(* list of networks it leaves, the candidates chosen from it, and what the *)
(* pages read of both meanwhile. The worker writes its lists with no lock; *)
(* the page /networks looks at scan_in_progress and reads them if it is    *)
(* off. What becomes of a candidate is WifiManager's subject.              *)
(*                                                                         *)
(* The web server is one task and does one request at a time.              *)
(***************************************************************************)
EXTENDS Integers, Sequences, FiniteSets, SequencesExt

CONSTANTS
  SSIDs, Rssis,
  WIFI_MAX_SCAN_RESULTS, WIFI_MAX_SAVED_NETWORKS,
  None,
  MaxPending,         \* bound: requests in the queue
  MaxIndex            \* bound: candidate_index, which a soft reset after a
                      \*   finished cycle lets grow without end

ASSUME ScanAssumption ==
  /\ Rssis \subseteq (-126)..0
  /\ WIFI_MAX_SCAN_RESULTS \in Nat \ {0} /\ WIFI_MAX_SAVED_NETWORKS \in Nat \ {0}
  /\ MaxPending \in Nat /\ MaxIndex \in Nat

VARIABLES
  scan_in_progress,
  scan_results, scan_result_count,
  candidate_list,     \* [ssid, rssi], both arrays, until the first is tried
  candidate_count, candidate_index,
  queue,              \* WEVT_SCAN_REQUESTs that wait
  fsm,                \* "rest" (IDLE, CONNECTED) or "busy" (CONNECTING,
                      \*   RETRY_WAIT): does the worker take a scan request?
  pc,                 \* the worker: "ready", "scan", "fill", "done",
                      \*   "build", "collect", "sort", "chosen"
  cycle,              \* is the scan part of a connect cycle?
  seen,               \* history: the driver's records gone through
  saved, loop_i,      \* build_candidate_list()'s own: the saved networks and
                      \*   the index i of the loop it is in, from 1
  httpd,              \* the web server: "idle", "post" (between the flag and
                      \*   the queue), "copy", "cnt", "progress"
  page,               \* what it has read: entries, or idx and cnt
  n,                  \* how many entries it reads
  lapses              \* history, until the scan or the page ends: "dropped"
                      \*   (a request found the queue full and turned the flag
                      \*   off), "ignored" (one was taken by a busy worker),
                      \*   "slow" (the list was rewritten from under a page)

scanVars == <<scan_results, scan_result_count, seen>>
candVars == <<candidate_list, candidate_count, candidate_index, saved, loop_i>>
httpVars == <<httpd, page, n>>
scannerVars == <<scan_in_progress, scanVars, candVars, queue, fsm, pc, cycle, httpVars,
          lapses>>

Networks == [ssid : SSIDs, rssi : Rssis]
Found == SubSeq(scan_results, 1, scan_result_count)
NoEntry == [ssid |-> None, rssi |-> 0]

\* nvs_storage_load_networks(): some list of different names; the pages change
\* it meanwhile.
SavedLists == {s \in BoundedSeq([ssid : SSIDs, hidden : BOOLEAN], WIFI_MAX_SAVED_NETWORKS) :
                 \A j, k \in DOMAIN s : s[j].ssid = s[k].ssid => j = k}

-----------------------------------------------------------------------------
(* run_blocking_scan_and_store_results()                                   *)

StartScan(c) ==
  /\ pc' = "scan" /\ cycle' = c
  /\ scan_in_progress' = TRUE

OnScanRequest ==
  /\ pc = "ready" /\ queue > 0 /\ queue' = queue - 1
  /\ IF fsm = "rest" THEN StartScan(FALSE) /\ UNCHANGED lapses
     ELSE /\ lapses' = lapses \cup {"ignored"}
          /\ UNCHANGED <<scan_in_progress, pc, cycle>>
  /\ UNCHANGED <<scanVars, candVars, fsm, httpVars>>

\* start_connect_cycle(), from IDLE or RETRY_WAIT.
StartCycle ==
  /\ pc = "ready" /\ StartScan(TRUE)
  /\ UNCHANGED <<scanVars, candVars, queue, fsm, httpVars, lapses>>

Return ==
  /\ pc' = IF cycle THEN "build" ELSE "ready"
  /\ lapses' = (lapses \ {"dropped", "ignored"}) \cup
               (IF "dropped" \in lapses /\ httpd = "copy" THEN {"slow"} ELSE {})

\* The scan, the count, the memory for the records or the records fail. What
\* was found before stays.
FailQuietly ==                          \* mutant: the flag is left on
  /\ pc = "scan" /\ Return
  /\ UNCHANGED <<scan_in_progress, scanVars, candVars, queue, fsm, cycle, httpVars>>
ScanFails ==
  /\ pc = "scan" /\ Return
  /\ scan_in_progress' = FALSE
  /\ UNCHANGED <<scanVars, candVars, queue, fsm, cycle, httpVars>>

StillScanning == scan_in_progress
ScanEnds ==
  /\ pc = "scan" /\ pc' = "fill"
  /\ scan_result_count' = 0 /\ seen' = {}
  /\ scan_in_progress' = StillScanning
  /\ lapses' = IF httpd = "copy" THEN lapses \cup {"slow"} ELSE lapses
  /\ UNCHANGED <<scan_results, candVars, queue, fsm, cycle, httpVars>>

\* One record, whichever the driver has next: a name that is in the list leaves
\* the stronger signal there.
Stronger(old, new) == IF new > old THEN new ELSE old
Known(r) == {j \in 1..scan_result_count : scan_results[j].ssid = r.ssid}
StoreRecord(r) ==
  IF Known(r) # {}
  THEN LET j == Min(Known(r)) IN
       /\ scan_results' = [scan_results EXCEPT ![j].rssi = Stronger(@, r.rssi)]
       /\ UNCHANGED scan_result_count
  ELSE /\ scan_results' = [scan_results EXCEPT ![scan_result_count + 1] = r]
       /\ scan_result_count' = scan_result_count + 1
Room == scan_result_count < WIFI_MAX_SCAN_RESULTS
Fill ==
  /\ pc = "fill" /\ Room
  /\ \E r \in Networks : StoreRecord(r) /\ seen' = seen \cup {r}
  /\ UNCHANGED <<scan_in_progress, candVars, queue, fsm, pc, cycle, httpVars, lapses>>
\* No more records, or no more room.
Filled ==
  /\ pc = "fill" /\ pc' = "done"
  /\ UNCHANGED <<scan_in_progress, scanVars, candVars, queue, fsm, cycle, httpVars,
                 lapses>>
Done ==
  /\ pc = "done" /\ Return
  /\ scan_in_progress' = FALSE /\ seen' = {}
  /\ UNCHANGED <<scan_results, scan_result_count, candVars, queue, fsm, cycle,
                 httpVars>>

-----------------------------------------------------------------------------
(* build_candidate_list()                                                  *)

Visible(s) == {j \in 1..scan_result_count : scan_results[j].ssid = s.ssid}
Signal(s) == IF Visible(s) = {} THEN -127
             ELSE Max({scan_results[j].rssi : j \in Visible(s)})
Eligible(s) == Visible(s) # {} \/ s.hidden

LoadSaved ==
  /\ pc = "build" /\ pc' = "collect"
  /\ saved' \in SavedLists /\ loop_i' = 1
  /\ candidate_list' = <<>> /\ candidate_count' = 0
  /\ UNCHANGED <<scan_in_progress, scanVars, candidate_index, queue, fsm, cycle,
                 httpVars, lapses>>
Consider ==
  /\ pc = "collect" /\ loop_i <= Len(saved) /\ loop_i' = loop_i + 1
  /\ LET s == saved[loop_i] IN
     IF Eligible(s)
     THEN /\ candidate_list' = Append(candidate_list, [ssid |-> s.ssid, rssi |-> Signal(s)])
          /\ candidate_count' = candidate_count + 1
     ELSE UNCHANGED <<candidate_list, candidate_count>>
  /\ UNCHANGED <<scan_in_progress, scanVars, candidate_index, saved, queue, fsm, pc,
                 cycle, httpVars, lapses>>
Considered ==
  /\ pc = "collect" /\ loop_i > Len(saved) /\ pc' = "sort" /\ loop_i' = 2
  /\ UNCHANGED <<scan_in_progress, scanVars, candidate_list, candidate_count,
                 candidate_index, saved, queue, fsm, cycle, httpVars, lapses>>

\* The insertion sort, by descending signal: candidate i goes to place p, before
\* those that are weaker, of the candidates sorted so far.
BeforeEqual(c, x) == c.rssi <= x.rssi   \* mutant: ties in reverse
Weaker(c, x) == c.rssi < x.rssi
PlaceOf(list, k) ==
  CHOOSE p \in 1..k :
    /\ \A j \in p..(k - 1) : Weaker(list[j], list[k])
    /\ p = 1 \/ ~Weaker(list[p - 1], list[k])
Moved(list, k, p) ==
  [j \in 1..Len(list) |-> CASE j = p -> list[k]
                          [] p < j /\ j <= k -> list[j - 1]
                          [] OTHER -> list[j]]
SortOne ==
  /\ pc = "sort" /\ loop_i <= candidate_count /\ loop_i' = loop_i + 1
  /\ candidate_list' = Moved(candidate_list, loop_i, PlaceOf(candidate_list, loop_i))
  /\ UNCHANGED <<scan_in_progress, scanVars, candidate_count, candidate_index, saved,
                 queue, fsm, pc, cycle, httpVars, lapses>>
Sorted ==
  /\ pc = "sort" /\ loop_i > candidate_count /\ pc' = "chosen" /\ candidate_index' = 0
  /\ UNCHANGED <<scan_in_progress, scanVars, candidate_list, candidate_count, saved, loop_i,
                 queue, fsm, cycle, httpVars, lapses>>

\* Back in start_connect_cycle(): CONNECTING, or RETRY_WAIT without candidates.
Begin ==
  /\ pc = "chosen" /\ pc' = "ready" /\ fsm' = "busy" /\ cycle' = FALSE
  /\ candidate_list' = <<>> /\ saved' = <<>> /\ loop_i' = 0
  /\ UNCHANGED <<scan_in_progress, scanVars, candidate_count, candidate_index, queue,
                 httpVars, lapses>>

\* A candidate's last attempt fails.
NextCandidate ==
  /\ pc = "ready" /\ fsm = "busy" /\ candidate_index < MaxIndex
  /\ candidate_index' = candidate_index + 1
  /\ candidate_count' = IF candidate_index + 1 < candidate_count
                        THEN candidate_count ELSE 0
  /\ UNCHANGED <<scan_in_progress, scanVars, candidate_list, saved, loop_i, queue, fsm, pc,
                 cycle, httpVars, lapses>>
\* Connected, or forgotten.
Rest ==
  /\ pc = "ready" /\ fsm = "busy" /\ fsm' = "rest"
  /\ UNCHANGED <<scan_in_progress, scanVars, candVars, queue, pc, cycle, httpVars,
                 lapses>>
\* A link is lost, or a recovery is asked for.
Leave ==
  /\ pc = "ready" /\ fsm = "rest" /\ fsm' = "busy"
  /\ UNCHANGED <<scan_in_progress, scanVars, candVars, queue, pc, cycle, httpVars,
                 lapses>>

Worker == \/ OnScanRequest \/ ScanFails \/ ScanEnds \/ Fill \/ Filled \/ Done
          \/ LoadSaved \/ Consider \/ Considered \/ SortOne \/ Sorted \/ Begin

-----------------------------------------------------------------------------
(* The web server.                                                         *)

\* wifi_manager_scan_start(): the flag, then the queue.
Ask ==
  /\ httpd = "idle" /\ httpd' = "post"
  /\ scan_in_progress' = TRUE
  /\ UNCHANGED <<scanVars, candVars, queue, fsm, pc, cycle, page, n, lapses>>
DropQuietly ==                          \* mutant: the flag stays on
  UNCHANGED scan_in_progress
Drop == scan_in_progress' = FALSE
\* Other events may have filled the queue at any time.
Post ==
  /\ httpd = "post" /\ httpd' = "idle"
  /\ \/ /\ queue < MaxPending /\ queue' = queue + 1
        /\ UNCHANGED <<scan_in_progress, lapses>>
     \/ /\ Drop
        /\ lapses' = lapses \cup {"dropped"}
        /\ UNCHANGED queue
  /\ UNCHANGED <<scanVars, candVars, fsm, pc, cycle, page, n>>

\* /networks: wifi_manager_scan_in_progress(), then
\* wifi_manager_get_scan_results().
Look ==
  /\ httpd = "idle" /\ ~scan_in_progress /\ httpd' = "copy"
  /\ n' = scan_result_count /\ page' = <<>>
  /\ UNCHANGED <<scan_in_progress, scanVars, candVars, queue, fsm, pc, cycle, lapses>>
Copy ==
  /\ httpd = "copy" /\ Len(page) < n
  /\ page' = Append(page, scan_results[Len(page) + 1])
  /\ UNCHANGED <<scan_in_progress, scanVars, candVars, queue, fsm, pc, cycle, httpd,
                 n, lapses>>
Shown ==
  /\ httpd = "copy" /\ Len(page) = n /\ httpd' = "idle"
  /\ page' = <<>> /\ n' = 0 /\ lapses' = lapses \ {"slow"}
  /\ UNCHANGED <<scan_in_progress, scanVars, candVars, queue, fsm, pc, cycle>>

\* /: wifi_manager_get_progress(), two reads, then what is shown of them.
ReadIndex ==
  /\ httpd = "idle" /\ httpd' = "cnt"
  /\ page' = <<candidate_index>>
  /\ UNCHANGED <<scan_in_progress, scanVars, candVars, queue, fsm, pc, cycle, n,
                 lapses>>
Clamped(idx, cnt) == IF idx >= cnt THEN cnt - 1 ELSE idx
ReadCount ==
  /\ httpd = "cnt" /\ httpd' = "progress"
  /\ LET cnt == IF candidate_count = 0 THEN 1 ELSE candidate_count
     IN  page' = <<Clamped(page[1], cnt), cnt>>
  /\ UNCHANGED <<scan_in_progress, scanVars, candVars, queue, fsm, pc, cycle, n,
                 lapses>>
ShowProgress ==
  /\ httpd = "progress" /\ httpd' = "idle" /\ page' = <<>>
  /\ UNCHANGED <<scan_in_progress, scanVars, candVars, queue, fsm, pc, cycle, n,
                 lapses>>

Httpd == Ask \/ Post \/ Look \/ Copy \/ Shown \/ ReadIndex \/ ReadCount \/ ShowProgress

ScanInit ==
  /\ scan_in_progress = FALSE
  /\ scan_results = [j \in 1..WIFI_MAX_SCAN_RESULTS |-> NoEntry]
  /\ scan_result_count = 0
  /\ candidate_list = <<>> /\ candidate_count = 0 /\ candidate_index = 0
  /\ queue = 0 /\ fsm = "rest" /\ pc = "ready" /\ cycle = FALSE
  /\ seen = {} /\ saved = <<>> /\ loop_i = 0
  /\ httpd = "idle" /\ page = <<>> /\ n = 0 /\ lapses = {}

ScanNext == Worker \/ StartCycle \/ NextCandidate \/ Rest \/ Leave \/ Httpd

ScanSpec == ScanInit /\ [][ScanNext]_scannerVars

\* The worker and the web server run; nobody need ask for anything.
FairScan == ScanSpec /\ WF_scannerVars(Worker) /\ WF_scannerVars(Post)

-----------------------------------------------------------------------------
(* Properties.                                                             *)

Entries == [ssid : SSIDs \cup {None}, rssi : Rssis \cup {0}]

ScanTypeOK ==
  /\ scan_in_progress \in BOOLEAN
  /\ scan_results \in [1..WIFI_MAX_SCAN_RESULTS -> Entries]
  /\ scan_result_count \in 0..WIFI_MAX_SCAN_RESULTS
  /\ candidate_count \in 0..WIFI_MAX_SAVED_NETWORKS
  /\ Len(candidate_list) \in {0, candidate_count}
  /\ candidate_index \in 0..MaxIndex /\ queue \in 0..MaxPending
  /\ fsm \in {"rest", "busy"} /\ cycle \in BOOLEAN
  /\ pc \in {"ready", "scan", "fill", "done", "build", "collect", "sort",
           "chosen"}
  /\ httpd \in {"idle", "post", "copy", "cnt", "progress"}
  /\ lapses \in SUBSET {"dropped", "ignored", "slow"}

\* The flag is on for as long as the worker scans and writes the list, and only
\* while a request is on its way or carried out, however requests, scans that
\* fail and connect cycles follow one another: unless a request was dropped
\* while a scan ran (it turns the flag off), or ignored (nobody does).
FlagMeansScan ==
  /\ pc \in {"scan", "fill", "done"} /\ "dropped" \notin lapses => scan_in_progress
  /\ scan_in_progress /\ "ignored" \notin lapses =>
       httpd = "post" \/ queue > 0 \/ pc \in {"scan", "fill", "done"}

\* "Scanning..." goes away.
ScanShownEnds ==
  scan_in_progress /\ "ignored" \notin lapses
    ~> ~scan_in_progress \/ "ignored" \in lapses

\* The list has each name once, with the strongest signal it was heard with,
\* and every name heard while there was room.
ResultsRight ==
  pc = "done" =>
    /\ \A j, k \in DOMAIN Found : Found[j].ssid = Found[k].ssid => j = k
    /\ {Found[j] : j \in DOMAIN Found} =
         {r \in seen : \A s \in seen : s.ssid = r.ssid => s.rssi <= r.rssi}

\* The page shows the list of one scan, though it reads it with no lock.
OneScanShown ==
  httpd = "copy" /\ Len(page) = n /\ lapses \cap {"dropped", "slow"} = {} => page = Found

\* Tried in turn: every saved network that is heard or hidden, the strongest
\* first, those as strong in the order they were saved, the hidden ones last.
CandidatesInOrder ==
  pc = "chosen" =>
    LET At(c) == CHOOSE j \in DOMAIN saved : saved[j].ssid = c.ssid
        Heard(s) == {e.rssi : e \in {e \in ToSet(Found) : e.ssid = s.ssid}}
    IN  /\ ToSet(candidate_list) =
             {[ssid |-> s.ssid, rssi |-> IF Heard(s) = {} THEN -127 ELSE Max(Heard(s))] :
                s \in {s \in ToSet(saved) : s.hidden \/ Heard(s) # {}}}
        /\ \A j, k \in DOMAIN candidate_list : j < k =>
             \/ candidate_list[j].rssi > candidate_list[k].rssi
             \/ /\ candidate_list[j].rssi = candidate_list[k].rssi
                /\ At(candidate_list[j]) < At(candidate_list[k])

\* "Trying network 2 of 3" is never out of range, though index and count are
\* read one after the other while the worker starts another cycle.
ProgressInRange ==
  httpd = "progress" => page[1] \in 0..(page[2] - 1)

\* What the pages read without a lock, in parts: types and bounds, the flag, the
\* list, the progress.
ScanSafety ==
  /\ ScanTypeOK /\ FlagMeansScan /\ OneScanShown /\ ProgressInRange

\* The lists of a scan and of the cycle after it are both what was heard.
ListsRight == ResultsRight /\ CandidatesInOrder
=============================================================================
