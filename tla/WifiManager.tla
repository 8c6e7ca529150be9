---------------------------- MODULE WifiManager ----------------------------
(***************************************************************************)
(* The WiFi manager of satura-bridge (main/wifi_manager.c): one worker     *)
(* task that owns every WiFi decision and takes its orders from a bounded  *)
(* FreeRTOS queue, with everything that posts to that queue or reads what  *)
(* the worker publishes:                                                   *)
(*   - the WiFi driver and the esp_event task that turns its events into   *)
(*     queue entries,                                                      *)
(*   - the HTTP handlers (main/http_routes.c),                             *)
(*   - the Bluetooth side, through EVENT_BT_CONNECTED and the settle task, *)
(*   - the watchdog (main/watchdog.c), which asks for a recovery.          *)
(*                                                                         *)
(* A worker step is one queue entry handled to the end, except that the    *)
(* blocking scan is a step of its own (pc): it lasts seconds, and the      *)
(* queue fills, credentials change and flags are written while it runs.    *)
(* Networks are counted, not named: which candidate is tried first is the  *)
(* subject of WifiScan.                                                    *)
(***************************************************************************)
EXTENDS Naturals, Sequences

CONSTANTS
  QueueCap,          \* length of wifi_evt_queue (8 in the code)
  MaxSaved,          \* WIFI_MAX_SAVED_NETWORKS (6)
  CandMaxAttempts,   \* CAND_MAX_ATTEMPTS (2)
  RetryBase,         \* WIFI_RETRY_BASE_MS (1000)
  RetryMax,          \* WIFI_RETRY_MAX_MS (30000)
  FullRetry,         \* WIFI_FULL_RETRY_DELAY_MS (15000)
  StuckLimit,        \* heartbeats in BRIDGE_NO_WIFI before a recovery (10)
  EvLoopCap,         \* bound: driver events waiting in the esp_event loop
  MaxRequests,       \* bound: HTTP requests in a behaviour
  MaxBounces,        \* bound: Bluetooth connects in a behaviour
  MaxDrops,          \* bound: links the access point drops in a behaviour
  MaxRecoveries      \* bound: recoveries the watchdog asks for in a behaviour

ASSUME WifiAssumption ==
  /\ QueueCap \in Nat \ {0}
  /\ MaxSaved \in Nat \ {0}
  /\ CandMaxAttempts \in Nat \ {0}
  /\ RetryBase \in Nat \ {0}
  /\ FullRetry \in Nat \ {0}
  /\ RetryMax \in Nat /\ RetryMax >= RetryBase
  /\ StuckLimit \in Nat \ {0}
  /\ EvLoopCap \in Nat \ {0}
  /\ MaxRequests \in Nat /\ MaxBounces \in Nat /\ MaxDrops \in Nat
  /\ MaxRecoveries \in Nat

FsmStates == {"IDLE", "CONNECTING", "CONNECTED", "RETRY_WAIT"}
DriverEvents == {"DISCONNECTED", "GOT_IP"}
Events == {"CONNECT", "SCAN", "FORGET", "RECOVERY"} \cup DriverEvents
AppStates == {"WAIT_BT", "NO_WIFI", "WIFI_CONNECTING", "WIFI_FAILED",
              "BRIDGE", "BRIDGE_NO_WIFI"}
Reasons == {"NONE", "INITIAL_FAILED", "LOST_CONNECTION"}

\* What a behaviour may have met that the code does not answer for:
\* a driver event dropped on a full queue, a connect the driver refused, a
\* soft reset that tore down a link still reported up, and a soft reset that
\* left candidate_list of an earlier cycle in use.
LapseKinds == {"dropped", "refused", "unreported", "stale_list"}

VARIABLES
  fsm_state, next_wait_ms, retry_delay_ms, retry_reason,
  candidate_count, candidate_index, candidate_attempt,
  pc,                 \* the worker: "ready", in a "scan", in a "cycle"'s scan
  queue,              \* wifi_evt_queue
  scan_in_progress,
  saved,              \* number of networks in NVS
  app, wifi_connected, bt_connected,
  bt_settle_running, settle_tasks,
  drv,                \* the driver's station: "idle", "joining", "associated"
                      \*   without an address, "up" with one
  evloop,             \* driver events not yet given to wifi_event_handler
  stuck_count, wd_due,
  requests, bounces, drops, recoveries, \* history: what the bounds count
  lapses              \* history: the lapses met so far

workerVars == <<fsm_state, next_wait_ms, retry_delay_ms, retry_reason,
                candidate_count, candidate_index, candidate_attempt, pc>>
btVars     == <<bt_connected, bt_settle_running, settle_tasks, bounces>>
drvVars    == <<drv, evloop, drops>>
wdVars     == <<stuck_count, wd_due, recoveries>>
vars == <<workerVars, btVars, drvVars, wdVars, queue, scan_in_progress, saved,
          app, wifi_connected, requests, lapses>>

\* wifi_manager.c:223 posts without blocking: a full queue loses the entry.
QueueFull == Len(queue) >= QueueCap
Post(e) == queue' = IF QueueFull THEN queue ELSE Append(queue, e)

-----------------------------------------------------------------------------
(* The driver calls the worker makes.                                      *)

\* esp_wifi_connect(); its result is not looked at. A station that is idle
\* starts to join, one that has an access point leaves it and joins again, one
\* that is joining goes on; or the call is refused (an SSID the driver does not
\* accept) and no event will come.
DriverConnect(known) ==
  \/ /\ drv = "idle"
     /\ drv' = "joining"
     /\ lapses' = known
     /\ UNCHANGED evloop
  \/ /\ drv \in {"associated", "up"}
     /\ drv' = "joining"
     /\ evloop' = Append(evloop, "DISCONNECTED")
     /\ lapses' = known
  \/ /\ drv = "joining"
     /\ lapses' = known
     /\ UNCHANGED <<drv, evloop>>
  \/ /\ drv # "joining"
     /\ lapses' = known \cup {"refused"}
     /\ UNCHANGED <<drv, evloop>>

\* connect_to_candidate(): what it does besides naming the candidate.
ConnectToCandidateOnce(known) ==              \* mutant: no connect on a retry
  IF candidate_attempt = 0 THEN DriverConnect(known)
                           ELSE lapses' = known /\ UNCHANGED <<drv, evloop>>
ConnectToCandidate(known) == DriverConnect(known)

\* esp_wifi_disconnect()
DriverDisconnect ==
  /\ drv' = "idle"
  /\ evloop' = IF drv = "idle" THEN evloop ELSE Append(evloop, "DISCONNECTED")

\* wifi_soft_reset(): the handlers are off while the driver is stopped, so
\* what the esp_event loop held and what the reset itself causes is lost.
SoftReset(known) ==
  /\ evloop' = <<>>
  /\ \/ drv' = "joining" /\ lapses' = known
     \/ drv' = "idle" /\ lapses' = known \cup {"refused"}

-----------------------------------------------------------------------------
(* The worker task.                                                        *)

Take(e) ==
  /\ pc = "ready"
  /\ queue # <<>> /\ Head(queue) = e
  /\ queue' = Tail(queue)

\* start_connect_cycle() up to its blocking scan.
StartCycle ==
  /\ app' = "WIFI_CONNECTING"
  /\ scan_in_progress' = TRUE
  /\ pc' = "cycle"
  /\ UNCHANGED <<fsm_state, next_wait_ms, retry_delay_ms, retry_reason,
                 candidate_count, candidate_index, candidate_attempt>>

Ignored == UNCHANGED <<workerVars, drvVars, scan_in_progress, saved, app,
                       wifi_connected, lapses>>

OnConnectRequest ==
  /\ Take("CONNECT")
  /\ \/ /\ \/ fsm_state = "IDLE" /\ saved > 0
           \/ fsm_state = "RETRY_WAIT"
        /\ StartCycle
        /\ UNCHANGED <<drvVars, saved, wifi_connected, lapses>>
     \/ /\ fsm_state = "IDLE" /\ saved = 0
        /\ app' = "NO_WIFI"
        /\ UNCHANGED <<workerVars, drvVars, scan_in_progress, saved,
                       wifi_connected, lapses>>
     \/ /\ fsm_state \in {"CONNECTING", "CONNECTED"}
        /\ Ignored
  /\ UNCHANGED <<btVars, wdVars, requests>>

OnScanRequest ==
  /\ Take("SCAN")
  /\ \/ /\ fsm_state \in {"IDLE", "CONNECTED"}
        /\ scan_in_progress' = TRUE
        /\ pc' = "scan"
        /\ UNCHANGED <<fsm_state, next_wait_ms, retry_delay_ms, retry_reason,
                       candidate_count, candidate_index, candidate_attempt,
                       drvVars, saved, app, wifi_connected, lapses>>
     \/ /\ fsm_state \in {"CONNECTING", "RETRY_WAIT"}
        /\ Ignored
  /\ UNCHANGED <<btVars, wdVars, requests>>

OnForgetRequest ==
  /\ Take("FORGET")
  /\ saved' = 0
  /\ \/ /\ fsm_state = "RETRY_WAIT"
        /\ UNCHANGED <<drv, evloop>>
     \/ /\ fsm_state # "RETRY_WAIT"
        /\ DriverDisconnect
  /\ \/ /\ fsm_state \in {"CONNECTING", "RETRY_WAIT"}
        /\ app' = "NO_WIFI"
        /\ fsm_state' = "IDLE"
        /\ next_wait_ms' = 0
     \/ /\ fsm_state = "IDLE"
        /\ app' = "NO_WIFI"
        /\ UNCHANGED <<fsm_state, next_wait_ms>>
     \/ /\ fsm_state = "CONNECTED"
        /\ UNCHANGED <<app, fsm_state, next_wait_ms>>
  /\ UNCHANGED <<retry_delay_ms, retry_reason, candidate_count, candidate_index,
                 candidate_attempt, pc, drops, btVars, wdVars,
                 scan_in_progress, wifi_connected, requests, lapses>>

OnRecoveryRequest ==
  /\ Take("RECOVERY")
  /\ \/ /\ fsm_state \in {"CONNECTED", "RETRY_WAIT"}
        /\ SoftReset(lapses \cup {"stale_list"}
                      \cup (IF wifi_connected THEN {"unreported"} ELSE {}))
        /\ fsm_state' = "CONNECTING"
        /\ next_wait_ms' = 0
        /\ UNCHANGED <<retry_delay_ms, retry_reason, candidate_count,
                       candidate_index, candidate_attempt, pc, drops,
                       scan_in_progress, saved, app, wifi_connected>>
     \/ /\ fsm_state \in {"IDLE", "CONNECTING"}
        /\ Ignored
  /\ UNCHANGED <<btVars, wdVars, requests>>

\* set_wifi_connected(up)
SetWifiConnected(up) ==
  /\ wifi_connected' = up
  /\ lapses' = lapses \ {"unreported"}

KeepBackoff == UNCHANGED retry_delay_ms       \* mutant: no reset
ResetBackoff == retry_delay_ms' = RetryBase

AppWhenConnected == app' = IF bt_connected THEN "BRIDGE" ELSE "WAIT_BT"

GotIp ==
  /\ SetWifiConnected(TRUE)
  /\ ResetBackoff
  /\ fsm_state' = "CONNECTED"
  /\ next_wait_ms' = 0
  /\ AppWhenConnected
  /\ UNCHANGED <<retry_reason, candidate_count, candidate_index,
                 candidate_attempt, pc, drvVars, scan_in_progress, saved>>

OnGotIp ==
  /\ Take("GOT_IP")
  /\ \/ fsm_state = "CONNECTING" /\ GotIp
     \/ fsm_state # "CONNECTING" /\ Ignored
  /\ UNCHANGED <<btVars, wdVars, requests>>

\* DISCONNECTED in CONNECTING: the same candidate once more, then the next,
\* then the long wait.
OneTooFar == candidate_index <= candidate_count        \* mutant: off by one
MoreCandidates == candidate_index + 1 < candidate_count

TryAgain ==
  /\ fsm_state = "CONNECTING"
  /\ \/ /\ candidate_attempt + 1 < CandMaxAttempts
        /\ candidate_attempt' = candidate_attempt + 1
        /\ UNCHANGED candidate_index
     \/ /\ candidate_attempt + 1 >= CandMaxAttempts
        /\ MoreCandidates
        /\ candidate_attempt' = 0
        /\ candidate_index' = candidate_index + 1
  /\ ConnectToCandidate(lapses)
  /\ UNCHANGED <<fsm_state, next_wait_ms, retry_delay_ms, retry_reason,
                 candidate_count, pc, drops, app, wifi_connected>>

Exhausted ==
  /\ fsm_state = "CONNECTING"
  /\ candidate_attempt + 1 >= CandMaxAttempts
  /\ ~MoreCandidates
  /\ candidate_attempt' = 0
  /\ candidate_index' = candidate_index + 1
  /\ candidate_count' = 0
  /\ app' = "WIFI_FAILED"
  /\ fsm_state' = "RETRY_WAIT"
  /\ retry_reason' = "INITIAL_FAILED"
  /\ next_wait_ms' = FullRetry
  /\ UNCHANGED <<retry_delay_ms, pc, drvVars, wifi_connected, lapses>>

DoubledDelay == IF retry_delay_ms * 2 > RetryMax THEN RetryMax
                                                 ELSE retry_delay_ms * 2

ForgetToArm == UNCHANGED next_wait_ms         \* mutant: no timeout armed
ArmRetry == next_wait_ms' = retry_delay_ms

\* DISCONNECTED in CONNECTED.
LinkLost ==
  /\ fsm_state = "CONNECTED"
  /\ SetWifiConnected(FALSE)
  /\ \/ /\ saved = 0
        /\ app' = "NO_WIFI"
        /\ fsm_state' = "IDLE"
        /\ next_wait_ms' = 0
        /\ UNCHANGED <<retry_reason, retry_delay_ms>>
     \/ /\ saved > 0
        /\ app' = IF app = "BRIDGE" THEN "BRIDGE_NO_WIFI" ELSE app
        /\ retry_reason' = "LOST_CONNECTION"
        /\ fsm_state' = "RETRY_WAIT"
        /\ ArmRetry
        /\ retry_delay_ms' = DoubledDelay
  /\ UNCHANGED <<candidate_count, candidate_index, candidate_attempt, pc,
                 drvVars>>

OnDisconnectedIfBridging ==         \* mutant: the loss ignored without a phone
  /\ Take("DISCONNECTED")
  /\ \/ TryAgain
     \/ Exhausted
     \/ bt_connected /\ LinkLost
     \/ ~bt_connected /\ fsm_state = "CONNECTED" /\ Ignored
     \/ fsm_state \in {"IDLE", "RETRY_WAIT"} /\ Ignored
  /\ UNCHANGED <<btVars, wdVars, scan_in_progress, saved, requests>>

OnDisconnected ==
  /\ Take("DISCONNECTED")
  /\ \/ TryAgain
     \/ Exhausted
     \/ LinkLost
     \/ fsm_state \in {"IDLE", "RETRY_WAIT"} /\ Ignored
  /\ UNCHANGED <<btVars, wdVars, scan_in_progress, saved, requests>>

\* xQueueReceive() ran out of its wait: handle_timeout().
Timeout ==
  /\ pc = "ready" /\ queue = <<>> /\ next_wait_ms # 0
  /\ \/ /\ fsm_state = "RETRY_WAIT" /\ saved = 0
        /\ fsm_state' = "IDLE"
        /\ next_wait_ms' = 0
        /\ UNCHANGED <<retry_delay_ms, retry_reason, candidate_count,
                       candidate_index, candidate_attempt, pc, app,
                       scan_in_progress>>
     \/ /\ fsm_state = "RETRY_WAIT" /\ saved > 0
        /\ StartCycle
     \/ /\ fsm_state # "RETRY_WAIT"
        /\ UNCHANGED <<workerVars, app, scan_in_progress>>
  /\ UNCHANGED <<btVars, drvVars, wdVars, queue, saved, wifi_connected,
                 requests, lapses>>

\* The end of a scan asked for by the user.
ScanDone ==
  /\ pc = "scan"
  /\ pc' = "ready"
  /\ scan_in_progress' = FALSE
  /\ UNCHANGED <<fsm_state, next_wait_ms, retry_delay_ms, retry_reason,
                 candidate_count, candidate_index, candidate_attempt,
                 btVars, drvVars, wdVars, queue, saved, app, wifi_connected,
                 requests, lapses>>

\* The end of a cycle's scan: build_candidate_list() finds n saved networks
\* that are visible or hidden, and the rest of start_connect_cycle() runs.
NothingVisible ==
  /\ app' = "WIFI_FAILED"
  /\ fsm_state' = "RETRY_WAIT"
  /\ retry_reason' = "INITIAL_FAILED"
  /\ lapses' = lapses \cap {"unreported"}
  /\ UNCHANGED <<next_wait_ms, drv, evloop>>

FirstCandidate ==
  /\ fsm_state' = "CONNECTING"
  /\ ConnectToCandidate(lapses \cap {"unreported"})
  /\ UNCHANGED <<app, retry_reason, next_wait_ms>>

CycleScanned ==
  /\ pc = "cycle"
  /\ pc' = "ready"
  /\ scan_in_progress' = FALSE
  /\ candidate_index' = 0
  /\ candidate_attempt' = 0
  /\ \E n \in 0..saved :
       /\ candidate_count' = n
       /\ \/ n = 0 /\ NothingVisible
          \/ n > 0 /\ FirstCandidate
  /\ UNCHANGED <<retry_delay_ms, drops, btVars, wdVars, queue, saved,
                 wifi_connected, requests>>

Worker == \/ OnConnectRequest \/ OnScanRequest \/ OnForgetRequest
          \/ OnRecoveryRequest \/ OnGotIp \/ OnDisconnected
          \/ Timeout \/ ScanDone \/ CycleScanned

-----------------------------------------------------------------------------
(* The driver and the esp_event task.                                      *)

OthersThanDriver ==
  UNCHANGED <<workerVars, btVars, wdVars, queue, scan_in_progress, saved, app,
              wifi_connected, requests, lapses>>

\* A join ends: with an access point, of which the worker hears nothing, or with
\* WIFI_EVENT_STA_DISCONNECTED.
DriverAnswer ==
  /\ drv = "joining" /\ Len(evloop) < EvLoopCap
  /\ \/ drv' = "associated" /\ UNCHANGED evloop
     \/ drv' = "idle" /\ evloop' = Append(evloop, "DISCONNECTED")
  /\ UNCHANGED drops /\ OthersThanDriver

\* The access point's DHCP server gives an address, if it ever does.
DriverLease ==
  /\ drv = "associated" /\ Len(evloop) < EvLoopCap
  /\ drv' = "up" /\ evloop' = Append(evloop, "GOT_IP")
  /\ UNCHANGED drops /\ OthersThanDriver

\* The access point goes away.
DriverDrop ==
  /\ drv \in {"associated", "up"}
  /\ Len(evloop) < EvLoopCap /\ drops < MaxDrops
  /\ drv' = "idle"
  /\ evloop' = Append(evloop, "DISCONNECTED")
  /\ drops' = drops + 1
  /\ OthersThanDriver

\* wifi_event_handler() in the esp_event task.
WifiEventHandler ==
  /\ evloop # <<>>
  /\ evloop' = Tail(evloop)
  /\ Post(Head(evloop))
  /\ lapses' = IF QueueFull THEN lapses \cup {"dropped"} ELSE lapses
  /\ UNCHANGED <<drv, drops, workerVars, btVars, wdVars, scan_in_progress,
                 saved, app, wifi_connected, requests>>

-----------------------------------------------------------------------------
(* The HTTP handlers.                                                      *)

Request ==
  /\ requests < MaxRequests
  /\ requests' = requests + 1
  /\ UNCHANGED <<workerVars, btVars, drvVars, wdVars, wifi_connected, lapses>>

\* POST /setup and /networks/add: the network is new, replaces one of that
\* name or (list full, NVS error) is not stored; the result is not looked at.
HttpAdd ==
  /\ Request
  /\ saved' \in {saved} \cup (IF saved < MaxSaved THEN {saved + 1} ELSE {})
  /\ app' = "WIFI_CONNECTING"
  /\ Post("CONNECT")
  /\ UNCHANGED scan_in_progress

HttpDelete ==
  /\ Request
  /\ saved > 0 /\ saved' = saved - 1
  /\ UNCHANGED <<queue, scan_in_progress, app>>

HttpReset ==
  /\ Request
  /\ Post("FORGET")
  /\ app' = "NO_WIFI"
  /\ UNCHANGED <<saved, scan_in_progress>>

HttpScan ==
  /\ Request
  /\ Post("SCAN")
  /\ scan_in_progress' = ~QueueFull
  /\ UNCHANGED <<saved, app>>

-----------------------------------------------------------------------------
(* The Bluetooth side: what bt_pan.c does to the state above (its own      *)
(* state is in BtPan) and on_bt_event().                                   *)

SettleMayStart == ~bt_settle_running

\* on_bt_event(EVENT_BT_CONNECTED); safe_task_create() may fail.
OnBtConnected ==
  \/ /\ wifi_connected \/ app = "WIFI_CONNECTING"
     /\ app' = IF wifi_connected THEN "BRIDGE" ELSE app
     /\ UNCHANGED <<bt_settle_running, settle_tasks>>
  \/ /\ ~wifi_connected /\ app # "WIFI_CONNECTING" /\ saved = 0
     /\ app' = "NO_WIFI"
     /\ UNCHANGED <<bt_settle_running, settle_tasks>>
  \/ /\ ~wifi_connected /\ app # "WIFI_CONNECTING" /\ saved > 0
     /\ \/ /\ SettleMayStart
           /\ bt_settle_running' = TRUE
           /\ settle_tasks' \in {settle_tasks, settle_tasks + 1}
        \/ /\ ~SettleMayStart
           /\ UNCHANGED <<bt_settle_running, settle_tasks>>
     /\ UNCHANGED app

BtUp ==
  /\ ~bt_connected /\ bounces < MaxBounces
  /\ bt_connected' = TRUE
  /\ bounces' = bounces + 1
  /\ OnBtConnected
  /\ UNCHANGED <<workerVars, drvVars, wdVars, queue, scan_in_progress, saved,
                 wifi_connected, requests, lapses>>

BtDown ==
  /\ bt_connected
  /\ bt_connected' = FALSE
  /\ app' = "WAIT_BT"
  /\ UNCHANGED <<bt_settle_running, settle_tasks, bounces, workerVars, drvVars,
                 wdVars, queue, scan_in_progress, saved, wifi_connected,
                 requests, lapses>>

\* bt_settle_and_connect_task() after its delay.
SettleDone ==
  /\ settle_tasks > 0
  /\ Post("CONNECT")
  /\ bt_settle_running' = FALSE
  /\ settle_tasks' = settle_tasks - 1
  /\ UNCHANGED <<bt_connected, bounces, workerVars, drvVars, wdVars,
                 scan_in_progress, saved, app, wifi_connected, requests, lapses>>

-----------------------------------------------------------------------------
(* The watchdog: a heartbeat reads the application state and acts on what  *)
(* it read a little later.                                                 *)

Heartbeat ==
  /\ ~wd_due /\ recoveries < MaxRecoveries
  /\ \/ /\ app = "BRIDGE_NO_WIFI" /\ stuck_count + 1 >= StuckLimit
        /\ stuck_count' = 0
        /\ wd_due' = TRUE
     \/ /\ app = "BRIDGE_NO_WIFI" /\ stuck_count + 1 < StuckLimit
        /\ stuck_count' = stuck_count + 1
        /\ UNCHANGED wd_due
     \/ /\ app # "BRIDGE_NO_WIFI"
        /\ stuck_count' = 0
        /\ UNCHANGED wd_due
  /\ UNCHANGED <<recoveries, workerVars, btVars, drvVars, queue,
                 scan_in_progress, saved, app, wifi_connected, requests, lapses>>

WatchdogFires ==
  /\ wd_due
  /\ wd_due' = FALSE
  /\ recoveries' = recoveries + 1
  /\ Post("RECOVERY")
  /\ UNCHANGED <<stuck_count, workerVars, btVars, drvVars, scan_in_progress,
                 saved, app, wifi_connected, requests, lapses>>

-----------------------------------------------------------------------------
\* btstack_main() has created the worker and, when networks are saved, posted
\* the first CONNECT_REQUEST.
Init ==
  /\ fsm_state = "IDLE" /\ pc = "ready"
  /\ next_wait_ms = 0 /\ retry_delay_ms = RetryBase /\ retry_reason = "NONE"
  /\ candidate_count = 0 /\ candidate_index = 0 /\ candidate_attempt = 0
  /\ saved \in 0..MaxSaved
  /\ queue = IF saved > 0 THEN <<"CONNECT">> ELSE <<>>
  /\ app = IF saved > 0 THEN "WAIT_BT" ELSE "NO_WIFI"
  /\ scan_in_progress = FALSE /\ wifi_connected = FALSE
  /\ bt_connected = FALSE /\ bt_settle_running = FALSE /\ settle_tasks = 0
  /\ drv = "idle" /\ evloop = <<>>
  /\ stuck_count = 0 /\ wd_due = FALSE
  /\ requests = 0 /\ bounces = 0 /\ drops = 0 /\ recoveries = 0
  /\ lapses = {}

Next ==
  \/ Worker
  \/ DriverAnswer \/ DriverLease \/ DriverDrop \/ WifiEventHandler
  \/ HttpAdd \/ HttpDelete \/ HttpReset \/ HttpScan
  \/ BtUp \/ BtDown \/ SettleDone
  \/ Heartbeat \/ WatchdogFires

Spec == Init /\ [][Next]_vars

\* The worker, the esp_event task and the settle task run when they have work
\* (priority 5 and above), the watchdog's loop never ends, and the driver ends
\* every join it accepted, with an access point or without. That an access point
\* gives an address is not assumed.
FairSpec ==
  /\ Spec
  /\ WF_vars(Worker) /\ WF_vars(DriverAnswer) /\ WF_vars(WifiEventHandler)
  /\ WF_vars(SettleDone) /\ WF_vars(Heartbeat) /\ WF_vars(WatchdogFires)

-----------------------------------------------------------------------------
(* Properties.                                                             *)

QueueOK == queue \in Seq(Events) /\ Len(queue) <= QueueCap

DriverOK ==
  /\ drv \in {"idle", "joining", "associated", "up"}
  /\ evloop \in Seq(DriverEvents)
  /\ lapses \in SUBSET LapseKinds

WorkerOK ==
  /\ fsm_state \in FsmStates
  /\ next_wait_ms \in Nat /\ retry_delay_ms \in Nat
  /\ retry_reason \in Reasons
  /\ candidate_count \in 0..MaxSaved
  /\ candidate_index \in Nat /\ candidate_attempt \in Nat
  /\ pc \in {"ready", "scan", "cycle"}

SharedOK ==
  /\ scan_in_progress \in BOOLEAN
  /\ saved \in 0..MaxSaved
  /\ app \in AppStates
  /\ wifi_connected \in BOOLEAN /\ bt_connected \in BOOLEAN
  /\ bt_settle_running \in BOOLEAN /\ settle_tasks \in Nat

BoundsOK ==
  /\ stuck_count \in 0..(StuckLimit - 1) /\ wd_due \in BOOLEAN
  /\ requests \in Nat /\ bounces \in Nat /\ drops \in Nat /\ recoveries \in Nat

\* Every variable keeps its type, and the queue (of FreeRTOS, created with room
\* for QueueCap entries at wifi_manager.c:805) its length.
TypeOK == QueueOK /\ DriverOK /\ WorkerOK /\ SharedOK /\ BoundsOK

Has(s, e) == \E i \in 1..Len(s) : s[i] = e

\* get_wifi_connected() is true exactly while the worker is CONNECTED, except
\* after a soft reset out of CONNECTED, which tells nobody that the link went
\* down (wifi_manager.c:605): until the next GOT_IP or DISCONNECTED report.
UplinkFlag ==
  wifi_connected <=> fsm_state = "CONNECTED" \/ "unreported" \in lapses

\* The worker indexes candidate_list within the list it built, unless a soft
\* reset from RETRY_WAIT put it back into CONNECTING with the remains of an
\* earlier cycle (wifi_manager.c:629).
CandidateInRange ==
  fsm_state = "CONNECTING" /\ "stale_list" \notin lapses =>
    candidate_index < candidate_count /\ candidate_attempt < CandMaxAttempts

\* The worker blocks in a scan, deaf to the driver for seconds, only when no
\* connection is being made, and a cycle never starts over a working link.
ScanFromRest ==
  /\ pc # "ready" => fsm_state # "CONNECTING"
  /\ pc = "cycle" => fsm_state # "CONNECTED"

\* A link that was lost after it worked always leaves the retry timer armed.
LostLinkArmed ==
  fsm_state = "RETRY_WAIT" /\ retry_reason = "LOST_CONNECTION" =>
    next_wait_ms # 0

\* The delay doubles on every loss (wifi_manager.c:593) and yet a loss is
\* always followed by the base delay: every way back into CONNECTED resets it.
BackoffNeverCompounds ==
  /\ next_wait_ms \in {0, RetryBase, FullRetry}
  /\ fsm_state = "CONNECTED" => retry_delay_ms = RetryBase /\ next_wait_ms = 0

\* A bouncing Bluetooth link never piles up settle tasks, and while one is in
\* flight the guard says so (wifi_manager.c:87).
OneSettleTask ==
  settle_tasks <= 1 /\ (settle_tasks = 1 => bt_settle_running)

\* The worker never believes in a dead link for good: while it is CONNECTED
\* and the driver is idle, the DISCONNECTED that corrects it is on its way,
\* unless an event was dropped or a connect refused.
ConnectedIsBacked ==
  fsm_state = "CONNECTED" =>
    \/ drv # "idle"
    \/ Has(queue, "DISCONNECTED") \/ Has(evloop, "DISCONNECTED")
    \/ lapses \cap {"dropped", "refused"} # {}

\* Neither the "failed" nor the "WiFi lost" page outlives the failure.
NoFailurePageWhileConnected ==
  fsm_state = "CONNECTED" => app \notin {"WIFI_FAILED", "BRIDGE_NO_WIFI"}

\* A lost link is retried, or given up for want of credentials or on request.
LostLinkRetried ==
  fsm_state = "RETRY_WAIT" /\ retry_reason = "LOST_CONNECTION"
    ~> pc = "cycle" \/ fsm_state # "RETRY_WAIT"

\* The worker stays in CONNECTING for good only with an access point that never
\* gives it an address, for which wifi_manager.c:513-566 has no timeout: no order
\* of scans, requests, stale events and link losses leaves it there with a join
\* that ended otherwise, unless an event was dropped or a connect refused.
ConnectAnswered ==
  <>[](fsm_state = "CONNECTING" /\ lapses \cap {"dropped", "refused"} = {})
    => <>[](drv = "associated")

\* The worker in order, in parts: types, the flag of the uplink, scans from rest
\* only, the candidate list's bounds, the retry timer, settle tasks, pages.
Safety ==
  /\ TypeOK /\ UplinkFlag /\ ScanFromRest /\ CandidateInRange
  /\ LostLinkArmed /\ OneSettleTask /\ NoFailurePageWhileConnected
=============================================================================
