------------------------- MODULE WifiManagerProofs -------------------------
(***************************************************************************)
(* Proofs about WifiManager, for every queue length, number of saved       *)
(* networks and delay: first the types, part by part, then the safety      *)
(* invariants from one inductive invariant.                                *)
(***************************************************************************)
EXTENDS WifiManager, TLAPS

-----------------------------------------------------------------------------
(* Types.                                                                  *)

\* A post without blocking keeps the queue within its capacity.
LEMMA PostType ==
  ASSUME QueueOK, NEW e \in Events, Post(e)
  PROVE  QueueOK'
<1>1. queue' \in Seq(Events)
  BY DEF Post, QueueOK
<1>2. Len(queue') <= QueueCap
  BY WifiAssumption DEF Post, QueueFull, QueueOK
<1> QED BY <1>1, <1>2 DEF QueueOK

\* Taking an entry leaves a shorter queue.
LEMMA TakeType ==
  ASSUME QueueOK, NEW e, Take(e)
  PROVE  QueueOK'
<1>1. queue' \in Seq(Events)
  BY DEF Take, QueueOK
<1>2. Len(queue') <= QueueCap
  BY WifiAssumption DEF Take, QueueOK
<1> QED BY <1>1, <1>2 DEF QueueOK

\* What the esp_event loop hands over is an event the queue may hold.
LEMMA EvloopHead ==
  ASSUME DriverOK, evloop # <<>>
  PROVE  Head(evloop) \in Events /\ Tail(evloop) \in Seq(DriverEvents)
BY DEF DriverOK, Events

\* Every step takes one entry, posts one or leaves the queue alone.
LEMMA QueueStep ==
  ASSUME QueueOK, DriverOK, Next
  PROVE  QueueOK'
<1>1. CASE \E e \in Events : Take(e)
  BY <1>1, TakeType
<1>2. CASE \E e \in Events : Post(e)
  BY <1>2, PostType
<1>3. CASE UNCHANGED queue
  BY <1>3 DEF QueueOK
<1>4. \/ \E e \in Events : Take(e)
      \/ \E e \in Events : Post(e)
      \/ UNCHANGED queue
  <2>1. CASE Worker
    BY <2>1 DEF Worker, OnConnectRequest, OnScanRequest, OnForgetRequest,
                OnRecoveryRequest, OnGotIp, OnDisconnected, Timeout, ScanDone,
                CycleScanned, Events, DriverEvents
  <2>2. CASE WifiEventHandler
    BY <2>2, EvloopHead DEF WifiEventHandler
  <2>3. CASE HttpAdd \/ HttpDelete \/ HttpReset \/ HttpScan
    BY <2>3 DEF HttpAdd, HttpDelete, HttpReset, HttpScan, Events
  <2>4. CASE SettleDone \/ WatchdogFires
    BY <2>4 DEF SettleDone, WatchdogFires, Events
  <2>5. CASE DriverAnswer \/ DriverLease \/ DriverDrop \/ BtUp \/ BtDown \/ Heartbeat
    BY <2>5 DEF DriverAnswer, DriverLease, OthersThanDriver, DriverDrop, BtUp,
                BtDown, Heartbeat
  <2> QED BY <2>1, <2>2, <2>3, <2>4, <2>5 DEF Next
<1> QED BY <1>1, <1>2, <1>3, <1>4

\* A connect keeps the types of the station, its events and the lapses.
LEMMA ConnectType ==
  ASSUME DriverOK, NEW known \in SUBSET LapseKinds, ConnectToCandidate(known)
  PROVE  DriverOK'
<1>1. drv' \in {"idle", "joining", "associated", "up"}
  BY DEF ConnectToCandidate, DriverConnect, DriverOK
<1>2. evloop' \in Seq(DriverEvents)
  BY DEF ConnectToCandidate, DriverConnect, DriverOK, DriverEvents
<1>3. lapses' \in SUBSET LapseKinds
  BY DEF ConnectToCandidate, DriverConnect, DriverOK, LapseKinds
<1> QED BY <1>1, <1>2, <1>3 DEF DriverOK

\* So does every other worker step.
LEMMA DriverWorker ==
  ASSUME DriverOK, Worker
  PROVE  DriverOK'
<1>1. CASE OnConnectRequest \/ OnScanRequest \/ Timeout \/ ScanDone
  BY <1>1 DEF OnConnectRequest, OnScanRequest, Timeout, ScanDone, Ignored,
              drvVars, DriverOK
<1>2. CASE OnForgetRequest
  BY <1>2 DEF OnForgetRequest, DriverDisconnect, DriverOK, DriverEvents
<1>3. CASE OnRecoveryRequest
  <2>1. drv' \in {"idle", "joining", "associated", "up"}
    BY <1>3 DEF OnRecoveryRequest, SoftReset, Ignored, drvVars, DriverOK
  <2>2. evloop' \in Seq(DriverEvents)
    <3>1. <<>> \in Seq(DriverEvents) /\ evloop \in Seq(DriverEvents)
      BY DEF DriverOK
    <3>2. evloop' = <<>> \/ evloop' = evloop
      BY <1>3 DEF OnRecoveryRequest, SoftReset, Ignored, drvVars
    <3> QED BY <3>1, <3>2
  <2>3. lapses' \in SUBSET LapseKinds
    BY <1>3 DEF OnRecoveryRequest, SoftReset, Ignored, DriverOK, LapseKinds
  <2> QED BY <2>1, <2>2, <2>3 DEF DriverOK
<1>4. CASE OnGotIp
  BY <1>4 DEF OnGotIp, GotIp, SetWifiConnected, Ignored, drvVars, DriverOK
<1>5. CASE OnDisconnected
  <2>1. CASE TryAgain
    BY <2>1, ConnectType DEF TryAgain, DriverOK
  <2>2. CASE Exhausted
    BY <2>2 DEF Exhausted, drvVars, DriverOK
  <2>3. CASE LinkLost
    BY <2>3 DEF LinkLost, SetWifiConnected, drvVars, DriverOK
  <2>4. CASE Ignored
    BY <2>4 DEF Ignored, drvVars, DriverOK
  <2> QED BY <1>5, <2>1, <2>2, <2>3, <2>4 DEF OnDisconnected
<1>6. CASE CycleScanned
  <2>1. CASE NothingVisible
    BY <2>1 DEF NothingVisible, DriverOK
  <2>2. CASE FirstCandidate
    BY <2>2, ConnectType DEF FirstCandidate, DriverOK
  <2> QED BY <1>6, <2>1, <2>2 DEF CycleScanned
<1> QED BY <1>1, <1>2, <1>3, <1>4, <1>5, <1>6 DEF Worker

LEMMA DriverStep ==
  ASSUME DriverOK, Next
  PROVE  DriverOK'
<1>1. CASE Worker
  BY <1>1, DriverWorker
<1>2. CASE DriverAnswer \/ DriverLease \/ DriverDrop
  BY <1>2 DEF DriverAnswer, DriverLease, OthersThanDriver, DriverDrop, DriverOK,
              DriverEvents
<1>3. CASE WifiEventHandler
  <2>1. evloop' \in Seq(DriverEvents) /\ drv' = drv
    BY <1>3, EvloopHead DEF WifiEventHandler
  <2>2. lapses' \in SUBSET LapseKinds
    BY <1>3 DEF WifiEventHandler, DriverOK, LapseKinds
  <2> QED BY <2>1, <2>2 DEF DriverOK
<1>4. CASE HttpAdd \/ HttpDelete \/ HttpReset \/ HttpScan
  BY <1>4 DEF HttpAdd, HttpDelete, HttpReset, HttpScan, Request, drvVars, DriverOK
<1>5. CASE BtUp \/ BtDown \/ SettleDone \/ Heartbeat \/ WatchdogFires
  BY <1>5 DEF BtUp, BtDown, SettleDone, Heartbeat, WatchdogFires, drvVars, DriverOK
<1> QED BY <1>1, <1>2, <1>3, <1>4, <1>5 DEF Next

\* The worker's own variables: every step that changes them is the worker's.
LEMMA WorkerStep ==
  ASSUME WorkerOK, SharedOK, Next
  PROVE  WorkerOK'
<1> USE DEF WorkerOK, FsmStates, Reasons, workerVars
<1>1. CASE OnConnectRequest \/ OnScanRequest
  BY <1>1 DEF OnConnectRequest, OnScanRequest, StartCycle, Ignored
<1>2. CASE OnForgetRequest \/ OnRecoveryRequest
  BY <1>2 DEF OnForgetRequest, OnRecoveryRequest, Ignored
<1>3. CASE OnGotIp
  BY <1>3, WifiAssumption DEF OnGotIp, GotIp, SetWifiConnected, ResetBackoff, Ignored
<1>4. CASE OnDisconnected
  <2>1. CASE TryAgain
    BY <2>1 DEF TryAgain
  <2>2. CASE Exhausted
    BY <2>2, WifiAssumption DEF Exhausted
  <2>3. CASE LinkLost
    BY <2>3, WifiAssumption DEF LinkLost, SetWifiConnected, ArmRetry, DoubledDelay
  <2>4. CASE Ignored
    BY <2>4 DEF Ignored
  <2> QED BY <1>4, <2>1, <2>2, <2>3, <2>4 DEF OnDisconnected
<1>5. CASE Timeout \/ ScanDone
  BY <1>5 DEF Timeout, ScanDone, StartCycle
<1>6. CASE CycleScanned
  <2> PICK n \in 0..saved : candidate_count' = n
    BY <1>6 DEF CycleScanned
  <2>1. candidate_count' \in 0..MaxSaved
    BY WifiAssumption DEF SharedOK
  <2> QED
    BY <1>6, <2>1 DEF CycleScanned, NothingVisible, FirstCandidate
<1>7. CASE Next /\ ~Worker
  BY <1>7 DEF Next, DriverAnswer, DriverLease, OthersThanDriver, DriverDrop,
              WifiEventHandler, HttpAdd, HttpDelete, HttpReset, HttpScan, Request,
              BtUp, BtDown, SettleDone, Heartbeat, WatchdogFires
<1> QED BY <1>1, <1>2, <1>3, <1>4, <1>5, <1>6, <1>7 DEF Worker

\* What the tasks share through app_state.c, NVS and the settle guard.
LEMMA SharedStep ==
  ASSUME SharedOK, QueueOK, Next
  PROVE  SharedOK'
<1> USE DEF SharedOK, AppStates, btVars
<1>1. CASE OnConnectRequest \/ OnScanRequest \/ OnRecoveryRequest
  BY <1>1 DEF OnConnectRequest, OnScanRequest, OnRecoveryRequest, StartCycle, Ignored
<1>2. CASE OnForgetRequest
  BY <1>2, WifiAssumption DEF OnForgetRequest
<1>3. CASE OnGotIp
  BY <1>3 DEF OnGotIp, GotIp, SetWifiConnected, AppWhenConnected, Ignored
<1>4. CASE OnDisconnected
  BY <1>4 DEF OnDisconnected, TryAgain, Exhausted, LinkLost, SetWifiConnected, Ignored
<1>5. CASE Timeout \/ ScanDone
  BY <1>5 DEF Timeout, ScanDone, StartCycle
<1>6. CASE CycleScanned
  BY <1>6 DEF CycleScanned, NothingVisible, FirstCandidate
<1>7. CASE DriverAnswer \/ DriverLease \/ DriverDrop \/ WifiEventHandler
  BY <1>7 DEF DriverAnswer, DriverLease, OthersThanDriver, DriverDrop, WifiEventHandler
<1>8. CASE HttpAdd \/ HttpDelete \/ HttpReset \/ HttpScan
  <2>1. saved' \in 0..MaxSaved
    BY <1>8, WifiAssumption DEF HttpAdd, HttpDelete, HttpReset, HttpScan
  <2>2. scan_in_progress' \in BOOLEAN
    BY <1>8 DEF HttpAdd, HttpDelete, HttpReset, HttpScan, QueueFull
  <2> QED
    BY <1>8, <2>1, <2>2 DEF HttpAdd, HttpDelete, HttpReset, HttpScan, Request
<1>9. CASE BtUp \/ BtDown \/ SettleDone
  <2>1. settle_tasks' \in Nat
    BY <1>9 DEF BtUp, OnBtConnected, BtDown, SettleDone
  <2>2. bt_settle_running' \in BOOLEAN /\ bt_connected' \in BOOLEAN
    BY <1>9 DEF BtUp, OnBtConnected, BtDown, SettleDone
  <2>3. app' \in AppStates
    BY <1>9 DEF BtUp, OnBtConnected, BtDown, SettleDone
  <2>4. UNCHANGED <<scan_in_progress, saved, wifi_connected>>
    BY <1>9 DEF BtUp, BtDown, SettleDone
  <2> QED BY <2>1, <2>2, <2>3, <2>4
<1>10. CASE Heartbeat \/ WatchdogFires
  BY <1>10 DEF Heartbeat, WatchdogFires
<1> QED
  BY <1>1, <1>2, <1>3, <1>4, <1>5, <1>6, <1>7, <1>8, <1>9, <1>10 DEF Worker, Next

\* The counters of the environment and of the watchdog.
LEMMA BoundsStep ==
  ASSUME BoundsOK, Next
  PROVE  BoundsOK'
<1>1. CASE Worker
  BY <1>1 DEF BoundsOK, wdVars, btVars, drvVars, Worker, OnConnectRequest,
              OnScanRequest, OnForgetRequest,
              OnRecoveryRequest, OnGotIp, GotIp, OnDisconnected, TryAgain,
              Exhausted, LinkLost, Timeout, ScanDone, CycleScanned, Ignored
<1>2. CASE DriverAnswer \/ DriverLease \/ DriverDrop \/ WifiEventHandler
  BY <1>2 DEF BoundsOK, wdVars, btVars, DriverAnswer, DriverLease, OthersThanDriver,
              DriverDrop, WifiEventHandler
<1>3. CASE HttpAdd \/ HttpDelete \/ HttpReset \/ HttpScan
  BY <1>3 DEF BoundsOK, wdVars, btVars, drvVars, HttpAdd, HttpDelete, HttpReset,
              HttpScan, Request
<1>4. CASE BtUp \/ BtDown \/ SettleDone
  BY <1>4 DEF BoundsOK, wdVars, drvVars, BtUp, BtDown, SettleDone
<1>5. CASE Heartbeat
  <2>1. stuck_count' \in 0..(StuckLimit - 1)
    BY <1>5, WifiAssumption DEF Heartbeat, BoundsOK
  <2>2. wd_due' \in BOOLEAN
    BY <1>5, Zenon DEF Heartbeat, BoundsOK
  <2>3. UNCHANGED <<requests, bounces, drops, recoveries>>
    BY <1>5 DEF Heartbeat, btVars, drvVars
  <2> QED BY <2>1, <2>2, <2>3 DEF BoundsOK
<1>6. CASE WatchdogFires
  <2>1. recoveries' \in Nat
    BY <1>6 DEF WatchdogFires, BoundsOK
  <2>2. wd_due' \in BOOLEAN
    BY <1>6, Zenon DEF WatchdogFires
  <2>3. UNCHANGED <<stuck_count, requests, bounces, drops>>
    BY <1>6 DEF WatchdogFires, btVars, drvVars
  <2> QED BY <2>1, <2>2, <2>3 DEF BoundsOK
<1> QED BY <1>1, <1>2, <1>3, <1>4, <1>5, <1>6 DEF Next

LEMMA TypeInit == Init => TypeOK
<1> SUFFICES ASSUME Init PROVE TypeOK
  OBVIOUS
<1>1. QueueOK
  <2>1. queue \in Seq(Events)
    <3>1. <<>> \in Seq(Events)
      OBVIOUS
    <3>2. <<"CONNECT">> \in Seq(Events)
      BY DEF Events
    <3> QED BY <3>1, <3>2 DEF Init
  <2>2. Len(queue) <= QueueCap
    BY WifiAssumption DEF Init
  <2> QED BY <2>1, <2>2 DEF QueueOK
<1>2. DriverOK
  BY DEF Init, DriverOK
<1>3. WorkerOK
  BY WifiAssumption DEF Init, WorkerOK, FsmStates, Reasons
<1>4. SharedOK
  BY WifiAssumption DEF Init, SharedOK, AppStates
<1>5. BoundsOK
  <2>1. 0 \in 0..(StuckLimit - 1)
    BY WifiAssumption
  <2> QED BY <2>1 DEF Init, BoundsOK
<1> QED BY <1>1, <1>2, <1>3, <1>4, <1>5 DEF TypeOK

LEMMA TypeStep == TypeOK /\ [Next]_vars => TypeOK'
<1> SUFFICES ASSUME TypeOK, [Next]_vars PROVE TypeOK'
  OBVIOUS
<1>1. CASE Next
  BY <1>1, QueueStep, DriverStep, WorkerStep, SharedStep, BoundsStep DEF TypeOK
<1>2. CASE UNCHANGED vars
  BY <1>2 DEF vars, workerVars, btVars, drvVars, wdVars, TypeOK, QueueOK,
              DriverOK, WorkerOK, SharedOK, BoundsOK
<1> QED BY <1>1, <1>2

\* The WiFi manager keeps its types, and its queue its capacity, whoever posts.
THEOREM TypeCorrect == Spec => []TypeOK
  BY TypeInit, TypeStep, PTL DEF Spec

-----------------------------------------------------------------------------
(* Safety. The parts lean on one another: a loss is retried only because   *)
(* the delay it arms is not zero, which holds because every way into       *)
(* CONNECTED resets it; the flag is exact because no cycle starts over a   *)
(* link that works.                                                        *)

IInv ==
  /\ TypeOK
  /\ ScanFromRest
  /\ UplinkFlag
  /\ CandidateInRange
  /\ BackoffNeverCompounds
  /\ LostLinkArmed
  /\ NoFailurePageWhileConnected
  /\ OneSettleTask

\* Only the worker touches its state; the others may add a lapse of their own.
LEMMA OthersLeaveWorker ==
  ASSUME Next, ~Worker
  PROVE  /\ UNCHANGED <<fsm_state, next_wait_ms, retry_delay_ms, retry_reason,
                        candidate_count, candidate_index, candidate_attempt, pc>>
         /\ UNCHANGED wifi_connected
         /\ lapses' \in {lapses, lapses \cup {"dropped"}}
<1>1. CASE DriverAnswer \/ DriverLease \/ DriverDrop \/ Heartbeat \/ WatchdogFires
  BY <1>1 DEF DriverAnswer, DriverLease, OthersThanDriver, DriverDrop, Heartbeat,
              WatchdogFires, workerVars
<1>2. CASE WifiEventHandler
  BY <1>2 DEF WifiEventHandler, workerVars
<1>3. CASE HttpAdd \/ HttpDelete \/ HttpReset \/ HttpScan
  BY <1>3 DEF HttpAdd, HttpDelete, HttpReset, HttpScan, Request, workerVars
<1>4. CASE BtUp \/ BtDown \/ SettleDone
  BY <1>4 DEF BtUp, BtDown, SettleDone, workerVars
<1> QED BY <1>1, <1>2, <1>3, <1>4 DEF Next

\* A connect can only add the lapse of having been refused.
LEMMA ConnectLapses ==
  ASSUME NEW known, ConnectToCandidate(known)
  PROVE  lapses' \in {known, known \cup {"refused"}}
BY DEF ConnectToCandidate, DriverConnect

LEMMA ScanFromRestStep ==
  ASSUME ScanFromRest, Next
  PROVE  ScanFromRest'
<1>1. CASE OnConnectRequest \/ OnScanRequest \/ OnForgetRequest
           \/ OnRecoveryRequest \/ OnGotIp
  BY <1>1 DEF ScanFromRest, OnConnectRequest, OnScanRequest, OnForgetRequest,
              OnRecoveryRequest, OnGotIp, GotIp, StartCycle, Ignored, Take,
              workerVars
<1>2. CASE OnDisconnected
  BY <1>2 DEF ScanFromRest, OnDisconnected, TryAgain, Exhausted, LinkLost,
              Ignored, Take, workerVars
<1>3. CASE Timeout \/ ScanDone \/ CycleScanned
  BY <1>3 DEF ScanFromRest, Timeout, ScanDone, CycleScanned, StartCycle,
              workerVars
<1>4. CASE ~Worker
  BY <1>4, OthersLeaveWorker DEF ScanFromRest
<1> QED BY <1>1, <1>2, <1>3, <1>4 DEF Worker

LEMMA UplinkFlagStep ==
  ASSUME SharedOK, ScanFromRest, UplinkFlag, Next
  PROVE  UplinkFlag'
<1>1. CASE OnConnectRequest \/ OnScanRequest \/ OnForgetRequest
  BY <1>1 DEF UplinkFlag, OnConnectRequest, OnScanRequest, OnForgetRequest,
              StartCycle, Ignored, workerVars
<1>2. CASE OnRecoveryRequest
  <2>1. CASE fsm_state \in {"CONNECTED", "RETRY_WAIT"}
    BY <1>2, <2>1 DEF UplinkFlag, OnRecoveryRequest, SoftReset
  <2>2. CASE fsm_state \notin {"CONNECTED", "RETRY_WAIT"}
    BY <1>2, <2>2 DEF UplinkFlag, OnRecoveryRequest, Ignored, workerVars
  <2> QED BY <2>1, <2>2
<1>3. CASE OnGotIp
  BY <1>3 DEF UplinkFlag, OnGotIp, GotIp, SetWifiConnected, Ignored, workerVars
<1>4. CASE OnDisconnected
  <2>1. CASE TryAgain
    BY <2>1, ConnectLapses DEF UplinkFlag, TryAgain
  <2>2. CASE Exhausted
    BY <2>2 DEF UplinkFlag, Exhausted
  <2>3. CASE LinkLost
    BY <2>3 DEF UplinkFlag, LinkLost, SetWifiConnected
  <2>4. CASE Ignored
    BY <2>4 DEF UplinkFlag, Ignored, workerVars
  <2> QED BY <1>4, <2>1, <2>2, <2>3, <2>4 DEF OnDisconnected
<1>5. CASE Timeout \/ ScanDone
  BY <1>5 DEF UplinkFlag, Timeout, ScanDone, StartCycle, workerVars
<1>6. CASE CycleScanned
  <2>1. CASE NothingVisible
    BY <1>6, <2>1 DEF UplinkFlag, ScanFromRest, CycleScanned, NothingVisible
  <2>2. CASE FirstCandidate
    BY <1>6, <2>2, ConnectLapses
    DEF UplinkFlag, ScanFromRest, CycleScanned, FirstCandidate
  <2> QED BY <1>6, <2>1, <2>2 DEF CycleScanned
<1>7. CASE ~Worker
  BY <1>7, OthersLeaveWorker DEF UplinkFlag
<1> QED BY <1>1, <1>2, <1>3, <1>4, <1>5, <1>6, <1>7 DEF Worker

LEMMA CandidateStep ==
  ASSUME WorkerOK, SharedOK, CandidateInRange, Next
  PROVE  CandidateInRange'
<1>1. CASE OnConnectRequest \/ OnScanRequest \/ OnForgetRequest
  BY <1>1 DEF CandidateInRange, OnConnectRequest, OnScanRequest,
              OnForgetRequest, StartCycle, Ignored, workerVars
<1>2. CASE OnRecoveryRequest
  BY <1>2 DEF CandidateInRange, OnRecoveryRequest, SoftReset, Ignored, workerVars
<1>3. CASE OnGotIp
  BY <1>3 DEF CandidateInRange, OnGotIp, GotIp, Ignored, workerVars
<1>4. CASE OnDisconnected
  <2>1. CASE TryAgain
    <3>1. "stale_list" \notin lapses' => "stale_list" \notin lapses
      BY <2>1, ConnectLapses DEF TryAgain
    <3>2. candidate_attempt' < CandMaxAttempts
      BY <2>1, WifiAssumption DEF TryAgain, WorkerOK
    <3>3. CASE UNCHANGED candidate_index
      BY <2>1, <3>1, <3>2, <3>3 DEF CandidateInRange, TryAgain
    <3>4. CASE MoreCandidates /\ candidate_index' = candidate_index + 1
      BY <2>1, <3>1, <3>2, <3>4 DEF CandidateInRange, TryAgain, MoreCandidates
    <3> QED BY <2>1, <3>3, <3>4 DEF TryAgain
  <2>2. CASE Exhausted
    BY <2>2 DEF CandidateInRange, Exhausted
  <2>3. CASE LinkLost
    BY <2>3 DEF CandidateInRange, LinkLost
  <2>4. CASE Ignored
    BY <2>4 DEF CandidateInRange, Ignored, workerVars
  <2> QED BY <1>4, <2>1, <2>2, <2>3, <2>4 DEF OnDisconnected
<1>5. CASE Timeout \/ ScanDone
  BY <1>5 DEF CandidateInRange, Timeout, ScanDone, StartCycle, workerVars
<1>6. CASE CycleScanned
  <2>1. PICK n \in 0..saved :
          /\ candidate_count' = n
          /\ (n = 0 /\ NothingVisible) \/ (n > 0 /\ FirstCandidate)
    BY <1>6 DEF CycleScanned
  <2>2. candidate_index' = 0 /\ candidate_attempt' = 0
    BY <1>6 DEF CycleScanned
  <2>3. CASE n = 0
    BY <2>1, <2>3 DEF CandidateInRange, NothingVisible
  <2>4. CASE n > 0
    BY <2>1, <2>2, <2>4, WifiAssumption DEF CandidateInRange
  <2> QED BY <2>1, <2>3, <2>4
<1>7. CASE ~Worker
  BY <1>7, OthersLeaveWorker DEF CandidateInRange
<1> QED BY <1>1, <1>2, <1>3, <1>4, <1>5, <1>6, <1>7 DEF Worker

LEMMA BackoffStep ==
  ASSUME ScanFromRest, BackoffNeverCompounds, LostLinkArmed, Next
  PROVE  BackoffNeverCompounds' /\ LostLinkArmed'
<1> USE DEF BackoffNeverCompounds, LostLinkArmed, workerVars
<1>1. CASE OnConnectRequest \/ OnScanRequest
  BY <1>1 DEF OnConnectRequest, OnScanRequest, StartCycle, Ignored
<1>2. CASE OnForgetRequest
  BY <1>2 DEF OnForgetRequest
<1>3. CASE OnRecoveryRequest
  BY <1>3 DEF OnRecoveryRequest, Ignored
<1>4. CASE OnGotIp
  BY <1>4 DEF OnGotIp, GotIp, ResetBackoff, Ignored
<1>5. CASE OnDisconnected
  <2>1. CASE TryAgain
    BY <2>1 DEF TryAgain
  <2>2. CASE Exhausted
    BY <2>2 DEF Exhausted
  <2>3. CASE LinkLost
    BY <2>3, WifiAssumption DEF LinkLost, ArmRetry
  <2>4. CASE Ignored
    BY <2>4 DEF Ignored
  <2> QED BY <1>5, <2>1, <2>2, <2>3, <2>4 DEF OnDisconnected
<1>6. CASE Timeout \/ ScanDone
  BY <1>6 DEF Timeout, ScanDone, StartCycle
<1>7. CASE CycleScanned
  BY <1>7 DEF CycleScanned, NothingVisible, FirstCandidate
<1>8. CASE ~Worker
  BY <1>8, OthersLeaveWorker
<1> QED BY <1>1, <1>2, <1>3, <1>4, <1>5, <1>6, <1>7, <1>8 DEF Worker

LEMMA FailurePageStep ==
  ASSUME ScanFromRest, NoFailurePageWhileConnected, Next
  PROVE  NoFailurePageWhileConnected'
<1> USE DEF NoFailurePageWhileConnected, workerVars
<1>1. CASE OnConnectRequest \/ OnScanRequest \/ OnForgetRequest
           \/ OnRecoveryRequest
  BY <1>1 DEF OnConnectRequest, OnScanRequest, OnForgetRequest,
              OnRecoveryRequest, StartCycle, Ignored
<1>2. CASE OnGotIp
  BY <1>2 DEF OnGotIp, GotIp, AppWhenConnected, Ignored
<1>3. CASE OnDisconnected
  BY <1>3 DEF OnDisconnected, TryAgain, Exhausted, LinkLost, Ignored
<1>4. CASE Timeout \/ ScanDone \/ CycleScanned
  BY <1>4 DEF Timeout, ScanDone, CycleScanned, StartCycle, NothingVisible,
              FirstCandidate
<1>5. CASE DriverAnswer \/ DriverLease \/ DriverDrop \/ WifiEventHandler
  BY <1>5 DEF DriverAnswer, DriverLease, OthersThanDriver, DriverDrop, WifiEventHandler
<1>6. CASE HttpAdd \/ HttpDelete \/ HttpReset \/ HttpScan
  BY <1>6 DEF HttpAdd, HttpDelete, HttpReset, HttpScan, Request
<1>7. CASE BtUp \/ BtDown \/ SettleDone \/ Heartbeat \/ WatchdogFires
  BY <1>7 DEF BtUp, OnBtConnected, BtDown, SettleDone, Heartbeat, WatchdogFires
<1> QED BY <1>1, <1>2, <1>3, <1>4, <1>5, <1>6, <1>7 DEF Worker, Next

LEMMA SettleStep ==
  ASSUME SharedOK, OneSettleTask, Next
  PROVE  OneSettleTask'
<1>1. CASE BtUp
  BY <1>1 DEF OneSettleTask, SharedOK, BtUp, OnBtConnected, SettleMayStart
<1>2. CASE SettleDone
  BY <1>2 DEF OneSettleTask, SharedOK, SettleDone
<1>3. CASE Worker
  BY <1>3 DEF OneSettleTask, btVars, Worker, OnConnectRequest, OnScanRequest,
              OnForgetRequest, OnRecoveryRequest, OnGotIp, OnDisconnected,
              Timeout, ScanDone, CycleScanned
<1>4. CASE Next /\ ~Worker /\ ~BtUp /\ ~SettleDone
  BY <1>4 DEF OneSettleTask, btVars, Next, DriverAnswer, DriverLease,
              OthersThanDriver, DriverDrop, WifiEventHandler, HttpAdd, HttpDelete,
              HttpReset, HttpScan, Request, BtDown, Heartbeat, WatchdogFires
<1> QED BY <1>1, <1>2, <1>3, <1>4

LEMMA IInvInit == Init => IInv
<1> SUFFICES ASSUME Init PROVE IInv
  OBVIOUS
<1>1. ScanFromRest /\ UplinkFlag /\ CandidateInRange /\ LostLinkArmed
      /\ NoFailurePageWhileConnected
  BY DEF Init, ScanFromRest, UplinkFlag, CandidateInRange, LostLinkArmed,
         NoFailurePageWhileConnected
<1>2. BackoffNeverCompounds
  BY DEF Init, BackoffNeverCompounds
<1>3. OneSettleTask
  BY DEF Init, OneSettleTask
<1> QED BY TypeInit, <1>1, <1>2, <1>3 DEF IInv

LEMMA IInvStep == IInv /\ [Next]_vars => IInv'
<1> SUFFICES ASSUME IInv, [Next]_vars PROVE IInv'
  OBVIOUS
<1>1. TypeOK'
  BY TypeStep DEF IInv
<1>2. CASE Next
  BY <1>1, <1>2, ScanFromRestStep, UplinkFlagStep, CandidateStep, BackoffStep,
     FailurePageStep, SettleStep DEF IInv, TypeOK
<1>3. CASE UNCHANGED vars
  BY <1>1, <1>3 DEF vars, workerVars, btVars, IInv, ScanFromRest, UplinkFlag,
                    CandidateInRange, BackoffNeverCompounds, LostLinkArmed,
                    NoFailurePageWhileConnected, OneSettleTask
<1> QED BY <1>2, <1>3

\* The inductive invariant holds in every state.
THEOREM Inductive == Spec => []IInv
  BY IInvInit, IInvStep, PTL DEF Spec

\* The flag that routes a phone's connection and feeds the watchdog and the
\* pages (app_state.c) is the worker's own view of the uplink.
THEOREM UplinkFlagCorrect == Spec => []UplinkFlag
<1>1. IInv => UplinkFlag
  BY DEF IInv
<1> QED BY Inductive, <1>1, PTL

\* The worker scans only from rest.
THEOREM ScanCorrect == Spec => []ScanFromRest
<1>1. IInv => ScanFromRest
  BY DEF IInv
<1> QED BY Inductive, <1>1, PTL

\* candidate_list is indexed within what build_candidate_list() filled.
THEOREM CandidateCorrect == Spec => []CandidateInRange
<1>1. IInv => CandidateInRange
  BY DEF IInv
<1> QED BY Inductive, <1>1, PTL

\* A lost link always has its retry timer running.
THEOREM LostLinkCorrect == Spec => []LostLinkArmed
<1>1. IInv => LostLinkArmed
  BY DEF IInv
<1> QED BY Inductive, <1>1, PTL

\* The delay armed after a loss is the base delay, whatever came before.
THEOREM BackoffCorrect == Spec => []BackoffNeverCompounds
<1>1. IInv => BackoffNeverCompounds
  BY DEF IInv
<1> QED BY Inductive, <1>1, PTL

\* However the Bluetooth link bounces, at most one settle task is in flight.
THEOREM SettleCorrect == Spec => []OneSettleTask
<1>1. IInv => OneSettleTask
  BY DEF IInv
<1> QED BY Inductive, <1>1, PTL

\* While the worker is connected no failure page is shown.
THEOREM FailurePageCorrect == Spec => []NoFailurePageWhileConnected
<1>1. IInv => NoFailurePageWhileConnected
  BY DEF IInv
<1> QED BY Inductive, <1>1, PTL

\* ... and so the parts hold together, for every length of the queue and of the
\* list of networks.
THEOREM SafetyCorrect == Spec => []Safety
  BY TypeCorrect, UplinkFlagCorrect, ScanCorrect, CandidateCorrect,
     LostLinkCorrect, SettleCorrect, FailurePageCorrect, PTL DEF Safety

-----------------------------------------------------------------------------
(* What the worker believes of the link. Events reach the queue in the     *)
(* order the driver raised them, with other entries in between; so it is   *)
(* enough that every GOT_IP on its way has a DISCONNECTED behind it while  *)
(* the station is idle. A cycle forgets what was dropped before it: until  *)
(* it has joined or been refused nothing is claimed.                       *)

Answered(s) ==
  \A i \in 1..Len(s) : s[i] = "GOT_IP" =>
    \E j \in 1..Len(s) : i < j /\ s[j] = "DISCONNECTED"

Pending ==
  /\ Answered(evloop)
  /\ Answered(queue) \/ Has(evloop, "DISCONNECTED")
  /\ fsm_state = "CONNECTED" =>
       Has(queue, "DISCONNECTED") \/ Has(evloop, "DISCONNECTED")

Idle == /\ fsm_state \in {"CONNECTING", "CONNECTED"} /\ drv = "idle"
        /\ "dropped" \notin lapses /\ "refused" \notin lapses

Backed == Idle => Pending

\* Appending a DISCONNECTED answers whatever came before it ...
LEMMA AppendAnswers ==
  ASSUME NEW S, NEW s \in Seq(S), "DISCONNECTED" \in S
  PROVE  LET t == Append(s, "DISCONNECTED")
         IN  Answered(t) /\ Has(t, "DISCONNECTED")
<1> DEFINE t == Append(s, "DISCONNECTED")
<1>1. /\ Len(s) \in Nat /\ Len(t) = Len(s) + 1
      /\ \A i \in 1..Len(s) : t[i] = s[i]
      /\ t[Len(s) + 1] = "DISCONNECTED"
  OBVIOUS
<1> HIDE DEF t
<1>2. Has(t, "DISCONNECTED")
  BY <1>1 DEF Has
<1>3. \A i \in 1..Len(t) : t[i] = "GOT_IP" => i < Len(t)
  BY <1>1
<1> QED BY <1>1, <1>2, <1>3 DEF Answered, t

\* ... and appending anything but a GOT_IP leaves no new question.
LEMMA AppendKeeps ==
  ASSUME NEW S, NEW s \in Seq(S), NEW e \in S
  PROVE  LET t == Append(s, e)
         IN  /\ Has(s, "DISCONNECTED") => Has(t, "DISCONNECTED")
             /\ Answered(s) /\ e # "GOT_IP" => Answered(t)
<1> DEFINE t == Append(s, e)
<1>1. /\ Len(s) \in Nat /\ Len(t) = Len(s) + 1
      /\ \A i \in 1..Len(s) : t[i] = s[i]
      /\ t[Len(s) + 1] = e
  OBVIOUS
<1> HIDE DEF t
<1>2. Has(s, "DISCONNECTED") => Has(t, "DISCONNECTED")
  BY <1>1 DEF Has
<1>3. ASSUME Answered(s), e # "GOT_IP" PROVE Answered(t)
  <2> SUFFICES ASSUME NEW i \in 1..Len(t), t[i] = "GOT_IP"
               PROVE  \E j \in 1..Len(t) : i < j /\ t[j] = "DISCONNECTED"
    BY DEF Answered
  <2>1. i \in 1..Len(s) /\ s[i] = "GOT_IP"
    BY <1>1, <1>3
  <2>2. PICK j \in 1..Len(s) : i < j /\ s[j] = "DISCONNECTED"
    BY <1>3, <2>1 DEF Answered
  <2> QED BY <1>1, <2>2
<1> QED BY <1>2, <1>3 DEF t

\* Taking the head leaves the answers to what is behind it, and its own.
LEMMA TailKeeps ==
  ASSUME NEW S, NEW s \in Seq(S), s # <<>>
  PROVE  /\ Answered(s) => Answered(Tail(s))
         /\ Answered(s) /\ Head(s) = "GOT_IP" => Has(Tail(s), "DISCONNECTED")
         /\ Has(s, "DISCONNECTED") /\ Head(s) # "DISCONNECTED" =>
              Has(Tail(s), "DISCONNECTED")
<1> DEFINE t == Tail(s)
<1>1. /\ Len(s) \in Nat \ {0} /\ Len(t) = Len(s) - 1 /\ Head(s) = s[1]
      /\ \A i \in 1..Len(t) : t[i] = s[i + 1]
  OBVIOUS
<1> HIDE DEF t
<1>2. \A j \in 2..Len(s) : j - 1 \in 1..Len(t) /\ t[j - 1] = s[j]
  BY <1>1
<1>3. ASSUME Answered(s) PROVE Answered(t)
  <2> SUFFICES ASSUME NEW i \in 1..Len(t), t[i] = "GOT_IP"
               PROVE  \E j \in 1..Len(t) : i < j /\ t[j] = "DISCONNECTED"
    BY DEF Answered
  <2>1. i + 1 \in 1..Len(s) /\ s[i + 1] = "GOT_IP"
    BY <1>1
  <2>2. PICK j \in 1..Len(s) : i + 1 < j /\ s[j] = "DISCONNECTED"
    BY <1>3, <2>1 DEF Answered
  <2>3. j \in 2..Len(s) /\ i < j - 1
    BY <1>1, <2>2
  <2> QED BY <1>2, <2>2, <2>3
<1>4. ASSUME Answered(s), Head(s) = "GOT_IP" PROVE Has(t, "DISCONNECTED")
  <2>1. PICK j \in 1..Len(s) : 1 < j /\ s[j] = "DISCONNECTED"
    BY <1>1, <1>4 DEF Answered
  <2>2. j \in 2..Len(s)
    BY <1>1, <2>1
  <2> QED BY <1>2, <2>1, <2>2 DEF Has
<1>5. ASSUME Has(s, "DISCONNECTED"), Head(s) # "DISCONNECTED"
      PROVE  Has(t, "DISCONNECTED")
  <2>1. PICK j \in 1..Len(s) : s[j] = "DISCONNECTED"
    BY <1>5 DEF Has
  <2>2. j \in 2..Len(s)
    BY <1>1, <1>5, <2>1
  <2> QED BY <1>2, <2>1, <2>2 DEF Has
<1> QED BY <1>3, <1>4, <1>5 DEF t

\* An entry of a task other than the esp_event task changes nothing.
LEMMA PostBacked ==
  ASSUME TypeOK, Pending, NEW e \in Events, e # "GOT_IP", Post(e),
         UNCHANGED <<evloop, fsm_state>>
  PROVE  Pending'
<1>1. queue' \in {queue, Append(queue, e)}
  BY DEF Post
<1>2. CASE queue' = queue
  BY <1>2 DEF Pending
<1>3. CASE queue' = Append(queue, e)
  BY <1>3, AppendKeeps DEF Pending, TypeOK, QueueOK
<1> QED BY <1>1, <1>2, <1>3

\* Nor does an entry that is taken and is no driver event.
LEMMA TakeBacked ==
  ASSUME TypeOK, Pending, NEW e, Take(e), e # "DISCONNECTED",
         UNCHANGED <<evloop, fsm_state>>
  PROVE  Pending'
<1>1. queue \in Seq(Events) /\ queue # <<>> /\ queue' = Tail(queue) /\ Head(queue) = e
  BY DEF Take, TypeOK, QueueOK
<1>2. Answered(queue) => Answered(queue')
  BY <1>1, TailKeeps
<1>3. Has(queue, "DISCONNECTED") => Has(queue', "DISCONNECTED")
  BY <1>1, TailKeeps
<1> QED BY <1>2, <1>3 DEF Pending

\* A driver that leaves its station says so last.
LEMMA RaiseBacked ==
  ASSUME TypeOK, evloop' = Append(evloop, "DISCONNECTED")
  PROVE  Pending'
<1>1. evloop \in Seq(DriverEvents) /\ "DISCONNECTED" \in DriverEvents
  BY DEF TypeOK, DriverOK, DriverEvents
<1> QED BY <1>1, AppendAnswers DEF Pending

\* After a connect the driver joins, or has refused.
LEMMA ConnectNotIdle ==
  ASSUME NEW known, ConnectToCandidate(known)
  PROVE  ~Idle'
BY DEF ConnectToCandidate, DriverConnect, Idle

LEMMA BackedHandled ==
  ASSUME TypeOK, ScanFromRest, Backed,
         OnConnectRequest \/ OnScanRequest \/ OnForgetRequest
         \/ OnRecoveryRequest \/ OnGotIp \/ OnDisconnected
  PROVE  Backed'
<1> SUFFICES ASSUME Idle' PROVE Pending'
  BY DEF Backed
<1>1. CASE OnConnectRequest
  <2>1. Take("CONNECT") /\ UNCHANGED <<fsm_state, drv, evloop, lapses>>
    BY <1>1 DEF OnConnectRequest, StartCycle, Ignored, workerVars, drvVars
  <2> QED BY <2>1, TakeBacked DEF Backed, Idle
<1>2. CASE OnScanRequest
  <2>1. Take("SCAN") /\ UNCHANGED <<fsm_state, drv, evloop, lapses>>
    BY <1>2 DEF OnScanRequest, Ignored, workerVars, drvVars
  <2> QED BY <2>1, TakeBacked DEF Backed, Idle
<1>3. CASE OnForgetRequest
  <2>1. Take("FORGET") /\ fsm_state = "CONNECTED" /\ DriverDisconnect
        /\ UNCHANGED <<fsm_state, lapses>>
    BY <1>3 DEF OnForgetRequest, Idle
  <2>2. CASE drv = "idle"
    BY <2>1, <2>2, TakeBacked DEF Backed, Idle, DriverDisconnect
  <2>3. CASE drv # "idle"
    BY <2>1, <2>3, RaiseBacked DEF DriverDisconnect
  <2> QED BY <2>2, <2>3
<1>4. CASE OnRecoveryRequest
  <2>1. fsm_state \notin {"CONNECTED", "RETRY_WAIT"}
    BY <1>4 DEF OnRecoveryRequest, SoftReset, Idle
  <2>2. Take("RECOVERY") /\ UNCHANGED <<fsm_state, drv, evloop, lapses>>
    BY <1>4, <2>1 DEF OnRecoveryRequest, Ignored, workerVars, drvVars
  <2> QED BY <2>2, TakeBacked DEF Backed, Idle
<1>5. CASE OnGotIp
  <2>1. Take("GOT_IP") /\ UNCHANGED <<drv, evloop>>
    BY <1>5 DEF OnGotIp, GotIp, Ignored, drvVars
  <2>2. queue \in Seq(Events) /\ queue # <<>> /\ queue' = Tail(queue)
        /\ Head(queue) = "GOT_IP"
    BY <2>1 DEF Take, TypeOK, QueueOK
  <2>3. Idle
    BY <1>5, <2>1 DEF Idle, OnGotIp, GotIp, SetWifiConnected, Ignored, workerVars
  <2>4. CASE Has(evloop, "DISCONNECTED")
    BY <2>1, <2>3, <2>4 DEF Backed, Pending
  <2>5. CASE Answered(queue)
    BY <2>1, <2>2, <2>3, <2>5, TailKeeps DEF Backed, Pending
  <2> QED BY <2>3, <2>4, <2>5 DEF Backed, Pending
<1>6. CASE OnDisconnected
  <2>1. ~TryAgain
    BY ConnectNotIdle DEF TryAgain
  <2>2. ~Exhausted /\ ~LinkLost
    BY DEF Exhausted, LinkLost, Idle
  <2>3. fsm_state \in {"IDLE", "RETRY_WAIT"} /\ UNCHANGED fsm_state
    BY <1>6, <2>1, <2>2 DEF OnDisconnected, Ignored, workerVars
  <2> QED BY <2>3 DEF Idle
<1> QED BY <1>1, <1>2, <1>3, <1>4, <1>5, <1>6

LEMMA BackedStep ==
  ASSUME TypeOK, ScanFromRest, Backed, [Next]_vars
  PROVE  Backed'
<1> SUFFICES ASSUME Idle' PROVE Pending'
  BY DEF Backed
<1>1. CASE OnConnectRequest \/ OnScanRequest \/ OnForgetRequest
           \/ OnRecoveryRequest \/ OnGotIp \/ OnDisconnected
  BY <1>1, BackedHandled DEF Backed
<1>2. CASE Timeout
  <2>1. UNCHANGED <<queue, drv, evloop, lapses>>
    BY <1>2 DEF Timeout, drvVars
  <2>2. UNCHANGED fsm_state
    BY <1>2 DEF Timeout, StartCycle, workerVars, Idle
  <2> QED BY <2>1, <2>2 DEF Backed, Idle, Pending
<1>3. CASE ScanDone
  BY <1>3 DEF ScanDone, drvVars, Backed, Idle, Pending
<1>4. CASE CycleScanned
  <2>1. CASE NothingVisible
    BY <2>1 DEF NothingVisible, Idle
  <2>2. CASE FirstCandidate
    BY <2>2, ConnectNotIdle DEF FirstCandidate
  <2> QED BY <1>4, <2>1, <2>2 DEF CycleScanned
<1>5. CASE DriverAnswer \/ DriverLease \/ DriverDrop
  BY <1>5, RaiseBacked DEF DriverAnswer, DriverLease, OthersThanDriver, DriverDrop, Idle
<1>6. CASE WifiEventHandler
  <2>1. /\ evloop # <<>> /\ evloop' = Tail(evloop) /\ Post(Head(evloop))
        /\ UNCHANGED <<fsm_state, drv>>
        /\ lapses' = IF QueueFull THEN lapses \cup {"dropped"} ELSE lapses
    BY <1>6 DEF WifiEventHandler, workerVars
  <2>2. ~QueueFull /\ Idle
    BY <2>1 DEF Idle
  <2>3. queue' = Append(queue, Head(evloop))
    BY <2>1, <2>2 DEF Post
  <2>4. /\ evloop \in Seq(DriverEvents) /\ queue \in Seq(Events)
        /\ Head(evloop) \in DriverEvents /\ Head(evloop) \in Events
        /\ "DISCONNECTED" \in Events
    BY <2>1 DEF TypeOK, DriverOK, QueueOK, Events, DriverEvents
  <2>5. Pending /\ Answered(evloop')
    BY <2>1, <2>2, <2>4, TailKeeps DEF Backed, Pending
  <2>6. CASE Head(evloop) = "DISCONNECTED"
    BY <2>3, <2>4, <2>5, <2>6, AppendAnswers DEF Pending
  <2>7. CASE Head(evloop) = "GOT_IP"
    <3>1. Has(evloop', "DISCONNECTED")
      BY <2>1, <2>4, <2>5, <2>7, TailKeeps DEF Pending
    <3> QED BY <2>5, <3>1 DEF Pending
  <2> QED BY <2>4, <2>6, <2>7 DEF DriverEvents
<1>7. CASE \E e \in {"CONNECT", "FORGET", "SCAN", "RECOVERY"} :
             Post(e) /\ UNCHANGED <<fsm_state, drv, evloop, lapses>>
  BY <1>7, PostBacked DEF Backed, Idle, Events
<1>8. CASE HttpAdd \/ HttpReset \/ HttpScan \/ SettleDone \/ WatchdogFires
  <2>1. \E e \in {"CONNECT", "FORGET", "SCAN", "RECOVERY"} : Post(e)
    BY <1>8 DEF HttpAdd, HttpReset, HttpScan, SettleDone, WatchdogFires
  <2>2. UNCHANGED <<fsm_state, drv, evloop, lapses>>
    BY <1>8 DEF HttpAdd, HttpReset, HttpScan, Request, SettleDone, WatchdogFires,
                workerVars, drvVars
  <2> QED BY <1>7, <2>1, <2>2
<1>9. CASE HttpDelete \/ BtUp \/ BtDown \/ Heartbeat \/ UNCHANGED vars
  <2>1. UNCHANGED <<queue, fsm_state, drv, evloop, lapses>>
    BY <1>9 DEF HttpDelete, Request, BtUp, BtDown, Heartbeat, vars, workerVars,
                drvVars
  <2> QED BY <2>1 DEF Backed, Idle, Pending
<1> QED BY <1>1, <1>2, <1>3, <1>4, <1>5, <1>6, <1>8, <1>9 DEF Next, Worker

\* Whatever events of earlier links are still on their way (wifi_manager.c:570),
\* the worker is CONNECTED over a dead link only while the DISCONNECTED that
\* corrects it is on its way too, unless one was dropped or a connect refused.
THEOREM BackedCorrect == Spec => []ConnectedIsBacked
<1>1. Init => Backed
  BY DEF Init, Backed, Idle
<1>2. IInv /\ Backed /\ [Next]_vars => Backed'
  BY BackedStep DEF IInv
<1>3. Backed => ConnectedIsBacked
  BY DEF Backed, Idle, Pending, ConnectedIsBacked
<1> QED BY <1>1, <1>2, <1>3, Inductive, PTL DEF Spec
=============================================================================
