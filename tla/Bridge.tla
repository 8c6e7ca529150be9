------------------------------- MODULE Bridge -------------------------------
(***************************************************************************)
(* Where the two links of satura-bridge meet: the flags and the            *)
(* application state of main/app_state.c, written by the BTstack thread    *)
(* (bt_pan.c, and on_bt_event() of wifi_manager.c that it calls), by the   *)
(* WiFi worker and by the HTTP task; and NAT, which nat_bridge.c           *)
(* re-evaluates on the tcpip thread after every change of a link.          *)
(*                                                                         *)
(* A step here is one critical section of app_state.c, one post to the     *)
(* tcpip thread or one call of lwIP; WifiManager and BtPan take the same   *)
(* handlers as single steps.                                               *)
(***************************************************************************)
EXTENDS Naturals

CONSTANT MboxSize     \* the tcpip thread's mailbox; a post to a full one waits

ASSUME BridgeAssumption == MboxSize \in Nat \ {0}

AppStates == {"WAIT_BT", "NO_WIFI", "WIFI_CONNECTING", "WIFI_FAILED",
              "BRIDGE", "BRIDGE_NO_WIFI"}

VARIABLES
  bt_connected, wifi_connected, app,
  any_saved,    \* some network is saved in NVS
  bt_pc,        \* the BTstack thread: "idle" or where it is in a handler
  bt_saw_wifi,  \* what it read of wifi_connected for its last decision
  wk_pc,        \* the WiFi worker
  wk_saw_bt,    \* its local variable bt
  callbacks,    \* update_nat_lwip_ctx() calls in the tcpip mailbox
  tcpip,        \* the tcpip thread: "idle", "down", "up", "write"
  seen_up,      \* its local variable up
  nat,          \* NAPT is enabled on the downlink interface
  lost,         \* history: a post failed for want of memory
  overtaken     \* history: whoever wrote "BRIDGE" or "WAIT_BT" last had read the
                \*   other's link before it changed

btVars == <<bt_connected, bt_pc, bt_saw_wifi>>
wkVars == <<wifi_connected, wk_pc, wk_saw_bt>>
natVars == <<tcpip, seen_up, nat>>
pageVars == <<app, overtaken>>
vars == <<btVars, wkVars, natVars, pageVars, any_saved, callbacks, lost>>

BtPcs == {"idle", "event", "busy", "creds", "nat", "read", "page",
          "closed_nat", "closed_page"}
WkPcs == {"idle", "nat", "read", "page", "lost_nat", "lost_creds",
          "lost_read", "lost_page"}

-----------------------------------------------------------------------------
\* nat_bridge_update(): tcpip_callback(), whose result is not looked at.
PostNat ==
  \/ callbacks < MboxSize /\ callbacks' = callbacks + 1 /\ UNCHANGED lost
  \/ lost' = TRUE /\ UNCHANGED callbacks

-----------------------------------------------------------------------------
(* The BTstack thread.                                                     *)

OthersThanBt == UNCHANGED <<wkVars, natVars, any_saved>>

\* BNEP_EVENT_CHANNEL_OPENED: set_bt_connected(true) ...
ChannelOpened ==
  /\ bt_pc = "idle" /\ ~bt_connected
  /\ bt_connected' = TRUE
  /\ bt_pc' = "event"
  /\ UNCHANGED <<pageVars, bt_saw_wifi, callbacks, lost>> /\ OthersThanBt

\* ... publishes EVENT_BT_CONNECTED: on_bt_event() looks at the uplink, at the
\* application state and at the saved networks (the settle task it may start
\* is in WifiManager) ...
OnBtEvent ==
  /\ bt_pc = "event"
  /\ bt_pc' = IF wifi_connected THEN "nat" ELSE "busy"
  /\ UNCHANGED <<bt_connected, pageVars, bt_saw_wifi, callbacks, lost>>
  /\ OthersThanBt

OnBtBusy ==
  /\ bt_pc = "busy"
  /\ bt_pc' = IF app = "WIFI_CONNECTING" THEN "nat" ELSE "creds"
  /\ UNCHANGED <<bt_connected, pageVars, bt_saw_wifi, callbacks, lost>>
  /\ OthersThanBt

OnBtCredentials ==
  /\ bt_pc = "creds"
  /\ bt_pc' = "nat"
  /\ app' = IF any_saved THEN app ELSE "NO_WIFI"
  /\ UNCHANGED <<bt_connected, bt_saw_wifi, callbacks, lost, overtaken>>
  /\ OthersThanBt

\* ... then EVENT_DOWNLINK_UP is published ...
DownlinkUp ==
  /\ bt_pc = "nat"
  /\ bt_pc' = "read"
  /\ PostNat
  /\ UNCHANGED <<bt_connected, pageVars, bt_saw_wifi>> /\ OthersThanBt

\* ... and the page follows the uplink.
ReadUplinkCached ==             \* mutant: the uplink as the phone before found it
  /\ bt_pc = "read"
  /\ bt_pc' = "page"
  /\ UNCHANGED <<bt_connected, bt_saw_wifi, pageVars, callbacks, lost>>
  /\ OthersThanBt
ReadUplink ==
  /\ bt_pc = "read"
  /\ bt_pc' = "page"
  /\ bt_saw_wifi' = wifi_connected
  /\ UNCHANGED <<bt_connected, pageVars, callbacks, lost>> /\ OthersThanBt

BtPage ==
  /\ bt_pc = "page"
  /\ bt_pc' = "idle"
  /\ IF bt_saw_wifi THEN app' = "BRIDGE" /\ overtaken' = ~wifi_connected
                    ELSE UNCHANGED pageVars
  /\ UNCHANGED <<bt_connected, bt_saw_wifi, callbacks, lost>>
  /\ OthersThanBt

\* BNEP_EVENT_CHANNEL_CLOSED.
ChannelClosed ==
  /\ bt_pc = "idle" /\ bt_connected
  /\ bt_connected' = FALSE
  /\ bt_pc' = "closed_nat"
  /\ UNCHANGED <<pageVars, bt_saw_wifi, callbacks, lost>> /\ OthersThanBt

DownlinkDown ==
  /\ bt_pc = "closed_nat"
  /\ bt_pc' = "closed_page"
  /\ PostNat
  /\ UNCHANGED <<bt_connected, pageVars, bt_saw_wifi>> /\ OthersThanBt

ClosedPage ==
  /\ bt_pc = "closed_page"
  /\ bt_pc' = "idle"
  /\ app' = "WAIT_BT" /\ overtaken' = FALSE
  /\ UNCHANGED <<bt_connected, bt_saw_wifi, callbacks, lost>>
  /\ OthersThanBt

BtThread == \/ OnBtEvent \/ OnBtBusy \/ OnBtCredentials \/ DownlinkUp
            \/ ReadUplink \/ BtPage \/ DownlinkDown \/ ClosedPage

-----------------------------------------------------------------------------
(* The WiFi worker, as far as it touches this state.                       *)

OthersThanWorker == UNCHANGED <<btVars, natVars>>

\* GOT_IP; after a soft reset out of CONNECTED the flag is up already
\* (wifi_manager.c:605-609).
GotIp ==
  /\ wk_pc = "idle"
  /\ wifi_connected' = TRUE
  /\ wk_pc' = "nat"
  /\ UNCHANGED <<wk_saw_bt, pageVars, any_saved, callbacks, lost>> /\ OthersThanWorker

UplinkUp ==
  /\ wk_pc = "nat"
  /\ wk_pc' = "read"
  /\ PostNat
  /\ UNCHANGED <<wifi_connected, wk_saw_bt, pageVars, any_saved>> /\ OthersThanWorker

ReadDownlink ==
  /\ wk_pc = "read"
  /\ wk_pc' = "page"
  /\ wk_saw_bt' = bt_connected
  /\ UNCHANGED <<wifi_connected, pageVars, any_saved, callbacks, lost>>
  /\ OthersThanWorker

WorkerPage ==
  /\ wk_pc = "page"
  /\ wk_pc' = "idle"
  /\ app' = IF wk_saw_bt THEN "BRIDGE" ELSE "WAIT_BT"
  /\ overtaken' = (wk_saw_bt # bt_connected)
  /\ UNCHANGED <<wifi_connected, wk_saw_bt, any_saved, callbacks, lost>>
  /\ OthersThanWorker

\* DISCONNECTED while connected
LinkLost ==
  /\ wk_pc = "idle" /\ wifi_connected
  /\ wifi_connected' = FALSE
  /\ wk_pc' = "lost_nat"
  /\ UNCHANGED <<wk_saw_bt, pageVars, any_saved, callbacks, lost>> /\ OthersThanWorker

NoUplinkDown ==                 \* mutant: EVENT_UPLINK_DOWN is not published
  /\ wk_pc = "lost_nat"
  /\ wk_pc' = "lost_creds"
  /\ UNCHANGED <<wifi_connected, wk_saw_bt, pageVars, any_saved, callbacks, lost>>
  /\ OthersThanWorker
UplinkDown ==
  /\ wk_pc = "lost_nat"
  /\ wk_pc' = "lost_creds"
  /\ PostNat
  /\ UNCHANGED <<wifi_connected, wk_saw_bt, pageVars, any_saved>> /\ OthersThanWorker

LostCredentials ==
  /\ wk_pc = "lost_creds"
  /\ \/ ~any_saved /\ wk_pc' = "idle" /\ app' = "NO_WIFI"
     \/ any_saved /\ wk_pc' = "lost_read" /\ UNCHANGED app
  /\ UNCHANGED <<wifi_connected, wk_saw_bt, any_saved, callbacks, lost, overtaken>>
  /\ OthersThanWorker

LostRead ==
  /\ wk_pc = "lost_read"
  /\ wk_pc' = IF app = "BRIDGE" THEN "lost_page" ELSE "idle"
  /\ UNCHANGED <<wifi_connected, wk_saw_bt, pageVars, any_saved, callbacks, lost>>
  /\ OthersThanWorker

LostPage ==
  /\ wk_pc = "lost_page"
  /\ wk_pc' = "idle"
  /\ app' = "BRIDGE_NO_WIFI"
  /\ UNCHANGED <<wifi_connected, wk_saw_bt, any_saved, callbacks, lost, overtaken>>
  /\ OthersThanWorker

\* Between links the worker shows what it is at: a cycle that starts, one that
\* failed, a list that was cleared; after a soft reset with the flag still up.
WorkerElsewhere ==
  /\ wk_pc = "idle"
  /\ \/ app' \in {"WIFI_CONNECTING", "WIFI_FAILED"} /\ UNCHANGED any_saved
     \/ app' = "NO_WIFI" /\ any_saved' = FALSE
  /\ UNCHANGED <<wkVars, callbacks, lost, overtaken>> /\ OthersThanWorker

WorkerSteps == \/ UplinkUp \/ ReadDownlink \/ WorkerPage \/ UplinkDown
               \/ LostCredentials \/ LostRead \/ LostPage

-----------------------------------------------------------------------------
(* The HTTP task: a network is added, the last one deleted, all forgotten. *)

Http ==
  /\ \/ app' = "WIFI_CONNECTING" /\ any_saved' = TRUE
     \/ UNCHANGED app /\ any_saved' = FALSE
     \/ app' = "NO_WIFI" /\ UNCHANGED any_saved
  /\ UNCHANGED <<btVars, wkVars, natVars, callbacks, lost, overtaken>>

-----------------------------------------------------------------------------
(* update_nat_lwip_ctx() on the tcpip thread; the downlink's interface     *)
(* exists from bnep_lwip_init() on.                                        *)

OthersThanTcpip == UNCHANGED <<btVars, wkVars, pageVars, any_saved, lost>>

NatCallback ==
  /\ tcpip = "idle" /\ callbacks > 0
  /\ callbacks' = callbacks - 1
  /\ tcpip' = "down"
  /\ UNCHANGED <<seen_up, nat>> /\ OthersThanTcpip

FindDownlink ==
  /\ tcpip = "down"
  /\ tcpip' = IF bt_connected THEN "up" ELSE "idle"
  /\ UNCHANGED <<seen_up, nat, callbacks>> /\ OthersThanTcpip

FindUplink ==
  /\ tcpip = "up"
  /\ tcpip' = "write"
  /\ seen_up' = wifi_connected
  /\ UNCHANGED <<nat, callbacks>> /\ OthersThanTcpip

EnableNapt ==
  /\ tcpip = "write"
  /\ tcpip' = "idle"
  /\ nat' = seen_up
  /\ UNCHANGED <<seen_up, callbacks>> /\ OthersThanTcpip

TcpipThread == NatCallback \/ FindDownlink \/ FindUplink \/ EnableNapt

-----------------------------------------------------------------------------
Init ==
  /\ bt_connected = FALSE /\ wifi_connected = FALSE
  /\ any_saved \in BOOLEAN
  /\ app = IF any_saved THEN "WAIT_BT" ELSE "NO_WIFI"
  /\ bt_pc = "idle" /\ bt_saw_wifi = FALSE
  /\ wk_pc = "idle" /\ wk_saw_bt = FALSE
  /\ callbacks = 0 /\ tcpip = "idle" /\ seen_up = FALSE /\ nat = FALSE
  /\ lost = FALSE /\ overtaken = FALSE

Next ==
  \/ ChannelOpened \/ ChannelClosed \/ BtThread
  \/ GotIp \/ LinkLost \/ WorkerElsewhere \/ WorkerSteps
  \/ Http
  \/ TcpipThread

Spec == Init /\ [][Next]_vars

\* A handler that was entered is finished, and the tcpip thread works off its
\* mailbox; links and requests come and go as they like.
FairSpec ==
  Spec /\ WF_vars(BtThread) /\ WF_vars(WorkerSteps) /\ WF_vars(TcpipThread)

-----------------------------------------------------------------------------
(* Properties.                                                             *)

TypeOK ==
  /\ bt_connected \in BOOLEAN /\ wifi_connected \in BOOLEAN
  /\ app \in AppStates /\ any_saved \in BOOLEAN
  /\ bt_pc \in BtPcs /\ bt_saw_wifi \in BOOLEAN
  /\ wk_pc \in WkPcs /\ wk_saw_bt \in BOOLEAN
  /\ callbacks \in 0..MboxSize
  /\ tcpip \in {"idle", "down", "up", "write"}
  /\ seen_up \in BOOLEAN /\ nat \in BOOLEAN
  /\ lost \in BOOLEAN /\ overtaken \in BOOLEAN

\* Someone who changed a flag has yet to post the re-evaluation.
WillPost == \/ bt_pc \in {"event", "busy", "creds", "nat"}
            \/ wk_pc \in {"nat", "lost_nat"}

\* With a client connected, NAT is what the uplink is, or a re-evaluation that
\* will see the uplink as it is now is on its way, in whatever order the links
\* change under the tcpip thread's two reads.
NatAgrees ==
  bt_connected /\ ~lost =>
    \/ tcpip = "idle" /\ nat = wifi_connected
    \/ tcpip = "write" /\ seen_up = wifi_connected
    \/ tcpip \in {"down", "up"} \/ callbacks > 0 \/ WillPost

\* The page is about to follow a link that went down ...
Closing == bt_pc \in {"closed_nat", "closed_page"}
Losing == wk_pc \in {"lost_nat", "lost_creds", "lost_read", "lost_page"}

\* ... or the second of two links that came up.
WillBridge ==
  \/ bt_pc \in {"event", "busy", "creds", "nat", "read"}
  \/ bt_pc = "page" /\ bt_saw_wifi
  \/ wk_pc \in {"nat", "read"}
  \/ wk_pc = "page" /\ wk_saw_bt

\* No lock spans the flag, the look at the other's flag and the page, and yet a
\* bridge is shown only over two links, and a wait for the phone never over two,
\* except until somebody already under way has written: however the two threads'
\* handlers cross, it takes a flag that changed between the other's look
\* (wifi_manager.c:531, bt_pan.c:266) and its writing to leave a page that is wrong.
\* Even that one does not show a bridge when the second link has gone too.
PageTrue ==
  /\ ~overtaken =>
       /\ app = "BRIDGE" => (bt_connected \/ Closing) /\ (wifi_connected \/ Losing)
       /\ app = "WAIT_BT" /\ bt_connected /\ wifi_connected => WillBridge
  /\ app = "BRIDGE" => bt_connected \/ wifi_connected \/ Closing \/ Losing

\* Links that settle are followed: NAT settles on the uplink's state.
NatFollows ==
  /\ <>[](bt_connected /\ wifi_connected /\ ~lost) => <>[]nat
  /\ <>[](bt_connected /\ ~wifi_connected /\ ~lost) => <>[]~nat
=============================================================================
