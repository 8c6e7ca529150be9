------------------------------- MODULE BtPan -------------------------------
(***************************************************************************)
(* The Bluetooth PAN service of satura-bridge (main/bt_pan.c): which phone *)
(* is connected, when the device can be found, the pause before it can be  *)
(* found again, and the signal strength polled for the watchdog.           *)
(*                                                                         *)
(* The HCI and BNEP handlers and the callbacks posted with                 *)
(* btstack_run_loop_execute_on_main_thread() run on the BTstack thread,    *)
(* one at a time; the one-shot timer fires on the esp_timer task and the   *)
(* poll is asked for by the watchdog. A connection handle is named by the  *)
(* phone it belongs to.                                                    *)
(***************************************************************************)
EXTENDS Naturals, FiniteSets

CONSTANTS
  Clients,      \* the phones around
  None,         \* HCI_CON_HANDLE_INVALID, and "no measurement"
  MaxTimers     \* how many esp_timer objects fit in the heap

ASSUME BtPanAssumption == None \notin Clients /\ MaxTimers \in Nat

VARIABLES
  bt_connected,       \* app_state.c, written here only
  bt_handle,
  visible,            \* discoverable and connectable
  bt_reopen_running,
  armed,              \* one-shot timers that have not fired
  timers,             \* timer objects created; none is ever deleted
  reopen_queued,      \* bt_reopen_cb_reg is in the run loop's list
  rssi_poll_pending,
  rssi_queued,        \* rssi_cb_reg is in the run loop's list
  asked,              \* phones whose signal strength the controller was asked
  bt_rssi,            \* whose measurement the pages show
  link,               \* link[c]: "none", "acl" (no channel), "open", "leaving"
  lapses              \* history: "second_client", "no_timer"

reopenVars == <<bt_reopen_running, armed, timers>>
rssiVars == <<rssi_poll_pending, rssi_queued, asked>>
vars == <<bt_connected, bt_handle, visible, reopenVars, reopen_queued,
          rssiVars, bt_rssi, link, lapses>>

-----------------------------------------------------------------------------
\* bt_schedule_reopen(): every call creates a timer, and none is deleted; when
\* no more fit, the guard is taken back.
ReopenAtOnce ==                               \* mutant: no pause
  visible' = TRUE /\ UNCHANGED <<reopenVars, lapses>>
ScheduleReopen ==
  /\ \/ /\ timers < MaxTimers
        /\ timers' = timers + 1
        /\ armed' = armed + 1
        /\ bt_reopen_running' = TRUE
        /\ UNCHANGED lapses
     \/ /\ timers >= MaxTimers
        /\ bt_reopen_running' = FALSE
        /\ lapses' = lapses \cup {"no_timer"}
        /\ UNCHANGED <<timers, armed>>
  /\ UNCHANGED visible

\* The part the two handlers share: forget the handle, ask for a reopening
\* unless one is under way.
Already == bt_reopen_running
ForgetHandle == bt_handle' = None
ReleaseHandle ==
  /\ ForgetHandle
  /\ \/ Already /\ UNCHANGED <<visible, reopenVars, lapses>>
     \/ ~Already /\ ScheduleReopen

\* The controller accepts a phone while the device is connectable.
AclUp(c) ==
  /\ link[c] = "none" /\ visible
  /\ link' = [link EXCEPT ![c] = "acl"]
  /\ UNCHANGED <<bt_connected, bt_handle, visible, reopenVars, reopen_queued,
                 rssiVars, bt_rssi, lapses>>

\* HCI_EVENT_DISCONNECTION_COMPLETE of a phone that has no channel.
AclDown(c) ==
  /\ link[c] = "acl"
  /\ link' = [link EXCEPT ![c] = "none"]
  /\ IF ~bt_connected /\ bt_handle = c
     THEN ReleaseHandle
     ELSE UNCHANGED <<bt_handle, visible, reopenVars, lapses>>
  /\ UNCHANGED <<bt_connected, reopen_queued, rssiVars, bt_rssi>>

\* BNEP_EVENT_CHANNEL_OPENED, status 0. A second phone is sent away; its
\* channel closes later.
AcceptAnyway(c) ==                            \* mutant: no test for a client
  /\ link[c] = "acl"
  /\ link' = [link EXCEPT ![c] = "open"]
  /\ bt_connected' = TRUE /\ bt_handle' = c /\ visible' = FALSE
  /\ UNCHANGED <<reopenVars, reopen_queued, rssiVars, bt_rssi, lapses>>
ChannelOpened(c) ==
  /\ link[c] = "acl"
  /\ \/ /\ bt_connected
        /\ link' = [link EXCEPT ![c] = "leaving"]
        /\ lapses' = lapses \cup {"second_client"}
        /\ UNCHANGED <<bt_connected, bt_handle, visible>>
     \/ /\ ~bt_connected
        /\ link' = [link EXCEPT ![c] = "open"]
        /\ bt_connected' = TRUE
        /\ bt_handle' = c
        /\ visible' = FALSE
        /\ UNCHANGED lapses
  /\ UNCHANGED <<reopenVars, reopen_queued, rssiVars, bt_rssi>>

\* BNEP_EVENT_CHANNEL_CLOSED. The radio link may go down with the channel: the
\* DISCONNECTION_COMPLETE of the same packet then finds bt_connected set (when
\* it is handled first) or the handle gone (when last) and does nothing.
ForgetRssi == bt_rssi' = None
ChannelClosed(c) ==
  /\ link[c] \in {"open", "leaving"}
  /\ \E l \in {"none", "acl"} : link' = [link EXCEPT ![c] = l]
  /\ bt_connected' = FALSE
  /\ ForgetRssi
  /\ ReleaseHandle
  /\ UNCHANGED <<reopen_queued, rssiVars>>

\* bt_reopen_timer_cb(), on the esp_timer task.
TimerFires ==
  /\ armed > 0
  /\ armed' = armed - 1
  /\ reopen_queued' = TRUE
  /\ UNCHANGED <<bt_connected, bt_handle, visible, bt_reopen_running, timers,
                 rssiVars, bt_rssi, link, lapses>>

\* bt_reopen_main_cb()
ShowAlways == visible' = TRUE                 \* mutant: no test for a client
ShowInverted == visible' = (visible \/ bt_connected) \* mutant: wrong way round
ShowUnlessConnected == visible' = (visible \/ ~bt_connected)
KeepGuard == UNCHANGED bt_reopen_running      \* mutant: never given back
GiveGuardBack == bt_reopen_running' = FALSE
ReopenMainCb ==
  /\ reopen_queued
  /\ reopen_queued' = FALSE
  /\ ShowUnlessConnected
  /\ GiveGuardBack
  /\ UNCHANGED <<bt_connected, bt_handle, armed, timers, rssiVars, bt_rssi,
                 link, lapses>>

\* bt_pan_request_rssi_poll(), on the watchdog task.
RequestRssiPoll ==
  /\ ~rssi_poll_pending
  /\ rssi_poll_pending' = TRUE
  /\ rssi_queued' = TRUE
  /\ UNCHANGED <<bt_connected, bt_handle, visible, reopenVars, reopen_queued,
                 asked, bt_rssi, link, lapses>>

\* rssi_poll_cb()
RssiPollCb ==
  /\ rssi_queued
  /\ rssi_queued' = FALSE
  /\ rssi_poll_pending' = FALSE
  /\ asked' = asked \cup ({bt_handle} \ {None})
  /\ UNCHANGED <<bt_connected, bt_handle, visible, reopenVars, reopen_queued,
                 bt_rssi, link, lapses>>

\* GAP_EVENT_RSSI_MEASUREMENT; a measurement of 0 dBm is not kept.
RssiMeasured(c) ==
  /\ c \in asked
  /\ asked' = asked \ {c}
  /\ bt_rssi' \in IF c = bt_handle THEN {c, bt_rssi} ELSE {bt_rssi}
  /\ UNCHANGED <<bt_connected, bt_handle, visible, reopenVars, reopen_queued,
                 rssi_poll_pending, rssi_queued, link, lapses>>

\* bt_pan_init()
Init ==
  /\ bt_connected = FALSE /\ bt_handle = None /\ visible = TRUE
  /\ bt_reopen_running = FALSE /\ armed = 0 /\ timers = 0
  /\ reopen_queued = FALSE
  /\ rssi_poll_pending = FALSE /\ rssi_queued = FALSE /\ asked = {}
  /\ bt_rssi = None
  /\ link = [c \in Clients |-> "none"]
  /\ lapses = {}

Next ==
  \/ \E c \in Clients : \/ AclUp(c) \/ AclDown(c) \/ ChannelOpened(c)
                        \/ ChannelClosed(c) \/ RssiMeasured(c)
  \/ TimerFires \/ ReopenMainCb \/ RequestRssiPoll \/ RssiPollCb

Spec == Init /\ [][Next]_vars

\* Timers fire, and the BTstack thread gets to the callbacks posted to it.
FairSpec == Spec /\ WF_vars(TimerFires) /\ WF_vars(ReopenMainCb)

-----------------------------------------------------------------------------
(* Properties.                                                             *)

TypeOK ==
  /\ bt_connected \in BOOLEAN /\ visible \in BOOLEAN
  /\ bt_handle \in Clients \cup {None}
  /\ bt_reopen_running \in BOOLEAN /\ reopen_queued \in BOOLEAN
  /\ armed \in 0..1 /\ timers \in 0..MaxTimers
  /\ rssi_poll_pending \in BOOLEAN /\ rssi_queued \in BOOLEAN
  /\ asked \in SUBSET Clients
  /\ bt_rssi \in Clients \cup {None}
  /\ link \in [Clients -> {"none", "acl", "open", "leaving"}]
  /\ lapses \in SUBSET {"second_client", "no_timer"}

\* The device believes in a phone only while that phone's channel is open, and
\* it holds a handle exactly while it believes in one: the recovery branch of
\* the disconnection handler (bt_pan.c:194) can never be taken.
ServesOpenChannel ==
  /\ bt_connected <=> bt_handle # None
  /\ bt_connected => link[bt_handle] = "open"

\* Until a second phone was sent away, an open channel is the one believed in
\* and no channel is being closed from this side.
OpenChannelServed ==
  "second_client" \notin lapses =>
    \A c \in Clients : /\ link[c] = "open" => bt_handle = c
                       /\ link[c] # "leaving"

\* bt_reopen_running is taken exactly while one reopening is on its way, from
\* the timer to the callback: a bouncing link piles up neither.
OneReopening ==
  armed + (IF reopen_queued THEN 1 ELSE 0) = IF bt_reopen_running THEN 1 ELSE 0

\* Nobody connected: the device can be found or is going to be.
VisibleOrReopening ==
  bt_connected \/ visible \/ bt_reopen_running \/ "no_timer" \in lapses

\* A phone is connected: no other can find the device.
HiddenWhileServing == bt_connected => ~visible

\* The signal strength shown is that of the phone that is connected, also when
\* the answer to a poll comes after that phone has gone.
RssiIsCurrent == bt_rssi = None \/ bt_rssi = bt_handle

status == IF bt_connected THEN "serving"
          ELSE IF visible THEN "visible" ELSE "pausing"

\* To a phone that looks for it the device behaves as Presence says.
P == INSTANCE Presence WITH status <- status
ImplementsPresence == P!Spec

\* After every client the device can be found again, unless the heap had no
\* room left for another timer.
VisibleAgain ==
  ~bt_connected ~> visible \/ bt_connected \/ "no_timer" \in lapses

\* The link in order, in parts: types, the channel behind the handle, one
\* reopening at a time, visibility beside a client, the signal strength.
Safety ==
  /\ TypeOK /\ ServesOpenChannel /\ OneReopening /\ HiddenWhileServing
  /\ RssiIsCurrent
=============================================================================
