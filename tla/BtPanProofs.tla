---------------------------- MODULE BtPanProofs ----------------------------
(***************************************************************************)
(* Proofs about BtPan, for any set of phones and any number of timers: the *)
(* inductive invariant, and that the service implements Presence.          *)
(***************************************************************************)
EXTENDS BtPan, TLAPS

\* The types without the bound on armed, which follows from OneReopening.
Types ==
  /\ bt_connected \in BOOLEAN /\ visible \in BOOLEAN
  /\ bt_handle \in Clients \cup {None}
  /\ bt_reopen_running \in BOOLEAN /\ reopen_queued \in BOOLEAN
  /\ armed \in Nat /\ timers \in 0..MaxTimers
  /\ rssi_poll_pending \in BOOLEAN /\ rssi_queued \in BOOLEAN
  /\ asked \in SUBSET Clients
  /\ bt_rssi \in Clients \cup {None}
  /\ link \in [Clients -> {"none", "acl", "open", "leaving"}]
  /\ lapses \in SUBSET {"second_client", "no_timer"}

IInv ==
  /\ Types
  /\ ServesOpenChannel
  /\ OpenChannelServed
  /\ OneReopening
  /\ VisibleOrReopening
  /\ HiddenWhileServing
  /\ RssiIsCurrent

-----------------------------------------------------------------------------
(* What the steps have in common.                                          *)

\* Letting a phone go keeps the types of what it touches and leaves a
\* reopening behind, unless no timer could be had.
LEMMA ReleaseType ==
  ASSUME Types, ReleaseHandle
  PROVE  /\ bt_handle' = None /\ visible' = visible
         /\ bt_reopen_running' \in BOOLEAN
         /\ armed' \in Nat
         /\ timers' \in 0..MaxTimers
         /\ lapses' \in {lapses, lapses \cup {"no_timer"}}
         /\ bt_reopen_running' \/ "no_timer" \in lapses'
<1>1. CASE Already /\ UNCHANGED <<visible, reopenVars, lapses>>
  BY <1>1 DEF Types, Already, ReleaseHandle, ForgetHandle, reopenVars
<1>2. CASE ~Already /\ ScheduleReopen
  <2>1. timers' \in 0..MaxTimers /\ armed' \in Nat
    BY <1>2, BtPanAssumption DEF Types, ScheduleReopen
  <2>2. bt_reopen_running' \in BOOLEAN
    BY <1>2 DEF ScheduleReopen
  <2> QED BY <1>2, <2>1, <2>2 DEF ReleaseHandle, ForgetHandle, ScheduleReopen
<1> QED BY <1>1, <1>2 DEF ReleaseHandle

\* It arms one timer when none is on its way, and none otherwise.
LEMMA ReleaseOnce ==
  ASSUME Types, OneReopening, ReleaseHandle, UNCHANGED reopen_queued
  PROVE  OneReopening'
<1>1. CASE Already /\ UNCHANGED <<visible, reopenVars, lapses>>
  BY <1>1 DEF OneReopening, reopenVars
<1>2. CASE ~Already /\ ScheduleReopen
  BY <1>2 DEF Types, OneReopening, Already, ScheduleReopen
<1> QED BY <1>1, <1>2 DEF ReleaseHandle

\* The recovery branch of the disconnection handler is dead.
LEMMA AclDownQuiet ==
  ASSUME Types, ServesOpenChannel, NEW c \in Clients, AclDown(c)
  PROVE  /\ link' = [link EXCEPT ![c] = "none"]
         /\ UNCHANGED <<bt_connected, bt_handle, visible, bt_reopen_running,
                        armed, timers, reopen_queued, rssi_poll_pending,
                        rssi_queued, asked, bt_rssi, lapses>>
<1>1. ~(~bt_connected /\ bt_handle = c)
  BY BtPanAssumption DEF ServesOpenChannel
<1> QED BY <1>1 DEF AclDown, reopenVars, rssiVars

-----------------------------------------------------------------------------
LEMMA TypesStep ==
  ASSUME Types, ServesOpenChannel, Next
  PROVE  Types'
<1>1. ASSUME NEW c \in Clients, AclUp(c) \/ ChannelOpened(c)
      PROVE  Types'
  BY <1>1 DEF Types, AclUp, ChannelOpened, reopenVars, rssiVars
<1>2. ASSUME NEW c \in Clients, AclDown(c)
      PROVE  Types'
  BY <1>2, AclDownQuiet DEF Types
<1>3. ASSUME NEW c \in Clients, ChannelClosed(c)
      PROVE  Types'
  <2>1. link' \in [Clients -> {"none", "acl", "open", "leaving"}]
    BY <1>3 DEF ChannelClosed, Types
  <2>2. lapses' \in SUBSET {"second_client", "no_timer"}
    BY <1>3, ReleaseType DEF ChannelClosed, Types
  <2>3. bt_rssi' = None /\ bt_connected' = FALSE
    BY <1>3 DEF ChannelClosed, ForgetRssi
  <2>4. UNCHANGED <<reopen_queued, rssi_poll_pending, rssi_queued, asked>>
    BY <1>3 DEF ChannelClosed, rssiVars
  <2>5. ReleaseHandle
    BY <1>3 DEF ChannelClosed
  <2> QED BY <2>1, <2>2, <2>3, <2>4, <2>5, ReleaseType DEF Types
<1>4. ASSUME NEW c \in Clients, RssiMeasured(c)
      PROVE  Types'
  BY <1>4 DEF Types, RssiMeasured, reopenVars
<1>5. CASE TimerFires
  BY <1>5 DEF Types, TimerFires, rssiVars
<1>6. CASE ReopenMainCb
  BY <1>6 DEF Types, ReopenMainCb, ShowUnlessConnected, GiveGuardBack, rssiVars
<1>7. CASE RequestRssiPoll \/ RssiPollCb
  BY <1>7 DEF Types, RequestRssiPoll, RssiPollCb, reopenVars
<1> QED BY <1>1, <1>2, <1>3, <1>4, <1>5, <1>6, <1>7 DEF Next

\* Whom the device serves.
LEMMA ServingStep ==
  ASSUME Types, ServesOpenChannel, OpenChannelServed, Next
  PROVE  ServesOpenChannel' /\ OpenChannelServed'
<1> USE BtPanAssumption DEF ServesOpenChannel, OpenChannelServed, Types
<1>1. ASSUME NEW c \in Clients, AclUp(c)
      PROVE  ServesOpenChannel' /\ OpenChannelServed'
  BY <1>1 DEF AclUp
<1>2. ASSUME NEW c \in Clients, AclDown(c)
      PROVE  ServesOpenChannel' /\ OpenChannelServed'
  <2>1. link[c] = "acl"
    BY <1>2 DEF AclDown
  <2> QED BY <1>2, <2>1, AclDownQuiet
<1>3. ASSUME NEW c \in Clients, ChannelOpened(c)
      PROVE  ServesOpenChannel' /\ OpenChannelServed'
  BY <1>3 DEF ChannelOpened
<1>4. ASSUME NEW c \in Clients, ChannelClosed(c)
      PROVE  ServesOpenChannel' /\ OpenChannelServed'
  <2>1. bt_connected' = FALSE /\ bt_handle' = None
        /\ lapses \subseteq lapses'
    BY <1>4, ReleaseType DEF ChannelClosed
  <2>2. PICK l \in {"none", "acl"} : link' = [link EXCEPT ![c] = l]
    BY <1>4 DEF ChannelClosed
  <2>3. link[c] \in {"open", "leaving"}
    BY <1>4 DEF ChannelClosed
  <2>4. ServesOpenChannel'
    BY <2>1
  <2>5. OpenChannelServed'
    <3> SUFFICES ASSUME "second_client" \notin lapses', NEW d \in Clients
                 PROVE  link'[d] # "open" /\ link'[d] # "leaving"
      BY <2>1
    <3>1. bt_handle = c /\ link[c] = "open"
      BY <2>1, <2>3
    <3>2. CASE d = c
      BY <2>2, <3>2
    <3>3. CASE d # c
      BY <2>1, <2>2, <3>1, <3>3
    <3> QED BY <3>2, <3>3
  <2> QED BY <2>4, <2>5
<1>5. ASSUME NEW c \in Clients, RssiMeasured(c)
      PROVE  ServesOpenChannel' /\ OpenChannelServed'
  BY <1>5 DEF RssiMeasured
<1>6. CASE TimerFires \/ ReopenMainCb \/ RequestRssiPoll \/ RssiPollCb
  BY <1>6 DEF TimerFires, ReopenMainCb, RequestRssiPoll, RssiPollCb
<1> QED BY <1>1, <1>2, <1>3, <1>4, <1>5, <1>6 DEF Next

\* When the device can be found.
LEMMA VisibilityStep ==
  ASSUME Types, ServesOpenChannel, VisibleOrReopening, HiddenWhileServing, Next
  PROVE  VisibleOrReopening' /\ HiddenWhileServing'
<1> USE DEF VisibleOrReopening, HiddenWhileServing, Types
<1>1. ASSUME NEW c \in Clients, AclUp(c) \/ ChannelOpened(c) \/ RssiMeasured(c)
      PROVE  VisibleOrReopening' /\ HiddenWhileServing'
  BY <1>1 DEF AclUp, ChannelOpened, RssiMeasured, reopenVars
<1>2. ASSUME NEW c \in Clients, AclDown(c)
      PROVE  VisibleOrReopening' /\ HiddenWhileServing'
  BY <1>2, AclDownQuiet
<1>3. ASSUME NEW c \in Clients, ChannelClosed(c)
      PROVE  VisibleOrReopening' /\ HiddenWhileServing'
  BY <1>3, ReleaseType DEF ChannelClosed
<1>4. CASE ReopenMainCb
  BY <1>4 DEF ReopenMainCb, ShowUnlessConnected
<1>5. CASE TimerFires \/ RequestRssiPoll \/ RssiPollCb
  BY <1>5 DEF TimerFires, RequestRssiPoll, RssiPollCb, reopenVars
<1> QED BY <1>1, <1>2, <1>3, <1>4, <1>5 DEF Next

LEMMA ReopeningStep ==
  ASSUME Types, ServesOpenChannel, OneReopening, Next
  PROVE  OneReopening'
<1>1. ASSUME NEW c \in Clients, AclUp(c) \/ ChannelOpened(c) \/ RssiMeasured(c)
      PROVE  OneReopening'
  BY <1>1 DEF OneReopening, AclUp, ChannelOpened, RssiMeasured, reopenVars
<1>2. ASSUME NEW c \in Clients, AclDown(c)
      PROVE  OneReopening'
  BY <1>2, AclDownQuiet DEF OneReopening
<1>3. ASSUME NEW c \in Clients, ChannelClosed(c)
      PROVE  OneReopening'
  BY <1>3, ReleaseOnce DEF ChannelClosed
<1>4. CASE TimerFires
  BY <1>4 DEF OneReopening, Types, TimerFires
<1>5. CASE ReopenMainCb
  BY <1>5 DEF OneReopening, Types, ReopenMainCb, GiveGuardBack
<1>6. CASE RequestRssiPoll \/ RssiPollCb
  BY <1>6 DEF OneReopening, RequestRssiPoll, RssiPollCb, reopenVars
<1> QED BY <1>1, <1>2, <1>3, <1>4, <1>5, <1>6 DEF Next

LEMMA RssiStep ==
  ASSUME Types, ServesOpenChannel, RssiIsCurrent, Next
  PROVE  RssiIsCurrent'
<1>1. ASSUME NEW c \in Clients, AclUp(c) \/ ChannelOpened(c) \/ RssiMeasured(c)
      PROVE  RssiIsCurrent'
  BY <1>1, BtPanAssumption
  DEF RssiIsCurrent, ServesOpenChannel, AclUp, ChannelOpened, RssiMeasured
<1>2. ASSUME NEW c \in Clients, AclDown(c)
      PROVE  RssiIsCurrent'
  BY <1>2, AclDownQuiet DEF RssiIsCurrent
<1>3. ASSUME NEW c \in Clients, ChannelClosed(c)
      PROVE  RssiIsCurrent'
  BY <1>3 DEF RssiIsCurrent, ChannelClosed, ForgetRssi
<1>4. CASE TimerFires \/ ReopenMainCb \/ RequestRssiPoll \/ RssiPollCb
  BY <1>4 DEF RssiIsCurrent, TimerFires, ReopenMainCb, RequestRssiPoll, RssiPollCb
<1> QED BY <1>1, <1>2, <1>3, <1>4 DEF Next

-----------------------------------------------------------------------------
LEMMA IInvInit == Init => IInv
<1> SUFFICES ASSUME Init PROVE IInv
  OBVIOUS
<1>1. Types
  <2>1. timers \in 0..MaxTimers /\ armed \in Nat
    BY BtPanAssumption DEF Init
  <2>2. link \in [Clients -> {"none", "acl", "open", "leaving"}]
    BY DEF Init
  <2>3. asked \in SUBSET Clients /\ lapses \in SUBSET {"second_client", "no_timer"}
    BY DEF Init
  <2> QED BY <2>1, <2>2, <2>3 DEF Init, Types
<1>2. ServesOpenChannel /\ OpenChannelServed
  BY <1>1 DEF Init, ServesOpenChannel, OpenChannelServed
<1>3. OneReopening
  BY DEF Init, OneReopening
<1>4. VisibleOrReopening /\ HiddenWhileServing /\ RssiIsCurrent
  BY DEF Init, VisibleOrReopening, HiddenWhileServing, RssiIsCurrent
<1> QED BY <1>1, <1>2, <1>3, <1>4 DEF IInv

LEMMA IInvStep == IInv /\ [Next]_vars => IInv'
<1> SUFFICES ASSUME IInv, [Next]_vars PROVE IInv'
  OBVIOUS
<1>1. CASE Next
  BY <1>1, TypesStep, ServingStep, VisibilityStep, ReopeningStep, RssiStep DEF IInv
<1>2. CASE UNCHANGED vars
  BY <1>2 DEF vars, reopenVars, rssiVars, IInv, Types, ServesOpenChannel,
              OpenChannelServed, OneReopening, VisibleOrReopening,
              HiddenWhileServing, RssiIsCurrent
<1> QED BY <1>1, <1>2

LEMMA Invariance == Spec => []IInv
  BY IInvInit, IInvStep, PTL DEF Spec

\* The types, and never more than one armed timer.
THEOREM TypeCorrect == Spec => []TypeOK
<1>1. IInv => TypeOK
  BY DEF IInv, Types, TypeOK, OneReopening
<1> QED BY Invariance, <1>1, PTL

\* A handle is held exactly while a phone is connected, and that phone's
\* channel is open: no event of another phone can be taken for it.
THEOREM ServingCorrect == Spec => []ServesOpenChannel
<1>1. IInv => ServesOpenChannel
  BY DEF IInv
<1> QED BY Invariance, <1>1, PTL

\* Until a second phone has been sent away, no channel is open but the one
\* served.
THEOREM ChannelCorrect == Spec => []OpenChannelServed
<1>1. IInv => OpenChannelServed
  BY DEF IInv
<1> QED BY Invariance, <1>1, PTL

\* No reopening makes the device visible beside a client.
THEOREM HiddenCorrect == Spec => []HiddenWhileServing
<1>1. IInv => HiddenWhileServing
  BY DEF IInv
<1> QED BY Invariance, <1>1, PTL

\* bt_reopen_running lets through one reopening at a time and never sticks.
THEOREM ReopeningCorrect == Spec => []OneReopening
<1>1. IInv => OneReopening
  BY DEF IInv
<1> QED BY Invariance, <1>1, PTL

\* Nobody connected: visible, or about to be.
THEOREM VisibleCorrect == Spec => []VisibleOrReopening
<1>1. IInv => VisibleOrReopening
  BY DEF IInv
<1> QED BY Invariance, <1>1, PTL

\* A measurement that comes late is never shown for another phone.
THEOREM RssiCorrect == Spec => []RssiIsCurrent
<1>1. IInv => RssiIsCurrent
  BY DEF IInv
<1> QED BY Invariance, <1>1, PTL

\* ... and so the parts of the link's order hold together, for any phones.
THEOREM SafetyCorrect == Spec => []Safety
  BY TypeCorrect, ServingCorrect, ReopeningCorrect, HiddenCorrect, RssiCorrect,
     PTL DEF Safety

-----------------------------------------------------------------------------
(* Implementation of Presence.                                             *)

LEMMA PresenceStep ==
  ASSUME IInv, Next
  PROVE  [P!Next]_status
<1> USE DEF P!Next, P!Serve, P!Release, P!Reappear, status
<1>1. ASSUME NEW c \in Clients, AclUp(c) \/ RssiMeasured(c)
      PROVE  [P!Next]_status
  BY <1>1 DEF AclUp, RssiMeasured
<1>2. ASSUME NEW c \in Clients, ChannelOpened(c)
      PROVE  [P!Next]_status
  BY <1>2 DEF ChannelOpened
<1>3. ASSUME NEW c \in Clients, AclDown(c)
      PROVE  [P!Next]_status
  BY <1>3, AclDownQuiet DEF IInv
<1>4. ASSUME NEW c \in Clients, ChannelClosed(c)
      PROVE  [P!Next]_status
  BY <1>4, ReleaseType DEF ChannelClosed, IInv, HiddenWhileServing
<1>5. CASE ReopenMainCb
  BY <1>5 DEF ReopenMainCb, ShowUnlessConnected
<1>6. CASE TimerFires \/ RequestRssiPoll \/ RssiPollCb
  BY <1>6 DEF TimerFires, RequestRssiPoll, RssiPollCb
<1> QED BY <1>1, <1>2, <1>3, <1>4, <1>5, <1>6 DEF Next

\* Phones see the device behave as Presence: found, busy, pausing, found.
THEOREM PresenceCorrect == Spec => ImplementsPresence
<1>1. Init => P!Init
  BY DEF Init, P!Init, status
<1>2. IInv /\ [Next]_vars => [P!Next]_status
  <2>1. ASSUME UNCHANGED vars PROVE UNCHANGED status
    BY <2>1 DEF vars, status
  <2> QED BY <2>1, PresenceStep
<1> QED BY Invariance, <1>1, <1>2, PTL DEF Spec, P!Spec, ImplementsPresence
=============================================================================
