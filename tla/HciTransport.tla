--------------------------- MODULE HciTransport ---------------------------
(***************************************************************************)
(* The transport between the Bluetooth controller and the stack            *)
(* (btstack-esp32/hci_transport_esp32_vhci.c). The controller's task puts  *)
(* packets into a ring of bytes, each behind two bytes that give its       *)
(* length, and asks the main thread's run loop to come for them; the main  *)
(* thread takes them out one by one and hands them to the stack. The ring  *)
(* is used under a mutex, so a stretch that holds it is one step.          *)
(*                                                                         *)
(* The room is compared with the packet's length alone                     *)
(* (hci_transport_esp32_vhci.c:145). When the packet fits and its length   *)
(* does not fit in front of it, the ring gets the length without the       *)
(* packet.                                                                 *)
(***************************************************************************)
EXTENDS Naturals, Sequences

CONSTANTS
  RingSize,           \* sizeof(hci_ringbuffer_storage)
  Packets             \* packets of the controller: H4 type, header, data

Byte == 0..255

ASSUME HciAssumption ==
  /\ RingSize \in Nat
  /\ Packets \subseteq Seq(Byte)
  /\ \A p \in Packets : Len(p) >= 3 /\ Len(p) < 65536

VARIABLES
  ring,               \* hci_ringbuffer, the oldest byte first
  ctrl,               \* the controller's task: "idle", in host_recv_pkt_cb()
                      \*   ("wake"), in host_send_pkt_available_cb() ("notify")
  main,               \* the main thread: "loop", in transport_deliver_packets()
                      \*   ("read") or in the stack's packet handler ("handle")
  hci_receive_buffer, \* what it read last
  receive_due, sent_due, \* the two callbacks the run loop has been given
  controller,         \* "off", "ready" (initialised), "on" (enabled)
  bt_controller_initialized,
  vhci_free,          \* esp_vhci_host_check_send_available()
  reserved,           \* the stack's outgoing buffer waits for PACKET_SENT
  stored,             \* history: the packets in the ring
  torn                \* history: a length got in without its packet, and the
                      \*   ring has not been empty since

rxVars == <<ring, stored, torn>>
txVars == <<sent_due, vhci_free, reserved>>
openVars == <<controller, bt_controller_initialized>>
vars == <<rxVars, ctrl, main, hci_receive_buffer, receive_due, txVars, openVars>>

-----------------------------------------------------------------------------
(* btstack_ring_buffer: a write that does not fit does nothing, a read      *)
(* takes what there is.                                                    *)

Free(r) == RingSize - Len(r)
Written(r, bytes) == IF Free(r) < Len(bytes) THEN r ELSE r \o bytes

\* little_endian_store_16()
Tag(n) == <<n % 256, n \div 256>>
\* little_endian_read_16(); of a byte that is not there any value will do.
TagAt(r) == IF Len(r) < 2 THEN 0 ELSE r[1] + 256 * r[2]
Least(a, b) == IF a < b THEN a ELSE b
Taken(r) == Least(Len(r), 2 + TagAt(r))

\* History: `torn' ends when the ring is empty.
Track(r, packets, tear) ==
  /\ ring' = r
  /\ torn' = (tear /\ r # <<>>)
  /\ stored' = IF tear THEN <<>> ELSE packets

-----------------------------------------------------------------------------
(* The controller's task.                                                  *)

\* host_recv_pkt_cb() up to the end of its critical section. There is a
\* callback only while the controller is enabled.
HasRoom(r, p) == Free(r) >= Len(p)
TagLast(r, p) == Written(Written(r, p), Tag(Len(p)))  \* mutant: order swapped
Filled(r, p) == Written(Written(r, Tag(Len(p))), p)
Receive(p) ==
  /\ controller = "on" /\ ctrl = "idle"
  /\ IF HasRoom(ring, p)
     THEN /\ ctrl' = "wake"
          /\ Track(Filled(ring, p), Append(stored, p),
                   torn \/ Free(ring) < Len(p) + 2)
     ELSE UNCHANGED <<ctrl, rxVars>>
  /\ UNCHANGED <<main, hci_receive_buffer, receive_due, txVars, openVars>>

\* ... and its end: the run loop has the callback once, however often asked.
Wake ==
  /\ ctrl = "wake" /\ ctrl' = "idle"
  /\ receive_due' = TRUE
  /\ UNCHANGED <<rxVars, main, hci_receive_buffer, txVars, openVars>>

\* The controller has taken the packet sent to it and calls
\* host_send_pkt_available_cb().
TakeSent ==
  /\ controller = "on" /\ ctrl = "idle" /\ ~vhci_free
  /\ vhci_free' = TRUE /\ ctrl' = "notify"
  /\ UNCHANGED <<rxVars, main, hci_receive_buffer, receive_due, sent_due,
                 reserved, openVars>>
NotifyReceive ==                        \* mutant: the other registration
  /\ ctrl = "notify" /\ ctrl' = "idle"
  /\ receive_due' = TRUE
  /\ UNCHANGED <<rxVars, main, hci_receive_buffer, txVars, openVars>>
Notify ==
  /\ ctrl = "notify" /\ ctrl' = "idle"
  /\ sent_due' = TRUE
  /\ UNCHANGED <<rxVars, main, hci_receive_buffer, receive_due, vhci_free,
                 reserved, openVars>>

-----------------------------------------------------------------------------
(* The main thread.                                                        *)

\* The run loop takes a callback off its list, then calls it.
RunReceive ==
  /\ main = "loop" /\ receive_due
  /\ receive_due' = FALSE /\ main' = "read"
  /\ UNCHANGED <<rxVars, ctrl, hci_receive_buffer, txVars, openVars>>

\* One round of transport_deliver_packets() under the mutex: two bytes, then as
\* many as they say or there are. The packet is handed over without the mutex.
Deliver ==
  /\ main = "read"
  /\ IF ring = <<>>
     THEN main' = "loop" /\ UNCHANGED <<rxVars, hci_receive_buffer>>
     ELSE /\ main' = "handle"
          /\ hci_receive_buffer' = SubSeq(ring, 3, Taken(ring))
          /\ Track(SubSeq(ring, Taken(ring) + 1, Len(ring)),
                   IF stored = <<>> THEN <<>> ELSE Tail(stored), torn)
  /\ UNCHANGED <<ctrl, receive_due, txVars, openVars>>

\* The packet handler returns.
HandledOne ==                           \* mutant: one packet per callback
  /\ main = "handle" /\ main' = "loop"
  /\ UNCHANGED <<rxVars, ctrl, hci_receive_buffer, receive_due, txVars, openVars>>
Handled ==
  /\ main = "handle" /\ main' = "read"
  /\ UNCHANGED <<rxVars, ctrl, hci_receive_buffer, receive_due, txVars, openVars>>

\* transport_notify_packet_send(): the stack releases its buffer.
RunSent ==
  /\ main = "loop" /\ sent_due
  /\ sent_due' = FALSE /\ reserved' = FALSE
  /\ UNCHANGED <<rxVars, ctrl, main, hci_receive_buffer, receive_due, vhci_free,
                 openVars>>

\* The stack runs in the loop and in its packet handler.
StackRuns == main \in {"loop", "handle"}

\* transport_can_send_packet_now(), then transport_send_packet().
Send ==
  /\ StackRuns /\ controller = "on" /\ ~reserved /\ vhci_free
  /\ vhci_free' = FALSE /\ reserved' = TRUE
  /\ UNCHANGED <<rxVars, ctrl, main, hci_receive_buffer, receive_due, sent_due,
                 openVars>>

\* transport_open(): the ring is emptied before anything can fail;
\* esp_bt_controller_init() is tried once in the life of the program.
Open ==
  /\ StackRuns /\ controller # "on"
  /\ Track(<<>>, <<>>, FALSE)
  /\ bt_controller_initialized' = TRUE
  /\ \/ (~bt_controller_initialized \/ controller = "ready") /\ controller' = "on"
     \/ ~bt_controller_initialized /\ controller' \in {"off", "ready"}
     \/ bt_controller_initialized /\ UNCHANGED controller
  /\ UNCHANGED <<ctrl, main, hci_receive_buffer, receive_due, txVars>>

\* transport_close(): what the run loop has been given stays with it. The stack
\* gives its buffer up.
Close ==
  /\ StackRuns /\ controller = "on"
  /\ controller' = "ready"
  /\ vhci_free' = TRUE /\ reserved' = FALSE
  /\ UNCHANGED <<rxVars, ctrl, main, hci_receive_buffer, receive_due, sent_due,
                 bt_controller_initialized>>

-----------------------------------------------------------------------------
Init ==
  /\ ring = <<>> /\ stored = <<>> /\ torn = FALSE
  /\ ctrl = "idle" /\ main = "loop" /\ hci_receive_buffer = <<>>
  /\ receive_due = FALSE /\ sent_due = FALSE
  /\ controller = "off" /\ bt_controller_initialized = FALSE
  /\ vhci_free = TRUE /\ reserved = FALSE

CtrlStep == Wake \/ TakeSent \/ Notify
MainStep == RunReceive \/ Deliver \/ Handled

Next ==
  \/ \E p \in Packets : Receive(p)
  \/ CtrlStep \/ MainStep \/ RunSent \/ Send \/ Open \/ Close

Spec == Init /\ [][Next]_vars

\* Both tasks run, and the run loop calls every callback it was given: it goes
\* through its list in order, so neither callback keeps the other from its turn
\* (SF). Packets, sends and closes need not happen.
FairSpec == Spec /\ WF_vars(CtrlStep) /\ WF_vars(MainStep) /\ SF_vars(RunReceive)
                 /\ SF_vars(RunSent) /\ SF_vars(TakeSent)

-----------------------------------------------------------------------------
(* Properties.                                                             *)

TypeOK ==
  /\ ring \in Seq(Byte) /\ Len(ring) <= RingSize
  /\ stored \in Seq(Packets) /\ torn \in BOOLEAN
  /\ ctrl \in {"idle", "wake", "notify"} /\ main \in {"loop", "read", "handle"}
  /\ hci_receive_buffer \in Seq(Byte)
  /\ receive_due \in BOOLEAN /\ sent_due \in BOOLEAN
  /\ controller \in {"off", "ready", "on"}
  /\ bt_controller_initialized \in BOOLEAN
  /\ vhci_free \in BOOLEAN /\ reserved \in BOOLEAN

\* No wakeup is lost: whenever the ring holds bytes somebody is on the way to
\* read them, or is about to ask for it, though callbacks that are asked for
\* twice run once and packets come in while others are handed over.
NoLostWakeup ==
  ring # <<>> => receive_due \/ ctrl = "wake" \/ main \in {"read", "handle"}

\* The stack never waits for a PACKET_SENT that nobody will bring.
NoSentLost == reserved => ~vhci_free \/ ctrl = "notify" \/ sent_due

\* Whatever is sent is reported to the stack, as long as packets do not come in
\* faster than they are handled for ever: transport_deliver_packets() goes on
\* as long as there is one, and the run loop waits.
SentIsReported == []<>(main = "loop") => (reserved ~> ~reserved)

\* The stack gets the packets the ring took in, whole and in order, unless a
\* length got in without its packet; and that spoils no more than what comes in
\* until the ring is empty.
Channel == INSTANCE PacketChannel
             WITH waiting <- stored, broken <- torn,
                  handed <- IF main = "handle" THEN hci_receive_buffer ELSE <<>>
ImplementsChannel == Channel!Spec

\* The transport in order, in parts: types and the ring's room, wakeups, and the
\* notifications of what was sent.
Safety ==
  /\ TypeOK /\ NoLostWakeup /\ NoSentLost
=============================================================================
