------------------------- MODULE HciTransportProofs -------------------------
(***************************************************************************)
(* Proofs about HciTransport, for any size of the ring and any packets: no *)
(* wakeup and no notification is lost, and the transport implements        *)
(* PacketChannel. The latter rests on how the bytes of the ring are framed: *)
(* there are offsets at which the packets in it begin.                     *)
(***************************************************************************)
EXTENDS HciTransport, SequenceTheorems, TLAPS

\* Packet p is in the ring r, a bytes from its end: its length and itself.
FrameAt(r, a, p) ==
  /\ r[a + 1] = Len(p) % 256
  /\ r[a + 2] = Len(p) \div 256
  /\ \A k \in 1..Len(p) : r[a + 2 + k] = p[k]

\* off[i] bytes of r are in front of packet i of s, and there is nothing else in r.
Framing(off, r, s) ==
  /\ off \in [1..(Len(s) + 1) -> Nat]
  /\ off[1] = 0 /\ off[Len(s) + 1] = Len(r)
  /\ \A i, j \in 1..(Len(s) + 1) : i <= j => off[i] <= off[j]
  /\ \A i \in 1..Len(s) : off[i + 1] = off[i] + 2 + Len(s[i])
  /\ \A i \in 1..Len(s) : FrameAt(r, off[i], s[i])

Framed == ~torn => \E off : Framing(off, ring, stored)

IInv == Safety /\ Framed

-----------------------------------------------------------------------------
(* The ring of bytes.                                                      *)

LEMMA ByteIs ==
  ASSUME NEW b \in Byte
  PROVE  b \in Nat
BY DEF Byte

LEMMA AppendIs ==
  ASSUME NEW s \in Seq(Packets), NEW p \in Packets
  PROVE  Append(s, p) \in Seq(Packets)
OBVIOUS

LEMMA TailIs ==
  ASSUME NEW s \in Seq(Packets), s # <<>>
  PROVE  Tail(s) \in Seq(Packets)
OBVIOUS

LEMMA PacketIs ==
  ASSUME NEW p \in Packets
  PROVE  p \in Seq(Byte) /\ Len(p) \in Nat /\ Len(p) >= 3 /\ Len(p) < 65536
BY HciAssumption

LEMMA TagIs ==
  ASSUME NEW n \in Nat, n < 65536
  PROVE  /\ Tag(n) \in Seq(Byte) /\ Len(Tag(n)) = 2
         /\ Tag(n)[1] = n % 256 /\ Tag(n)[2] = n \div 256
         /\ n = (n % 256) + 256 * (n \div 256)
<1>1. n % 256 \in Byte /\ n \div 256 \in Byte /\ n = (n % 256) + 256 * (n \div 256)
  BY DEF Byte
<1> QED BY <1>1 DEF Tag

LEMMA WrittenIs ==
  ASSUME NEW r \in Seq(Byte), NEW b \in Seq(Byte), Len(r) <= RingSize
  PROVE  /\ Written(r, b) \in Seq(Byte)
         /\ Len(Written(r, b)) <= RingSize /\ Len(Written(r, b)) >= Len(r)
         /\ Free(r) >= Len(b) => Written(r, b) = r \o b
<1>1. CASE Free(r) < Len(b)
  BY <1>1, HciAssumption DEF Written, Free
<1>2. CASE ~(Free(r) < Len(b))
  <2>1. Written(r, b) = r \o b
    BY <1>2 DEF Written
  <2>2. r \o b \in Seq(Byte) /\ Len(r \o b) = Len(r) + Len(b)
    BY ConcatProperties
  <2>3. Len(r \o b) <= RingSize
    BY <1>2, <2>2, HciAssumption DEF Free
  <2> QED BY <2>1, <2>2, <2>3
<1> QED BY <1>1, <1>2

LEMMA FilledIs ==
  ASSUME NEW r \in Seq(Byte), Len(r) <= RingSize, NEW p \in Packets, HasRoom(r, p)
  PROVE  /\ Filled(r, p) \in Seq(Byte) /\ Len(Filled(r, p)) <= RingSize
         /\ Filled(r, p) # <<>>
         /\ Free(r) >= Len(p) + 2 => Filled(r, p) = (r \o Tag(Len(p))) \o p
<1>1. p \in Seq(Byte) /\ Len(p) \in Nat /\ Len(p) >= 3 /\ Len(p) < 65536
  BY PacketIs
<1>2. PICK t : t = Tag(Len(p))
  OBVIOUS
<1>3. t \in Seq(Byte) /\ Len(t) = 2
  BY <1>1, <1>2, TagIs
<1>4. PICK w : w = Written(r, t)
  OBVIOUS
<1>5. Len(r) \in Nat /\ RingSize \in Nat /\ Free(r) = RingSize - Len(r)
  BY LenProperties, HciAssumption DEF Free
<1>6. Free(r) >= Len(p) /\ Free(r) >= Len(t)
  BY <1>1, <1>3, <1>5 DEF HasRoom
<1>7. w \in Seq(Byte) /\ Len(w) <= RingSize /\ w = r \o t
  BY <1>3, <1>4, <1>6, WrittenIs
<1>8. Len(w) = Len(r) + 2
  <2>1. Len(w) = Len(r) + Len(t)
    BY <1>3, <1>7, ConcatProperties
  <2> QED BY <1>3, <2>1
<1>9. PICK f : f = Written(w, p)
  OBVIOUS
<1>10. /\ f \in Seq(Byte) /\ Len(f) <= RingSize /\ Len(f) >= Len(w)
       /\ Free(w) >= Len(p) => f = w \o p
  <2>1. p \in Seq(Byte) /\ w \in Seq(Byte) /\ Len(w) <= RingSize
    BY <1>1, <1>7
  <2> QED BY <1>9, <2>1, WrittenIs
<1>11. f # <<>>
  <2>1. Len(f) # 0
    BY <1>5, <1>8, <1>10
  <2> QED BY <2>1, EmptySeq
<1>12. Free(r) >= Len(p) + 2 => Free(w) >= Len(p)
  BY <1>1, <1>5, <1>8 DEF Free
<1>13. Filled(r, p) = f
  BY <1>2, <1>4, <1>9 DEF Filled
<1>14. Free(r) >= Len(p) + 2 => f = (r \o t) \o p
  BY <1>7, <1>10, <1>12
<1> QED BY <1>2, <1>10, <1>11, <1>13, <1>14

LEMMA TakenIs ==
  ASSUME NEW r \in Seq(Byte), r # <<>>
  PROVE  Taken(r) \in 1..Len(r)
<1>1. TagAt(r) \in Nat
  <2>1. CASE Len(r) < 2
    BY <2>1 DEF TagAt
  <2>2. CASE ~(Len(r) < 2)
    <3>1. r[1] \in Byte /\ r[2] \in Byte
      <4>1. 1 \in 1..Len(r) /\ 2 \in 1..Len(r)
        BY <2>2, LenProperties
      <4> QED BY <4>1, ElementOfSeq
    <3>2. r[1] \in Nat /\ r[2] \in Nat
      BY <3>1, ByteIs
    <3> QED BY <2>2, <3>2 DEF TagAt
  <2> QED BY <2>1, <2>2
<1>2. Len(r) \in Nat \ {0}
  BY EmptySeq
<1> QED BY <1>1, <1>2 DEF Taken, Least

LEMMA CutIs ==
  ASSUME NEW r \in Seq(Byte), NEW m \in 1..(Len(r) + 1), NEW n \in 0..Len(r)
  PROVE  SubSeq(r, m, n) \in Seq(Byte) /\ Len(SubSeq(r, m, n)) <= Len(r)
<1>1. \A i \in m..n : r[i] \in Byte
  <2>1. \A i \in m..n : i \in 1..Len(r)
    BY LenProperties
  <2> QED BY <2>1, ElementOfSeq
<1>2. /\ SubSeq(r, m, n) \in Seq(Byte)
      /\ Len(SubSeq(r, m, n)) = IF m <= n THEN n - m + 1 ELSE 0
  BY <1>1, SubSeqProperties
<1> QED BY <1>2

-----------------------------------------------------------------------------
(* Types, wakeups and notifications.                                       *)

LEMMA SafetyInit == Init => Safety
<1> SUFFICES ASSUME Init PROVE Safety
  OBVIOUS
<1>1. ring \in Seq(Byte) /\ stored \in Seq(Packets) /\ hci_receive_buffer \in Seq(Byte)
  BY DEF Init
<1>2. Len(ring) <= RingSize
  BY HciAssumption DEF Init
<1>3. /\ torn \in BOOLEAN /\ receive_due \in BOOLEAN /\ sent_due \in BOOLEAN
      /\ bt_controller_initialized \in BOOLEAN /\ vhci_free \in BOOLEAN
      /\ reserved \in BOOLEAN
  BY DEF Init
<1>4. /\ ctrl \in {"idle", "wake", "notify"} /\ main \in {"loop", "read", "handle"}
      /\ controller \in {"off", "ready", "on"}
  BY DEF Init
<1>5. NoLostWakeup /\ NoSentLost
  BY DEF Init, NoLostWakeup, NoSentLost
<1> QED BY <1>1, <1>2, <1>3, <1>4, <1>5 DEF Safety, TypeOK

\* What is not about bytes.
Flags ==
  /\ ctrl \in {"idle", "wake", "notify"} /\ main \in {"loop", "read", "handle"}
  /\ receive_due \in BOOLEAN /\ sent_due \in BOOLEAN
  /\ controller \in {"off", "ready", "on"}
  /\ bt_controller_initialized \in BOOLEAN
  /\ vhci_free \in BOOLEAN /\ reserved \in BOOLEAN

LEMMA FlagsStep == Flags /\ Next => Flags'
<1> SUFFICES ASSUME Flags, Next PROVE Flags'
  OBVIOUS
<1> USE DEF Flags, txVars, openVars
<1>1. ASSUME NEW p \in Packets, Receive(p) PROVE Flags'
  BY <1>1 DEF Receive
<1>2. CASE Wake
  BY <1>2 DEF Wake
<1>3. CASE TakeSent
  BY <1>3 DEF TakeSent
<1>4. CASE Notify
  BY <1>4 DEF Notify
<1>5. CASE RunReceive
  BY <1>5 DEF RunReceive
<1>6. CASE Deliver
  BY <1>6 DEF Deliver
<1>7. CASE Handled
  BY <1>7 DEF Handled
<1>8. CASE RunSent
  BY <1>8 DEF RunSent
<1>9. CASE Send
  BY <1>9 DEF Send
<1>10. CASE Open
  BY <1>10 DEF Open
<1>11. CASE Close
  BY <1>11 DEF Close
<1> QED BY <1>1, <1>2, <1>3, <1>4, <1>5, <1>6, <1>7, <1>8, <1>9, <1>10, <1>11
     DEF Next, CtrlStep, MainStep

\* What is.
Bytes ==
  /\ ring \in Seq(Byte) /\ Len(ring) <= RingSize
  /\ stored \in Seq(Packets) /\ torn \in BOOLEAN
  /\ hci_receive_buffer \in Seq(Byte)

LEMMA ReceiveBytes ==
  ASSUME Bytes, NEW p \in Packets, Receive(p)
  PROVE  Bytes'
<1>1. CASE HasRoom(ring, p)
  <2>1. ring' = Filled(ring, p) /\ torn' \in BOOLEAN
    BY <1>1 DEF Receive, Track
  <2>2. stored' \in {<<>>, Append(stored, p)}
    BY <1>1 DEF Receive, Track
  <2>3. ring \in Seq(Byte) /\ Len(ring) <= RingSize
    BY DEF Bytes
  <2>4. ring' \in Seq(Byte) /\ Len(ring') <= RingSize
    BY <1>1, <2>1, <2>3, FilledIs
  <2>5. Append(stored, p) \in Seq(Packets) /\ <<>> \in Seq(Packets)
    BY AppendIs DEF Bytes
  <2>6. hci_receive_buffer' \in Seq(Byte)
    BY DEF Receive, Bytes
  <2> QED BY <2>1, <2>2, <2>4, <2>5, <2>6 DEF Bytes
<1>2. CASE ~HasRoom(ring, p)
  BY <1>2 DEF Receive, rxVars, Bytes
<1> QED BY <1>1, <1>2

LEMMA DeliverBytes ==
  ASSUME Bytes, Deliver, ring # <<>>
  PROVE  Bytes'
<1>1. ring \in Seq(Byte) /\ Len(ring) <= RingSize /\ Len(ring) \in Nat
  BY DEF Bytes
<1>2. PICK n \in 1..Len(ring) : n = Taken(ring)
  BY <1>1, TakenIs
<1>3. /\ hci_receive_buffer' = SubSeq(ring, 3, n)
      /\ ring' = SubSeq(ring, n + 1, Len(ring)) /\ torn' \in BOOLEAN
  BY <1>2 DEF Deliver, Track
<1>4. stored' \in {<<>>, IF stored = <<>> THEN <<>> ELSE Tail(stored)}
  BY DEF Deliver, Track
<1>5. stored' \in Seq(Packets)
  <2>1. <<>> \in Seq(Packets)
    OBVIOUS
  <2>2. stored # <<>> => Tail(stored) \in Seq(Packets)
    BY TailIs DEF Bytes
  <2> QED BY <1>4, <2>1, <2>2
<1>6. ring' \in Seq(Byte) /\ Len(ring') <= RingSize
  <2>1. n + 1 \in 1..(Len(ring) + 1) /\ Len(ring) \in 0..Len(ring)
    BY <1>1, <1>2
  <2>2. ring' \in Seq(Byte) /\ Len(ring') <= Len(ring)
    BY <1>1, <1>3, <2>1, CutIs
  <2>3. Len(ring') \in Nat
    BY <2>2
  <2> QED BY <1>1, <2>2, <2>3, HciAssumption
<1>7. hci_receive_buffer' \in Seq(Byte)
  <2>1. \A i \in 3..n : ring[i] \in Byte
    BY <1>1, <1>2
  <2>2. SubSeq(ring, 3, n) \in Seq(Byte)
    BY <1>2, <2>1, SubSeqProperties
  <2> QED BY <1>3, <2>2
<1> QED BY <1>3, <1>5, <1>6, <1>7 DEF Bytes

LEMMA BytesStep == Bytes /\ Next => Bytes'
<1> SUFFICES ASSUME Bytes, Next PROVE Bytes'
  OBVIOUS
<1>1. ASSUME NEW p \in Packets, Receive(p) PROVE Bytes'
  BY <1>1, ReceiveBytes
<1>2. CASE Deliver
  <2>1. CASE ring = <<>>
    BY <1>2, <2>1 DEF Deliver, rxVars, Bytes
  <2>2. CASE ring # <<>>
    BY <1>2, <2>2, DeliverBytes
  <2> QED BY <2>1, <2>2
<1>3. CASE Open
  <2>1. ring' = <<>> /\ stored' = <<>> /\ torn' = FALSE
    BY <1>3 DEF Open, Track
  <2>2. hci_receive_buffer' \in Seq(Byte)
    BY <1>3 DEF Open, Bytes
  <2>3. Len(ring') <= RingSize /\ ring' \in Seq(Byte)
    BY <2>1, HciAssumption
  <2>4. stored' \in Seq(Packets)
    BY <2>1
  <2> QED BY <2>1, <2>2, <2>3, <2>4 DEF Bytes
<1>4. CASE CtrlStep \/ RunReceive \/ Handled \/ RunSent \/ Send \/ Close
  <2>1. UNCHANGED <<rxVars, hci_receive_buffer>>
    BY <1>4 DEF CtrlStep, Wake, TakeSent, Notify, RunReceive, Handled, RunSent, Send,
                Close
  <2> QED BY <2>1 DEF Bytes, rxVars
<1> QED BY <1>1, <1>2, <1>3, <1>4 DEF Next, MainStep

LEMMA TypeStep == TypeOK /\ Next => TypeOK'
<1>1. TypeOK => Flags /\ Bytes
  BY DEF TypeOK, Flags, Bytes
<1>2. Flags' /\ Bytes' => TypeOK'
  BY DEF TypeOK, Flags, Bytes
<1> QED BY <1>1, <1>2, FlagsStep, BytesStep

LEMMA WakeupStep ==
  ASSUME TypeOK, NoLostWakeup, Next
  PROVE  NoLostWakeup'
<1> USE DEF NoLostWakeup
<1>1. CASE \E p \in Packets : Receive(p)
  <2>1. PICK p \in Packets : Receive(p)
    BY <1>1
  <2> QED BY <2>1 DEF Receive, rxVars
<1>2. CASE Wake \/ TakeSent \/ Notify \/ RunSent \/ Send \/ Close
  BY <1>2 DEF Wake, TakeSent, Notify, RunSent, Send, Close, rxVars, txVars
<1>3. CASE RunReceive \/ Handled
  BY <1>3 DEF RunReceive, Handled
<1>4. CASE Deliver
  BY <1>4 DEF Deliver, rxVars
<1>5. CASE Open
  BY <1>5 DEF Open, Track
<1> QED BY <1>1, <1>2, <1>3, <1>4, <1>5 DEF Next, CtrlStep, MainStep

LEMMA SentStep ==
  ASSUME TypeOK, NoSentLost, Next
  PROVE  NoSentLost'
BY DEF NoSentLost, Next, CtrlStep, MainStep, Receive, Wake, TakeSent, Notify,
       RunReceive, Deliver, Handled, RunSent, Send, Open, Close, txVars

LEMMA SafetyStep == Safety /\ [Next]_vars => Safety'
<1> SUFFICES ASSUME Safety, [Next]_vars PROVE Safety'
  OBVIOUS
<1>1. CASE UNCHANGED vars
  BY <1>1 DEF Safety, TypeOK, NoLostWakeup, NoSentLost, vars, rxVars, txVars, openVars
<1>2. CASE Next
  <2>1. TypeOK'
    BY <1>2, TypeStep DEF Safety
  <2> QED BY <1>2, <2>1, WakeupStep, SentStep DEF Safety
<1> QED BY <1>1, <1>2

-----------------------------------------------------------------------------
(* The framing of the ring.                                                *)

\* A packet stays where it is when others are added behind or taken from in front.
LEMMA FrameKept ==
  ASSUME NEW r, NEW r2, NEW p \in Packets, NEW d \in Nat, NEW a \in Nat, d <= a,
         NEW l \in Nat, a + 2 + Len(p) <= l,
         \A x \in (d + 1)..l : r2[x - d] = r[x], FrameAt(r, a, p)
  PROVE  FrameAt(r2, a - d, p)
<1>1. Len(p) \in Nat
  BY PacketIs
<1>2. a + 1 \in (d + 1)..l /\ a + 2 \in (d + 1)..l
  BY <1>1
<1>3. r2[(a + 1) - d] = r[a + 1] /\ r2[(a + 2) - d] = r[a + 2]
  BY <1>2
<1>4. (a + 1) - d = (a - d) + 1 /\ (a + 2) - d = (a - d) + 2
  OBVIOUS
<1>5. ASSUME NEW k \in 1..Len(p) PROVE r2[(a - d) + 2 + k] = r[a + 2 + k]
  <2>1. a + 2 + k \in (d + 1)..l /\ (a + 2 + k) - d = (a - d) + 2 + k
    BY <1>1
  <2>2. r2[(a + 2 + k) - d] = r[a + 2 + k]
    BY <2>1
  <2> QED BY <2>1, <2>2
<1>6. r2[(a - d) + 1] = r[a + 1] /\ r2[(a - d) + 2] = r[a + 2]
  BY <1>3, <1>4
<1> QED BY <1>5, <1>6 DEF FrameAt

LEMMA ElementIs ==
  ASSUME NEW S, NEW s \in Seq(S), NEW e \in S
  PROVE  /\ Len(s) \in Nat /\ Append(s, e) \in Seq(S)
         /\ Len(Append(s, e)) = Len(s) + 1 /\ Append(s, e)[Len(s) + 1] = e
         /\ \A i \in 1..Len(s) : Append(s, e)[i] = s[i] /\ s[i] \in S
<1>1. Len(s) \in Nat /\ \A i \in 1..Len(s) : s[i] \in S
  BY LenProperties, ElementOfSeq
<1> QED BY <1>1, AppendProperties

\* Where the bytes of a tag and of a packet are when they are added.
LEMMA AddedIs ==
  ASSUME NEW r \in Seq(Byte), NEW p \in Packets,
         NEW r2, r2 = (r \o Tag(Len(p))) \o p
  PROVE  /\ Len(r) \in Nat /\ Len(r2) = Len(r) + 2 + Len(p)
         /\ \A x \in 1..Len(r) : r2[x] = r[x]
         /\ FrameAt(r2, Len(r), p)
<1>1. p \in Seq(Byte) /\ Len(p) \in Nat /\ Len(p) < 65536 /\ Len(r) \in Nat
  BY PacketIs, LenProperties
<1>2. PICK t : t = Tag(Len(p))
  OBVIOUS
<1>3. t \in Seq(Byte) /\ Len(t) = 2 /\ t[1] = Len(p) % 256 /\ t[2] = Len(p) \div 256
  BY <1>2, <1>1, TagIs
<1>4. PICK u : u = r \o t
  OBVIOUS
<1>5. r2 = u \o p
  BY <1>2, <1>4
<1>6. u \in Seq(Byte) /\ Len(u) = Len(r) + 2
  <2>1. u \in Seq(Byte) /\ Len(u) = Len(r) + Len(t)
    BY <1>4, <1>3, ConcatProperties
  <2> QED BY <1>3, <2>1
<1>7. \A x \in 1..(Len(r) + 2) : u[x] = IF x <= Len(r) THEN r[x] ELSE t[x - Len(r)]
  <2>1. t \in Seq(Byte)
    BY <1>3
  <2>2. \A x \in 1..(Len(r) + Len(t)) : u[x] = IF x <= Len(r) THEN r[x] ELSE t[x - Len(r)]
    BY <1>4, <2>1, ConcatProperties
  <2> QED BY <1>3, <2>2
<1>8. Len(r2) = Len(u) + Len(p)
  <2>1. u \in Seq(Byte) /\ p \in Seq(Byte)
    BY <1>1, <1>6
  <2>2. Len(u \o p) = Len(u) + Len(p)
    BY <2>1, ConcatProperties
  <2> QED BY <1>5, <2>2
<1>9. \A x \in 1..(Len(u) + Len(p)) : r2[x] = IF x <= Len(u) THEN u[x] ELSE p[x - Len(u)]
  BY <1>1, <1>6, <1>5, ConcatProperties
<1>10. ASSUME NEW x \in 1..Len(r) PROVE r2[x] = r[x]
  <2>1. x \in 1..(Len(u) + Len(p)) /\ x <= Len(u) /\ x \in 1..(Len(r) + 2) /\ x <= Len(r)
    BY <1>1, <1>6
  <2> QED BY <1>7, <1>9, <2>1
<1>11. r2[Len(r) + 1] = t[1]
  <2>1. /\ Len(r) + 1 \in 1..(Len(u) + Len(p)) /\ Len(r) + 1 <= Len(u)
        /\ Len(r) + 1 \in 1..(Len(r) + 2) /\ ~(Len(r) + 1 <= Len(r))
        /\ (Len(r) + 1) - Len(r) = 1
    BY <1>1, <1>6
  <2>2. r2[Len(r) + 1] = u[Len(r) + 1]
    BY <1>9, <2>1
  <2>3. u[Len(r) + 1] = t[(Len(r) + 1) - Len(r)]
    BY <1>7, <2>1
  <2> QED BY <2>1, <2>2, <2>3
<1>12. r2[Len(r) + 2] = t[2]
  <2>1. /\ Len(r) + 2 \in 1..(Len(u) + Len(p)) /\ Len(r) + 2 <= Len(u)
        /\ Len(r) + 2 \in 1..(Len(r) + 2) /\ ~(Len(r) + 2 <= Len(r))
        /\ (Len(r) + 2) - Len(r) = 2
    BY <1>1, <1>6
  <2>2. r2[Len(r) + 2] = u[Len(r) + 2]
    BY <1>9, <2>1
  <2>3. u[Len(r) + 2] = t[(Len(r) + 2) - Len(r)]
    BY <1>7, <2>1
  <2> QED BY <2>1, <2>2, <2>3
<1>13. ASSUME NEW k \in 1..Len(p) PROVE r2[Len(r) + 2 + k] = p[k]
  <2>1. /\ Len(r) + 2 + k \in 1..(Len(u) + Len(p)) /\ ~(Len(r) + 2 + k <= Len(u))
        /\ (Len(r) + 2 + k) - Len(u) = k
    BY <1>1, <1>6
  <2>2. r2[Len(r) + 2 + k] = p[(Len(r) + 2 + k) - Len(u)]
    BY <1>9, <2>1
  <2> QED BY <2>1, <2>2
<1>14. FrameAt(r2, Len(r), p)
  BY <1>11, <1>12, <1>13, <1>3 DEF FrameAt
<1>15. Len(r2) = Len(r) + 2 + Len(p)
  BY <1>1, <1>6, <1>8
<1> QED BY <1>1, <1>10, <1>14, <1>15

\* A packet put behind what is there.
LEMMA FramingAdded ==
  ASSUME NEW r \in Seq(Byte), NEW s \in Seq(Packets), NEW off, Framing(off, r, s),
         NEW p \in Packets, NEW r2, r2 = (r \o Tag(Len(p))) \o p
  PROVE  \E o : Framing(o, r2, Append(s, p))
<1>1. PICK n \in Nat : n = Len(s)
  BY LenProperties
<1>2. PICK s2 : s2 = Append(s, p)
  OBVIOUS
<1>3. Len(s2) = n + 1 /\ s2[n + 1] = p /\ \A i \in 1..n : s2[i] = s[i] /\ s[i] \in Packets
  BY <1>1, <1>2, ElementIs
<1>4. p \in Seq(Byte) /\ Len(p) \in Nat /\ Len(p) < 65536
  BY PacketIs
<1>5. PICK l \in Nat : l = Len(r)
  BY LenProperties
<1>6. /\ Len(r2) = l + 2 + Len(p) /\ \A x \in 1..l : r2[x] = r[x]
      /\ FrameAt(r2, l, p)
  <2>1. /\ Len(r2) = Len(r) + 2 + Len(p) /\ \A x \in 1..Len(r) : r2[x] = r[x]
        /\ FrameAt(r2, Len(r), p)
    BY AddedIs
  <2> QED BY <1>5, <2>1
<1>7. PICK m \in Nat : m = Len(r2) /\ m = l + 2 + Len(p)
  BY <1>4, <1>6
<1>8. off \in [1..(n + 1) -> Nat] /\ off[1] = 0 /\ off[n + 1] = l
  BY <1>1, <1>5 DEF Framing
<1>9. \A i, j \in 1..(n + 1) : i <= j => off[i] <= off[j]
  BY <1>1 DEF Framing
<1>10. \A i \in 1..n : off[i + 1] = off[i] + 2 + Len(s[i]) /\ FrameAt(r, off[i], s[i])
  BY <1>1 DEF Framing
<1>11. PICK o : o = [i \in 1..(n + 2) |-> IF i = n + 2 THEN m ELSE off[i]]
  OBVIOUS
<1>12. o[n + 2] = m /\ \A i \in 1..(n + 1) : o[i] = off[i]
  BY <1>11
<1>13. o \in [1..(n + 2) -> Nat]
  <2>1. \A i \in 1..(n + 2) : i # n + 2 => off[i] \in Nat
    BY <1>8
  <2> QED BY <1>11, <2>1
<1>14. o[1] = 0
  BY <1>8, <1>12
<1>15. ASSUME NEW i \in 1..(n + 2), NEW j \in 1..(n + 2), i <= j
       PROVE  o[i] <= o[j]
  <2>1. CASE i = n + 2
    <3>1. j = n + 2
      BY <1>15, <2>1
    <3> QED BY <1>12, <2>1, <3>1
  <2>2. CASE i # n + 2 /\ j = n + 2
    <3>1. i \in 1..(n + 1) /\ n + 1 \in 1..(n + 1) /\ i <= n + 1
      BY <2>2
    <3>2. off[i] \in Nat /\ off[i] <= l
      BY <1>8, <1>9, <3>1
    <3>3. o[i] = off[i] /\ o[j] = m
      BY <1>12, <2>2, <3>1
    <3> QED BY <1>4, <1>7, <3>2, <3>3
  <2>3. CASE i # n + 2 /\ j # n + 2
    <3>1. i \in 1..(n + 1) /\ j \in 1..(n + 1)
      BY <2>3
    <3> QED BY <1>9, <1>12, <1>15, <3>1
  <2> QED BY <2>1, <2>2, <2>3
<1>16. ASSUME NEW i \in 1..(n + 1)
       PROVE  o[i + 1] = o[i] + 2 + Len(s2[i]) /\ FrameAt(r2, o[i], s2[i])
  <2>1. CASE i = n + 1
    <3>1. o[i] = l /\ o[i + 1] = m /\ s2[i] = p
      BY <1>3, <1>8, <1>12, <2>1
    <3> QED BY <1>6, <1>7, <3>1
  <2>2. CASE i # n + 1
    <3>1. i \in 1..n /\ i + 1 \in 1..(n + 1) /\ n + 1 \in 1..(n + 1) /\ i + 1 <= n + 1
          /\ i \in 1..(n + 1)
      BY <2>2
    <3>2. /\ o[i] = off[i] /\ o[i + 1] = off[i + 1]
          /\ s2[i] = s[i] /\ s[i] \in Packets
      BY <1>3, <1>12, <3>1
    <3>3. off[i + 1] = off[i] + 2 + Len(s[i]) /\ FrameAt(r, off[i], s[i])
      BY <1>10, <3>1
    <3>4. off[i] \in Nat /\ off[i + 1] <= l
      BY <1>8, <1>9, <3>1
    <3>5. off[i] + 2 + Len(s[i]) <= l
      BY <3>3, <3>4
    <3>6. \A x \in (0 + 1)..l : r2[x - 0] = r[x]
      BY <1>6
    <3>7. FrameAt(r2, off[i] - 0, s[i])
      <4>1. PICK a \in Nat : a = off[i]
        BY <3>4
      <4>2. 0 \in Nat /\ 0 <= a
        OBVIOUS
      <4>3. FrameAt(r2, a - 0, s[i])
        BY <3>2, <3>3, <3>5, <3>6, <4>1, <4>2, FrameKept
      <4> QED BY <4>1, <4>3
    <3>8. off[i] - 0 = off[i]
      BY <3>4
    <3> QED BY <3>2, <3>3, <3>7, <3>8
  <2> QED BY <2>1, <2>2
<1>17. Framing(o, r2, s2)
  <2>1. Len(s2) + 1 = n + 2 /\ Len(s2) = n + 1
    BY <1>3
  <2> QED BY <1>7, <1>12, <1>13, <1>14, <1>15, <1>16, <2>1 DEF Framing
<1> QED BY <1>2, <1>17

-----------------------------------------------------------------------------
\* The first packet is read out whole.
LEMMA FramingRead ==
  ASSUME NEW r \in Seq(Byte), NEW s \in Seq(Packets), NEW off, Framing(off, r, s),
         r # <<>>
  PROVE  /\ s # <<>> /\ Taken(r) = off[2] /\ off[2] \in 1..Len(r)
         /\ SubSeq(r, 3, Taken(r)) = s[1]
<1>1. PICK n \in Nat : n = Len(s)
  BY LenProperties
<1>2. PICK l \in Nat : l = Len(r)
  BY LenProperties
<1>3. l # 0 /\ off[1] = 0 /\ off[n + 1] = l
  BY <1>1, <1>2, EmptySeq DEF Framing
<1>4. n # 0
  BY <1>3
<1>5. 1 \in 1..n /\ 2 \in 1..(n + 1) /\ n + 1 \in 1..(n + 1) /\ 2 <= n + 1
  BY <1>4
<1>6. s # <<>>
  BY <1>1, <1>4, EmptySeq
<1>7. PICK p \in Packets : p = s[1]
  BY <1>1, <1>5, ElementOfSeq
<1>8. p \in Seq(Byte) /\ Len(p) \in Nat /\ Len(p) >= 3 /\ Len(p) < 65536
  BY PacketIs
<1>9. off[1 + 1] = off[1] + 2 + Len(p) /\ FrameAt(r, off[1], p)
  BY <1>1, <1>5, <1>7 DEF Framing
<1>10. off[2] = 2 + Len(p) /\ FrameAt(r, 0, p)
  BY <1>3, <1>8, <1>9
<1>11. off[2] <= l
  BY <1>1, <1>3, <1>5 DEF Framing
<1>12. /\ r[1] = Len(p) % 256 /\ r[2] = Len(p) \div 256
       /\ \A k \in 1..Len(p) : r[2 + k] = p[k]
  <2>1. r[0 + 1] = Len(p) % 256 /\ r[0 + 2] = Len(p) \div 256
    BY <1>10 DEF FrameAt
  <2>2. \A k \in 1..Len(p) : r[0 + 2 + k] = p[k]
    BY <1>10 DEF FrameAt
  <2> QED BY <1>8, <2>1, <2>2
<1>13. TagAt(r) = Len(p)
  <2>1. ~(Len(r) < 2)
    BY <1>2, <1>8, <1>10, <1>11
  <2>2. TagAt(r) = (Len(p) % 256) + 256 * (Len(p) \div 256)
    BY <1>12, <2>1 DEF TagAt
  <2> QED BY <1>8, <2>2, TagIs
<1>14. Taken(r) = 2 + Len(p)
  BY <1>2, <1>8, <1>10, <1>11, <1>13 DEF Taken, Least
<1>15. SubSeq(r, 3, 2 + Len(p)) = p
  <2>1. PICK e \in Nat : e = 2 + Len(p) /\ e >= 5 /\ e <= l
    BY <1>8, <1>10, <1>11
  <2>2. PICK c : c = SubSeq(r, 3, e)
    OBVIOUS
  <2>3. \A i \in 3..e : r[i] \in Byte
    <3>1. \A i \in 3..e : i \in 1..Len(r)
      BY <1>2, <2>1
    <3> QED BY <3>1, ElementOfSeq
  <2>4. /\ c \in Seq(Byte) /\ Len(c) = IF 3 <= e THEN e - 3 + 1 ELSE 0
        /\ \A i \in 1..(e - 3 + 1) : c[i] = r[3 + i - 1]
    BY <2>2, <2>3, SubSeqProperties
  <2>5. Len(c) = Len(p)
    BY <1>8, <2>1, <2>4
  <2>6. ASSUME NEW i \in 1..Len(p) PROVE c[i] = p[i]
    <3>1. i \in 1..(e - 3 + 1) /\ 3 + i - 1 = 2 + i
      BY <1>8, <2>1
    <3> QED BY <1>12, <2>4, <3>1
  <2>7. c = p
    BY <1>8, <2>4, <2>5, <2>6, SeqEqual
  <2> QED BY <2>1, <2>2, <2>7
<1>16. off[2] \in 1..Len(r)
  BY <1>2, <1>8, <1>10, <1>11
<1> QED BY <1>6, <1>7, <1>10, <1>14, <1>15, <1>16

LEMMA TailElement ==
  ASSUME NEW s \in Seq(Packets), s # <<>>
  PROVE  /\ Tail(s) \in Seq(Packets) /\ Len(Tail(s)) = Len(s) - 1 /\ Len(s) \in Nat
         /\ \A i \in 1..(Len(s) - 1) : Tail(s)[i] = s[i + 1] /\ s[i + 1] \in Packets
<1>1. Len(s) \in Nat
  BY LenProperties
<1>2. /\ Tail(s) \in Seq(Packets) /\ Len(Tail(s)) = Len(s) - 1
      /\ \A i \in 1..Len(Tail(s)) : Tail(s)[i] = s[i + 1]
  BY HeadTailProperties
<1>3. ASSUME NEW i \in 1..(Len(s) - 1) PROVE s[i + 1] \in Packets
  <2>1. i + 1 \in 1..Len(s)
    BY <1>1
  <2> QED BY <2>1, ElementOfSeq
<1> QED BY <1>1, <1>2, <1>3

\* ... and taken away.
LEMMA FramingTaken ==
  ASSUME NEW r \in Seq(Byte), NEW s \in Seq(Packets), NEW off, Framing(off, r, s),
         r # <<>>
  PROVE  \E o : Framing(o, SubSeq(r, Taken(r) + 1, Len(r)), Tail(s))
<1>1. s # <<>> /\ Taken(r) = off[2] /\ off[2] \in 1..Len(r)
  BY FramingRead
<1>2. PICK n \in Nat : n = Len(s)
  BY LenProperties
<1>3. n # 0
  BY <1>1, <1>2, EmptySeq
<1>4. PICK l \in Nat : l = Len(r)
  BY LenProperties
<1>5. PICK d \in Nat : d = off[2] /\ d = Taken(r) /\ d >= 1 /\ d <= l
  BY <1>1, <1>4
<1>6. PICK s2 : s2 = Tail(s)
  OBVIOUS
<1>7. /\ Len(s2) = n - 1
      /\ \A i \in 1..(n - 1) : s2[i] = s[i + 1] /\ s[i + 1] \in Packets
  BY <1>1, <1>2, <1>6, TailElement
<1>8. PICK r2 : r2 = SubSeq(r, d + 1, l)
  OBVIOUS
<1>9. Len(r2) = l - d /\ \A x \in (d + 1)..l : r2[x - d] = r[x]
  <2>1. \A i \in (d + 1)..l : r[i] \in Byte
    <3>1. \A i \in (d + 1)..l : i \in 1..Len(r)
      BY <1>4
    <3> QED BY <3>1, ElementOfSeq
  <2>2. /\ Len(r2) = IF d + 1 <= l THEN l - (d + 1) + 1 ELSE 0
        /\ \A i \in 1..(l - (d + 1) + 1) : r2[i] = r[(d + 1) + i - 1]
    BY <1>8, <2>1, SubSeqProperties
  <2>3. Len(r2) = l - d
    BY <1>5, <2>2
  <2>4. ASSUME NEW x \in (d + 1)..l PROVE r2[x - d] = r[x]
    <3>1. x - d \in 1..(l - (d + 1) + 1) /\ (d + 1) + (x - d) - 1 = x
      OBVIOUS
    <3> QED BY <2>2, <3>1
  <2> QED BY <2>3, <2>4
<1>10. /\ off \in [1..(n + 1) -> Nat] /\ off[n + 1] = l
       /\ \A i, j \in 1..(n + 1) : i <= j => off[i] <= off[j]
  BY <1>2, <1>4 DEF Framing
<1>11. \A i \in 1..n : off[i + 1] = off[i] + 2 + Len(s[i]) /\ FrameAt(r, off[i], s[i])
  BY <1>2 DEF Framing
<1>12. ASSUME NEW i \in 1..n PROVE off[i + 1] \in Nat /\ d <= off[i + 1]
  <2>1. i + 1 \in 1..(n + 1) /\ 2 \in 1..(n + 1) /\ 2 <= i + 1
    BY <1>3
  <2> QED BY <1>5, <1>10, <2>1
<1>13. PICK o : o = [i \in 1..n |-> off[i + 1] - d]
  OBVIOUS
<1>14. o \in [1..n -> Nat] /\ \A i \in 1..n : o[i] = off[i + 1] - d
  <2>1. \A i \in 1..n : off[i + 1] - d \in Nat
    BY <1>12
  <2> QED BY <1>13, <2>1
<1>15. o[1] = 0 /\ o[n] = l - d
  <2>1. 1 \in 1..n /\ n \in 1..n
    BY <1>3
  <2>2. o[1] = off[1 + 1] - d /\ o[n] = off[n + 1] - d
    BY <1>14, <2>1
  <2>3. off[1 + 1] = d
    <3>1. 1 + 1 = 2 /\ off[2] = d
      BY <1>5
    <3> QED BY <3>1
  <2>4. o[1] = 0
    BY <2>2, <2>3
  <2> QED BY <1>10, <2>2, <2>4
<1>16. ASSUME NEW i \in 1..n, NEW j \in 1..n, i <= j
       PROVE  o[i] <= o[j]
  <2>1. i + 1 \in 1..(n + 1) /\ j + 1 \in 1..(n + 1) /\ i + 1 <= j + 1
    BY <1>16
  <2>2. off[i + 1] <= off[j + 1]
    BY <1>10, <2>1
  <2>3. off[i + 1] \in Nat /\ off[j + 1] \in Nat
    BY <1>12
  <2>4. o[i] = off[i + 1] - d /\ o[j] = off[j + 1] - d
    BY <1>14
  <2> QED BY <2>2, <2>3, <2>4
<1>17. ASSUME NEW i \in 1..(n - 1)
       PROVE  o[i + 1] = o[i] + 2 + Len(s2[i]) /\ FrameAt(r2, o[i], s2[i])
  <2>1. /\ i \in 1..n /\ i + 1 \in 1..n /\ (i + 1) + 1 \in 1..(n + 1)
        /\ n + 1 \in 1..(n + 1) /\ (i + 1) + 1 <= n + 1
    OBVIOUS
  <2>2. PICK q \in Packets : q = s2[i] /\ q = s[i + 1]
    BY <1>7
  <2>3. PICK a \in Nat : a = off[i + 1] /\ d <= a
    BY <1>12, <2>1
  <2>4. off[(i + 1) + 1] = a + 2 + Len(q) /\ FrameAt(r, a, q)
    BY <1>11, <2>1, <2>2, <2>3
  <2>5. off[(i + 1) + 1] <= l
    BY <1>10, <2>1
  <2>6. a + 2 + Len(q) <= l
    BY <2>4, <2>5
  <2>7. FrameAt(r2, a - d, q)
    BY <1>9, <2>3, <2>4, <2>6, FrameKept
  <2>8. o[i] = a - d /\ o[i + 1] = off[(i + 1) + 1] - d
    BY <1>14, <2>1, <2>3
  <2>9. Len(q) \in Nat
    BY PacketIs
  <2>10. o[i + 1] = o[i] + 2 + Len(q)
    BY <2>4, <2>8, <2>9
  <2> QED BY <2>2, <2>7, <2>8, <2>10
<1>18. Framing(o, r2, s2)
  <2>1. Len(s2) + 1 = n
    BY <1>7
  <2> QED BY <1>7, <1>9, <1>14, <1>15, <1>16, <1>17, <2>1 DEF Framing
<1> QED BY <1>4, <1>5, <1>6, <1>8, <1>18

LEMMA FramingEmpty == Framing([i \in 1..1 |-> 0], <<>>, <<>>)
BY DEF Framing

LEMMA FramedStep == Bytes /\ Framed /\ Next => Framed'
<1> SUFFICES ASSUME Bytes, Framed, Next, ~torn'
             PROVE  \E off : Framing(off, ring', stored')
  BY DEF Framed
<1>1. ring \in Seq(Byte) /\ Len(ring) <= RingSize /\ stored \in Seq(Packets)
  BY DEF Bytes
<1>2. CASE ring' = <<>> /\ stored' = <<>>
  BY <1>2, FramingEmpty
<1>3. CASE UNCHANGED rxVars
  BY <1>3 DEF Framed, rxVars
<1>4. ASSUME NEW p \in Packets, Receive(p)
      PROVE  UNCHANGED rxVars \/ \E off : Framing(off, ring', stored')
  <2>1. CASE HasRoom(ring, p)
    <3>1. ring' = Filled(ring, p) /\ Filled(ring, p) # <<>>
      BY <1>1, <1>4, <2>1, FilledIs DEF Receive, Track
    <3>2. /\ ~(torn \/ Free(ring) < Len(p) + 2)
          /\ stored' = Append(stored, p)
      BY <1>4, <2>1, <3>1 DEF Receive, Track
    <3>3. Free(ring) >= Len(p) + 2
      <4>1. Free(ring) \in Int /\ Len(p) \in Nat
        BY <1>1, PacketIs, LenProperties, HciAssumption DEF Free
      <4> QED BY <3>2, <4>1
    <3>4. ring' = (ring \o Tag(Len(p))) \o p
      BY <1>1, <2>1, <3>1, <3>3, FilledIs
    <3>5. PICK off : Framing(off, ring, stored)
      BY <3>2 DEF Framed
    <3> QED BY <1>1, <3>2, <3>4, <3>5, FramingAdded
  <2>2. CASE ~HasRoom(ring, p)
    BY <1>4, <2>2 DEF Receive
  <2> QED BY <2>1, <2>2
<1>5. CASE Deliver
  <2>1. CASE ring = <<>>
    BY <1>3, <1>5, <2>1 DEF Deliver
  <2>2. CASE ring # <<>> /\ torn
    <3>1. ring' = <<>> /\ stored' = <<>>
      BY <1>5, <2>2 DEF Deliver, Track
    <3> QED BY <1>2, <3>1
  <2>3. CASE ring # <<>> /\ ~torn
    <3>1. PICK off : Framing(off, ring, stored)
      BY <2>3 DEF Framed
    <3>2. stored # <<>>
      BY <1>1, <2>3, <3>1, FramingRead
    <3>3. /\ ring' = SubSeq(ring, Taken(ring) + 1, Len(ring))
          /\ stored' = Tail(stored)
      BY <1>5, <2>3, <3>2 DEF Deliver, Track
    <3> QED BY <1>1, <2>3, <3>1, <3>3, FramingTaken
  <2> QED BY <2>1, <2>2, <2>3
<1>6. CASE Open
  BY <1>2, <1>6 DEF Open, Track
<1>7. CASE CtrlStep \/ RunReceive \/ Handled \/ RunSent \/ Send \/ Close
  BY <1>3, <1>7 DEF CtrlStep, Wake, TakeSent, Notify, RunReceive, Handled, RunSent,
                    Send, Close
<1> QED BY <1>3, <1>4, <1>5, <1>6, <1>7 DEF Next, MainStep

-----------------------------------------------------------------------------
LEMMA IInvInit == Init => IInv
<1> SUFFICES ASSUME Init PROVE Framed
  BY SafetyInit DEF IInv
<1> QED BY FramingEmpty DEF Framed, Init

LEMMA IInvStep == IInv /\ [Next]_vars => IInv'
<1> SUFFICES ASSUME IInv, [Next]_vars PROVE IInv'
  OBVIOUS
<1>1. Safety'
  BY SafetyStep DEF IInv
<1>2. CASE UNCHANGED vars
  <2>1. Framed'
    BY <1>2 DEF IInv, Framed, vars, rxVars
  <2> QED BY <1>1, <2>1 DEF IInv
<1>3. CASE Next
  <2>1. Bytes
    BY DEF IInv, Safety, TypeOK, Bytes
  <2>2. Framed'
    BY <1>3, <2>1, FramedStep DEF IInv
  <2> QED BY <1>1, <2>2 DEF IInv
<1> QED BY <1>2, <1>3

LEMMA Invariance == Spec => []IInv
BY IInvInit, IInvStep, PTL DEF Spec

\* Types and the ring's room, no wakeup of transport_deliver_packets() lost and no
\* PACKET_SENT, for any ring and any packets.
THEOREM SafetyCorrect == Spec => []Safety
<1>1. IInv => Safety
  BY DEF IInv
<1> QED BY Invariance, <1>1, PTL

-----------------------------------------------------------------------------
(* The transport implements the channel.                                   *)

\* What the stack has in hand.
Handed == IF main = "handle" THEN hci_receive_buffer ELSE <<>>

LEMMA ChannelInit == Init => Channel!Init
BY DEF Init, Channel!Init

LEMMA ChannelReceive ==
  ASSUME IInv, NEW p \in Packets, Receive(p)
  PROVE  Channel!Next \/ UNCHANGED <<stored, Handed, torn>>
<1>1. UNCHANGED Handed
  BY DEF Receive, Handed
<1>2. CASE ~HasRoom(ring, p)
  BY <1>1, <1>2 DEF Receive, rxVars
<1>3. CASE HasRoom(ring, p)
  <2>1. CASE torn'
    BY <2>1 DEF Channel!Next, Channel!Break, IInv, Safety, TypeOK, Receive, Track, rxVars
  <2>2. CASE ~torn'
    <3>1. ring \in Seq(Byte) /\ Len(ring) <= RingSize
      BY DEF IInv, Safety, TypeOK
    <3>2. ring' = Filled(ring, p) /\ ring' # <<>>
      BY <1>3, <3>1, FilledIs DEF Receive, Track
    <3>3. ~torn /\ stored' = Append(stored, p)
      BY <1>3, <2>2, <3>2 DEF Receive, Track
    <3> QED BY <1>1, <2>2, <3>3 DEF Channel!Next, Channel!Accept, Handed
  <2> QED BY <2>1, <2>2
<1> QED BY <1>2, <1>3

LEMMA ChannelDeliver ==
  ASSUME IInv, Deliver
  PROVE  Channel!Next \/ UNCHANGED <<stored, Handed, torn>>
<1>1. main = "read" /\ Handed = <<>>
  BY DEF Deliver, Handed
<1>2. CASE ring = <<>>
  BY <1>1, <1>2 DEF Deliver, rxVars, Handed
<1>3. CASE ring # <<>>
  <2>1. CASE torn /\ ~torn'
    <3>1. stored' = <<>> /\ torn' = FALSE
      BY <1>3, <2>1 DEF Deliver, Track
    <3> QED BY <2>1, <3>1 DEF Channel!Next, Channel!Mend
  <2>2. CASE torn /\ torn'
    BY <1>3, <2>2 DEF Deliver, Track, Channel!Next, Channel!Break
  <2>3. CASE ~torn
    <3>1. ring \in Seq(Byte) /\ stored \in Seq(Packets)
      BY DEF IInv, Safety, TypeOK
    <3>2. PICK off : Framing(off, ring, stored)
      BY <2>3 DEF IInv, Framed
    <3>3. stored # <<>> /\ SubSeq(ring, 3, Taken(ring)) = stored[1]
      BY <1>3, <3>1, <3>2, FramingRead
    <3>4. /\ hci_receive_buffer' = stored[1] /\ main' = "handle"
          /\ stored' = Tail(stored) /\ ~torn'
      BY <1>3, <2>3, <3>3 DEF Deliver, Track
    <3>5. Handed' = Head(stored)
      BY <3>4 DEF Handed
    <3> QED BY <1>1, <2>3, <3>3, <3>4, <3>5
            DEF Channel!Next, Channel!Take, Handed
  <2> QED BY <2>1, <2>2, <2>3
<1> QED BY <1>2, <1>3

LEMMA ChannelOther ==
  ASSUME IInv, CtrlStep \/ RunReceive \/ Handled \/ RunSent \/ Send \/ Open \/ Close
  PROVE  Channel!Next \/ UNCHANGED <<stored, Handed, torn>>
<1>1. CASE CtrlStep \/ RunReceive \/ RunSent \/ Send \/ Close
  BY <1>1 DEF CtrlStep, Wake, TakeSent, Notify, RunReceive, RunSent, Send, Close,
              rxVars, Handed
<1>2. CASE Handled
  <2>1. UNCHANGED <<stored, torn>> /\ Handed' = <<>>
    BY <1>2 DEF Handled, rxVars, Handed
  <2>2. CASE torn
    BY <2>1, <2>2 DEF Channel!Next, Channel!Break, IInv, Safety, TypeOK
  <2>3. CASE ~torn
    BY <2>1, <2>3 DEF Channel!Next, Channel!Done, Handed
  <2> QED BY <2>2, <2>3
<1>3. CASE Open
  <2>1. stored' = <<>> /\ torn' = FALSE /\ UNCHANGED Handed
    BY <1>3 DEF Open, Track, Handed
  <2>2. CASE torn
    BY <2>1, <2>2 DEF Channel!Next, Channel!Mend, Handed
  <2>3. CASE ~torn
    BY <2>1, <2>3 DEF Channel!Next, Channel!Reopen, Handed
  <2> QED BY <2>2, <2>3
<1> QED BY <1>1, <1>2, <1>3

\* The stack gets from transport_deliver_packets() what host_recv_pkt_cb() took in,
\* whole and in order, unless a length got in without its packet: for any ring
\* and any packets, every step is one of the channel's.
THEOREM ChannelCorrect == Spec => ImplementsChannel
<1>1. IInv /\ [Next]_vars => [Channel!Next]_<<stored, Handed, torn>>
  <2> SUFFICES ASSUME IInv, [Next]_vars
               PROVE  Channel!Next \/ UNCHANGED <<stored, Handed, torn>>
    OBVIOUS
  <2>1. CASE UNCHANGED vars
    BY <2>1 DEF vars, rxVars, Handed
  <2>2. CASE Next
    BY <2>2, ChannelReceive, ChannelDeliver, ChannelOther DEF Next, MainStep
  <2> QED BY <2>1, <2>2
<1> QED BY Invariance, ChannelInit, <1>1, PTL
     DEF Spec, ImplementsChannel, Channel!Spec, Handed
=============================================================================
