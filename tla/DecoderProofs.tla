--------------------------- MODULE DecoderProofs ---------------------------
(***************************************************************************)
(* The decoder for any MTU, any lengths and any way the stream is cut into *)
(* reads.                                                                  *)
(***************************************************************************)
EXTENDS Decoder, TLAPS

USE ConstantsAssumption DEF Header

\* The bytes that have not been handed out: n in the buffer, then the socket's.
Pend(b, s, n, w) == [i \in 0..n + Len(w) - 1 |-> IF i < n THEN b[s + i] ELSE w[i - n + 1]]

\* t bytes q are whole packets, numbered from f on, with l the next number:
\* each packet is complete, and after it comes the next or the end.
Framed(q, t, f, l) ==
  /\ IF t = 0 THEN f = l ELSE q[0].off = 0 /\ q[0].pkt = f
  /\ \A i \in 0..t - 1 : q[i].off = 0 =>
       /\ i + Header + q[i].len <= t
       /\ \A k \in 0..Header + q[i].len - 1 : q[i + k] = B(q[i].pkt, q[i].len, k)
       /\ IF i + Header + q[i].len = t THEN l = After(q[i].pkt)
          ELSE q[i + Header + q[i].len].off = 0 /\ q[i + Header + q[i].len].pkt = After(q[i].pkt)

First == IF op = "send" THEN After(next) ELSE next

IInv ==
  /\ TypeOK /\ RoomToReceive /\ PacketIsNext /\ WaitsForMore
  /\ op # "off" => Framed(Pend(buf, start, used, wire), used + Len(wire), First, sent)

-----------------------------------------------------------------------------
(* The stream.                                                             *)

LEMMA AfterType == \A p \in Pkts : After(p) \in Pkts
BY DEF Pkts, After

LEMMA ByteFields ==
  ASSUME NEW p \in Pkts, NEW len \in 0..MaxLen, NEW k \in 0..Header + len - 1
  PROVE  B(p, len, k) \in Byte
BY DEF B, Byte

LEMMA PendType ==
  ASSUME NEW b \in [Cells -> Byte], NEW s \in Nat, NEW n \in Nat, s + n <= Size, NEW w \in Seq(Byte)
  PROVE  /\ Pend(b, s, n, w) \in [0..n + Len(w) - 1 -> Byte]
         /\ n + Len(w) \in Nat
<1>1. ASSUME NEW i \in 0..n + Len(w) - 1 PROVE (IF i < n THEN b[s + i] ELSE w[i - n + 1]) \in Byte
  <2>1. CASE i < n
    BY <2>1 DEF Cells, Size
  <2>2. CASE ~(i < n)
    <3>1. i - n + 1 \in 1..Len(w)
      BY <2>2
    <3> QED
      BY <2>2, <3>1
  <2> QED
    BY <2>1, <2>2
<1>2. n + Len(w) \in Nat
  OBVIOUS
<1> QED
  BY <1>1, <1>2, Zenon DEF Pend

LEMMA Less == \A i, j, k \in Nat : i + j < k => i + j <= k /\ i + 0 = i
OBVIOUS

\* r is q, or q from m on, for t bytes.
Agree(r, q, m, t) == \A i \in 0..t - 1 : r[i] = q[m + i]
\* r has a packet at t.
HasPacket(r, t, p, len) == \A k \in 0..Header + len - 1 : r[t + k] = B(p, len, k)

LEMMA PacketFields ==
  ASSUME NEW r, NEW t \in Nat, NEW p, NEW len \in Nat, HasPacket(r, t, p, len), NEW i \in t..t + Header + len - 1
  PROVE  r[i].off = i - t /\ r[i].len = len /\ r[i].pkt = p
<1> DEFINE k == i - t
<1>1. k \in 0..Header + len - 1 /\ t + k = i
  OBVIOUS
<1> HIDE DEF k
<1>2. r[i] = B(p, len, k)
  BY <1>1 DEF HasPacket
<1>3. r[i].off = k /\ r[i].len = len /\ r[i].pkt = p
  BY <1>2 DEF B
<1> QED
  BY <1>3 DEF k

\* A packet is added at the end.
LEMMA FramedAdd ==
  ASSUME NEW t \in Nat, NEW q \in [0..t - 1 -> Byte], NEW f \in Pkts, NEW l \in Pkts, Framed(q, t, f, l),
         NEW len \in 0..MaxLen, NEW r,
         Agree(r, q, 0, t), HasPacket(r, t, l, len)
  PROVE  Framed(r, t + Header + len, f, After(l))
<1> DEFINE u == t + Header + len
<1>1. u \in Nat /\ u > 0 /\ u >= t + 2
  OBVIOUS
<1>2. \A i \in t..u - 1 : r[i].off = i - t /\ r[i].len = len /\ r[i].pkt = l
  BY PacketFields
<1>2a. \A i \in 0..t - 1 : r[i] = q[i]
  BY DEF Agree
<1>3. r[0].off = 0 /\ r[0].pkt = f
  <2>1. CASE t = 0
    BY <1>1, <2>1, <1>2 DEF Framed
  <2>2. CASE t # 0
    BY <1>2a, <2>2 DEF Framed
  <2> QED
    BY <2>1, <2>2
<1>4. ASSUME NEW i \in 0..u - 1, r[i].off = 0
      PROVE  /\ i + Header + r[i].len <= u
             /\ \A k \in 0..Header + r[i].len - 1 : r[i + k] = B(r[i].pkt, r[i].len, k)
             /\ IF i + Header + r[i].len = u THEN After(l) = After(r[i].pkt)
                ELSE r[i + Header + r[i].len].off = 0 /\ r[i + Header + r[i].len].pkt = After(r[i].pkt)
  <2>1. CASE i < t
    <3>1. i \in 0..t - 1 /\ r[i] = q[i] /\ q[i] \in Byte /\ q[i].len \in 0..MaxLen
      BY <1>2a, <2>1 DEF Byte
    <3> DEFINE n == q[i].len
    <3>2. /\ i + Header + n <= t
          /\ \A k \in 0..Header + n - 1 : q[i + k] = B(q[i].pkt, n, k)
          /\ IF i + Header + n = t THEN l = After(q[i].pkt)
             ELSE q[i + Header + n].off = 0 /\ q[i + Header + n].pkt = After(q[i].pkt)
      BY <1>4, <3>1 DEF Framed
    <3>3. n \in Nat
      BY <3>1
    <3> HIDE DEF n
    <3>4. \A k \in 0..Header + n - 1 : i + k \in 0..t - 1
      BY <3>2, <3>3
    <3>5. \A k \in 0..Header + n - 1 : r[i + k] = B(q[i].pkt, n, k)
      BY <1>2a, <3>2, <3>4
    <3>6. CASE i + Header + n = t
      <4>1. r[t].off = 0 /\ r[t].pkt = l
        BY <1>1, <1>2
      <4> QED
        BY <1>1, <3>1, <3>2, <3>5, <3>6, <4>1 DEF n
    <3>7. CASE i + Header + n # t
      <4>1. i + Header + n \in 0..t - 1
        BY <3>2, <3>3, <3>7
      <4>2. r[i + Header + n] = q[i + Header + n] /\ i + Header + n # u /\ i + Header + n <= u
        BY <1>1, <1>2a, <4>1
      <4> QED
        BY <3>1, <3>2, <3>5, <3>7, <4>2 DEF n
    <3> QED
      BY <3>6, <3>7
  <2>2. CASE i >= t
    <3>1. i \in t..u - 1
      BY <1>1, <2>2
    <3>2. r[i].off = i - t /\ r[i].len = len /\ r[i].pkt = l
      BY <1>2, <3>1
    <3>3. i = t
      BY <1>4, <3>1, <3>2
    <3> QED
      BY <3>2, <3>3 DEF HasPacket
  <2> QED
    BY <2>1, <2>2
<1> HIDE DEF u
<1>5. Framed(r, u, f, After(l))
  BY <1>1, <1>3, <1>4 DEF Framed
<1> QED
  BY <1>5 DEF u

IsFirst(m, q) == m = Header + q[0].len

\* The first packet is taken away.
LEMMA FramedDrop ==
  ASSUME NEW t \in Nat, NEW q \in [0..t - 1 -> Byte], NEW f \in Pkts, NEW l \in Pkts, Framed(q, t, f, l), t > 0,
         NEW m \in Nat, IsFirst(m, q), NEW r, Agree(r, q, m, t - m)
  PROVE  m <= t /\ Framed(r, t - m, After(f), l)
<1>1. 0 \in 0..t - 1 /\ q[0].off = 0 /\ q[0].pkt = f /\ q[0] \in Byte
  BY DEF Framed
<1>2. /\ m <= t
      /\ IF m = t THEN l = After(f) ELSE q[m].off = 0 /\ q[m].pkt = After(f)
  BY <1>1 DEF Framed, IsFirst
<1>3. IF t - m = 0 THEN After(f) = l ELSE r[0].off = 0 /\ r[0].pkt = After(f)
  <2>1. CASE m = t
    BY <1>2, <2>1
  <2>2. CASE m # t
    <3>1. 0 \in 0..t - m - 1
      BY <1>2, <2>2
    <3>2. r[0] = q[m]
      BY <3>1 DEF Agree
    <3> QED
      BY <1>2, <2>2, <3>2
  <2> QED
    BY <2>1, <2>2
<1>4. ASSUME NEW i \in 0..t - m - 1, r[i].off = 0
      PROVE  /\ i + Header + r[i].len <= t - m
             /\ \A k \in 0..Header + r[i].len - 1 : r[i + k] = B(r[i].pkt, r[i].len, k)
             /\ IF i + Header + r[i].len = t - m THEN l = After(r[i].pkt)
                ELSE r[i + Header + r[i].len].off = 0 /\ r[i + Header + r[i].len].pkt = After(r[i].pkt)
  <2> DEFINE j == m + i
             n == q[j].len
  <2>0. i \in Nat /\ j \in 0..t - 1 /\ j \in Nat /\ j = m + i
    OBVIOUS
  <2>1. r[i] = q[j]
    BY DEF Agree
  <2> HIDE DEF j
  <2>1a. n \in Nat
    <3>1. q[j] \in Byte
      BY <2>0
    <3>2. q[j].len \in 0..MaxLen
      BY <3>1 DEF Byte
    <3> QED
      BY <3>2
  <2>2. /\ j + Header + n <= t
        /\ \A k \in 0..Header + n - 1 : q[j + k] = B(q[j].pkt, n, k)
        /\ IF j + Header + n = t THEN l = After(q[j].pkt)
           ELSE q[j + Header + n].off = 0 /\ q[j + Header + n].pkt = After(q[j].pkt)
    BY <1>4, <2>0, <2>1 DEF Framed
  <2> HIDE DEF n
  <2>2a. m + i + Header + n <= t /\ j + Header + n = m + (i + Header + n) /\ i + Header + n <= t - m
    BY <2>0, <2>1a, <2>2
  <2>3. \A k \in 0..Header + n - 1 : i + k \in 0..t - m - 1 /\ m + (i + k) = j + k
    BY <2>0, <2>1a, <2>2a
  <2>4. \A k \in 0..Header + n - 1 : r[i + k] = B(q[j].pkt, n, k)
    BY <2>2, <2>3 DEF Agree
  <2>5. CASE j + Header + n = t
    <3>1. i + Header + n = t - m
      BY <2>0, <2>1a, <2>2a, <2>5
    <3>2. r[i].len = n /\ r[i].pkt = q[j].pkt
      BY <2>1 DEF n
    <3>3. l = After(q[j].pkt)
      BY <2>2, <2>5
    <3> QED
      BY <2>2a, <2>4, <3>1, <3>2, <3>3
  <2>6. CASE j + Header + n # t
    <3>1. i + Header + n \in 0..t - m - 1 /\ m + (i + Header + n) = j + Header + n
      BY <2>0, <2>1a, <2>2a, <2>6
    <3>2. r[i + Header + n] = q[j + Header + n]
      BY <3>1 DEF Agree
    <3> QED
      BY <2>0, <2>1, <2>1a, <2>2, <2>2a, <2>4, <2>6, <3>1, <3>2 DEF n
  <2> QED
    BY <2>5, <2>6
<1> QED
  BY <1>2, <1>3, <1>4, Zenon DEF Framed
-----------------------------------------------------------------------------
(* process_data.                                                           *)

\* Data that is moved, or not, is the same stream.
LEMMA ReceiveKeeps ==
  ASSUME NEW b \in [Cells -> Byte], NEW s \in 0..Size, NEW n \in 0..Size, s + n <= Size, n < Size,
         NEW w \in Seq(Byte), Receive(b, s, n)
  PROVE  /\ op' = "recv" /\ out' = out /\ used' = n /\ start' \in 0..Size /\ start' + n < Size
         /\ buf' \in [Cells -> Byte] /\ Pend(buf', start', n, w) = Pend(b, s, n, w)
         /\ \A i \in 0..n - 1 : buf'[start' + i] = b[s + i]
<1>0. Size \in Nat /\ Size >= 2
  BY DEF Size
<1>1. CASE s + n = Size
  <2>1. buf' = Moved(b, s, n) /\ start' = 0 /\ op' = "recv" /\ out' = out /\ used' = n
    BY <1>1 DEF Receive
  <2>2. \A i \in 0..n - 1 : i \in Cells /\ s + i \in Cells
    BY <1>0 DEF Cells
  <2>3. buf' \in [Cells -> Byte]
    <3>1. ASSUME NEW i \in Cells PROVE (IF i < n THEN b[s + i] ELSE b[i]) \in Byte
      <4>1. i \in Nat
        BY <1>0 DEF Cells
      <4>2. i < n => s + i \in Cells
        BY <2>2, <4>1
      <4> QED
        BY <4>2
    <3> QED
      BY <2>1, <3>1 DEF Moved
  <2>4. \A i \in 0..n - 1 : buf'[start' + i] = b[s + i]
    BY <2>1, <2>2 DEF Moved
  <2>5. Pend(buf', start', n, w) = Pend(b, s, n, w)
    BY <2>4 DEF Pend
  <2> QED
    BY <1>0, <2>1, <2>3, <2>4, <2>5
<1>2. CASE s + n # Size
  <2>1. buf' = b /\ start' = s /\ op' = "recv" /\ out' = out /\ used' = n
    BY <1>2 DEF Receive
  <2>2. s + n < Size
    BY <1>0, <1>2
  <2> QED
    BY <2>1, <2>2
<1> QED
  BY <1>1, <1>2

\* What process_data is called with.
Given(b, s, n, w, f, l) ==
  /\ b \in [Cells -> Byte] /\ s \in 0..Size /\ n \in 0..Size /\ s + n <= Size
  /\ w \in Seq(Byte) /\ f \in Pkts /\ l \in Pkts /\ out \in (0..Size) \X (0..Mtu)
  /\ Framed(Pend(b, s, n, w), n + Len(w), f, l)

LEMMA ProcessKeeps ==
  ASSUME NEW b, NEW s, NEW n, NEW w, NEW f, NEW l, Given(b, s, n, w, f, l), ProcessData(b, s, n)
  PROVE  /\ op' \in {"recv", "send", "off"} /\ buf' \in [Cells -> Byte]
         /\ start' \in 0..Size /\ used' \in 0..Size /\ start' + used' <= Size
         /\ out' \in (0..Size) \X (0..Mtu)
         /\ op' = "recv" => /\ RoomToReceive' /\ WaitsForMore'
                            /\ Framed(Pend(buf', start', used', w), used' + Len(w), f, l)
         /\ op' = "send" => /\ Framed(Pend(buf', start', used', w), used' + Len(w), After(f), l)
                            /\ \A i \in 0..out'[2] - 1 : buf'[out'[1] + i] = B(f, out'[2], Header + i)
         /\ op' = "off" => \E i \in Cells : buf'[i].pkt = f /\ buf'[i].off = 0 /\ buf'[i].len > Mtu
<1> DEFINE q == Pend(b, s, n, w)
           t == n + Len(w)
<1>0. Size \in Nat /\ Size >= 2 /\ Len(w) \in Nat /\ t \in Nat /\ s \in Nat /\ n \in Nat /\ s + n <= Size
  BY DEF Size, Given
<1>0a. Size = 2 + Mtu
  BY DEF Size
<1>1. q \in [0..t - 1 -> Byte]
  BY <1>0, PendType DEF Given
<1>2. \A i \in 0..n - 1 : i \in 0..t - 1 /\ q[i] = b[s + i] /\ s + i \in Cells
  BY <1>0 DEF Pend, Cells
<1>3. Framed(q, t, f, l) /\ f \in Pkts /\ l \in Pkts
  BY DEF Given
<1> HIDE DEF q, t
<1>4. CASE n < Header
  <2>1. Receive(b, s, n) /\ n < Size
    BY <1>0, <1>4 DEF ProcessData
  <2>2. /\ op' = "recv" /\ out' = out /\ used' = n /\ start' \in 0..Size /\ start' + n < Size
        /\ buf' \in [Cells -> Byte] /\ Pend(buf', start', n, w) = q
    BY <2>1, ReceiveKeeps DEF q, Given
  <2>2a. used' = n /\ start' \in Nat /\ start' + n < Size
    BY <2>2
  <2>2x. n \in Nat /\ Size \in Nat /\ ~(n >= Header)
    BY <1>0, <1>4
  <2>2z. start' \in Nat /\ start' + n < Size
    BY <2>2
  <2>2y. start' + n <= Size
    BY <2>2x, <2>2z, Less, Zenon
  <2>2b. start' + used' < Size /\ ~(used' >= Header) /\ start' + used' <= Size
    BY <2>2a, <2>2x, <2>2y, Zenon
  <2>3. RoomToReceive' /\ WaitsForMore'
    BY <2>2b DEF RoomToReceive, WaitsForMore
  <2> QED
    BY <1>3, <2>2, <2>2b, <2>3 DEF t, Given
<1>5. CASE n >= Header
  <2>1. t > 0 /\ 0 \in 0..n - 1 /\ 1 \in 0..n - 1
    BY <1>0, <1>5 DEF t
  <2>2. q[0].off = 0 /\ q[0].pkt = f /\ q[0] \in Byte /\ q[0] = b[s] /\ q[1] = b[s + 1] /\ s \in Cells
    BY <1>0, <1>1, <1>2, <1>3, <2>1, SMTT(30) DEF Framed
  <2> DEFINE len == q[0].len
  <2>3. len \in 0..MaxLen
    BY <2>2 DEF Byte
  <2>4. /\ Header + len <= t
        /\ \A k \in 0..Header + len - 1 : q[k] = B(f, len, k)
    <3>1. 0 \in 0..t - 1
      BY <1>0, <2>1
    <3>2. /\ 0 + Header + q[0].len <= t
          /\ \A k \in 0..Header + q[0].len - 1 : q[0 + k] = B(q[0].pkt, q[0].len, k)
      BY <1>3, <2>2, <3>1 DEF Framed
    <3>3. \A k \in 0..Header + len - 1 : 0 + k = k
      BY <2>3
    <3> QED
      BY <2>2, <2>3, <3>2, <3>3
  <2>5. HeaderLen(b[s], b[s + 1]) = {len}
    <3>1. 1 \in 0..Header + len - 1
      BY <2>3
    <3>2. b[s + 1] = B(b[s].pkt, b[s].len, 1)
      BY <2>2, <2>4, <3>1
    <3> QED
      BY <2>2, <3>2 DEF HeaderLen
  <2>6. b[s].len = len
    BY <2>2
  <2>6a. IsFirst(Header + len, q)
    BY DEF IsFirst
  <2> HIDE DEF len
  <2>7. IF TooLarge(len) THEN Fail(b)
        ELSE IF Complete(n, len) THEN Submit(b, s, n, len) ELSE Receive(b, s, n)
    BY <1>0, <1>5, <2>5 DEF ProcessData
  <2>8. CASE len > Mtu
    <3>1. op' = "off" /\ start' = 0 /\ used' = 0 /\ buf' = b /\ out' = out
      BY <2>7, <2>8 DEF TooLarge, Fail
    <3>2. 0 \in 0..Size /\ 0 + 0 <= Size
      BY <1>0
    <3>3. \E i \in Cells : buf'[i].pkt = f /\ buf'[i].off = 0 /\ buf'[i].len > Mtu
      BY <2>2, <2>6, <2>8, <3>1
    <3> QED
      BY <3>1, <3>2, <3>3 DEF Given
  <2>9. CASE ~(len > Mtu) /\ n - Header >= len
    <3> DEFINE m == Header + len
    <3>1. op' = "send" /\ out' = <<s + Header, len>> /\ start' = s + m /\ used' = n - m /\ buf' = b
      BY <1>0, <2>3, <2>7, <2>9 DEF TooLarge, Complete, Submit
    <3>2. /\ s + Header \in 0..Size /\ len \in 0..Mtu /\ s + m \in 0..Size /\ n - m \in 0..Size
          /\ (s + m) + (n - m) <= Size /\ m \in Nat /\ m <= n
      BY <1>0, <1>0a, <2>3, <2>9
    <3>3. out'[1] = s + Header /\ out'[2] = len
      BY <3>1
    <3>4. \A i \in 0..len - 1 : b[(s + Header) + i] = B(f, len, Header + i)
      <4> TAKE i \in 0..len - 1
      <4>1. Header + i \in 0..Header + len - 1 /\ Header + i \in 0..n - 1 /\ (s + Header) + i = s + (Header + i)
        BY <1>0, <2>3, <3>2
      <4>2. q[Header + i] = b[s + (Header + i)] /\ q[Header + i] = B(f, len, Header + i)
        BY <1>2, <2>4, <4>1
      <4> QED
        BY <4>1, <4>2, Zenon
    <3>5. IsFirst(m, q)
      BY <2>6a
    <3> HIDE DEF m
    <3> DEFINE r == Pend(b, s + m, n - m, w)
    <3>6. Agree(r, q, m, t - m)
      <4>1. (n - m) + Len(w) = t - m
        BY <1>0, <3>2 DEF t
      <4>2. ASSUME NEW i \in 0..t - m - 1 PROVE r[i] = q[m + i]
        <5>1. i \in 0..(n - m) + Len(w) - 1 /\ m + i \in 0..n + Len(w) - 1
          BY <1>0, <3>2, <4>1 DEF t
        <5>2. r[i] = IF i < n - m THEN b[s + m + i] ELSE w[i - (n - m) + 1]
          BY <5>1 DEF Pend
        <5>3. q[m + i] = IF m + i < n THEN b[s + (m + i)] ELSE w[(m + i) - n + 1]
          BY <5>1 DEF q, Pend
        <5>4. /\ (i < n - m) <=> (m + i < n)
              /\ s + m + i = s + (m + i) /\ i - (n - m) + 1 = (m + i) - n + 1
          BY <1>0, <3>2, <5>1
        <5> HIDE DEF r
        <5> QED
          BY <5>2, <5>3, <5>4
      <4> HIDE DEF r
      <4> QED
        BY <4>2 DEF Agree
    <3>7. Framed(r, t - m, After(f), l)
      <4> HIDE DEF r
      <4> QED
        BY <1>0, <1>1, <1>3, <2>1, <3>2, <3>5, <3>6, FramedDrop
    <3>8. t - m = (n - m) + Len(w)
      BY <1>0, <3>2 DEF t
    <3>9. Framed(Pend(buf', start', used', w), used' + Len(w), After(f), l)
      BY <3>1, <3>7, <3>8
    <3> QED
      BY <3>1, <3>2, <3>3, <3>4, <3>9, SMTT(30) DEF Given
  <2>10. CASE ~(len > Mtu) /\ ~(n - Header >= len)
    <3>1. Receive(b, s, n) /\ n < Size /\ n < Header + len /\ len <= Mtu
      BY <1>0, <1>0a, <2>3, <2>7, <2>10 DEF TooLarge, Complete
    <3>2. /\ op' = "recv" /\ out' = out /\ used' = n /\ start' \in 0..Size /\ start' + n < Size
          /\ buf' \in [Cells -> Byte] /\ Pend(buf', start', n, w) = q
          /\ \A i \in 0..n - 1 : buf'[start' + i] = b[s + i]
      BY <3>1, ReceiveKeeps, Zenon DEF q, Given
    <3>2a. used' = n /\ start' \in Nat /\ start' + n < Size
      BY <3>2
    <3>2x. n \in Nat /\ s \in Nat /\ Size \in Nat
      BY <1>0
    <3>2z. start' \in Nat /\ start' + n < Size
      BY <3>2
    <3>2w. s + 0 = s
      BY <3>2x
    <3>2y. start' + n <= Size /\ start' + 0 = start' /\ s + 0 = s
      BY <3>2w, <3>2x, <3>2z, Less, Zenon
    <3>2b. start' + used' <= Size /\ start' + 0 = start' /\ s + 0 = s
      BY <3>2a, <3>2y, Zenon
    <3>2c. buf'[start' + 0] = b[s + 0]
      BY <2>1, <3>2
    <3>3. start' + used' <= Size /\ buf'[start'] = b[s]
      BY <3>2b, <3>2c
    <3>4. RoomToReceive' /\ WaitsForMore'
      BY <2>2, <2>6, <3>1, <3>2, <3>3 DEF RoomToReceive, WaitsForMore
    <3> QED
      BY <1>3, <3>2, <3>3, <3>4 DEF t, Given
  <2> QED
    BY <2>8, <2>9, <2>10
<1> QED
  BY <1>0, <1>4, <1>5

-----------------------------------------------------------------------------
(* The actions.                                                            *)

\* A read moves bytes from the socket to the buffer and loses none.
LEMMA FilledKeeps ==
  ASSUME TypeOK, NEW n \in Nat, n <= Len(wire), n <= Size - (start + used)
  PROVE  /\ Filled(n) \in [Cells -> Byte] /\ SubSeq(wire, n + 1, Len(wire)) \in Seq(Byte)
         /\ used + n + Len(SubSeq(wire, n + 1, Len(wire))) = used + Len(wire)
         /\ Pend(Filled(n), start, used + n, SubSeq(wire, n + 1, Len(wire))) = Pend(buf, start, used, wire)
<1> DEFINE b == Filled(n)
           w == SubSeq(wire, n + 1, Len(wire))
           e == start + used
<1>0. /\ Size \in Nat /\ start \in Nat /\ used \in Nat /\ e \in Nat /\ wire \in Seq(Byte) /\ Len(wire) \in Nat
      /\ buf \in [Cells -> Byte] /\ e + n <= Size
  BY DEF TypeOK, Size
<1>1. w \in Seq(Byte) /\ Len(w) = Len(wire) - n /\ \A i \in 1..Len(wire) - n : w[i] = wire[n + i]
  BY <1>0
<1>2. \A i \in Cells : b[i] = IF i >= e /\ i < e + n THEN wire[i - e + 1] ELSE buf[i]
  BY DEF Filled
<1>3. ASSUME NEW i \in Cells PROVE (IF i >= e /\ i < e + n THEN wire[i - e + 1] ELSE buf[i]) \in Byte
  <2>1. i \in Nat
    BY <1>0 DEF Cells
  <2>2. CASE i >= e /\ i < e + n
    <3>1. i - e + 1 \in 1..Len(wire)
      BY <1>0, <2>1, <2>2
    <3> QED
      BY <1>0, <2>2, <3>1
  <2>3. CASE ~(i >= e /\ i < e + n)
    BY <1>0, <2>3
  <2> QED
    BY <2>2, <2>3
<1>4. b \in [Cells -> Byte]
  BY <1>3, Zenon DEF Filled
<1>5. used + n + Len(w) = used + Len(wire)
  <2>1. Len(w) = Len(wire) - n
    BY <1>1
  <2> HIDE DEF w
  <2> QED
    BY <1>0, <2>1
<1>6. ASSUME NEW i \in 0..used + Len(wire) - 1
      PROVE  (IF i < used + n THEN b[start + i] ELSE w[i - (used + n) + 1])
               = (IF i < used THEN buf[start + i] ELSE wire[i - used + 1])
  <2> HIDE DEF b, w
  <2>1. CASE i < used
    <3>1. start + i \in Cells /\ ~(start + i >= e) /\ i < used + n
      BY <1>0, <2>1 DEF Cells
    <3> QED
      BY <1>2, <2>1, <3>1
  <2>2. CASE ~(i < used) /\ i < used + n
    <3>1. start + i \in Cells /\ start + i >= e /\ start + i < e + n /\ (start + i) - e + 1 = i - used + 1
      BY <1>0, <2>2 DEF Cells
    <3>2. b[start + i] = wire[(start + i) - e + 1]
      BY <1>2, <3>1
    <3> QED
      BY <2>2, <3>1, <3>2
  <2>3. CASE ~(i < used) /\ ~(i < used + n)
    <3>1. i - (used + n) + 1 \in 1..Len(wire) - n /\ n + (i - (used + n) + 1) = i - used + 1
      BY <1>0, <2>3
    <3>2. w[i - (used + n) + 1] = wire[n + (i - (used + n) + 1)]
      BY <1>1, <3>1, Zenon
    <3> QED
      BY <2>3, <3>1, <3>2
  <2> QED
    BY <2>1, <2>2, <2>3
<1>7. Pend(b, start, used + n, w) = Pend(buf, start, used, wire)
  <2> HIDE DEF b, w
  <2>1. 0..used + n + Len(w) - 1 = 0..used + Len(wire) - 1
    BY <1>0, <1>5
  <2>2. \A i \in 0..used + Len(wire) - 1 :
          (IF i < used + n THEN b[start + i] ELSE w[i - (used + n) + 1])
            = (IF i < used THEN buf[start + i] ELSE wire[i - used + 1])
    BY <1>6
  <2> QED
    BY <2>1, <2>2, Zenon DEF Pend
<1> QED
  BY <1>1, <1>4, <1>5, <1>7

LEMMA InputKeeps ==
  ASSUME IInv, NEW n \in 1..Size, InputHandlerDone(n)
  PROVE  /\ IInv'
         /\ op' = "off" => \E i \in Cells : buf'[i].pkt = next' /\ buf'[i].off = 0 /\ buf'[i].len > Mtu
<1> DEFINE b == Filled(n)
           w == SubSeq(wire, n + 1, Len(wire))
<1>0. TypeOK /\ op = "recv" /\ Framed(Pend(buf, start, used, wire), used + Len(wire), next, sent)
  BY DEF IInv, First, InputHandlerDone
<1>1. wire' = w /\ sent' = sent /\ next' = next /\ ProcessData(b, start, used + n)
      /\ n \in Nat /\ n <= Len(wire) /\ n <= Size - (start + used)
  BY DEF InputHandlerDone, Size
<1>2. /\ b \in [Cells -> Byte] /\ w \in Seq(Byte) /\ (used + n) + Len(w) = used + Len(wire)
      /\ Pend(b, start, used + n, w) = Pend(buf, start, used, wire)
  BY <1>0, <1>1, FilledKeeps
<1> HIDE DEF b, w
<1>3. start \in 0..Size /\ used \in Nat /\ start \in Nat /\ Size \in Nat /\ next \in Pkts /\ sent \in Pkts
      /\ out \in (0..Size) \X (0..Mtu)
  BY <1>0 DEF TypeOK, Size
<1>4. used + n \in 0..Size /\ start + (used + n) <= Size
  BY <1>1, <1>3
<1>5. Given(b, start, used + n, w, next, sent)
  BY <1>0, <1>2, <1>3, <1>4 DEF Given
<1>6. /\ op' \in {"recv", "send", "off"} /\ buf' \in [Cells -> Byte]
      /\ start' \in 0..Size /\ used' \in 0..Size /\ start' + used' <= Size
      /\ out' \in (0..Size) \X (0..Mtu)
  BY <1>1, <1>5, ProcessKeeps
<1>7. TypeOK'
  BY <1>1, <1>2, <1>3, <1>6, Zenon DEF TypeOK
<1>8. /\ op' = "recv" => /\ RoomToReceive' /\ WaitsForMore'
                         /\ Framed(Pend(buf', start', used', wire'), used' + Len(wire'), next', sent')
      /\ op' = "send" => /\ Framed(Pend(buf', start', used', wire'), used' + Len(wire'), After(next'), sent')
                         /\ \A i \in 0..out'[2] - 1 : buf'[out'[1] + i] = B(next', out'[2], Header + i)
      /\ op' = "off" => \E i \in Cells : buf'[i].pkt = next' /\ buf'[i].off = 0 /\ buf'[i].len > Mtu
  BY <1>1, <1>5, ProcessKeeps
<1>9. RoomToReceive' /\ PacketIsNext' /\ WaitsForMore'
  BY <1>6, <1>8 DEF RoomToReceive, PacketIsNext, WaitsForMore
<1>10. op' # "off" => Framed(Pend(buf', start', used', wire'), used' + Len(wire'), First', sent')
  BY <1>6, <1>8 DEF First
<1> QED
  BY <1>7, <1>8, <1>9, <1>10 DEF IInv

LEMMA OutputKeeps ==
  ASSUME IInv, OutputHandlerDone
  PROVE  /\ IInv'
         /\ op' = "off" => \E i \in Cells : buf'[i].pkt = next' /\ buf'[i].off = 0 /\ buf'[i].len > Mtu
<1>0. TypeOK /\ op = "send" /\ Framed(Pend(buf, start, used, wire), used + Len(wire), After(next), sent)
  BY DEF IInv, First, OutputHandlerDone
<1>1. wire' = wire /\ sent' = sent /\ next' = After(next) /\ ProcessData(buf, start, used)
  BY DEF OutputHandlerDone
<1>2. next' \in Pkts
  BY <1>0, <1>1, AfterType DEF TypeOK
<1>3. Given(buf, start, used, wire, next', sent)
  BY <1>0, <1>1, <1>2 DEF Given, TypeOK
<1>4. wire' \in Seq(Byte) /\ sent' \in Pkts
  BY <1>0, <1>1 DEF TypeOK
<1>6. /\ op' \in {"recv", "send", "off"} /\ buf' \in [Cells -> Byte]
      /\ start' \in 0..Size /\ used' \in 0..Size /\ start' + used' <= Size
      /\ out' \in (0..Size) \X (0..Mtu)
  BY <1>1, <1>3, ProcessKeeps
<1>7. TypeOK'
  BY <1>2, <1>4, <1>6 DEF TypeOK
<1>8. /\ op' = "recv" => /\ RoomToReceive' /\ WaitsForMore'
                         /\ Framed(Pend(buf', start', used', wire'), used' + Len(wire'), next', sent')
      /\ op' = "send" => /\ Framed(Pend(buf', start', used', wire'), used' + Len(wire'), After(next'), sent')
                         /\ \A i \in 0..out'[2] - 1 : buf'[out'[1] + i] = B(next', out'[2], Header + i)
      /\ op' = "off" => \E i \in Cells : buf'[i].pkt = next' /\ buf'[i].off = 0 /\ buf'[i].len > Mtu
  BY <1>1, <1>3, ProcessKeeps, SMTT(30)
<1>9. RoomToReceive' /\ PacketIsNext' /\ WaitsForMore'
  BY <1>6, <1>8 DEF RoomToReceive, PacketIsNext, WaitsForMore
<1>10. op' # "off" => Framed(Pend(buf', start', used', wire'), used' + Len(wire'), First', sent')
  BY <1>6, <1>8 DEF First
<1> QED
  BY <1>7, <1>8, <1>9, <1>10 DEF IInv

LEMMA ServerSendsKeeps ==
  ASSUME IInv, NEW len \in 0..MaxLen, ServerSends(len)
  PROVE  IInv'
<1> DEFINE t == used + Len(wire)
           q == Pend(buf, start, used, wire)
           p == [i \in 1..Header + len |-> B(sent, len, i - 1)]
           r == Pend(buf, start, used, wire \o p)
<1>0. TypeOK /\ op # "off" /\ Framed(q, t, First, sent)
  BY DEF IInv, ServerSends
<1>1. wire' = wire \o p /\ sent' = After(sent)
      /\ op' = op /\ buf' = buf /\ start' = start /\ used' = used /\ out' = out /\ next' = next
  BY DEF ServerSends
<1>2. p \in Seq(Byte) /\ Len(p) = Header + len
  <2>1. \A i \in 1..Header + len : B(sent, len, i - 1) \in Byte
    BY <1>0, ByteFields DEF TypeOK
  <2> QED
    BY <2>1
<1>3. /\ wire \o p \in Seq(Byte) /\ Len(wire \o p) = Len(wire) + (Header + len)
      /\ \A i \in 1..Len(wire) : (wire \o p)[i] = wire[i]
      /\ \A i \in 1..Header + len : (wire \o p)[Len(wire) + i] = p[i]
  BY <1>0, <1>2 DEF TypeOK
<1>4. \A i \in 1..Header + len : p[i] = B(sent, len, i - 1)
  OBVIOUS
<1>5. used \in Nat /\ Len(wire) \in Nat /\ t \in Nat /\ start \in Nat /\ start + used <= Size
  BY <1>0 DEF TypeOK, Size
<1>6. First \in Pkts /\ After(sent) \in Pkts /\ sent \in Pkts
  BY <1>0, AfterType DEF TypeOK, First
<1>7. q \in [0..t - 1 -> Byte]
  BY <1>0, <1>5, PendType DEF TypeOK
<1> DEFINE v == wire \o p
<1> HIDE DEF p, v
<1>8. \A i \in 0..used + Len(v) - 1 : r[i] = IF i < used THEN buf[start + i] ELSE v[i - used + 1]
  BY Zenon DEF Pend, v
<1>9. \A i \in 0..t - 1 : q[i] = IF i < used THEN buf[start + i] ELSE wire[i - used + 1]
  <2>1. \A i \in 0..t - 1 : i \in 0..used + Len(wire) - 1
    BY <1>5
  <2>2. \A i \in 0..used + Len(wire) - 1 : q[i] = IF i < used THEN buf[start + i] ELSE wire[i - used + 1]
    BY DEF Pend
  <2> HIDE DEF q, t
  <2> QED
    BY <2>1, <2>2
<1>10. Len(v) = Len(wire) + (Header + len) /\ \A i \in 1..Len(wire) : v[i] = wire[i]
  BY <1>3 DEF v
<1>10a. \A i \in 1..Header + len : v[Len(wire) + i] = B(sent, len, i - 1)
  BY <1>3, <1>4 DEF v
<1> HIDE DEF q, r
<1>11. Agree(r, q, 0, t)
  <2>1. ASSUME NEW i \in 0..t - 1 PROVE r[i] = q[0 + i]
    <3>1. i \in 0..used + Len(v) - 1 /\ 0 + i = i
      BY <1>5, <1>10
    <3>2. CASE i < used
      BY <1>8, <1>9, <3>1, <3>2
    <3>3. CASE ~(i < used)
      <4>1. i - used + 1 \in 1..Len(wire)
        BY <1>5, <3>3
      <4> QED
        BY <1>8, <1>9, <1>10, <3>1, <3>3, <4>1
    <3> QED
      BY <3>2, <3>3
  <2> HIDE DEF t
  <2> QED
    BY <2>1 DEF Agree
<1>12. HasPacket(r, t, sent, len)
  <2>1. ASSUME NEW k \in 0..Header + len - 1 PROVE r[t + k] = B(sent, len, k)
    <3>1. /\ t + k \in 0..used + Len(v) - 1 /\ ~(t + k < used)
          /\ (t + k) - used + 1 = Len(wire) + (k + 1) /\ k + 1 \in 1..Header + len /\ (k + 1) - 1 = k
      BY <1>5, <1>10
    <3>2. r[t + k] = v[(t + k) - used + 1]
      BY <1>8, <3>1
    <3>3. v[Len(wire) + (k + 1)] = B(sent, len, (k + 1) - 1)
      BY <1>10a, <3>1, Zenon
    <3> QED
      BY <3>1, <3>2, <3>3
  <2> HIDE DEF t
  <2> QED
    BY <2>1 DEF HasPacket
<1>13. Framed(r, t + Header + len, First, After(sent))
  <2> HIDE DEF t
  <2> QED
    BY <1>0, <1>5, <1>6, <1>7, <1>11, <1>12, FramedAdd
<1>14. used + Len(v) = t + Header + len
  BY <1>5, <1>10
<1>15. First' = First /\ Pend(buf', start', used', wire') = r /\ used' + Len(wire') = t + Header + len
  BY <1>1, <1>14 DEF First, r, v
<1>16. TypeOK' /\ RoomToReceive' /\ PacketIsNext' /\ WaitsForMore'
  BY <1>0, <1>1, <1>3, <1>6 DEF IInv, TypeOK, RoomToReceive, PacketIsNext, WaitsForMore
<1> QED
  BY <1>1, <1>13, <1>15, <1>16 DEF IInv

LEMMA NewDecoder ==
  ASSUME NEW b, b = [i \in Cells |-> B(0, 0, 0)]
  PROVE  b \in [Cells -> Byte] /\ 0 \in Pkts /\ Size \in Nat /\ Size > 0 /\ Framed(Pend(b, 0, 0, <<>>), 0, 0, 0)
<1>1. 0 \in Pkts /\ Size \in Nat /\ Size > 0 /\ 0 \in 0..MaxLen /\ 0 \in 0..Header + 0 - 1
  BY DEF Pkts, Size
<1>2. B(0, 0, 0) \in Byte
  BY <1>1, ByteFields
<1>3. Framed(Pend(b, 0, 0, <<>>), 0, 0, 0)
  BY DEF Framed
<1> QED
  BY <1>1, <1>2, <1>3

LEMMA InitIInv == Init => IInv
<1> SUFFICES ASSUME Init PROVE IInv
  OBVIOUS
<1>1. /\ op = "recv" /\ start = 0 /\ used = 0 /\ out = <<0, 0>>
      /\ buf = [i \in Cells |-> B(0, 0, 0)] /\ wire = <<>> /\ sent = 0 /\ next = 0
  BY DEF Init
<1>2. buf \in [Cells -> Byte] /\ 0 \in Pkts /\ Size \in Nat /\ Size > 0 /\ Framed(Pend(buf, 0, 0, <<>>), 0, 0, 0)
  BY <1>1, NewDecoder
<1>3. used + Len(wire) = 0
  BY <1>1
<1>4. op # "off" => Framed(Pend(buf, start, used, wire), used + Len(wire), First, sent)
  BY <1>1, <1>2, <1>3 DEF First
<1>5. wire \in Seq(Byte) /\ out \in (0..Size) \X (0..Mtu) /\ start + used = 0
  BY <1>1, <1>2
<1> QED
  BY <1>1, <1>2, <1>4, <1>5 DEF IInv, TypeOK, RoomToReceive, PacketIsNext, WaitsForMore

\* Every action keeps the inductive invariant.
LEMMA NextKeeps == IInv /\ [Next]_vars => IInv'
<1> SUFFICES ASSUME IInv, [Next]_vars PROVE IInv'
  OBVIOUS
<1>1. CASE Receives
  BY <1>1, InputKeeps DEF Receives
<1>2. CASE OutputHandlerDone
  BY <1>2, OutputKeeps
<1>3. CASE \E len \in 0..MaxLen : ServerSends(len)
  BY <1>3, ServerSendsKeeps
<1>4. CASE ServerLost
  <2>1. /\ op' = "off" /\ start' = 0 /\ used' = 0 /\ buf' = buf /\ out' = out /\ wire' = wire
        /\ sent' = sent /\ next' = next
    BY <1>4 DEF ServerLost
  <2>2. Size \in Nat
    BY DEF Size
  <2> QED
    BY <2>1, <2>2 DEF IInv, TypeOK, RoomToReceive, PacketIsNext, WaitsForMore
<1>5. CASE ConnectServer
  <2>1. /\ op' = "recv" /\ start' = 0 /\ used' = 0 /\ out' = <<0, 0>>
        /\ buf' = [i \in Cells |-> B(0, 0, 0)] /\ wire' = <<>> /\ sent' = 0 /\ next' = 0
    BY <1>5 DEF ConnectServer
  <2>2. /\ buf' \in [Cells -> Byte] /\ 0 \in Pkts /\ Size \in Nat /\ Size > 0
        /\ Framed(Pend(buf', 0, 0, <<>>), 0, 0, 0)
    BY <2>1, NewDecoder
  <2>3. used' + Len(wire') = 0
    BY <2>1
  <2>4. op' # "off" => Framed(Pend(buf', start', used', wire'), used' + Len(wire'), First', sent')
    BY <2>1, <2>2, <2>3 DEF First
  <2>5. wire' \in Seq(Byte) /\ out' \in (0..Size) \X (0..Mtu) /\ start' + used' = 0
    BY <2>1, <2>2
  <2> QED
    BY <2>1, <2>2, <2>4, <2>5 DEF IInv, TypeOK, RoomToReceive, PacketIsNext, WaitsForMore
<1>6. CASE UNCHANGED vars
  BY <1>6 DEF vars, IInv, TypeOK, RoomToReceive, PacketIsNext, WaitsForMore, First
<1> QED
  BY <1>1, <1>2, <1>3, <1>4, <1>5, <1>6 DEF Next

LEMMA IInvAlways == Spec => []IInv
BY InitIInv, NextKeeps, PTL DEF Spec

\* process_data never asks the socket for zero bytes: for any MTU and any way
\* the stream is cut, moving the data down leaves room for the rest.
THEOREM RoomToReceiveHolds == Spec => []RoomToReceive
<1>1. IInv => RoomToReceive
  BY DEF IInv
<1> QED
  BY <1>1, IInvAlways, PTL

\* The packet that process_data submits is the server's next, whole and intact.
THEOREM PacketIsNextHolds == Spec => []PacketIsNext
<1>1. IInv => PacketIsNext
  BY DEF IInv
<1> QED
  BY <1>1, IInvAlways, PTL

\* process_data goes back to the socket only without a whole packet in buf.
THEOREM WaitsForMoreHolds == Spec => []WaitsForMore
<1>1. IInv => WaitsForMore
  BY DEF IInv
<1> QED
  BY <1>1, IInvAlways, PTL

\* However the socket and process_data cut the stream, once there is nothing
\* left to read every packet that the server has sent has been handed out.
THEOREM AllHandedOutHolds == Spec => []AllHandedOut
<1>1. IInv => AllHandedOut
  <2> SUFFICES ASSUME IInv, op = "recv", wire = <<>> PROVE used = 0 /\ next = sent
    BY DEF AllHandedOut
  <2> DEFINE q == Pend(buf, start, used, wire)
  <2>1. Len(wire) = 0 /\ used \in Nat /\ used + Len(wire) = used
    BY DEF IInv, TypeOK
  <2>2. Framed(q, used, next, sent)
    BY <2>1 DEF IInv, First
  <2>3. ASSUME used # 0 PROVE FALSE
    <3>1. 0 \in 0..used + Len(wire) - 1 /\ 0 < used /\ start + 0 = start /\ start \in Cells
      BY <2>1, <2>3 DEF IInv, TypeOK, Cells, Size
    <3>1a. q[0] = buf[start]
      BY <3>1 DEF Pend
    <3>1b. buf[start].len \in Nat
      BY <3>1 DEF IInv, TypeOK, Byte
    <3> HIDE DEF q
    <3>2. q[0].off = 0 /\ 0 + Header + q[0].len <= used
      BY <2>1, <2>2, <2>3, <3>1 DEF Framed
    <3>3. used >= Header => used < Header + buf[start].len
      BY DEF IInv, WaitsForMore
    <3> QED
      BY <2>1, <3>1a, <3>1b, <3>2, <3>3
  <2> HIDE DEF q
  <2> QED
    BY <2>2, <2>3 DEF Framed
<1> QED
  BY <1>1, IInvAlways, PTL

\* The error of process_data is reported only for a packet above output_mtu,
\* with every packet before it handed out.
THEOREM ErrorIsTooLargeHolds == Spec => ErrorIsTooLarge
<1> DEFINE A == op # "off" /\ op' = "off" /\ ~ServerLost =>
                 \E i \in Cells : buf'[i].pkt = next' /\ buf'[i].off = 0 /\ buf'[i].len > Mtu
<1>1. IInv /\ [Next]_vars => [A]_vars
  <2> SUFFICES ASSUME IInv, Next, op # "off", op' = "off", ~ServerLost
               PROVE  \E i \in Cells : buf'[i].pkt = next' /\ buf'[i].off = 0 /\ buf'[i].len > Mtu
    OBVIOUS
  <2>1. CASE Receives
    BY <2>1, InputKeeps DEF Receives
  <2>2. CASE OutputHandlerDone
    BY <2>2, OutputKeeps
  <2>3. CASE \E len \in 0..MaxLen : ServerSends(len)
    BY <2>3 DEF ServerSends
  <2>4. CASE ConnectServer
    BY <2>4 DEF ConnectServer
  <2> QED
    BY <2>1, <2>2, <2>3, <2>4 DEF Next
<1> QED
  BY <1>1, IInvAlways, PTL DEF Spec, ErrorIsTooLarge
\* The decoder keeps within its buffer: start, used and what it receives into
\* never leave it.
THEOREM TypeCorrect == Spec => []TypeOK
<1>1. IInv => TypeOK
  BY DEF IInv
<1> QED
  BY <1>1, IInvAlways, PTL

=============================================================================
