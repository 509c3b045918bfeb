------------------------- MODULE PacketStreamProofs -------------------------
(***************************************************************************)
(* Proofs about PacketStream, for all lengths and any number of packets.   *)
(***************************************************************************)
EXTENDS PacketStream, SequenceTheorems, TLAPS

(***************************************************************************)
(* The bytes read and under way are the stream from a packet's beginning:  *)
(* start gives the place of each packet in the stream, so that no          *)
(* induction on packets is needed.                                         *)
(***************************************************************************)
InFlight == long_pkg \o transit

Starts(start) ==
    /\ start \in [1 .. Len(sent) + 1 -> Nat]
    /\ \A i \in 1 .. Len(sent) : start[i + 1] = start[i] + Size(i)
    /\ \A i, j \in 1 .. Len(sent) + 1 : i <= j => start[i] <= start[j]

Holds(start) ==
    LET first == Len(delivered) + 1 IN
    /\ Len(InFlight) = start[Len(sent) + 1] - start[first]
    /\ \A i \in first .. Len(sent) : \A k \in 1 .. Size(i) :
          InFlight[start[i] - start[first] + k] = [pkg |-> i, at |-> k]

Aligned == \E start : Starts(start) /\ Holds(start)

Shaken == kind = "ws" => is_shake_hand

\* Aligned speaks of an open connection: when it ends, bytes are dropped.
FramingInv ==
    /\ DeliveredInOrder
    /\ socket = "open" /\ Shaken => Aligned
    /\ ~Shaken => sent = <<>> /\ delivered = <<>> /\ ~running

------------------------------------------------------------------------------
(* Lengths and bytes                                                       *)

\* The bytes around a body make a packet of at least two bytes more.
LEMMA Lengths ==
    ASSUME TypeOK
    PROVE  /\ HeadLen \in {0, 2, 6} /\ TailLen \in {0, 2} /\ HeadLen + TailLen >= 2
           /\ \A i \in 1 .. Len(sent) : /\ sent[i] \in Nat
                                       /\ Size(i) \in Nat /\ Size(i) >= 2
                                       /\ HeadLen + 1 <= Size(i) + 1
<1>1. HeadLen \in {0, 2, 6} /\ TailLen \in {0, 2} /\ HeadLen + TailLen >= 2
  BY KindsAssumption DEF TypeOK, HeadLen, TailLen
<1>2. ASSUME NEW i \in 1 .. Len(sent) PROVE sent[i] \in Nat
  <2>1. sent[i] \in Bodies \cup {0}
    BY DEF TypeOK
  <2> QED
    BY <2>1, BodiesAssumption, 0 \in Nat, Zenon
<1> QED
  BY <1>1, <1>2 DEF Size

\* A run of the bytes of one packet.
LEMMA BytesSeq ==
    ASSUME NEW i \in 0 .. MaxSent, NEW f \in Nat \ {0}, NEW l \in Nat, f <= l + 1
    PROVE  /\ Bytes(i, f, l) \in Seq(Byte)
           /\ Len(Bytes(i, f, l)) = l - f + 1
           /\ \A k \in 1 .. l - f + 1 : Bytes(i, f, l)[k] = [pkg |-> i, at |-> f + k - 1]
<1>1. l - f + 1 \in Nat
  OBVIOUS
<1>2. \A k \in 1 .. l - f + 1 : [pkg |-> i, at |-> f + k - 1] \in Byte
  BY DEF Byte
<1>3. Bytes(i, f, l) \in [1 .. l - f + 1 -> Byte]
  BY <1>2 DEF Bytes
<1>4. Bytes(i, f, l) \in Seq(Byte) /\ Len(Bytes(i, f, l)) = l - f + 1
  BY <1>1, <1>3
<1> QED
  BY <1>4 DEF Bytes

\* The buffer begins with the bytes of the next packet.
LEMMA NextInFront ==
    ASSUME TypeOK, Aligned, Len(delivered) <= Len(sent), Len(long_pkg) > 0
    PROVE  /\ Len(delivered) + 1 \in 1 .. Len(sent)
           /\ \A k \in 1 .. Size(Len(delivered) + 1) : k <= Len(long_pkg) =>
                 long_pkg[k] = [pkg |-> Len(delivered) + 1, at |-> k]
<1> DEFINE next == Len(delivered) + 1
<1>1. PICK start : Starts(start) /\ Holds(start)
  BY DEF Aligned
<1>2. Len(sent) \in Nat /\ Len(delivered) \in Nat /\ next \in 1 .. Len(sent) + 1
  BY DEF TypeOK
<1>3. Len(InFlight) >= Len(long_pkg) /\ Len(long_pkg) \in Nat
  BY DEF TypeOK, InFlight
<1>4. start[next] < start[Len(sent) + 1]
  <2>1. start[next] \in Nat /\ start[Len(sent) + 1] \in Nat
    BY <1>1, <1>2 DEF Starts
  <2> QED
    BY <1>1, <1>3, <2>1 DEF Holds
<1>5. next \in 1 .. Len(sent)
  BY <1>2, <1>4, <1>1 DEF Starts
<1>6. ASSUME NEW k \in 1 .. Size(next), k <= Len(long_pkg)
      PROVE  long_pkg[k] = [pkg |-> next, at |-> k]
  <2>1. Size(next) \in Nat
    BY <1>5, Lengths
  <2>2. InFlight[k] = long_pkg[k]
    BY <1>6, <2>1 DEF InFlight, TypeOK
  <2>3. start[next] - start[next] + k = k
    BY <1>1, <1>2, <2>1 DEF Starts
  <2>4. InFlight[start[next] - start[next] + k] = [pkg |-> next, at |-> k]
    BY <1>1, <1>5, <2>1 DEF Holds
  <2> QED
    BY <2>2, <2>3, <2>4
<1> QED
  BY <1>5, <1>6

\* The length the loop finds is that of the next packet, or it finds none; it does
\* find that of a packet that is there in full.
LEMMA PkgSize ==
    ASSUME TypeOK, Aligned, Len(delivered) <= Len(sent), Len(long_pkg) > 0,
           Complete \/ Size(Len(delivered) + 1) <= Len(long_pkg)
    PROVE  pkg_size = Size(Len(delivered) + 1)
<1> DEFINE next == Len(delivered) + 1
           size == Size(next)
<1>1. /\ next \in 1 .. Len(sent)
      /\ \A k \in 1 .. size : k <= Len(long_pkg) => long_pkg[k] = [pkg |-> next, at |-> k]
  BY NextInFront
<1>2. size \in Nat /\ size >= 2 /\ Len(long_pkg) \in Nat
  BY <1>1, Lengths DEF TypeOK
<1>3. CASE kind # "json"
  <2>1. Head(long_pkg) = long_pkg[1]
    BY DEF TypeOK
  <2>2. long_pkg[1] = [pkg |-> next, at |-> 1]
    <3>1. 1 \in 1 .. size /\ 1 <= Len(long_pkg)
      BY <1>2
    <3> QED
      BY <1>1, <3>1
  <2> QED
    BY <1>3, <2>1, <2>2 DEF pkg_size
<1>4. CASE kind = "json"
  <2> DEFINE tails == {k \in 1 .. Len(long_pkg) - 1 :
                          /\ long_pkg[k].at = Size(long_pkg[k].pkg) - 1
                          /\ long_pkg[k + 1].at = Size(long_pkg[k].pkg)}
  <2>1. pkg_size = IF tails = {} THEN 0
                   ELSE (CHOOSE k \in tails : \A j \in tails : k <= j) + 1
    BY <1>4 DEF pkg_size
  <2>2. \A k \in tails : k >= size - 1
    <3> SUFFICES ASSUME NEW k \in tails PROVE k >= size - 1
      OBVIOUS
    <3>1. k \in Nat
      BY <1>2
    <3>2. ASSUME k < size - 1 PROVE FALSE
      <4>1. k \in 1 .. size /\ k <= Len(long_pkg)
        BY <1>2, <3>2
      <4>2. long_pkg[k] = [pkg |-> next, at |-> k]
        BY <4>1, <1>1
      <4> QED
        BY <3>2, <4>2, <1>2
    <3> QED
      BY <3>1, <3>2, <1>2
  <2>3. ASSUME Complete PROVE size <= Len(long_pkg)
    <3>1. tails # {}
      BY <2>1, <2>3, <1>2 DEF Complete
    <3> QED
      BY <2>2, <3>1, <1>2
  <2>4. size <= Len(long_pkg)
    BY <2>3
  <2>5. size - 1 \in tails
    <3>1. /\ long_pkg[size - 1] = [pkg |-> next, at |-> size - 1]
          /\ long_pkg[size] = [pkg |-> next, at |-> size]
      BY <1>1, <1>2, <2>4
    <3>2. size - 1 + 1 = size /\ size - 1 \in 1 .. Len(long_pkg) - 1
      BY <1>2, <2>4
    <3> QED
      BY <3>1, <3>2
  <2>6. (CHOOSE k \in tails : \A j \in tails : k <= j) = size - 1
    <3> DEFINE least(k) == \A j \in tails : k <= j
               min == CHOOSE k \in tails : least(k)
    <3>1. \E k \in tails : least(k)
      BY <2>2, <2>5, <1>2
    <3>2. min \in tails /\ least(min)
      <4> HIDE DEF tails, least
      <4> QED
        BY <3>1
    <3>3. min \in Int
      <4> HIDE DEF min
      <4> QED
        BY <3>2, <1>2
    <3>4. min <= size - 1 /\ min >= size - 1
      <4> HIDE DEF tails, min
      <4> QED
        BY <3>2, <2>2, <2>5
    <3> HIDE DEF min
    <3>5. min = size - 1
      BY <3>3, <3>4, <1>2
    <3> QED
      BY <3>5 DEF min
  <2>7. pkg_size = size - 1 + 1
    <3> HIDE DEF tails, size
    <3>1. pkg_size = (CHOOSE k \in tails : \A j \in tails : k <= j) + 1
      BY <2>1, <2>5, Zenon
    <3> QED
      BY <2>6, <3>1, Zenon
  <2> QED
    BY <2>7, <1>2
<1> QED
  BY <1>3, <1>4

------------------------------------------------------------------------------
(* The stream under the steps that move it                                 *)

LEMMA InFlightSeq ==
    ASSUME TypeOK
    PROVE  /\ InFlight \in Seq(Byte)
           /\ Len(InFlight) = Len(long_pkg) + Len(transit)
           /\ \A k \in 1 .. Len(long_pkg) + Len(transit) :
                 InFlight[k] = IF k <= Len(long_pkg) THEN long_pkg[k]
                               ELSE transit[k - Len(long_pkg)]
<1>1. long_pkg \in Seq(Byte) /\ transit \in Seq(Byte)
  BY DEF TypeOK
<1> QED
  BY <1>1, ConcatProperties DEF InFlight

\* Cutting a sequence in two loses nothing.
LEMMA CutSeq ==
    ASSUME NEW S, NEW s \in Seq(S), NEW n \in 0 .. Len(s)
    PROVE  /\ SubSeq(s, 1, n) \in Seq(S) /\ Len(SubSeq(s, 1, n)) = n
           /\ \A k \in 1 .. n : SubSeq(s, 1, n)[k] = s[k]
           /\ SubSeq(s, n + 1, Len(s)) \in Seq(S)
           /\ Len(SubSeq(s, n + 1, Len(s))) = Len(s) - n
           /\ \A k \in 1 .. Len(s) - n : SubSeq(s, n + 1, Len(s))[k] = s[n + k]
           /\ SubSeq(s, 1, n) \o SubSeq(s, n + 1, Len(s)) = s
<1>1. Len(s) \in Nat /\ \A k \in 1 .. Len(s) : s[k] \in S
  BY ElementOfSeq
<1>2. \A k \in 1 .. n : s[k] \in S
  BY <1>1
<1>3. \A k \in n + 1 .. Len(s) : s[k] \in S
  BY <1>1
<1>4. /\ SubSeq(s, 1, n) \in Seq(S)
      /\ Len(SubSeq(s, 1, n)) = IF 1 <= n THEN n - 1 + 1 ELSE 0
      /\ \A k \in 1 .. n - 1 + 1 : SubSeq(s, 1, n)[k] = s[1 + k - 1]
  BY <1>1, <1>2, SubSeqProperties
<1>5. /\ SubSeq(s, n + 1, Len(s)) \in Seq(S)
      /\ Len(SubSeq(s, n + 1, Len(s))) = IF n + 1 <= Len(s) THEN Len(s) - (n + 1) + 1 ELSE 0
      /\ \A k \in 1 .. Len(s) - (n + 1) + 1 :
            SubSeq(s, n + 1, Len(s))[k] = s[n + 1 + k - 1]
  <2>1. n + 1 \in Int
    BY <1>1
  <2> QED
    BY <1>1, <1>3, <2>1, SubSeqProperties
<1>6. SubSeq(s, 1, n) \o SubSeq(s, n + 1, Len(s)) = s
  <2>1. 1 \in 1 .. Len(s) + 1 /\ n \in 1 - 1 .. Len(s) /\ Len(s) \in n .. Len(s)
    BY <1>1
  <2>2. SubSeq(s, 1, n) \o SubSeq(s, n + 1, Len(s)) = SubSeq(s, 1, Len(s))
    BY <2>1, ConcatAdjacentSubSeq
  <2> QED
    BY <2>2, SubSeqFull
<1>7. \A k \in 1 .. n : SubSeq(s, 1, n)[k] = s[k]
  BY <1>1, <1>4
<1>8. \A k \in 1 .. Len(s) - n : SubSeq(s, n + 1, Len(s))[k] = s[n + k]
  BY <1>1, <1>5
<1>9. Len(SubSeq(s, 1, n)) = n /\ Len(SubSeq(s, n + 1, Len(s))) = Len(s) - n
  BY <1>1, <1>4, <1>5
<1> QED
  BY <1>4, <1>5, <1>6, <1>7, <1>8, <1>9, Zenon

\* A read moves bytes and changes none.
LEMMA ReadKeeps ==
    ASSUME TypeOK, NEW n \in 1 .. Len(transit),
           long_pkg' = long_pkg \o SubSeq(transit, 1, n),
           transit' = SubSeq(transit, n + 1, Len(transit))
    PROVE  InFlight' = InFlight /\ long_pkg' \in Seq(Byte) /\ transit' \in Seq(Byte)
<1>1. long_pkg \in Seq(Byte) /\ transit \in Seq(Byte) /\ n \in 0 .. Len(transit)
  BY DEF TypeOK
<1>2. /\ SubSeq(transit, 1, n) \in Seq(Byte)
      /\ SubSeq(transit, n + 1, Len(transit)) \in Seq(Byte)
      /\ SubSeq(transit, 1, n) \o SubSeq(transit, n + 1, Len(transit)) = transit
  BY <1>1, CutSeq
<1>3. (long_pkg \o SubSeq(transit, 1, n)) \o SubSeq(transit, n + 1, Len(transit))
        = long_pkg \o transit
  <2>1. \A a, b, c \in Seq(Byte) : (a \o b) \o c = a \o (b \o c)
    BY ConcatAssociative
  <2>2. (long_pkg \o SubSeq(transit, 1, n)) \o SubSeq(transit, n + 1, Len(transit))
          = long_pkg \o (SubSeq(transit, 1, n) \o SubSeq(transit, n + 1, Len(transit)))
    BY <1>1, <1>2, <2>1, Zenon
  <2> QED
    BY <1>2, <2>2, Zenon
<1>4. long_pkg \o SubSeq(transit, 1, n) \in Seq(Byte)
  BY <1>1, <1>2, ConcatProperties
<1> QED
  BY <1>2, <1>3, <1>4, Zenon DEF InFlight

LEMMA AlignedKept ==
    ASSUME Aligned, kind' = kind, sent' = sent, delivered' = delivered,
           InFlight' = InFlight
    PROVE  Aligned'
<1>1. PICK start : Starts(start) /\ Holds(start)
  BY DEF Aligned
<1>2. \A i : Size(i)' = Size(i)
  BY DEF Size, HeadLen, TailLen
<1>3. Starts(start)'
  BY <1>1, <1>2 DEF Starts
<1>4. Holds(start)'
  BY <1>1, <1>2 DEF Holds
<1> QED
  BY <1>3, <1>4 DEF Aligned

\* A packet that is sent comes last.
LEMMA SendKeeps ==
    ASSUME TypeOK, Len(delivered) <= Len(sent),
           NEW n \in Bodies \cup {0}, session_send(n)
    PROVE  /\ Aligned => Aligned'
           /\ sent' \in Seq(Bodies \cup {0}) /\ Len(sent') = Len(sent) + 1
           /\ transit' \in Seq(Byte)
           /\ \A i \in 1 .. Len(sent) : Payload(i)' = Payload(i)
<1>0. PICK last, size : last = Len(sent) + 1 /\ size = HeadLen + n + TailLen
  OBVIOUS
<1> DEFINE new == Bytes(last, 1, size)
<1>2. /\ last = Len(sent) + 1 /\ Len(sent) \in Nat /\ last \in 0 .. MaxSent /\ Len(delivered) \in Nat
      /\ sent \in Seq(Bodies \cup {0}) /\ transit \in Seq(Byte) /\ long_pkg \in Seq(Byte)
  <2>1. MaxSent \in Nat /\ Len(sent) < MaxSent
    BY SizesAssumption DEF session_send
  <2> QED
    BY <1>0, <2>1 DEF TypeOK
<1>3. n \in Nat
  BY BodiesAssumption, 0 \in Nat, Zenon
<1>4. size \in Nat /\ size >= 2 /\ 1 \in Nat \ {0} /\ 1 <= size + 1
  BY <1>0, <1>3, Lengths
<1>5. /\ new \in Seq(Byte) /\ Len(new) = size
      /\ \A k \in 1 .. size : new[k] = [pkg |-> last, at |-> k]
  <2>1. /\ new \in Seq(Byte) /\ Len(new) = size - 1 + 1
        /\ \A k \in 1 .. size - 1 + 1 : new[k] = [pkg |-> last, at |-> 1 + k - 1]
    BY <1>2, <1>4, BytesSeq
  <2> HIDE DEF new
  <2>2. \A k \in 1 .. size : 1 + k - 1 = k
    BY <1>4
  <2> QED
    BY <1>4, <2>1, <2>2
<1>6. /\ sent' \in Seq(Bodies \cup {0}) /\ Len(sent') = last /\ sent'[last] = n
      /\ \A i \in 1 .. Len(sent) : sent'[i] = sent[i]
  <2>1. sent' = Append(sent, n)
    BY DEF session_send
  <2> QED
    BY <1>0, <1>2, <2>1, AppendProperties
<1>7. kind' = kind /\ HeadLen' = HeadLen /\ TailLen' = TailLen /\ delivered' = delivered
  BY DEF session_send, HeadLen, TailLen
<1>8. (\A i \in 1 .. Len(sent) : Size(i)' = Size(i)) /\ Size(last)' = size
  BY <1>0, <1>6, <1>7 DEF Size
<1>9. transit' = transit \o new /\ long_pkg' = long_pkg
  BY <1>0 DEF session_send
<1>10. transit' \in Seq(Byte)
  <2> HIDE DEF new
  <2> QED
    BY <1>2, <1>5, <1>9, ConcatProperties
<1>11. InFlight' = InFlight \o new
  <2> HIDE DEF new
  <2>1. \A a, b, c \in Seq(Byte) : (a \o b) \o c = a \o (b \o c)
    BY ConcatAssociative
  <2>2. (long_pkg \o transit) \o new = long_pkg \o (transit \o new)
    BY <1>2, <1>5, <2>1, Zenon
  <2> QED
    BY <1>9, <2>2, Zenon DEF InFlight
<1>12. /\ Len(InFlight) \in Nat /\ Len(InFlight') = Len(InFlight) + size
       /\ \A k \in 1 .. Len(InFlight) : InFlight'[k] = InFlight[k]
       /\ \A k \in 1 .. size : InFlight'[Len(InFlight) + k] = [pkg |-> last, at |-> k]
  <2> HIDE DEF new
  <2>1. InFlight \in Seq(Byte) /\ Len(InFlight) \in Nat
    BY InFlightSeq
  <2>2. /\ Len(InFlight \o new) = Len(InFlight) + Len(new)
        /\ \A k \in 1 .. Len(InFlight) + Len(new) :
              (InFlight \o new)[k] = IF k <= Len(InFlight) THEN InFlight[k]
                                     ELSE new[k - Len(InFlight)]
    BY <2>1, <1>5, ConcatProperties
  <2>3. \A k \in 1 .. Len(InFlight) : (InFlight \o new)[k] = InFlight[k]
    BY <2>1, <2>2, <1>5, <1>4
  <2>4. \A k \in 1 .. size : (InFlight \o new)[Len(InFlight) + k] = new[k]
    <3> SUFFICES ASSUME NEW k \in 1 .. size
                 PROVE  (InFlight \o new)[Len(InFlight) + k] = new[k]
      OBVIOUS
    <3>1. /\ Len(InFlight) + k \in 1 .. Len(InFlight) + Len(new)
          /\ ~(Len(InFlight) + k <= Len(InFlight))
          /\ Len(InFlight) + k - Len(InFlight) = k
      BY <2>1, <1>4, <1>5
    <3> QED
      BY <2>2, <3>1
  <2> QED
    BY <1>5, <1>11, <2>1, <2>2, <2>3, <2>4
<1>17. \A i \in 1 .. Len(sent) : Payload(i)' = Payload(i)
  BY <1>7, <1>8 DEF Payload, Bytes
<1> SUFFICES ASSUME Aligned PROVE Aligned'
  BY <1>0, <1>6, <1>10, <1>17
<1>1. PICK start : Starts(start) /\ Holds(start)
  BY DEF Aligned
<1>18. PICK start2 : start2 = [i \in 1 .. last + 1 |-> IF i <= last THEN start[i]
                                                    ELSE start[last] + size]
  OBVIOUS
<1>13. \A i \in 1 .. last : start[i] \in Nat /\ start[i] <= start[last] /\ start2[i] = start[i]
  <2> SUFFICES ASSUME NEW i \in 1 .. last
               PROVE  start[i] \in Nat /\ start[i] <= start[last] /\ start2[i] = start[i]
    OBVIOUS
  <2>1. last = Len(sent) + 1 /\ last \in 1 .. last /\ i <= last /\ i \in 1 .. last + 1
    BY <1>0, <1>2
  <2>2. start[i] \in Nat /\ start[i] <= start[last]
    BY <1>1, <2>1 DEF Starts
  <2> QED
    BY <1>18, <2>1, <2>2
<1>14. start2[last + 1] = start[last] + size /\ start[last] \in Nat
  <2>1. last \in 1 .. last /\ last + 1 \in 1 .. last + 1 /\ ~(last + 1 <= last)
    BY <1>2
  <2> QED
    BY <1>18, <2>1, <1>13
<1>15. Starts(start2)'
  <2>1. start2 \in [1 .. Len(sent') + 1 -> Nat]
    <3>1. \A i \in 1 .. last + 1 : (IF i <= last THEN start[i] ELSE start[last] + size) \in Nat
      <4>1. \A i \in 1 .. last + 1 : i <= last => i \in 1 .. last
        BY <1>2
      <4>2. start[last] + size \in Nat
        BY <1>4, <1>14
      <4> QED
        BY <4>1, <4>2, <1>13
    <3> QED
      BY <1>18, <1>6, <3>1
  <2>2. ASSUME NEW i \in 1 .. Len(sent') PROVE start2[i + 1] = start2[i] + Size(i)'
    <3>1. CASE i = last
      <4> last \in 1 .. last
        BY <1>2
      <4> QED
        BY <3>1, <1>8, <1>13, <1>14
    <3>2. CASE i # last
      <4>1. i \in 1 .. Len(sent) /\ i + 1 \in 1 .. last /\ i \in 1 .. last
        BY <3>2, <1>2, <1>6
      <4> QED
        BY <4>1, <1>1, <1>8, <1>13 DEF Starts
    <3> QED
      BY <3>1, <3>2
  <2>3. ASSUME NEW i \in 1 .. Len(sent') + 1, NEW j \in 1 .. Len(sent') + 1, i <= j
        PROVE  start2[i] <= start2[j]
    <3>1. CASE j = last + 1
      <4>1. i \in 1 .. last \/ i = last + 1
        BY <1>2, <1>6
      <4> QED
        BY <3>1, <4>1, <1>4, <1>13, <1>14
    <3>2. CASE j # last + 1
      <4>1. i \in 1 .. last /\ j \in 1 .. last
        <5>1. i \in 1 .. last + 1 /\ j \in 1 .. last + 1
          BY <1>6
        <5> QED
          BY <5>1, <3>2, <2>3, <1>2
      <4>2. start[i] <= start[j]
        BY <4>1, <2>3, <1>1, <1>2 DEF Starts
      <4> QED
        BY <4>1, <4>2, <1>13
    <3> QED
      BY <3>1, <3>2
  <2> QED
    BY <2>1, <2>2, <2>3 DEF Starts
<1>16. Holds(start2)'
  <2> DEFINE first == Len(delivered) + 1
  <2>1. first \in 1 .. last /\ first \in Nat /\ last \in Nat
    BY <1>2
  <2>2. Len(InFlight) = start[last] - start[first] /\ start[first] <= start[last]
    BY <1>1, <1>2, <1>13, <2>1 DEF Holds
  <2>3. Len(InFlight') = start2[Len(sent') + 1] - start2[first]
    <3>1. start2[Len(sent') + 1] = start[last] + size /\ start2[first] = start[first]
      BY <1>6, <1>13, <1>14, <2>1
    <3>2. start[first] \in Nat
      BY <1>13, <2>1
    <3> QED
      BY <1>4, <1>12, <1>14, <2>2, <3>1, <3>2
  <2>4. ASSUME NEW i \in first .. Len(sent'), NEW k \in 1 .. Size(i)'
        PROVE  InFlight'[start2[i] - start2[first] + k] = [pkg |-> i, at |-> k]
    <3>1. CASE i = last
      <4>1. k \in 1 .. size /\ last \in 1 .. last
        BY <3>1, <1>8, <2>1
      <4>2. start2[last] - start2[first] + k = Len(InFlight) + k
        BY <4>1, <1>13, <2>1, <2>2
      <4>3. InFlight'[Len(InFlight) + k] = [pkg |-> last, at |-> k]
        BY <4>1, <1>12
      <4> QED
        BY <3>1, <4>2, <4>3
    <3>2. CASE i # last
      <4>1. i \in first .. Len(sent) /\ i \in 1 .. Len(sent) /\ i \in 1 .. last /\ i + 1 \in 1 .. last
        BY <3>2, <2>1, <1>2, <1>6
      <4>2. Size(i)' = Size(i) /\ Size(i) \in Nat
        BY <4>1, <1>8, Lengths
      <4>3. InFlight[start[i] - start[first] + k] = [pkg |-> i, at |-> k]
        BY <4>1, <4>2, <1>1 DEF Holds
      <4>4. start[i] + k <= start[last]
        <5>1. start[i + 1] = start[i] + Size(i) /\ start[i + 1] <= start[last]
          BY <4>1, <1>1, <1>13 DEF Starts
        <5> QED
          BY <5>1, <4>1, <4>2, <1>13, <1>14
      <4>5. start[first] <= start[i]
        BY <4>1, <2>1, <1>1 DEF Starts
      <4>6. start[i] - start[first] + k \in 1 .. Len(InFlight)
        <5>1. start[i] \in Nat /\ start[first] \in Nat /\ start[last] \in Nat /\ k \in Nat /\ k >= 1
          BY <4>1, <4>2, <1>13, <1>14, <2>1
        <5> HIDE DEF first
        <5> QED
          BY <5>1, <4>4, <4>5, <2>2
      <4> QED
        BY <4>1, <4>3, <4>6, <1>12, <1>13, <2>1
    <3> QED
      BY <3>1, <3>2
  <2> QED
    BY <2>3, <2>4, <1>7 DEF Holds
<1> QED
  BY <1>15, <1>16 DEF Aligned

\* The packet in front goes, and is what was sent.
LEMMA ReceiveKeeps ==
    ASSUME TypeOK, Aligned, Len(delivered) <= Len(sent), Len(long_pkg) > 0,
           protocal_recv
    PROVE  /\ Aligned'
           /\ long_pkg' \in Seq(Byte)
           /\ delivered' \in Seq(Seq(Byte)) /\ Len(delivered') = Len(delivered) + 1
           /\ \A i \in 1 .. Len(delivered) : delivered'[i] = delivered[i]
           /\ Len(delivered) < Len(sent)
           /\ delivered'[Len(delivered) + 1] = Payload(Len(delivered) + 1)
<1>0. PICK next, size : next = Len(delivered) + 1 /\ size = Size(next)
  OBVIOUS
<1>1. PICK start : Starts(start) /\ Holds(start)
  BY DEF Aligned
<1>2. /\ next \in 1 .. Len(sent) /\ next \in 0 .. MaxSent /\ Len(sent) \in Nat
      /\ Len(delivered) \in Nat /\ next = Len(delivered) + 1
      /\ \A k \in 1 .. size : k <= Len(long_pkg) => long_pkg[k] = [pkg |-> next, at |-> k]
  <2>1. Len(sent) \in Nat /\ Len(delivered) \in Nat /\ Len(sent) <= MaxSent /\ MaxSent \in Nat
    BY SizesAssumption DEF TypeOK
  <2> QED
    BY <1>0, <2>1, NextInFront
<1>3. Complete
  BY DEF protocal_recv
<1>4. pkg_size = size /\ size \in Nat /\ size >= 2 /\ size <= Len(long_pkg)
      /\ HeadLen \in Nat /\ HeadLen + 1 <= size + 1 /\ Len(long_pkg) \in Nat
  BY <1>0, <1>2, <1>3, PkgSize, Lengths DEF Complete, TypeOK
<1>5. /\ long_pkg \in Seq(Byte) /\ transit \in Seq(Byte)
      /\ delivered \in Seq(Seq(Byte)) /\ size \in 0 .. Len(long_pkg)
  BY <1>4 DEF TypeOK
<1>6. /\ long_pkg' = SubSeq(long_pkg, size + 1, Len(long_pkg))
      /\ transit' = transit /\ sent' = sent /\ kind' = kind
      /\ delivered' = Append(delivered, SubSeq(long_pkg, HeadLen + 1, size))
  BY <1>4 DEF protocal_recv, Rest, wireVars
<1>7. /\ long_pkg' \in Seq(Byte) /\ Len(long_pkg') = Len(long_pkg) - size
      /\ \A k \in 1 .. Len(long_pkg) - size : long_pkg'[k] = long_pkg[size + k]
  BY <1>5, <1>6, CutSeq
<1>8. SubSeq(long_pkg, HeadLen + 1, size) = Payload(next)
      /\ SubSeq(long_pkg, HeadLen + 1, size) \in Seq(Byte)
  <2>1. PICK head : head = HeadLen + 1
    OBVIOUS
  <2>2. head \in Nat \ {0} /\ head \in Int /\ size \in Int /\ head <= size + 1
    BY <1>4, <2>1
  <2>3. /\ Bytes(next, head, size) \in Seq(Byte)
        /\ Len(Bytes(next, head, size)) = size - head + 1
        /\ \A k \in 1 .. size - head + 1 :
              Bytes(next, head, size)[k] = [pkg |-> next, at |-> head + k - 1]
    BY <1>2, <1>4, <2>2, BytesSeq
  <2>4. \A k \in head .. size : long_pkg[k] \in Byte
    <3> SUFFICES ASSUME NEW k \in head .. size PROVE long_pkg[k] \in Byte
      OBVIOUS
    <3>1. k \in 1 .. Len(long_pkg)
      BY <1>4, <2>2
    <3> QED
      BY <3>1, <1>5, ElementOfSeq
  <2>5. /\ SubSeq(long_pkg, head, size) \in Seq(Byte)
        /\ Len(SubSeq(long_pkg, head, size)) = IF head <= size THEN size - head + 1 ELSE 0
        /\ \A k \in 1 .. size - head + 1 : SubSeq(long_pkg, head, size)[k] = long_pkg[head + k - 1]
    BY <2>2, <2>4, SubSeqProperties
  <2>6. Len(SubSeq(long_pkg, head, size)) = size - head + 1
    BY <2>2, <2>5, <1>4
  <2>7. \A k \in 1 .. size - head + 1 : SubSeq(long_pkg, head, size)[k] = Bytes(next, head, size)[k]
    <3> SUFFICES ASSUME NEW k \in 1 .. size - head + 1
                 PROVE  SubSeq(long_pkg, head, size)[k] = Bytes(next, head, size)[k]
      OBVIOUS
    <3>1. head + k - 1 \in 1 .. size /\ head + k - 1 <= Len(long_pkg)
      BY <1>4, <2>2
    <3>2. long_pkg[head + k - 1] = [pkg |-> next, at |-> head + k - 1]
      BY <3>1, <1>2
    <3> QED
      BY <3>2, <2>3, <2>5
  <2>8. SubSeq(long_pkg, head, size) = Bytes(next, head, size)
    <3>1. Len(SubSeq(long_pkg, head, size)) = Len(Bytes(next, head, size))
      BY <2>3, <2>6
    <3>2. \A k \in 1 .. Len(SubSeq(long_pkg, head, size)) :
             SubSeq(long_pkg, head, size)[k] = Bytes(next, head, size)[k]
      BY <2>6, <2>7
    <3> QED
      BY <3>1, <3>2, <2>3, <2>5, SeqEqual
  <2> QED
    BY <1>0, <2>1, <2>5, <2>8 DEF Payload
<1>9. /\ delivered' \in Seq(Seq(Byte)) /\ Len(delivered') = next
      /\ \A i \in 1 .. Len(delivered) : delivered'[i] = delivered[i]
      /\ delivered'[next] = Payload(next)
  <2>1. PICK new : new = SubSeq(long_pkg, HeadLen + 1, size)
    OBVIOUS
  <2>2. new \in Seq(Byte) /\ new = Payload(next) /\ delivered' = Append(delivered, new)
    BY <2>1, <1>6, <1>8
  <2> QED
    BY <1>2, <1>5, <2>2, AppendProperties
<1>10. \A i : Size(i)' = Size(i)
  BY <1>6 DEF Size, HeadLen, TailLen
<1>11. Starts(start)'
  BY <1>1, <1>6, <1>10 DEF Starts
<1>12. /\ \A i \in 1 .. Len(sent) + 1 : start[i] \in Nat
       /\ start[next + 1] = start[next] + size
  BY <1>0, <1>1, <1>2 DEF Starts
<1>13. /\ Len(InFlight) \in Nat
       /\ InFlight' \in Seq(Byte) /\ Len(InFlight') = Len(InFlight) - size
       /\ \A k \in 1 .. Len(InFlight) - size : InFlight'[k] = InFlight[k + size]
  <2>1. /\ Len(InFlight) = Len(long_pkg) + Len(transit)
        /\ \A k \in 1 .. Len(long_pkg) + Len(transit) :
              InFlight[k] = IF k <= Len(long_pkg) THEN long_pkg[k]
                            ELSE transit[k - Len(long_pkg)]
    BY InFlightSeq
  <2>2. Len(transit) \in Nat
    BY <1>5
  <2>3. InFlight' = long_pkg' \o transit
    BY <1>6 DEF InFlight
  <2>4. /\ InFlight' \in Seq(Byte) /\ Len(InFlight') = Len(long_pkg') + Len(transit)
        /\ \A k \in 1 .. Len(long_pkg') + Len(transit) :
              InFlight'[k] = IF k <= Len(long_pkg') THEN long_pkg'[k]
                             ELSE transit[k - Len(long_pkg')]
    BY <1>5, <1>7, <2>3, ConcatProperties
  <2>5. ASSUME NEW k \in 1 .. Len(InFlight) - size, NEW place, place = k + size
        PROVE  InFlight'[k] = InFlight[place]
    <3>1. /\ k \in 1 .. Len(long_pkg') + Len(transit)
          /\ place \in 1 .. Len(long_pkg) + Len(transit)
          /\ k \in Nat /\ place = size + k
      BY <1>4, <1>7, <2>1, <2>2, <2>5
    <3>2. CASE place <= Len(long_pkg)
      <4>1. k \in 1 .. Len(long_pkg) - size /\ k <= Len(long_pkg')
        BY <3>1, <3>2, <1>4, <1>7
      <4>2. InFlight'[k] = long_pkg'[k]
        BY <3>1, <4>1, <2>4
      <4>3. InFlight[place] = long_pkg[place]
        BY <3>1, <3>2, <2>1
      <4>4. long_pkg'[k] = long_pkg[place]
        <5>1. long_pkg'[k] = long_pkg[size + k]
          BY <4>1, <1>7
        <5> QED
          BY <3>1, <5>1, Zenon
      <4> QED
        BY <4>2, <4>3, <4>4
    <3>3. CASE ~(place <= Len(long_pkg))
      <4>1. ~(k <= Len(long_pkg')) /\ k - Len(long_pkg') = place - Len(long_pkg)
        BY <3>1, <3>3, <1>4, <1>7
      <4>2. InFlight'[k] = transit[k - Len(long_pkg')]
        BY <3>1, <4>1, <2>4
      <4>3. InFlight[place] = transit[place - Len(long_pkg)]
        BY <3>1, <3>3, <2>1
      <4> QED
        BY <4>1, <4>2, <4>3, Zenon
    <3> QED
      BY <3>2, <3>3
  <2>6. \A k \in 1 .. Len(InFlight) - size : InFlight'[k] = InFlight[k + size]
    BY <2>5, Zenon
  <2> QED
    BY <1>4, <1>7, <2>1, <2>2, <2>4, <2>6
<1>14. Holds(start)'
  <2>1. Len(InFlight) = start[Len(sent) + 1] - start[next]
    BY <1>1, <1>2 DEF Holds
  <2>2. start[Len(sent) + 1] \in Nat /\ start[next] \in Nat /\ start[next + 1] \in Nat
    BY <1>2, <1>12
  <2>3. Len(InFlight') = start[Len(sent) + 1] - start[next + 1]
    BY <1>4, <1>12, <1>13, <2>1, <2>2
  <2>4. ASSUME NEW i \in next + 1 .. Len(sent), NEW k \in 1 .. Size(i)
        PROVE  InFlight'[start[i] - start[next + 1] + k] = [pkg |-> i, at |-> k]
    <3>1. i \in next .. Len(sent) /\ i \in 1 .. Len(sent) /\ i \in 1 .. Len(sent) + 1
          /\ i + 1 \in 1 .. Len(sent) + 1 /\ next + 1 \in 1 .. Len(sent) + 1
      BY <1>2
    <3>2. InFlight[start[i] - start[next] + k] = [pkg |-> i, at |-> k]
      BY <3>1, <1>1, <1>2 DEF Holds
    <3>3. Size(i) \in Nat /\ start[i] \in Nat /\ start[i + 1] \in Nat
      BY <3>1, <1>12, Lengths
    <3>4. /\ start[next + 1] <= start[i]
          /\ start[i + 1] = start[i] + Size(i)
          /\ start[i + 1] <= start[Len(sent) + 1]
      <4>1. i + 1 <= Len(sent) + 1 /\ next + 1 <= i /\ Len(sent) + 1 \in 1 .. Len(sent) + 1
        BY <1>2
      <4> QED
        BY <3>1, <4>1, <1>1 DEF Starts
    <3>5. PICK place : place = start[i] - start[next + 1] + k
      OBVIOUS
    <3>6. /\ place \in 1 .. Len(InFlight) - size
          /\ place + size = start[i] - start[next] + k
      <4>1. PICK a, b, c, e, s, m : /\ a = start[i] /\ b = start[next] /\ c = start[next + 1]
                                    /\ e = start[Len(sent) + 1] /\ s = Size(i)
                                    /\ m = Len(InFlight)
        OBVIOUS
      <4>2. /\ a \in Nat /\ b \in Nat /\ c \in Nat /\ e \in Nat /\ s \in Nat
            /\ k \in 1 .. s /\ c <= a /\ a + s <= e /\ c = b + size /\ m = e - b
            /\ place = a - c + k
        BY <3>3, <3>4, <3>5, <4>1, <1>12, <2>1, <2>2
      <4>3. place \in 1 .. m - size /\ place + size = a - b + k
        BY <4>2, <1>4
      <4> QED
        BY <4>1, <4>3
    <3> QED
      BY <3>2, <3>5, <3>6, <1>13
  <2> QED
    BY <1>2, <1>6, <1>9, <1>10, <2>3, <2>4 DEF Holds
<1> QED
  BY <1>0, <1>2, <1>7, <1>9, <1>11, <1>14 DEF Aligned

------------------------------------------------------------------------------
(* The invariant                                                           *)

\* What the ends of a connection rest on: closes counts the visits of
\* "closing"; no loop runs once the socket is not open, because each loop
\* breaks after uv_close; the services hear of a session when it is first
\* removed and when its socket is closed.
EndInv ==
    /\ closes = IF socket \in {"closing", "closed"} THEN 1 ELSE 0
    /\ running => socket = "open"
    /\ ~removed => told = 0 /\ socket # "closed"
    /\ socket # "closed" => told <= 1
    /\ told \in 0 .. 2

IInv == TypeOK /\ EndInv /\ FramingInv

LEMMA InitIInv == Init => IInv
<1> SUFFICES ASSUME Init PROVE IInv
  OBVIOUS
<1>1. Request \in Seq(Byte)
  <2>1. RequestLen \in Nat /\ 0 \in 0 .. MaxSent /\ 1 \in Nat \ {0} /\ 1 <= RequestLen + 1
    BY SizesAssumption
  <2> QED
    BY <2>1, BytesSeq DEF Request
<1>2. sent = <<>> /\ Len(sent) = 0 /\ long_pkg = <<>> /\ delivered = <<>> /\ Len(delivered) = 0
  BY DEF Init
<1>3. TypeOK
  <2>1. transit \in Seq(Byte)
    BY <1>1 DEF Init
  <2>2. sent \in Seq(Bodies \cup {0}) /\ long_pkg \in Seq(Byte) /\ delivered \in Seq(Seq(Byte))
    BY <1>2, EmptySeq
  <2>3. Len(sent) <= MaxSent
    BY <1>2, SizesAssumption
  <2>4. /\ kind \in Kinds /\ is_shake_hand \in BOOLEAN /\ peer_open \in BOOLEAN
        /\ running \in BOOLEAN /\ socket \in {"open", "shutdown", "closing", "closed"}
        /\ removed \in BOOLEAN /\ cut \in BOOLEAN
    BY Zenon DEF Init
  <2>5. closes \in Nat /\ told \in 0 .. 2
    BY DEF Init
  <2> QED
    BY <2>1, <2>2, <2>3, <2>4, <2>5 DEF TypeOK
<1>4. EndInv
  BY DEF Init, EndInv
<1>5. ASSUME Shaken PROVE Aligned
  <2>1. transit = <<>> /\ InFlight = <<>> /\ Len(InFlight) = 0
    BY <1>2, <1>5 DEF Init, Shaken, InFlight
  <2>2. PICK start : start = [i \in {1} |-> 0]
    OBVIOUS
  <2>3. Starts(start)
    BY <1>2, <2>2 DEF Starts
  <2>4. Holds(start)
    BY <1>2, <2>1, <2>2 DEF Holds
  <2> QED
    BY <2>3, <2>4 DEF Aligned
<1>6. FramingInv
  BY <1>2, <1>5 DEF FramingInv, DeliveredInOrder, Init
<1> QED
  BY <1>3, <1>4, <1>6 DEF IInv

LEMMA EndStep == IInv /\ [Next]_vars => EndInv'
<1> SUFFICES ASSUME IInv, [Next]_vars PROVE EndInv'
  OBVIOUS
<1> EndInv /\ socket \in {"open", "shutdown", "closing", "closed"}
  BY DEF IInv, TypeOK
<1> USE DEF EndInv
<1>1. ASSUME NEW n \in Bodies \cup {0}, session_send(n) PROVE EndInv'
  BY <1>1 DEF session_send, closeVars
<1>2. CASE PeerEnds
  BY <1>2 DEF PeerEnds, closeVars
<1>3. ASSUME NEW n \in 1 .. Len(transit), on_after_read(n) PROVE EndInv'
  BY <1>3 DEF on_after_read, Readable, closeVars
<1>4. ASSUME NEW n \in 1 .. Len(transit), process_websocket_connect(n) PROVE EndInv'
  BY <1>4 DEF process_websocket_connect, Readable, uv_close, closeVars
<1>5. CASE LoopEnds
  BY <1>5 DEF LoopEnds, closeVars
<1>6. CASE LoopCloses
  BY <1>6 DEF LoopCloses, StopsLoop, uv_close
<1>7. CASE protocal_recv
  BY <1>7 DEF protocal_recv, closeVars
<1>8. CASE LoopSpins \/ UNCHANGED vars
  BY <1>8 DEF LoopSpins, vars, closeVars
<1>9. CASE ReadFails
  BY <1>9 DEF ReadFails
<1>10. CASE on_after_shutdown
  BY <1>10 DEF on_after_shutdown, uv_close
<1>11. CASE on_close_stream
  BY <1>11 DEF on_close_stream, Tells, close_session
<1>12. CASE LuaCloses
  BY <1>12 DEF LuaCloses, close_session
<1> QED
  BY <1>1, <1>2, <1>3, <1>4, <1>5, <1>6, <1>7, <1>8, <1>9, <1>10, <1>11, <1>12 DEF Next

\* What a step that neither sends, reads nor hands over does to the framing.
LEMMA FramingKept ==
    ASSUME FramingInv, kind' = kind, is_shake_hand' = is_shake_hand, sent' = sent,
           delivered' = delivered, running' => running \/ Shaken,
           socket' = "open" => socket = "open" /\ InFlight' = InFlight
    PROVE  FramingInv'
<1>1. DeliveredInOrder'
  <2>1. \A i : Payload(i)' = Payload(i)
    BY DEF Payload, Size, HeadLen, TailLen
  <2> QED
    BY <2>1 DEF FramingInv, DeliveredInOrder
<1>2. Shaken' = Shaken
  BY DEF Shaken
<1>3. ASSUME socket' = "open", Shaken' PROVE Aligned'
  BY <1>2, <1>3, AlignedKept DEF FramingInv
<1>4. ~Shaken' => sent' = <<>> /\ delivered' = <<>> /\ ~running'
  BY <1>2 DEF FramingInv
<1> QED
  BY <1>1, <1>3, <1>4 DEF FramingInv

\* An opened WebSocket begins with nothing under way.
LEMMA AlignedAfterHandshake ==
    ASSUME sent' = <<>>, delivered' = <<>>, long_pkg' = <<>>, transit' = <<>>
    PROVE  Aligned'
<1>1. InFlight' = <<>> /\ Len(InFlight') = 0 /\ Len(sent') = 0 /\ Len(delivered') = 0
  BY DEF InFlight
<1>2. PICK start : start = [i \in {1} |-> 0]
  OBVIOUS
<1>3. Starts(start)'
  BY <1>1, <1>2 DEF Starts
<1>4. Holds(start)'
  BY <1>1, <1>2 DEF Holds
<1> QED
  BY <1>3, <1>4 DEF Aligned

LEMMA TypeAndFramingStep == IInv /\ [Next]_vars => TypeOK' /\ FramingInv'
<1> SUFFICES ASSUME IInv, [Next]_vars PROVE TypeOK' /\ FramingInv'
  OBVIOUS
<1>0. TypeOK /\ EndInv /\ FramingInv /\ EndInv' /\ Len(delivered) <= Len(sent)
  BY EndStep DEF IInv, FramingInv, DeliveredInOrder
<1>0a. closes' \in Nat /\ told' \in 0 .. 2
  BY <1>0 DEF EndInv
<1>1. ASSUME NEW n \in Bodies \cup {0}, session_send(n) PROVE TypeOK' /\ FramingInv'
  <2>1. /\ Aligned => Aligned'
        /\ sent' \in Seq(Bodies \cup {0}) /\ Len(sent') = Len(sent) + 1
        /\ transit' \in Seq(Byte)
        /\ \A i \in 1 .. Len(sent) : Payload(i)' = Payload(i)
    BY <1>0, <1>1, SendKeeps
  <2>2. Len(sent) \in Nat /\ Len(delivered) \in Nat /\ DOMAIN delivered = 1 .. Len(delivered)
    BY <1>0 DEF TypeOK
  <2>3. TypeOK'
    <3>1. Len(sent') <= MaxSent
      BY <1>1, <2>1, <2>2, SizesAssumption DEF session_send
    <3> QED
      BY <1>0, <1>1, <2>1, <3>1 DEF TypeOK, session_send, closeVars
  <2>4. Shaken /\ Shaken' /\ socket' = socket /\ delivered' = delivered
    BY <1>1 DEF session_send, Shaken, closeVars
  <2>5. DeliveredInOrder'
    BY <1>0, <2>1, <2>2, <2>4 DEF FramingInv, DeliveredInOrder
  <2> QED
    BY <1>0, <2>1, <2>3, <2>4, <2>5 DEF FramingInv
<1>2. CASE PeerEnds
  BY <1>0, <1>2, FramingKept DEF PeerEnds, closeVars, TypeOK, InFlight
<1>3. ASSUME NEW n \in 1 .. Len(transit), on_after_read(n) PROVE TypeOK' /\ FramingInv'
  <2>1. InFlight' = InFlight /\ long_pkg' \in Seq(Byte) /\ transit' \in Seq(Byte)
    BY <1>0, <1>3, ReadKeeps DEF on_after_read
  <2>2. Shaken
    BY <1>3 DEF on_after_read, Shaken
  <2>3. FramingInv'
    BY <1>0, <1>3, <2>1, <2>2, FramingKept DEF on_after_read, closeVars
  <2>4. cut' \in BOOLEAN
    BY <1>0, <1>3, Zenon DEF on_after_read, TypeOK
  <2> QED
    BY <1>0, <1>3, <2>1, <2>3, <2>4 DEF on_after_read, closeVars, TypeOK
<1>4. ASSUME NEW n \in 1 .. Len(transit), process_websocket_connect(n)
      PROVE  TypeOK' /\ FramingInv'
  <2> DEFINE pkg == long_pkg \o SubSeq(transit, 1, n)
             has_client_key == Len(pkg) >= KeyAt
  <2>1. /\ SubSeq(transit, 1, n) \in Seq(Byte) /\ pkg \in Seq(Byte)
        /\ SubSeq(transit, n + 1, Len(transit)) \in Seq(Byte)
        /\ Len(SubSeq(transit, n + 1, Len(transit))) = Len(transit) - n
        /\ long_pkg \in Seq(Byte) /\ transit \in Seq(Byte)
    <3>1. long_pkg \in Seq(Byte) /\ transit \in Seq(Byte) /\ n \in 0 .. Len(transit)
      BY <1>0 DEF TypeOK
    <3>2. /\ SubSeq(transit, 1, n) \in Seq(Byte)
          /\ SubSeq(transit, n + 1, Len(transit)) \in Seq(Byte)
          /\ Len(SubSeq(transit, n + 1, Len(transit))) = Len(transit) - n
      BY <3>1, CutSeq
    <3> QED
      BY <3>1, <3>2, ConcatProperties
  <2>2. /\ ~Shaken /\ sent = <<>> /\ delivered = <<>> /\ ~running
        /\ sent' = sent /\ delivered' = delivered /\ kind' = kind /\ running' = running
        /\ peer_open' = peer_open /\ removed' = removed
        /\ is_shake_hand' = has_client_key /\ socket' \in {"open", "closing"}
        /\ cut' = (cut \/ ~has_client_key)
        /\ transit' = SubSeq(transit, n + 1, Len(transit))
        /\ long_pkg' = IF has_client_key THEN <<>> ELSE pkg
        /\ has_client_key => n = Len(transit)
    <3>1. ~Shaken
      BY <1>4 DEF process_websocket_connect, Shaken
    <3> HIDE DEF pkg
    <3>2. socket' \in {"open", "closing"}
      BY <1>4 DEF process_websocket_connect, Readable, uv_close, closeVars
    <3>3. removed' = removed
      BY <1>4 DEF process_websocket_connect, uv_close, closeVars
    <3> QED
      BY <1>0, <1>4, <3>1, <3>2, <3>3 DEF process_websocket_connect, FramingInv, pkg
  <2> HIDE DEF pkg, has_client_key
  <2>3. has_client_key \in BOOLEAN
    BY DEF has_client_key
  <2>4. TypeOK'
    <3>1. long_pkg' \in Seq(Byte) /\ transit' \in Seq(Byte)
      BY <2>1, <2>2, EmptySeq
    <3>2. is_shake_hand' \in BOOLEAN /\ cut' \in BOOLEAN
      BY <2>2, <2>3, Zenon
    <3> QED
      BY <1>0, <1>0a, <2>2, <3>1, <3>2 DEF TypeOK
  <2>5. DeliveredInOrder'
    <3>1. Len(<<>>) <= Len(<<>>) /\ DOMAIN <<>> = {}
      OBVIOUS
    <3> QED
      BY <2>2, <3>1 DEF DeliveredInOrder
  <2>6. ASSUME Shaken' PROVE Aligned'
    <3>1. has_client_key
      BY <2>2, <2>6 DEF Shaken
    <3>2. transit' = <<>>
      <4>1. n = Len(transit) /\ Len(transit) \in Nat
        BY <2>1, <2>2, <3>1
      <4>2. Len(transit') = 0 /\ transit' \in Seq(Byte)
        BY <2>1, <2>2, <4>1
      <4> QED
        BY <4>2, EmptySeq
    <3> QED
      BY <2>2, <3>1, <3>2, AlignedAfterHandshake
  <2> QED
    BY <2>2, <2>4, <2>5, <2>6 DEF FramingInv
<1>5. CASE LoopEnds
  BY <1>0, <1>5, FramingKept DEF LoopEnds, wireVars, closeVars, TypeOK, InFlight
<1>6. CASE LoopCloses
  BY <1>0, <1>0a, <1>6, FramingKept DEF LoopCloses, StopsLoop, uv_close, wireVars, TypeOK
<1>7. CASE protocal_recv
  <2>1. socket = "open" /\ Shaken /\ Aligned
    BY <1>0, <1>7 DEF protocal_recv, EndInv, FramingInv
  <2>2. Len(long_pkg) > 0
    BY <1>0, <1>7 DEF protocal_recv, AwaitsHeader, Header, TypeOK
  <2>3. /\ Aligned'
        /\ long_pkg' \in Seq(Byte)
        /\ delivered' \in Seq(Seq(Byte)) /\ Len(delivered') = Len(delivered) + 1
        /\ \A i \in 1 .. Len(delivered) : delivered'[i] = delivered[i]
        /\ Len(delivered) < Len(sent)
        /\ delivered'[Len(delivered) + 1] = Payload(Len(delivered) + 1)
    BY <1>0, <1>7, <2>1, <2>2, ReceiveKeeps
  <2>4. TypeOK'
    BY <1>0, <1>7, <2>3 DEF protocal_recv, wireVars, closeVars, TypeOK
  <2>5. kind' = kind /\ sent' = sent /\ is_shake_hand' = is_shake_hand
    BY <1>7 DEF protocal_recv, wireVars
  <2>6. DeliveredInOrder'
    <3>1. \A i : Payload(i)' = Payload(i)
      BY <2>5 DEF Payload, Size, HeadLen, TailLen
    <3>2. Len(delivered) \in Nat /\ Len(sent) \in Nat
          /\ DOMAIN delivered = 1 .. Len(delivered) /\ DOMAIN delivered' = 1 .. Len(delivered')
      BY <1>0, <2>3 DEF TypeOK
    <3>3. ASSUME NEW i \in DOMAIN delivered' PROVE delivered'[i] = Payload(i)'
      <4>1. CASE i = Len(delivered) + 1
        BY <4>1, <2>3, <3>1
      <4>2. CASE i # Len(delivered) + 1
        <5>1. i \in 1 .. Len(delivered)
          BY <4>2, <2>3, <3>2
        <5>2. delivered[i] = Payload(i)
          BY <5>1, <3>2, <1>0 DEF FramingInv, DeliveredInOrder
        <5> QED
          BY <5>1, <5>2, <2>3, <3>1
      <4> QED
        BY <4>1, <4>2
    <3>4. Len(delivered') <= Len(sent')
      BY <2>3, <2>5, <3>2
    <3> QED
      BY <3>3, <3>4 DEF DeliveredInOrder
  <2>7. Shaken'
    BY <2>1, <2>5 DEF Shaken
  <2> QED
    BY <2>3, <2>4, <2>6, <2>7 DEF FramingInv
<1>8. CASE LoopSpins \/ UNCHANGED vars
  <2>1. UNCHANGED vars
    BY <1>8 DEF LoopSpins
  <2> QED
    BY <1>0, <2>1, FramingKept DEF vars, wireVars, closeVars, TypeOK, InFlight
<1>9. CASE ReadFails
  BY <1>0, <1>9, FramingKept, EmptySeq DEF ReadFails, TypeOK
<1>10. CASE on_after_shutdown
  BY <1>0, <1>0a, <1>10, FramingKept DEF on_after_shutdown, uv_close, wireVars, TypeOK
<1>11. CASE on_close_stream
  BY <1>0, <1>0a, <1>11, FramingKept, EmptySeq
     DEF on_close_stream, Tells, close_session, wireVars, TypeOK
<1>12. CASE LuaCloses
  BY <1>0, <1>0a, <1>12, FramingKept
     DEF LuaCloses, close_session, wireVars, TypeOK, InFlight
<1> QED
  BY <1>1, <1>2, <1>3, <1>4, <1>5, <1>6, <1>7, <1>8, <1>9, <1>10, <1>11, <1>12 DEF Next

LEMMA Inductive == Spec => []IInv
<1>1. IInv /\ [Next]_vars => IInv'
  BY EndStep, TypeAndFramingStep DEF IInv
<1> QED
  BY InitIInv, <1>1, PTL DEF Spec

------------------------------------------------------------------------------
(* Theorems                                                                *)

\* The variables stay in their sets; in particular, the services are told of
\* the end of a session at most twice.
THEOREM TypeCorrect == Spec => []TypeOK
<1>1. IInv => TypeOK
  BY DEF IInv
<1> QED
  BY Inductive, <1>1, PTL

\* uv_close is called at most once a connection: not again by the loops after
\* a packet that is too long or a closing frame, nor by the end of the stream.
THEOREM ClosedOnceCorrect == Spec => []ClosedOnce
<1>1. IInv => ClosedOnce
  BY DEF IInv, EndInv, ClosedOnce
<1> QED
  BY Inductive, <1>1, PTL

\* However the reads cut the stream, whatever the lengths: the i-th packet
\* handed to the services is the i-th packet sent, whole.
THEOREM DeliveredInOrderCorrect == Spec => []DeliveredInOrder
<1>1. IInv => DeliveredInOrder
  BY DEF IInv, FramingInv
<1> QED
  BY Inductive, <1>1, PTL

------------------------------------------------------------------------------
(* The stream implements the channel of packets                            *)

\* The packets under way, as the channel sees them.
Given == [i \in DOMAIN sent |-> Payload(i)]

\* What a packet hands over is one of the packets of the channel.
LEMMA PayloadIsPacket ==
    ASSUME TypeOK, NEW n \in Bodies \cup {0}, session_send(n),
           NEW last, last = Len(sent) + 1
    PROVE  Payload(last)' \in Packets
<1>2. last \in 1 .. MaxSent /\ sent'[last] = n
  <2>1. sent' = Append(sent, n) /\ Len(sent) < MaxSent
    BY DEF session_send
  <2>2. sent \in Seq(Bodies \cup {0}) /\ Len(sent) \in Nat /\ MaxSent \in Nat
    BY SizesAssumption DEF TypeOK
  <2> QED
    BY <2>1, <2>2, AppendProperties
<1>3. HeadLen' = HeadLen /\ TailLen' = TailLen
  BY DEF session_send, HeadLen, TailLen
<1>4. Payload(last)' = Bytes(last, HeadLen + 1, HeadLen + n + TailLen)
  BY <1>2, <1>3 DEF Payload, Size, Bytes
<1>5. n \in Nat
  BY BodiesAssumption, 0 \in Nat, Zenon
<1>6. HeadLen \in {0, 2, 6} /\ TailLen \in {0, 2}
  BY Lengths
<1>7. PICK more : more = n + TailLen
  OBVIOUS
<1>8. HeadLen + n + TailLen = HeadLen + more
  BY <1>5, <1>6, <1>7
<1>9. more \in Bodies \cup {b + 2 : b \in Bodies} \cup {0}
  <2>1. CASE TailLen = 0
    <3>1. more = n
      BY <1>5, <1>7, <2>1
    <3> QED
      BY <3>1
  <2>2. CASE TailLen # 0
    <3>1. kind = "json" /\ TailLen = 2
      BY <2>2 DEF TailLen
    <3>2. n \in Bodies
      BY <3>1 DEF session_send
    <3> QED
      BY <1>7, <3>1, <3>2
  <2> QED
    BY <2>1, <2>2
<1>10. Bytes(last, HeadLen + 1, HeadLen + more) \in Packets
  <2>1. PICK head \in {0, 2, 6} : head = HeadLen
    BY <1>6
  <2>2. Bytes(last, head + 1, head + more) \in Packets
    BY <1>2, <1>9 DEF Packets
  <2> QED
    BY <2>1, <2>2
<1> QED
  BY <1>4, <1>8, <1>10

\* A packet sent is a packet given.
LEMMA SendGives ==
    ASSUME TypeOK, Len(delivered) <= Len(sent), NEW n \in Bodies \cup {0}, session_send(n),
           NEW last, last = Len(sent) + 1
    PROVE  Given' = Append(Given, Payload(last)')
<1>2. PICK new : new = Payload(last)'
  OBVIOUS
<1>3. /\ sent' \in Seq(Bodies \cup {0}) /\ Len(sent') = last
      /\ \A i \in 1 .. Len(sent) : Payload(i)' = Payload(i)
  BY SendKeeps
<1>4. sent \in Seq(Bodies \cup {0}) /\ Len(sent) \in Nat
  BY DEF TypeOK
<1>5. DOMAIN sent = 1 .. Len(sent) /\ DOMAIN sent' = 1 .. last
  BY <1>3, <1>4
<1>6. Given' = [i \in 1 .. last |-> Payload(i)']
  BY <1>5 DEF Given
<1>7. Given = [i \in 1 .. Len(sent) |-> Payload(i)]
  BY <1>5 DEF Given
<1>8. Len(Given) = Len(sent)
  BY <1>4, <1>7
<1>9. Append(Given, new) = [i \in 1 .. last |-> IF i = last THEN new ELSE Given[i]]
  <2>1. PICK g : g = Given
    OBVIOUS
  <2>2. PICK S : S = {Payload(i) : i \in 1 .. Len(sent)} \cup {new}
    OBVIOUS
  <2>3. g \in Seq(S) /\ Len(g) + 1 = last /\ new \in S
    BY <1>4, <1>7, <1>8, <2>1, <2>2
  <2>4. Append(g, new) = [i \in 1 .. last |-> IF i = last THEN new ELSE g[i]]
    <3>1. PICK f : f = [i \in 1 .. last |-> IF i = last THEN new ELSE g[i]]
      OBVIOUS
    <3>2. last \in Nat /\ last - 1 = Len(g) /\ \A i \in 1 .. Len(g) : g[i] \in S
      BY <1>4, <2>3
    <3>3. \A i \in 1 .. last : f[i] \in S
      BY <2>3, <3>1, <3>2
    <3>4. f \in Seq(S) /\ Len(f) = last
      BY <3>1, <3>2, <3>3
    <3>5. /\ Append(g, new) \in Seq(S) /\ Len(Append(g, new)) = last
          /\ \A i \in 1 .. Len(g) : Append(g, new)[i] = g[i]
          /\ Append(g, new)[Len(g) + 1] = new
      BY <2>3, AppendProperties
    <3>6. \A i \in 1 .. last : Append(g, new)[i] = f[i]
      BY <2>3, <3>1, <3>2, <3>5
    <3>7. Append(g, new) = f
      BY <3>4, <3>5, <3>6, SeqEqual
    <3> QED
      BY <3>1, <3>7
  <2> QED
    BY <2>1, <2>4
<1>10. ASSUME NEW i \in 1 .. last
       PROVE  Payload(i)' = IF i = last THEN new ELSE Given[i]
  BY <1>2, <1>3, <1>4, <1>7
<1>11. [i \in 1 .. last |-> Payload(i)']
         = [i \in 1 .. last |-> IF i = last THEN new ELSE Given[i]]
  BY <1>10
<1>12. Given' = Append(Given, new)
  BY <1>6, <1>9, <1>11, Zenon
<1> QED
  BY <1>2, <1>12, Zenon

\* A packet handed over is the next one given.
LEMMA ReceiveTakes ==
    ASSUME IInv, protocal_recv
    PROVE  /\ Given' = Given /\ closes = 0 /\ closes' = closes
           /\ Len(delivered) < Len(Given)
           /\ delivered' = Append(delivered, Given[Len(delivered) + 1])
<1>0. TypeOK /\ EndInv /\ FramingInv
  BY DEF IInv
<1>1. socket = "open" /\ closes = 0 /\ Shaken /\ Aligned
  BY <1>0 DEF protocal_recv, EndInv, FramingInv
<1>2. Len(long_pkg) > 0
  BY <1>0 DEF protocal_recv, AwaitsHeader, Header, TypeOK
<1>3. /\ delivered' \in Seq(Seq(Byte)) /\ Len(delivered') = Len(delivered) + 1
      /\ Len(delivered) < Len(sent)
      /\ delivered'[Len(delivered) + 1] = Payload(Len(delivered) + 1)
  BY <1>0, <1>1, <1>2, ReceiveKeeps DEF FramingInv, DeliveredInOrder
<1>4. PICK new : delivered' = Append(delivered, new)
  BY DEF protocal_recv
<1>5. delivered \in Seq(Seq(Byte)) /\ Len(delivered) \in Nat /\ Len(sent) \in Nat
      /\ DOMAIN sent = 1 .. Len(sent)
  BY <1>0 DEF TypeOK
<1>6. new = Payload(Len(delivered) + 1)
  BY <1>3, <1>4, <1>5
<1>7. Given' = Given /\ closes' = closes
  BY DEF Given, protocal_recv, wireVars, closeVars, Payload, Bytes, Size, HeadLen, TailLen
<1>8. Len(Given) = Len(sent) /\ Given[Len(delivered) + 1] = Payload(Len(delivered) + 1)
  BY <1>3, <1>5 DEF Given
<1> QED
  BY <1>1, <1>3, <1>4, <1>6, <1>7, <1>8

\* What every other step shows the channel: nothing, or a close.
LEMMA OthersStutter ==
    ASSUME sent' = sent, kind' = kind, delivered' = delivered,
           closes' = closes \/ closes' # 0
    PROVE  [Channel!Next]_Channel!vars
<1>1. Given' = Given
  BY DEF Given, Payload, Bytes, Size, HeadLen, TailLen
<1>2. CASE closes' = closes
  BY <1>1, <1>2 DEF Channel!vars, Given
<1>3. CASE closes' # 0
  <2>1. (closes' = 0) = FALSE
    BY <1>3, Zenon
  <2> QED
    BY <1>1, <2>1 DEF Channel!Next, Channel!Close, Given
<1> QED
  BY <1>2, <1>3

\* Whatever the lengths and however the reads cut the stream, the connection
\* implements PacketChannel: packets are handed over once, whole, in the order
\* they were sent, and none after uv_close.
THEOREM ImplementsChannelCorrect == Spec => ImplementsChannel
<1>1. Init => Channel!Init
  <2> SUFFICES ASSUME Init PROVE Channel!Init
    OBVIOUS
  <2>1. sent = <<>> /\ delivered = <<>> /\ closes = 0
    BY DEF Init
  <2>2. Given = <<>>
    BY <2>1 DEF Given
  <2> QED
    BY <2>1, <2>2 DEF Channel!Init, Given
<1>2. IInv /\ IInv' /\ [Next]_vars => [Channel!Next]_Channel!vars
  <2> SUFFICES ASSUME IInv, IInv', [Next]_vars PROVE [Channel!Next]_Channel!vars
    OBVIOUS
  <2>0. /\ TypeOK /\ closes \in Nat /\ closes' \in Nat
        /\ Len(delivered) <= Len(sent)
    BY DEF IInv, TypeOK, FramingInv, DeliveredInOrder
  <2>1. ASSUME NEW n \in Bodies \cup {0}, session_send(n) PROVE Channel!Next
    <3>0. PICK last : last = Len(sent) + 1
      OBVIOUS
    <3>1. Given' = Append(Given, Payload(last)')
      BY <2>0, <2>1, <3>0, SendGives
    <3>2. Payload(last)' \in Packets
      BY <2>0, <2>1, <3>0, PayloadIsPacket
    <3>3. delivered' = delivered /\ closes' = closes
      BY <2>1 DEF session_send, closeVars
    <3> QED
      BY <3>1, <3>2, <3>3 DEF Channel!Next, Channel!Give, Given
  <2>2. CASE protocal_recv
    <3>1. /\ Given' = Given /\ closes = 0 /\ closes' = closes
          /\ Len(delivered) < Len(Given)
          /\ delivered' = Append(delivered, Given[Len(delivered) + 1])
      BY <2>2, ReceiveTakes
    <3> QED
      BY <3>1 DEF Channel!Next, Channel!Take, Given
  <2>3. CASE LoopCloses \/ on_after_shutdown
    <3>1. /\ sent' = sent /\ kind' = kind /\ delivered' = delivered
          /\ closes' = closes + 1
      BY <2>3 DEF LoopCloses, on_after_shutdown, uv_close, wireVars
    <3>2. closes' # 0
      BY <2>0, <3>1
    <3> QED
      BY <3>1, <3>2, OthersStutter
  <2>4. ASSUME NEW n \in 1 .. Len(transit), on_after_read(n) \/ process_websocket_connect(n)
        PROVE  [Channel!Next]_Channel!vars
    <3>1. sent' = sent /\ kind' = kind /\ delivered' = delivered
      BY <2>4 DEF on_after_read, process_websocket_connect
    <3>2. closes' = closes \/ closes' = closes + 1
      BY <2>4 DEF on_after_read, process_websocket_connect, uv_close, closeVars
    <3>3. closes' = closes \/ closes' # 0
      BY <2>0, <3>2
    <3> QED
      BY <3>1, <3>3, OthersStutter
  <2>5. CASE PeerEnds \/ LoopEnds \/ LoopSpins \/ ReadFails \/ LuaCloses \/ UNCHANGED vars
    BY <2>5, OthersStutter
       DEF PeerEnds, LoopEnds, LoopSpins, ReadFails, LuaCloses, close_session,
           vars, wireVars, closeVars
  <2>6. CASE on_close_stream
    BY <2>6, OthersStutter DEF on_close_stream, wireVars
  <2> QED
    BY <2>1, <2>2, <2>3, <2>4, <2>5, <2>6 DEF Next
<1> QED
  BY <1>1, <1>2, Inductive, PTL DEF Spec, ImplementsChannel, Channel!Spec
------------------------------------------------------------------------------
(* Reads that end where a packet ends                                      *)

\* The loop goes round without an end only in the middle of a packet.
SpinsOnlyOnCut == running /\ ~AwaitsHeader /\ ~Complete /\ ~TooLong => cut

\* Nothing is left of whole reads when the loop is over: a bin packet has a body,
\* so that none is shorter than what the loop waits for; every byte is one of a
\* packet that was sent; and the buffer ends with a packet.
WholeInv ==
    /\ kind # "ws" => \A i \in 1 .. Len(sent) : sent[i] # 0
    /\ \A k \in 1 .. Len(long_pkg) : long_pkg[k].pkg <= Len(sent)
    /\ \A k \in 1 .. Len(transit) : transit[k].pkg <= Len(sent)
    /\ ~cut /\ running => EndsPacket(long_pkg)
    /\ ~cut /\ socket = "open" /\ ~running => long_pkg = <<>>

\* In a buffer that ends with a packet the next packet is whole, and long enough.
LEMMA NextIsWhole ==
    ASSUME TypeOK, Aligned, Len(delivered) <= Len(sent), Len(long_pkg) > 0,
           EndsPacket(long_pkg), WholeInv
    PROVE  Complete /\ ~AwaitsHeader /\ pkg_size = Size(Len(delivered) + 1)
<1> DEFINE next == Len(delivered) + 1
           len == Len(long_pkg)
<1>1. /\ next \in 1 .. Len(sent)
      /\ \A k \in 1 .. Size(next) : k <= len => long_pkg[k] = [pkg |-> next, at |-> k]
  BY NextInFront
<1>2. Size(next) \in Nat /\ Size(next) >= 2 /\ len \in Nat /\ sent[next] \in Nat
  BY <1>1, Lengths DEF TypeOK
<1>3. Size(next) <= len
  <2> SUFFICES ASSUME len < Size(next) PROVE FALSE
    BY <1>2
  <2>1. long_pkg[len] = [pkg |-> next, at |-> len] /\ next # 0
    BY <1>1, <1>2
  <2>2. Last(long_pkg) = long_pkg[len] /\ long_pkg # <<>>
    BY <1>2 DEF Last
  <2>3. len = Size(next)
    BY <2>1, <2>2 DEF EndsPacket
  <2> QED
    BY <1>2, <2>3
<1>4. pkg_size = Size(next)
  BY <1>3, PkgSize
<1>5. Complete
  BY <1>2, <1>3, <1>4 DEF Complete
<1>6. Size(next) >= Header
  <2>1. kind # "ws" => sent[next] # 0
    BY <1>1 DEF WholeInv
  <2> QED
    BY <1>2, <2>1, KindsAssumption DEF Size, HeadLen, TailLen, Header, TypeOK
<1>7. ~AwaitsHeader
  <2>1. Header \in Nat
    BY DEF Header
  <2> QED
    BY <1>2, <1>3, <1>6, <2>1 DEF AwaitsHeader
<1> QED
  BY <1>4, <1>5, <1>7

\* What a step that neither sends, reads nor hands over does to WholeInv.
LEMMA WholeKept ==
    ASSUME WholeInv, kind' = kind, sent' = sent, cut' = cut,
           transit' = transit \/ transit' = <<>>,
           long_pkg' = long_pkg \/ long_pkg' = <<>>,
           running' => running, socket' = "open" => socket = "open",
           ~running' => ~running \/ long_pkg' = <<>> \/ cut \/ socket' # "open"
    PROVE  WholeInv'
<1>1. EndsPacket(long_pkg) => EndsPacket(long_pkg)'
  <2>1. \A i : Size(i)' = Size(i)
    BY DEF Size, HeadLen, TailLen
  <2> QED
    BY <2>1 DEF EndsPacket
<1>2. Len(<<>>) = 0
  OBVIOUS
<1> QED
  BY <1>1, <1>2 DEF WholeInv
\* A packet is sent while the loop may be under way.
LEMMA WholeSend ==
    ASSUME TypeOK, WholeInv, NEW n \in Bodies \cup {0}, session_send(n)
    PROVE  WholeInv'
<1> DEFINE new == Bytes(Len(sent) + 1, 1, HeadLen + n + TailLen)
<1>1. /\ sent \in Seq(Bodies \cup {0}) /\ Len(sent) \in Nat /\ Len(sent) + 1 \in 0 .. MaxSent
      /\ transit \in Seq(Byte) /\ long_pkg \in Seq(Byte) /\ n \in Nat
  <2>1. n \in Nat
    BY BodiesAssumption, 0 \in Nat, Zenon
  <2> QED
    BY <2>1, SizesAssumption DEF TypeOK, session_send
<1>2. /\ sent' = Append(sent, n) /\ Len(sent') = Len(sent) + 1
      /\ \A i \in 1 .. Len(sent) : sent'[i] = sent[i]
      /\ sent'[Len(sent) + 1] = n
      /\ kind' = kind /\ long_pkg' = long_pkg /\ running' = running /\ socket' = socket
      /\ cut' = cut
  BY <1>1 DEF session_send, closeVars
<1>3. /\ new \in Seq(Byte)
      /\ \A k \in 1 .. Len(new) : new[k].pkg = Len(sent) + 1
  <2>1. PICK len : len = HeadLen + n + TailLen
    OBVIOUS
  <2>2. len \in Nat /\ 1 \in Nat \ {0} /\ 1 <= len + 1
    BY <1>1, <2>1, Lengths
  <2>3. PICK i : i = Len(sent) + 1 /\ i \in 0 .. MaxSent
    BY <1>1
  <2>4. /\ Bytes(i, 1, len) \in Seq(Byte) /\ Len(Bytes(i, 1, len)) = len - 1 + 1
        /\ \A k \in 1 .. len - 1 + 1 : Bytes(i, 1, len)[k] = [pkg |-> i, at |-> 1 + k - 1]
    BY <2>2, <2>3, BytesSeq
  <2>5. new = Bytes(i, 1, len)
    BY <2>1, <2>3
  <2> HIDE DEF new
  <2> QED
    <3>1. new \in Seq(Byte) /\ Len(new) = len - 1 + 1
      BY <2>4, <2>5, Zenon
    <3>2. ASSUME NEW k \in 1 .. Len(new) PROVE new[k].pkg = i
      <4>1. k \in 1 .. len - 1 + 1
        BY <3>1
      <4>2. new[k] = [pkg |-> i, at |-> 1 + k - 1]
        BY <2>4, <2>5, <4>1, Zenon
      <4> QED
        BY <4>2
    <3> QED
      BY <2>3, <3>1, <3>2
<1>4. \A k \in 1 .. Len(transit') : transit'[k].pkg <= Len(sent')
  <2>1. transit' = transit \o new
    BY DEF session_send
  <2> HIDE DEF new
  <2>2. /\ Len(transit') = Len(transit) + Len(new) /\ Len(transit) \in Nat /\ Len(new) \in Nat
        /\ \A k \in 1 .. Len(transit) + Len(new) :
              transit'[k] = IF k <= Len(transit) THEN transit[k] ELSE new[k - Len(transit)]
    BY <1>1, <1>3, <2>1, ConcatProperties
  <2> SUFFICES ASSUME NEW k \in 1 .. Len(transit') PROVE transit'[k].pkg <= Len(sent')
    OBVIOUS
  <2>3. CASE k <= Len(transit)
    <3>1. k \in 1 .. Len(transit) /\ transit'[k] = transit[k]
      BY <2>2, <2>3
    <3>2. transit[k].pkg <= Len(sent) /\ transit[k].pkg \in Int
      <4>1. transit[k] \in Byte
        BY <1>1, <3>1, ElementOfSeq
      <4> QED
        BY <3>1, <4>1 DEF WholeInv, Byte
    <3> QED
      BY <1>1, <1>2, <3>1, <3>2
  <2>4. CASE ~(k <= Len(transit))
    <3>1. k - Len(transit) \in 1 .. Len(new) /\ transit'[k] = new[k - Len(transit)]
      BY <2>2, <2>4
    <3>2. transit'[k].pkg = Len(sent) + 1
      <4>1. \A j \in 1 .. Len(new) : new[j].pkg = Len(sent) + 1
        BY <1>3
      <4> QED
        BY <3>1, <4>1, Zenon
    <3>3. Len(sent') = Len(sent) + 1 /\ Len(sent) \in Nat
      BY <1>1, <1>2
    <3> QED
      BY <3>2, <3>3
  <2> QED
    BY <2>3, <2>4
<1>5. ASSUME EndsPacket(long_pkg) PROVE EndsPacket(long_pkg)'
  <2>1. CASE long_pkg = <<>>
    BY <1>2, <2>1 DEF EndsPacket
  <2>2. CASE long_pkg # <<>>
    <3>1. Len(long_pkg) \in 1 .. Len(long_pkg) /\ Last(long_pkg) = long_pkg[Len(long_pkg)]
      BY <1>1, <2>2 DEF Last
    <3>2. Last(long_pkg) \in Byte /\ Last(long_pkg).pkg <= Len(sent)
      BY <1>1, <3>1 DEF WholeInv
    <3>3. Last(long_pkg).pkg \in 0 .. Len(sent)
      BY <1>1, <3>2 DEF Byte
    <3>4. \A i \in 1 .. Len(sent) : Size(i)' = Size(i)
      BY <1>2 DEF Size, HeadLen, TailLen
    <3> QED
      BY <1>1, <1>2, <1>5, <3>3, <3>4 DEF EndsPacket
  <2> QED
    BY <2>1, <2>2
<1>6. kind' # "ws" => \A i \in 1 .. Len(sent') : sent'[i] # 0
  <2>1. n = 0 => kind = "ws"
    BY DEF session_send
  <2> QED
    BY <1>1, <1>2, <2>1 DEF WholeInv
<1>7. ASSUME NEW k \in 1 .. Len(long_pkg') PROVE long_pkg'[k].pkg <= Len(sent')
  <2>1. k \in 1 .. Len(long_pkg) /\ long_pkg[k] \in Byte
    BY <1>1, <1>2, ElementOfSeq
  <2>2. long_pkg[k].pkg <= Len(sent) /\ long_pkg[k].pkg \in Int
    BY <2>1 DEF WholeInv, Byte
  <2> QED
    BY <1>1, <1>2, <2>2
<1> QED
  BY <1>2, <1>4, <1>5, <1>6, <1>7 DEF WholeInv

\* A read takes n bytes of those under way.
LEMMA ReadBytesSent ==
    ASSUME TypeOK, WholeInv, NEW n \in 1 .. Len(transit)
    PROVE  LET read == SubSeq(transit, 1, n)
               rest == SubSeq(transit, n + 1, Len(transit))
           IN  /\ \A k \in 1 .. Len(long_pkg \o read) : (long_pkg \o read)[k].pkg <= Len(sent)
               /\ \A k \in 1 .. Len(rest) : rest[k].pkg <= Len(sent)
<1> DEFINE read == SubSeq(transit, 1, n)
           rest == SubSeq(transit, n + 1, Len(transit))
           both == long_pkg \o read
<1>1. long_pkg \in Seq(Byte) /\ transit \in Seq(Byte) /\ n \in 0 .. Len(transit)
      /\ Len(transit) \in Nat
  BY DEF TypeOK
<1>2. /\ read \in Seq(Byte) /\ Len(read) = n /\ \A k \in 1 .. n : read[k] = transit[k]
      /\ Len(rest) = Len(transit) - n
      /\ \A k \in 1 .. Len(transit) - n : rest[k] = transit[n + k]
  BY <1>1, CutSeq
<1> HIDE DEF read, rest
<1>3. /\ Len(both) = Len(long_pkg) + n /\ Len(long_pkg) \in Nat
      /\ \A k \in 1 .. Len(long_pkg) + n :
            both[k] = IF k <= Len(long_pkg) THEN long_pkg[k] ELSE read[k - Len(long_pkg)]
  <2>1. /\ Len(both) = Len(long_pkg) + Len(read) /\ Len(long_pkg) \in Nat
        /\ \A k \in 1 .. Len(long_pkg) + Len(read) :
              both[k] = IF k <= Len(long_pkg) THEN long_pkg[k] ELSE read[k - Len(long_pkg)]
    <3>1. long_pkg \in Seq(Byte) /\ read \in Seq(Byte)
      BY <1>1, <1>2
    <3> QED
      BY <3>1, ConcatProperties
  <2> HIDE DEF both
  <2> QED
    BY <1>2, <2>1
<1> HIDE DEF both
<1>4. \A k \in 1 .. Len(both) : both[k].pkg <= Len(sent)
  <2> SUFFICES ASSUME NEW k \in 1 .. Len(both) PROVE both[k].pkg <= Len(sent)
    OBVIOUS
  <2>1. CASE k <= Len(long_pkg)
    BY <1>3, <2>1 DEF WholeInv
  <2>2. CASE ~(k <= Len(long_pkg))
    <3>1. k - Len(long_pkg) \in 1 .. n /\ k - Len(long_pkg) \in 1 .. Len(transit)
      BY <1>1, <1>3, <2>2
    <3> QED
      BY <1>2, <1>3, <2>2, <3>1 DEF WholeInv
  <2> QED
    BY <2>1, <2>2
<1>5. ASSUME NEW k \in 1 .. Len(rest) PROVE rest[k].pkg <= Len(sent)
  <2>1. k \in 1 .. Len(transit) - n /\ n + k \in 1 .. Len(transit)
    BY <1>1, <1>2
  <2> QED
    BY <1>2, <2>1 DEF WholeInv
<1> QED
  BY <1>4, <1>5 DEF both, read, rest

LEMMA WholeStep == IInv /\ WholeInv /\ [Next]_vars => WholeInv'
<1> SUFFICES ASSUME IInv, WholeInv, [Next]_vars PROVE WholeInv'
  OBVIOUS
<1>0. /\ TypeOK /\ EndInv /\ FramingInv /\ Len(delivered) <= Len(sent)
      /\ long_pkg \in Seq(Byte) /\ transit \in Seq(Byte)
  BY DEF IInv, FramingInv, DeliveredInOrder, TypeOK
<1>1. ASSUME NEW n \in Bodies \cup {0}, session_send(n) PROVE WholeInv'
  BY <1>0, <1>1, WholeSend
<1>2. ASSUME NEW n \in 1 .. Len(transit), on_after_read(n) PROVE WholeInv'
  <2> DEFINE read == SubSeq(transit, 1, n)
  <2>1. /\ long_pkg' = long_pkg \o read /\ transit' = SubSeq(transit, n + 1, Len(transit))
        /\ kind' = kind /\ sent' = sent /\ running' = TRUE
        /\ socket = "open" /\ ~running
        /\ cut' = (cut \/ ~EndsPacket(read))
    BY <1>2, Zenon DEF on_after_read, Readable
  <2>2. read \in Seq(Byte)
    <3>1. n \in 0 .. Len(transit)
      BY <1>0
    <3> QED
      BY <1>0, <3>1, CutSeq
  <2>3. /\ \A k \in 1 .. Len(long_pkg') : long_pkg'[k].pkg <= Len(sent')
        /\ \A k \in 1 .. Len(transit') : transit'[k].pkg <= Len(sent')
    BY <1>0, <2>1, ReadBytesSent
  <2>4. ASSUME ~cut' PROVE EndsPacket(long_pkg)'
    <3> HIDE DEF read
    <3>1. long_pkg = <<>> /\ EndsPacket(read)
      BY <2>1, <2>4 DEF WholeInv
    <3>2. long_pkg' = read
      BY <2>1, <2>2, <3>1, ConcatEmptySeq
    <3>3. \A i : Size(i)' = Size(i)
      BY <2>1 DEF Size, HeadLen, TailLen
    <3> QED
      BY <3>1, <3>2, <3>3 DEF EndsPacket
  <2> QED
    BY <2>1, <2>3, <2>4 DEF WholeInv
<1>3. ASSUME NEW n \in 1 .. Len(transit), process_websocket_connect(n) PROVE WholeInv'
  <2> DEFINE pkg == long_pkg \o SubSeq(transit, 1, n)
             has_client_key == Len(pkg) >= KeyAt
  <2>1. /\ transit' = SubSeq(transit, n + 1, Len(transit))
        /\ long_pkg' = IF has_client_key THEN <<>> ELSE pkg
        /\ kind' = kind /\ sent' = sent /\ running' = running /\ ~running
        /\ cut' = (cut \/ ~has_client_key)
    BY <1>3, Zenon DEF process_websocket_connect, Readable
  <2>2. /\ \A k \in 1 .. Len(pkg) : pkg[k].pkg <= Len(sent)
        /\ \A k \in 1 .. Len(transit') : transit'[k].pkg <= Len(sent')
    BY <1>0, <2>1, ReadBytesSent
  <2> HIDE DEF pkg, has_client_key
  <2>3. \A k \in 1 .. Len(long_pkg') : long_pkg'[k].pkg <= Len(sent')
    <3>1. CASE has_client_key
      <4>1. Len(long_pkg') = 0
        BY <2>1, <3>1
      <4> QED
        BY <4>1
    <3>2. CASE ~has_client_key
      BY <2>1, <2>2, <3>2
    <3> QED
      BY <3>1, <3>2
  <2> QED
    BY <2>1, <2>2, <2>3 DEF WholeInv
<1>4. CASE LoopEnds
  <2>1. /\ kind' = kind /\ sent' = sent /\ cut' = cut /\ transit' = transit
        /\ long_pkg' = long_pkg /\ running /\ ~running' /\ socket' = socket /\ AwaitsHeader
    BY <1>4 DEF LoopEnds, wireVars, closeVars
  <2>2. long_pkg = <<>> \/ cut
    <3> SUFFICES ASSUME long_pkg # <<>>, ~cut PROVE FALSE
      OBVIOUS
    <3>1. Aligned /\ EndsPacket(long_pkg) /\ Len(long_pkg) > 0
      BY <1>0, <2>1 DEF EndInv, FramingInv, WholeInv
    <3> QED
      BY <1>0, <2>1, <3>1, NextIsWhole
  <2> QED
    BY <2>1, <2>2, WholeKept
<1>5. CASE LoopCloses
  BY <1>5, WholeKept DEF LoopCloses, StopsLoop, uv_close, wireVars
<1>6. CASE protocal_recv
  <2>1. /\ long_pkg' = SubSeq(long_pkg, pkg_size + 1, Len(long_pkg))
        /\ transit' = transit /\ sent' = sent /\ kind' = kind /\ cut' = cut
        /\ running' = running /\ running /\ Complete /\ ~AwaitsHeader
    BY <1>6 DEF protocal_recv, Rest, wireVars
  <2>2. pkg_size \in 0 .. Len(long_pkg)
    <3>1. Aligned /\ Len(long_pkg) > 0
      BY <1>0, <2>1 DEF EndInv, FramingInv, AwaitsHeader, Header
    <3>2. pkg_size = Size(Len(delivered) + 1) /\ Len(delivered) + 1 \in 1 .. Len(sent)
      BY <1>0, <2>1, <3>1, PkgSize, NextInFront
    <3>3. pkg_size \in Nat
      BY <1>0, <3>2, Lengths
    <3> QED
      BY <1>0, <2>1, <3>3 DEF Complete
  <2>3. PICK size : size = pkg_size
    OBVIOUS
  <2>4. /\ Len(long_pkg') = Len(long_pkg) - size /\ size \in 0 .. Len(long_pkg)
        /\ Len(long_pkg) \in Nat /\ long_pkg' \in Seq(Byte)
        /\ \A k \in 1 .. Len(long_pkg) - size : long_pkg'[k] = long_pkg[size + k]
    BY <1>0, <2>1, <2>2, <2>3, CutSeq
  <2>5. ASSUME NEW k \in 1 .. Len(long_pkg') PROVE long_pkg'[k].pkg <= Len(sent')
    <3>1. k \in 1 .. Len(long_pkg) - size /\ size + k \in 1 .. Len(long_pkg)
      BY <2>4
    <3> QED
      BY <2>1, <2>4, <3>1 DEF WholeInv
  <2>6. ASSUME ~cut' PROVE EndsPacket(long_pkg)'
    <3> SUFFICES ASSUME long_pkg' # <<>> PROVE EndsPacket(long_pkg)'
      BY DEF EndsPacket
    <3>1. Len(long_pkg') >= 1
      BY <2>4
    <3>2. long_pkg'[Len(long_pkg')] = long_pkg[Len(long_pkg)]
      <4>1. Len(long_pkg) - size \in 1 .. Len(long_pkg) - size
            /\ size + (Len(long_pkg) - size) = Len(long_pkg)
        BY <2>4, <3>1
      <4> QED
        BY <2>4, <3>1, <4>1
    <3>3. long_pkg # <<>>
      BY <2>4, <3>1
    <3>4. EndsPacket(long_pkg)
      BY <2>1, <2>6 DEF WholeInv
    <3>5. \A i : Size(i)' = Size(i)
      BY <2>1 DEF Size, HeadLen, TailLen
    <3> QED
      BY <3>2, <3>3, <3>4, <3>5 DEF EndsPacket, Last
  <2> QED
    BY <2>1, <2>5, <2>6 DEF WholeInv
<1>7. CASE PeerEnds \/ LoopSpins \/ LuaCloses \/ UNCHANGED vars
  BY <1>7, WholeKept DEF PeerEnds, LoopSpins, LuaCloses, vars, wireVars, closeVars
<1>8. CASE ReadFails
  BY <1>8, WholeKept DEF ReadFails
<1>9. CASE on_after_shutdown
  BY <1>9, WholeKept DEF on_after_shutdown, uv_close, wireVars
<1>10. CASE on_close_stream
  BY <1>10, WholeKept DEF on_close_stream, wireVars
<1> QED
  BY <1>1, <1>2, <1>3, <1>4, <1>5, <1>6, <1>7, <1>8, <1>9, <1>10 DEF Next

\* The loop that never comes back (what ReadReturns runs into) takes a read that
\* ended inside a packet: after whole reads every turn hands a packet over or
\* closes, and when the loop is over nothing is left in io_package.
THEOREM WholeReadsNeverSpin ==
    Spec => [](SpinsOnlyOnCut /\ (~cut /\ socket = "open" /\ ~running => long_pkg = <<>>))
<1>1. Init => WholeInv
  <2> SUFFICES ASSUME Init PROVE WholeInv
    OBVIOUS
  <2>1. /\ sent = <<>> /\ Len(sent) = 0 /\ long_pkg = <<>> /\ Len(long_pkg) = 0 /\ ~running
    BY DEF Init
  <2>2. \A k \in 1 .. Len(transit) : transit[k].pkg <= 0
    <3>1. CASE transit = <<>>
      <4>1. Len(transit) = 0
        BY <3>1
      <4> QED
        BY <4>1
    <3>2. CASE transit = Request
      <4>1. RequestLen \in Nat /\ 0 \in 0 .. MaxSent /\ 1 \in Nat \ {0} /\ 1 <= RequestLen + 1
        BY SizesAssumption
      <4>2. /\ Len(Request) = RequestLen - 1 + 1
            /\ \A k \in 1 .. RequestLen - 1 + 1 : Request[k] = [pkg |-> 0, at |-> 1 + k - 1]
        BY <4>1, BytesSeq DEF Request
      <4> QED
        BY <3>2, <4>2
    <3> QED
      BY <3>1, <3>2 DEF Init
  <2> QED
    BY <2>1, <2>2 DEF WholeInv
<1>2. IInv /\ WholeInv => SpinsOnlyOnCut
  <2> SUFFICES ASSUME IInv, WholeInv, running, ~AwaitsHeader, ~Complete, ~cut PROVE FALSE
    BY DEF SpinsOnlyOnCut
  <2>1. /\ TypeOK /\ Aligned /\ EndsPacket(long_pkg) /\ Len(delivered) <= Len(sent)
    BY DEF IInv, EndInv, FramingInv, DeliveredInOrder, WholeInv
  <2>2. Len(long_pkg) > 0
    BY <2>1 DEF AwaitsHeader, Header, TypeOK
  <2> QED
    BY <2>1, <2>2, NextIsWhole
<1>3. WholeInv => (~cut /\ socket = "open" /\ ~running => long_pkg = <<>>)
  BY DEF WholeInv
<1> QED
  BY <1>1, <1>2, <1>3, WholeStep, Inductive, PTL DEF Spec
=============================================================================
