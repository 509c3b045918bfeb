---------------------------- MODULE PacketStream -----------------------------
(***************************************************************************)
(* One accepted connection of a server: the bytes its peer sends, the      *)
(* reads libuv makes of them, the loops that cut them into packets, and    *)
(* the end of the connection.  Source: src/src/moduel/net/net_uv.cpp and   *)
(* moduel/session/tcp_session.cpp.                                         *)
(*                                                                         *)
(* A byte is the packet it is of and its place there: what the code reads  *)
(* in it (a length, a tail, the first byte of a closing frame) follows.    *)
(***************************************************************************)
EXTENDS Integers, Sequences, SequencesExt

CONSTANTS
    Kinds,       \* what the server runs: "bin", "json" (over TCP) or "ws"
    Bodies,      \* lengths of the messages that are sent
    MAX_PKG_SIZE,
    MAX_RECV_SIZE,
    RequestLen,  \* length of the request that opens a WebSocket
    KeyAt,       \* where the value of Sec-WebSocket-Key begins in it
    MaxSent      \* bound: packets sent in a behaviour

ASSUME KindsAssumption == Kinds \subseteq {"bin", "json", "ws"}
ASSUME BodiesAssumption == Bodies \subseteq Nat \ {0}
ASSUME SizesAssumption == /\ {MAX_PKG_SIZE, MAX_RECV_SIZE, MaxSent} \subseteq Nat \ {0}
                          /\ RequestLen \in Nat /\ KeyAt \in 1 .. RequestLen

VARIABLES
    kind,
    is_shake_hand, \* is the WebSocket open
    sent,          \* lengths of the messages sent; 0 is the closing frame
    transit,       \* bytes on their way
    peer_open,     \* the peer did not end its side
    long_pkg,      \* bytes read and not yet consumed (io_package)
    running,       \* the loop that cuts packets is under way
    socket,        \* "open", "shutdown", "closing" (uv_close) or "closed"
    removed,       \* field of the session
    closes,        \* history: calls of uv_close
    told,          \* history: calls of on_session_disconnect
    delivered,     \* history: what was handed to the service table
    cut            \* history: a read ended inside a packet

wireVars == <<sent, transit, peer_open>>
closeVars == <<socket, removed, closes, told>>
vars == <<kind, is_shake_hand, wireVars, long_pkg, running, closeVars, delivered, cut>>

HeadLen == IF kind = "ws" THEN 2 + 4 ELSE IF kind = "bin" THEN 2 ELSE 0
TailLen == IF kind = "json" THEN 2 ELSE 0
Size(i) == HeadLen + sent[i] + TailLen

Bytes(i, first, last) == [k \in 1 .. last - first + 1 |-> [pkg |-> i, at |-> first + k - 1]]

\* What the loops hand over of packet i: without the length, with the \r\n.
Payload(i) == Bytes(i, HeadLen + 1, Size(i))

\* The request is packet 0.
Request == Bytes(0, 1, RequestLen)

Byte == [pkg : 0 .. MaxSent, at : Nat \ {0}]

TypeOK ==
    /\ kind \in Kinds
    /\ is_shake_hand \in BOOLEAN
    /\ sent \in Seq(Bodies \cup {0}) /\ Len(sent) <= MaxSent
    /\ transit \in Seq(Byte)
    /\ peer_open \in BOOLEAN
    /\ long_pkg \in Seq(Byte)
    /\ running \in BOOLEAN
    /\ socket \in {"open", "shutdown", "closing", "closed"}
    /\ removed \in BOOLEAN
    /\ closes \in Nat
    /\ told \in 0 .. 2
    /\ delivered \in Seq(Seq(Byte))
    /\ cut \in BOOLEAN

\* on_connection and start_read; a WebSocket client sends its request first.
Init ==
    /\ kind \in Kinds
    /\ is_shake_hand = FALSE
    /\ sent = <<>>
    /\ transit = IF kind = "ws" THEN Request ELSE <<>>
    /\ peer_open = TRUE
    /\ long_pkg = <<>>
    /\ running = FALSE
    /\ socket = "open"
    /\ removed = FALSE
    /\ closes = 0
    /\ told = 0
    /\ delivered = <<>>
    /\ cut = FALSE

------------------------------------------------------------------------------
(* The peer                                                                *)

\* The two bytes of the length: a longer packet says something else.
LengthFits(n) == kind = "bin" => HeadLen + n < MAX_PKG_SIZE

\* session_send on the other side: length and body, or body and \r\n.
session_send(n) ==
    /\ peer_open /\ Len(sent) < MaxSent
    /\ LengthFits(n)
    /\ kind = "ws" => is_shake_hand
    /\ n = 0 => kind = "ws"
    /\ sent' = Append(sent, n)
    /\ transit' = transit \o Bytes(Len(sent) + 1, 1, HeadLen + n + TailLen)
    /\ UNCHANGED <<kind, is_shake_hand, peer_open, long_pkg, running, closeVars,
                   delivered, cut>>

PeerEnds ==
    /\ peer_open
    /\ peer_open' = FALSE
    /\ UNCHANGED <<kind, is_shake_hand, sent, transit, long_pkg, running, closeVars,
                   delivered, cut>>

------------------------------------------------------------------------------
(* Reads                                                                   *)

Readable(n) == socket = "open" /\ ~running /\ n \in 1 .. Len(transit)

\* Does the last byte of s end its packet?
EndsPacket(s) == s # <<>> => Last(s).at = IF Last(s).pkg = 0 THEN RequestLen
                                          ELSE Size(Last(s).pkg)

uv_close == closes' = closes + 1 /\ socket' = "closing" /\ UNCHANGED <<removed, told>>

\* A read of n bytes enters the loop that cuts packets.
on_after_read(n) ==
    /\ Readable(n)
    /\ kind = "ws" => is_shake_hand
    /\ long_pkg' = long_pkg \o SubSeq(transit, 1, n)
    /\ transit' = SubSeq(transit, n + 1, Len(transit))
    /\ running' = TRUE
    /\ cut' = (cut \/ ~EndsPacket(SubSeq(transit, 1, n)))
    /\ UNCHANGED <<kind, is_shake_hand, sent, peer_open, closeVars, delivered>>

\* A read before the handshake.  The request is parsed again from its start;
\* from the key on, it is taken to be there in full.
process_websocket_connect(n) ==
    LET pkg == long_pkg \o SubSeq(transit, 1, n)
        has_client_key == Len(pkg) >= KeyAt
    IN
    /\ Readable(n)
    /\ kind = "ws" /\ ~is_shake_hand
    /\ has_client_key => n = Len(transit)
    /\ transit' = SubSeq(transit, n + 1, Len(transit))
    /\ is_shake_hand' = has_client_key
    /\ long_pkg' = IF has_client_key THEN <<>> ELSE pkg
    /\ IF ~has_client_key /\ Len(pkg) >= MAX_RECV_SIZE THEN uv_close
       ELSE UNCHANGED closeVars
    /\ cut' = (cut \/ ~has_client_key)
    /\ UNCHANGED <<kind, sent, peer_open, running, delivered>>

------------------------------------------------------------------------------
(* The loops that cut packets: one action is one turn                      *)

\* Bytes needed before a length can be read.
Header == IF kind = "ws" THEN 2 + 4 ELSE IF kind = "bin" THEN 3 ELSE 1

\* Mutant of AwaitsHeader: the loop goes on only while it has a second packet.
AwaitsHeader_OnePacket == Len(long_pkg) < Header \/ delivered # <<>>

\* recv_header and process_websocket_pack: not enough to tell the length.
AwaitsHeader == Len(long_pkg) < Header

\* The length in the header, or for JSON the place of the first \r\n; 0 if
\* there is none.
pkg_size ==
    IF kind = "json"
    THEN LET tails == {k \in 1 .. Len(long_pkg) - 1 :
                          /\ long_pkg[k].at = Size(long_pkg[k].pkg) - 1
                          /\ long_pkg[k + 1].at = Size(long_pkg[k].pkg)}
         IN IF tails = {} THEN 0 ELSE (CHOOSE k \in tails : \A j \in tails : k <= j) + 1
    ELSE Size(Head(long_pkg).pkg)

Complete == pkg_size > 0 /\ pkg_size <= Len(long_pkg)

TooLong ==
    IF kind = "json" THEN pkg_size = 0 /\ Len(long_pkg) > MAX_PKG_SIZE - 1
    ELSE pkg_size >= MAX_PKG_SIZE

\* The first byte is 0x88: the peer closes the WebSocket.
Closing == kind = "ws" /\ Complete /\ sent[Head(long_pkg).pkg] = 0

\* Mutant of Rest: recved = 0, what was read of the next packet is dropped.
Rest_None == <<>>

\* The buffer once a packet is consumed.
Rest == SubSeq(long_pkg, pkg_size + 1, Len(long_pkg))

\* while (recved > 0): nothing is left, or not enough to tell the length.
LoopEnds ==
    /\ running
    /\ AwaitsHeader
    /\ running' = FALSE
    /\ UNCHANGED <<kind, is_shake_hand, wireVars, long_pkg, closeVars, delivered, cut>>

\* Mutant of StopsLoop: the break is forgotten.
StopsLoop_Not == running' = TRUE

\* The break after uv_close.
StopsLoop == running' = FALSE

\* A packet that is too long, or a closing frame.  (The same close on a length below 2,
\* the size of the length itself, needs a peer that does not send by session_send.)
LoopCloses ==
    /\ running /\ ~AwaitsHeader
    /\ TooLong \/ Closing
    /\ uv_close
    /\ StopsLoop
    /\ UNCHANGED <<kind, is_shake_hand, wireVars, long_pkg, delivered, cut>>

\* A whole packet goes to on_bin_protocal_recv_entry or its like.
protocal_recv ==
    /\ running /\ ~AwaitsHeader
    /\ Complete /\ ~TooLong /\ ~Closing
    /\ delivered' = Append(delivered, SubSeq(long_pkg, HeadLen + 1, pkg_size))
    /\ long_pkg' = Rest
    /\ UNCHANGED <<kind, is_shake_hand, wireVars, running, closeVars, cut>>

\* An incomplete packet: no branch of the loop is taken (JSON: an empty packet
\* is handed over and refused), and the loop goes on.
LoopSpins ==
    /\ running /\ ~AwaitsHeader
    /\ ~Complete /\ ~TooLong
    /\ UNCHANGED vars

------------------------------------------------------------------------------
(* The end of the connection                                               *)

\* on_after_read with an error: end of file after all bytes, or a reset.
ReadFails ==
    /\ socket = "open" /\ ~running
    /\ ~peer_open
    /\ socket' = "shutdown"
    /\ transit' = <<>>
    /\ UNCHANGED <<kind, is_shake_hand, sent, peer_open, long_pkg, running, removed,
                   closes, told, delivered, cut>>

on_after_shutdown ==
    /\ socket = "shutdown" /\ ~running
    /\ uv_close
    /\ UNCHANGED <<kind, is_shake_hand, wireVars, long_pkg, running, delivered, cut>>

close_session == removed' = TRUE /\ told' = told + 1

\* A service closes the session: the services are told, the socket stays open.
LuaCloses ==
    /\ ~removed /\ ~running
    /\ close_session
    /\ UNCHANGED <<kind, is_shake_hand, wireVars, long_pkg, running, socket, closes,
                   delivered, cut>>

\* Mutant of Tells: nobody is told of a session that was not closed before.
Tells_Nobody == removed' = TRUE /\ UNCHANGED told

\* on_close_stream tells the services, whether or not one closed the session.
Tells == close_session

on_close_stream ==
    /\ socket = "closing" /\ ~running
    /\ Tells
    /\ socket' = "closed"
    /\ long_pkg' = <<>>
    /\ UNCHANGED <<kind, is_shake_hand, wireVars, running, closes, delivered, cut>>

Next ==
    \/ \E n \in Bodies \cup {0} : session_send(n)
    \/ PeerEnds
    \/ \E n \in 1 .. Len(transit) : on_after_read(n) \/ process_websocket_connect(n)
    \/ LoopEnds \/ LoopCloses \/ protocal_recv \/ LoopSpins
    \/ ReadFails \/ on_after_shutdown \/ on_close_stream
    \/ LuaCloses

Reads == \E n \in 1 .. Len(transit) : on_after_read(n) \/ process_websocket_connect(n)
Loop == LoopEnds \/ LoopCloses \/ protocal_recv \/ LoopSpins

\* The event loop of libuv: a callback runs on, bytes are read, and ended or
\* broken connections are reported.
Fairness ==
    /\ WF_vars(Loop)
    /\ WF_vars(Reads)
    /\ WF_vars(ReadFails)
    /\ WF_vars(on_after_shutdown \/ on_close_stream)

Spec == Init /\ [][Next]_vars /\ Fairness

------------------------------------------------------------------------------
(* What the services can rely on                                           *)

\* uv_close is called once a connection (libuv aborts on a second call),
\* whichever of the ends of a connection come together.
ClosedOnce == closes <= 1

\* Whatever the reads cut: the i-th packet handed over is the i-th sent, whole.
DeliveredInOrder ==
    /\ Len(delivered) <= Len(sent)
    /\ \A i \in DOMAIN delivered : delivered[i] = Payload(i)

\* All that can be handed over.
Packets == {Bytes(i, head + 1, head + n) :
               i \in 1 .. MaxSent, head \in {0, 2, 6},
               n \in Bodies \cup {b + 2 : b \in Bodies} \cup {0}}

Channel == INSTANCE PacketChannel
    WITH Packets <- Packets,
         given <- [i \in DOMAIN sent |-> Payload(i)],
         taken <- delivered,
         open <- (closes = 0)

\* Whatever the reads cut, the packets handed over are those that were sent:
\* each once, whole, in order, and none after the close.
ImplementsChannel == Channel!Spec

\* As long as every read ends where a packet ends, every packet is handed over,
\* unless the connection ends.
WholeReadsDelivered ==
    [](~cut) => \A i \in 1 .. MaxSent :
        (Len(sent) >= i) ~> (Len(delivered) >= i \/ socket # "open")

\* And the services hear of the end of a connection, or of its close.
EndIsTold == [](~cut) => (~peer_open \/ closes > 0 ~> told > 0 /\ socket = "closed")

(* What the code's comments say, and the code does not do                  *)

\* net_uv.cpp:148 and 223, a packet that is not complete waits for the next
\* read: the callback of a read comes back to the event loop.
ReadReturns == running ~> ~running
==============================================================================
