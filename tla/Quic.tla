-------------------------------- MODULE Quic --------------------------------
(***************************************************************************)
(* One QUIC connection of suspenders_quic.h: the handshake, packet numbers *)
(* and acknowledgements, retransmission, the byte stream and the close,    *)
(* between a client that dials and a server that accepts, over a network   *)
(* that loses, duplicates, delays and reorders datagrams.                  *)
(*                                                                         *)
(* Cryptography is ideal: a packet opens exactly when its receiver has the *)
(* keys of its level, and a handshake message is what its name says.  A    *)
(* connection is used by one coroutine, which closes it when a call fails  *)
(* or goes on with its next call.  The unit of the stream is the chunk of  *)
(* one STREAM frame.                                                       *)
(*                                                                         *)
(* A turn of the loop of s_quic_drive or quic_read, from one s_io_recvfrom *)
(* to the next, is one step: the datagram or the 50 ms timeout, what is    *)
(* done with it, the tests at the head of the loop, s_quic_retransmit.     *)
(***************************************************************************)
EXTENDS Integers, Sequences, FiniteSetsExt

CONSTANTS Window,      \* the packet numbers rx_mask remembers
          StreamMax,   \* S_QUIC_STREAM_MAX, in chunks
          FlowLimit,   \* S_QUIC_FLOW, in chunks
          Scenarios    \* what the sides call and what goes wrong; see below

Sides == {"client", "server"}
Levels == {"initial", "handshake", "app"}
Peer(s) == IF s = "client" THEN "server" ELSE "client"

ASSUME QuicAssumption ==
    /\ {Window, StreamMax, FlowLimit} \subseteq Nat \ {0}
    /\ \A z \in Scenarios :
          /\ z.connected \in BOOLEAN   \* begins after a handshake without faults
          /\ \A s \in Sides : z.calls[s] \in Seq({"read", "write", "close"})
          \* how often what goes wrong; the receive timeouts that a datagram can
          \* be under way for, and those that make 5 s
          /\ z.faults \in [lose : Nat, copy : Nat, lag : Nat, delay : Nat, rounds : Nat]

VARIABLES ep,       \* the connection of each side
          net,      \* the datagrams in the network and in the sockets' buffers
          calls,    \* what each side's program still calls
          budget,   \* the faults that may still happen
          finLost   \* history: the network lost the client's Finished

vars == <<ep, net, calls, budget, finLost>>

-----------------------------------------------------------------------------
(* Frames, packets and the connection.  Chunk i of a stream carries i.     *)

NoAck == [largest |-> 0, first |-> -1]
NoData == [offset |-> -1, data |-> 0]
NoFrames == [ack |-> NoAck, crypto |-> "none", stream |-> NoData, close |-> FALSE]
NoFlight == [live |-> FALSE, pn |-> 0, frames |-> NoFrames]

s_quic_conn_new ==
    [state |-> "idle",         \* idle, driving, up, reading, failed, closed
     err |-> "none",           \* why the last call failed
     refused |-> FALSE,        \* history: a frame of the stream was refused
     keys |-> {},              \* the levels whose keys are installed
     app_ready |-> FALSE, closed |-> FALSE,
     tx_pn |-> [l \in Levels |-> 0],
     rx_pns |-> [l \in Levels |-> {}],   \* rx_have, rx_max and rx_mask
     rx_crypto |-> {},         \* the levels whose CRYPTO stream has arrived
     rx |-> <<>>, rx_pos |-> 0, tx_off |-> 0,
     flight |-> [l \in Levels |-> NoFlight],
     rounds |-> 0,             \* receive timeouts of this call
     out |-> {}]               \* what this step sends

Failed(c, why) == [c EXCEPT !.err = why]
Refused(c, why) == [c EXCEPT !.err = why, !.refused = TRUE]
Ok(c) == c.err = "none"

\* Both directions of a level get their keys together.
s_quic_install_initial(c) == [c EXCEPT !.keys = @ \cup {"initial"}]
s_quic_derive_handshake(c) == [c EXCEPT !.keys = @ \cup {"handshake"}]
s_quic_derive_app(c) == [c EXCEPT !.keys = @ \cup {"app"}]

\* s_quic_note_rx: the remembered numbers after pn has arrived.
NoteRx(pns, pn) ==
    CASE pns = {} -> {pn}
      [] pns # {} /\ pn > Max(pns) -> {q \in pns : pn - q < Window} \cup {pn}
      [] pns # {} /\ pn <= Max(pns) /\ Max(pns) - pn >= Window -> pns
      [] OTHER -> pns \cup {pn}

IsDuplicate(pns, pn) == pn \in pns

\* The largest number received, and how many before it came without a gap.
s_quic_encode_ack(c, level) ==
    LET pns == c.rx_pns[level] IN
    IF pns = {} THEN NoAck
    ELSE [largest |-> Max(pns),
          first |-> Max({k \in 0..Window - 1 : \A j \in 0..k : Max(pns) - j \in pns})]

\* Packets are numbered per level; a level has one slot for retransmission,
\* which takes every message of this protocol.
s_quic_send_frames(c, level, frames, retransmit) ==
    LET pn == c.tx_pn[level] IN
    IF level \notin c.keys THEN Failed(c, "keys")
    ELSE [c EXCEPT !.tx_pn[level] = pn + 1,
                   !.out = @ \cup {[level |-> level, pn |-> pn, frames |-> frames]},
                   !.flight[level] = IF retransmit
                                     THEN [live |-> TRUE, pn |-> pn, frames |-> frames]
                                     ELSE @]

s_quic_send_crypto(c, level, msg) ==
    s_quic_send_frames(c, level,
        [NoFrames EXCEPT !.ack = s_quic_encode_ack(c, level), !.crypto = msg], TRUE)

-----------------------------------------------------------------------------
(* The handshake.                                                          *)

\* Mutant: an acknowledgement for any packet up to the flight's clears it.
AcksAnyEarlier(f, ack) == f.live /\ ack.first >= 0 /\ f.pn >= ack.largest - ack.first

Covers(f, ack) ==
    /\ f.live /\ ack.first >= 0
    /\ f.pn <= ack.largest
    /\ f.pn >= (IF ack.largest >= ack.first THEN ack.largest - ack.first ELSE 0)

s_quic_apply_ack(c, level, ack) ==
    IF Covers(c.flight[level], ack) THEN [c EXCEPT !.flight[level].live = FALSE] ELSE c

s_quic_server_flight(c) ==
    LET sh == s_quic_send_crypto(s_quic_derive_handshake(c), "initial", "ServerHello")
    IN s_quic_send_crypto(s_quic_derive_app(sh), "handshake", "ServerFinished")

s_quic_client_finish(c) ==
    [s_quic_send_crypto(c, "handshake", "ClientFinished") EXCEPT !.app_ready = TRUE]

\* "ServerFinished" stands for EncryptedExtensions, Certificate,
\* CertificateVerify and Finished, which travel in one frame.
s_quic_on_msg(c, level, msg) ==
    CASE level = "initial" /\ msg = "ClientHello" -> s_quic_server_flight(c)
      [] level = "initial" /\ msg = "ServerHello" -> s_quic_derive_handshake(c)
      [] level = "handshake" /\ msg = "ServerFinished" ->
            s_quic_client_finish(s_quic_derive_app(c))
      [] level = "handshake" /\ msg = "ClientFinished" -> [c EXCEPT !.app_ready = TRUE]
      [] OTHER -> Failed(c, "message")

\* Every CRYPTO frame is its level's only one, at offset 0.
s_quic_crypto_input(c, level, msg) ==
    IF msg = "none" \/ level \in c.rx_crypto THEN c
    ELSE s_quic_on_msg([c EXCEPT !.rx_crypto = @ \cup {level}], level, msg)

\* Mutant: out-of-order data is appended.
AppendsBeyondGap(c, stream) ==
    IF stream.offset < Len(c.rx) THEN c ELSE [c EXCEPT !.rx = Append(@, stream.data)]

s_quic_stream_input(c, stream) ==
    CASE stream = NoData -> c
      [] stream.offset + 1 > StreamMax -> Refused(c, "full")
      [] stream.offset = Len(c.rx) -> [c EXCEPT !.rx = Append(@, stream.data)]
      [] stream.offset + 1 <= Len(c.rx) -> c
      [] OTHER -> Refused(c, "gap")

s_quic_parse_frames(c, level, frames) ==
    LET a == s_quic_apply_ack(c, level, frames.ack)
        h == s_quic_crypto_input(a, level, frames.crypto)
        d == IF Ok(h) THEN s_quic_stream_input(h, frames.stream) ELSE h
    IN IF frames.close THEN [c EXCEPT !.closed = TRUE] ELSE d

\* s_quic_open_packet and s_quic_ingest: a packet without keys is dropped,
\* unless it is a 1-RTT packet on an established connection.
s_quic_ingest(c, p) ==
    IF p.level \notin c.keys THEN
        IF c.app_ready /\ p.level = "app" THEN Failed(c, "undecryptable") ELSE c
    ELSE IF IsDuplicate(c.rx_pns[p.level], p.pn) THEN c
    ELSE s_quic_parse_frames([c EXCEPT !.rx_pns[p.level] = NoteRx(@, p.pn)],
                             p.level, p.frames)

-----------------------------------------------------------------------------
(* Retransmission.  due: 40 ms have passed since the packets were sent.    *)

\* Mutant: the Initial flight is given up once the handshake keys are there.
GivesUpInitial(c, level, due) ==
    CASE ~c.flight[level].live -> c
      [] level = "initial" /\ "handshake" \in c.keys -> [c EXCEPT !.flight[level].live = FALSE]
      [] due -> s_quic_send_frames(c, level, c.flight[level].frames, TRUE)
      [] OTHER -> c

RetransmitLevel(c, level, due) ==
    CASE ~c.flight[level].live -> c
      [] c.app_ready /\ level # "app" -> [c EXCEPT !.flight[level].live = FALSE]
      [] due -> s_quic_send_frames(c, level, c.flight[level].frames, TRUE)
      [] OTHER -> c

s_quic_retransmit(c, due) ==
    RetransmitLevel(RetransmitLevel(RetransmitLevel(c, "initial", due), "handshake", due),
                    "app", due)

\* A successful quic_accept sends HANDSHAKE_DONE, which is not kept.
Established(s, c) ==
    [(IF s = "client" THEN c ELSE s_quic_send_frames(c, "app", NoFrames, FALSE))
        EXCEPT !.state = "up", !.rounds = 0]

\* The loop of s_quic_drive after it has ingested a datagram.
DriveOn(s, c, due) ==
    CASE ~Ok(c) -> [c EXCEPT !.state = "failed"]
      [] Ok(c) /\ c.app_ready -> Established(s, c)
      [] Ok(c) /\ ~c.app_ready /\ c.closed -> [c EXCEPT !.state = "failed"]
      [] OTHER -> s_quic_retransmit(c, due)

\* A call returns, and leaves the connection as usable as it was.
Returns(c) == [c EXCEPT !.state = "up", !.rounds = 0]

\* The loop of quic_read after it has ingested a datagram, or at its start.
ReadOn(c, due) ==
    CASE ~Ok(c) -> Returns(c)
      [] Ok(c) /\ c.rx_pos < Len(c.rx) -> Returns([c EXCEPT !.rx_pos = @ + 1])
      [] Ok(c) /\ c.rx_pos >= Len(c.rx) /\ c.closed -> Returns(Failed(c, "eof"))
      [] OTHER -> s_quic_retransmit([c EXCEPT !.state = "reading"], due)

-----------------------------------------------------------------------------
(* Steps.                                                                  *)

Receiving(s) == ep[s].state \in {"driving", "reading"} \/ (s = "server" /\ ep[s].state = "idle")
Gone(c) == c.state \in {"failed", "closed"}

\* A datagram that can change nothing: its receiver is gone, or established
\* and never again looks at the packet numbers or the flight of its level.
Idle(p, c) == Gone(c) \/ (c.app_ready /\ p.level # "app")

\* Side s becomes c and sends c.out; kept are the datagrams that stay.
Become(s, c, kept) ==
    /\ ep' = [ep EXCEPT ![s] = [c EXCEPT !.out = {}]]
    /\ net' = {p \in kept \cup {[to |-> Peer(s), age |-> 0, level |-> p.level, pn |-> p.pn,
                                 frames |-> p.frames] : p \in c.out} : ~Idle(p, ep'[p.to])}

Spend(fault) == budget[fault] > 0 /\ budget' = [budget EXCEPT ![fault] = @ - 1]

\* More than 40 ms may pass although no receive has timed out.
Due(due) == IF due THEN Spend("lag") ELSE UNCHANGED budget

Dialing ==
    [s_quic_send_crypto(s_quic_install_initial(s_quic_conn_new), "initial", "ClientHello")
        EXCEPT !.state = "driving"]

Accepting(p) ==
    s_quic_ingest([s_quic_install_initial(s_quic_conn_new) EXCEPT !.state = "driving"], p)

quic_dial ==
    /\ ep["client"].state = "idle"
    /\ Become("client", Dialing, net)
    /\ UNCHANGED <<calls, budget, finLost>>

\* The first datagram, which quic_accept waits for without a deadline.
quic_accept(p) ==
    /\ ep["server"].state = "idle" /\ p.to = "server"
    /\ \E c \in {Accepting(p)} : Become("server", DriveOn("server", c, FALSE), net \ {p})
    /\ UNCHANGED <<calls, budget, finLost>>

Receive(s, p, due) ==
    /\ ep[s].state \in {"driving", "reading"} /\ p.to = s
    /\ \E c \in {s_quic_ingest(ep[s], p)} :
           Become(s, IF c.state = "driving" THEN DriveOn(s, c, due) ELSE ReadOn(c, due), net \ {p})
    /\ Due(due)
    /\ UNCHANGED <<calls, finLost>>

\* 50 ms without a datagram: none that has been delayed for as long as the
\* network delays is still awaited, and no side's clock runs ahead.
ReceiveTimeout(s) ==
    LET c == [ep[s] EXCEPT !.rounds = @ + 1] IN
    /\ ep[s].state \in {"driving", "reading"}
    /\ \A p \in net : p.age = budget.delay => ~Receiving(p.to)
    /\ ep[Peer(s)].state \in {"driving", "reading"} => ep[s].rounds <= ep[Peer(s)].rounds
    /\ Become(s, IF c.rounds < budget.rounds THEN s_quic_retransmit(c, TRUE)
                 ELSE IF c.state = "driving" THEN [Failed(c, "timeout") EXCEPT !.state = "failed"]
                 ELSE Returns(Failed(c, "timeout")),
              {[p EXCEPT !.age = IF @ < budget.delay THEN @ + 1 ELSE @] : p \in net})
    /\ UNCHANGED <<calls, budget, finLost>>

\* Side s makes its next call, whatever the one before it has returned.
Calls(s, op) == calls[s] # <<>> /\ Head(calls[s]) = op /\ calls' = [calls EXCEPT ![s] = Tail(@)]
Called(s) == [ep[s] EXCEPT !.err = "none"]

quic_read(s, due) ==
    /\ ep[s].state = "up" /\ Calls(s, "read")
    /\ Become(s, ReadOn(Called(s), due), net)
    /\ Due(due)
    /\ UNCHANGED finLost

\* One chunk; quic_write sends as many as its data fills, one after the other.
quic_write(s) ==
    LET c == Called(s)
        frames == [NoFrames EXCEPT !.ack = s_quic_encode_ack(c, "app"),
                                   !.stream = [offset |-> c.tx_off, data |-> c.tx_off + 1]]
    IN /\ c.state = "up" /\ Calls(s, "write")
       /\ Become(s, IF c.tx_off + 1 > FlowLimit THEN Failed(c, "limit")
                    ELSE [s_quic_send_frames(c, "app", frames, TRUE) EXCEPT !.tx_off = @ + 1],
                 net)
       /\ UNCHANGED <<budget, finLost>>

\* A program closes when it says so, and may when a call has failed.
quic_close(s) ==
    LET c == ep[s]
        frames == [NoFrames EXCEPT !.close = TRUE]
    IN /\ c.state = "up" /\ (Calls(s, "close") \/ (~Ok(c) /\ UNCHANGED calls))
       /\ Become(s, [(IF ~c.closed /\ c.app_ready
                      THEN s_quic_send_frames(c, "app", frames, FALSE)
                      ELSE c) EXCEPT !.state = "closed"], net)
       /\ UNCHANGED <<budget, finLost>>

Lose(p) ==
    /\ Spend("lose")
    /\ net' = net \ {p}
    /\ finLost' = (finLost \/ p.frames.crypto = "ClientFinished")
    /\ UNCHANGED <<ep, calls>>

\* A second copy of a datagram, as old as the network lets it become.
Copy(p) ==
    /\ p.age < budget.delay /\ Spend("copy")
    /\ net' = net \cup {[p EXCEPT !.age = budget.delay]}
    /\ UNCHANGED <<ep, calls, finLost>>

\* The two connections after quic_dial and quic_accept without a fault.
Connected ==
    LET Sent(c, level) == CHOOSE p \in c.out : p.level = level
        accepting == Accepting(Sent(Dialing, "initial"))
        hello == s_quic_ingest(Dialing, Sent(accepting, "initial"))
        client == s_quic_ingest(hello, Sent(accepting, "handshake"))
        server == s_quic_ingest(accepting, Sent(client, "handshake"))
    IN [s \in Sides |-> [Established(s, IF s = "client" THEN client ELSE server) EXCEPT !.out = {}]]

HandshakeDone == [to |-> "client", age |-> 0, level |-> "app", pn |-> 0, frames |-> NoFrames]

Init ==
    /\ \E z \in Scenarios :
          /\ ep = IF z.connected THEN Connected ELSE [s \in Sides |-> s_quic_conn_new]
          /\ net = IF z.connected THEN {HandshakeDone} ELSE {}
          /\ calls = z.calls /\ budget = z.faults
    /\ finLost = FALSE

\* What the connection does by itself: the calls in progress go on.
Step(s) ==
    \/ s = "client" /\ quic_dial
    \/ s = "server" /\ \E p \in net : quic_accept(p)
    \/ \E p \in net, due \in BOOLEAN : Receive(s, p, due)
    \/ ReceiveTimeout(s)

Call(s) == (\E due \in BOOLEAN : quic_read(s, due)) \/ quic_write(s) \/ quic_close(s)

\* Every call has returned.
Finished ==
    /\ \A s \in Sides : Gone(ep[s]) \/ (ep[s].state = "up" /\ calls[s] = <<>>)
    /\ UNCHANGED vars

Next ==
    \/ Finished
    \/ \E s \in Sides : Step(s) \/ Call(s)
    \/ \E p \in net : Lose(p) \/ Copy(p)

Spec == Init /\ [][Next]_vars

-----------------------------------------------------------------------------
(* Properties.                                                             *)

\* The bytes a side has for its reader are the bytes the other side has
\* written, each once and in order, up to some point: whatever the network
\* loses, copies or reorders, s_quic_stream_input takes a frame only at the
\* end of what it has, and s_quic_retransmit sends the frames it kept.
StreamInOrder ==
    \A s \in Sides :
        /\ Len(ep[s].rx) <= ep[Peer(s)].tx_off
        /\ ep[s].rx = [i \in 1..Len(ep[s].rx) |-> i]

\* A writer that has nothing left to retransmit has been heard: once the slot
\* of the application level is empty, the peer holds every byte written, the
\* bytes of earlier frames whose place in the slot was taken included, or its
\* reader was told of the loss.  A frame beyond a gap or the buffer's end fails
\* quic_read, but s_quic_note_rx has counted its packet as received, and the
\* next quic_write of that side acknowledges it.
AckMeansDelivered ==
    \A s \in Sides :
        ep[s].tx_off > 0 /\ ~ep[s].flight["app"].live /\ ~ep[Peer(s)].refused
            => Len(ep[Peer(s)].rx) = ep[s].tx_off

\* No quic_dial and no quic_accept runs into its deadline as long as losses
\* are few, except that an accept does when the client's Finished was lost:
\* that packet is sent once, since s_quic_retransmit drops the flights of the
\* handshake as soon as app_ready is set.  Otherwise an accept fails only when
\* the client has closed already, or a frame came that the stream refuses.
HandshakeOutcome ==
    /\ ep["client"].state # "failed"
    /\ ep["server"].state = "failed" =>
          \/ finLost /\ ep["server"].err = "timeout"
          \/ ep["server"].closed
          \/ ep["server"].err \in {"gap", "full"}
=============================================================================
