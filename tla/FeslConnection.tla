--------------------------- MODULE FeslConnection ---------------------------
(***************************************************************************)
(* One FESL connection: the loop of Session.run in server/fesl/server.go   *)
(* and the framing of server/fesl/packet.go, between a client that sends a *)
(* given sequence of packets and the TCP stream that cuts it anywhere.     *)
(*                                                                         *)
(* The stream is the concatenation of the packets, told apart byte by byte *)
(* only by the packet a byte belongs to and whether it is its first.  What *)
(* a handler does is the subject of other modules; here it returns a       *)
(* response or an error, which is answered too.  Time passes in ticks of   *)
(* the read deadline (500 ms), and only while the loop waits in Read.      *)
(***************************************************************************)
EXTENDS Naturals, Sequences, SequencesExt

CONSTANTS Streams,  \* the sequences of packets a client may send
          HeaderLen,
          Interval, \* MemcheckIntervalSec, in ticks
          Window,   \* bound: messages the socket takes before Write blocks
          MaxPackets \* bound: packets a client sends

\* A packet: its kind, its length and the length its header claims.
Packet == [kind : {"request", "memcheck"}, len : Nat \ {0}, claims : Nat]

ASSUME ConnectionAssumption ==
  /\ HeaderLen \in Nat \ {0} /\ Interval \in Nat /\ Window \in Nat \ {0}
  /\ \A p \in Streams : /\ p \in Seq(Packet) /\ Len(p) <= MaxPackets
                        /\ \A i \in DOMAIN p : p[i].claims # p[i].len => p[i].claims < HeaderLen

VARIABLES packets,  \* what the client sends on this connection
          sent,     \* bytes of it that are in the socket
          eof,      \* the client has closed its side
          read,     \* bytes the loop has appended to buf
          start,    \* bytes it has removed from the front of buf
          at,       \* where the loop is
          pending,  \* the message being answered, or none
          out,      \* messages in the socket that the client has not received
          since,    \* ticks since lastMemcheck, at most Interval + 1
          stopping, \* the server's context is done
          answered  \* history: the packets that have been answered, in order

client == <<packets, sent, eof>>
input  == <<read, start>>
cvars  == <<client, input, at, pending, out, since, stopping, answered>>

Challenge == 0
NoMessage == <<>>

\* A message that answers a packet carries its id, here its position.
Responses(message) == IF message = <<Challenge>> THEN NoMessage ELSE message

-----------------------------------------------------------------------------
\* The position of the first byte of packet i in the stream, less one.
Offset(i) ==
  LET offset[n \in 1 .. Len(packets) + 1] ==
        IF n = 1 THEN 0 ELSE offset[n - 1] + packets[n - 1].len
  IN  offset[i]

Total == Offset(Len(packets) + 1)

\* The packets that begin at the front of buf: none if framing were lost.
AtFront == {i \in DOMAIN packets : Offset(i) = start}

Buffered == read - start

\* The length field of the header at the front.
Claimed == IF AtFront = {} THEN 0 ELSE packets[CHOOSE i \in AtFront : TRUE].claims

\* Decode: there is a whole packet, there is not yet, or its length is invalid.
Complete == Buffered >= HeaderLen /\ Claimed >= HeaderLen /\ Buffered >= Claimed
Invalid == Buffered >= HeaderLen /\ Claimed < HeaderLen
Incomplete == ~Complete /\ ~Invalid

-----------------------------------------------------------------------------
(* The loop *)

Return == at' = "closed"

Say(message, next) ==
  /\ pending' = <<message>>
  /\ at' = next

\* Read returns some of the bytes that have arrived (8192 at most).
Read ==
  /\ at = "read" /\ read < sent
  /\ \E n \in read + 1 .. sent : read' = n
  /\ at' = "decode"
  /\ UNCHANGED <<client, start, pending, out, since, stopping, answered>>

\* Deviation: the context is not looked at.
Timeout_Uncancelled ==
  /\ at = "read" /\ read = sent /\ ~eof
  /\ IF since > Interval
       THEN Say(Challenge, "challenge") /\ since' = 0
       ELSE since' = since + 1 /\ UNCHANGED <<at, pending>>
  /\ UNCHANGED <<client, input, out, stopping, answered>>

\* Deviation: in the middle of a packet there is no challenge.
Timeout_OnlyBetweenPackets ==
  /\ at = "read" /\ read = sent /\ ~eof
  /\ \/ /\ stopping
        /\ Return
        /\ UNCHANGED <<pending, since>>
     \/ /\ ~stopping /\ since > Interval /\ Buffered = 0
        /\ Say(Challenge, "challenge")
        /\ since' = 0
     \/ /\ ~stopping /\ since <= Interval
        /\ since' = since + 1
        /\ UNCHANGED <<at, pending>>
  /\ UNCHANGED <<client, input, out, stopping, answered>>

\* The deadline expires with nothing to read.
Timeout ==
  /\ at = "read" /\ read = sent /\ ~eof
  /\ \/ /\ stopping
        /\ Return
        /\ UNCHANGED <<pending, since>>
     \/ /\ ~stopping /\ since > Interval
        /\ Say(Challenge, "challenge")
        /\ since' = 0
     \/ /\ ~stopping /\ since <= Interval
        /\ since' = since + 1
        /\ UNCHANGED <<at, pending>>
  /\ UNCHANGED <<client, input, out, stopping, answered>>

\* EOF comes after the last byte; what is left in buf is dropped.
ReadEOF ==
  /\ at = "read" /\ read = sent /\ eof
  /\ Return
  /\ UNCHANGED <<client, input, pending, out, since, stopping, answered>>

\* A reset, or any other error.
ReadError ==
  /\ at = "read"
  /\ Return
  /\ UNCHANGED <<client, input, pending, out, since, stopping, answered>>

\* Deviation: buf is emptied, whatever follows the packet in it.
Consume_DropsRest == start' = read

\* buf = rest
Consume == start' = start + Claimed

IsMemcheck == \E i \in AtFront : packets[i].kind = "memcheck"

DecodeMemcheck ==
  /\ at = "decode" /\ Complete /\ IsMemcheck
  /\ Consume
  /\ since' = 0
  /\ UNCHANGED <<client, read, at, pending, out, stopping, answered>>

\* dispatch, or handlerErrorResponse: a message with the id of the packet.
DecodeRequest ==
  /\ at = "decode" /\ Complete /\ ~IsMemcheck
  /\ Consume
  /\ \E i \in AtFront : Say(i, "respond")
  /\ UNCHANGED <<client, read, out, since, stopping, answered>>

DecodeIncomplete ==
  /\ at = "decode" /\ Incomplete
  /\ at' = "read"
  /\ UNCHANGED <<client, input, pending, out, since, stopping, answered>>

DecodeError ==
  /\ at = "decode" /\ Invalid
  /\ Return
  /\ UNCHANGED <<client, input, pending, out, since, stopping, answered>>

\* Deviation: after a response the loop goes back to Read.
Write_ThenRead ==
  /\ at \in {"challenge", "respond"}
  /\ Len(out) < Window
  /\ out' = out \o pending
  /\ answered' = answered \o Responses(pending)
  /\ pending' = NoMessage
  /\ at' = "read"
  /\ UNCHANGED <<client, input, since, stopping>>

\* Write has no deadline: it blocks until the client takes what came before.
Write ==
  /\ at \in {"challenge", "respond"}
  /\ Len(out) < Window
  /\ out' = out \o pending
  /\ answered' = answered \o Responses(pending)
  /\ pending' = NoMessage
  /\ at' = IF at = "challenge" THEN "read" ELSE "decode"
  /\ UNCHANGED <<client, input, since, stopping>>

\* The client is gone: the error is ignored, the next Read will return.
WriteError ==
  /\ at \in {"challenge", "respond"} /\ eof
  /\ pending' = NoMessage
  /\ at' = IF at = "challenge" THEN "read" ELSE "decode"
  /\ answered' = answered \o Responses(pending)
  /\ UNCHANGED <<client, input, out, since, stopping>>

-----------------------------------------------------------------------------
(* The client, and the server's shutdown *)

ClientSends ==
  /\ ~eof /\ sent < Total
  /\ \E n \in sent + 1 .. Total : sent' = n
  /\ UNCHANGED <<packets, eof, input, at, pending, out, since, stopping, answered>>

ClientReceives ==
  /\ out # <<>>
  /\ out' = Tail(out)
  /\ UNCHANGED <<client, input, at, pending, since, stopping, answered>>

ClientCloses ==
  /\ ~eof
  /\ eof' = TRUE
  /\ UNCHANGED <<packets, sent, input, at, pending, out, since, stopping, answered>>

Shutdown ==
  /\ ~stopping
  /\ stopping' = TRUE
  /\ UNCHANGED <<client, input, at, pending, out, since, answered>>

\* run writes the first challenge before it reads anything.
CInit ==
  /\ packets \in Streams
  /\ sent = 0 /\ eof = FALSE
  /\ read = 0 /\ start = 0
  /\ at = "challenge" /\ pending = <<Challenge>>
  /\ out = <<>> /\ answered = <<>>
  /\ since = 0
  /\ stopping = FALSE

Run == \/ Read \/ Timeout \/ ReadEOF
        \/ DecodeMemcheck \/ DecodeRequest \/ DecodeIncomplete \/ DecodeError
        \/ Write \/ WriteError

CNext == Run \/ ReadError \/ ClientSends \/ ClientReceives \/ ClientCloses \/ Shutdown

CSpec == CInit /\ [][CNext]_cvars

\* The goroutine runs and the clock ticks; the client takes what is sent to it.
\* Nothing makes the client send, close or lose the connection.
Fairness == WF_cvars(Run) /\ WF_cvars(ClientReceives)

FairSpec == CSpec /\ Fairness
-----------------------------------------------------------------------------
(* Properties *)

\* However the stream is cut into reads, the requests are answered in the order
\* they were sent, each exactly once and before the next is looked at, nothing
\* else is, and nothing behind a packet with an invalid length.
ResponsesFollowRequests ==
  LET responses == answered \o Responses(pending)
      framed    == {i \in DOMAIN packets : \E n \in 1 .. start : n = Offset(i) + packets[i].len}
  IN  /\ Range(responses) = {i \in framed : packets[i].kind = "request"}
      /\ \A j, k \in DOMAIN responses : j < k => responses[j] < responses[k]
      /\ \A i \in framed : \A j \in 1 .. i : packets[j].claims = packets[j].len

Arrived(i) == /\ i \in DOMAIN packets
              /\ packets[i].kind = "request"
              /\ sent >= Offset(i) + packets[i].len

\* Every request that has reached the server is answered, also when several
\* arrive in one read, unless the connection ends first.
EveryRequestAnswered ==
  \A i \in 1 .. MaxPackets :
    Arrived(i) ~> (at = "closed" \/ \E k \in DOMAIN answered : answered[k] = i)

\* A client that goes silent, even in the middle of a packet, is challenged.
SilentClientChallenged ==
  (since > Interval /\ sent = read) ~> (since = 0 \/ sent > read \/ at = "closed")

\* After the server is told to stop no connection outlives its traffic: there
\* is no other way to end a session that waits for a silent client.
ShutdownEndsSessions == stopping ~> at = "closed"
=============================================================================
