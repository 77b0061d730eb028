------------------------------ MODULE Receive ------------------------------
(***************************************************************************)
(* What the server makes of the bytes of one connection.                     *)
(*   server_events.c     se_read_client, the receive buffer,                 *)
(*   server_http.c       a request whose body takes several reads,           *)
(*   server_websocket.c  frames split over reads, several frames in a read.  *)
(*                                                                           *)
(* The connection carries the messages of a script, one after the other; a   *)
(* byte is its position in that stream, so that a buffer shows which bytes   *)
(* it holds, and a record or a message is known by its last byte.  The       *)
(* client cuts the stream into TLS records as it likes, with two exceptions: *)
(* an HTTP header is in one record, and a browser waits for the answer       *)
(* before the next request or the first frame.  SSL_read gives               *)
(* bytes of one record; what the caller had no room for stays inside OpenSSL *)
(* (pend), where epoll does not see it.  The connection's event is one-shot, *)
(* so one worker at a time works on it.                                      *)
(*                                                                           *)
(* Two things do not keep the stream as it is.  parse_http looks for the end *)
(* of the header in the body as well, and changes the body or drops a part   *)
(* of it (mangled).  When a frame is cut off behind another one in the       *)
(* buffer, server_ws_parse notes how much of it has come but leaves it where *)
(* it is (overrun): the next read is put into the frames before it, and they *)
(* are parsed again.                                                         *)
(***************************************************************************)
EXTENDS Integers, Sequences

CONSTANTS Scripts,    \* the sequences of messages a client may send
          Page,       \* CLIENT_RECV_PAGE - 1
          Records,    \* sizes of TLS records
          MaxUnread,  \* bound: records in the socket
          Garbage     \* lengths read from bytes that are no length

HttpKinds  == {"get", "post", "upgrade", "put"}
FrameKinds == {"text", "badtext", "ping", "close"}
HeaderSizes == {6, 8, 14}   \* masked frames with a 7, 16 or 64-bit length
MaxScript   == 5            \* bound: messages of a script

EndLen      == 4            \* HTTP_END, CR LF CR LF

(* Header and payload, and the position of the last byte; of a body, whether *)
(* its first byte is NUL, and where an HTTP_END begins in it, 0 if nowhere   *)
(* before the first NUL.                                                     *)
Message == [kind : HttpKinds \cup FrameKinds, hdr : Nat, len : Nat, end : Nat,
            nul : BOOLEAN, sep : Nat]

(* Behind the request for the upgrade, and only there, come frames.          *)
ASSUME ScriptsAssumption ==
  \A s \in Scripts : s \in Seq(Message) /\ Len(s) <= MaxScript /\ \A m \in 1 .. Len(s) :
    /\ s[m].end = (IF m = 1 THEN 0 ELSE s[m - 1].end) + s[m].hdr + s[m].len
    /\ s[m].kind \in HttpKinds => s[m].hdr \in 1 .. Page
    /\ s[m].sep # 0 => ~s[m].nul /\ s[m].sep + EndLen - 1 <= s[m].len
    /\ s[m].kind \in FrameKinds => s[m].hdr \in HeaderSizes
    /\ s[m].kind \in FrameKinds <=> \E u \in 1 .. m - 1 : s[u].kind = "upgrade"
ASSUME SizeAssumption ==
  /\ Page \in Nat \ {0} /\ MaxUnread \in Nat
  /\ Records \subseteq Nat \ {0} /\ Garbage \subseteq Nat

VARIABLES
  script,   \* the messages of this connection
  sent,     \* bytes the client has put into records
  net,      \* records in the socket, each as the position of its last byte
  pend,     \* bytes of a record that OpenSSL has decrypted and not given out
  read,     \* bytes SSL_read has given out
  ws,       \* CLIENT_STATE_WEBSOCKET
  data,     \* recv.data: per byte its position, 0 if never received
  offset,   \* recv.offset
  busy,     \* recv.busy
  http,     \* recv.http: a request whose body is incomplete
  pc,       \* "wait" for an event, or "parse" the frames of a read
  at, len,  \* server_ws_parse: where buf begins in data, and the bytes received
  conn,     \* "open", "hungup" by the client, "closed" by the server
  handled,  \* history: the messages handled; 0 for bytes that are no message
  mangled,  \* history: the requests of whose bodies bytes were changed or dropped
  overrun   \* history: a partial frame was found behind another one

client == <<script, sent>>
ssl    == <<net, pend, read>>
recv   == <<data, offset, busy>>
vars   == <<client, ssl, ws, recv, http, pc, at, len, conn, handled, mangled, overrun>>

NoHttp == [msg |-> 0, body |-> <<>>]

Size(m)  == script[m].hdr + script[m].len
End(m)   == script[m].end
Begin(m) == IF m = 1 THEN 0 ELSE End(m - 1)
Kind(m)  == script[m].kind

(* The message that begins with byte p, 0 if there is none.                  *)
MessageAt(p) ==
  IF \E m \in DOMAIN script : p = Begin(m) + 1
  THEN CHOOSE m \in DOMAIN script : p = Begin(m) + 1 ELSE 0

Init ==
  /\ script \in Scripts
  /\ sent = 0 /\ net = <<>> /\ pend = 0 /\ read = 0
  /\ ws = FALSE
  /\ data = <<>> /\ offset = 0 /\ busy = FALSE
  /\ http = NoHttp
  /\ pc = "wait" /\ at = 0 /\ len = 0
  /\ conn = "open" /\ handled = <<>> /\ mangled = {} /\ overrun = FALSE

-----------------------------------------------------------------------------
(* The client                                                                *)

MaySend(m, n) ==
  /\ sent < End(m) /\ sent >= Begin(m)
  /\ IF Kind(m) \in HttpKinds
     THEN /\ Len(handled) = m - 1
          /\ sent + n <= End(m)
          /\ sent = Begin(m) => n >= script[m].hdr
     ELSE ws /\ sent + n <= End(Len(script))

ClientSends ==
  /\ conn = "open" /\ Len(net) < MaxUnread
  /\ \E n \in Records :
       /\ \E m \in DOMAIN script : MaySend(m, n)
       /\ sent' = sent + n
       /\ net' = Append(net, sent + n)
  /\ UNCHANGED <<script, pend, read, ws, recv, http, pc, at, len, conn, handled, mangled, overrun>>

(* EPOLLRDHUP: the connection is closed; bytes not yet read are discarded.   *)
ClientHangsUp ==
  /\ conn = "open" /\ pc = "wait"
  /\ conn' = "hungup"
  /\ UNCHANGED <<client, ssl, ws, recv, http, pc, at, len, handled, mangled, overrun>>

-----------------------------------------------------------------------------
(* se_read_client                                                            *)

(* SSL_read with room for at least one byte returns n bytes of one record.   *)
SSL_read(room, n) ==
  LET avail == IF pend > 0 THEN pend ELSE Head(net) - read IN
  /\ n = IF room < avail THEN room ELSE avail
  /\ read' = read + n
  /\ pend' = avail - n
  /\ net' = IF pend > 0 THEN net ELSE Tail(net)

(* The level-triggered, one-shot event: the socket has something to read.    *)
Readable == conn = "open" /\ pc = "wait" /\ net # <<>>

Received(n) == [i \in 1 .. n |-> read + i]

(* A request is handled once: a body that is not the bytes of the message    *)
(* counts as no message.                                                     *)
HandledRequest(m, body) ==
  Append(handled, IF body = [i \in 1 .. script[m].len |-> Begin(m) + script[m].hdr + i]
                  THEN m ELSE 0)

Upgraded(m) == ws \/ Kind(m) = "upgrade"

(* server_handle_http: an upgrade switches to frames, GET and POST are       *)
(* answered, any other method closes the connection.                         *)
server_handle_http(m, body) ==
  /\ handled' = HandledRequest(m, body)
  /\ ws' = Upgraded(m)
  /\ conn' = IF Kind(m) = "put" THEN "closed" ELSE conn

(* Mutant: every part of a body is put where the body begins.                *)
ReadBodyAgain ==
  /\ Readable /\ http # NoHttp
  /\ LET m == http.msg
         room == script[m].len - Len(http.body)
     IN \E n \in 1 .. room :
          /\ SSL_read(room, n)
          /\ IF n >= room
             THEN /\ handled' = HandledRequest(m, Received(n) \o http.body)
                  /\ ws' = Upgraded(m)
                  /\ http' = NoHttp
             ELSE /\ http' = [http EXCEPT !.body = Received(n) \o @]
                  /\ UNCHANGED <<handled, ws>>
  /\ UNCHANGED <<client, recv, pc, at, len, conn, mangled, overrun>>

(* The rest of a body goes where the first part is; what server_handle_http  *)
(* returns is not looked at, so that an unknown method is not closed here.   *)
ReadBody ==
  /\ Readable /\ http # NoHttp
  /\ LET m == http.msg
         room == script[m].len - Len(http.body)
     IN \E n \in 1 .. room :
          /\ SSL_read(room, n)
          /\ IF n >= room
             THEN /\ handled' = HandledRequest(m, http.body \o Received(n))
                  /\ ws' = Upgraded(m)
                  /\ http' = NoHttp
             ELSE /\ http' = [http EXCEPT !.body = @ \o Received(n)]
                  /\ UNCHANGED <<handled, ws>>
  /\ UNCHANGED <<client, recv, pc, at, len, conn, mangled, overrun>>

(* parse_http splits the whole buffer at HTTP_END.  Behind the header,       *)
(* strsplit overwrites another HTTP_END with zeros, and gives nothing for a  *)
(* part that begins with NUL.                                                *)
BodyTaken(m, part) ==
  LET zeroed == IF script[m].sep # 0 /\ script[m].sep + EndLen - 1 <= Len(part)
                THEN script[m].sep .. script[m].sep + EndLen - 1 ELSE {}
  IN IF script[m].nul THEN <<>>
     ELSE [i \in 1 .. Len(part) |-> IF i \in zeroed THEN 0 ELSE part[i]]

(* Mutant: a request whose body is complete waits for more of it.            *)
ParseWaitsForMore(m, buf, n) ==
  LET part == SubSeq(buf, script[m].hdr + 1, n)
      body == BodyTaken(m, part)
  IN
  /\ mangled' = IF body = part THEN mangled ELSE mangled \cup {m}
  /\ IF script[m].len >= Len(body) /\ script[m].len > 0
     THEN /\ http' = [msg |-> m, body |-> body]
          /\ UNCHANGED <<handled, ws, conn>>
     ELSE /\ server_handle_http(m, body)
          /\ UNCHANGED http

(* If Content-Length says more than what came with the header, the request   *)
(* waits for the rest of its body.  The buffer is freed.                     *)
server_http_parse(m, buf, n) ==
  LET part == SubSeq(buf, script[m].hdr + 1, n)
      body == BodyTaken(m, part)
  IN
  /\ mangled' = IF body = part THEN mangled ELSE mangled \cup {m}
  /\ IF script[m].len > Len(body)
     THEN /\ http' = [msg |-> m, body |-> body]
          /\ UNCHANGED <<handled, ws, conn>>
     ELSE /\ server_handle_http(m, body)
          /\ UNCHANGED http

ReadRequest ==
  /\ Readable /\ http = NoHttp /\ ~ws
  /\ \E n \in 1 .. Page :
       /\ SSL_read(Page, n)
       /\ server_http_parse(MessageAt(read + 1), Received(n), n)
  /\ UNCHANGED <<client, recv, pc, at, len, overrun>>

(* A read is put behind what the buffer keeps.                               *)
ReadFrames ==
  /\ Readable /\ http = NoHttp /\ ws
  /\ LET buf == IF data = <<>> THEN [i \in 1 .. Page |-> 0] ELSE data
         room == Len(buf) - offset
     IN \E n \in 1 .. room :
          /\ SSL_read(room, n)
          /\ data' = [i \in 1 .. Len(buf) |->
                        IF i \in offset + 1 .. offset + n THEN read + i - offset ELSE buf[i]]
          /\ len' = offset + n
  /\ pc' = "parse" /\ at' = 0
  /\ UNCHANGED <<client, ws, offset, busy, http, conn, handled, mangled, overrun>>

-----------------------------------------------------------------------------
(* server_ws_parse                                                           *)

FrameAt == MessageAt(data[at + 1])
Left == len - at

(* WS_PAYLOAD_LEN64 takes one byte, the highest, for the whole length.       *)
PayloadLen(m) == IF script[m].hdr = 14 THEN 0 ELSE script[m].len

(* The bytes that must be there to know the length; the code does not ask    *)
(* whether they are.                                                         *)
LengthBytes(m) == CASE script[m].hdr = 6 -> 2 [] script[m].hdr = 8 -> 4 [] OTHER -> 3

(* total_size, as far as the bytes of the header have arrived.               *)
TotalSizes(m) ==
  IF Left >= LengthBytes(m) THEN {script[m].hdr + PayloadLen(m)}
  ELSE IF Left >= 2 THEN {script[m].hdr + g : g \in Garbage}
  ELSE {h + g : h \in {2, 6}, g \in Garbage}

IsWhole(m) == \A i \in 1 .. Size(m) : at + i <= len /\ data[at + i] = Begin(m) + i

Realloc(size) == [i \in 1 .. size |-> IF i <= Len(data) THEN data[i] ELSE 0]

(* Mutant: the bytes that have come are not counted.                         *)
PartialForgetsOffset(total) ==
  /\ total > Left
  /\ data' = Realloc(total) /\ offset' = 0 /\ busy' = TRUE
  /\ overrun' = (overrun \/ at > 0)
  /\ pc' = "wait"
  /\ UNCHANGED <<client, ssl, ws, http, at, len, conn, handled, mangled>>

(* The frame is incomplete: the buffer gets its size and waits for the rest, *)
(* which is put at recv.offset although the frame begins behind at.          *)
PartialFrame(total) ==
  /\ total > Left
  /\ data' = Realloc(total) /\ offset' = Left /\ busy' = TRUE
  /\ overrun' = (overrun \/ at > 0)
  /\ pc' = "wait"
  /\ UNCHANGED <<client, ssl, ws, http, at, len, conn, handled, mangled>>

(* RECV_DISCONNECT: a close frame, or text that is not JSON; a text without  *)
(* a payload is none.                                                        *)
Disconnects(m) ==
  \/ Kind(m) \in {"close", "badtext"}
  \/ Kind(m) = "text" /\ PayloadLen(m) = 0

(* A frame of which all bytes are there is handled; another one may follow   *)
(* in the buffer (next_buf).                                                 *)
FrameHandled(total, m, ends) ==
  /\ total <= Left
  /\ handled' = Append(handled, m)
  /\ conn' = IF ends THEN "closed" ELSE conn
  /\ IF total < Left /\ ~ends
     THEN /\ at' = at + total
          /\ UNCHANGED <<pc, recv>>
     ELSE /\ pc' = "wait"
          /\ data' = <<>> /\ offset' = 0 /\ busy' = FALSE
          /\ UNCHANGED at
  /\ UNCHANGED <<client, ssl, ws, http, len, mangled, overrun>>

WholeFrame(m, total) == FrameHandled(total, IF IsWhole(m) THEN m ELSE 0, Disconnects(m))

(* Among bytes that were parsed before or belong to the middle of a frame,   *)
(* the parser finds a header of this connection or a length that is none;    *)
(* what it takes for a payload may be refused or not.                        *)
LostSizes ==
  {script[m].hdr + PayloadLen(m) : m \in DOMAIN script} \cup {h + g : h \in {2, 6}, g \in Garbage}

LostFrame(total) == \E ends \in BOOLEAN : FrameHandled(total, 0, ends)

server_ws_parse ==
  /\ conn = "open" /\ pc = "parse"
  /\ \/ /\ ~overrun /\ FrameAt # 0
        /\ \E total \in TotalSizes(FrameAt) : PartialFrame(total) \/ WholeFrame(FrameAt, total)
     \/ /\ overrun
        /\ \E total \in LostSizes : PartialFrame(total) \/ LostFrame(total)

Worker == ReadBody \/ ReadRequest \/ ReadFrames \/ server_ws_parse

Next == ClientSends \/ ClientHangsUp \/ Worker

Spec == Init /\ [][Next]_vars

-----------------------------------------------------------------------------
(* Properties                                                                *)

(* However the stream is cut into records and reads, the messages that are   *)
(* handled (requests with their bodies, frames with their payloads) are      *)
(* those that were sent, whole, in order and once (se_read_client,           *)
(* parse_http, server_ws_parse), with two exceptions: a request whose body   *)
(* parse_http has changed, and whatever is handled after an overrun.         *)
HandledInOrder ==
  \A i \in DOMAIN handled : handled[i] = i \/ (handled[i] = 0 /\ (i \in mangled \/ overrun))

(* While the connection is open and there was no overrun: what the parser    *)
(* looks at begins with a frame that is not handled yet and holds, without a *)
(* gap, everything received since; between two events the buffer keeps       *)
(* exactly what has come of an unfinished frame (recv.offset, recv.busy).    *)
BufferHoldsUnhandled ==
  (conn = "open" /\ ~overrun) =>
    /\ pc = "parse" =>
         /\ FrameAt = Len(handled) + 1
         /\ \A i \in at + 1 .. len : data[i] = read - len + i
    /\ (pc = "wait" /\ ws) =>
         /\ offset = read - Begin(Len(handled) + 1)
         /\ \A i \in 1 .. offset : data[i] = Begin(Len(handled) + 1) + i
         /\ busy <=> offset > 0

IsHandled(m) == \E i \in DOMAIN handled : handled[i] = m

(* When the worker has left an open connection to epoll and the socket is    *)
(* empty, so that nothing happens until the client sends more, every message *)
(* that was sent whole has been handled.  Excepted are: bytes left inside    *)
(* OpenSSL, because se_read_client reads once per event; a request whose     *)
(* body parse_http has changed or cut; and everything after an overrun, when *)
(* messages are lost on a connection that stays open.                        *)
SentIsHandledOrPending ==
  (pc = "wait" /\ net = <<>> /\ conn = "open") =>
    \/ pend > 0
    \/ overrun
    \/ \A m \in DOMAIN script : sent >= End(m) => IsHandled(m) \/ m \in mangled
=============================================================================
