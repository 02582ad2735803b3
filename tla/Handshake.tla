----------------------------- MODULE Handshake -----------------------------
(***************************************************************************)
(* How proxy/ obtains a connection for a session: the TCP connect, the     *)
(* handshake of each protocol with the proxy server, what a failed dial     *)
(* gives back, and the first data over the connection or the datagrams of   *)
(* the UDP association.  Init chooses the protocol.                        *)
(*                                                                         *)
(* A message is one element of a stream: the handshakes read with           *)
(* io.ReadFull, so that segments do not matter, except in proxy/http,       *)
(* which reads through a buffer.  A control message is <<name, 0>>, data    *)
(* <<"data", i>>.  The server is external and answers as it likes.          *)
(***************************************************************************)
EXTENDS Integers, Sequences, SocksAddr

CONSTANTS
  Protocols,   \* the protocols tried
  Users,       \* subset of {"none", "valid", "empty"}: the credentials
  MaxData,     \* bound on the data each side sends, and on the datagrams
  Dests,       \* destinations: records of an IP and a port, as bytes
  Payloads,    \* payloads of datagrams
  Cuts,        \* lengths datagrams are cut to
  BufferSize   \* of the buffer of copyPacketData

SOCKS5 == {"socks5", "socks5udp"}
Lazy   == {"relay"}                      \* the header waits for the first Write
UDP    == {"socks5udp", "ssudp"}         \* datagrams over a socket

Byte      == 0..255
MaxHeader == 3 + 1 + 16 + 2   \* of a UDP packet to an IP address

ASSUME HandshakeAssumption ==
  /\ Protocols \subseteq SOCKS5 \cup Lazy \cup UDP
                         \cup {"socks4", "http", "ssh", "relayNoDelay", "ss", "direct"}
  /\ Users \subseteq {"none", "valid", "empty"}
  /\ MaxData \in Nat /\ BufferSize \in Nat /\ Cuts \subseteq Nat \ {0}
  /\ \A d \in Dests : /\ DOMAIN d = {"ip", "port"}
                       /\ d.ip \in Seq(Byte) /\ Len(d.ip) \in {4, 16}
                       /\ d.port \in Seq(Byte) /\ Len(d.port) = 2
  \* The buffer holds the largest datagram there is (MaxSegmentSize).
  /\ \A p \in Payloads : p \in Seq(Byte) /\ MaxHeader + Len(p) <= BufferSize

VARIABLES
  proto, user, dest,
  at,         \* where the dial stands; "done" and "failed" end it
  conn,       \* TCP connection to the server: "none", "open", "closed"
  sock,       \* UDP socket, the same
  watch,      \* goroutine of an association: "none", "copying", "closing", "done"
  up, down,   \* the two directions of the connection
  srv,        \* the server: open, granted, answers given (bind address), data sent
  got,        \* what the server has read
  app,        \* the session: data written, messages read, relay's once, read error
  udp         \* datagram in flight, what it was sent with, buffer, last result

dial == <<proto, user, dest>>
vars == <<dial, at, conn, sock, watch, up, down, srv, got, app, udp>>

Control(s) == <<s, 0>>
IsData(m)  == m[1] = "data"
Data(n)    == [i \in 1..n |-> <<"data", i>>]

-----------------------------------------------------------------------------
(***************************************************************************)
(* The handshakes as positions: which message a position sends or awaits,  *)
(* and where it leads.                                                     *)
(***************************************************************************)
\* Without noDelay the dial of relay is the connect alone, as the direct one is.
RelayFirst(p) == IF p = "relayNoDelay" THEN "header" ELSE "done"
First(p) ==
  CASE p \in SOCKS5 \cup {"ssh"} -> "hello"
    [] p \in {"socks4", "http"}  -> "request"
    [] p = "ss"                  -> "header"
    [] OTHER                     -> RelayFirst(p)

Sends == {"hello", "auth", "request", "header"}
Reads == {"method", "status", "reply", "addr", "response"}

\* Mutant: the connection waits for an answer Shadowsocks does not give.
AfterHeaderAnswered == "response"
\* Shadowsocks writes the address and returns; relay reads a response.
AfterHeader == IF proto = "ss" THEN "done" ELSE "response"
AfterSend(s) ==
  CASE s = "hello"   -> "method"
    [] s = "auth"    -> "status"
    [] s = "request" -> "reply"
    [] s = "header"  -> AfterHeader

\* Mutant: the reply is read and not looked at.
AfterSOCKS5Unchecked(s, m) ==
  CASE s = "method" -> "request"
    [] s = "reply"  -> IF m = "granted" THEN "addr" ELSE "done"
    [] OTHER        -> IF proto = "socks5udp" THEN "listen" ELSE "done"
AfterSOCKS5(s, m) ==
  CASE s = "method" /\ m = "noauth" -> "request"
    [] s = "method" /\ m = "userpass" /\ user = "valid" -> "auth"
    [] s = "status" /\ m = "accepted" -> "request"
    [] s = "reply" /\ m = "granted" -> "addr"
    [] s = "addr" /\ m # "badtype" -> IF proto = "socks5udp" THEN "listen" ELSE "done"
    [] OTHER -> "failed"
AfterSSH(s, m) ==
  CASE s = "method" /\ m = "noauth" -> "request"
    [] s = "reply" /\ m = "granted" -> "done"
    [] OTHER -> "failed"
AfterSOCKS4(m) == IF m = "granted" THEN "done" ELSE "failed"
AfterHTTP(m)   == IF m = "granted" THEN "done" ELSE "failed"
RelayGrants(m) == m = "granted"
AfterReply(s, m) ==
  CASE proto \in SOCKS5  -> AfterSOCKS5(s, m)
    [] proto = "ssh"     -> AfterSSH(s, m)
    [] proto = "socks4"  -> AfterSOCKS4(m)
    [] proto = "http"    -> AfterHTTP(m)
    [] OTHER             -> IF RelayGrants(m) THEN "done" ELSE "failed"

Init ==
  /\ proto \in Protocols /\ dest \in Dests
  /\ user \in (IF proto \in SOCKS5 THEN Users ELSE {"none"})
  /\ at = IF proto = "ssudp" THEN "listen" ELSE "connect"
  /\ conn = "none" /\ sock = "none" /\ watch = "none"
  /\ up = <<>> /\ down = <<>> /\ got = <<>>
  /\ srv = [open |-> TRUE, granted |-> proto = "direct", bind |-> "none", sent |-> 0]
  /\ app = [written |-> 0, read |-> <<>>, header |-> proto \in Lazy,
            once |-> proto \notin Lazy, error |-> FALSE]
  /\ udp = [packet |-> <<>>, payload |-> <<>>, left |-> MaxData,
            buf |-> [i \in 1..BufferSize |-> 0], n |-> 0, ok |-> FALSE, short |-> FALSE]

peer == <<up, down, srv, got, app, udp>>

-----------------------------------------------------------------------------
\* Mutant: an error return closes nothing.
FailKeepsConn ==
  /\ at' = "failed"
  /\ UNCHANGED <<conn, sock>>
\* An error return: SafeConnClose and the deferred close of DialUDP, and
\* pc.Close where the socket is already open.
Fail ==
  /\ at' = "failed"
  /\ conn' = IF conn = "open" THEN "closed" ELSE conn
  /\ sock' = IF sock = "open" THEN "closed" ELSE sock

\* dialer.DialContext, within its timeout.
Connect ==
  /\ at = "connect"
  /\ \/ at' = First(proto) /\ conn' = "open" /\ UNCHANGED sock
     \/ Fail
  /\ UNCHANGED <<dial, watch, peer>>

\* ClientHandshake of SOCKS4 refuses an IPv6 address, the one of SOCKS5 an
\* invalid address, before they write.
Sendable ==
  /\ proto = "socks4" => Len(dest.ip) = 4
  /\ proto \in SOCKS5 => Valid(SerializeAddr(<<>>, dest.ip, dest.port))

Send ==
  /\ at \in Sends
  /\ \/ /\ Sendable
        /\ at' = AfterSend(at)
        /\ up' = IF srv.open THEN Append(up, Control(at)) ELSE up
        /\ UNCHANGED <<conn, sock>>
     \/ (~Sendable \/ ~srv.open) /\ Fail /\ UNCHANGED up
  /\ UNCHANGED <<dial, watch, down, srv, got, app, udp>>

\* The buffered reader of proxy/http may take what follows the response.
Taken == IF proto = "http" THEN 1..Len(down) ELSE {1}

Receive ==
  /\ at \in Reads
  /\ \/ /\ down # <<>>
        /\ LET next == AfterReply(at, Head(down)[1]) IN
             IF next = "failed" THEN Fail ELSE at' = next /\ UNCHANGED <<conn, sock>>
        /\ \E k \in Taken : down' = SubSeq(down, k + 1, Len(down))
     \/ down = <<>> /\ ~srv.open /\ Fail /\ UNCHANGED down
  /\ UNCHANGED <<dial, watch, up, srv, got, app, udp>>

\* dialer.ListenPacket, then the goroutine of an association starts.
Listen ==
  /\ at = "listen"
  /\ \/ /\ sock' = "open" /\ at' = "bind" /\ UNCHANGED conn
        /\ watch' = IF proto = "socks5udp" THEN "copying" ELSE "none"
     \/ Fail /\ UNCHANGED watch
  /\ UNCHANGED <<dial, peer>>

\* Where the datagrams go to: the address the server named, or that of the
\* server, which is resolved.
Bind ==
  /\ at = "bind" /\ proto = "socks5udp"
  /\ \/ srv.bind # "name" /\ at' = "done" /\ UNCHANGED <<conn, sock>>
     \/ srv.bind \in {"any", "name"} /\ Fail
  /\ UNCHANGED <<dial, watch, peer>>

\* DialUDP of Shadowsocks leaves its socket open when the server's name does not
\* resolve.
BindShadowsocks ==
  /\ at = "bind" /\ proto = "ssudp"
  /\ at' \in {"done", "failed"}
  /\ UNCHANGED <<dial, conn, sock, watch, peer>>

Dial == Connect \/ Send \/ Receive \/ Listen \/ Bind \/ BindShadowsocks

-----------------------------------------------------------------------------
(***************************************************************************)
(* The session that uses the connection.                                   *)
(***************************************************************************)
\* Mutant: tcpWrite does not reset the buffer of the header.
HeaderKept == TRUE
\* What is left in wbuf once it was written.
HeaderLeft == FALSE

AppWrite ==
  /\ at = "done" /\ conn = "open" /\ srv.open /\ proto \notin UDP
  /\ app.written < MaxData
  /\ up' = up \o (IF app.header THEN <<Control("header")>> ELSE <<>>)
              \o <<<<"data", app.written + 1>>>>
  /\ app' = [app EXCEPT !.written = @ + 1, !.header = @ /\ HeaderLeft]
  /\ UNCHANGED <<dial, at, conn, sock, watch, down, srv, got, udp>>

\* relayConn.Read looks at the response once, and not again if it is bad; the
\* error ends the copy loop that reads.
AppRead ==
  /\ at = "done" /\ conn = "open" /\ proto \notin UDP
  /\ down # <<>> /\ ~app.error
  /\ IF app.once
     THEN app' = [app EXCEPT !.read = Append(@, Head(down))]
     ELSE app' = [app EXCEPT !.once = TRUE, !.error = ~RelayGrants(Head(down)[1])]
  /\ down' = Tail(down)
  /\ UNCHANGED <<dial, at, conn, sock, watch, up, srv, got, udp>>

\* The session is closed; socksPacketConn closes both its connections.
AppClose ==
  /\ at = "done" /\ (conn = "open" \/ sock = "open")
  /\ conn' = IF conn = "open" THEN "closed" ELSE conn
  /\ sock' = IF sock = "open" THEN "closed" ELSE sock
  /\ UNCHANGED <<dial, at, watch, peer>>

\* The goroutine of DialUDP: the control connection ends, at either end.
WatchEnds ==
  /\ watch = "copying" /\ (conn = "closed" \/ ~srv.open)
  /\ watch' = "closing" /\ conn' = "closed"
  /\ UNCHANGED <<dial, at, sock, peer>>
\* Mutant: the goroutine closes the control connection only.
AfterWatchKept == sock
AfterWatch == "closed"
WatchCloses ==
  /\ watch = "closing"
  /\ watch' = "done" /\ sock' = AfterWatch
  /\ UNCHANGED <<dial, at, conn, peer>>

-----------------------------------------------------------------------------
(***************************************************************************)
(* Datagrams.  Shadowsocks uses the header without its first three bytes.  *)
(***************************************************************************)
Skip == IF proto = "ssudp" THEN 3 ELSE 0
Packet(addr, payload) ==
  LET p == EncodeUDPPacket(addr, payload) IN SubSeq(p, Skip + 1, Len(p))
DestAddr == SerializeAddr(<<>>, dest.ip, dest.port)
HeadLen  == 3 - Skip + Len(DestAddr)

WriteTo ==
  /\ at = "done" /\ sock = "open" /\ udp.packet = <<>> /\ udp.left > 0
  /\ \E p \in Payloads :
       udp' = [udp EXCEPT !.packet = Packet(DestAddr, p), !.payload = p, !.left = @ - 1,
                          !.ok = FALSE]
  /\ UNCHANGED <<dial, at, conn, sock, watch, up, down, srv, got, app>>

\* The server returns the datagram, whole, cut or as a fragment.
Alter ==
  /\ udp.packet # <<>>
  /\ \/ \E n \in Cuts : n < Len(udp.packet) /\ udp' = [udp EXCEPT !.packet = SubSeq(@, 1, n)]
     \/ proto = "socks5udp" /\ Len(udp.packet) > 2 /\ udp' = [udp EXCEPT !.packet[3] = 1]
  /\ UNCHANGED <<dial, at, conn, sock, watch, up, down, srv, got, app>>

\* Mutant: the payload stays behind the header.
MovedNot(b, n) == b
\* copy(b, payload).
Moved(b, n) == [i \in 1..Len(b) |-> IF i + n <= Len(b) THEN b[i + n] ELSE b[i]]

\* Mutant: Shadowsocks looks at the whole buffer too.
AddressedWhole(b, n) == IF proto = "ssudp" THEN SplitAddr(b) ELSE DecodeUDPPacket(b)
\* socksPacketConn decodes the whole buffer, ssPacketConn the bytes read.
Addressed(b, n) ==
  IF proto = "ssudp" THEN SplitAddr(SubSeq(b, 1, n)) ELSE DecodeUDPPacket(b)

ReadFrom ==
  /\ at = "done" /\ sock = "open" /\ udp.packet # <<>>
  /\ LET n == Len(udp.packet)
         b == udp.packet \o SubSeq(udp.buf, n + 1, BufferSize)
         a == Addressed(b, n)
         h == 3 - Skip + Len(a)
     IN udp' = [udp EXCEPT !.packet = <<>>, !.short = n < HeadLen,
                           !.ok = IsUDPAddr(a), !.n = n - h,
                           !.buf = IF IsUDPAddr(a) THEN Moved(b, h) ELSE b]
  /\ UNCHANGED <<dial, at, conn, sock, watch, up, down, srv, got, app>>

Session == AppWrite \/ AppRead \/ AppClose \/ WriteTo \/ Alter \/ ReadFrom

-----------------------------------------------------------------------------
(***************************************************************************)
(* The server.  A SOCKS5 reply that grants is followed by an address.      *)
(***************************************************************************)
Answers(m) ==
  CASE m = "hello"   -> {"noauth", "userpass", "nomethod"}
    [] m = "auth"    -> {"accepted", "rejected"}
    [] m = "request" -> {"granted", "refused"}
    [] m = "header"  -> IF proto = "ss" THEN {"silent"} ELSE {"granted", "refused"}
Binds(r) ==
  IF proto \in SOCKS5 /\ r = "granted" THEN {"ip", "any", "name", "badtype"} ELSE {"none"}

SrvRead ==
  /\ srv.open /\ up # <<>>
  /\ got' = Append(got, Head(up)) /\ up' = Tail(up)
  /\ IF IsData(Head(up)) THEN UNCHANGED <<srv, down>>
     ELSE \E r \in Answers(Head(up)[1]) : \E b \in Binds(r) :
            /\ srv' = [srv EXCEPT !.granted = @ \/ r \in {"granted", "silent"}, !.bind = b]
            /\ down' = down \o (IF r = "silent" THEN <<>> ELSE <<Control(r)>>)
                            \o (IF b = "none" THEN <<>> ELSE <<Control(b)>>)
  /\ UNCHANGED <<dial, at, conn, sock, watch, app, udp>>

SrvSend ==
  /\ srv.open /\ srv.granted /\ conn = "open" /\ proto \notin UDP /\ srv.sent < MaxData
  /\ down' = Append(down, <<"data", srv.sent + 1>>)
  /\ srv' = [srv EXCEPT !.sent = @ + 1]
  /\ UNCHANGED <<dial, at, conn, sock, watch, up, got, app, udp>>

SrvClose ==
  /\ srv.open /\ srv' = [srv EXCEPT !.open = FALSE]
  /\ UNCHANGED <<dial, at, conn, sock, watch, up, down, got, app, udp>>

Next == Dial \/ Session \/ WatchEnds \/ WatchCloses \/ SrvRead \/ SrvSend \/ SrvClose

\* Goroutines run, and a server that is not gone answers.
Spec == Init /\ [][Next]_vars
             /\ WF_vars(Dial) /\ WF_vars(WatchEnds) /\ WF_vars(WatchCloses) /\ WF_vars(SrvRead)

-----------------------------------------------------------------------------
\* Type invariant.  The length ReadFrom returns is not negative, but for a
\* datagram socksPacketConn.ReadFrom took to be longer than it is.
TypeOK ==
  /\ at \in Sends \cup Reads \cup {"connect", "listen", "bind", "done", "failed"}
  /\ conn \in {"none", "open", "closed"} /\ sock \in {"none", "open", "closed"}
  /\ watch \in {"none", "copying", "closing", "done"}
  /\ srv \in [open : BOOLEAN, granted : BOOLEAN, sent : 0..MaxData,
              bind : {"none", "ip", "any", "name", "badtype"}]
  /\ app.written \in 0..MaxData /\ Len(udp.buf) = BufferSize
  /\ udp.ok => udp.n >= 0 \/ (proto = "socks5udp" /\ udp.short)

\* A dial that fails leaves no connection and no socket behind, whatever step
\* of it failed (SafeConnClose and the deferred close of DialUDP); but for
\* DialUDP of Shadowsocks.
NoLeak ==
  at = "failed" => conn # "open" /\ (sock = "open" => proto = "ssudp")

\* A session reads data, and a dial that waits for an answer succeeds, only if
\* the server has granted the request (ClientHandshake, shakeHand,
\* readRelayResponse), in whatever order its answers arrive.
GrantedFirst ==
  /\ app.read # <<>> => srv.granted
  /\ at = "done" /\ proto \notin Lazy \cup {"ss", "ssudp"} => srv.granted

\* The server finds every message of the handshake once and before the data of
\* the session, and the data in order: also when the header of relay travels
\* with the first Write (tcpWrite).
WireOrder ==
  LET wire == got \o up
      body == Data(app.written)
  IN srv.open =>
       /\ Len(wire) >= app.written
       /\ SubSeq(wire, Len(wire) - app.written + 1, Len(wire)) = body
       /\ \A i, j \in 1..Len(wire) : wire[i] = wire[j] => i = j
       /\ app.written > 0 /\ proto # "direct" =>
            wire[Len(wire) - app.written] \in {Control("request"), Control("header")}

\* The session reads what the server sent after the handshake from its first
\* byte (ReadAddr, readRelayResponse); proxy/http, whose buffer may hold some
\* of it, loses a beginning and nothing else.
NothingSwallowed ==
  at = "done" /\ app.once =>
    LET seen == app.read \o down IN
      /\ Len(seen) <= srv.sent
      /\ seen = SubSeq(Data(srv.sent), srv.sent - Len(seen) + 1, srv.sent)
      /\ proto # "http" => Len(seen) = srv.sent

\* Behind the handshake the connection is the stream of the session, in both
\* directions (tcpWrite, ReadAddr, readRelayResponse, shakeHand).
StreamsIntact == WireOrder /\ NothingSwallowed

\* A datagram that holds its header is delivered with its own payload and
\* nothing of an earlier one (DecodeUDPPacket, ReadFrom).
DatagramIntact ==
  udp.ok /\ ~udp.short =>
    udp.n <= Len(udp.payload) /\ SubSeq(udp.buf, 1, udp.n) = SubSeq(udp.payload, 1, udp.n)

\* The dial of a session ends, as long as the server answers or closes.
DialReturns == <>(at \in {"done", "failed"})

\* The control connection of an association and its socket end together,
\* whichever side ends one of them (the goroutine of DialUDP and Close).
AssociationEnds ==
  (watch # "none" /\ (conn = "closed" \/ sock = "closed" \/ ~srv.open))
    ~> (conn = "closed" /\ sock = "closed")
=============================================================================
