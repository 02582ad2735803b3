-------------------------- MODULE HandshakeProofs --------------------------
(***************************************************************************)
(* Theorems about Handshake, for any amount of data, any payloads and any   *)
(* way a datagram is cut.                                                  *)
(***************************************************************************)
EXTENDS Handshake, SequenceTheorems, TLAPS

Asks    == Sends \X {0}
Answer  == {"noauth", "userpass", "nomethod", "accepted", "rejected", "granted", "refused"}
BindTo  == {"ip", "any", "name", "badtype"}
DataMsg == {"data"} \X Nat
Upward   == Asks \cup DataMsg
Downward == ((Answer \cup BindTo) \X {0}) \cup DataMsg

SrvType == [open : BOOLEAN, granted : BOOLEAN, sent : 0..MaxData, bind : BindTo \cup {"none"}]
AppType == [written : 0..MaxData, read : Seq(Downward),
            header : BOOLEAN, once : BOOLEAN, error : BOOLEAN]
UDPType == [packet : Seq(Byte), payload : Seq(Byte), left : Nat, buf : Seq(Byte),
            n : Int, ok : BOOLEAN, short : BOOLEAN]

DialTypes ==
  /\ proto \in Protocols /\ dest \in Dests
  /\ at \in Sends \cup Reads \cup {"connect", "listen", "bind", "done", "failed"}
  /\ conn \in {"none", "open", "closed"} /\ sock \in {"none", "open", "closed"}
  /\ watch \in {"none", "copying", "closing", "done"}
WireTypes == up \in Seq(Upward) /\ got \in Seq(Upward) /\ down \in Seq(Downward)
UDPTypes  == udp \in UDPType /\ Len(udp.buf) = BufferSize
Types == DialTypes /\ WireTypes /\ srv \in SrvType /\ app \in AppType /\ UDPTypes

\* The positions a protocol reaches, and the connections it has there.
Reach ==
  /\ at = "connect" => proto # "ssudp" /\ conn = "none"
  /\ at \in {"hello", "method"} => proto \in SOCKS5 \cup {"ssh"}
  /\ at \in {"auth", "status", "addr"} => proto \in SOCKS5
  /\ at \in {"request", "reply"} => proto \in SOCKS5 \cup {"ssh", "socks4", "http"}
  /\ at = "header" => proto \in {"ss", "relayNoDelay"}
  /\ at = "response" => proto = "relayNoDelay"
  /\ at \in {"listen", "bind"} => proto \in UDP
  /\ proto = "ssudp" => conn = "none" /\ at \in {"listen", "bind", "done", "failed"}
  /\ at \notin {"bind", "done", "failed"} => sock = "none"
  /\ sock # "none" => proto \in UDP
  /\ watch # "none" => proto = "socks5udp" /\ at \in {"bind", "done", "failed"}
  /\ NoLeak

\* Before the dial is done the session has done nothing; an association has no
\* stream.
Fresh ==
  /\ proto \in UDP => app.written = 0
  /\ at # "done" =>
       /\ app.written = 0 /\ app.read = <<>> /\ ~app.error
       /\ app.header = (proto \in Lazy) /\ app.once = (proto \notin Lazy)

\* What is on its way while the dial waits: the question, or its answer, or
\* nothing since the server is gone.
Asking(m) ==
  /\ ~srv.granted /\ down = <<>>
  /\ up = <<Control(m)>> \/ (up = <<>> /\ ~srv.open)
Answered == up = <<>> /\ ~srv.granted /\ \E r \in Answer : down = <<Control(r)>>
Granted(head) == up = <<>> /\ srv.granted /\ down = head \o Data(srv.sent)
BindAddr == IF proto \in SOCKS5 THEN <<Control(srv.bind)>> ELSE <<>>
Refused == up = <<>> /\ ~srv.granted /\ down = <<Control("refused")>>

Talk ==
  /\ ~srv.granted \/ proto \in UDP => srv.sent = 0
  /\ at \in Sends \cup {"connect"} =>
       up = <<>> /\ down = <<>> /\ (srv.granted <=> proto = "direct") /\ srv.sent = 0
  /\ at = "method" => Asking("hello") \/ Answered
  /\ at = "status" => Asking("auth") \/ Answered
  /\ at = "reply" =>
       \/ Asking("request") \/ Refused
       \/ /\ Granted(<<Control("granted")>> \o BindAddr)
          /\ proto \in SOCKS5 => srv.bind \in BindTo
  /\ at = "response" => Asking("header") \/ Refused \/ Granted(<<Control("granted")>>)
  /\ at = "addr" => Granted(<<Control(srv.bind)>>) /\ srv.bind \in BindTo
  /\ at \in {"listen", "bind"} =>
       up = <<>> /\ down = <<>> /\ (proto = "socks5udp" => srv.granted)

\* The data of a side but for the first k.
Rest(k, n) == SubSeq(Data(n), k + 1, n)

\* What is on its way when the session has the connection.
Opened ==
  /\ proto \notin Lazy \cup {"ss", "ssudp"} => srv.granted
  /\ proto \notin Lazy => app.once /\ ~app.header
  /\ app.once /\ proto \in Lazy /\ ~app.error => srv.granted
\* The header, before it is written and until the server has read it.
HeaderAhead ==
  /\ \A i \in 1..Len(up) : ~IsData(up[i]) =>
       /\ up[i] = Control("header") /\ proto \in Lazy \cup {"ss"}
       /\ proto \in Lazy => i = 1 /\ ~app.once /\ down = <<>> /\ ~srv.granted
  /\ app.header => ~app.once /\ up = <<>> /\ down = <<>> /\ ~srv.granted
\* The response of relay, until the session has read it.
ResponseAhead ==
  ~app.once =>
    /\ app.read = <<>>
    /\ \/ down = <<>> /\ ~srv.granted
       \/ down = <<Control("refused")>> /\ ~srv.granted
       \/ srv.granted /\ down = <<Control("granted")>> \o Data(srv.sent)
\* What the session reads of what the server sends, but for a beginning proxy/http
\* may lose.
ReadInOrder ==
  app.once =>
    \E k \in 0..srv.sent :
      app.read \o down = Rest(k, srv.sent) /\ (proto # "http" => k = 0)
Stream == at = "done" => Opened /\ HeaderAhead /\ ResponseAhead /\ ReadInOrder

\* The messages the dial may still send.
ToSay ==
  IF at \in {"connect", "hello"} THEN Sends
  ELSE IF at \in {"method", "auth"} THEN {"auth", "request"}
  ELSE IF at \in {"status", "request"} THEN {"request"}
  ELSE IF at = "header" THEN {"header"} ELSE {}

\* Where the request, or the header, has been said.
Said == {"reply", "response", "addr", "listen", "bind", "done"}

\* What the server finds: the messages of the handshake h, each once, then the
\* data.
WireIs(h) ==
  /\ got \o up = h \o Data(app.written)
  /\ \A i, j \in 1..Len(h) : h[i] = h[j] => i = j
  /\ \A i \in 1..Len(h) : h[i][1] \notin ToSay
  /\ app.header => h = <<>> /\ app.written = 0
  /\ at \in Said /\ proto \notin {"direct", "ssudp"} /\ ~app.header =>
       h # <<>> /\ h[Len(h)] \in {Control("request"), Control("header")}

\* A datagram on its way is what was sent, cut or marked as a fragment.
Prefixes(p, q) ==
  /\ Len(p) <= Len(q)
  /\ \A i \in 1..Len(p) : p[i] = q[i] \/ (proto = "socks5udp" /\ i = 3 /\ p[i] = 1)
Datagram ==
  /\ udp.packet # <<>> =>
       /\ ~udp.ok /\ udp.payload \in Payloads /\ proto \in UDP
       /\ Prefixes(udp.packet, Packet(DestAddr, udp.payload))
  /\ udp.ok => udp.n >= 0 \/ (proto = "socks5udp" /\ udp.short)
  /\ DatagramIntact

Wire == srv.open => \E h \in Seq(Asks) : WireIs(h)

IInv == Types /\ Reach /\ Fresh /\ Talk /\ Stream /\ Wire /\ Datagram

-----------------------------------------------------------------------------
(***************************************************************************)
(* The tables of the handshakes.                                           *)
(***************************************************************************)
LEMMA AnswersOf ==
  /\ Answers("hello") = {"noauth", "userpass", "nomethod"}
  /\ Answers("auth") = {"accepted", "rejected"}
  /\ Answers("request") = {"granted", "refused"}
  /\ Answers("header") = IF proto = "ss" THEN {"silent"} ELSE {"granted", "refused"}
  BY DEF Answers

LEMMA FirstOf ==
  /\ proto \in SOCKS5 \cup {"ssh"} => First(proto) = "hello"
  /\ proto \in {"socks4", "http"} => First(proto) = "request"
  /\ proto \in {"ss", "relayNoDelay"} => First(proto) = "header"
  /\ proto \in Lazy \cup {"direct"} => First(proto) = "done"
  BY DEF First, RelayFirst, SOCKS5, Lazy

LEMMA AfterSendOf ==
  /\ AfterSend("hello") = "method"
  /\ AfterSend("auth") = "status"
  /\ AfterSend("request") = "reply"
  /\ AfterSend("header") = IF proto = "ss" THEN "done" ELSE "response"
  BY DEF AfterSend, AfterHeader

\* Where an answer m leads, by the position it is read at.
LEMMA AfterMethod ==
  ASSUME NEW m, proto \in SOCKS5 \cup {"ssh"}
  PROVE  /\ AfterReply("method", m) \in {"request", "auth", "failed"}
         /\ AfterReply("method", m) = "auth" => proto \in SOCKS5
  BY DEF AfterReply, AfterSOCKS5, AfterSSH, SOCKS5

LEMMA AfterStatus ==
  ASSUME NEW m, proto \in SOCKS5
  PROVE  AfterReply("status", m) \in {"request", "failed"}
  <1>1. AfterReply("status", m) = AfterSOCKS5("status", m)
    BY DEF AfterReply, SOCKS5
  <1>2. AfterSOCKS5("status", m) = IF m = "accepted" THEN "request" ELSE "failed"
    BY DEF AfterSOCKS5
  <1> QED
    BY <1>1, <1>2

LEMMA AfterRequest ==
  ASSUME NEW m
  PROVE  /\ proto \in SOCKS5 =>
              /\ AfterReply("reply", m) \in {"addr", "failed"}
              /\ AfterReply("reply", m) = "addr" => m = "granted"
         /\ proto \in {"ssh", "socks4", "http"} =>
              /\ AfterReply("reply", m) \in {"done", "failed"}
              /\ AfterReply("reply", m) = "done" => m = "granted"
         /\ proto = "relayNoDelay" =>
              /\ AfterReply("response", m) \in {"done", "failed"}
              /\ AfterReply("response", m) = "done" => m = "granted"
  BY DEF AfterReply, AfterSOCKS5, AfterSSH, AfterSOCKS4, AfterHTTP, RelayGrants, SOCKS5

LEMMA AfterAddr ==
  ASSUME NEW m, proto \in SOCKS5
  PROVE  AfterReply("addr", m) \in {IF proto = "socks5udp" THEN "listen" ELSE "done", "failed"}
  <1>1. AfterReply("addr", m) = AfterSOCKS5("addr", m)
    BY DEF AfterReply, SOCKS5
  <1>2. AfterSOCKS5("addr", m) =
          IF m # "badtype" THEN IF proto = "socks5udp" THEN "listen" ELSE "done" ELSE "failed"
    BY DEF AfterSOCKS5
  <1> QED
    BY <1>1, <1>2

\* Concatenation, element by element.
LEMMA Cat ==
  ASSUME NEW S, NEW s \in Seq(S), NEW t \in Seq(S)
  PROVE  /\ s \o t \in Seq(S) /\ Len(s \o t) = Len(s) + Len(t)
         /\ \A i \in 1..Len(s) : (s \o t)[i] = s[i]
         /\ \A i \in 1..Len(t) : (s \o t)[Len(s) + i] = t[i]
  OBVIOUS

\* The data of a side.
LEMMA DataIs ==
  ASSUME NEW n \in Nat
  PROVE  /\ Data(n) \in Seq(DataMsg) /\ Len(Data(n)) = n
         /\ \A i \in 1..n : Data(n)[i] = <<"data", i>>
         /\ n = 0 => Data(n) = <<>>
         /\ Append(Data(n), <<"data", n + 1>>) = Data(n + 1)
  <1>1. \A k \in Nat : /\ Data(k) \in Seq(DataMsg) /\ Len(Data(k)) = k
                       /\ \A i \in 1..k : Data(k)[i] = <<"data", i>>
    BY DEF Data, DataMsg
  <1>2. <<"data", n + 1>> \in DataMsg
    BY DEF DataMsg
  <1> DEFINE a == Append(Data(n), <<"data", n + 1>>)
  <1>3. a \in Seq(DataMsg) /\ Len(a) = n + 1
    BY <1>1, <1>2, AppendProperties
  <1>4. \A i \in 1..n : a[i] = <<"data", i>>
    BY <1>1, <1>2, AppendProperties
  <1>5. a[n + 1] = <<"data", n + 1>>
    BY <1>1, <1>2, AppendProperties
  <1>6. \A i \in 1..(n + 1) : a[i] = Data(n + 1)[i]
    <2> SUFFICES ASSUME NEW i \in 1..(n + 1) PROVE a[i] = Data(n + 1)[i]
      OBVIOUS
    <2>1. Data(n + 1)[i] = <<"data", i>>
      BY <1>1
    <2>2. i \in 1..n \/ i = n + 1
      OBVIOUS
    <2> HIDE DEF a
    <2> QED
      BY <1>4, <1>5, <2>1, <2>2
  <1>7. a = Data(n + 1)
    BY <1>1, <1>3, <1>6, SeqEqual
  <1> QED
    BY <1>1, <1>7

-----------------------------------------------------------------------------
(***************************************************************************)
(* Addresses.                                                              *)
(***************************************************************************)
LEMMA AddrLenOf ==
  ASSUME NEW b, Len(b) > 0
  PROVE  /\ b[1] = IPv4 => AddrLen(b) = 1 + 4 + 2
         /\ b[1] = IPv6 => AddrLen(b) = 1 + 16 + 2
  <1>1. IPv4 # IPv6 /\ IPv4 # Domain /\ IPv6 # Domain
    BY DEF IPv4, IPv6, Domain
  <1> QED
    BY <1>1 DEF AddrLen

LEMMA SplitAddrType ==
  ASSUME NEW b \in Seq(Byte)
  PROVE  /\ SplitAddr(b) \in Seq(Byte) /\ Len(SplitAddr(b)) <= Len(b)
         /\ AddrLen(b) \in 1..Len(b) =>
              SplitAddr(b) = SubSeq(b, 1, AddrLen(b)) /\ Len(SplitAddr(b)) = AddrLen(b)
  BY SubSeqProperties DEF SplitAddr

LEMMA DecodeType ==
  ASSUME NEW b \in Seq(Byte)
  PROVE  DecodeUDPPacket(b) \in Seq(Byte)
  <1>1. CASE Len(b) >= 5
    <2>1. SubSeq(b, 4, Len(b)) \in Seq(Byte)
      BY <1>1, SubSeqProperties
    <2> QED
      BY <2>1, SplitAddrType, EmptySeq, Zenon DEF DecodeUDPPacket
  <1>2. CASE ~(Len(b) >= 5)
    BY <1>2 DEF DecodeUDPPacket
  <1> QED
    BY <1>1, <1>2

\* What Addressed returns is a sequence of bytes, and the buffer stays one.
LEMMA AddressedType ==
  ASSUME NEW b \in Seq(Byte), NEW n \in 0..Len(b)
  PROVE  Addressed(b, n) \in Seq(Byte)
  <1>1. SubSeq(b, 1, n) \in Seq(Byte)
    BY SubSeqProperties
  <1> QED
    BY <1>1, SplitAddrType, DecodeType DEF Addressed

LEMMA MovedType ==
  ASSUME NEW b \in Seq(Byte), NEW h \in Nat
  PROVE  Moved(b, h) \in Seq(Byte) /\ Len(Moved(b, h)) = Len(b)
  BY DEF Moved

\* The destination as the dialers send it.
LEMMA DestAddrIs ==
  ASSUME dest \in Dests
  PROVE  /\ DestAddr \in Seq(Byte)
         /\ \/ DestAddr[1] = IPv4 /\ Len(DestAddr) = 1 + 4 + 2
            \/ DestAddr[1] = IPv6 /\ Len(DestAddr) = 1 + 16 + 2
  <1>1. /\ dest.ip \in Seq(Byte) /\ Len(dest.ip) \in {4, 16}
        /\ dest.port \in Seq(Byte) /\ Len(dest.port) = 2
    BY HandshakeAssumption
  <1> DEFINE kind == <<IF Len(dest.ip) = 4 THEN IPv4 ELSE IPv6>>
  <1>2. DestAddr = kind \o dest.ip \o dest.port
    BY DEF DestAddr, SerializeAddr
  <1>3. kind \in Seq(Byte) /\ Len(kind) = 1
    BY DEF Byte, IPv4, IPv6
  <1>4. kind[1] = IF Len(dest.ip) = 4 THEN IPv4 ELSE IPv6
    OBVIOUS
  <1>a. kind \in Seq(Byte) /\ dest.ip \in Seq(Byte) /\ dest.port \in Seq(Byte)
    BY <1>1, <1>3
  <1> DEFINE ka == kind \o dest.ip
  <1> HIDE DEF kind
  <1>5. /\ ka \in Seq(Byte) /\ Len(ka) = Len(kind) + Len(dest.ip)
        /\ \A i \in 1..Len(kind) : ka[i] = kind[i]
    BY <1>a, Cat
  <1> HIDE DEF ka
  <1>6. /\ ka \o dest.port \in Seq(Byte) /\ Len(ka \o dest.port) = Len(ka) + Len(dest.port)
        /\ \A i \in 1..Len(ka) : (ka \o dest.port)[i] = ka[i]
    BY <1>a, <1>5, Cat, ZenonT(30)
  <1>7. /\ DestAddr \in Seq(Byte) /\ Len(DestAddr) = Len(ka) + Len(dest.port)
        /\ \A i \in 1..Len(ka) : DestAddr[i] = ka[i]
    BY <1>2, <1>6 DEF ka
  <1>8. Len(ka) = 1 + Len(dest.ip) /\ ka[1] = kind[1]
    BY <1>1, <1>3, <1>5
  <1>9. Len(DestAddr) = 1 + Len(dest.ip) + 2 /\ DestAddr[1] = kind[1]
    BY <1>1, <1>7, <1>8
  <1>10. CASE Len(dest.ip) = 4
    BY <1>4, <1>7, <1>9, <1>10
  <1>11. CASE Len(dest.ip) = 16
    <2>1. Len(dest.ip) # 4
      BY <1>11
    <2> QED
      BY <1>4, <1>7, <1>9, <1>11, <2>1
  <1> QED
    BY <1>1, <1>10, <1>11

\* A packet: the reserved bytes where the protocol has them, the address, the
\* payload.
LEMMA PacketIs ==
  ASSUME dest \in Dests, NEW p \in Payloads
  PROVE  LET q == Packet(DestAddr, p) IN
           /\ q \in Seq(Byte) /\ Len(q) = HeadLen + Len(p)
           /\ HeadLen \in 7..MaxHeader /\ HeadLen = 3 - Skip + Len(DestAddr)
           /\ \A i \in 1..(3 - Skip) : q[i] = 0
           /\ \A i \in 1..Len(DestAddr) : q[3 - Skip + i] = DestAddr[i]
           /\ \A i \in 1..Len(p) : q[HeadLen + i] = p[i]
  <1> DEFINE a == DestAddr
             z == <<0, 0, 0>>
             e == EncodeUDPPacket(a, p)
             q == Packet(a, p)
  <1>1. a \in Seq(Byte) /\ Len(a) \in {7, 19}
    BY DestAddrIs
  <1>2. z \in Seq(Byte) /\ Len(z) = 3 /\ \A i \in 1..3 : z[i] = 0
    BY DEF Byte
  <1>3. p \in Seq(Byte) /\ Len(p) \in Nat
    BY HandshakeAssumption
  <1>4. Skip \in {0, 3}
    BY DEF Skip
  <1>c. z \in Seq(Byte) /\ a \in Seq(Byte)
    BY <1>1, <1>2
  <1> DEFINE za == z \o a
  <1> HIDE DEF a, z
  <1>5. /\ za \in Seq(Byte) /\ Len(za) = Len(z) + Len(a)
        /\ \A i \in 1..Len(z) : za[i] = z[i]
        /\ \A i \in 1..Len(a) : za[Len(z) + i] = a[i]
    BY <1>c, Cat
  <1> HIDE DEF za
  <1>6. /\ za \o p \in Seq(Byte) /\ Len(za \o p) = Len(za) + Len(p)
        /\ \A i \in 1..Len(za) : (za \o p)[i] = za[i]
        /\ \A i \in 1..Len(p) : (za \o p)[Len(za) + i] = p[i]
    <2>1. za \in Seq(Byte) /\ p \in Seq(Byte)
      BY <1>3, <1>5
    <2> QED
      BY <2>1, Cat
  <1>a. e = za \o p
    BY DEF EncodeUDPPacket, z, za
  <1> HIDE DEF e
  <1>b. /\ e \in Seq(Byte) /\ Len(e) = Len(za) + Len(p)
        /\ \A i \in 1..Len(za) : e[i] = za[i]
        /\ \A i \in 1..Len(p) : e[Len(za) + i] = p[i]
    BY <1>6, <1>a
  <1>7. /\ e \in Seq(Byte) /\ Len(e) = 3 + Len(a) + Len(p)
        /\ \A i \in 1..3 : e[i] = 0
        /\ \A i \in 1..Len(a) : e[3 + i] = a[i]
        /\ \A i \in 1..Len(p) : e[3 + Len(a) + i] = p[i]
    BY <1>1, <1>2, <1>3, <1>5, <1>b
  <1>8. q = SubSeq(e, Skip + 1, Len(e))
    BY DEF Packet, e
  <1> HIDE DEF q
  <1>9. /\ q \in Seq(Byte) /\ Len(q) = Len(e) - Skip
        /\ \A i \in 1..(Len(e) - Skip) : q[i] = e[Skip + i]
    <2>1. \A i \in (Skip + 1)..Len(e) : e[i] \in Byte
      BY <1>4, <1>7
    <2> QED
      BY <1>1, <1>3, <1>4, <1>7, <1>8, <2>1, SubSeqProperties
  <1> DEFINE la == Len(a)
             lp == Len(p)
             le == Len(e)
             lq == Len(q)
             sk == Skip
  <1>10. /\ la \in {7, 19} /\ lp \in Nat /\ sk \in {0, 3} /\ le = 3 + la + lp
         /\ lq = le - sk /\ HeadLen = 3 - sk + la /\ MaxHeader = 22
    BY <1>1, <1>3, <1>4, <1>7, <1>9 DEF HeadLen, a, MaxHeader
  <1>11. /\ \A i \in 1..3 : e[i] = 0
         /\ \A i \in 1..la : e[3 + i] = a[i]
         /\ \A i \in 1..lp : e[3 + la + i] = p[i]
         /\ \A i \in 1..(le - sk) : q[i] = e[sk + i]
    BY <1>7, <1>9
  <1> HIDE DEF la, lp, le, lq, sk
  <1>12. HeadLen \in 7..MaxHeader /\ lq = HeadLen + lp
    BY <1>10
  <1>13. \A i \in 1..(3 - sk) : q[i] = 0
    BY <1>10, <1>11
  <1>14. \A i \in 1..la : q[3 - sk + i] = a[i]
    BY <1>10, <1>11
  <1>15. \A i \in 1..lp : q[HeadLen + i] = p[i]
    BY <1>10, <1>11
  <1> QED
    BY <1>9, <1>10, <1>12, <1>13, <1>14, <1>15 DEF q, a, la, lp, lq, sk

-----------------------------------------------------------------------------
\* A dial that begins satisfies the invariant.
LEMMA InitIInv == Init => IInv
  <1> SUFFICES ASSUME Init PROVE IInv
    OBVIOUS
  <1>1. /\ MaxData \in Nat /\ BufferSize \in Nat
        /\ proto \in SOCKS5 \cup Lazy \cup UDP
                       \cup {"socks4", "http", "ssh", "relayNoDelay", "ss", "direct"}
    BY HandshakeAssumption DEF Init
  <1>2. Types
    <2>1. UDPTypes
      <3>1. [i \in 1..BufferSize |-> 0] \in Seq(Byte) /\ Len([i \in 1..BufferSize |-> 0]) = BufferSize
        BY <1>1 DEF Byte
      <3>2. <<>> \in Seq(Byte)
        OBVIOUS
      <3> QED
        BY <1>1, <3>1, <3>2 DEF Init, UDPTypes, UDPType
    <2>2. app \in AppType
      BY <1>1 DEF Init, AppType
    <2>3. srv \in SrvType
      BY <1>1 DEF Init, SrvType
    <2>4. DialTypes
      BY DEF Init, DialTypes
    <2>5. WireTypes
      BY DEF Init, WireTypes
    <2> QED
      BY <2>1, <2>2, <2>3, <2>4, <2>5 DEF Types
  <1>3. Reach
    BY <1>1 DEF Init, Reach, NoLeak, UDP, SOCKS5, Lazy
  <1>4. Fresh
    BY DEF Init, Fresh
  <1>5. Talk
    BY DEF Init, Talk, Sends
  <1>6. Stream
    BY DEF Init, Stream
  <1>7. Wire
    <2>1. <<>> \in Seq(Asks) /\ Data(0) = <<>>
      BY DataIs
    <2>2. WireIs(<<>>)
      BY <2>1, ConcatEmptySeq DEF Init, WireIs, Said
    <2> QED
      BY <2>1, <2>2 DEF Wire
  <1>8. Datagram
    BY DEF Init, Datagram, DatagramIntact
  <1> QED
    BY <1>2, <1>3, <1>4, <1>5, <1>6, <1>7, <1>8 DEF IInv

\* Every message the server answers is a question, and it answers with a
\* message.
LEMMA AnswerType ==
  ASSUME NEW q \in Asks, NEW r \in Answers(q[1]), NEW b \in Binds(r)
  PROVE  /\ r \in Answer \cup {"silent"} /\ b \in BindTo \cup {"none"}
         /\ r # "silent" => <<Control(r)>> \in Seq(Downward)
         /\ b # "none" => <<Control(b)>> \in Seq(Downward)
  <1>1. q[1] \in {"hello", "auth", "request", "header"}
    BY DEF Asks, Sends
  <1>2. r \in Answer \cup {"silent"}
    BY <1>1, AnswersOf DEF Answer
  <1>3. b \in BindTo \cup {"none"}
    BY DEF Binds, BindTo
  <1>4. \A m \in Answer \cup BindTo : <<Control(m)>> \in Seq(Downward)
    BY DEF Control, Downward
  <1> QED
    BY <1>2, <1>3, <1>4

\* What ReadFrom finds in its buffer: the datagram, and behind it what was there
\* before.
LEMMA Received ==
  ASSUME Types, Datagram, udp.packet # <<>>
  PROVE  LET n == Len(udp.packet)
             b == udp.packet \o SubSeq(udp.buf, n + 1, BufferSize)
         IN  /\ b \in Seq(Byte) /\ Len(b) = BufferSize /\ n \in 1..Len(b)
             /\ \A i \in 1..n : b[i] = udp.packet[i]
  <1> DEFINE x == udp.packet
             n == Len(x)
             y == SubSeq(udp.buf, n + 1, BufferSize)
             b == x \o y
  <1>1. /\ x \in Seq(Byte) /\ udp.buf \in Seq(Byte) /\ Len(udp.buf) = BufferSize
        /\ dest \in Dests /\ BufferSize \in Nat
    BY HandshakeAssumption DEF Types, DialTypes, UDPTypes, UDPType
  <1>2. n \in 1..BufferSize
    <2> DEFINE q == Packet(DestAddr, udp.payload)
               lq == Len(q)
               lp == Len(udp.payload)
    <2>1. udp.payload \in Payloads /\ n <= lq
      BY DEF Datagram, Prefixes
    <2>2. lp \in Nat /\ MaxHeader + lp <= BufferSize
      BY <2>1, HandshakeAssumption
    <2>3. lq = HeadLen + lp /\ HeadLen \in 7..MaxHeader
      BY <1>1, <2>1, PacketIs
    <2>4. n \in Nat \ {0}
      BY <1>1, EmptySeq
    <2>5. MaxHeader = 22
      BY DEF MaxHeader
    <2> HIDE DEF n, lp, lq
    <2> QED
      BY <1>1, <2>1, <2>2, <2>3, <2>4, <2>5
  <1>3. y \in Seq(Byte) /\ Len(y) = BufferSize - n
    <2>1. \A i \in (n + 1)..BufferSize : udp.buf[i] \in Byte
      BY <1>1, <1>2
    <2>2. n + 1 \in Int /\ BufferSize \in Int
      BY <1>1, <1>2
    <2>3. /\ y \in Seq(Byte)
          /\ Len(y) = IF n + 1 <= BufferSize THEN BufferSize - (n + 1) + 1 ELSE 0
      <3> DEFINE lo == n + 1
      <3>1. lo \in Int /\ (\A i \in lo..BufferSize : udp.buf[i] \in Byte)
        BY <2>1, <2>2
      <3>2. y = SubSeq(udp.buf, lo, BufferSize)
        OBVIOUS
      <3> HIDE DEF lo, y, n
      <3>3. y \in Seq(Byte) /\ Len(y) = IF lo <= BufferSize THEN BufferSize - lo + 1 ELSE 0
        BY <2>2, <3>1, <3>2, SubSeqProperties
      <3> QED
        BY <3>3 DEF lo
    <2> HIDE DEF n, y
    <2> QED
      BY <1>1, <1>2, <2>3
  <1>4. x \in Seq(Byte) /\ y \in Seq(Byte)
    BY <1>1, <1>3
  <1> HIDE DEF x, y
  <1>5. /\ b \in Seq(Byte) /\ Len(b) = n + Len(y)
        /\ \A i \in 1..n : b[i] = x[i]
    BY <1>4, Cat
  <1> HIDE DEF b, n
  <1>6. Len(b) = BufferSize
    BY <1>1, <1>2, <1>3, <1>5
  <1> QED
    BY <1>2, <1>5, <1>6 DEF b, n, x, y

LEMMA DialTypesStep ==
  ASSUME DialTypes, Reach, Next
  PROVE  DialTypes'
  <1> USE DEF DialTypes
  <1>1. CASE Connect
    <2>1. First(proto) \in {"hello", "request", "header", "done"}
      BY FirstOf, HandshakeAssumption, <1>1 DEF Connect, Reach, SOCKS5, Lazy, UDP
    <2> QED
      BY <1>1, <2>1 DEF Connect, Fail, dial, Sends, Reads
  <1>2. CASE Send
    <2>1. AfterSend(at) \in Reads \cup {"done"}
      BY <1>2, AfterSendOf DEF Send, Sends, Reads
    <2> QED
      BY <1>2, <2>1 DEF Send, Fail, dial, Sends, Reads
  <1>3. CASE Receive
    <2>1. at' \in Sends \cup Reads \cup {"connect", "listen", "bind", "done", "failed"}
      BY <1>3, AfterMethod, AfterStatus, AfterRequest, AfterAddr
         DEF Receive, Fail, Sends, Reads, Reach
    <2> QED
      BY <1>3, <2>1 DEF Receive, Fail, dial
  <1>4. CASE Listen \/ Bind \/ BindShadowsocks
    BY <1>4 DEF Listen, Bind, BindShadowsocks, Fail, dial
  <1>5. CASE AppClose \/ WatchEnds \/ WatchCloses
    BY <1>5 DEF AppClose, WatchEnds, WatchCloses, AfterWatch, dial
  <1>6. CASE AppWrite \/ AppRead \/ WriteTo \/ Alter \/ ReadFrom \/ SrvRead \/ SrvSend \/ SrvClose
    BY <1>6 DEF AppWrite, AppRead, WriteTo, Alter, ReadFrom, SrvRead, SrvSend, SrvClose, dial
  <1> QED
    BY <1>1, <1>2, <1>3, <1>4, <1>5, <1>6 DEF Next, Dial, Session

LEMMA SrvTypeStep ==
  ASSUME WireTypes, srv \in SrvType, Next
  PROVE  srv' \in SrvType
  <1>1. CASE SrvRead /\ ~IsData(Head(up))
    <2>a. Head(up) \in Upward
      <3>1. up # <<>>
        BY <1>1 DEF SrvRead
      <3> QED
        BY <3>1, HeadTailProperties DEF WireTypes
    <2>1. Head(up) \in Asks
      BY <1>1, <2>a DEF Upward, IsData, DataMsg
    <2>2. PICK r \in Answers(Head(up)[1]) : \E b \in Binds(r) :
            srv' = [srv EXCEPT !.granted = @ \/ r \in {"granted", "silent"}, !.bind = b]
      BY <1>1 DEF SrvRead
    <2>3. PICK b \in Binds(r) :
            srv' = [srv EXCEPT !.granted = @ \/ r \in {"granted", "silent"}, !.bind = b]
      BY <2>2
    <2>4. b \in BindTo \cup {"none"}
      BY <2>1, AnswerType
    <2> QED
      BY <2>3, <2>4 DEF SrvType
  <1>2. CASE SrvSend
    <2>1. MaxData \in Nat
      BY HandshakeAssumption
    <2>2. srv' = [srv EXCEPT !.sent = @ + 1] /\ srv.sent < MaxData
      BY <1>2 DEF SrvSend
    <2> QED
      BY <2>1, <2>2 DEF SrvType
  <1>3. CASE SrvClose
    BY <1>3 DEF SrvClose, SrvType
  <1>4. CASE UNCHANGED srv
    BY <1>4
  <1> QED
    BY <1>1, <1>2, <1>3, <1>4 DEF Next, Dial, Session, Connect, Send, Receive, Listen, Bind,
       BindShadowsocks, AppWrite, AppRead, AppClose, WriteTo, Alter, ReadFrom, WatchEnds,
       WatchCloses, SrvRead, peer

LEMMA WireTypesStep ==
  ASSUME DialTypes, WireTypes, srv \in SrvType, app \in AppType, Next
  PROVE  WireTypes'
  <1> USE DEF WireTypes
  <1>0. srv.sent \in Nat /\ app.written \in Nat
    BY HandshakeAssumption DEF SrvType, AppType
  <1>1. CASE Send
    <2>1. Control(at) \in Upward
      BY <1>1 DEF Send, Control, Upward, Asks
    <2>2. up' = Append(up, Control(at)) \/ up' = up
      BY <1>1 DEF Send
    <2>a. Append(up, Control(at)) \in Seq(Upward)
      BY <2>1, AppendProperties
    <2>3. up' \in Seq(Upward)
      BY <2>2, <2>a, Zenon
    <2> QED
      BY <1>1, <2>3 DEF Send
  <1>2. CASE Receive
    <2>1. \A k \in 1..Len(down) : SubSeq(down, k + 1, Len(down)) \in Seq(Downward)
      OBVIOUS
    <2>2. down' \in Seq(Downward)
      <3>1. CASE down # <<>>
        <4>1. Taken \subseteq 1..Len(down)
          BY <3>1, EmptySeq DEF Taken
        <4>2. \E k \in Taken : down' = SubSeq(down, k + 1, Len(down))
          BY <1>2, <3>1 DEF Receive
        <4> QED
          BY <2>1, <4>1, <4>2
      <3>2. CASE down = <<>>
        BY <1>2, <3>2 DEF Receive
      <3> QED
        BY <3>1, <3>2
    <2> QED
      BY <1>2, <2>2 DEF Receive
  <1>3. CASE AppWrite
    <2>1. Control("header") \in Upward /\ <<"data", app.written + 1>> \in Upward
      BY <1>0 DEF Control, Upward, Asks, DataMsg, Sends
    <2>2. up' = up \o (IF app.header THEN <<Control("header")>> ELSE <<>>)
                   \o <<<<"data", app.written + 1>>>>
      BY <1>3 DEF AppWrite
    <2> DEFINE x == IF app.header THEN <<Control("header")>> ELSE <<>>
               y == <<<<"data", app.written + 1>>>>
    <2>3. x \in Seq(Upward) /\ y \in Seq(Upward) /\ up' = up \o x \o y
      BY <2>1, <2>2
    <2> HIDE DEF x, y
    <2>4. up' \in Seq(Upward)
      BY <2>3, Cat
    <2> QED
      BY <1>3, <2>4 DEF AppWrite
  <1>4. CASE AppRead
    BY <1>4 DEF AppRead
  <1>5. CASE SrvRead
    <2>a. up # <<>> /\ got' = Append(got, Head(up)) /\ up' = Tail(up)
      BY <1>5 DEF SrvRead
    <2>1. Head(up) \in Upward /\ up' \in Seq(Upward) /\ got' \in Seq(Upward)
      BY <2>a, HeadTailProperties, AppendProperties
    <2>2. CASE IsData(Head(up))
      BY <1>5, <2>1, <2>2 DEF SrvRead
    <2>3. CASE ~IsData(Head(up))
      <3>1. Head(up) \in Asks
        BY <2>1, <2>3 DEF Upward, IsData, DataMsg
      <3>2. PICK r \in Answers(Head(up)[1]) : \E b \in Binds(r) :
              down' = down \o (IF r = "silent" THEN <<>> ELSE <<Control(r)>>)
                           \o (IF b = "none" THEN <<>> ELSE <<Control(b)>>)
        BY <1>5, <2>3 DEF SrvRead
      <3>3. PICK b \in Binds(r) :
              down' = down \o (IF r = "silent" THEN <<>> ELSE <<Control(r)>>)
                           \o (IF b = "none" THEN <<>> ELSE <<Control(b)>>)
        BY <3>2
      <3> DEFINE x == IF r = "silent" THEN <<>> ELSE <<Control(r)>>
                 y == IF b = "none" THEN <<>> ELSE <<Control(b)>>
      <3>4. x \in Seq(Downward) /\ y \in Seq(Downward)
        BY <3>1, AnswerType, EmptySeq, Zenon
      <3>5. down' = down \o x \o y
        BY <3>3
      <3> HIDE DEF x, y
      <3>6. down' \in Seq(Downward)
        BY <3>4, <3>5, Cat
      <3> QED
        BY <1>5, <2>1, <3>6 DEF SrvRead
    <2> QED
      BY <2>2, <2>3
  <1>6. CASE SrvSend
    <2>1. <<"data", srv.sent + 1>> \in Downward
      BY <1>0 DEF Downward, DataMsg
    <2> QED
      BY <1>6, <2>1 DEF SrvSend
  <1>7. CASE UNCHANGED <<up, got, down>>
    BY <1>7
  <1> QED
    BY <1>1, <1>2, <1>3, <1>4, <1>5, <1>6, <1>7 DEF Next, Dial, Session, Connect, Listen, Bind,
       BindShadowsocks, AppClose, WriteTo, Alter, ReadFrom, WatchEnds, WatchCloses, SrvClose, peer

LEMMA AppTypeStep ==
  ASSUME WireTypes, app \in AppType, Next
  PROVE  app' \in AppType
  <1>1. CASE AppWrite
    <2>1. MaxData \in Nat
      BY HandshakeAssumption
    <2>2. app' = [app EXCEPT !.written = @ + 1, !.header = FALSE] /\ app.written < MaxData
      BY <1>1 DEF AppWrite, HeaderLeft
    <2> DEFINE x == app.written + 1
    <2>3. app' = [app EXCEPT !.written = x, !.header = FALSE] /\ x \in 0..MaxData
      BY <2>1, <2>2 DEF AppType
    <2> HIDE DEF x
    <2> QED
      BY <2>3 DEF AppType
  <1>2. CASE AppRead
    <2>1. down # <<>>
      BY <1>2 DEF AppRead
    <2>2. Head(down) \in Downward
      BY <2>1, HeadTailProperties DEF WireTypes
    <2>3. Append(app.read, Head(down)) \in Seq(Downward)
      BY <2>2, AppendProperties DEF AppType
    <2>4. \/ app' = [app EXCEPT !.read = Append(@, Head(down))]
          \/ app' = [app EXCEPT !.once = TRUE, !.error = ~(Head(down)[1] = "granted")]
      BY <1>2 DEF AppRead, RelayGrants
    <2>5. CASE app' = [app EXCEPT !.read = Append(@, Head(down))]
      <3> DEFINE x == Append(app.read, Head(down))
      <3>1. app' = [app EXCEPT !.read = x] /\ x \in Seq(Downward)
        BY <2>3, <2>5
      <3> HIDE DEF x
      <3> QED
        BY <3>1 DEF AppType
    <2>6. CASE app' = [app EXCEPT !.once = TRUE, !.error = ~(Head(down)[1] = "granted")]
      BY <2>6 DEF AppType
    <2> QED
      BY <2>4, <2>5, <2>6
  <1>3. CASE UNCHANGED app
    BY <1>3
  <1> QED
    BY <1>1, <1>2, <1>3 DEF Next, Dial, Session, Connect, Send, Receive, Listen, Bind,
       BindShadowsocks, AppClose, WriteTo, Alter, ReadFrom, WatchEnds, WatchCloses, SrvRead,
       SrvSend, SrvClose, peer

LEMMA UDPTypesStep ==
  ASSUME Types, Datagram, Next
  PROVE  UDPTypes'
  <1> USE DEF UDPTypes, UDPType
  <1>0. UDPTypes /\ dest \in Dests
    BY DEF Types, DialTypes
  <1>1. CASE WriteTo
    <2>1. PICK p \in Payloads : udp' = [udp EXCEPT !.packet = Packet(DestAddr, p),
                                          !.payload = p, !.left = @ - 1, !.ok = FALSE]
      BY <1>1 DEF WriteTo
    <2>2. p \in Seq(Byte)
      BY HandshakeAssumption
    <2>3. Packet(DestAddr, p) \in Seq(Byte)
      BY <1>0, PacketIs
    <2>4. udp.left - 1 \in Nat
      BY <1>0, <1>1 DEF WriteTo
    <2> QED
      BY <1>0, <2>1, <2>2, <2>3, <2>4
  <1>2. CASE Alter
    <2>1. PICK x : udp' = [udp EXCEPT !.packet = x] /\ x \in Seq(Byte)
      <3>1. CASE \E n \in Cuts : /\ n < Len(udp.packet)
                                 /\ udp' = [udp EXCEPT !.packet = SubSeq(@, 1, n)]
        <4>1. PICK n \in Cuts : /\ n < Len(udp.packet)
                                /\ udp' = [udp EXCEPT !.packet = SubSeq(@, 1, n)]
          BY <3>1
        <4>2. n \in Nat /\ udp.packet \in Seq(Byte)
          BY <1>0, HandshakeAssumption
        <4>3. SubSeq(udp.packet, 1, n) \in Seq(Byte)
          BY <4>1, <4>2
        <4> QED
          BY <4>1, <4>3
      <3>2. CASE Len(udp.packet) > 2 /\ udp' = [udp EXCEPT !.packet[3] = 1]
        <4>1. udp' = [udp EXCEPT !.packet = [udp.packet EXCEPT ![3] = 1]]
          BY <3>2
        <4>2. 1 \in Byte /\ 3 \in 1..Len(udp.packet) /\ udp.packet \in Seq(Byte)
          BY <1>0, <3>2 DEF Byte
        <4>3. [udp.packet EXCEPT ![3] = 1] \in Seq(Byte)
          BY <4>2, ExceptSeq
        <4> QED
          BY <4>1, <4>3
      <3> QED
        BY <1>2, <3>1, <3>2 DEF Alter
    <2> QED
      BY <1>0, <2>1
  <1>3. CASE ReadFrom
    <2> DEFINE n == Len(udp.packet)
               b == udp.packet \o SubSeq(udp.buf, n + 1, BufferSize)
               a == Addressed(b, n)
               h == 3 - Skip + Len(a)
               m == IF IsUDPAddr(a) THEN Moved(b, h) ELSE b
    <2>0. udp.packet # <<>>
      BY <1>3 DEF ReadFrom
    <2>1. b \in Seq(Byte) /\ Len(b) = BufferSize /\ n \in 1..Len(b)
      BY <2>0, Received
    <2>2. udp' = [udp EXCEPT !.packet = <<>>, !.short = n < HeadLen,
                             !.ok = IsUDPAddr(a), !.n = n - h, !.buf = m]
      BY <1>3 DEF ReadFrom
    <2> HIDE DEF n, b
    <2>3. a \in Seq(Byte)
      BY <2>1, AddressedType
    <2>4. Len(a) \in Nat /\ 3 - Skip \in Nat
      BY <2>3 DEF Skip
    <2>5. h \in Nat
      BY <2>4
    <2> HIDE DEF a, h
    <2>6. m \in Seq(Byte) /\ Len(m) = BufferSize
      BY <2>1, <2>5, MovedType
    <2> HIDE DEF m
    <2>7. (n < HeadLen) \in BOOLEAN /\ IsUDPAddr(a) \in BOOLEAN /\ n - h \in Int
      BY <2>1, <2>5 DEF IsUDPAddr, Valid
    <2>8. <<>> \in Seq(Byte)
      OBVIOUS
    <2> QED
      BY <1>0, <2>2, <2>6, <2>7, <2>8
  <1>4. CASE UNCHANGED udp
    BY <1>0, <1>4
  <1> QED
    BY <1>1, <1>2, <1>3, <1>4 DEF Next, Dial, Session, Connect, Send, Receive, Listen, Bind,
       BindShadowsocks, AppWrite, AppRead, AppClose, WatchEnds, WatchCloses, SrvRead, SrvSend,
       SrvClose, peer

\* A step keeps the types.
LEMMA TypesStep ==
  ASSUME IInv, Next
  PROVE  Types'
  BY DialTypesStep, SrvTypeStep, WireTypesStep, AppTypeStep, UDPTypesStep DEF IInv, Types

-----------------------------------------------------------------------------
\* A step keeps a protocol on its way, and every way out of it closed.
LEMMA ReachStep ==
  ASSUME IInv, Next
  PROVE  Reach'
  <1>0. /\ DialTypes /\ Reach
        /\ proto \in SOCKS5 \cup Lazy \cup UDP
                       \cup {"socks4", "http", "ssh", "relayNoDelay", "ss", "direct"}
    BY HandshakeAssumption DEF IInv, Types, DialTypes
  <1> USE DEF Reach, NoLeak, SOCKS5, UDP, Lazy
  <1>1. CASE Connect
    BY <1>0, <1>1, FirstOf DEF Connect, Fail, dial
  <1>2. CASE Send
    BY <1>0, <1>2, AfterSendOf DEF Send, Fail, dial, Sends
  <1>3. CASE Receive
    BY <1>0, <1>3, AfterMethod, AfterStatus, AfterRequest, AfterAddr DEF Receive, Fail, dial, Reads
  <1>4. CASE Listen \/ Bind \/ BindShadowsocks
    BY <1>0, <1>4 DEF Listen, Bind, BindShadowsocks, Fail, dial
  <1>5. CASE AppClose \/ WatchEnds \/ WatchCloses
    BY <1>0, <1>5 DEF AppClose, WatchEnds, WatchCloses, AfterWatch, dial, DialTypes
  <1>6. CASE UNCHANGED <<dial, at, conn, sock, watch>>
    BY <1>0, <1>6 DEF dial
  <1> QED
    BY <1>1, <1>2, <1>3, <1>4, <1>5, <1>6 DEF Next, Dial, Session, AppWrite, AppRead, WriteTo,
       Alter, ReadFrom, SrvRead, SrvSend, SrvClose

LEMMA FreshStep ==
  ASSUME IInv, Next
  PROVE  Fresh'
  <1>1. CASE AppWrite
    BY <1>1 DEF AppWrite, Fresh, dial
  <1>2. CASE AppRead
    <2>1. app'.written = app.written /\ UNCHANGED <<dial, at>> /\ at = "done"
      BY <1>2 DEF AppRead, IInv, Types, AppType
    <2> QED
      BY <2>1 DEF IInv, Fresh, dial
  <1>3. CASE UNCHANGED <<dial, app>> /\ (at = "done" => at' = "done")
    BY <1>3 DEF IInv, Fresh, dial
  <1> QED
    BY <1>1, <1>2, <1>3 DEF Next, Dial, Session, Connect, Send, Receive, Listen, Bind,
       BindShadowsocks, AppClose, WriteTo, Alter, ReadFrom, WatchEnds, WatchCloses, SrvRead,
       SrvSend, SrvClose, peer, Sends, Reads

-----------------------------------------------------------------------------
(***************************************************************************)
(* Sequences of messages.                                                  *)
(***************************************************************************)
LEMMA AppendCat ==
  ASSUME NEW S, NEW h \in Seq(S), NEW d \in Seq(S), NEW e \in S, NEW w, w = Append(d, e)
  PROVE  Append(h \o d, e) = h \o w
  <1>1. Append(h \o d, e) = (h \o d) \o <<e>>
    BY AppendIsConcat, Cat
  <1>2. Append(d, e) = d \o <<e>> /\ <<e>> \in Seq(S)
    BY AppendIsConcat
  <1> QED
    BY <1>1, <1>2, ConcatAssociative

LEMMA HeadCat ==
  ASSUME NEW S, NEW x \in S, NEW s \in Seq(S)
  PROVE  /\ <<x>> \o s # <<>> /\ Head(<<x>> \o s) = x /\ Tail(<<x>> \o s) = s
         /\ <<x>> \in Seq(S)
  OBVIOUS

LEMMA MoveHead ==
  ASSUME NEW S, NEW s \in Seq(S), NEW t \in Seq(S), t # <<>>
  PROVE  Append(s, Head(t)) \o Tail(t) = s \o t
  OBVIOUS

\* The data of a side grows at its end.
LEMMA RestGrows ==
  ASSUME NEW n \in Nat, NEW k \in 0..n
  PROVE  /\ Rest(k, n) \in Seq(DataMsg)
         /\ Append(Rest(k, n), <<"data", n + 1>>) = Rest(k, n + 1)
  <1> DEFINE d == Data(n)
             e == Data(n + 1)
             m == <<"data", n + 1>>
  <1>1. d \in Seq(DataMsg) /\ Len(d) = n /\ (\A i \in 1..n : d[i] = <<"data", i>>)
    BY DataIs
  <1>1a. n + 1 \in Nat
    OBVIOUS
  <1>1b. /\ e \in Seq(DataMsg) /\ Len(e) = n + 1
         /\ \A i \in 1..(n + 1) : e[i] = <<"data", i>>
    BY <1>1a, DataIs
  <1>2. m \in DataMsg
    BY DEF DataMsg
  <1> DEFINE r == SubSeq(d, k + 1, n)
             q == SubSeq(e, k + 1, n + 1)
  <1> HIDE DEF d, e
  <1>3. /\ \A i \in (k + 1)..n : d[i] \in DataMsg
        /\ \A i \in (k + 1)..(n + 1) : e[i] \in DataMsg
        /\ k + 1 \in Int /\ n \in Int /\ n + 1 \in Int
    BY <1>1, <1>1b
  <1>4. /\ r \in Seq(DataMsg) /\ Len(r) = IF k + 1 <= n THEN n - (k + 1) + 1 ELSE 0
        /\ \A i \in 1..(n - (k + 1) + 1) : r[i] = d[k + 1 + i - 1]
    BY <1>3, SubSeqProperties
  <1>5. /\ q \in Seq(DataMsg) /\ Len(q) = IF k + 1 <= n + 1 THEN n + 1 - (k + 1) + 1 ELSE 0
        /\ \A i \in 1..(n + 1 - (k + 1) + 1) : q[i] = e[k + 1 + i - 1]
    BY <1>3, SubSeqProperties
  <1> HIDE DEF r, q
  <1>6. /\ Append(r, m) \in Seq(DataMsg) /\ Len(Append(r, m)) = Len(r) + 1
        /\ \A i \in 1..Len(r) : Append(r, m)[i] = r[i]
        /\ Append(r, m)[Len(r) + 1] = m
    BY <1>2, <1>4, AppendProperties
  <1> DEFINE a == Append(r, m)
             lr == Len(r)
  <1>7. a \in Seq(DataMsg) /\ Len(a) = lr + 1 /\ lr = n - k /\ Len(q) = n - k + 1
    BY <1>4, <1>5, <1>6
  <1>8. \A i \in 1..lr : a[i] = r[i]
    BY <1>6
  <1>9. a[lr + 1] = m
    BY <1>6
  <1> HIDE DEF a, lr
  <1>10. \A i \in 1..(n - k) : r[i] = <<"data", k + i>>
    BY <1>1, <1>4
  <1>11. \A i \in 1..(n - k + 1) : q[i] = <<"data", k + i>>
    <2> TAKE i \in 1..(n - k + 1)
    <2>1. /\ i \in 1..(n + 1 - (k + 1) + 1) /\ k + 1 + i - 1 = k + i
          /\ k + i \in 1..(n + 1)
      OBVIOUS
    <2>2. q[i] = e[k + i]
      BY <1>5, <2>1
    <2> QED
      BY <1>1b, <2>1, <2>2
  <1>12. \A i \in 1..Len(a) : a[i] = q[i]
    <2> SUFFICES ASSUME NEW i \in 1..Len(a) PROVE a[i] = q[i]
      OBVIOUS
    <2>1. CASE i <= n - k
      <3>1. i \in 1..lr /\ i \in 1..(n - k) /\ i \in 1..(n - k + 1)
        BY <1>7, <2>1
      <3>2. a[i] = r[i] /\ r[i] = <<"data", k + i>> /\ q[i] = <<"data", k + i>>
        BY <1>8, <1>10, <1>11, <3>1
      <3> QED
        BY <3>2
    <2>2. CASE i = n - k + 1
      <3>1. a[i] = <<"data", n + 1>>
        BY <1>7, <1>9, <2>2 DEF m
      <3>2. q[i] = <<"data", k + i>> /\ k + i = n + 1
        BY <1>11, <2>2
      <3> QED
        BY <3>1, <3>2
    <2> QED
      BY <1>7, <2>1, <2>2
  <1>13. a = q
    BY <1>5, <1>7, <1>12, SeqEqual
  <1> QED
    BY <1>4, <1>13 DEF Rest, a, r, q, d, e

LEMMA RestIs ==
  ASSUME NEW n \in Nat
  PROVE  /\ Rest(0, n) = Data(n) /\ Rest(0, 0) = <<>>
         /\ \A k \in 1..(n + 1) :
              SubSeq(<<Control("granted")>> \o Data(n), k + 1, n + 1) = Rest(k - 1, n)
  <1> DEFINE d == Data(n)
             c == <<Control("granted")>>
             S == DataMsg \cup {Control("granted")}
  <1>1. d \in Seq(DataMsg) /\ Len(d) = n /\ Data(0) = <<>>
    BY DataIs
  <1>2. Rest(0, n) = Data(n)
    <2>1. SubSeq(d, 1, Len(d)) = d
      BY <1>1, SubSeqFull
    <2>2. 0 + 1 = 1
      OBVIOUS
    <2> QED
      BY <1>1, <2>1, <2>2 DEF Rest
  <1>3. Rest(0, 0) = <<>>
    BY <1>1, SubSeqEmpty DEF Rest
  <1>4. ASSUME NEW k \in 1..(n + 1)
        PROVE  SubSeq(c \o d, k + 1, n + 1) = Rest(k - 1, n)
    <2>1. c \in Seq(S) /\ d \in Seq(S) /\ Len(c) = 1
      BY <1>1
    <2> DEFINE w == c \o d
               s == SubSeq(w, k + 1, n + 1)
               t == SubSeq(d, k, n)
    <2>2. c \in Seq(S) /\ d \in Seq(S)
      BY <2>1
    <2> HIDE DEF c, d, S
    <2>3. /\ w \in Seq(S) /\ Len(w) = Len(c) + Len(d)
          /\ \A i \in 1..Len(d) : w[Len(c) + i] = d[i]
      BY <2>2, Cat
    <2> HIDE DEF w
    <2>4. Len(w) = n + 1 /\ \A i \in 1..n : w[i + 1] = d[i]
      BY <1>1, <2>1, <2>3
    <2>5. /\ \A i \in (k + 1)..(n + 1) : w[i] \in S
          /\ \A i \in k..n : d[i] \in S
          /\ k + 1 \in Int /\ n + 1 \in Int /\ k \in Int /\ n \in Int
      BY <1>1, <2>2, <2>3, <2>4
    <2>6. /\ s \in Seq(S) /\ Len(s) = IF k + 1 <= n + 1 THEN n + 1 - (k + 1) + 1 ELSE 0
          /\ \A i \in 1..(n + 1 - (k + 1) + 1) : s[i] = w[k + 1 + i - 1]
      BY <2>5, SubSeqProperties
    <2>7. /\ t \in Seq(S) /\ Len(t) = IF k <= n THEN n - k + 1 ELSE 0
          /\ \A i \in 1..(n - k + 1) : t[i] = d[k + i - 1]
      BY <2>5, SubSeqProperties
    <2> HIDE DEF s, t
    <2>8. Len(s) = Len(t) /\ Len(s) = n - k + 1
      BY <2>6, <2>7
    <2>9. \A i \in 1..(n - k + 1) : s[i] = t[i]
      BY <2>4, <2>6, <2>7
    <2>10. s = t
      BY <2>6, <2>7, <2>8, <2>9, SeqEqual
    <2>11. k - 1 + 1 = k
      OBVIOUS
    <2> QED
      BY <2>10, <2>11 DEF Rest, s, t, w, c, d
  <1> QED
    BY <1>2, <1>3, <1>4

-----------------------------------------------------------------------------
(***************************************************************************)
(* The handshake, message by message.                                      *)
(***************************************************************************)
\* The server answers a question that is alone on its way.
LEMMA OneAnswer ==
  ASSUME SrvRead, srv \in SrvType, NEW m \in Sends, up = <<Control(m)>>, down = <<>>
  PROVE  /\ up' = <<>> /\ srv'.sent = srv.sent /\ srv'.open = srv.open
         /\ UNCHANGED <<dial, at, conn, sock, watch, app, udp>>
         /\ \E r \in Answers(m) : \E b \in Binds(r) :
              /\ srv'.granted = (srv.granted \/ r \in {"granted", "silent"}) /\ srv'.bind = b
              /\ down' = (IF r = "silent" THEN <<>> ELSE <<Control(r)>>)
                         \o (IF b = "none" THEN <<>> ELSE <<Control(b)>>)
  <1>1. Head(up)[1] = m /\ ~IsData(Head(up)) /\ Tail(up) = <<>>
    BY DEF Control, IsData, Sends
  <1>2. PICK r \in Answers(m) : \E b \in Binds(r) :
          /\ srv' = [srv EXCEPT !.granted = @ \/ r \in {"granted", "silent"}, !.bind = b]
          /\ down' = down \o (IF r = "silent" THEN <<>> ELSE <<Control(r)>>)
                          \o (IF b = "none" THEN <<>> ELSE <<Control(b)>>)
    BY <1>1 DEF SrvRead
  <1>3. PICK b \in Binds(r) :
          /\ srv' = [srv EXCEPT !.granted = @ \/ r \in {"granted", "silent"}, !.bind = b]
          /\ down' = down \o (IF r = "silent" THEN <<>> ELSE <<Control(r)>>)
                          \o (IF b = "none" THEN <<>> ELSE <<Control(b)>>)
    BY <1>2
  <1>4. down \o (IF r = "silent" THEN <<>> ELSE <<Control(r)>>)
          = (IF r = "silent" THEN <<>> ELSE <<Control(r)>>)
    OBVIOUS
  <1>5. /\ srv'.granted = (srv.granted \/ r \in {"granted", "silent"})
        /\ srv'.bind = b /\ srv'.sent = srv.sent /\ srv'.open = srv.open
    BY <1>3 DEF SrvType
  <1> QED
    BY <1>1, <1>3, <1>4, <1>5 DEF SrvRead

\* What the answer to a question looks like.
LEMMA AnswerIs ==
  ASSUME SrvRead, srv \in SrvType, NEW m \in Sends, up = <<Control(m)>>, down = <<>>,
         ~srv.granted, srv.sent = 0
  PROVE  /\ m \in {"hello", "auth"} => Answered'
         /\ m = "request" =>
              \/ Refused'
              \/ /\ Granted(<<Control("granted")>> \o BindAddr)'
                 /\ proto' \in SOCKS5 => srv'.bind \in BindTo
         /\ m = "header" /\ proto # "ss" /\ proto \notin SOCKS5 =>
              Refused' \/ Granted(<<Control("granted")>>)'
  <1>1. PICK r \in Answers(m) : \E b \in Binds(r) :
          /\ srv'.granted = (srv.granted \/ r \in {"granted", "silent"}) /\ srv'.bind = b
          /\ down' = (IF r = "silent" THEN <<>> ELSE <<Control(r)>>)
                     \o (IF b = "none" THEN <<>> ELSE <<Control(b)>>)
    BY OneAnswer
  <1>2. PICK b \in Binds(r) :
          /\ srv'.granted = (srv.granted \/ r \in {"granted", "silent"}) /\ srv'.bind = b
          /\ down' = (IF r = "silent" THEN <<>> ELSE <<Control(r)>>)
                     \o (IF b = "none" THEN <<>> ELSE <<Control(b)>>)
    BY <1>1
  <1>3. up' = <<>> /\ srv'.sent = 0 /\ proto' = proto
    BY OneAnswer DEF dial
  <1>4. Data(0) = <<>> /\ Data(srv'.sent) = <<>>
    BY <1>3, DataIs
  <1>5. <<Control(r)>> \o <<>> = <<Control(r)>>
    OBVIOUS
  <1>6. CASE m \in {"hello", "auth"}
    <2>1. r \in Answer /\ r \notin {"granted", "silent"}
      BY <1>6, AnswersOf DEF Answer
    <2>2. b = "none"
      BY <2>1 DEF Binds
    <2> QED
      BY <1>2, <1>3, <1>5, <1>6, <2>1, <2>2 DEF Answered
  <1>7. CASE m \in {"request", "header"} /\ (m = "header" => proto # "ss" /\ proto \notin SOCKS5)
    <2>1. r \in {"granted", "refused"}
      BY <1>7, AnswersOf
    <2>2. CASE r = "refused"
      <3>1. b = "none"
        BY <2>2 DEF Binds
      <3> QED
        BY <1>2, <1>3, <1>5, <1>7, <2>2, <3>1 DEF Refused
    <2>3. CASE r = "granted"
      <3>1. srv'.granted
        BY <1>2, <2>3
      <3>2. CASE proto \in SOCKS5
        <4>1. b \in BindTo /\ b # "none"
          BY <2>3, <3>2 DEF Binds, BindTo
        <4>2. down' = <<Control("granted")>> \o <<Control(b)>>
          BY <1>2, <2>3, <4>1
        <4>3. BindAddr' = <<Control(b)>>
          BY <1>2, <1>3, <3>2 DEF BindAddr
        <4>4. (<<Control("granted")>> \o <<Control(b)>>) \o <<>>
                = <<Control("granted")>> \o <<Control(b)>>
          OBVIOUS
        <4> QED
          BY <1>2, <1>3, <1>4, <1>7, <3>1, <3>2, <4>1, <4>2, <4>3, <4>4 DEF Granted
      <3>3. CASE proto \notin SOCKS5
        <4>1. b = "none"
          BY <3>3 DEF Binds
        <4>2. down' = <<Control("granted")>>
          BY <1>2, <1>5, <2>3, <4>1
        <4>3. BindAddr' = <<>>
          BY <1>3, <3>3 DEF BindAddr
        <4>4. (<<Control("granted")>> \o <<>>) \o <<>> = <<Control("granted")>>
          OBVIOUS
        <4> QED
          BY <1>3, <1>4, <1>7, <3>1, <3>3, <4>2, <4>3, <4>4, <1>5 DEF Granted
      <3> QED
        BY <3>2, <3>3
    <2> QED
      BY <2>1, <2>2, <2>3
  <1> QED
    BY <1>6, <1>7 DEF Sends

\* The reply that grants, and what follows it.
LEMMA GrantedReply ==
  ASSUME srv \in SrvType, Granted(<<Control("granted")>> \o BindAddr)
  PROVE  /\ down # <<>> /\ Head(down) = Control("granted")
         /\ Tail(down) = BindAddr \o Data(srv.sent)
         /\ proto \notin SOCKS5 => down = <<Control("granted")>> \o Data(srv.sent)
  <1> DEFINE S == DataMsg \cup {Control("granted"), Control(srv.bind)}
             c == <<Control("granted")>>
             d == Data(srv.sent)
             x == BindAddr
  <1>0. \A y \in S : <<y>> \in Seq(S)
    OBVIOUS
  <1>1. c \in Seq(S) /\ x \in Seq(S)
    BY <1>0, EmptySeq, Zenon DEF BindAddr
  <1>2. d \in Seq(DataMsg)
    BY HandshakeAssumption, DataIs DEF SrvType
  <1>3. d \in Seq(S) /\ Control("granted") \in S
    BY <1>2
  <1>4. down = (c \o x) \o d
    BY DEF Granted
  <1>a. x \o d \in Seq(S)
    BY <1>1, <1>3, Cat
  <1>5. proto \notin SOCKS5 => x = <<>>
    BY DEF BindAddr
  <1> HIDE DEF S, d, x
  <1>6. down = c \o (x \o d)
    BY <1>1, <1>3, <1>4, ConcatAssociative
  <1>7. down # <<>> /\ Head(down) = Control("granted") /\ Tail(down) = x \o d
    BY <1>3, <1>6, <1>a, HeadCat
  <1>8. proto \notin SOCKS5 => x \o d = d
    BY <1>3, <1>5, ConcatEmptySeq
  <1> QED
    BY <1>6, <1>7, <1>8 DEF d, x

\* The data the server sends goes behind what it has sent.
LEMMA GrantedGrows ==
  ASSUME srv \in SrvType, SrvSend, NEW S, NEW head \in Seq(S), down = head \o Data(srv.sent)
  PROVE  /\ down' = head \o Data(srv'.sent) /\ srv'.granted /\ srv'.bind = srv.bind
         /\ srv'.sent = srv.sent + 1 /\ srv'.open = srv.open
         /\ UNCHANGED <<dial, at, conn, sock, watch, up, got, app, udp>>
  <1> DEFINE T == S \cup DataMsg
             d == Data(srv.sent)
             m == <<"data", srv.sent + 1>>
  <1>1. srv.sent \in Nat
    BY HandshakeAssumption DEF SrvType
  <1>2. d \in Seq(DataMsg) /\ Append(d, m) = Data(srv.sent + 1)
    BY <1>1, DataIs
  <1>3. d \in Seq(T) /\ head \in Seq(T) /\ m \in T
    BY <1>1, <1>2 DEF DataMsg
  <1>4. srv'.sent = srv.sent + 1 /\ srv'.granted /\ srv'.bind = srv.bind /\ srv'.open = srv.open
    BY DEF SrvSend, SrvType
  <1>5. down' = Append(head \o d, m)
    BY DEF SrvSend
  <1> DEFINE w == Append(d, m)
  <1>a. w = Append(d, m)
    OBVIOUS
  <1> HIDE DEF d, m, T, w
  <1>b. Append(head \o d, m) = head \o w
    BY <1>3, <1>a, AppendCat, ZenonT(30)
  <1>6. down' = head \o w
    BY <1>5, <1>b
  <1>7. UNCHANGED <<dial, at, conn, sock, watch, up, got, app, udp>>
    BY DEF SrvSend
  <1> QED
    BY <1>2, <1>4, <1>6, <1>7, <1>a

\* A dialer but that of proxy/http takes one message.
LEMMA OneTaken ==
  ASSUME Receive, down # <<>>, WireTypes, proto # "http"
  PROVE  down' = Tail(down)
  <1>1. down' = SubSeq(down, 2, Len(down))
    BY DEF Receive, Taken
  <1> QED
    BY <1>1 DEF WireTypes

\* What the dial reads while it waits for the request to be granted.
LEMMA ReplyRead ==
  ASSUME IInv, Receive, down # <<>>
  PROVE  /\ at = "reply" /\ Head(down)[1] = "granted" =>
              /\ Granted(<<Control("granted")>> \o BindAddr) /\ down # <<>>
              /\ Tail(down) = BindAddr \o Data(srv.sent)
              /\ proto \in SOCKS5 => srv.bind \in BindTo
              /\ proto \notin SOCKS5 => down = <<Control("granted")>> \o Data(srv.sent)
         /\ at = "response" /\ Head(down)[1] = "granted" =>
              srv.granted /\ up = <<>> /\ down = <<Control("granted")>> \o Data(srv.sent)
         /\ at = "addr" =>
              srv.granted /\ up = <<>> /\ Tail(down) = Data(srv.sent) /\ srv.bind \in BindTo
  <1>1. srv \in SrvType /\ Talk
    BY DEF IInv, Types
  <1>2. Head(<<Control("refused")>>)[1] # "granted"
    BY DEF Control
  <1>3. ASSUME at = "reply", Head(down)[1] = "granted"
        PROVE  /\ Granted(<<Control("granted")>> \o BindAddr)
               /\ proto \in SOCKS5 => srv.bind \in BindTo
    BY <1>1, <1>2, <1>3 DEF Talk, Asking, Refused
  <1>4. ASSUME at = "response", Head(down)[1] = "granted"
        PROVE  srv.granted /\ up = <<>> /\ down = <<Control("granted")>> \o Data(srv.sent)
    BY <1>1, <1>2, <1>4 DEF Talk, Asking, Refused, Granted
  <1>5. ASSUME at = "addr"
        PROVE  srv.granted /\ up = <<>> /\ Tail(down) = Data(srv.sent) /\ srv.bind \in BindTo
    <2> DEFINE S == DataMsg \cup {Control(srv.bind)}
               d == Data(srv.sent)
    <2>1. srv.granted /\ up = <<>> /\ down = <<Control(srv.bind)>> \o d /\ srv.bind \in BindTo
      BY <1>1, <1>5 DEF Talk, Granted
    <2>2. d \in Seq(DataMsg)
      BY <1>1, HandshakeAssumption, DataIs DEF SrvType
    <2>3. d \in Seq(S) /\ Control(srv.bind) \in S
      BY <2>2
    <2> HIDE DEF d, S
    <2>4. Tail(down) = d
      BY <2>1, <2>3, HeadCat
    <2> QED
      BY <2>1, <2>4 DEF d
  <1> QED
    BY <1>1, <1>3, <1>4, <1>5, GrantedReply

\* A step keeps question and answer in step with the dial.
LEMMA TalkStep ==
  ASSUME IInv, Next
  PROVE  Talk'
  <1>0. /\ Reach /\ Talk /\ WireTypes /\ srv \in SrvType /\ srv.sent \in Nat
        /\ Reach' /\ Data(0) = <<>>
        /\ proto \in SOCKS5 \cup Lazy \cup UDP
                       \cup {"socks4", "http", "ssh", "relayNoDelay", "ss", "direct"}
    <2>1. srv.sent \in Nat
      BY HandshakeAssumption DEF IInv, Types, SrvType
    <2>2. Data(0) = <<>>
      BY DataIs
    <2> QED
      BY <2>1, <2>2, ReachStep, HandshakeAssumption DEF IInv, Types, DialTypes
  <1>1. CASE Connect
    <2>1. First(proto) \in {"hello", "request", "header", "done"}
      BY <1>0, <1>1, FirstOf DEF Connect, Reach, SOCKS5, Lazy, UDP
    <2>2. at = "connect" /\ at' \in {"hello", "request", "header", "done", "failed"}
          /\ UNCHANGED <<proto, up, down, srv>>
      BY <1>1, <2>1 DEF Connect, Fail, dial, peer
    <2> QED
      BY <1>0, <2>2 DEF Talk, Sends
  <1>2. CASE Send
    <2>1. at' \in {"failed", AfterSend(at)} /\ UNCHANGED <<proto, down, srv>>
      BY <1>2 DEF Send, Fail, dial
    <2>2. at' # "failed" => up' = IF srv.open THEN Append(up, Control(at)) ELSE up
      BY <1>2, <1>0, AfterSendOf DEF Send, Fail, Sends
    <2>3. up = <<>> /\ down = <<>> /\ srv.sent = 0 /\ (srv.granted <=> proto = "direct")
      BY <1>0, <1>2 DEF Talk, Send
    <2>4. ~srv.granted
      BY <1>0, <1>2, <2>3 DEF Send, Sends, Reach, SOCKS5
    <2>5. Append(up, Control(at)) = <<Control(at)>>
      BY <2>3
    <2>6. \/ at' \in {"failed", "done"}
          \/ at = "hello" /\ at' = "method"
          \/ at = "auth" /\ at' = "status"
          \/ at = "request" /\ at' = "reply"
          \/ at = "header" /\ at' = "response"
      BY <1>2, <2>1, AfterSendOf DEF Send, Sends
    <2>7. at' # "failed" =>
            \/ up' = <<Control(at)>>
            \/ up' = <<>> /\ ~srv.open
      BY <2>2, <2>3, <2>5
    <2> QED
      BY <1>0, <2>1, <2>3, <2>4, <2>6, <2>7 DEF Talk, Asking, Sends
  <1>3. CASE Receive
    <2>0. UNCHANGED <<proto, up, srv>> /\ at \in Reads
      BY <1>3 DEF Receive, dial
    <2>1. CASE at' = "failed"
      BY <1>0, <2>0, <2>1 DEF Talk, Sends
    <2>2. CASE at' # "failed"
      <3>1. down # <<>> /\ at' = AfterReply(at, Head(down)[1])
        BY <1>3, <2>2 DEF Receive, Fail
      <3>2. CASE at \in {"method", "status"}
        <4>1. proto # "http" /\ proto # "direct" /\ proto \in SOCKS5 \cup {"ssh"}
          BY <1>0, <3>2 DEF Reach, SOCKS5
        <4>2. down' = Tail(down)
          BY <1>0, <1>3, <3>1, <4>1, OneTaken
        <4>3. up = <<>> /\ ~srv.granted /\ \E r \in Answer : down = <<Control(r)>>
          BY <1>0, <3>1, <3>2 DEF Talk, Asking, Answered
        <4>4. Tail(down) = <<>>
          BY <4>3
        <4>5. at' \in {"auth", "request"}
          <5>1. CASE at = "method"
            BY <2>2, <3>1, <4>1, <5>1, AfterMethod
          <5>2. CASE at = "status"
            BY <1>0, <2>2, <3>1, <5>2, AfterStatus DEF Reach
          <5> QED
            BY <3>2, <5>1, <5>2
        <4>6. proto' # "direct"
          BY <2>0, <4>1
        <4> QED
          BY <1>0, <2>0, <4>1, <4>2, <4>3, <4>4, <4>5 DEF Talk, Sends
      <3>3. CASE at \in {"reply", "response"}
        <4>1. CASE at' = "done"
          BY <1>0, <2>0, <4>1 DEF Talk, Sends
        <4>2. CASE at' # "done"
          <5>1. at = "reply" /\ proto \in SOCKS5 /\ at' = "addr" /\ Head(down)[1] = "granted"
            BY <1>0, <2>2, <3>1, <3>3, <4>2, AfterRequest DEF Reach, SOCKS5
          <5>2. /\ Granted(<<Control("granted")>> \o BindAddr) /\ srv.bind \in BindTo
                /\ Tail(down) = BindAddr \o Data(srv.sent)
            BY <1>3, <3>1, <5>1, ReplyRead
          <5>3. down' = Tail(down)
            BY <1>0, <1>3, <3>1, <5>1, OneTaken DEF SOCKS5
          <5>4. BindAddr = <<Control(srv.bind)>>
            BY <5>1 DEF BindAddr
          <5>5. Granted(<<Control(srv.bind)>>)'
            BY <2>0, <5>2, <5>3, <5>4 DEF Granted
          <5> QED
            BY <1>0, <2>0, <5>1, <5>2, <5>5 DEF Talk, Sends
        <4> QED
          BY <4>1, <4>2
      <3>4. CASE at = "addr"
        <4>1. proto \in SOCKS5 /\ srv.granted /\ up = <<>> /\ Tail(down) = Data(srv.sent)
          BY <1>0, <1>3, <3>1, <3>4, ReplyRead DEF Reach
        <4>2. down' = Tail(down)
          BY <1>0, <1>3, <3>1, <4>1, OneTaken DEF SOCKS5
        <4>3. at' = IF proto = "socks5udp" THEN "listen" ELSE "done"
          BY <2>2, <3>1, <3>4, <4>1, AfterAddr
        <4>4. proto = "socks5udp" => srv.sent = 0
          BY <1>0 DEF Talk, UDP
        <4> QED
          BY <1>0, <2>0, <4>1, <4>2, <4>3, <4>4 DEF Talk, Sends
      <3> QED
        BY <2>0, <3>2, <3>3, <3>4 DEF Reads
    <2> QED
      BY <2>1, <2>2
  <1>4. CASE Listen \/ Bind \/ BindShadowsocks
    <2>1. /\ at \in {"listen", "bind"} /\ at' \in {"bind", "done", "failed"}
          /\ UNCHANGED <<proto, up, down, srv>>
      BY <1>4 DEF Listen, Bind, BindShadowsocks, Fail, dial, peer
    <2> QED
      BY <1>0, <2>1 DEF Talk, Sends
  <1>5. CASE AppWrite \/ AppRead
    <2>1. at = "done" /\ UNCHANGED <<proto, at, srv>>
      BY <1>5 DEF AppWrite, AppRead, dial
    <2> QED
      BY <1>0, <2>1 DEF Talk, Sends
  <1>6. CASE UNCHANGED <<proto, at, up, down, srv>>
    BY <1>0, <1>6 DEF Talk, Asking, Answered, Refused, Granted, BindAddr
  <1>7. CASE SrvRead
    <2>1. srv'.sent = srv.sent /\ (srv.granted => srv'.granted) /\ UNCHANGED <<proto, at>>
      <3>1. CASE IsData(Head(up))
        BY <1>7, <3>1 DEF SrvRead, dial
      <3>2. CASE ~IsData(Head(up))
        <4>1. PICK r, b : srv' = [srv EXCEPT !.granted = @ \/ r \in {"granted", "silent"}, !.bind = b]
          BY <1>7, <3>2 DEF SrvRead
        <4> QED
          BY <1>0, <1>7, <4>1 DEF SrvRead, SrvType, dial
      <3> QED
        BY <3>1, <3>2
    <2>2. up # <<>>
      BY <1>7 DEF SrvRead
    <2>3. CASE at \notin Reads
      BY <1>0, <2>1, <2>2, <2>3 DEF Talk, Sends, Reads
    <2>4. CASE at \in {"method", "status"}
      <3>1. ~srv.granted /\ down = <<>> /\ (up = <<Control("hello")>> \/ up = <<Control("auth")>>)
        BY <1>0, <2>2, <2>4 DEF Talk, Asking, Answered
      <3>2. "hello" \in Sends /\ "auth" \in Sends /\ srv.sent = 0
        BY <1>0, <3>1 DEF Sends, Talk
      <3>3. Answered'
        BY <1>0, <1>7, <3>1, <3>2, AnswerIs
      <3> QED
        BY <1>0, <2>1, <2>4, <3>2, <3>3 DEF Talk, Sends
    <2>5. CASE at = "reply"
      <3>1. ~srv.granted /\ down = <<>> /\ up = <<Control("request")>>
        BY <1>0, <2>2, <2>5 DEF Talk, Asking, Refused, Granted
      <3>2. "request" \in Sends /\ srv.sent = 0
        BY <1>0, <3>1 DEF Sends, Talk
      <3>3. \/ Refused'
            \/ /\ Granted(<<Control("granted")>> \o BindAddr)'
               /\ proto' \in SOCKS5 => srv'.bind \in BindTo
        BY <1>0, <1>7, <3>1, <3>2, AnswerIs
      <3> QED
        BY <1>0, <2>1, <2>5, <3>2, <3>3 DEF Talk, Sends
    <2>6. CASE at = "response"
      <3>1. ~srv.granted /\ down = <<>> /\ up = <<Control("header")>> /\ proto = "relayNoDelay"
        BY <1>0, <2>2, <2>6 DEF Talk, Asking, Refused, Granted, Reach
      <3>2. "header" \in Sends /\ srv.sent = 0
        BY <1>0, <3>1 DEF Sends, Talk
      <3>3. Refused' \/ Granted(<<Control("granted")>>)'
        BY <1>0, <1>7, <3>1, <3>2, AnswerIs DEF SOCKS5
      <3> QED
        BY <1>0, <2>1, <2>6, <3>2, <3>3 DEF Talk, Sends
    <2>7. CASE at = "addr"
      BY <1>0, <2>2, <2>7 DEF Talk, Granted
    <2> QED
      BY <2>3, <2>4, <2>5, <2>6, <2>7 DEF Reads
  <1>8. CASE SrvSend
    <2>1. srv.granted /\ conn = "open" /\ proto \notin UDP
      BY <1>8 DEF SrvSend
    <2>2. at \notin Sends \cup {"connect", "listen", "bind", "method", "status"}
      BY <1>0, <2>1 DEF Talk, Reach, Asking, Answered, Sends, SOCKS5
    <2>3. srv'.granted /\ UNCHANGED <<proto, at, up>> /\ srv'.bind = srv.bind
      BY <1>0, <1>8 DEF SrvSend, SrvType, dial
    <2>4. BindAddr' = BindAddr
      BY <2>3 DEF BindAddr
    <2>5. ASSUME NEW head, head \in Seq({Control("granted"), Control(srv.bind)}), Granted(head)
          PROVE  Granted(head)'
      BY <1>0, <1>8, <2>3, <2>5, GrantedGrows DEF Granted
    <2>6. /\ <<Control("granted")>> \in Seq({Control("granted"), Control(srv.bind)})
          /\ <<Control(srv.bind)>> \in Seq({Control("granted"), Control(srv.bind)})
          /\ BindAddr \in Seq({Control("granted"), Control(srv.bind)})
      <3> DEFINE x == Control("granted")
                 y == Control(srv.bind)
      <3>1. BindAddr = <<y>> \/ BindAddr = <<>>
        BY DEF BindAddr
      <3> HIDE DEF x, y
      <3>2. <<x>> \in Seq({x, y}) /\ <<y>> \in Seq({x, y}) /\ <<>> \in Seq({x, y})
        OBVIOUS
      <3> QED
        BY <3>1, <3>2 DEF x, y
    <2>7. <<Control("granted")>> \o BindAddr \in Seq({Control("granted"), Control(srv.bind)})
      BY <2>6, Cat
    <2> QED
      BY <1>0, <2>1, <2>2, <2>3, <2>4, <2>5, <2>6, <2>7 DEF Talk, Asking, Refused
  <1>9. CASE SrvClose
    <2>1. /\ UNCHANGED <<proto, at, up, down>> /\ ~srv'.open /\ srv'.granted = srv.granted
          /\ srv'.sent = srv.sent /\ srv'.bind = srv.bind
      BY <1>0, <1>9 DEF SrvClose, SrvType, dial
    <2> QED
      BY <1>0, <2>1 DEF Talk, Asking, Answered, Refused, Granted, BindAddr
  <1> QED
    BY <1>1, <1>2, <1>3, <1>4, <1>5, <1>6, <1>7, <1>8, <1>9 DEF Next, Dial, Session, AppClose,
       WriteTo, Alter, ReadFrom, WatchEnds, WatchCloses, peer, dial

-----------------------------------------------------------------------------
(***************************************************************************)
(* The streams of the session.                                             *)
(***************************************************************************)
\* The session begins with nothing read and nothing written.
LEMMA StreamStarts ==
  ASSUME Fresh, at # "done", UNCHANGED <<proto, app>>,
         up' = <<>> \/ (up' = <<Control("header")>> /\ proto = "ss"),
         proto \notin Lazy \cup {"ss", "ssudp"} => srv'.granted,
         proto \in Lazy => up' = <<>> /\ down' = <<>> /\ ~srv'.granted,
         down' \in Seq(Downward),
         proto \notin Lazy =>
           \E k \in 0..srv'.sent : down' = Rest(k, srv'.sent) /\ (proto # "http" => k = 0)
  PROVE  Stream'
  <1>1. app'.read = <<>> /\ app'.header = (proto \in Lazy) /\ app'.once = (proto \notin Lazy)
    BY DEF Fresh
  <1>2. Opened'
    BY <1>1 DEF Opened
  <1>3. HeaderAhead'
    <2>2. "ss" \notin Lazy
      BY DEF Lazy
    <2>3. \A i \in 1..Len(up') : up'[i] = Control("header") /\ proto = "ss"
      <3>1. CASE up' = <<>>
        <4>1. \A i : i \notin 1..Len(up')
          BY <3>1
        <4> QED
          BY <4>1
      <3>2. CASE up' = <<Control("header")>> /\ proto = "ss"
        <4> DEFINE c == Control("header")
        <4>1. up' = <<c>>
          BY <3>2
        <4> HIDE DEF c
        <4>2. \A i \in 1..Len(up') : up'[i] = c
          BY <4>1
        <4> QED
          BY <3>2, <4>2 DEF c
      <3> QED
        BY <3>1, <3>2
    <2>4. app'.header => ~app'.once /\ up' = <<>> /\ down' = <<>> /\ ~srv'.granted
      BY <1>1
    <2> QED
      BY <2>2, <2>3, <2>4, Zenon DEF HeaderAhead
  <1>4. ResponseAhead'
    BY <1>1 DEF ResponseAhead
  <1>5. ReadInOrder'
    <2>1. app'.read \o down' = down'
      BY <1>1, ConcatEmptySeq
    <2> QED
      BY <1>1, <2>1 DEF ReadInOrder
  <1> QED
    BY <1>2, <1>3, <1>4, <1>5 DEF Stream

\* The dial hands the connection over.
LEMMA StreamOpens ==
  ASSUME IInv, Next, at # "done", at' = "done"
  PROVE  Stream'
  <1>0. /\ Reach /\ Fresh /\ Talk /\ WireTypes /\ srv \in SrvType /\ srv.sent \in Nat
        /\ proto \in SOCKS5 \cup Lazy \cup UDP
                       \cup {"socks4", "http", "ssh", "relayNoDelay", "ss", "direct"}
    <2>1. srv.sent \in Nat
      BY HandshakeAssumption DEF IInv, Types, SrvType
    <2> QED
      BY <2>1, HandshakeAssumption DEF IInv, Types, DialTypes
  <1>a. down' \in Seq(Downward)
    BY TypesStep DEF Types, WireTypes
  <1>b. /\ Rest(0, srv.sent) = Data(srv.sent) /\ Rest(0, 0) = <<>>
        /\ \A k \in 1..(srv.sent + 1) :
             SubSeq(<<Control("granted")>> \o Data(srv.sent), k + 1, srv.sent + 1)
               = Rest(k - 1, srv.sent)
    BY <1>0, RestIs
  <1>1. CASE Connect
    <2>1. /\ at = "connect" /\ proto \in Lazy \cup {"direct"}
          /\ UNCHANGED <<proto, app, up, down, srv>>
      <3>1. at = "connect" /\ First(proto) = "done" /\ UNCHANGED <<proto, app, up, down, srv>>
        BY <1>1 DEF Connect, Fail, dial, peer
      <3> QED
        BY <1>0, <3>1, FirstOf DEF Reach, SOCKS5, Lazy, UDP
    <2>2. up = <<>> /\ down = <<>> /\ (srv.granted <=> proto = "direct") /\ srv.sent = 0
      BY <1>0, <2>1 DEF Talk
    <2> QED
      BY <1>0, <1>a, <1>b, <2>1, <2>2, StreamStarts DEF Lazy
  <1>2. CASE Send
    <2>1. at = "header" /\ proto = "ss" /\ UNCHANGED <<proto, app, down, srv>>
      BY <1>2, AfterSendOf DEF Send, Fail, dial, Sends
    <2>2. up = <<>> /\ down = <<>> /\ srv.sent = 0
      BY <1>0, <2>1 DEF Talk, Sends
    <2>3. Append(up, Control("header")) = <<Control("header")>>
      BY <2>2
    <2>4. up' = <<>> \/ up' = <<Control("header")>>
      BY <1>2, <2>1, <2>2, <2>3 DEF Send
    <2> QED
      BY <1>0, <1>a, <1>b, <2>1, <2>2, <2>4, StreamStarts DEF Lazy
  <1>3. CASE Receive
    <2>1. /\ UNCHANGED <<proto, app, up, srv>> /\ at \in Reads
          /\ down # <<>> /\ at' = AfterReply(at, Head(down)[1])
      BY <1>3 DEF Receive, Fail, dial
    <2>2. at \notin {"method", "status"}
      BY <1>0, <2>1, AfterMethod, AfterStatus DEF Reach
    <2>3. /\ srv.granted /\ up = <<>> /\ proto \notin Lazy
          /\ proto # "http" => Tail(down) = Data(srv.sent)
          /\ proto = "http" => down = <<Control("granted")>> \o Data(srv.sent)
      <3>1. CASE at = "addr"
        BY <1>0, <1>3, <2>1, <3>1, ReplyRead DEF Reach, Lazy, SOCKS5
      <3> DEFINE d == Data(srv.sent)
      <3>2. d \in Seq(DataMsg)
        BY <1>0, DataIs
      <3>3. \A y : Tail(<<y>> \o d) = d
        <4>1. TAKE y
        <4> DEFINE S == DataMsg \cup {y}
        <4>2. d \in Seq(S) /\ y \in S
          BY <3>2
        <4> HIDE DEF d, S
        <4> QED
          BY <4>2, HeadCat
      <3>4. CASE at = "reply"
        <4>1. proto \in {"ssh", "socks4", "http"} /\ Head(down)[1] = "granted"
          BY <1>0, <2>1, <3>4, AfterRequest DEF Reach, SOCKS5
        <4>2. proto \notin SOCKS5 /\ proto \notin Lazy
          BY <4>1 DEF SOCKS5, Lazy
        <4>3. down = <<Control("granted")>> \o d /\ srv.granted /\ up = <<>>
          BY <1>3, <2>1, <3>4, <4>1, <4>2, ReplyRead DEF Granted
        <4> HIDE DEF d
        <4>4. Tail(down) = d
          BY <3>3, <4>3
        <4> QED
          BY <4>2, <4>3, <4>4 DEF d
      <3>5. CASE at = "response"
        <4>1. proto = "relayNoDelay" /\ Head(down)[1] = "granted"
          BY <1>0, <2>1, <3>5, AfterRequest DEF Reach
        <4>3. down = <<Control("granted")>> \o d /\ srv.granted /\ up = <<>>
          BY <1>3, <2>1, <3>5, <4>1, ReplyRead
        <4> HIDE DEF d
        <4>4. Tail(down) = d
          BY <3>3, <4>3
        <4> QED
          BY <4>1, <4>3, <4>4 DEF d, Lazy
      <3> QED
        BY <2>1, <2>2, <3>1, <3>4, <3>5 DEF Reads
    <2>4. \E k \in 0..srv.sent : down' = Rest(k, srv.sent) /\ (proto # "http" => k = 0)
      <3>1. CASE proto # "http"
        <4>1. down' = Tail(down)
          BY <1>0, <1>3, <2>1, <3>1, OneTaken
        <4> QED
          BY <1>0, <1>b, <2>3, <3>1, <4>1
      <3>2. CASE proto = "http"
        <4>1. PICK k \in 1..Len(down) : down' = SubSeq(down, k + 1, Len(down))
          BY <1>3, <2>1, <3>2 DEF Receive, Taken
        <4>2. Len(down) = srv.sent + 1
          <5> DEFINE c == <<Control("granted")>>
                     d == Data(srv.sent)
                     S == DataMsg \cup {Control("granted")}
          <5>1. d \in Seq(DataMsg) /\ Len(d) = srv.sent
            BY <1>0, DataIs
          <5>2. c \in Seq(S) /\ d \in Seq(S) /\ Len(c) = 1
            BY <5>1
          <5>3. down = c \o d
            BY <2>3, <3>2
          <5> HIDE DEF c, d, S
          <5>4. Len(c \o d) = Len(c) + Len(d)
            BY <5>2, Cat
          <5> QED
            BY <1>0, <5>1, <5>2, <5>3, <5>4
        <4>3. k \in 1..(srv.sent + 1) /\ k - 1 \in 0..srv.sent
          BY <1>0, <4>2
        <4>4. down' = Rest(k - 1, srv.sent)
          BY <1>b, <2>3, <3>2, <4>1, <4>2, <4>3
        <4> QED
          BY <3>2, <4>3, <4>4
      <3> QED
        BY <3>1, <3>2
    <2> QED
      BY <1>0, <1>a, <2>1, <2>3, <2>4, StreamStarts
  <1>4. CASE Bind \/ BindShadowsocks
    <2>1. at = "bind" /\ UNCHANGED <<proto, app, up, down, srv>> /\ proto \in UDP
      BY <1>4 DEF Bind, BindShadowsocks, Fail, dial, peer, UDP
    <2>2. up = <<>> /\ down = <<>> /\ (proto = "socks5udp" => srv.granted) /\ srv.sent = 0
      BY <1>0, <2>1 DEF Talk
    <2> QED
      BY <1>0, <1>a, <1>b, <2>1, <2>2, StreamStarts DEF Lazy, UDP
  <1>5. CASE Listen
    BY <1>5 DEF Listen, Fail
  <1>6. CASE UNCHANGED at
    BY <1>6
  <1> QED
    BY <1>1, <1>2, <1>3, <1>4, <1>5, <1>6 DEF Next, Dial, Session, AppWrite, AppRead, AppClose,
       WriteTo, Alter, ReadFrom, WatchEnds, WatchCloses, SrvRead, SrvSend, SrvClose

\* The session writes.
LEMMA WriteIs ==
  ASSUME AppWrite, WireTypes, app \in AppType, app.header => up = <<>>
  PROVE  /\ app.written \in Nat /\ app'.written = app.written + 1 /\ app'.header = FALSE
         /\ app'.read = app.read /\ app'.once = app.once /\ app'.error = app.error
         /\ app.header => up' = <<Control("header")>> \o <<<<"data", app.written + 1>>>>
         /\ ~app.header => up' = Append(up, <<"data", app.written + 1>>)
  <1>1. app.written \in Nat
    BY HandshakeAssumption DEF AppType
  <1>2. app' = [app EXCEPT !.written = @ + 1, !.header = FALSE]
    BY DEF AppWrite, HeaderLeft
  <1>3. /\ app'.written = app.written + 1 /\ app'.header = FALSE
        /\ app'.read = app.read /\ app'.once = app.once /\ app'.error = app.error
    BY <1>2 DEF AppType
  <1> DEFINE c == Control("header")
             d == <<"data", app.written + 1>>
  <1>4. up' = up \o (IF app.header THEN <<c>> ELSE <<>>) \o <<d>>
    BY DEF AppWrite
  <1>5. d \in Upward
    BY <1>1 DEF Upward, DataMsg
  <1> HIDE DEF c, d
  <1>6. app.header => up' = <<c>> \o <<d>>
    <2>1. <<>> \o <<c>> = <<c>>
      OBVIOUS
    <2> QED
      BY <1>4, <2>1
  <1>7. ~app.header => up' = Append(up, d)
    <2>1. up \o <<>> = up /\ up \in Seq(Upward)
      BY ConcatEmptySeq DEF WireTypes
    <2>2. Append(up, d) = up \o <<d>>
      BY <1>5, <2>1, AppendIsConcat
    <2> QED
      BY <1>4, <2>1, <2>2
  <1> QED
    BY <1>1, <1>3, <1>6, <1>7 DEF c, d

\* The server reads from a connection that the session uses.
LEMMA DoneRead ==
  ASSUME IInv, SrvRead, at = "done"
  PROVE  /\ up # <<>> /\ up' = Tail(up) /\ got' = Append(got, Head(up))
         /\ srv'.sent = srv.sent /\ srv'.open = srv.open
         /\ UNCHANGED <<dial, at, conn, sock, watch, app, udp>>
         /\ \/ IsData(Head(up)) /\ UNCHANGED <<srv, down>>
            \/ proto = "ss" /\ srv'.granted /\ UNCHANGED down
            \/ /\ proto \in Lazy /\ ~app.once /\ app.read = <<>> /\ srv.sent = 0
               /\ \/ srv'.granted /\ down' = <<Control("granted")>>
                  \/ ~srv'.granted /\ down' = <<Control("refused")>>
  <1>0. /\ Stream /\ Talk /\ WireTypes /\ srv \in SrvType
        /\ up # <<>> /\ up' = Tail(up) /\ got' = Append(got, Head(up))
        /\ UNCHANGED <<dial, at, conn, sock, watch, app, udp>>
    BY DEF IInv, Types, SrvRead
  <1>1. CASE IsData(Head(up))
    BY <1>0, <1>1 DEF SrvRead
  <1>2. CASE ~IsData(Head(up))
    <2>1. 1 \in 1..Len(up) /\ Head(up) = up[1]
      BY <1>0 DEF WireTypes
    <2>2. /\ Head(up) = Control("header") /\ proto \in Lazy \cup {"ss"}
          /\ proto \in Lazy => ~app.once /\ down = <<>> /\ ~srv.granted
      BY <1>0, <1>2, <2>1 DEF Stream, HeaderAhead
    <2>3. PICK r \in Answers("header") : \E b \in Binds(r) :
            /\ srv' = [srv EXCEPT !.granted = @ \/ r \in {"granted", "silent"}, !.bind = b]
            /\ down' = down \o (IF r = "silent" THEN <<>> ELSE <<Control(r)>>)
                            \o (IF b = "none" THEN <<>> ELSE <<Control(b)>>)
      <3>1. Control("header")[1] = "header"
        BY DEF Control
      <3> QED
        BY <1>2, <2>2, <3>1 DEF SrvRead
    <2>4. PICK b \in Binds(r) :
            /\ srv' = [srv EXCEPT !.granted = @ \/ r \in {"granted", "silent"}, !.bind = b]
            /\ down' = down \o (IF r = "silent" THEN <<>> ELSE <<Control(r)>>)
                            \o (IF b = "none" THEN <<>> ELSE <<Control(b)>>)
      BY <2>3
    <2>5. b = "none"
      BY <2>2 DEF Binds, SOCKS5, Lazy
    <2>6. down \o <<>> = down
      BY <1>0, ConcatEmptySeq DEF WireTypes
    <2>7. /\ srv'.granted = (srv.granted \/ r \in {"granted", "silent"})
          /\ srv'.sent = srv.sent /\ srv'.open = srv.open
      BY <1>0, <2>4 DEF SrvType
    <2>8. CASE proto = "ss"
      <3>1. r = "silent"
        BY <2>8, AnswersOf
      <3>2. down' = down
        BY <2>4, <2>5, <2>6, <3>1
      <3> QED
        BY <1>0, <2>7, <2>8, <3>1, <3>2
    <2>9. CASE proto \in Lazy
      <3>1. r \in {"granted", "refused"}
        BY <2>9, AnswersOf DEF Lazy
      <3>2. down' = <<Control(r)>>
        BY <2>2, <2>4, <2>5, <2>9, <3>1
      <3>3. srv.sent = 0 /\ app.read = <<>>
        BY <1>0, <2>2, <2>9 DEF Talk, Stream, ResponseAhead
      <3> QED
        BY <1>0, <2>2, <2>7, <2>9, <3>1, <3>2, <3>3
    <2> QED
      BY <2>2, <2>8, <2>9
  <1> QED
    BY <1>1, <1>2

\* The connection in use stays the stream of the session.
LEMMA StreamGoes ==
  ASSUME IInv, Next, at = "done"
  PROVE  Stream'
  <1>0. /\ Stream /\ Talk /\ WireTypes /\ srv \in SrvType /\ srv.sent \in Nat /\ app \in AppType
        /\ Opened /\ HeaderAhead /\ ResponseAhead /\ ReadInOrder
        /\ up' \in Seq(Upward) /\ down' \in Seq(Downward)
    <2>1. srv.sent \in Nat
      BY HandshakeAssumption DEF IInv, Types, SrvType
    <2> QED
      BY <2>1, TypesStep DEF IInv, Types, WireTypes, Stream
  <1>1. CASE AppWrite
    <2>1. /\ UNCHANGED <<proto, down, srv>> /\ app'.header = FALSE
          /\ app'.read = app.read /\ app'.once = app.once /\ app'.error = app.error
      BY <1>0, <1>1, WriteIs DEF AppWrite, dial, HeaderAhead
    <2>2. Opened' /\ ResponseAhead' /\ ReadInOrder'
      BY <1>0, <2>1 DEF Opened, ResponseAhead, ReadInOrder
    <2>3. HeaderAhead'
      <3> DEFINE c == Control("header")
                 d == <<"data", app.written + 1>>
      <3>1. IsData(d)
        BY DEF IsData
      <3>2. CASE app.header
        <4>1. up' = <<c>> \o <<d>>
          BY <1>0, <1>1, <3>2, WriteIs DEF HeaderAhead
        <4> HIDE DEF c, d
        <4>2. \A i \in 1..Len(up') : up'[i] = d \/ (up'[i] = c /\ i = 1)
          BY <4>1
        <4>3. proto \in Lazy /\ ~app.once /\ down = <<>> /\ ~srv.granted
          BY <1>0, <3>2 DEF Opened, HeaderAhead
        <4> QED
          BY <2>1, <3>1, <4>2, <4>3 DEF HeaderAhead, c
      <3>3. CASE ~app.header
        <4>1. up' = Append(up, d)
          BY <1>0, <1>1, <3>3, WriteIs
        <4>a. app.written \in Nat
          BY <1>0, HandshakeAssumption DEF AppType
        <4>2. d \in Upward
          BY <4>a DEF Upward, DataMsg
        <4> HIDE DEF d
        <4>b. up \in Seq(Upward)
          BY <1>0 DEF WireTypes
        <4>c. /\ Len(up') = Len(up) + 1 /\ up'[Len(up) + 1] = d
              /\ \A i \in 1..Len(up) : up'[i] = up[i]
          BY <4>1, <4>2, <4>b, AppendProperties
        <4>3. \A i \in 1..Len(up') : up'[i] = d \/ (i \in 1..Len(up) /\ up'[i] = up[i])
          BY <4>b, <4>c
        <4> QED
          BY <1>0, <2>1, <3>1, <4>3 DEF HeaderAhead
      <3> QED
        BY <3>2, <3>3
    <2> QED
      BY <2>2, <2>3 DEF Stream
  <1>2. CASE AppRead
    <2>1. UNCHANGED <<proto, up, srv>> /\ down # <<>> /\ down' = Tail(down)
      BY <1>2 DEF AppRead, dial
    <2>2. HeaderAhead' /\ ~app.header
      BY <1>0, <1>2, <2>1 DEF HeaderAhead, AppRead, AppType
    <2>3. CASE app.once
      <3>1. app' = [app EXCEPT !.read = Append(@, Head(down))]
        BY <1>2, <2>3 DEF AppRead
      <3>2. /\ app'.read = Append(app.read, Head(down)) /\ app'.once /\ app'.error = app.error
            /\ app'.header = app.header
        BY <1>0, <2>3, <3>1 DEF AppType
      <3>3. app'.read \o down' = app.read \o down
        <4>1. app.read \in Seq(Downward) /\ down \in Seq(Downward)
          BY <1>0 DEF AppType, WireTypes
        <4>2. Append(app.read, Head(down)) \o Tail(down) = app.read \o down
          BY <2>1, <4>1, MoveHead
        <4> QED
          BY <2>1, <3>2, <4>2
      <3> QED
        BY <1>0, <2>1, <2>2, <2>3, <3>2, <3>3
           DEF Stream, Opened, ResponseAhead, ReadInOrder
    <2>4. CASE ~app.once
      <3>1. app' = [app EXCEPT !.once = TRUE, !.error = ~(Head(down)[1] = "granted")]
        BY <1>2, <2>4 DEF AppRead, RelayGrants
      <3>2. /\ app'.read = <<>> /\ app'.once = TRUE /\ app'.header = app.header
            /\ app'.error = ~(Head(down)[1] = "granted")
        BY <1>0, <2>4, <3>1 DEF AppType, ResponseAhead
      <3>3. \/ down = <<Control("refused")>> /\ ~srv.granted
            \/ srv.granted /\ down = <<Control("granted")>> \o Data(srv.sent)
        BY <1>0, <2>1, <2>4 DEF ResponseAhead
      <3>4. proto \in Lazy
        BY <1>0, <2>4 DEF Opened
      <3>5. (~app'.error => srv.granted) /\ down' = Rest(0, srv.sent)
        <4>1. CASE down = <<Control("refused")>> /\ ~srv.granted
          <5>1. Head(down)[1] = "refused" /\ Tail(down) = <<>>
            BY <4>1 DEF Control
          <5>2. srv.sent = 0
            BY <1>0, <4>1 DEF Talk
          <5>3. Rest(0, 0) = <<>>
            BY <1>0, RestIs
          <5> QED
            BY <2>1, <3>2, <5>1, <5>2, <5>3
        <4>2. CASE srv.granted /\ down = <<Control("granted")>> \o Data(srv.sent)
          <5> DEFINE d == Data(srv.sent)
                     c == Control("granted")
                     S == DataMsg \cup {c}
          <5>1. d \in Seq(DataMsg)
            BY <1>0, DataIs
          <5>2. d \in Seq(S) /\ c \in S /\ down = <<c>> \o d
            BY <4>2, <5>1
          <5> HIDE DEF d, c, S
          <5>3. Tail(down) = d
            BY <5>2, HeadCat
          <5> QED
            BY <1>0, <2>1, <4>2, <5>3, RestIs DEF d
        <4> QED
          BY <3>3, <4>1, <4>2
      <3>6. app'.read \o down' = down'
        BY <1>0, <3>2, ConcatEmptySeq
      <3> QED
        BY <1>0, <2>1, <2>2, <3>2, <3>4, <3>5, <3>6, SMTT(30)
           DEF Stream, Opened, ResponseAhead, ReadInOrder
    <2> QED
      BY <2>3, <2>4
  <1>3. CASE SrvRead
    <2>1. /\ up # <<>> /\ up' = Tail(up) /\ srv'.sent = srv.sent /\ UNCHANGED <<proto, app>>
          /\ \/ IsData(Head(up)) /\ UNCHANGED <<srv, down>>
             \/ proto = "ss" /\ srv'.granted /\ UNCHANGED down
             \/ /\ proto \in Lazy /\ ~app.once /\ app.read = <<>> /\ srv.sent = 0
                /\ \/ srv'.granted /\ down' = <<Control("granted")>>
                   \/ ~srv'.granted /\ down' = <<Control("refused")>>
      BY <1>3, DoneRead DEF dial
    <2>2. \A i \in 1..Len(up') : i + 1 \in 1..Len(up) /\ up'[i] = up[i + 1]
      BY <1>0, <2>1 DEF WireTypes
    <2>3. HeaderAhead'
      <3>1. \A i \in 1..Len(up') : ~IsData(up'[i]) =>
              up'[i] = Control("header") /\ proto = "ss"
        BY <1>0, <2>2 DEF HeaderAhead
      <3>2. ~app.header
        BY <1>0, <2>1 DEF HeaderAhead
      <3>3. "ss" \notin Lazy
        BY DEF Lazy
      <3> QED
        BY <2>1, <3>1, <3>2, <3>3 DEF HeaderAhead
    <2>4. CASE IsData(Head(up)) /\ UNCHANGED <<srv, down>>
      BY <1>0, <2>1, <2>3, <2>4 DEF Stream, Opened, ResponseAhead, ReadInOrder
    <2>5. CASE proto = "ss" /\ srv'.granted /\ UNCHANGED down
      <3>1. app.once
        BY <1>0, <2>5 DEF Opened, Lazy
      <3> QED
        BY <1>0, <2>1, <2>3, <2>5, <3>1 DEF Stream, Opened, ResponseAhead, ReadInOrder
    <2>6. CASE /\ proto \in Lazy /\ ~app.once /\ app.read = <<>> /\ srv.sent = 0
               /\ \/ srv'.granted /\ down' = <<Control("granted")>>
                  \/ ~srv'.granted /\ down' = <<Control("refused")>>
      <3>1. Data(srv'.sent) = <<>>
        BY <2>1, <2>6, DataIs
      <3>2. <<Control("granted")>> \o <<>> = <<Control("granted")>>
        OBVIOUS
      <3> QED
        BY <2>1, <2>3, <2>6, <3>1, <3>2 DEF Stream, Opened, ResponseAhead, ReadInOrder
    <2> QED
      BY <2>1, <2>4, <2>5, <2>6
  <1>4. CASE SrvSend
    <2>1. /\ UNCHANGED <<proto, at, up, app>> /\ srv.granted /\ srv'.granted
          /\ srv'.sent = srv.sent + 1 /\ down' = Append(down, <<"data", srv.sent + 1>>)
      BY <1>0, <1>4 DEF SrvSend, SrvType, dial
    <2>2. Opened'
      BY <1>0, <2>1 DEF Opened
    <2>3. HeaderAhead'
      BY <1>0, <2>1 DEF HeaderAhead
    <2>4. ResponseAhead'
      <3>1. CASE ~app.once
        <4> DEFINE c == Control("granted")
        <4>1. down = <<c>> \o Data(srv.sent) /\ app.read = <<>>
          BY <1>0, <2>1, <3>1 DEF ResponseAhead
        <4>2. <<c>> \in Seq({c})
          OBVIOUS
        <4> HIDE DEF c
        <4>3. down' = <<c>> \o Data(srv'.sent)
          BY <1>0, <1>4, <4>1, <4>2, GrantedGrows
        <4> QED
          BY <2>1, <4>1, <4>3 DEF ResponseAhead, c
      <3>2. CASE app.once
        BY <2>1, <3>2 DEF ResponseAhead
      <3> QED
        BY <3>1, <3>2
    <2>5. ReadInOrder'
      <3> SUFFICES ASSUME app.once PROVE ReadInOrder'
        BY <2>1 DEF ReadInOrder
      <3>1. PICK k \in 0..srv.sent :
              app.read \o down = Rest(k, srv.sent) /\ (proto # "http" => k = 0)
        BY <1>0 DEF ReadInOrder
      <3> DEFINE m == <<"data", srv.sent + 1>>
                 w == Append(down, m)
                 r == app.read
      <3>2. r \in Seq(Downward) /\ down \in Seq(Downward) /\ m \in Downward
        BY <1>0 DEF AppType, WireTypes, Downward, DataMsg
      <3>3. w = Append(down, m) /\ down' = w
        BY <2>1
      <3>4. Append(Rest(k, srv.sent), m) = Rest(k, srv.sent + 1)
        BY <1>0, RestGrows
      <3>5. Append(r \o down, m) = Append(Rest(k, srv.sent), m)
        BY <3>1
      <3> HIDE DEF m, w, r
      <3>6. Append(r \o down, m) = r \o w
        BY <3>2, <3>3, AppendCat, ZenonT(30)
      <3>7. k \in 0..(srv.sent + 1)
        BY <1>0
      <3>8. r \o down' = Rest(k, srv'.sent)
        BY <2>1, <3>3, <3>4, <3>5, <3>6
      <3> QED
        BY <2>1, <3>1, <3>7, <3>8 DEF ReadInOrder, r
    <2> QED
      BY <2>2, <2>3, <2>4, <2>5 DEF Stream
  <1>5. CASE /\ UNCHANGED <<proto, at, up, down, app>>
             /\ srv'.granted = srv.granted /\ srv'.sent = srv.sent
    BY <1>0, <1>5 DEF Stream, Opened, HeaderAhead, ResponseAhead, ReadInOrder
  <1>6. SrvClose => srv'.granted = srv.granted /\ srv'.sent = srv.sent
    BY <1>0 DEF SrvClose, SrvType
  <1> QED
    BY <1>1, <1>2, <1>3, <1>4, <1>5, <1>6 DEF Next, Dial, Session, Connect, Send, Receive, Listen,
       Bind, BindShadowsocks, AppClose, WriteTo, Alter, ReadFrom, WatchEnds, WatchCloses,
       SrvClose, peer, dial, Sends, Reads

\* A step keeps the streams.
LEMMA StreamStep ==
  ASSUME IInv, Next
  PROVE  Stream'
  <1>1. CASE at = "done"
    BY <1>1, StreamGoes
  <1>2. CASE at # "done" /\ at' = "done"
    BY <1>2, StreamOpens
  <1>3. CASE at' # "done"
    BY <1>3 DEF Stream
  <1> QED
    BY <1>1, <1>2, <1>3

-----------------------------------------------------------------------------
(***************************************************************************)
(* What the server finds.                                                  *)
(***************************************************************************)
\* A step that writes nothing keeps it.
LEMMA WireKept ==
  ASSUME NEW h, WireIs(h), got' \o up' = got \o up,
         app'.written = app.written, app'.header = app.header, proto' = proto,
         ToSay' \subseteq ToSay,
         at' \in Said /\ proto \notin {"direct", "ssudp"} /\ ~app.header => at \in Said
  PROVE  WireIs(h)'
  BY DEF WireIs

LEMMA ToSayOf ==
  /\ at \in Sends => at \in ToSay
  /\ at' = "failed" \/ at' \in Said => ToSay' = {}
  /\ at = "connect" => ToSay = Sends
  BY DEF ToSay, Said, Sends

\* The dial says a message it has not said before.
LEMMA WireSend ==
  ASSUME IInv, Send, NEW h \in Seq(Asks), WireIs(h), at' # "failed", srv.open
  PROVE  \E g \in Seq(Asks) : WireIs(g)'
  <1>0. /\ Reach /\ Fresh /\ up \in Seq(Upward) /\ got \in Seq(Upward) /\ at \in Sends
        /\ app.written = 0 /\ app'.written = 0 /\ Data(0) = <<>>
    <2>1. at \in Sends /\ app' = app
      BY DEF Send
    <2>2. at # "done"
      BY <2>1 DEF Sends
    <2> QED
      BY <2>1, <2>2, DataIs DEF IInv, Types, WireTypes, Fresh
  <1> DEFINE c == Control(at)
             w == Append(up, c)
  <1>g. PICK g : g = Append(h, c)
    OBVIOUS
  <1>1. c \in Asks /\ c \in Upward /\ c[1] = at
    BY <1>0 DEF Control, Asks, Upward
  <1>2. up' = w /\ got' = got /\ at' = AfterSend(at) /\ proto' = proto /\ app' = app
    BY DEF Send, Fail, dial
  <1>3. got \o up = h
    BY <1>0, ConcatEmptySeq DEF WireIs
  <1>a. w = Append(up, c) /\ g = Append(h, c)
    BY <1>g
  <1> HIDE DEF c, w
  <1>b. Append(got \o up, c) = got \o w
    BY <1>0, <1>1, <1>a, AppendCat, ZenonT(30)
  <1>4. got' \o up' = g
    BY <1>2, <1>3, <1>a, <1>b
  <1>5. /\ g \in Seq(Asks) /\ Len(g) = Len(h) + 1 /\ g[Len(h) + 1] = c
        /\ \A i \in 1..Len(h) : g[i] = h[i]
    BY <1>1, <1>a, AppendProperties
  <1>6. g \o <<>> = g
    BY <1>5, ConcatEmptySeq
  <1>c. Len(h) \in Nat
    OBVIOUS
  <1>7. \A i \in 1..Len(h) : h[i] # c
    BY <1>0, <1>1, ToSayOf DEF WireIs
  <1>8. \A i \in 1..Len(g) : i = Len(h) + 1 \/ i \in 1..Len(h)
    BY <1>5, <1>c
  <1>9. \A i, j \in 1..Len(g) : g[i] = g[j] => i = j
    BY <1>5, <1>7, <1>8, SMTT(30) DEF WireIs
  <1>10. ToSay' \subseteq ToSay \ {at}
    <2>1. CASE at = "hello"
      <3>1. at' = "method"
        BY <1>2, <2>1, AfterSendOf
      <3> QED
        BY <2>1, <3>1 DEF ToSay, Sends
    <2>2. CASE at = "auth"
      <3>1. at' = "status"
        BY <1>2, <2>2, AfterSendOf
      <3> QED
        BY <2>2, <3>1 DEF ToSay
    <2>3. CASE at \in {"request", "header"}
      <3>1. at' \in Said
        BY <1>2, <2>3, AfterSendOf DEF Said
      <3> QED
        BY <3>1, ToSayOf
    <2> QED
      BY <1>0, <2>1, <2>2, <2>3 DEF Sends
  <1>11. \A i \in 1..Len(g) : g[i][1] \notin ToSay'
    BY <1>1, <1>5, <1>8, <1>10 DEF WireIs
  <1>12. ~app.header
    BY <1>0 DEF Reach, Fresh, Lazy, Sends, SOCKS5
  <1>13. at' \in Said => c \in {Control("request"), Control("header")}
    <2>1. at' \in Said => at \in {"request", "header"}
      BY <1>0, <1>2, AfterSendOf DEF Said, Sends
    <2> QED
      BY <2>1 DEF c
  <1>14. g # <<>> /\ Len(g) = Len(h) + 1 /\ g[Len(g)] = c
    BY <1>5, <1>c, EmptySeq
  <1>15. got' \o up' = g \o Data(app'.written)
    BY <1>0, <1>4, <1>6
  <1>16. app'.header => g = <<>> /\ app'.written = 0
    BY <1>2, <1>12
  <1>17. at' \in Said => g # <<>> /\ g[Len(g)] \in {Control("request"), Control("header")}
    BY <1>13, <1>14
  <1>18. WireIs(g)'
    BY <1>9, <1>11, <1>15, <1>16, <1>17 DEF WireIs
  <1> QED
    BY <1>5, <1>18

\* The session writes behind what was said, or says it with its first data.
LEMMA WireWrite ==
  ASSUME IInv, AppWrite, NEW h \in Seq(Asks), WireIs(h)
  PROVE  \E g \in Seq(Asks) : WireIs(g)'
  <1>0. /\ at = "done" /\ at' = "done" /\ proto' = proto /\ got' = got
        /\ up \in Seq(Upward) /\ got \in Seq(Upward) /\ app.written \in Nat
        /\ app'.header = FALSE /\ app'.written = app.written + 1
        /\ app.header => up' = <<Control("header")>> \o <<<<"data", app.written + 1>>>>
        /\ ~app.header => up' = Append(up, <<"data", app.written + 1>>)
        /\ app.header => up = <<>>
    <2>1. at = "done" /\ at' = "done" /\ proto' = proto /\ got' = got
      BY DEF AppWrite, dial
    <2>2. app.header => up = <<>>
      BY <2>1 DEF IInv, Stream, HeaderAhead
    <2> QED
      BY <2>1, <2>2, WriteIs DEF IInv, Types, WireTypes
  <1>a. ToSay' = {}
    BY <1>0, ToSayOf DEF Said
  <1>b. /\ Data(0) = <<>>
        /\ Append(Data(app.written), <<"data", app.written + 1>>) = Data(app.written + 1)
        /\ Data(app.written) \in Seq(DataMsg)
    BY <1>0, DataIs
  <1> DEFINE d == <<"data", app.written + 1>>
             c == Control("header")
  <1>1. CASE app.header
    <2>1. h = <<>> /\ app.written = 0 /\ up = <<>>
      BY <1>0, <1>1 DEF WireIs
    <2>2. got \o <<>> = <<>>
      <3>1. <<>> \o <<>> = <<>>
        OBVIOUS
      <3> QED
        BY <1>b, <2>1, <3>1 DEF WireIs
    <2>3. got = <<>>
      BY <1>0, <2>2, ConcatEmptySeq
    <2>4. Append(<<>>, d) = <<d>>
      OBVIOUS
    <2>5. Data(1) = <<d>>
      <3>1. app.written + 1 = 1
        BY <2>1
      <3> QED
        BY <1>b, <2>1, <2>4, <3>1
    <2>6. <<>> \o up' = up'
      <3>1. up' \in Seq(Upward)
        BY TypesStep DEF Types, WireTypes, Next, Session
      <3> QED
        BY <3>1, ConcatEmptySeq
    <2>7. c \in Asks
      BY DEF Control, Asks, Sends
    <2> DEFINE g == <<c>>
    <2>8. got' \o up' = g \o Data(app'.written)
      <3>1. app'.written = 1
        BY <1>0, <2>1
      <3>2. up' = <<c>> \o <<d>>
        BY <1>0, <1>1
      <3> HIDE DEF c, d
      <3> QED
        BY <1>0, <2>3, <2>5, <2>6, <3>1, <3>2
    <2> HIDE DEF c
    <2>9. g \in Seq(Asks) /\ Len(g) = 1 /\ g[1] = c /\ g # <<>>
      BY <2>7
    <2> HIDE DEF g
    <2>10. g[Len(g)] \in {Control("request"), Control("header")}
      BY <2>9 DEF c
    <2>11. /\ \A i, j \in 1..Len(g) : g[i] = g[j] => i = j
           /\ \A i \in 1..Len(g) : g[i][1] \notin ToSay'
      BY <1>a, <2>9
    <2> QED
      BY <1>0, <2>8, <2>9, <2>10, <2>11 DEF WireIs
  <1>2. CASE ~app.header
    <2> DEFINE S == Upward \cup DataMsg
               w == Append(up, d)
               e == Data(app.written)
               f == Append(e, d)
    <2>1. /\ got \in Seq(S) /\ up \in Seq(S) /\ e \in Seq(S) /\ d \in S /\ h \in Seq(S)
          /\ w = Append(up, d) /\ f = Append(e, d)
      BY <1>0, <1>b, SMTT(30) DEF Upward, DataMsg
    <2>2. got \o up = h \o e
      BY DEF WireIs
    <2>3. up' = w
      BY <1>0, <1>2
    <2>4. f = Data(app'.written)
      BY <1>0, <1>b
    <2> HIDE DEF S, w, e, f, d
    <2>5. Append(got \o up, d) = got \o w
      BY <2>1, AppendCat, ZenonT(30)
    <2>6. Append(h \o e, d) = h \o f
      BY <2>1, AppendCat, ZenonT(30)
    <2>7. got' \o up' = h \o Data(app'.written)
      BY <1>0, <2>2, <2>3, <2>4, <2>5, <2>6
    <2> QED
      BY <1>0, <1>2, <1>a, <2>7 DEF WireIs
  <1> QED
    BY <1>1, <1>2

\* A step keeps what the server finds.
LEMMA WireStep ==
  ASSUME IInv, Next
  PROVE  Wire'
  <1> SUFFICES ASSUME srv'.open PROVE \E g \in Seq(Asks) : WireIs(g)'
    BY DEF Wire
  <1>0. Reach /\ Fresh /\ Talk /\ WireTypes /\ srv \in SrvType /\ app \in AppType
    BY DEF IInv, Types
  <1>a. srv.open
    <2>1. CASE SrvRead
      <3>1. srv.open
        BY <2>1 DEF SrvRead
      <3> QED
        BY <3>1
    <2>2. CASE SrvSend \/ AppWrite \/ SrvClose
      BY <2>2 DEF SrvSend, AppWrite, SrvClose
    <2>3. CASE srv' = srv
      BY <2>3
    <2> QED
      BY <2>1, <2>2, <2>3 DEF Next, Dial, Session, Connect, Send, Receive, Listen, Bind,
         BindShadowsocks, AppRead, AppClose, WriteTo, Alter, ReadFrom, WatchEnds, WatchCloses, peer
  <1>b. PICK h \in Seq(Asks) : WireIs(h)
    BY <1>a DEF IInv, Wire
  <1>1. CASE Send /\ at' # "failed"
    BY <1>1, <1>a, <1>b, WireSend
  <1>2. CASE AppWrite
    BY <1>2, <1>b, WireWrite
  <1>3. CASE SrvRead
    <2>1. UNCHANGED <<proto, at, app>>
      BY <1>3 DEF SrvRead, dial
    <2>2. got' \o up' = got \o up
      <3>1. up # <<>> /\ got' = Append(got, Head(up)) /\ up' = Tail(up)
        BY <1>3 DEF SrvRead
      <3>2. Append(got, Head(up)) \o Tail(up) = got \o up
        BY <1>0, <3>1, MoveHead DEF WireTypes
      <3> QED
        BY <3>1, <3>2
    <2>3. ToSay' = ToSay
      BY <2>1 DEF ToSay
    <2> QED
      BY <1>b, <2>1, <2>2, <2>3, WireKept
  <1>4. CASE /\ UNCHANGED <<proto, got, up>>
             /\ app'.written = app.written /\ app'.header = app.header
             /\ \/ at' = at \/ at' = "failed"
                \/ at \in Said /\ at' \in Said
                \/ at = "connect" /\ (at' \in Said => proto \in Lazy \cup {"direct"})
                \/ at = "method" /\ at' \in {"auth", "request"}
                \/ at = "status" /\ at' = "request"
    <2>1. ToSay' \subseteq ToSay
      BY <1>4 DEF ToSay, Said, Sends
    <2>2. at' \in Said /\ proto \notin {"direct", "ssudp"} /\ ~app.header => at \in Said
      BY <1>0, <1>4 DEF Said, Fresh
    <2> QED
      BY <1>4, <1>b, <2>1, <2>2, WireKept
  <1>5. CASE Connect
    <2>1. at' \in Said => at' = "done" /\ proto \in Lazy \cup {"direct"}
      BY <1>0, <1>5, FirstOf, HandshakeAssumption
         DEF Connect, Fail, Said, Reach, SOCKS5, Lazy, UDP, IInv, Types, DialTypes
    <2> QED
      BY <1>4, <1>5, <2>1 DEF Connect, dial, peer
  <1>6. CASE Send /\ at' = "failed"
    <2>1. up' = up
      BY <1>6, AfterSendOf DEF Send, Sends
    <2> QED
      BY <1>4, <1>6, <2>1 DEF Send, dial
  <1>7. CASE Receive
    <2>1. at \in Reads /\ (at' = "failed" \/ at' = AfterReply(at, Head(down)[1]))
      BY <1>7 DEF Receive, Fail
    <2>2. \/ at' = "failed"
          \/ at \in Said /\ at' \in Said
          \/ at = "method" /\ at' \in {"auth", "request"}
          \/ at = "status" /\ at' = "request"
      BY <1>0, <2>1, AfterMethod, AfterStatus, AfterRequest, AfterAddr
         DEF Reads, Reach, Said, SOCKS5
    <2> QED
      BY <1>4, <1>7, <2>2 DEF Receive, dial
  <1>8. CASE Listen \/ Bind \/ BindShadowsocks
    BY <1>4, <1>8 DEF Listen, Bind, BindShadowsocks, Fail, dial, peer, Said
  <1>9. CASE AppRead
    <2>1. app'.written = app.written /\ app'.header = app.header
      BY <1>0, <1>9 DEF AppRead, AppType
    <2> QED
      BY <1>4, <1>9, <2>1 DEF AppRead, dial
  <1>10. CASE UNCHANGED <<proto, at, up, got, app>>
    BY <1>4, <1>10
  <1> QED
    BY <1>1, <1>2, <1>3, <1>5, <1>6, <1>7, <1>8, <1>9, <1>10 DEF Next, Dial, Session, AppClose,
       WriteTo, Alter, ReadFrom, WatchEnds, WatchCloses, SrvSend, SrvClose, peer, dial

-----------------------------------------------------------------------------
(***************************************************************************)
(* The datagrams.                                                          *)
(***************************************************************************)
\* An address is split off a sequence that begins with it as long as it is.
LEMMA SplitDest ==
  ASSUME dest \in Dests, NEW x \in Seq(Byte), Len(DestAddr) <= Len(x), x[1] = DestAddr[1]
  PROVE  Len(SplitAddr(x)) = Len(DestAddr)
  <1>1. Len(DestAddr) \in {7, 19} /\ Len(x) \in Nat
    BY DestAddrIs
  <1>2. Len(x) > 0
    BY <1>1
  <1>3. AddrLen(x) = Len(DestAddr)
    BY <1>2, DestAddrIs, AddrLenOf
  <1>4. AddrLen(x) \in 1..Len(x)
    BY <1>1, <1>3
  <1> QED
    BY <1>3, <1>4, SplitAddrType

\* What is decoded from a datagram that holds its header is the header, unless it
\* is marked as a fragment.
LEMMA DecodedIs ==
  ASSUME dest \in Dests, NEW p \in Payloads, NEW b \in Seq(Byte), NEW n \in 1..Len(b),
         proto \in UDP, n >= HeadLen,
         \A i \in 1..n : b[i] = Packet(DestAddr, p)[i] \/ (proto = "socks5udp" /\ i = 3 /\ b[i] = 1),
         IsUDPAddr(Addressed(b, n))
  PROVE  Len(Addressed(b, n)) = Len(DestAddr)
  <1> DEFINE q == Packet(DestAddr, p)
             a == DestAddr
             la == Len(a)
  <1>1. /\ a \in Seq(Byte) /\ la \in {7, 19} /\ HeadLen = 3 - Skip + la
        /\ \A i \in 1..la : q[3 - Skip + i] = a[i]
    BY DestAddrIs, PacketIs
  <1>2. \A i \in 1..n : b[i] = q[i] \/ (proto = "socks5udp" /\ i = 3 /\ b[i] = 1)
    OBVIOUS
  <1> HIDE DEF q, la
  <1>3. CASE proto = "ssudp"
    <2>1. Skip = 3 /\ HeadLen = la /\ 3 - Skip + 1 = 1
      BY <1>1, <1>3 DEF Skip
    <2> DEFINE x == SubSeq(b, 1, n)
    <2>2. x \in Seq(Byte) /\ Len(x) = n /\ x[1] = b[1]
      OBVIOUS
    <2>3. 1 \in 1..n /\ 1 \in 1..la
      BY <1>1
    <2>4. b[1] = q[1] /\ q[1] = a[1]
      BY <1>1, <1>2, <1>3, <2>1, <2>3
    <2>5. Addressed(b, n) = SplitAddr(x)
      BY <1>3 DEF Addressed
    <2> HIDE DEF x
    <2>6. Len(DestAddr) <= Len(x)
      BY <1>1, <2>1, <2>2 DEF la
    <2> QED
      BY <2>2, <2>4, <2>5, <2>6, SplitDest
  <1>4. CASE proto = "socks5udp"
    <2>1. Skip = 0 /\ HeadLen = 3 + la /\ 3 - Skip + 1 = 4
      BY <1>1, <1>4 DEF Skip
    <2>2. Addressed(b, n) = DecodeUDPPacket(b)
      BY <1>4 DEF Addressed
    <2> DEFINE x == SubSeq(b, 4, Len(b))
    <2>3. Addressed(b, n) = SplitAddr(x)
      <3>1. ~IsUDPAddr(<<>>)
        BY DEF IsUDPAddr, Valid
      <3> QED
        BY <2>2, <3>1 DEF DecodeUDPPacket
    <2>4. Len(b) \in Nat /\ n <= Len(b) /\ n >= 3 + la
      BY <2>1
    <2>5. x \in Seq(Byte) /\ Len(x) = Len(b) - 3 /\ x[1] = b[4]
      BY <1>1, <2>4
    <2>6. 4 \in 1..n /\ 1 \in 1..la
      BY <1>1, <2>4
    <2>7. b[4] = q[4] /\ q[4] = a[1]
      BY <1>1, <1>2, <2>1, <2>6
    <2> HIDE DEF x
    <2>8. Len(DestAddr) <= Len(x)
      BY <1>1, <2>4, <2>5 DEF la
    <2> QED
      BY <2>3, <2>5, <2>7, <2>8, SplitDest
  <1> QED
    BY <1>3, <1>4 DEF UDP

\* ReadFrom delivers the payload of the datagram and nothing else.
LEMMA ReadFromIs ==
  ASSUME IInv, ReadFrom
  PROVE  Datagram'
  <1> DEFINE n == Len(udp.packet)
             b == udp.packet \o SubSeq(udp.buf, n + 1, BufferSize)
             a == Addressed(b, n)
             h == 3 - Skip + Len(a)
             m == IF IsUDPAddr(a) THEN Moved(b, h) ELSE b
             p == udp.payload
             q == Packet(DestAddr, p)
  <1>0. /\ Types /\ Datagram /\ udp \in UDPType /\ dest \in Dests /\ udp.packet # <<>>
        /\ proto' = proto /\ dest' = dest
    BY DEF IInv, Types, DialTypes, UDPTypes, ReadFrom, dial
  <1>1. /\ p \in Payloads /\ proto \in UDP /\ p \in Seq(Byte)
        /\ n <= Len(q)
        /\ \A i \in 1..n : udp.packet[i] = q[i] \/ (proto = "socks5udp" /\ i = 3 /\ udp.packet[i] = 1)
    BY <1>0, HandshakeAssumption DEF Datagram, Prefixes
  <1>2. b \in Seq(Byte) /\ n \in 1..Len(b) /\ \A i \in 1..n : b[i] = udp.packet[i]
    BY <1>0, Received
  <1>3. udp' = [udp EXCEPT !.packet = <<>>, !.short = n < HeadLen,
                           !.ok = IsUDPAddr(a), !.n = n - h, !.buf = m]
    BY DEF ReadFrom
  <1>a. HeadLen \in 7..MaxHeader /\ HeadLen = 3 - Skip + Len(DestAddr) /\ Len(q) = HeadLen + Len(p)
        /\ \A i \in 1..Len(p) : q[HeadLen + i] = p[i]
    BY <1>0, <1>1, PacketIs
  <1>b. (proto = "ssudp" => Skip = 3) /\ (proto = "socks5udp" => Skip = 0) /\ Skip \in {0, 3}
    BY DEF Skip
  <1> HIDE DEF n, b, q
  <1>c. \A i \in 1..n : b[i] = q[i] \/ (proto = "socks5udp" /\ i = 3 /\ b[i] = 1)
    BY <1>1, <1>2
  <1>4. a \in Seq(Byte) /\ Len(a) \in Nat
    BY <1>2, AddressedType
  <1>5. n >= HeadLen /\ IsUDPAddr(a) => Len(a) = Len(DestAddr)
    BY <1>0, <1>1, <1>2, <1>c, DecodedIs DEF q
  <1>6. proto = "ssudp" => Len(a) <= n
    <2> SUFFICES ASSUME proto = "ssudp" PROVE Len(a) <= n
      OBVIOUS
    <2>1. SubSeq(b, 1, n) \in Seq(Byte) /\ Len(SubSeq(b, 1, n)) = n
      BY <1>2
    <2>2. a = SplitAddr(SubSeq(b, 1, n))
      BY DEF Addressed
    <2> QED
      BY <2>1, <2>2, SplitAddrType
  <1>7. /\ udp'.packet = <<>> /\ udp'.short = (n < HeadLen) /\ udp'.ok = IsUDPAddr(a)
        /\ udp'.n = n - h /\ udp'.buf = m /\ udp'.payload = p
    BY <1>0, <1>3 DEF UDPType
  <1> HIDE DEF a
  <1>8. n >= HeadLen /\ IsUDPAddr(a) => h = HeadLen
    BY <1>5, <1>a
  <1>d. h \in Nat /\ n \in Nat /\ HeadLen \in Nat /\ (proto = "ssudp" => h <= n)
    <2>1. HeadLen \in Nat
      <3>1. HeadLen \in 7..MaxHeader
        BY <1>a
      <3> QED
        BY <3>1 DEF MaxHeader
    <2> QED
      BY <1>2, <1>4, <1>6, <1>b, <2>1
  <1> HIDE DEF h
  <1>9. udp'.ok => udp'.n >= 0 \/ (proto' = "socks5udp" /\ udp'.short)
    <2>1. CASE proto = "ssudp"
      BY <1>7, <1>d, <2>1
    <2>2. CASE proto = "socks5udp" /\ n < HeadLen
      BY <1>0, <1>7, <2>2
    <2>3. CASE n >= HeadLen
      BY <1>7, <1>8, <1>d, <2>3
    <2> QED
      BY <1>1, <1>d, <2>1, <2>2, <2>3 DEF UDP
  <1>10. ASSUME udp'.ok, ~udp'.short
         PROVE  udp'.n <= Len(p) /\ SubSeq(udp'.buf, 1, udp'.n) = SubSeq(p, 1, udp'.n)
    <2> DEFINE k == n - HeadLen
               lp == Len(p)
               lb == Len(b)
    <2>a. IsUDPAddr(a) /\ ~(n < HeadLen)
      BY <1>7, <1>10
    <2>b. n >= HeadLen
      BY <1>d, <2>a
    <2>1. IsUDPAddr(a) /\ n >= HeadLen /\ h = HeadLen
      BY <1>8, <2>a, <2>b
    <2>2. lp \in Nat /\ lb \in Nat /\ n <= lb
      BY <1>1, <1>2
    <2>3. n <= HeadLen + lp
      BY <1>1, <1>a DEF q
    <2> HIDE DEF lp, lb
    <2>4. k \in 0..lp /\ k <= lb
      BY <1>d, <2>1, <2>2, <2>3
    <2>5. m = Moved(b, HeadLen)
      BY <2>1
    <2>6. m \in Seq(Byte) /\ Len(m) = lb
      BY <1>2, <1>d, <2>5, MovedType DEF lb
    <2>7. \A i \in 1..k : m[i] = b[HeadLen + i]
      BY <1>d, <2>2, <2>4, <2>5 DEF Moved, lb
    <2>8. HeadLen >= 7
      BY <1>a
    <2>9. ASSUME NEW i \in 1..k
          PROVE  HeadLen + i \in 1..n /\ HeadLen + i # 3 /\ i \in 1..lp
      <3>1. n \in Nat /\ HeadLen \in Nat /\ lp \in Nat
        BY <1>d, <2>2
      <3> DEFINE hl == HeadLen
      <3>2. hl \in Nat /\ hl >= 7 /\ i \in 1..(n - hl) /\ n - hl <= lp
        BY <2>4, <2>8, <3>1
      <3> HIDE DEF hl
      <3>3. hl + i \in 1..n /\ hl + i # 3 /\ i \in 1..lp
        BY <3>1, <3>2
      <3> QED
        BY <3>3 DEF hl
    <2>10. \A i \in 1..k : m[i] = p[i]
      BY <1>a, <1>c, <2>7, <2>9 DEF lp
    <2>11. SubSeq(m, 1, k) = SubSeq(p, 1, k)
      <3> HIDE DEF k, m
      <3> DEFINE x == SubSeq(m, 1, k)
                 y == SubSeq(p, 1, k)
      <3>1. /\ x \in Seq(Byte) /\ Len(x) = k
            /\ \A i \in 1..k : x[i] = m[i]
        BY <2>2, <2>4, <2>6
      <3>2. /\ y \in Seq(Byte) /\ Len(y) = k
            /\ \A i \in 1..k : y[i] = p[i]
        BY <1>1, <2>2, <2>4 DEF lp
      <3> HIDE DEF x, y
      <3>3. x = y
        BY <2>10, <3>1, <3>2, SeqEqual
      <3> QED
        BY <3>3 DEF x, y
    <2> QED
      BY <1>7, <2>1, <2>4, <2>11 DEF lp
  <1> QED
    BY <1>7, <1>9, <1>10 DEF Datagram, DatagramIntact

\* A step keeps the datagrams.
LEMMA DatagramStep ==
  ASSUME IInv, Next
  PROVE  Datagram'
  <1>0. Datagram /\ udp \in UDPType /\ dest \in Dests /\ Reach
    BY DEF IInv, Types, DialTypes, UDPTypes
  <1>1. CASE WriteTo
    <2>1. PICK p \in Payloads : udp' = [udp EXCEPT !.packet = Packet(DestAddr, p),
                                          !.payload = p, !.left = @ - 1, !.ok = FALSE]
      BY <1>1 DEF WriteTo
    <2>2. udp'.packet = Packet(DestAddr, p) /\ udp'.payload = p /\ udp'.ok = FALSE
      BY <1>0, <2>1 DEF UDPType
    <2>3. proto' = proto /\ dest' = dest /\ proto \in UDP
      BY <1>0, <1>1 DEF WriteTo, dial, Reach
    <2>4. Packet(DestAddr, p)' = Packet(DestAddr, p)
      BY <2>3 DEF Packet, DestAddr, Skip
    <2>5. Packet(DestAddr, p) \in Seq(Byte)
      BY <1>0, PacketIs
    <2>6. Len(udp'.packet) <= Len(udp'.packet)
      BY <2>2, <2>5
    <2>7. Prefixes(udp.packet, Packet(DestAddr, udp.payload))'
      BY <2>2, <2>3, <2>4, <2>6 DEF Prefixes, Packet, DestAddr, Skip
    <2> QED
      BY <2>2, <2>3, <2>7 DEF Datagram, DatagramIntact
  <1>2. CASE Alter
    <2> DEFINE q == Packet(DestAddr, udp.payload)
               z == udp.packet
    <2>1. /\ ~udp.ok /\ udp.payload \in Payloads /\ proto \in UDP /\ z \in Seq(Byte)
          /\ Len(z) <= Len(q) /\ q \in Seq(Byte)
          /\ \A i \in 1..Len(z) : z[i] = q[i] \/ (proto = "socks5udp" /\ i = 3 /\ z[i] = 1)
      BY <1>0, <1>2, PacketIs DEF Alter, Datagram, Prefixes, UDPType
    <2>2. proto' = proto /\ dest' = dest
      BY <1>2 DEF Alter, dial
    <2>3. PICK x : /\ udp' = [udp EXCEPT !.packet = x] /\ Len(x) <= Len(z) /\ Len(x) \in Nat
                   /\ \A i \in 1..Len(x) :
                        x[i] = z[i] \/ (proto = "socks5udp" /\ i = 3 /\ x[i] = 1)
      <3>1. CASE \E k \in Cuts : k < Len(z) /\ udp' = [udp EXCEPT !.packet = SubSeq(@, 1, k)]
        <4>1. PICK k \in Cuts : k < Len(z) /\ udp' = [udp EXCEPT !.packet = SubSeq(z, 1, k)]
          BY <3>1
        <4>2. PICK x : x = SubSeq(z, 1, k)
          OBVIOUS
        <4>3. k \in Nat
          BY HandshakeAssumption
        <4>4. Len(x) = k /\ \A i \in 1..k : x[i] = z[i]
          BY <2>1, <4>1, <4>2, <4>3
        <4>5. udp' = [udp EXCEPT !.packet = x]
          BY <4>1, <4>2
        <4>a. Len(z) \in Nat /\ k < Len(z)
          BY <2>1, <4>1
        <4>b. Len(x) <= Len(z) /\ Len(x) \in Nat
          BY <4>3, <4>4, <4>a
        <4>c. \A i \in 1..Len(x) : x[i] = z[i]
          BY <4>4
        <4>6. /\ udp' = [udp EXCEPT !.packet = x] /\ Len(x) <= Len(z) /\ Len(x) \in Nat
              /\ \A i \in 1..Len(x) :
                   x[i] = z[i] \/ (proto = "socks5udp" /\ i = 3 /\ x[i] = 1)
          BY <4>5, <4>b, <4>c, Zenon
        <4> QED
          BY <4>6, Zenon
      <3>2. CASE proto = "socks5udp" /\ Len(z) > 2 /\ udp' = [udp EXCEPT !.packet[3] = 1]
        <4>1. PICK x : x = [z EXCEPT ![3] = 1]
          OBVIOUS
        <4>2. udp' = [udp EXCEPT !.packet = x]
          BY <3>2, <4>1
        <4>3. Len(x) = Len(z) /\ (\A i \in 1..Len(z) : x[i] = z[i] \/ (i = 3 /\ x[i] = 1))
          BY <2>1, <4>1
        <4>4. Len(z) \in Nat
          BY <2>1
        <4>6. /\ udp' = [udp EXCEPT !.packet = x] /\ Len(x) <= Len(z) /\ Len(x) \in Nat
              /\ \A i \in 1..Len(x) :
                   x[i] = z[i] \/ (proto = "socks5udp" /\ i = 3 /\ x[i] = 1)
          BY <3>2, <4>2, <4>3, <4>4
        <4> QED
          BY <4>6, Zenon
      <3> QED
        BY <1>2, <3>1, <3>2 DEF Alter
    <2>4. udp'.packet = x /\ udp'.payload = udp.payload /\ udp'.ok = FALSE
      BY <1>0, <2>1, <2>3 DEF UDPType
    <2>5. Packet(DestAddr, udp.payload)' = q
      BY <2>2, <2>4 DEF Packet, DestAddr, Skip
    <2>6. Len(x) <= Len(q) /\ 1..Len(x) \subseteq 1..Len(z)
      BY <2>1, <2>3
    <2>7. \A i \in 1..Len(x) : x[i] = q[i] \/ (proto = "socks5udp" /\ i = 3 /\ x[i] = 1)
      BY <2>1, <2>3, <2>6
    <2> HIDE DEF q
    <2>8. Prefixes(udp.packet, Packet(DestAddr, udp.payload))'
      BY <2>2, <2>4, <2>5, <2>6, <2>7 DEF Prefixes
    <2> QED
      BY <2>1, <2>2, <2>4, <2>8 DEF Datagram, DatagramIntact
  <1>3. CASE ReadFrom
    BY <1>3, ReadFromIs
  <1>4. CASE UNCHANGED <<proto, dest, udp>>
    BY <1>0, <1>4 DEF Datagram, DatagramIntact, Prefixes, Packet, DestAddr, Skip
  <1> QED
    BY <1>1, <1>2, <1>3, <1>4 DEF Next, Dial, Session, Connect, Send, Receive, Listen, Bind,
       BindShadowsocks, AppWrite, AppRead, AppClose, WatchEnds, WatchCloses, SrvRead, SrvSend,
       SrvClose, peer, dial

-----------------------------------------------------------------------------
(***************************************************************************)
(* The theorems.                                                           *)
(***************************************************************************)
\* IInv is inductive: every action, and a step that changes nothing, keeps it.
LEMMA StepIInv == IInv /\ [Next]_vars => IInv'
  <1> SUFFICES ASSUME IInv, [Next]_vars PROVE IInv'
    OBVIOUS
  <1>1. CASE Next
    BY <1>1, TypesStep, ReachStep, FreshStep, TalkStep, StreamStep, WireStep, DatagramStep
       DEF IInv
  <1>2. CASE UNCHANGED vars
    <2>1. Types' /\ Reach' /\ Fresh' /\ Talk'
      BY <1>2 DEF vars, dial, IInv, Types, DialTypes, WireTypes, UDPTypes, Reach, NoLeak, Fresh,
         Talk, Asking, Answered, Granted, BindAddr, Refused
    <2>2. Stream' /\ Wire' /\ Datagram'
      BY <1>2, ZenonT(30) DEF vars, dial, IInv, Stream, Opened, HeaderAhead, ResponseAhead, ReadInOrder,
         Wire, WireIs, ToSay, Datagram, DatagramIntact, Prefixes, Packet, DestAddr, Skip
    <2> QED
      BY <2>1, <2>2 DEF IInv
  <1> QED
    BY <1>1, <1>2

LEMMA Invariant == Spec => []IInv
  BY InitIInv, StepIInv, PTL DEF Spec

\* The variables keep their types, and ReadFrom returns no negative length but
\* for a datagram it took to be longer than it is.
THEOREM TypeCorrect == Spec => []TypeOK
  <1>1. IInv => TypeOK
    <2> SUFFICES ASSUME IInv PROVE TypeOK
      OBVIOUS
    <2>1. srv \in [open : BOOLEAN, granted : BOOLEAN, sent : 0..MaxData,
                   bind : {"none", "ip", "any", "name", "badtype"}]
      BY DEF IInv, Types, SrvType, BindTo
    <2> QED
      BY <2>1 DEF IInv, Types, DialTypes, UDPTypes, AppType, Datagram, TypeOK
  <1> QED
    BY <1>1, Invariant, PTL

\* A dial that fails leaves no connection and no socket behind, but for the socket
\* of DialUDP of Shadowsocks.
THEOREM FailedDialsLeakNothing == Spec => []NoLeak
  <1>1. IInv => NoLeak
    BY DEF IInv, Reach
  <1> QED
    BY <1>1, Invariant, PTL

\* A session reads data, and a dial that waits for an answer succeeds, only if the
\* server has granted the request (ClientHandshake, shakeHand, readRelayResponse).
THEOREM GrantedBeforeUse == Spec => []GrantedFirst
  <1>1. IInv => GrantedFirst
    <2> SUFFICES ASSUME IInv PROVE GrantedFirst
      OBVIOUS
    <2>0. Fresh /\ Stream /\ Talk /\ app.read \in Seq(Downward) /\ down \in Seq(Downward)
      BY DEF IInv, Types, AppType, WireTypes
    <2>1. ASSUME app.read # <<>>, ~srv.granted PROVE FALSE
      <3>1. at = "done" /\ app.once /\ srv.sent = 0
        BY <2>0, <2>1 DEF Fresh, Stream, ResponseAhead, Talk
      <3>2. PICK k \in 0..srv.sent : app.read \o down = Rest(k, srv.sent)
        BY <2>0, <3>1 DEF Stream, ReadInOrder
      <3>3. k = 0 /\ Rest(0, 0) = <<>>
        BY <3>1, RestIs
      <3>4. app.read \o down = <<>>
        BY <3>1, <3>2, <3>3
      <3> QED
        BY <2>0, <2>1, <3>4, ConcatEmptySeq
    <2>2. at = "done" /\ proto \notin Lazy \cup {"ss", "ssudp"} => srv.granted
      BY <2>0 DEF Stream, Opened
    <2> QED
      BY <2>1, <2>2 DEF GrantedFirst
  <1> QED
    BY <1>1, Invariant, PTL

\* A datagram that holds its header is delivered with its own payload, although
\* ReadFrom moves it within a buffer that is used again (socksPacketConn and
\* ssPacketConn).
THEOREM DatagramsIntact == Spec => []DatagramIntact
  <1>1. IInv => DatagramIntact
    BY DEF IInv, Datagram
  <1> QED
    BY <1>1, Invariant, PTL

\* The messages of the handshake, each once, then the data: in that order.
LEMMA Ordered == IInv => WireOrder
  <1> SUFFICES ASSUME IInv, srv.open PROVE WireOrder
    BY DEF WireOrder
  <1> DEFINE wire == got \o up
             n == app.written
             d == Data(n)
             S == Asks \cup DataMsg
  <1>1. PICK h \in Seq(Asks) : WireIs(h)
    BY DEF IInv, Wire
  <1> DEFINE lh == Len(h)
             lw == Len(wire)
  <1>2. /\ Fresh /\ n \in Nat
        /\ wire = h \o d
        /\ \A i, j \in 1..lh : h[i] = h[j] => i = j
        /\ at = "done" /\ proto \notin {"direct", "ssudp"} /\ ~app.header =>
             h # <<>> /\ h[lh] \in {Control("request"), Control("header")}
        /\ app.header => n = 0
    BY <1>1, HandshakeAssumption DEF IInv, Types, AppType, WireIs, Said
  <1>3. d \in Seq(DataMsg) /\ Len(d) = n /\ (\A i \in 1..n : d[i] = <<"data", i>>)
    BY <1>2, DataIs
  <1>4. h \in Seq(S) /\ d \in Seq(S) /\ lh \in Nat
    BY <1>3
  <1>5. \A i \in 1..lh : h[i] \in Asks
    OBVIOUS
  <1>6. \A x \in Asks, i \in Nat : x # <<"data", i>>
    BY DEF Asks, Sends
  <1> HIDE DEF S, d, n, wire
  <1>7. /\ wire \in Seq(S) /\ lw = lh + n
        /\ \A i \in 1..lh : wire[i] = h[i]
        /\ \A i \in 1..n : wire[lh + i] = d[i]
    <2>1. /\ h \o d \in Seq(S) /\ Len(h \o d) = Len(h) + Len(d)
          /\ \A i \in 1..Len(h) : (h \o d)[i] = h[i]
          /\ \A i \in 1..Len(d) : (h \o d)[Len(h) + i] = d[i]
      BY <1>4, Cat
    <2>2. wire = h \o d /\ Len(d) = n
      BY <1>2, <1>3
    <2> QED
      BY <2>1, <2>2
  <1> HIDE DEF lh, lw
  <1>8. \A i \in 1..lw : i \in 1..lh \/ (i - lh \in 1..n /\ i = lh + (i - lh))
    BY <1>2, <1>4, <1>7
  <1>9. ASSUME NEW i \in 1..lw, NEW j \in 1..lw, wire[i] = wire[j]
        PROVE  i = j
    <2>1. CASE i \in 1..lh /\ j \in 1..lh
      BY <1>2, <1>7, <1>9, <2>1
    <2>2. CASE i \in 1..lh /\ j - lh \in 1..n
      <3>1. wire[i] \in Asks
        BY <1>5, <1>7, <2>2 DEF lh
      <3>2. wire[j] = <<"data", j - lh>> /\ j - lh \in Nat
        BY <1>3, <1>4, <1>7, <1>8, <2>2
      <3> QED
        BY <1>6, <1>9, <3>1, <3>2
    <2>3. CASE i - lh \in 1..n /\ j \in 1..lh
      <3>1. wire[j] \in Asks
        BY <1>5, <1>7, <2>3 DEF lh
      <3>2. wire[i] = <<"data", i - lh>> /\ i - lh \in Nat
        BY <1>3, <1>4, <1>7, <1>8, <2>3
      <3> QED
        BY <1>6, <1>9, <3>1, <3>2
    <2>4. CASE i - lh \in 1..n /\ j - lh \in 1..n
      <3>1. wire[i] = <<"data", i - lh>> /\ wire[j] = <<"data", j - lh>>
        BY <1>3, <1>4, <1>7, <1>8, <2>4, SMTT(30)
      <3>2. <<"data", i - lh>>[2] = <<"data", j - lh>>[2]
        BY <1>9, <3>1
      <3> QED
        BY <1>4, <3>2
    <2> QED
      BY <1>8, <2>1, <2>2, <2>3, <2>4
  <1>10. SubSeq(wire, lw - n + 1, lw) = d
    <2> DEFINE lo == lh + 1
               hi == lh + n
               x == SubSeq(wire, lo, hi)
    <2>1. \A i \in lo..hi : wire[i] \in S
      BY <1>2, <1>4, <1>7 DEF lw
    <2>2. lo \in Int /\ hi \in Int
      BY <1>2, <1>4
    <2> HIDE DEF lo, hi
    <2>a. /\ x \in Seq(S) /\ Len(x) = IF lo <= hi THEN hi - lo + 1 ELSE 0
          /\ \A i \in 1..(hi - lo + 1) : x[i] = wire[lo + i - 1]
      BY <2>1, <2>2, SubSeqProperties
    <2> HIDE DEF x
    <2>3. hi - lo + 1 = n /\ (\A i \in 1..n : lo + i - 1 = lh + i) /\ (lo <= hi <=> n > 0)
      BY <1>2, <1>4 DEF lo, hi
    <2>4. x \in Seq(S) /\ Len(x) = n
      BY <1>2, <2>a, <2>3
    <2>5. \A i \in 1..n : x[i] = d[i]
      BY <1>7, <2>a, <2>3
    <2>6. x = d
      BY <1>3, <1>4, <2>4, <2>5, SeqEqual
    <2>7. lw - n + 1 = lh + 1 /\ lw = lh + n
      BY <1>2, <1>4, <1>7
    <2> QED
      BY <2>6, <2>7 DEF x, lo, hi
  <1>11. n > 0 /\ proto # "direct" => wire[lw - n] \in {Control("request"), Control("header")}
    <2> SUFFICES ASSUME n > 0, proto # "direct"
                 PROVE  wire[lw - n] \in {Control("request"), Control("header")}
      OBVIOUS
    <2>1. at = "done" /\ proto # "ssudp" /\ ~app.header
      BY <1>2 DEF Fresh, n, UDP
    <2>2. h # <<>> /\ h[lh] \in {Control("request"), Control("header")}
      BY <1>2, <2>1
    <2>3. lh \in 1..lh /\ lw - n = lh
      BY <1>2, <1>4, <1>7, <2>2, EmptySeq DEF lh
    <2> QED
      BY <1>7, <2>2, <2>3
  <1>12. lw >= n
    BY <1>2, <1>4, <1>7
  <1> QED
    BY <1>9, <1>10, <1>11, <1>12 DEF WireOrder, wire, lw, n, d

\* What the session has read and what is on its way are the end of what the
\* server sent, and all of it but over proxy/http.
LEMMA Unswallowed == IInv => NothingSwallowed
  <1> SUFFICES ASSUME IInv, at = "done", app.once PROVE NothingSwallowed
    BY DEF NothingSwallowed
  <1> DEFINE seen == app.read \o down
             n == srv.sent
  <1>1. n \in Nat
    BY HandshakeAssumption DEF IInv, Types, SrvType
  <1>2. PICK k \in 0..n : seen = Rest(k, n) /\ (proto # "http" => k = 0)
    BY DEF IInv, Stream, ReadInOrder
  <1>3. Len(Rest(k, n)) = n - k
    <2> DEFINE d == Data(n)
    <2>1. d \in Seq(DataMsg) /\ Len(d) = n
      BY <1>1, DataIs
    <2> HIDE DEF n
    <2>2. Rest(k, n) = SubSeq(d, k + 1, n)
      BY DEF Rest
    <2> HIDE DEF d
    <2> QED
      BY <1>1, <2>1, <2>2
  <1> HIDE DEF seen, n
  <1>4. Len(seen) = n - k /\ n - Len(seen) + 1 = k + 1 /\ Len(seen) <= n
    BY <1>1, <1>2, <1>3
  <1>5. seen = SubSeq(Data(n), n - Len(seen) + 1, n)
    BY <1>2, <1>4 DEF Rest
  <1>6. proto # "http" => Len(seen) = n
    BY <1>1, <1>2, <1>4
  <1> QED
    BY <1>4, <1>5, <1>6 DEF NothingSwallowed, seen, n

\* Behind the handshake the connection is the stream of the session, in both
\* directions: header and data go up once and in order (tcpWrite), and nothing
\* that came down behind the answer is lost but by proxy/http (shakeHand).
THEOREM StreamsStayIntact == Spec => []StreamsIntact
  <1>1. IInv => StreamsIntact
    BY Ordered, Unswallowed DEF StreamsIntact
  <1> QED
    BY <1>1, Invariant, PTL

=============================================================================
