----------------------------- MODULE SocksAddr -----------------------------
(***************************************************************************)
(* SOCKS addresses and the UDP header built from them                      *)
(* (transport/socks5/socks5.go), over sequences of bytes.  The address      *)
(* <<>> is nil.                                                            *)
(***************************************************************************)
EXTENDS Naturals, Sequences

IPv4   == 1
Domain == 3
IPv6   == 4

\* The length an address announces in its first bytes; 0 if it has none.
AddrLen(b) ==
  CASE Len(b) > 0 /\ b[1] = IPv4   -> 1 + 4 + 2
    [] Len(b) > 0 /\ b[1] = IPv6   -> 1 + 16 + 2
    [] Len(b) > 1 /\ b[1] = Domain -> 1 + 1 + b[2] + 2
    [] OTHER -> 0

Valid(a) == Len(a) >= 4 /\ AddrLen(a) \in 1..Len(a)

SplitAddr(b) ==
  IF AddrLen(b) \in 1..Len(b) THEN SubSeq(b, 1, AddrLen(b)) ELSE <<>>

SerializeAddr(name, ip, port) ==
  IF name # <<>>
  THEN IF Len(name) > 255 THEN <<>> ELSE <<Domain, Len(name)>> \o name \o port
  ELSE <<IF Len(ip) = 4 THEN IPv4 ELSE IPv6>> \o ip \o port

\* Addr.UDPAddr returns nil for a domain name.
IsUDPAddr(a) == Valid(a) /\ a[1] # Domain

EncodeUDPPacket(addr, payload) == <<0, 0, 0>> \o addr \o payload

\* The address, or <<>> where DecodeUDPPacket returns an error: too short,
\* reserved bytes in use, a fragment, or no address.
DecodeUDPPacket(packet) ==
  IF Len(packet) >= 5 /\ SubSeq(packet, 1, 3) = <<0, 0, 0>>
  THEN SplitAddr(SubSeq(packet, 4, Len(packet))) ELSE <<>>
=============================================================================
