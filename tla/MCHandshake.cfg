SPECIFICATION Spec
CONSTANTS
  Protocols = {"socks5", "socks5udp", "socks4", "http", "ssh", "relay", "relayNoDelay", "ss", "ssudp", "direct"}
  Users = {"none", "valid", "empty"}
  MaxData = 2
  Dests <- MCDests
  Payloads <- MCPayloads
  Cuts = {2, 9, 11, 23}
  BufferSize = 24
CHECK_DEADLOCK FALSE
INVARIANTS TypeOK NoLeak GrantedFirst StreamsIntact DatagramIntact
PROPERTIES DialReturns AssociationEnds
