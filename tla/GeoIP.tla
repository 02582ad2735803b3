------------------------------- MODULE GeoIP -------------------------------
(***************************************************************************)
(* Addresses, prefixes and the reader of GeoIP files (routing/routing.go)  *)
(* over sequences of bytes.  A file is a protobuf message; every tag,       *)
(* length and number of the files used here fits in one byte, so that a     *)
(* larger byte reads as a varint that goes on and is not there.             *)
(***************************************************************************)
EXTENDS Integers, Sequences, FiniteSetsExt

-----------------------------------------------------------------------------
(***************************************************************************)
(* net/netip.  An address is 4 or 16 bytes.                                *)
(***************************************************************************)
MappedHead == [i \in 1..12 |-> IF i <= 10 THEN 0 ELSE 255]
IsMapped(ip) == Len(ip) = 16 /\ SubSeq(ip, 1, 12) = MappedHead
MapIP(ip) == MappedHead \o ip
Unmap(ip) == IF IsMapped(ip) THEN SubSeq(ip, 13, 16) ELSE ip

Prefix(ip, bits) == [ip |-> ip, bits |-> bits]
BitValue == <<128, 64, 32, 16, 8, 4, 2, 1>>
Bit(ip, i) == (ip[((i - 1) \div 8) + 1] \div BitValue[((i - 1) % 8) + 1]) % 2
\* A prefix of more bits than its address has is invalid and contains nothing.
Within(p, ip) ==
  /\ Len(p.ip) = Len(ip) /\ p.bits <= 8 * Len(ip)
  /\ \A i \in 1..p.bits : Bit(p.ip, i) = Bit(ip, i)

V6(first, second) == <<first, second>> \o [i \in 1..14 |-> 0]
Loopback6 == [i \in 1..16 |-> IF i = 16 THEN 1 ELSE 0]
PrivatePrefixes ==
  {Prefix(<<10, 0, 0, 0>>, 8), Prefix(<<172, 16, 0, 0>>, 12), Prefix(<<192, 168, 0, 0>>, 16),
   Prefix(<<127, 0, 0, 0>>, 8), Prefix(<<169, 254, 0, 0>>, 16), Prefix(<<224, 0, 0, 0>>, 24),
   Prefix(<<100, 64, 0, 0>>, 10),
   Prefix(V6(252, 0), 7), Prefix(Loopback6, 128), Prefix(V6(254, 128), 10)}
IsPrivate(ip) ==
  LET u == Unmap(ip) IN
    \/ \E p \in PrivatePrefixes : Within(p, u)
    \/ Len(u) = 16 /\ u[1] = 255 /\ u[2] % 16 = 2    \* link-local multicast

-----------------------------------------------------------------------------
(***************************************************************************)
(* The wire format (protowire).  Ends is the last byte of the field whose   *)
(* tag is at d[at], or 0 where Consume... returns an error.                *)
(***************************************************************************)
Varint == 0
Fixed64 == 1
Bytes  == 2
Fixed32 == 5

ValueEnd(d, at, wt) ==
  LET n == Len(d)
      short == at + 1 <= n /\ d[at + 1] < 128     \* a varint of one byte
  IN IF wt = Varint /\ short THEN at + 1
     ELSE IF wt = Bytes /\ short THEN at + 1 + d[at + 1]
     ELSE IF wt = Fixed64 THEN at + 8
     ELSE IF wt = Fixed32 THEN at + 4 ELSE n + 1
\* Mutant: a value that runs past the end of the file is cut to it.
EndsClipped(d, at, wt) == IF ValueEnd(d, at, wt) <= Len(d) THEN ValueEnd(d, at, wt) ELSE Len(d)
Ends(d, at, wt) == IF ValueEnd(d, at, wt) <= Len(d) THEN ValueEnd(d, at, wt) ELSE 0
IsTag(b) == b < 128 /\ b \div 8 > 0

StopsAt(d, at) == at > Len(d) \/ ~IsTag(d[at])
EndAt(d, at)   == Ends(d, at, d[at] % 8)
FieldAt(d, at) ==
  LET wt == d[at] % 8  end == EndAt(d, at) IN
    [field |-> d[at] \div 8, wt |-> wt,
     val |-> IF wt = Bytes THEN SubSeq(d, at + 2, end) ELSE <<d[end]>>]

\* The fields of a message from each place on, up to the first the loop stops
\* at.  A value that cannot be read ends the loops of LoadGeoIP and
\* parseGeoEntry.  In parseGeoCIDR the break leaves the switch only, and what
\* follows the tag is read as the next tag.
FieldsFrom(d, goesOn) ==
  LET f[at \in 1..(Len(d) + 1)] ==
        IF StopsAt(d, at) THEN <<>>
        ELSE IF EndAt(d, at) = 0 THEN IF goesOn THEN f[at + 1] ELSE <<>>
        ELSE <<FieldAt(d, at)>> \o f[EndAt(d, at) + 1]
  IN f
Fields(d, goesOn) == FieldsFrom(d, goesOn)[1]

\* The values of one field, and the last of them, or none.
Values(fs, field, wt) == {i \in 1..Len(fs) : fs[i].field = field /\ fs[i].wt = wt}
LastValue(fs, field, wt, none) ==
  LET is == Values(fs, field, wt) IN IF is = {} THEN none ELSE fs[Max(is)].val

\* parseGeoCIDR: the prefix, as a set that is empty where it returns false.
\* The bits of a mapped address are kept when the address is unmapped.
ParseGeoCIDR(d) ==
  LET fs   == Fields(d, TRUE)
      ip   == LastValue(fs, 1, Bytes, <<>>)
      bits == LastValue(fs, 2, Varint, <<>>)
  IN IF Len(ip) \in {4, 16} /\ bits # <<>> /\ bits[1] <= 8 * Len(ip)
     THEN {Prefix(Unmap(ip), bits[1])} ELSE {}

Lower(s) == [i \in 1..Len(s) |-> IF s[i] \in 65..90 THEN s[i] + 32 ELSE s[i]]

\* parseGeoEntry: a set of pairs of a country and a prefix, empty where the
\* country is missing.
ParseGeoEntry(d) ==
  LET fs == Fields(d, FALSE)
      country == Lower(LastValue(fs, 1, Bytes, <<>>))
  IN IF country = <<>> THEN {}
     ELSE {country} \X UNION {ParseGeoCIDR(fs[i].val) : i \in Values(fs, 2, Bytes)}

\* LoadGeoIP: the entries of the file, whatever their field number.
LoadGeoIP(d) ==
  LET fs == Fields(d, FALSE)
  IN UNION {ParseGeoEntry(fs[i].val) : i \in {j \in 1..Len(fs) : fs[j].wt = Bytes}}

\* The file of a list of entries, each a country and its prefixes.  A message
\* is its fields one after the other.
JoinedUpTo(parts) ==
  LET f[k \in 0..Len(parts)] == IF k = 0 THEN <<>> ELSE f[k - 1] \o parts[k]
  IN f
Joined(parts) == JoinedUpTo(parts)[Len(parts)]
LenBytes(tag, val) == <<tag, Len(val)>> \o val
CIDRFields(p)  == <<LenBytes(10, p.ip), <<16, p.bits>>>>
EncodeCIDR(p)  == LenBytes(18, Joined(CIDRFields(p)))
EntryFields(e) == [i \in 1..(Len(e.prefixes) + 1) |->
                    IF i = 1 THEN LenBytes(10, e.country) ELSE EncodeCIDR(e.prefixes[i - 1])]
EncodeEntry(e) == LenBytes(10, Joined(EntryFields(e)))
EncodeFile(entries) == Joined([i \in 1..Len(entries) |-> EncodeEntry(entries[i])])

ContainsCountry(geo, ip, country) ==
  \E e \in geo : e[1] = Lower(country) /\ Within(e[2], Unmap(ip))
=============================================================================
