----------------------------- MODULE MCRouting -----------------------------
(* Small instances of Routing. *)
EXTENDS Routing, TLC

V4(a, b) == <<a, b, 3, 4>>
CN == <<67, 78>>
US == <<85, 83>>

\* CN with 1.2.0.0/16 and an IPv4-mapped prefix of 112 bits, which matches
\* nothing, US with 8.8.0.0/16 and a mapped one of 16, read as 10.9.0.0/16.
MCEntries ==
  <<[country |-> CN, prefixes |-> <<Prefix(V4(1, 2), 16), Prefix(MapIP(V4(10, 9)), 112)>>],
    [country |-> US, prefixes |-> <<Prefix(V4(8, 8), 16), Prefix(MapIP(V4(10, 9)), 16)>>]>>
Symmetry == Permutations(Sessions)

\* One destination per kind of rule, one of them IPv4-mapped, one IPv6.
MCDestinations == {V4(1, 2), V4(10, 9), MapIP(V4(8, 8)), V4(192, 168), V6(254, 128)}

Conf(mode, default, direct, proxy, geo) ==
  [mode |-> mode, default |-> default, direct |-> direct, proxy |-> proxy, geo |-> geo]
Geo(c)   == [form |-> "geoip", country |-> c]
Cidr(ip, bits) == [form |-> "cidr", ip |-> ip, bits |-> bits]
Form(f)  == [form |-> f]
MCConfigs ==
  {Conf("", "", {}, {}, ""),
   Conf("direct", "", {}, {}, ""),
   Conf("rules", "proxy", {Geo(CN), Form("private"), Form("empty")}, {Cidr(V4(8, 8), 16)}, "geoip.dat"),
   Conf("rules", "direct", {[form |-> "addr", ip |-> V4(8, 8)]}, {Geo(US)}, "geoip.dat"),
   Conf("rules", "proxy", {Geo(CN)}, {}, "missing"),
   Conf("rules", "proxy", {Form("domain")}, {}, "")}
=============================================================================
