------------------------- MODULE MCGatewaySessions -------------------------
(***************************************************************************)
(* An instance of GatewaySessions for TLC: a strict configuration that     *)
(* admits one session and one token a second, and an open one.  The        *)
(* allowlist has a network of each family, that of IPv6 with prefix 0 and  *)
(* host bits, an IPv4 network with host bits, one whose prefix is too      *)
(* long, a bare address and a blank entry.                                 *)
(***************************************************************************)
EXTENDS GatewaySessions

MCWidth == [v4 |-> 2, v6 |-> 3]
Ip(fam, n) == [fam |-> fam, n |-> n]
Entry(fam, net, prefix) == [fam |-> fam, net |-> net, prefix |-> prefix]

Caller(proto, ip, pass, methods) ==
  [proto |-> proto, ip |-> ip, pass |-> pass, methods |-> methods]

MCClients == { Caller("socks5", Ip("v4", 1), "good", {0, 2}),
               Caller("socks5", Ip("v6", 5), "bad", {0, 2}),
               Caller("http", Ip("v6", 5), "good", {}),
               Caller("http", Ip("v4", 3), "good", {}) }

Allowlist == { Entry("v4", 0, {1}), Entry("v4", 3, {1}), Entry("v4", 2, {3}),
               Entry("v4", 2, {}), Entry("v6", 2, {0}),
               Entry("blank", 0, {}) }

Strict == [allow |-> Allowlist, auth |-> {"good"}, maxConn |-> {1}, maxRps |-> {1}]
Open == [allow |-> {}, auth |-> {}, maxConn |-> {2}, maxRps |-> {}]
MCConfigs == {Strict, Open}
=============================================================================
