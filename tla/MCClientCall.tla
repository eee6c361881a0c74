---------------------------- MODULE MCClientCall ----------------------------
(* Agent cards of both versions, preferring either transport. *)
EXTENDS ClientCall

Iface(proto, version) == [proto |-> proto, version |-> version]
Card(version, ifaces) == [version |-> version, ifaces |-> ifaces]

SomeCards ==
  {Card("0.3", <<Iface("rest", "0.3"), Iface("rpc", "0.3")>>),
   Card("0.3", <<Iface("rpc", "0.3"), Iface("rest", "0.3")>>),
   Card("0.3", <<Iface("grpc", "0.3"), Iface("rest", "0.3")>>),
   Card("0.3", <<Iface("rest", "0.3"), Iface("grpc", "0.3")>>),
   Card("1.0", <<Iface("rest", "1.0"), Iface("rpc", "1.0")>>),
   Card("1.0", <<Iface("rpc", "2.0"), Iface("rpc", "1.0"), Iface("rest", "1.0")>>),
   Card("1.0", <<Iface("rpc", "2.0")>>),
   Card("1.0", <<Iface("grpc", "1.0")>>)}
=============================================================================
