---------------------------- MODULE PfStateView ----------------------------
(***************************************************************************)
(* What a State tells its owner (src/src/state.rs) of a connection that a  *)
(* rule keeps state for: the way from the rule a caller builds, over the   *)
(* packet the kernel takes it for and the pfsync_state it exports, back to *)
(* the caller.                                                             *)
(***************************************************************************)
EXTENDS PfRuleEncoding

(* The kernel's side (external). *)

KeepsState(r, p) == r.action = "PASS" /\ r.keepState # "None" /\ KernelMatches(r, p)

\* A pfsync_state_host: the address union is as large as an IPv6 address, and the
\* port is in network order.
Host(addr, port) ==
  [addr |-> [i \in 1 .. Words |-> IF i <= Len(addr) THEN addr[i] ELSE 0], port |-> ToBe(port)]

\* lan is the end on this machine, whichever way the first packet went.
PfsyncState(p) ==
  LET src == Host(p.src, p.sport)
      dst == Host(p.dst, p.dport)
  IN  [direction |-> p.dir, proto |-> p.proto, af_lan |-> p.af,
       lan |-> IF p.dir = "Out" THEN src ELSE dst,
       ext_lan |-> IF p.dir = "Out" THEN dst ELSE src]

-----------------------------------------------------------------------------
(* The accessors. *)

Given(value) == [tag |-> "ok", value |-> value]

\* Direction::try_from knows whatever the kernel says; Proto::try_from does not.
Direction(state) == Given(state.direction)
Proto(state) == IF state.proto \in {"Any", "Tcp", "Udp", "Icmp", "IcmpV6"}
                  THEN Given(state.proto) ELSE Err("InvalidTransportProtocol")

\* (A bug: the port is left in network order.)
BugPortAsIs(port) == port
\* u16::from_be, on a little-endian machine.
FromBe(port) == ToBe(port)

\* parse_address
ParseAddress(family, host) ==
  CASE family = "Ipv4" -> Given([addr |-> SubSeq(host.addr, 1, 1), port |-> FromBe(host.port)])
    [] family = "Ipv6" -> Given([addr |-> host.addr, port |-> FromBe(host.port)])
    [] OTHER -> Err("InvalidAddressFamily")

LocalAddress(state) == ParseAddress(state.af_lan, state.lan)
RemoteAddress(state) == ParseAddress(state.af_lan, state.ext_lan)

-----------------------------------------------------------------------------
(* Properties. *)

Within(socket, endpoint, p) ==
  /\ Contains(endpoint.ip, p, socket.addr)
  /\ socket.port \in Denoted(endpoint.port, Ports)

\* A state that a rule created shows a connection the rule was meant for, with its
\* two ends the right way round: what went out left from the local address, and what
\* came in arrived at it.  The ports cross the byte order four times on the way, and
\* IPv4 and IPv6 addresses share a union.  Only the protocol may have no name here.
StateReadsBack ==
  result.tag = "ok" =>
    \A p \in Packets : KeepsState(result.rule, p) =>
      LET state == PfsyncState(p)
          local == LocalAddress(state)
          remote == RemoteAddress(state)
          from == IF p.dir = "Out" THEN local ELSE remote
          to == IF p.dir = "Out" THEN remote ELSE local
      IN  /\ local.tag = "ok" /\ remote.tag = "ok"
          /\ from.value = [addr |-> p.src, port |-> p.sport] /\ Within(from.value, rule.from, p)
          /\ to.value = [addr |-> p.dst, port |-> p.dport] /\ Within(to.value, rule.to, p)
          /\ Direction(state).value \in {p.dir} \cap
               (IF rule.direction = "Any" THEN {"In", "Out"} ELSE {rule.direction})
          /\ \/ Proto(state) = Given(p.proto) /\ rule.proto \in {"Any", p.proto}
             \/ Proto(state).tag = "err" /\ rule.proto = "Any"
=============================================================================
