--------------------------- MODULE PfRuleEncoding ---------------------------
(***************************************************************************)
(* How the rules a caller builds (src/src/rule) become the pf_rule that is *)
(* handed to the kernel, and which of them are refused.                    *)
(*                                                                         *)
(* A rule is built field by field and converted as often as its owner      *)
(* likes.  What the kernel reads in a pf_rule is external; it is what the  *)
(* layouts and the comments of src/src/rule take for granted.              *)
(***************************************************************************)
EXTENDS Integers, Sequences, FiniteSets, FiniteSetsExt

CONSTANTS
  Byte,       \* how many values a byte has: 256 in the code
  Words,      \* how many words an IPv6 address has; an IPv4 address has one
  NatLower,   \* the ports of a NAT rule that names none,
  NatUpper,   \*   32768 and 49151 in the code
  NameSize,   \* the bytes of pf_rule.ifname,
  LabelSize,  \*   and of pf_rule.label
  Callers,
  Values,     \* what each caller puts into each field
  Packets     \* the packets the kernel compares with a rule

Ports == 0 .. Byte * Byte - 1
UnaryOps == {"Equal", "NotEqual", "Greater", "Less", "GreaterOrEqual", "LessOrEqual"}
RangeOps == {"Exclusive", "Inclusive", "Except"}
\* Port and Id: nothing, One(a, op) with b = 0, or Range(a, b, op).
AnySelector == [op |-> "Any", a |-> 0, b |-> 0]
\* Ip::Net keeps the address as it was given; its first prefix words count.
AnyIp == [af |-> "Any", addr |-> <<>>, prefix |-> 0]
AnyEndpoint == [ip |-> AnyIp, port |-> AnySelector]
NoIcmp == [kind |-> "none", arg |-> 0]
NoTarget == [ip |-> AnyIp, port |-> AnySelector, set |-> "none"]
UnsetTarget == [NoTarget EXCEPT !.set = "unset"]
Target(endpoint) == [ip |-> endpoint.ip, port |-> endpoint.port, set |-> "set"]
NatTarget(ip) ==
  Target([ip |-> ip, port |-> [op |-> "Inclusive", a |-> NatLower, b |-> NatUpper]])

RuleKinds == {"filter", "nat", "redirect", "scrub"}
\* The fields of each builder.  "target" is redirect_to, or the action of a NAT rule
\* with its nat_to; it and action have no default.  group is converted like user.
Fields ==
  LET common == {"af", "from", "to", "interface"}
      matching == common \cup {"action", "direction", "quick", "log", "proto", "label", "user"}
  IN  [filter |-> matching \cup {"policy", "icmp", "route", "flags"},
       nat |-> common \cup {"target"}, redirect |-> matching \cup {"target"},
       scrub |-> {"action", "direction"}]
FieldNames == UNION {Fields[k] : k \in RuleKinds}

DropActions == {"Drop", "Return", "ReturnRst", "ReturnIcmp"}
Actions == [filter |-> {"Pass"} \cup DropActions, nat |-> {},
            redirect |-> {"Redirect", "NoRedirect"}, scrub |-> {"Scrub", "NoScrub"}]
\* TcpFlags: the flags that must be set, of those in mask.  Any is no flag.
AnyFlags == [check |-> {}, mask |-> {}]
TcpFlag == {"Any", "Syn", "Ack", "Fin", "Rst", "Psh", "Urg", "Ece", "Cwr"}

DefaultRule(kind) ==
  [kind |-> kind, af |-> "Any", from |-> AnyEndpoint, to |-> AnyEndpoint,
   policy |-> "None", proto |-> "Any", interface |-> <<>>, label |-> <<>>,
   user |-> AnySelector, icmp |-> NoIcmp, direction |-> "Any", quick |-> FALSE,
   log |-> {}, route |-> "NoRoute", flags |-> AnyFlags,
   action |-> IF kind = "nat" THEN "none" ELSE "unset",
   target |-> IF kind \in {"filter", "scrub"} THEN NoTarget ELSE UnsetTarget]

\* The types of the fields.
Families == {"Ipv4", "Ipv6"}
WordsOf(af) == IF af = "Ipv4" THEN 1 ELSE Words
Ips == {AnyIp} \cup [af : {"Ipv4"}, addr : [1 .. 1 -> Nat], prefix : 0 .. 1]
               \cup [af : {"Ipv6"}, addr : [1 .. Words -> Nat], prefix : 0 .. Words]
Selectors(universe) ==
  {AnySelector} \cup [op : UnaryOps, a : universe, b : {0}]
                \cup [op : RangeOps, a : universe, b : universe]
Endpoints(ips, ports) == [ip : ips, port : ports]
PortSelectors == Selectors(Ports)
Protos == {"Any", "Tcp", "Udp", "Icmp", "IcmpV6"}
Policies == {"None", "Keep", "Modulate", "SynProxy"}
IcmpTypes == {NoIcmp} \cup [kind : {"EchoRep", "EchoReq", "Trace"}, arg : {0}]
                      \cup [kind : {"Unreach", "Timex", "Icmp6"}, arg : Nat]
FieldTypes ==
  [af |-> Families \cup {"Any"}, from |-> Endpoints(Ips, PortSelectors),
   to |-> Endpoints(Ips, PortSelectors), interface |-> Seq(Nat), label |-> Seq(Nat),
   action |-> UNION {Actions[k] : k \in RuleKinds}, direction |-> {"Any", "In", "Out"},
   quick |-> BOOLEAN, log |-> SUBSET {"ExcludeMatchingState", "IncludeMatchingState", "SocketOwner"},
   proto |-> Protos, user |-> Selectors(Nat), policy |-> Policies, icmp |-> IcmpTypes,
   route |-> {"NoRoute", "RouteTo", "ReplyTo", "DupTo"},
   flags |-> [check : SUBSET TcpFlag, mask : SUBSET TcpFlag],
   target |-> {NoTarget} \cup [ip : Ips, port : PortSelectors, set : {"set"}]]

PacketTyped(p) ==
  /\ p.dir \in {"In", "Out"} /\ p.flags \subseteq TcpFlag \ {"Any"} /\ p.af \in Families
  /\ p.src \in [1 .. WordsOf(p.af) -> Nat] /\ p.dst \in [1 .. WordsOf(p.af) -> Nat]
  /\ p.sport \in Ports /\ p.dport \in Ports
  /\ p.uid \in Nat /\ p.type \in Nat /\ p.code \in Nat

ASSUME SizesAssumption ==
  /\ Byte \in Nat /\ Words \in Nat \ {0} /\ NatLower \in Ports /\ NatUpper \in Ports
  /\ NameSize \in Nat \ {0} /\ LabelSize \in Nat \ {0}
ASSUME ValuesAssumption ==
  /\ DOMAIN Values = Callers
  /\ \A u \in Callers :
       DOMAIN Values[u] = FieldNames /\ \A f \in FieldNames : Values[u][f] \subseteq FieldTypes[f]
ASSUME PacketsAssumption == \A p \in Packets : PacketTyped(p)

VARIABLES
  caller,
  rule,   \* the rule as it is built so far
  result  \* what its last conversion gave: an error or a pf_rule

vars == <<caller, rule, result>>

NotConverted == [tag |-> "none"]
Ok(pfRule) == [tag |-> "ok", rule |-> pfRule]
Err(kind) == [tag |-> "err", kind |-> kind]

-----------------------------------------------------------------------------
(* Families and policies. *)

\* compatible_af; the error passes through a chain of calls like `?` passes it.
Clash == "InvalidRuleCombination"
\* (A bug: Any is compared like a family.)
BugAnyClashes(af1, af2) == IF af1 = af2 THEN af1 ELSE Clash
CompatibleAf(af1, af2) ==
  IF af1 = af2 \/ af2 = "Any" THEN af1 ELSE IF af1 = "Any" THEN af2 ELSE Clash

EndpointsAf(r) == CompatibleAf(r.from.ip.af, r.to.ip.af)
TargetAf(r) == CompatibleAf(EndpointsAf(r), r.target.ip.af)
\* (A bug: the target is not asked for its family.)
BugTargetForgotten(r) == CompatibleAf(r.af, EndpointsAf(r))
RuleAf(r) ==
  CompatibleAf(r.af, IF r.target.set = "set" THEN TargetAf(r) ELSE EndpointsAf(r))

PolicyFits(r) == r.policy \in {"None", "Keep"} \/ r.proto = "Tcp"

-----------------------------------------------------------------------------
(* Conversions. *)

\* u16::to_be, and ntohs, on a little-endian machine.
ToBe(port) == (port % Byte) * Byte + port \div Byte

\* The modifiers as PF_OP_ constants.
OpCode == [Any |-> "NONE", Equal |-> "EQ", NotEqual |-> "NE", Greater |-> "GT",
           Less |-> "LT", GreaterOrEqual |-> "GE", LessOrEqual |-> "LE",
           Exclusive |-> "IRG", Inclusive |-> "RRG", Except |-> "XRG"]

Reversed(port) == port.op \in RangeOps /\ port.a > port.b

\* (A bug: the ports of a rule are left in host order.)
BugHostOrder(port) == [op |-> OpCode[port.op], a |-> port.a, b |-> port.b]
PortRange(port) == [op |-> OpCode[port.op], a |-> ToBe(port.a), b |-> ToBe(port.b)]
\* (A bug: the ports of a pool are converted like those of a rule.)
BugNetworkOrder(port) == PortRange(port)
PoolPorts(port) == [op |-> OpCode[port.op], a |-> port.a, b |-> port.b]
UidRange(id) == [op |-> OpCode[id.op], a |-> id.a, b |-> id.b]

\* The address union is as large as an IPv6 address, and zero where nothing is
\* written.  AnyIp is written as ::/0, which is all zeros as well.  The mask is the
\* set of the words it covers.
AddrWrap(ip) ==
  [addr |-> [i \in 1 .. Words |-> IF i <= Len(ip.addr) THEN ip.addr[i] ELSE 0],
   mask |-> 1 .. ip.prefix]

\* try_copy_to of a string into a C buffer of that size.
\* (A bug: no room for the terminator.)
BugNoTerminator(text, size) == Len(text) <= size /\ \A i \in DOMAIN text : text[i] # 0
Fits(text, size) == Len(text) < size /\ \A i \in DOMAIN text : text[i] # 0
Buffer(text, size) == [i \in 1 .. size |-> IF i <= Len(text) THEN text[i] ELSE 0]

RawType(icmp) ==
  IF icmp.kind = "Icmp6" THEN icmp.arg
  ELSE [EchoRep |-> 0, Unreach |-> 3, EchoReq |-> 8, Timex |-> 11, Trace |-> 30][icmp.kind]
HasCode(icmp) == icmp.kind \in {"Unreach", "Timex"}
\* Both are one higher than on the wire, so that zero says "any".
IcmpType(icmp) == IF icmp = NoIcmp THEN 0 ELSE RawType(icmp) + 1
IcmpCode(icmp) == IF HasCode(icmp) THEN icmp.arg + 1 ELSE 0

\* (A bug: the caller's answer to the packet is not asked for.)
BugSilent(action) == {}
\* FilterRuleAction::rule_flags; to drop silently is to set no flag.
RuleFlags(action) ==
  IF action \in DropActions
    THEN [Drop |-> {}, Return |-> {"RETURN"}, ReturnRst |-> {"RETURNRST"},
          ReturnIcmp |-> {"RETURNICMP"}][action]
    ELSE {}

\* The action codes; that of a NAT rule comes from its target.
ActionCode(r) ==
  CASE r.action = "Pass" -> "PASS"
    [] r.action \in DropActions -> "DROP"
    [] r.action = "Redirect" -> "RDR"
    [] r.action = "NoRedirect" -> "NORDR"
    [] r.action = "Scrub" -> "SCRUB"
    [] r.action = "NoScrub" -> "NOSCRUB"
    [] r.action = "none" -> IF r.target.set = "set" THEN "NAT" ELSE "NONAT"

RouteCode == [NoRoute |-> "NOPFROUTE", RouteTo |-> "ROUTETO", ReplyTo |-> "REPLYTO",
              DupTo |-> "DUPTO"]

\* (A bug: a flag set that names Any checks nothing.)
BugAnyWins(flags) == IF "Any" \in flags THEN {} ELSE flags
\* A set of flags is the OR of their bits.
Bits(flags) == flags \ {"Any"}

\* What the conversion checks, in its order, with the error of each check.  The
\* ports of the target come last: they go into the pool, after the rule.
Check(bad, kind) == IF bad THEN kind ELSE "none"
Checks(r) ==
  << Check("unset" \in {r.action, r.target.set}, "UninitializedFieldError"),
     Check(~PolicyFits(r), "InvalidRuleCombination"),
     Check(~Fits(r.interface, NameSize), "InvalidInterfaceName"),
     Check(RuleAf(r) = Clash, "InvalidRuleCombination"),
     Check(Reversed(r.from.port), "InvalidPortRange"),
     Check(Reversed(r.to.port), "InvalidPortRange"),
     Check(~Fits(r.label, LabelSize), "InvalidLabel"),
     Check(Reversed(r.target.port), "InvalidPortRange") >>

PfRule(r) ==
  [af |-> RuleAf(r), proto |-> r.proto, keepState |-> r.policy,
   src |-> [addr |-> AddrWrap(r.from.ip), ports |-> PortRange(r.from.port)],
   dst |-> [addr |-> AddrWrap(r.to.ip), ports |-> PortRange(r.to.port)],
   ifname |-> Buffer(r.interface, NameSize), label |-> Buffer(r.label, LabelSize),
   uid |-> UidRange(r.user), type |-> IcmpType(r.icmp), code |-> IcmpCode(r.icmp),
   action |-> ActionCode(r), ruleFlag |-> RuleFlags(r.action),
   direction |-> r.direction, quick |-> r.quick, log |-> r.log, rt |-> RouteCode[r.route],
   flags |-> Bits(r.flags.check), flagset |-> Bits(r.flags.mask),
   pool |-> PoolPorts(r.target.port)]

Converted(r) ==
  LET failed == {i \in DOMAIN Checks(r) : Checks(r)[i] # "none"}
  IN  IF failed = {} THEN Ok(PfRule(r)) ELSE Err(Checks(r)[Min(failed)])

-----------------------------------------------------------------------------
Init == /\ caller \in Callers
        /\ rule \in {DefaultRule(k) : k \in RuleKinds}
        /\ result = NotConverted

Set(field, value) ==
  /\ field = "target" /\ value = NoTarget => rule.kind = "nat"
  /\ field = "action" => value \in Actions[rule.kind]
  /\ rule' = [rule EXCEPT ![field] = value]
  /\ result' = NotConverted
  /\ UNCHANGED caller

Convert ==
  /\ result' = Converted(rule)
  /\ UNCHANGED <<caller, rule>>

Next == \/ \E field \in Fields[rule.kind] :
             \E value \in Values[caller][field] : Set(field, value)
        \/ Convert

Spec == Init /\ [][Next]_vars

-----------------------------------------------------------------------------
(* The kernel's side (external). *)

OpMatches(op, a, b, x) ==
  CASE op = "NONE" -> TRUE
    [] op = "EQ" -> x = a
    [] op = "NE" -> x # a
    [] op = "GT" -> x > a
    [] op = "LT" -> x < a
    [] op = "GE" -> x >= a
    [] op = "LE" -> x <= a
    [] op = "IRG" -> a < x /\ x < b
    [] op = "RRG" -> a <= x /\ x <= b
    [] op = "XRG" -> x < a \/ b < x

\* Only the words of the packet's family are compared.
AddrMatches(wrap, addr) == \A i \in DOMAIN addr : i \in wrap.mask => addr[i] = wrap.addr[i]
PortMatches(range, port) == OpMatches(range.op, ToBe(range.a), ToBe(range.b), port)

KernelMatches(r, p) ==
  /\ r.direction \in {"Any", p.dir}
  /\ r.af \in {"Any", p.af} /\ r.proto \in {"Any", p.proto}
  /\ p.proto = "Tcp" => r.flagset \cap p.flags = r.flags
  /\ AddrMatches(r.src.addr, p.src) /\ PortMatches(r.src.ports, p.sport)
  /\ AddrMatches(r.dst.addr, p.dst) /\ PortMatches(r.dst.ports, p.dport)
  /\ OpMatches(r.uid.op, r.uid.a, r.uid.b, p.uid)
  /\ r.type \in {0, p.type + 1} /\ r.code \in {0, p.code + 1}

\* What becomes of a packet that the rule is taken for: a dropped TCP packet is
\* answered with a reset if a flag of the rule says so.  (Whether an ICMP message
\* answers others depends on fields of pf_rule that the library leaves zero.)
KernelVerdict(r, p) ==
  CASE r.action = "DROP" -> IF p.proto = "Tcp" /\ r.ruleFlag \cap {"RETURN", "RETURNRST"} # {}
                              THEN "reset" ELSE "blocked"
    [] r.action = "PASS" -> "passed"
    [] r.action \in {"NAT", "RDR"} -> "translated"
    [] r.action \in {"NONAT", "NORDR"} -> "untranslated"
    [] r.action = "SCRUB" -> "normalized"
    [] r.action = "NOSCRUB" -> "unnormalized"

\* The target ports the kernel chooses from: the pool is in host order, a second port
\* of zero says that there is one, and without any the port of a packet stays.
KernelProxies(pool) ==
  CASE pool.b # 0 -> pool.a .. pool.b
    [] pool.b = 0 /\ pool.a # 0 -> {pool.a}
    [] OTHER -> {}

\* A reader of a C buffer stops at the first zero, or runs past the end.
PastTheEnd == <<0>>
CString(buffer) ==
  LET zeros == {i \in DOMAIN buffer : buffer[i] = 0}
  IN  IF zeros = {} THEN PastTheEnd ELSE SubSeq(buffer, 1, Min(zeros) - 1)

-----------------------------------------------------------------------------
(* What a rule means, in the caller's terms. *)

\* The numbers a selector stands for, of those in universe.
Denoted(s, universe) ==
  {x \in universe :
     CASE s.op = "Any" -> TRUE
       [] s.op = "Equal" -> x \in {s.a}
       [] s.op = "NotEqual" -> x \notin {s.a}
       [] s.op = "Greater" -> x \notin 0 .. s.a
       [] s.op = "Less" -> s.a \notin 0 .. x
       [] s.op = "GreaterOrEqual" -> s.a \in 0 .. x
       [] s.op = "LessOrEqual" -> x \in 0 .. s.a
       [] s.op = "Exclusive" -> x \in s.a + 1 .. s.b - 1
       [] s.op = "Inclusive" -> x \in s.a .. s.b
       [] s.op = "Except" -> x \notin s.a .. s.b}

Contains(ip, p, addr) ==
  \/ ip.af = "Any"
  \/ ip.af = p.af /\ SubSeq(addr, 1, ip.prefix) = SubSeq(ip.addr, 1, ip.prefix)

Means(r, p) ==
  /\ r.direction \in {"Any", p.dir}
  /\ r.af \in {"Any", p.af} /\ r.proto \in {"Any", p.proto}
  /\ p.proto = "Tcp" => \A flag \in TcpFlag \ {"Any"} :
                          flag \in r.flags.check <=> flag \in r.flags.mask \cap p.flags
  /\ r.target.set = "set" => r.target.ip.af \in {"Any", p.af}
  /\ Contains(r.from.ip, p, p.src) /\ p.sport \in Denoted(r.from.port, Ports)
  /\ Contains(r.to.ip, p, p.dst) /\ p.dport \in Denoted(r.to.port, Ports)
  /\ p.uid \in Denoted(r.user, {p.uid})
  /\ \/ r.icmp = NoIcmp
     \/ RawType(r.icmp) = p.type /\ (HasCode(r.icmp) => r.icmp.arg = p.code)

-----------------------------------------------------------------------------
(* Properties. *)

\* The kernel takes an accepted rule for the packets the caller meant it for:
\* whatever way the family was worked out, whichever byte order a field has,
\* at both ends of every range, and for the values that zero could hide.
MatchesAsMeant ==
  result.tag = "ok" =>
    \A p \in Packets : KernelMatches(result.rule, p) <=> Means(rule, p)

\* What the caller wants for a packet its rule is meant for, ICMP messages aside.
Verdict(r, p) ==
  CASE r.action = "Pass" -> "passed"
    [] r.action \in {"Return", "ReturnRst"} /\ p.proto = "Tcp" -> "reset"
    [] \/ r.action \in {"Drop", "ReturnIcmp"}
       \/ r.action \in {"Return", "ReturnRst"} /\ p.proto # "Tcp" -> "blocked"
    [] r.action = "Redirect" \/ (r.kind = "nat" /\ r.target # NoTarget) -> "translated"
    [] r.action = "NoRedirect" \/ (r.kind = "nat" /\ r.target = NoTarget) -> "untranslated"
    [] r.action = "Scrub" -> "normalized"
    [] r.action = "NoScrub" -> "unnormalized"

\* An accepted rule does to each packet it is meant for what its action says, with
\* the answer it asks for.  Action and answer are two fields of a pf_rule, and the
\* action of a NAT rule is made of its target.
VerdictAsMeant ==
  result.tag = "ok" =>
    \A p \in Packets : Means(rule, p) => KernelVerdict(result.rule, p) = Verdict(rule, p)

\* The families a rule names.
FamiliesOf(r) ==
  ({r.af, r.from.ip.af, r.to.ip.af}
     \cup IF r.target.set = "set" THEN {r.target.ip.af} ELSE {}) \ {"Any"}

\* What is wrong with a rule, by the documentation of ErrorKind.
Reasons(r) ==
  UNION {
    IF r.action = "unset" \/ r.target.set = "unset" THEN {"UninitializedFieldError"} ELSE {},
    IF Cardinality(FamiliesOf(r)) > 1 THEN {"InvalidRuleCombination"} ELSE {},
    IF r.policy \in {"Modulate", "SynProxy"} /\ r.proto # "Tcp"
      THEN {"InvalidRuleCombination"} ELSE {},
    IF CString(Buffer(r.interface, NameSize)) # r.interface THEN {"InvalidInterfaceName"} ELSE {},
    IF CString(Buffer(r.label, LabelSize)) # r.label THEN {"InvalidLabel"} ELSE {},
    IF \E port \in {r.from.port, r.to.port, r.target.port} :
         port.op \in RangeOps /\ port.a .. port.b = {}
      THEN {"InvalidPortRange"} ELSE {} }

\* A rule is refused exactly if something is wrong with it, and the error says
\* one of the things that are: no check is lost in a chain of them.
RefusedForCause ==
  /\ result.tag = "ok" => Reasons(rule) = {}
  /\ result.tag = "err" => result.kind \in Reasons(rule)

\* A rule that is refused for its families is one that no packet could match.
RefusedRulesAreVoid ==
  result.tag = "err" /\ result.kind = Clash /\ PolicyFits(rule) =>
    \A p \in Packets : ~Means(rule, p)

\* The kernel reads back the interface name and the label the caller gave, from
\* buffers that have room for the terminator.
TextKept ==
  result.tag = "ok" =>
    /\ CString(result.rule.ifname) = rule.interface
    /\ CString(result.rule.label) = rule.label

\* The target ports of a NAT or redirect rule reach the pool as they were given:
\* there the kernel expects them in host order.  (Port 0 alone is no target.)
PoolAsMeant ==
  LET port == rule.target.port
  IN  result.tag = "ok" /\ port.op \in {"Equal", "Inclusive"} /\ {port.a, port.b} # {0} =>
        KernelProxies(result.rule.pool) = Denoted(port, Ports)

-----------------------------------------------------------------------------
(* The inductive invariant: the rule is well typed, for its kind, and the  *)
(* result is that of the rule as it is.                                    *)

RuleTyped(r) ==
  /\ r.kind \in RuleKinds /\ DOMAIN r = FieldNames \cup {"kind"}
  /\ \A f \in FieldNames \ {"action", "target"} : r[f] \in FieldTypes[f]
  /\ r.action \in IF r.kind = "nat" THEN {"none"} ELSE Actions[r.kind] \cup {"unset"}
  /\ r.kind \in {"filter", "scrub"} => r.target = NoTarget
  /\ r.kind = "nat" => r.target \in FieldTypes["target"] \cup {UnsetTarget}
  /\ r.kind = "redirect" => r.target \in (FieldTypes["target"] \ {NoTarget}) \cup {UnsetTarget}

IInv ==
  /\ caller \in Callers /\ RuleTyped(rule)
  /\ result = NotConverted \/ result = Converted(rule)
=============================================================================
