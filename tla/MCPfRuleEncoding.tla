-------------------------- MODULE MCPfRuleEncoding --------------------------
(***************************************************************************)
(* PfRuleEncoding, and PfStateView over it, with bytes of three values and *)
(* IPv6 addresses of two words.  There is a caller for each group of       *)
(* fields: families and addresses, the ports of a rule, those of a target, *)
(* actions with what goes with them, and the rest.  It leaves the other    *)
(* fields alone.                                                           *)
(***************************************************************************)
EXTENDS PfStateView

Word == {1, 2}
AllIps ==
  {AnyIp} \cup {[af |-> "Ipv4", addr |-> <<w>>, prefix |-> n] : w \in Word, n \in 0 .. 1}
          \cup {[af |-> "Ipv6", addr |-> <<w, 1>>, prefix |-> n] : w \in Word, n \in 0 .. 2}
SomeIps == {AnyIp, [af |-> "Ipv4", addr |-> <<1>>, prefix |-> 1],
            [af |-> "Ipv6", addr |-> <<1, 1>>, prefix |-> 2]}

\* Zero, one byte, two bytes, and the largest port.
SomePorts == {0, 1, Byte, Byte + 2, Byte * Byte - 1}

Default == DefaultRule("filter")
\* These fields vary, and the others do not.
Varying(fields) ==
  [f \in FieldNames |->
     CASE f \in DOMAIN fields -> fields[f]
       [] f \notin DOMAIN fields /\ f = "target" -> {Target(AnyEndpoint)}
       [] f \notin DOMAIN fields /\ f = "action" -> {"Pass", "Redirect", "Scrub"}
       [] OTHER -> {Default[f]}]

FamilyValues == Varying(
  [policy |-> {"Keep"}, af |-> {"Any", "Ipv4", "Ipv6"},
   from |-> Endpoints(AllIps, {AnySelector}), to |-> Endpoints(AllIps, {AnySelector}),
   target |-> {NoTarget} \cup {NatTarget(ip) : ip \in SomeIps}])

PortValues == Varying(
  [policy |-> {"Keep"}, from |-> Endpoints({AnyIp}, Selectors(SomePorts)),
   to |-> Endpoints({AnyIp}, {AnySelector, [op |-> "Less", a |-> 4, b |-> 0],
                              [op |-> "Inclusive", a |-> 5, b |-> 3]}),
   target |-> {Target(AnyEndpoint)}])

TargetValues == Varying(
  [target |-> {NatTarget(AnyIp)} \cup
              {Target(e) : e \in Endpoints({AnyIp}, Selectors(SomePorts))}])

Texts == UNION {[1 .. n -> {0, 1}] : n \in 0 .. 3}
FieldValues == Varying(
  [policy |-> {"None", "Keep", "Modulate", "SynProxy"}, proto |-> {"Any", "Tcp", "Icmp"},
   interface |-> {<<>>, <<1, 1>>, <<1, 0>>}, label |-> Texts,
   user |-> {AnySelector, [op |-> "Equal", a |-> 0, b |-> 0],
             [op |-> "Except", a |-> 1, b |-> 2], [op |-> "Inclusive", a |-> 2, b |-> 1]},
   icmp |-> {NoIcmp, [kind |-> "EchoRep", arg |-> 0], [kind |-> "EchoReq", arg |-> 0],
             [kind |-> "Timex", arg |-> 1], [kind |-> "Icmp6", arg |-> 135]}
            \cup {[kind |-> "Unreach", arg |-> code] : code \in 0 .. 1}])

ActionValues == Varying(
  [action |-> UNION {Actions[k] : k \in RuleKinds}, target |-> {NoTarget, Target(AnyEndpoint)},
   direction |-> {"Any", "In", "Out"}, proto |-> {"Any", "Tcp"}, policy |-> {"None", "Keep"},
   route |-> {"NoRoute", "RouteTo"}, log |-> {{}, {"IncludeMatchingState"}},
   flags |-> {AnyFlags, [check |-> {"Any"}, mask |-> {"Any", "Syn"}],
              [check |-> {"Syn"}, mask |-> {"Syn", "Ack"}], [check |-> {"Ack"}, mask |-> {"Syn"}]}])

MCValues == [actions |-> ActionValues, families |-> FamilyValues, ports |-> PortValues,
             targets |-> TargetValues, fields |-> FieldValues]

SomePacket ==
  [dir |-> "In", flags |-> {}, af |-> "Ipv4", src |-> <<1>>, dst |-> <<1>>, sport |-> 1, dport |-> 1,
   proto |-> "Icmp", uid |-> 0, type |-> 8, code |-> 0]

FamilyPackets ==
  {[SomePacket EXCEPT !.src = <<v>>, !.dst = <<w>>] : v, w \in Word} \cup
  {[SomePacket EXCEPT !.af = "Ipv6", !.src = <<u, v>>, !.dst = <<w, 1>>] : u, v, w \in Word}

\* With a type that no rule names.
PortPackets ==
  {[SomePacket EXCEPT !.proto = "Tcp", !.type = 200, !.sport = s, !.dport = d] :
     s \in Ports, d \in {1, 4}}

FieldPackets ==
  {[SomePacket EXCEPT !.uid = u, !.type = t, !.code = c] :
     u \in 0 .. 3, t \in {0, 3, 8, 11, 135}, c \in 0 .. 2}

FlagPackets ==
  {[SomePacket EXCEPT !.proto = "Tcp", !.dir = d, !.flags = f] :
     d \in {"In", "Out"}, f \in SUBSET {"Syn", "Ack"}} \cup
  {[SomePacket EXCEPT !.proto = "Esp"]}

MCPackets == FamilyPackets \cup PortPackets \cup FieldPackets \cup FlagPackets
=============================================================================
