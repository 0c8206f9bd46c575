------------------------ MODULE PfRuleEncodingProofs ------------------------
(***************************************************************************)
(* Proofs about PfRuleEncoding and PfStateView: for bytes, addresses and   *)
(* buffers of any size, any callers and any packets.                       *)
(***************************************************************************)
EXTENDS PfStateView, FiniteSetTheorems, WellFoundedInduction, TLAPS

-----------------------------------------------------------------------------
(* The rule that is built is well typed. *)

LEMMA FieldsOf ==
  /\ \A k \in RuleKinds : Fields[k] \subseteq FieldNames
  /\ \A k \in RuleKinds : "target" \in Fields[k] => k \in {"nat", "redirect"}
  /\ \A k \in RuleKinds : "action" \in Fields[k] => k # "nat"
BY DEF Fields, FieldNames, RuleKinds

LEMMA FieldNamesAre ==
  FieldNames = {"af", "from", "to", "interface", "action", "direction", "quick", "log", "proto",
                "label", "user", "policy", "icmp", "route", "flags", "target"}
BY DEF Fields, FieldNames, RuleKinds

LEMMA DefaultTyped ==
  ASSUME NEW kind \in RuleKinds
  PROVE  RuleTyped(DefaultRule(kind))
<1> DEFINE r == DefaultRule(kind)
<1>1. AnyEndpoint \in Endpoints(Ips, PortSelectors)
  BY DEF AnyEndpoint, Endpoints, Ips, PortSelectors, Selectors
<1>2. /\ r.af \in FieldTypes["af"] /\ r.from \in FieldTypes["from"] /\ r.to \in FieldTypes["to"]
      /\ r.interface \in FieldTypes["interface"] /\ r.label \in FieldTypes["label"]
      /\ r.direction \in FieldTypes["direction"] /\ r.quick \in FieldTypes["quick"]
      /\ r.log \in FieldTypes["log"] /\ r.proto \in FieldTypes["proto"]
      /\ r.user \in FieldTypes["user"] /\ r.policy \in FieldTypes["policy"]
      /\ r.icmp \in FieldTypes["icmp"] /\ r.route \in FieldTypes["route"]
      /\ r.flags \in FieldTypes["flags"]
  BY <1>1 DEF DefaultRule, FieldTypes, Protos, Policies, Selectors, IcmpTypes, AnyFlags
<1>3. DOMAIN r = FieldNames \cup {"kind"} /\ r.kind = kind
  BY FieldNamesAre DEF DefaultRule
<1>4. /\ r.action \in IF kind = "nat" THEN {"none"} ELSE Actions[kind] \cup {"unset"}
      /\ kind \in {"filter", "scrub"} => r.target = NoTarget
      /\ kind \in {"nat", "redirect"} => r.target = UnsetTarget
  BY DEF DefaultRule
<1>5. \A f \in FieldNames \ {"action", "target"} : r[f] \in FieldTypes[f]
  <2> HIDE DEF r
  <2> QED BY <1>2, FieldNamesAre
<1> HIDE DEF r
<1>6. r.kind = "nat" => r.target \in FieldTypes["target"] \cup {UnsetTarget}
  BY <1>3, <1>4
<1>7. r.kind = "redirect" =>
        r.target \in (FieldTypes["target"] \ {NoTarget}) \cup {UnsetTarget}
  BY <1>3, <1>4
<1> QED BY <1>3, <1>4, <1>5, <1>6, <1>7 DEF RuleTyped, r

LEMMA SetTyped ==
  ASSUME RuleTyped(rule), caller \in Callers,
         NEW field \in Fields[rule.kind], NEW value \in Values[caller][field], Set(field, value)
  PROVE  RuleTyped(rule')
<1>1. /\ rule.kind \in RuleKinds /\ field \in FieldNames /\ value \in FieldTypes[field]
      /\ DOMAIN rule = FieldNames \cup {"kind"} /\ field # "kind"
  BY ValuesAssumption, FieldsOf, FieldNamesAre DEF RuleTyped
<1>2. rule' = [rule EXCEPT ![field] = value]
  BY DEF Set
<1>3. DOMAIN rule' = DOMAIN rule /\ rule'["kind"] = rule.kind
      /\ \A f \in FieldNames : rule'[f] = IF f = field THEN value ELSE rule[f]
  BY <1>1, <1>2
<1>4. \A f \in FieldNames \ {"action", "target"} : rule'[f] \in FieldTypes[f]
  BY <1>1, <1>3 DEF RuleTyped
<1>5. rule'["action"] \in IF rule.kind = "nat" THEN {"none"} ELSE Actions[rule.kind] \cup {"unset"}
  BY <1>1, <1>3, FieldsOf, FieldNamesAre DEF RuleTyped, Set
<1>6. /\ rule.kind \in {"filter", "scrub"} => rule'["target"] = NoTarget
      /\ rule.kind = "nat" => rule'["target"] \in FieldTypes["target"] \cup {UnsetTarget}
      /\ rule.kind = "redirect" =>
           rule'["target"] \in (FieldTypes["target"] \ {NoTarget}) \cup {UnsetTarget}
  BY <1>1, <1>3, FieldsOf, FieldNamesAre DEF RuleTyped, Set
<1> QED BY <1>1, <1>3, <1>4, <1>5, <1>6 DEF RuleTyped

\* What the caller builds is well typed for its kind, and the result of the last
\* conversion is that of the rule as it is now.
THEOREM Invariant == Spec => []IInv
<1>1. Init => IInv
  BY DefaultTyped DEF Init, IInv
<1>2. IInv /\ [Next]_vars => IInv'
  <2> SUFFICES ASSUME IInv, [Next]_vars
               PROVE  IInv'
    OBVIOUS
  <2>1. ASSUME NEW field \in Fields[rule.kind], NEW value \in Values[caller][field],
               Set(field, value)
        PROVE  IInv'
    BY <2>1, SetTyped DEF IInv, Set
  <2>2. CASE Convert
    BY <2>2 DEF Convert, IInv
  <2>3. CASE UNCHANGED vars
    BY <2>3 DEF vars, IInv
  <2> QED BY <2>1, <2>2, <2>3 DEF Next
<1> QED BY <1>1, <1>2, PTL DEF Spec

-----------------------------------------------------------------------------
(* Texts and their buffers. *)

LEMMA MinOf ==
  ASSUME NEW S \in SUBSET Nat, S # {}
  PROVE  Min(S) \in S /\ \A y \in S : Min(S) <= y
<1> DEFINE less == OpToRel(<, Nat)
<1>1. IsWellFoundedOn(less, Nat)
  BY NatLessThanWellFounded
<1>2. \A x, y \in Nat : <<x, y>> \in less <=> x < y
  BY DEF OpToRel
<1> HIDE DEF less
<1>3. PICK x \in S : \A y \in S : <<y, x>> \notin less
  BY <1>1, WFMin
<1>4. \A y \in S : x <= y
  <2> TAKE y \in S
  <2>1. y \in Nat /\ x \in Nat /\ <<y, x>> \notin less
    BY <1>3
  <2>2. ~ (y < x)
    BY <2>1, <1>2
  <2> QED BY <2>1, <2>2
<1> QED BY <1>4 DEF Min

\* A reader of the buffer gets the text back exactly if the text fits.
LEMMA CStringOfBuffer ==
  ASSUME NEW text \in Seq(Nat), NEW size \in Nat \ {0}
  PROVE  CString(Buffer(text, size)) = text <=> Fits(text, size)
<1> DEFINE buffer == Buffer(text, size)
           zeros == {i \in DOMAIN buffer : buffer[i] = 0}
<1>1. /\ DOMAIN buffer = 1 .. size
      /\ \A i \in 1 .. size : buffer[i] = IF i <= Len(text) THEN text[i] ELSE 0
  BY DEF Buffer
<1>2. buffer \in Seq(Nat) /\ Len(buffer) = size
  BY DEF Buffer
<1>3. zeros \in SUBSET (1 .. size) /\ \A i \in 1 .. size : i \in zeros <=> buffer[i] = 0
  BY <1>1
<1>4. CString(buffer) = IF zeros = {} THEN PastTheEnd ELSE SubSeq(buffer, 1, Min(zeros) - 1)
  BY DEF CString
<1>5. zeros # {} => Min(zeros) \in zeros /\ \A y \in zeros : Min(zeros) <= y
  <2>1. zeros \in SUBSET Nat
    BY <1>3
  <2> HIDE DEF zeros
  <2> QED BY <2>1, MinOf
<1> HIDE DEF buffer, zeros
<1>6. ASSUME Fits(text, size)
      PROVE  CString(buffer) = text
  <2>1. Len(text) + 1 \in zeros /\ \A i \in zeros : i > Len(text)
    BY <1>1, <1>3, <1>6 DEF Fits
  <2>2. Min(zeros) = Len(text) + 1
    <3>1. zeros # {} /\ Len(text) \in Nat
      BY <2>1
    <3>2. Min(zeros) \in zeros /\ Min(zeros) <= Len(text) + 1
      BY <2>1, <3>1, <1>5
    <3>3. \A m \in zeros : m \in Int /\ m > Len(text)
      BY <2>1, <1>3
    <3> QED BY <3>1, <3>2, <3>3
  <2>3. SubSeq(buffer, 1, Len(text)) = text
    BY <1>1, <1>2, <1>6 DEF Fits
  <2> QED BY <1>4, <2>1, <2>2, <2>3
<1>7. ASSUME CString(buffer) = text
      PROVE  Fits(text, size)
  <2>1. CASE zeros = {}
    <3>1. text = <<0>>
      BY <2>1, <1>4, <1>7 DEF PastTheEnd
    <3>2. buffer[1] = 0
      BY <3>1, <1>1
    <3> QED BY <2>1, <3>2, <1>3
  <2>2. CASE zeros # {}
    <3> DEFINE m == Min(zeros)
    <3>1. m \in 1 .. size /\ m \in zeros /\ \A y \in zeros : m <= y
      BY <2>2, <1>3, <1>5
    <3>2. text = SubSeq(buffer, 1, m - 1)
      BY <2>2, <1>4, <1>7
    <3> HIDE DEF m
    <3>3. Len(text) = m - 1
      BY <3>1, <3>2, <1>2
    <3>4. \A i \in DOMAIN text : text[i] # 0
      <4> SUFFICES ASSUME NEW i \in DOMAIN text, text[i] = 0
                   PROVE  FALSE
        OBVIOUS
      <4>1. i \in 1 .. size /\ i < m /\ i <= Len(text)
        BY <3>1, <3>3
      <4>2. i \in zeros
        BY <4>1, <1>1, <1>3
      <4> QED BY <4>1, <4>2, <3>1
    <3> QED BY <3>1, <3>3, <3>4 DEF Fits
  <2> QED BY <2>1, <2>2
<1> QED BY <1>6, <1>7 DEF buffer
-----------------------------------------------------------------------------
(* Rules that are refused. *)

LEMMA FieldsTyped ==
  ASSUME NEW r, RuleTyped(r)
  PROVE  /\ r.kind \in RuleKinds /\ r.af \in Families \cup {"Any"}
         /\ r.from \in Endpoints(Ips, PortSelectors) /\ r.to \in Endpoints(Ips, PortSelectors)
         /\ r.interface \in Seq(Nat) /\ r.label \in Seq(Nat)
         /\ r.direction \in {"Any", "In", "Out"} /\ r.proto \in Protos
         /\ r.user \in Selectors(Nat) /\ r.policy \in Policies /\ r.icmp \in IcmpTypes
         /\ r.flags \in [check : SUBSET TcpFlag, mask : SUBSET TcpFlag]
         /\ r.target \in [ip : Ips, port : PortSelectors, set : {"none", "unset", "set"}]
<1>1. \A f \in {"af", "from", "to", "interface", "label", "direction", "proto", "user", "policy",
                "icmp", "flags"} : r[f] \in FieldTypes[f]
  BY FieldNamesAre DEF RuleTyped
<1>2. r.target \in FieldTypes["target"] \cup {NoTarget, UnsetTarget}
  BY DEF RuleTyped, RuleKinds
<1>3. {NoTarget, UnsetTarget} \subseteq [ip : Ips, port : PortSelectors, set : {"none", "unset"}]
  BY DEF NoTarget, UnsetTarget, Ips, PortSelectors, Selectors
<1>4. r.target \in [ip : Ips, port : PortSelectors, set : {"none", "unset", "set"}]
  BY <1>2, <1>3 DEF FieldTypes
<1>5. r.kind \in RuleKinds
  BY DEF RuleTyped
<1> QED BY <1>1, <1>4, <1>5 DEF FieldTypes

LEMMA FamilyOfIp ==
  ASSUME NEW ip \in Ips
  PROVE  ip.af \in Families \cup {"Any"} /\ (ip.af = "Any" => ip = AnyIp)
BY DEF Ips, Families, AnyIp

\* An endpoint that names a family decides; two that name different ones clash.
LEMMA CompatibleAfIs ==
  ASSUME NEW x \in Families \cup {"Any", Clash}, NEW y \in Families \cup {"Any", Clash}
  PROVE  /\ CompatibleAf(x, y) \in Families \cup {"Any", Clash}
         /\ \A f \in Families : CompatibleAf(x, y) \in {"Any", f} <=>
                                  x \in {"Any", f} /\ y \in {"Any", f}
BY DEF CompatibleAf, Families, Clash

LEMMA RuleAfIs ==
  ASSUME NEW r, RuleTyped(r)
  PROVE  /\ RuleAf(r) \in Families \cup {"Any", Clash}
         /\ FamiliesOf(r) \subseteq Families
         /\ \A f \in Families : RuleAf(r) \in {"Any", f} <=> FamiliesOf(r) \subseteq {f}
<1> DEFINE all == Families \cup {"Any", Clash}
           endpoints == EndpointsAf(r)
           withTarget == IF r.target.set = "set" THEN TargetAf(r) ELSE EndpointsAf(r)
<1>1. /\ {r.af, r.from.ip.af, r.to.ip.af, r.target.ip.af} \subseteq Families \cup {"Any"}
  BY FieldsTyped, FamilyOfIp DEF Endpoints
<1>2. RuleAf(r) = CompatibleAf(r.af, withTarget)
  BY DEF RuleAf
<1>3. endpoints \in all /\ withTarget \in all /\ RuleAf(r) \in all
  BY <1>1, <1>2, CompatibleAfIs DEF EndpointsAf, TargetAf
<1>4. FamiliesOf(r) \subseteq Families
  BY <1>1 DEF FamiliesOf
<1>5. ASSUME NEW f \in Families
      PROVE  RuleAf(r) \in {"Any", f} <=> FamiliesOf(r) \subseteq {f}
  <2>1. endpoints \in {"Any", f} <=> r.from.ip.af \in {"Any", f} /\ r.to.ip.af \in {"Any", f}
    BY <1>1, CompatibleAfIs DEF EndpointsAf
  <2>2. withTarget \in {"Any", f} <=>
          endpoints \in {"Any", f} /\ (r.target.set = "set" => r.target.ip.af \in {"Any", f})
    BY <1>1, <1>3, CompatibleAfIs DEF TargetAf
  <2>3. RuleAf(r) \in {"Any", f} <=> r.af \in {"Any", f} /\ withTarget \in {"Any", f}
    BY <1>1, <1>2, <1>3, CompatibleAfIs
  <2>4. FamiliesOf(r) \subseteq {f} <=>
          /\ r.af \in {"Any", f} /\ r.from.ip.af \in {"Any", f} /\ r.to.ip.af \in {"Any", f}
          /\ r.target.set = "set" => r.target.ip.af \in {"Any", f}
    BY <1>1 DEF FamiliesOf
  <2> QED BY <2>1, <2>2, <2>3, <2>4
<1> QED BY <1>3, <1>4, <1>5

\* The families clash if and only if the rule names more than one.
LEMMA ClashIs ==
  ASSUME NEW r, RuleTyped(r)
  PROVE  RuleAf(r) = Clash <=> Cardinality(FamiliesOf(r)) > 1
<1> DEFINE families == FamiliesOf(r)
<1>1. families \subseteq {"Ipv4", "Ipv6"}
  BY RuleAfIs DEF Families
<1>2. RuleAf(r) = Clash <=> \A f \in Families : RuleAf(r) \notin {"Any", f}
  BY RuleAfIs DEF Families, Clash
<1>3. RuleAf(r) = Clash <=> \A f \in Families : ~(families \subseteq {f})
  BY <1>2, RuleAfIs
<1> HIDE DEF families
<1>4. RuleAf(r) = Clash <=> families = {"Ipv4", "Ipv6"}
  <2>1. (\A f \in Families : ~(families \subseteq {f})) <=> families = {"Ipv4", "Ipv6"}
    <3>1. \A f \in Families : ~(families \subseteq {f}) <=> \E x \in families : x # f
      OBVIOUS
    <3>2. \A x \in families : x \in {"Ipv4", "Ipv6"}
      BY <1>1
    <3>3. families = {"Ipv4", "Ipv6"} <=> "Ipv4" \in families /\ "Ipv6" \in families
      BY <3>2
    <3> QED BY <3>1, <3>2, <3>3 DEF Families
  <2> QED BY <2>1, <1>3
<1>5. Cardinality({"Ipv4", "Ipv6"}) = 2
  <2>1. {"Ipv4", "Ipv6"} = {"Ipv4"} \cup {"Ipv6"}
    OBVIOUS
  <2>2. IsFiniteSet({"Ipv4"}) /\ Cardinality({"Ipv4"}) = 1 /\ "Ipv6" \notin {"Ipv4"}
    BY FS_Singleton
  <2>3. Cardinality({"Ipv4"} \cup {"Ipv6"}) =
          IF "Ipv6" \in {"Ipv4"} THEN Cardinality({"Ipv4"}) ELSE Cardinality({"Ipv4"}) + 1
    BY <2>2, FS_AddElement
  <2> QED BY <2>1, <2>2, <2>3
<1>6. families # {"Ipv4", "Ipv6"} => families = {} \/ \E f : families = {f}
  BY <1>1
<1>7. families # {"Ipv4", "Ipv6"} => Cardinality(families) \in {0, 1}
  BY <1>6, FS_EmptySet, FS_Singleton
<1> QED BY <1>4, <1>5, <1>7 DEF families
LEMMA ReversedIs ==
  ASSUME NEW port \in PortSelectors
  PROVE  Reversed(port) <=> port.op \in RangeOps /\ port.a .. port.b = {}
<1>1. port.a \in Nat /\ port.b \in Nat
  BY SizesAssumption DEF PortSelectors, Selectors, AnySelector, Ports
<1> QED BY <1>1 DEF Reversed

LEMMA ReasonsAre ==
  ASSUME NEW r, NEW reason
  PROVE  reason \in Reasons(r) <=>
           \/ reason = "UninitializedFieldError" /\ (r.action = "unset" \/ r.target.set = "unset")
           \/ reason = "InvalidRuleCombination" /\ Cardinality(FamiliesOf(r)) > 1
           \/ /\ reason = "InvalidRuleCombination"
              /\ r.policy \in {"Modulate", "SynProxy"} /\ r.proto # "Tcp"
           \/ /\ reason = "InvalidInterfaceName"
              /\ CString(Buffer(r.interface, NameSize)) # r.interface
           \/ reason = "InvalidLabel" /\ CString(Buffer(r.label, LabelSize)) # r.label
           \/ /\ reason = "InvalidPortRange"
              /\ \E port \in {r.from.port, r.to.port, r.target.port} :
                   port.op \in RangeOps /\ port.a .. port.b = {}
BY DEF Reasons

\* The eight checks, one by one, in terms of the reasons.
LEMMA ChecksAre ==
  ASSUME NEW r, RuleTyped(r)
  PROVE  /\ DOMAIN Checks(r) = 1 .. 8
         /\ \A i \in 1 .. 8 : Checks(r)[i] # "none" => Checks(r)[i] \in Reasons(r)
         /\ (\A i \in 1 .. 8 : Checks(r)[i] = "none") => Reasons(r) = {}
<1> DEFINE unset == r.action = "unset" \/ r.target.set = "unset"
           policy == r.policy \in {"Modulate", "SynProxy"} /\ r.proto # "Tcp"
           name == CString(Buffer(r.interface, NameSize)) # r.interface
           family == Cardinality(FamiliesOf(r)) > 1
           text == CString(Buffer(r.label, LabelSize)) # r.label
           empty(port) == port.op \in RangeOps /\ port.a .. port.b = {}
           from == empty(r.from.port)
           to == empty(r.to.port)
           target == empty(r.target.port)
<1>1. /\ r.from.port \in PortSelectors /\ r.to.port \in PortSelectors
      /\ r.target.port \in PortSelectors
      /\ r.interface \in Seq(Nat) /\ r.label \in Seq(Nat) /\ r.policy \in Policies
  BY FieldsTyped DEF Endpoints
<1>2. /\ ("unset" \in {r.action, r.target.set}) <=> unset
      /\ ~PolicyFits(r) <=> policy
      /\ ~Fits(r.interface, NameSize) <=> name
      /\ RuleAf(r) = Clash <=> family
      /\ Reversed(r.from.port) <=> from
      /\ Reversed(r.to.port) <=> to
      /\ ~Fits(r.label, LabelSize) <=> text
      /\ Reversed(r.target.port) <=> target
  <2>1. ~PolicyFits(r) <=> policy
    BY <1>1 DEF PolicyFits, Policies
  <2>2. (~Fits(r.interface, NameSize) <=> name) /\ (~Fits(r.label, LabelSize) <=> text)
    BY <1>1, CStringOfBuffer, SizesAssumption
  <2>3. RuleAf(r) = Clash <=> family
    BY ClashIs
  <2>4. /\ Reversed(r.from.port) <=> from
        /\ Reversed(r.to.port) <=> to
        /\ Reversed(r.target.port) <=> target
    BY <1>1, ReversedIs
  <2> QED BY <2>1, <2>2, <2>3, <2>4
<1>3. \A reason : reason \in Reasons(r) <=>
        \/ reason = "UninitializedFieldError" /\ unset
        \/ reason = "InvalidRuleCombination" /\ (family \/ policy)
        \/ reason = "InvalidInterfaceName" /\ name
        \/ reason = "InvalidLabel" /\ text
        \/ reason = "InvalidPortRange" /\ (from \/ to \/ target)
  BY ReasonsAre
<1> HIDE DEF unset, policy, name, family, text, from, to, target
<1>4. /\ DOMAIN Checks(r) = 1 .. 8
      /\ Checks(r)[1] = IF unset THEN "UninitializedFieldError" ELSE "none"
      /\ Checks(r)[2] = IF policy THEN "InvalidRuleCombination" ELSE "none"
      /\ Checks(r)[3] = IF name THEN "InvalidInterfaceName" ELSE "none"
      /\ Checks(r)[4] = IF family THEN "InvalidRuleCombination" ELSE "none"
      /\ Checks(r)[5] = IF from THEN "InvalidPortRange" ELSE "none"
      /\ Checks(r)[6] = IF to THEN "InvalidPortRange" ELSE "none"
      /\ Checks(r)[7] = IF text THEN "InvalidLabel" ELSE "none"
      /\ Checks(r)[8] = IF target THEN "InvalidPortRange" ELSE "none"
  BY <1>2 DEF Checks, Check
<1> HIDE DEF Checks, Reasons
<1>5. \A i \in 1 .. 8 : i \in {1, 2, 3, 4, 5, 6, 7, 8}
  OBVIOUS
<1>6. \A i \in 1 .. 8 : Checks(r)[i] # "none" => Checks(r)[i] \in Reasons(r)
  BY <1>3, <1>4, <1>5
<1>7. (\A i \in 1 .. 8 : Checks(r)[i] = "none") => Reasons(r) = {}
  BY <1>3, <1>4
<1> QED BY <1>4, <1>6, <1>7

\* A conversion fails with what one of its checks says, or gives the pf_rule.
LEMMA ConvertedIs ==
  ASSUME NEW r, RuleTyped(r)
  PROVE  \/ Converted(r) = Ok(PfRule(r)) /\ \A i \in 1 .. 8 : Checks(r)[i] = "none"
         \/ \E i \in 1 .. 8 : Checks(r)[i] # "none" /\ Converted(r) = Err(Checks(r)[i])
<1> DEFINE failed == {i \in DOMAIN Checks(r) : Checks(r)[i] # "none"}
<1>1. failed = {i \in 1 .. 8 : Checks(r)[i] # "none"} /\ failed \in SUBSET Nat
  BY ChecksAre
<1>2. Converted(r) = IF failed = {} THEN Ok(PfRule(r)) ELSE Err(Checks(r)[Min(failed)])
  BY DEF Converted
<1> HIDE DEF failed
<1>3. failed # {} => Min(failed) \in failed
  BY <1>1, MinOf
<1> QED BY <1>1, <1>2, <1>3

LEMMA ResultIs ==
  ASSUME IInv
  PROVE  /\ result.tag = "ok" => /\ result = Ok(PfRule(rule)) /\ result.rule = PfRule(rule)
                                 /\ \A i \in 1 .. 8 : Checks(rule)[i] = "none"
         /\ result.tag = "err" => \E i \in 1 .. 8 : /\ Checks(rule)[i] # "none"
                                                     /\ result.kind = Checks(rule)[i]
BY ConvertedIs DEF IInv, NotConverted, Ok, Err

LEMMA Causes ==
  ASSUME IInv
  PROVE  RefusedForCause
BY ResultIs, ChecksAre DEF IInv, RefusedForCause

\* A rule is refused exactly if something is wrong with it, and the error says one of
\* the things that are: whatever the sizes of the buffers and the values of the fields.
THEOREM RefusalsJustified == Spec => []RefusedForCause
BY Causes, Invariant, PTL

LEMMA NameAndLabel ==
  ASSUME IInv
  PROVE  TextKept
<1> SUFFICES ASSUME result.tag = "ok"
             PROVE  /\ CString(result.rule.ifname) = rule.interface
                    /\ CString(result.rule.label) = rule.label
  BY DEF TextKept
<1>1. RuleTyped(rule) /\ rule.interface \in Seq(Nat) /\ rule.label \in Seq(Nat)
  BY FieldsTyped DEF IInv
<1>2. Reasons(rule) = {}
  BY <1>1, ResultIs, ChecksAre
<1>3. /\ CString(Buffer(rule.interface, NameSize)) = rule.interface
      /\ CString(Buffer(rule.label, LabelSize)) = rule.label
  BY <1>2, ReasonsAre
<1>4. /\ result.rule.ifname = Buffer(rule.interface, NameSize)
      /\ result.rule.label = Buffer(rule.label, LabelSize)
  BY ResultIs DEF PfRule
<1> QED BY <1>3, <1>4

\* The kernel reads back the interface name and the label that the caller gave.
THEOREM TextsKept == Spec => []TextKept
BY NameAndLabel, Invariant, PTL
\* A packet that a rule is meant for has the one family that the rule names.
LEMMA MeantFamily ==
  ASSUME NEW r, RuleTyped(r), NEW p, Means(r, p)
  PROVE  FamiliesOf(r) \subseteq {p.af}
BY DEF Means, Contains, FamiliesOf

LEMMA Void ==
  ASSUME IInv
  PROVE  RefusedRulesAreVoid
<1> SUFFICES ASSUME result.tag = "err", result.kind = Clash, PolicyFits(rule),
                    NEW p \in Packets, Means(rule, p)
             PROVE  FALSE
  BY DEF RefusedRulesAreVoid
<1>1. RuleTyped(rule)
  BY DEF IInv
<1>2. RuleAf(rule) = Clash
  <2>1. PICK i \in 1 .. 8 : Checks(rule)[i] = Clash
    BY ResultIs
  <2>2. i = 4
    BY <2>1 DEF Checks, Check, Clash
  <2> QED BY <2>1, <2>2 DEF Checks, Check, Clash
<1>3. p.af \in Families /\ RuleAf(rule) \in {"Any", p.af}
  BY <1>1, MeantFamily, RuleAfIs, PacketsAssumption DEF PacketTyped
<1> QED BY <1>2, <1>3 DEF Families, Clash

\* No rule that could match a packet is refused for its families.
THEOREM RefusedAreVoid == Spec => []RefusedRulesAreVoid
BY Void, Invariant, PTL

LEMMA Pool ==
  ASSUME IInv
  PROVE  PoolAsMeant
<1> DEFINE port == rule.target.port
<1> SUFFICES ASSUME result.tag = "ok", port.op \in {"Equal", "Inclusive"}, {port.a, port.b} # {0}
             PROVE  KernelProxies(result.rule.pool) = Denoted(port, Ports)
  BY DEF PoolAsMeant
<1>1. port \in PortSelectors
  BY FieldsTyped DEF IInv
<1>2. ~Reversed(port)
  BY ResultIs DEF Checks, Check
<1>3. result.rule.pool = PoolPorts(port)
  BY ResultIs DEF PfRule
<1> HIDE DEF port
<1>4. /\ port.a \in Ports /\ port.b \in Ports /\ Ports \subseteq Nat
      /\ port.a \in Nat /\ port.b \in Nat
      /\ port.op = "Equal" => port.b = 0
  BY <1>1, SizesAssumption DEF PortSelectors, Selectors, AnySelector, Ports, RangeOps
<1>5. CASE port.op = "Equal"
  BY <1>3, <1>4, <1>5 DEF KernelProxies, PoolPorts, Denoted
<1>6. CASE port.op = "Inclusive"
  <2>1. port.a <= port.b
    BY <1>2, <1>4, <1>6 DEF Reversed, RangeOps
  <2>2. KernelProxies(result.rule.pool) = port.a .. port.b
    <3>1. port.b # 0
      BY <1>4, <2>1
    <3> QED BY <1>3, <3>1 DEF KernelProxies, PoolPorts
  <2>3. Denoted(port, Ports) = {x \in Ports : x \in port.a .. port.b}
    BY <1>6 DEF Denoted
  <2>4. \A x \in port.a .. port.b : x \in Ports
    BY <1>4, SizesAssumption DEF Ports
  <2> QED BY <2>2, <2>3, <2>4
<1> QED BY <1>5, <1>6

\* The target ports reach the pool as they were given.
THEOREM PoolMeant == Spec => []PoolAsMeant
BY Pool, Invariant, PTL

LEMMA Verdicts ==
  ASSUME IInv
  PROVE  VerdictAsMeant
<1> SUFFICES ASSUME result.tag = "ok", NEW p \in Packets, Means(rule, p)
             PROVE  KernelVerdict(result.rule, p) = Verdict(rule, p)
  BY DEF VerdictAsMeant
<1>1. /\ rule.kind \in RuleKinds /\ rule.action # "unset" /\ rule.target.set # "unset"
      /\ rule.action \in IF rule.kind = "nat" THEN {"none"} ELSE Actions[rule.kind] \cup {"unset"}
  BY ResultIs DEF IInv, RuleTyped, Checks, Check
<1>2. /\ result.rule.action = ActionCode(rule)
      /\ result.rule.ruleFlag = RuleFlags(rule.action)
  BY ResultIs DEF PfRule
<1>3. CASE rule.kind = "filter"
  <2>1. rule.action \in {"Pass", "Drop", "Return", "ReturnRst", "ReturnIcmp"}
    BY <1>1, <1>3 DEF Actions, DropActions
  <2>2. CASE rule.action = "Pass"
    BY <1>2, <1>3, <2>2 DEF ActionCode, KernelVerdict, Verdict, DropActions
  <2>3. ASSUME rule.action \in DropActions
        PROVE  /\ result.rule.action = "DROP"
               /\ result.rule.ruleFlag \cap {"RETURN", "RETURNRST"} # {} <=>
                    rule.action \in {"Return", "ReturnRst"}
    BY <1>2, <2>3 DEF ActionCode, RuleFlags, DropActions
  <2>4. CASE rule.action \in DropActions
    BY <1>3, <2>3, <2>4 DEF KernelVerdict, Verdict, DropActions
  <2> QED BY <2>1, <2>2, <2>4 DEF DropActions
<1>4. CASE rule.kind = "nat"
  <2>1. rule.action = "none" /\ (rule.target.set = "set" <=> rule.target # NoTarget)
    <3>1. rule.target \in FieldTypes["target"] \cup {UnsetTarget}
      BY <1>4 DEF IInv, RuleTyped
    <3> QED BY <1>1, <1>4, <3>1 DEF FieldTypes, NoTarget, UnsetTarget
  <2> QED BY <1>2, <1>4, <2>1 DEF ActionCode, KernelVerdict, Verdict, DropActions
<1>5. CASE rule.kind \in {"redirect", "scrub"}
  <2>1. rule.action \in {"Redirect", "NoRedirect", "Scrub", "NoScrub"}
    BY <1>1, <1>5 DEF Actions
  <2> QED BY <1>2, <1>5, <2>1 DEF ActionCode, KernelVerdict, Verdict, DropActions
<1> QED BY <1>1, <1>3, <1>4, <1>5 DEF RuleKinds

\* An accepted rule does to a packet what its action says, with the answer it asks for.
THEOREM VerdictsMeant == Spec => []VerdictAsMeant
BY Verdicts, Invariant, PTL
-----------------------------------------------------------------------------
(* Rules that are accepted: what the kernel makes of the fields. *)

LEMMA MultiplesApart ==
  ASSUME NEW n \in Nat, NEW x \in Nat, NEW y \in Nat, x < y
  PROVE  x * n + n <= y * n
<1>1. \A k \in Nat : 0 <= k * n
  OBVIOUS
<1>2. y - x - 1 \in Nat /\ 0 <= (y - x - 1) * n
  BY <1>1
<1>3. (y - x - 1) * n = y * n - x * n - n
  OBVIOUS
<1> QED BY <1>2, <1>3

\* Swapping the two bytes of a port twice gives the port.
LEMMA ToBeTwice ==
  ASSUME NEW x \in Ports
  PROVE  ToBe(x) \in Ports /\ ToBe(ToBe(x)) = x
<1> DEFINE high == x \div Byte
           low == x % Byte
           swapped == low * Byte + high
<1>1. Byte \in Nat /\ x \in Nat /\ x < Byte * Byte
  BY SizesAssumption DEF Ports
<1>2. Byte > 0
  BY <1>1
<1>3. low \in 0 .. Byte - 1 /\ high \in Int /\ x = Byte * high + low
  BY <1>1, <1>2
<1>4. ToBe(x) = swapped
  BY DEF ToBe
<1> HIDE DEF high, low
<1>5. high \in 0 .. Byte - 1
  <2>1. high >= 0
    <3> SUFFICES ASSUME -high \in Nat, 0 < -high PROVE FALSE
      BY <1>3
    <3>1. 0 * Byte + Byte <= (-high) * Byte
      BY <1>1, MultiplesApart
    <3> QED BY <1>1, <1>3, <3>1
  <2>2. high < Byte
    <3> SUFFICES ASSUME Byte <= high PROVE FALSE
      BY <1>1, <1>3
    <3>1. Byte * Byte <= high * Byte
      BY <1>1, <1>3, <2>1, MultiplesApart
    <3> QED BY <1>1, <1>3, <3>1
  <2> QED BY <2>1, <2>2, <1>1, <1>3
<1>6. swapped \div Byte = low /\ swapped % Byte = high
  <2> DEFINE q == swapped \div Byte
             m == swapped % Byte
  <2>1. swapped \in Nat
    BY <1>1, <1>3, <1>5
  <2> HIDE DEF swapped
  <2>2. m \in 0 .. Byte - 1 /\ q \in Int /\ swapped = Byte * q + m
    BY <1>1, <1>2, <2>1
  <2> HIDE DEF q, m
  <2>3. low * Byte + high = q * Byte + m
    BY <2>2, <1>1, <1>3 DEF swapped
  <2>4. q >= 0
    <3> SUFFICES ASSUME -q \in Nat, 0 < -q PROVE FALSE
      BY <2>2
    <3>1. 0 * Byte + Byte <= (-q) * Byte
      BY <1>1, MultiplesApart
    <3> QED BY <1>1, <2>1, <2>2, <3>1
  <2>5. ~(low < q)
    <3> SUFFICES ASSUME low < q PROVE FALSE
      OBVIOUS
    <3>1. low * Byte + Byte <= q * Byte
      BY <1>1, <1>3, <2>2, <2>4, MultiplesApart
    <3> QED BY <1>1, <1>3, <1>5, <2>2, <2>3, <3>1
  <2>6. ~(q < low)
    <3> SUFFICES ASSUME q < low PROVE FALSE
      OBVIOUS
    <3>1. q * Byte + Byte <= low * Byte
      BY <1>1, <1>3, <2>2, <2>4, MultiplesApart
    <3> QED BY <1>1, <1>3, <1>5, <2>2, <2>3, <3>1
  <2>7. q = low
    BY <1>3, <2>2, <2>5, <2>6
  <2>8. m = high
    <3>1. low * Byte \in Int
      BY <1>1, <1>3
    <3>2. low * Byte + high = low * Byte + m
      BY <2>3, <2>7
    <3> QED BY <1>5, <2>2, <3>1, <3>2
  <2> QED BY <2>7, <2>8 DEF q, m
<1>7. swapped \in Ports
  <2>1. low * Byte + Byte <= Byte * Byte
    BY <1>1, <1>3, MultiplesApart
  <2> QED BY <1>1, <1>3, <1>5, <2>1 DEF Ports
<1>8. ToBe(swapped) = high * Byte + low
  BY <1>6 DEF ToBe
<1> QED BY <1>1, <1>3, <1>4, <1>5, <1>7, <1>8
LEMMA OpIs ==
  ASSUME NEW s, s \in Selectors(Nat), NEW x \in Nat, NEW universe, x \in universe
  PROVE  OpMatches(OpCode[s.op], s.a, s.b, x) <=> x \in Denoted(s, universe)
<1>1. s.a \in Nat /\ s.b \in Nat /\ s.op \in {"Any"} \cup UnaryOps \cup RangeOps
  BY DEF Selectors, AnySelector
<1>2. CASE s.op = "Any"
  BY <1>2 DEF OpMatches, OpCode, Denoted
<1>3. CASE s.op = "Equal"
  BY <1>1, <1>3 DEF OpMatches, OpCode, Denoted
<1>4. CASE s.op = "NotEqual"
  BY <1>1, <1>4 DEF OpMatches, OpCode, Denoted
<1>5. CASE s.op = "Greater"
  BY <1>1, <1>5 DEF OpMatches, OpCode, Denoted
<1>6. CASE s.op = "Less"
  BY <1>1, <1>6 DEF OpMatches, OpCode, Denoted
<1>7. CASE s.op = "GreaterOrEqual"
  BY <1>1, <1>7 DEF OpMatches, OpCode, Denoted
<1>8. CASE s.op = "LessOrEqual"
  BY <1>1, <1>8 DEF OpMatches, OpCode, Denoted
<1>9. CASE s.op = "Exclusive"
  BY <1>1, <1>9 DEF OpMatches, OpCode, Denoted
<1>10. CASE s.op = "Inclusive"
  BY <1>1, <1>10 DEF OpMatches, OpCode, Denoted
<1>11. CASE s.op = "Except"
  BY <1>1, <1>11 DEF OpMatches, OpCode, Denoted
<1> QED BY <1>1, <1>2, <1>3, <1>4, <1>5, <1>6, <1>7, <1>8, <1>9, <1>10, <1>11
        DEF UnaryOps, RangeOps

\* A port range is swapped twice, once by the library and once by the kernel.
LEMMA PortMatchesIs ==
  ASSUME NEW port \in PortSelectors, NEW x \in Ports
  PROVE  PortMatches(PortRange(port), x) <=> x \in Denoted(port, Ports)
<1>1. Ports \subseteq Nat /\ 0 \in Ports
  BY SizesAssumption DEF Ports
<1>2. port \in Selectors(Nat) /\ port.a \in Ports /\ port.b \in Ports
  <2>1. CASE port = AnySelector
    BY <1>1, <2>1 DEF Selectors, AnySelector
  <2>2. CASE port \in [op : UnaryOps, a : Ports, b : {0}]
    BY <1>1, <2>2 DEF Selectors
  <2>3. CASE port \in [op : RangeOps, a : Ports, b : Ports]
    BY <1>1, <2>3 DEF Selectors
  <2> QED BY <2>1, <2>2, <2>3 DEF PortSelectors, Selectors
<1>3. PortMatches(PortRange(port), x) <=> OpMatches(OpCode[port.op], port.a, port.b, x)
  BY <1>2, ToBeTwice DEF PortMatches, PortRange
<1> QED BY <1>1, <1>2, <1>3, OpIs

LEMMA WordsAreSeq ==
  ASSUME NEW n \in Nat, NEW words \in [1 .. n -> Nat]
  PROVE  words \in Seq(Nat) /\ Len(words) = n
OBVIOUS

LEMMA PrefixIs ==
  ASSUME NEW words \in Seq(Nat), NEW k \in 0 .. Len(words)
  PROVE  /\ SubSeq(words, 1, k) \in Seq(Nat) /\ Len(SubSeq(words, 1, k)) = k
         /\ \A i \in 1 .. k : SubSeq(words, 1, k)[i] = words[i]
OBVIOUS

LEMMA SameElements ==
  ASSUME NEW S, NEW s \in Seq(S), NEW t \in Seq(S), NEW n \in Nat, Len(s) = n, Len(t) = n
  PROVE  s = t <=> \A i \in 1 .. n : s[i] = t[i]
<1>1. s = [i \in 1 .. n |-> s[i]] /\ t = [i \in 1 .. n |-> t[i]]
  OBVIOUS
<1>2. ASSUME \A i \in 1 .. n : s[i] = t[i]
      PROVE  [i \in 1 .. n |-> s[i]] = [i \in 1 .. n |-> t[i]]
  BY <1>2
<1> QED BY <1>1, <1>2

\* The words that count are compared, and no others: an address of the packet's
\* family in the union, or the zeros of Any.
LEMMA AddrMatchesIs ==
  ASSUME NEW ip \in Ips, NEW p, p.af \in Families,
         NEW addr \in [1 .. WordsOf(p.af) -> Nat], ip.af \in {"Any", p.af}
  PROVE  AddrMatches(AddrWrap(ip), addr) <=> Contains(ip, p, addr)
<1> DEFINE n == WordsOf(p.af)
<1>1. n \in Nat /\ n <= Words /\ n > 0 /\ Words \in Nat
  BY SizesAssumption DEF WordsOf
<1>2. /\ DOMAIN addr = 1 .. n
      /\ AddrWrap(ip).mask = 1 .. ip.prefix
      /\ AddrWrap(ip).addr = [i \in 1 .. Words |-> IF i <= Len(ip.addr) THEN ip.addr[i] ELSE 0]
  BY DEF AddrWrap
<1>3. CASE ip.af = "Any"
  <2>1. ip.prefix = 0
    BY <1>3, FamilyOfIp DEF AnyIp
  <2>2. \A i \in 1 .. n : i \notin 1 .. ip.prefix
    BY <2>1
  <2> QED BY <1>2, <1>3, <2>2 DEF AddrMatches, Contains
<1>4. CASE ip.af = p.af
  <2>1. ip.af # "Any"
    BY <1>4 DEF Families
  <2>2. ip.addr \in [1 .. n -> Nat] /\ ip.prefix \in 0 .. n
    BY <1>4, <2>1 DEF Ips, AnyIp, WordsOf, Families
  <2> HIDE DEF n
  <2>3. Len(ip.addr) = n /\ Len(addr) = n /\ ip.addr \in Seq(Nat) /\ addr \in Seq(Nat)
    <3>1. addr \in [1 .. n -> Nat]
      BY DEF n
    <3> QED BY <1>1, <2>2, <3>1, WordsAreSeq
  <2>4. AddrMatches(AddrWrap(ip), addr) <=> \A i \in 1 .. ip.prefix : addr[i] = ip.addr[i]
    <3>1. \A i \in 1 .. n : AddrWrap(ip).addr[i] = ip.addr[i]
      BY <1>1, <1>2, <2>3
    <3>2. \A i \in 1 .. ip.prefix : i \in 1 .. n
      BY <1>1, <2>2
    <3> QED BY <1>2, <3>1, <3>2 DEF AddrMatches
  <2>5. SubSeq(addr, 1, ip.prefix) = SubSeq(ip.addr, 1, ip.prefix) <=>
          \A i \in 1 .. ip.prefix : addr[i] = ip.addr[i]
    <3> DEFINE a == SubSeq(addr, 1, ip.prefix)
               b == SubSeq(ip.addr, 1, ip.prefix)
    <3>1. /\ a \in Seq(Nat) /\ b \in Seq(Nat) /\ Len(a) = ip.prefix /\ Len(b) = ip.prefix
          /\ \A i \in 1 .. ip.prefix : a[i] = addr[i] /\ b[i] = ip.addr[i]
      <4>1. ip.prefix \in 0 .. Len(ip.addr) /\ ip.prefix \in 0 .. Len(addr)
        BY <2>2, <2>3
      <4> QED BY <2>3, <4>1, PrefixIs
    <3> HIDE DEF a, b
    <3> DEFINE k == ip.prefix
    <3>2. k \in Nat
      BY <1>1, <2>2
    <3> HIDE DEF k
    <3>3. a = b <=> \A i \in 1 .. k : a[i] = b[i]
      BY <3>1, <3>2, SameElements DEF k
    <3> QED BY <3>1, <3>3 DEF a, b, k
  <2> QED BY <1>4, <2>1, <2>4, <2>5 DEF Contains
<1> QED BY <1>3, <1>4

LEMMA FlagsAre ==
  ASSUME NEW check \in SUBSET TcpFlag, NEW mask \in SUBSET TcpFlag,
         NEW flags \in SUBSET (TcpFlag \ {"Any"})
  PROVE  Bits(mask) \cap flags = Bits(check) <=>
           \A flag \in TcpFlag \ {"Any"} : flag \in check <=> flag \in mask \cap flags
<1> HIDE DEF TcpFlag
<1>1. \A flag : flag \in Bits(mask) \cap flags <=> flag \in TcpFlag \ {"Any"} /\ flag \in mask \cap flags
  BY DEF Bits
<1>2. \A flag : flag \in Bits(check) <=> flag \in TcpFlag \ {"Any"} /\ flag \in check
  BY DEF Bits
<1> QED BY <1>1, <1>2

\* Zero says "any", and no type or code is hidden by it.
LEMMA IcmpIs ==
  ASSUME NEW icmp \in IcmpTypes, NEW type \in Nat, NEW code \in Nat
  PROVE  IcmpType(icmp) \in {0, type + 1} /\ IcmpCode(icmp) \in {0, code + 1} <=>
           \/ icmp = NoIcmp
           \/ RawType(icmp) = type /\ (HasCode(icmp) => icmp.arg = code)
<1>1. CASE icmp = NoIcmp
  BY <1>1 DEF IcmpType, IcmpCode, HasCode, NoIcmp
<1>2. CASE icmp # NoIcmp
  <2>1. icmp.arg \in Nat /\ RawType(icmp) \in Nat
    BY <1>2 DEF IcmpTypes, RawType
  <2>2. IcmpType(icmp) = RawType(icmp) + 1
    BY <1>2 DEF IcmpType
  <2>3. IcmpCode(icmp) = IF HasCode(icmp) THEN icmp.arg + 1 ELSE 0
    BY DEF IcmpCode
  <2> QED BY <1>2, <2>1, <2>2, <2>3
<1> QED BY <1>1, <1>2
\* The kernel takes a pf_rule for the packets the rule was meant for.  A rule whose
\* families clash would mean no packet, and its pf_rule has no family to compare.
LEMMA KernelMatchesIs ==
  ASSUME NEW r, RuleTyped(r), NEW p, PacketTyped(p)
  PROVE  KernelMatches(PfRule(r), p) <=> Means(r, p)
<1> DEFINE other ==
             /\ r.direction \in {"Any", p.dir} /\ r.proto \in {"Any", p.proto}
             /\ p.proto = "Tcp" => Bits(r.flags.mask) \cap p.flags = Bits(r.flags.check)
             /\ p.sport \in Denoted(r.from.port, Ports) /\ p.dport \in Denoted(r.to.port, Ports)
             /\ p.uid \in Denoted(r.user, {p.uid})
             /\ IcmpType(r.icmp) \in {0, p.type + 1} /\ IcmpCode(r.icmp) \in {0, p.code + 1}
           from == AddrMatches(AddrWrap(r.from.ip), p.src)
           to == AddrMatches(AddrWrap(r.to.ip), p.dst)
<1>1. /\ r.from.ip \in Ips /\ r.from.port \in PortSelectors
      /\ r.to.ip \in Ips /\ r.to.port \in PortSelectors /\ r.user \in Selectors(Nat)
      /\ r.flags.check \in SUBSET TcpFlag /\ r.flags.mask \in SUBSET TcpFlag
      /\ r.icmp \in IcmpTypes
  BY FieldsTyped DEF Endpoints
<1>2. /\ p.af \in Families /\ p.flags \in SUBSET (TcpFlag \ {"Any"})
      /\ p.src \in [1 .. WordsOf(p.af) -> Nat] /\ p.dst \in [1 .. WordsOf(p.af) -> Nat]
      /\ p.sport \in Ports /\ p.dport \in Ports
      /\ p.uid \in Nat /\ p.type \in Nat /\ p.code \in Nat
  BY DEF PacketTyped
<1>3. KernelMatches(PfRule(r), p) <=> RuleAf(r) \in {"Any", p.af} /\ from /\ to /\ other
  <2>1. /\ PortMatches(PortRange(r.from.port), p.sport) <=> p.sport \in Denoted(r.from.port, Ports)
        /\ PortMatches(PortRange(r.to.port), p.dport) <=> p.dport \in Denoted(r.to.port, Ports)
    BY <1>1, <1>2, PortMatchesIs
  <2>2. OpMatches(OpCode[r.user.op], r.user.a, r.user.b, p.uid) <=> p.uid \in Denoted(r.user, {p.uid})
    BY <1>1, <1>2, OpIs
  <2>3. /\ PfRule(r).direction = r.direction /\ PfRule(r).af = RuleAf(r)
        /\ PfRule(r).proto = r.proto
        /\ PfRule(r).flagset = Bits(r.flags.mask) /\ PfRule(r).flags = Bits(r.flags.check)
        /\ PfRule(r).src.addr = AddrWrap(r.from.ip) /\ PfRule(r).dst.addr = AddrWrap(r.to.ip)
        /\ PfRule(r).src.ports = PortRange(r.from.port)
        /\ PfRule(r).dst.ports = PortRange(r.to.port)
        /\ PfRule(r).uid.op = OpCode[r.user.op]
        /\ PfRule(r).uid.a = r.user.a /\ PfRule(r).uid.b = r.user.b
        /\ PfRule(r).type = IcmpType(r.icmp) /\ PfRule(r).code = IcmpCode(r.icmp)
    BY DEF PfRule, UidRange
  <2> QED BY ONLY <2>1, <2>2, <2>3 DEF KernelMatches
<1>4. RuleAf(r) \in {"Any", p.af} <=>
        /\ r.af \in {"Any", p.af}
        /\ r.target.set = "set" => r.target.ip.af \in {"Any", p.af}
        /\ r.from.ip.af \in {"Any", p.af} /\ r.to.ip.af \in {"Any", p.af}
  <2>1. RuleAf(r) \in {"Any", p.af} <=> FamiliesOf(r) \subseteq {p.af}
    BY <1>2, RuleAfIs
  <2> QED BY <2>1 DEF FamiliesOf
<1>5. /\ r.from.ip.af \in {"Any", p.af} => (from <=> Contains(r.from.ip, p, p.src))
      /\ r.to.ip.af \in {"Any", p.af} => (to <=> Contains(r.to.ip, p, p.dst))
  BY <1>1, <1>2, AddrMatchesIs
<1>6. /\ Contains(r.from.ip, p, p.src) => r.from.ip.af \in {"Any", p.af}
      /\ Contains(r.to.ip, p, p.dst) => r.to.ip.af \in {"Any", p.af}
  BY DEF Contains
<1>7. Means(r, p) <=>
        /\ r.af \in {"Any", p.af}
        /\ r.target.set = "set" => r.target.ip.af \in {"Any", p.af}
        /\ Contains(r.from.ip, p, p.src) /\ Contains(r.to.ip, p, p.dst) /\ other
  <2>1. IcmpType(r.icmp) \in {0, p.type + 1} /\ IcmpCode(r.icmp) \in {0, p.code + 1} <=>
          \/ r.icmp = NoIcmp
          \/ RawType(r.icmp) = p.type /\ (HasCode(r.icmp) => r.icmp.arg = p.code)
    BY <1>1, <1>2, IcmpIs
  <2>2. Bits(r.flags.mask) \cap p.flags = Bits(r.flags.check) <=>
          \A flag \in TcpFlag \ {"Any"} :
            flag \in r.flags.check <=> flag \in r.flags.mask \cap p.flags
    <3> DEFINE check == r.flags.check
               mask == r.flags.mask
               flags == p.flags
    <3>1. /\ check \in SUBSET TcpFlag /\ mask \in SUBSET TcpFlag
          /\ flags \in SUBSET (TcpFlag \ {"Any"})
      BY <1>1, <1>2
    <3> HIDE DEF check, mask, flags
    <3>2. Bits(mask) \cap flags = Bits(check) <=>
            \A flag \in TcpFlag \ {"Any"} : flag \in check <=> flag \in mask \cap flags
      BY <3>1, FlagsAre
    <3> QED BY ONLY <3>2 DEF check, mask, flags
  <2> QED BY ONLY <2>1, <2>2 DEF Means
<1> HIDE DEF from, to, other
<1> QED BY ONLY <1>3, <1>4, <1>5, <1>6, <1>7

LEMMA Matches ==
  ASSUME IInv
  PROVE  MatchesAsMeant
BY ResultIs, KernelMatchesIs, PacketsAssumption DEF IInv, MatchesAsMeant

\* The kernel takes an accepted rule for the packets the caller meant it for, whatever
\* they are: families, byte orders, boundaries of ranges and zeros included.
THEOREM MatchesMeant == Spec => []MatchesAsMeant
BY Matches, Invariant, PTL

-----------------------------------------------------------------------------
(* The way back: the states that accepted rules create. *)

LEMMA PaddedPrefix ==
  ASSUME NEW n \in 1 .. Words, NEW addr \in [1 .. n -> Nat]
  PROVE  SubSeq([i \in 1 .. Words |-> IF i <= Len(addr) THEN addr[i] ELSE 0], 1, n) = addr
<1> DEFINE padded == [i \in 1 .. Words |-> IF i <= Len(addr) THEN addr[i] ELSE 0]
           prefix == SubSeq(padded, 1, n)
<1>1. Words \in Nat /\ n \in Nat /\ n <= Words
  BY SizesAssumption
<1>2. addr \in Seq(Nat) /\ Len(addr) = n
  BY <1>1, WordsAreSeq
<1>3. /\ padded \in [1 .. Words -> Nat]
      /\ \A i \in 1 .. n : padded[i] = addr[i]
  BY <1>1, <1>2
<1> HIDE DEF padded
<1>4. padded \in Seq(Nat) /\ Len(padded) = Words
  BY <1>1, <1>3, WordsAreSeq
<1>5. n \in 0 .. Len(padded)
  BY <1>1, <1>4
<1>6. /\ prefix \in Seq(Nat) /\ Len(prefix) = n
      /\ \A i \in 1 .. n : prefix[i] = addr[i]
  BY <1>3, <1>4, <1>5, PrefixIs
<1> HIDE DEF prefix
<1>7. prefix = addr
  BY <1>2, <1>6
<1> QED BY <1>7 DEF prefix, padded

\* Each end of a state is read back as the packet had it.
LEMMA AddressReadsBack ==
  ASSUME NEW af \in Families, NEW addr \in [1 .. WordsOf(af) -> Nat], NEW port \in Ports
  PROVE  ParseAddress(af, Host(addr, port)) = Given([addr |-> addr, port |-> port])
<1>1. Words \in Nat /\ Words > 0
  BY SizesAssumption
<1>2. FromBe(Host(addr, port).port) = port
  BY ToBeTwice DEF FromBe, Host
<1> DEFINE padded == Host(addr, port).addr
<1>3. padded = [i \in 1 .. Words |-> IF i <= Len(addr) THEN addr[i] ELSE 0]
  BY DEF Host
<1>4. CASE af = "Ipv4"
  <2>1. addr \in [1 .. 1 -> Nat] /\ 1 \in 1 .. Words
    BY <1>1, <1>4 DEF WordsOf
  <2>2. SubSeq(padded, 1, 1) = addr
    BY <1>3, <2>1, PaddedPrefix
  <2> QED BY <1>2, <1>4, <2>2 DEF ParseAddress, padded
<1>5. CASE af = "Ipv6"
  <2>1. addr \in [1 .. Words -> Nat]
    BY <1>5 DEF WordsOf
  <2>2. addr \in Seq(Nat) /\ Len(addr) = Words
    BY <1>1, <2>1, WordsAreSeq
  <2>3. padded = addr
    <3>1. \A i \in 1 .. Words : i <= Len(addr)
      BY <1>1, <2>2
    <3>2. padded = [i \in 1 .. Words |-> addr[i]]
      BY <1>3, <3>1
    <3> HIDE DEF padded
    <3> QED BY <3>2, <2>1
  <2> HIDE DEF padded
  <2> QED BY <1>2, <1>5, <2>3 DEF ParseAddress, padded
<1> QED BY <1>4, <1>5 DEF Families

LEMMA ReadsBack ==
  ASSUME IInv
  PROVE  StateReadsBack
<1> SUFFICES ASSUME result.tag = "ok", NEW p \in Packets, KeepsState(result.rule, p)
             PROVE  LET state == PfsyncState(p)
                        local == LocalAddress(state)
                        remote == RemoteAddress(state)
                        from == IF p.dir = "Out" THEN local ELSE remote
                        to == IF p.dir = "Out" THEN remote ELSE local
                    IN  /\ local.tag = "ok" /\ remote.tag = "ok"
                        /\ from.value = [addr |-> p.src, port |-> p.sport]
                        /\ Within(from.value, rule.from, p)
                        /\ to.value = [addr |-> p.dst, port |-> p.dport]
                        /\ Within(to.value, rule.to, p)
                        /\ Direction(state).value \in {p.dir} \cap
                             (IF rule.direction = "Any" THEN {"In", "Out"} ELSE {rule.direction})
                        /\ \/ Proto(state) = Given(p.proto) /\ rule.proto \in {"Any", p.proto}
                           \/ Proto(state).tag = "err" /\ rule.proto = "Any"
  BY DEF StateReadsBack
<1> DEFINE state == PfsyncState(p)
           local == LocalAddress(state)
           remote == RemoteAddress(state)
           from == IF p.dir = "Out" THEN local ELSE remote
           to == IF p.dir = "Out" THEN remote ELSE local
           src == [addr |-> p.src, port |-> p.sport]
           dst == [addr |-> p.dst, port |-> p.dport]
<1>1. PacketTyped(p) /\ RuleTyped(rule)
  BY PacketsAssumption DEF IInv
<1>2. Means(rule, p)
  BY <1>1, ResultIs, KernelMatchesIs DEF KeepsState
<1>3. /\ from = Given(src) /\ to = Given(dst)
      /\ local \in {Given(src), Given(dst)} /\ remote \in {Given(src), Given(dst)}
  <2>1. /\ ParseAddress(p.af, Host(p.src, p.sport)) = Given(src)
        /\ ParseAddress(p.af, Host(p.dst, p.dport)) = Given(dst)
    BY <1>1, AddressReadsBack DEF PacketTyped
  <2>2. /\ state.af_lan = p.af
        /\ p.dir = "Out" => state.lan = Host(p.src, p.sport) /\ state.ext_lan = Host(p.dst, p.dport)
        /\ p.dir # "Out" => state.lan = Host(p.dst, p.dport) /\ state.ext_lan = Host(p.src, p.sport)
    BY DEF PfsyncState
  <2> HIDE DEF state, src, dst
  <2> QED BY <2>1, <2>2 DEF LocalAddress, RemoteAddress
<1>4. Given(src).tag = "ok" /\ Given(src).value = src /\ Given(dst).tag = "ok" /\ Given(dst).value = dst
  BY DEF Given
<1>5. Within(src, rule.from, p) /\ Within(dst, rule.to, p)
  BY <1>2 DEF Means, Within
<1>6. Direction(state).value \in {p.dir} \cap
        (IF rule.direction = "Any" THEN {"In", "Out"} ELSE {rule.direction})
  BY <1>1, <1>2 DEF Direction, Given, PfsyncState, Means, PacketTyped
<1>7. \/ Proto(state) = Given(p.proto) /\ rule.proto \in {"Any", p.proto}
      \/ Proto(state).tag = "err" /\ rule.proto = "Any"
  <2>1. rule.proto \in Protos /\ rule.proto \in {"Any", p.proto}
    BY <1>1, <1>2, FieldsTyped DEF Means
  <2>2. state.proto = p.proto
    BY DEF PfsyncState
  <2>3. CASE p.proto \in Protos
    BY <2>1, <2>2, <2>3 DEF Proto, Protos
  <2>4. CASE p.proto \notin Protos
    BY <2>1, <2>2, <2>4 DEF Proto, Protos, Err
  <2> QED BY <2>3, <2>4
<1> HIDE DEF state, local, remote, src, dst
<1>8. local.tag = "ok" /\ remote.tag = "ok" /\ from.value = src /\ to.value = dst
  BY <1>3, <1>4
<1> HIDE DEF from, to
<1> QED BY <1>5, <1>6, <1>7, <1>8 DEF state, local, remote, from, to, src, dst

\* A state that an accepted rule created shows its owner a connection that the rule was
\* meant for, with the two ends the right way round.
THEOREM StatesReadBack == Spec => []StateReadsBack
BY ReadsBack, Invariant, PTL
=============================================================================
