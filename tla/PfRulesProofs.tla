--------------------------- MODULE PfRulesProofs ---------------------------
(***************************************************************************)
(* Proofs about PfRules: type correctness with the control invariant, the  *)
(* ticket and pool invariants, and that the calls implement the atomic     *)
(* store of RulesetStore.                                                  *)
(***************************************************************************)
EXTENDS PfRules, FiniteSetTheorems, SequenceTheorems, TLAPS

-----------------------------------------------------------------------------
(* The data: transactions and the order of their elements. *)

\* What a transaction holds for a ruleset is a sequence of rules of its kind.
LEMMA ContentsType ==
  ASSUME NEW trans \in Transactions, NEW rs \in Submits(trans)
  PROVE  /\ Contents(trans)[rs] \in Seq(Rules)
         /\ \A i \in DOMAIN Contents(trans)[rs] : RuleKind[Contents(trans)[rs][i]] = rs[2]
<1>1. PICK S \in SUBSET Anchors : trans \in [S -> AllChanges]
  BY DEF Transactions
<1>2. rs \in Anchors \X Kinds /\ rs[1] \in S /\ rs[2] \in DOMAIN trans[rs[1]]
  BY <1>1 DEF Submits, Rulesets
<1>3. trans[rs[1]] \in AllChanges
  BY <1>1, <1>2
<1>4. Contents(trans)[rs] = trans[rs[1]][rs[2]]
  BY DEF Contents
<1>5. CASE trans[rs[1]] \in Changes
  BY <1>2, <1>4, <1>5, ChangesAssumption
<1>6. CASE \E k \in Kinds : trans[rs[1]] = FlushChange(k)
  <2>1. trans[rs[1]][rs[2]] = <<>>
    BY <1>2, <1>6 DEF FlushChange
  <2> QED BY <2>1, <1>4
<1> QED BY <1>3, <1>5, <1>6 DEF AllChanges

\* There are finitely many rulesets.
LEMMA RulesetsFinite == IsFiniteSet(Rulesets)
<1>1. IsFiniteSet(Kinds)
  <2>1. Kinds = (({"filter"} \cup {"nat"}) \cup {"redirect"}) \cup {"scrub"}
    BY DEF Kinds
  <2>2. \A k : IsFiniteSet({k})
    BY FS_Singleton
  <2>3. IsFiniteSet({"filter"} \cup {"nat"})
    BY <2>2, FS_Union
  <2>4. IsFiniteSet(({"filter"} \cup {"nat"}) \cup {"redirect"})
    BY <2>2, <2>3, FS_Union
  <2> QED BY <2>1, <2>2, <2>4, FS_Union
<1> QED BY <1>1, AnchorsAssumption, FS_Product DEF Rulesets

\* An order of the elements lists every ruleset of the transaction once.
LEMMA ElementOrdersType ==
  ASSUME NEW S \in SUBSET Rulesets, NEW es \in ElementOrders(S)
  PROVE  es \in Seq(Rulesets) /\ IsInjective(es) /\ Range(es) = S
<1>1. IsFiniteSet(S)
  BY RulesetsFinite, FS_Subset
<1>2. Cardinality(S) \in Nat
  BY <1>1, FS_CardinalityType
<1>3. es \in Bijection(1..Cardinality(S), S)
  BY DEF ElementOrders
<1>4. es \in [1..Cardinality(S) -> S] /\ IsInjective(es)
      /\ \A t \in S : \E s \in 1..Cardinality(S) : es[s] = t
  BY <1>3 DEF Bijection, Injection, Surjection
<1>5. es \in Seq(Rulesets)
  BY <1>2, <1>4
<1>6. Range(es) = S
  BY <1>4 DEF Range
<1> QED BY <1>4, <1>5, <1>6

\* The error a call finds by itself is one of the library's.
LEMMA LocalErrorType ==
  ASSUME NEW c \in Clients
  PROVE  LocalError(c) \in {"none", "InvalidAnchorName", "InvalidRule", "InvalidPool"}
BY DEF LocalError
-----------------------------------------------------------------------------
(* The call under way, and the rule it is working on. *)

LEMMA CallShape ==
  ASSUME TypeOK, NEW c \in Clients
  PROVE  /\ call[c].op \in {"none", "commit", "add"}
         /\ call[c].op = "none" => call[c] = NoCall
         /\ call[c].op = "commit" => call[c].trans \in Transactions
         /\ call[c].op = "add" => call[c].rs \in Rulesets /\ call[c].rule \in Rules
BY DEF TypeOK, ClientTypeOK, Calls, NoCall

\* The rule and the ruleset a call is working on exist and are of one kind.
LEMMA CurrentType ==
  ASSUME TypeOK, Control, NEW c \in Clients,
         pc[c] \in {"pool", "addr", "add", "ticket", "change"}
  PROVE  /\ CurRule(c) \in Rules
         /\ CurRuleset(c) \in Rulesets
         /\ RuleKind[CurRule(c)] = CurRuleset(c)[2]
<1>0. ControlAt(c)
  BY DEF Control
<1>1. CASE call[c].op = "add"
  BY <1>0, <1>1, CallShape DEF ControlAt, CurRule, CurRuleset, IsAdd
<1>2. CASE call[c].op = "commit"
  <2>1. call[c].trans \in Transactions
    BY <1>2, CallShape
  <2>2. pc[c] \in {"pool", "addr", "add"} /\ Elements(c)
        /\ elem[c] \in DOMAIN elems[c] /\ nrule[c] + 1 \in DOMAIN ElemRules(c, elem[c])
    BY <1>0, <1>2 DEF ControlAt
  <2>3. elems[c][elem[c]] \in Submits(call[c].trans)
    BY <2>2 DEF Elements, Range
  <2>4. ElemRules(c, elem[c]) \in Seq(Rules)
        /\ \A i \in DOMAIN ElemRules(c, elem[c]) :
             RuleKind[ElemRules(c, elem[c])[i]] = elems[c][elem[c]][2]
    BY <2>1, <2>3, ContentsType DEF ElemRules
  <2>5. ~IsAdd(c)
    BY <1>2 DEF IsAdd
  <2>6. elems[c][elem[c]] \in Rulesets
    BY <2>3 DEF Submits
  <2> QED BY <2>2, <2>4, <2>5, <2>6 DEF CurRule, CurRuleset
<1> QED BY <1>0, <1>1, <1>2, CallShape DEF ControlAt

\* Returning from a call leaves a client that is typed and idle.
LEMMA ElementsTyped ==
  ASSUME TypeOK, Control, NEW c \in Clients, NEW i \in DOMAIN elems[c]
  PROVE  elems[c][i] \in Rulesets /\ tickets[c][i] \in Nat
<1>1. elems[c] \in Seq(Rulesets) /\ tickets[c] \in Seq(Nat)
  BY DEF TypeOK, ClientTypeOK
<1>2. DOMAIN tickets[c] = DOMAIN elems[c]
  BY DEF Control, ControlAt, Elements
<1> QED BY <1>1, <1>2

LEMMA ReturnType ==
  ASSUME TypeOK, NEW c \in Clients, NEW r \in Errors \cup {"ok"}, Return(c, r),
         changeByAnchor' \in [Clients -> Transactions]
  PROVE  ClientTypeOK'
<1> USE DEF TypeOK, ClientTypeOK, Return, Goto
<1>1. pc' \in [Clients -> PCs] /\ call' \in [Clients -> Calls]
  BY DEF PCs, Calls
<1>2. <<>> \in Seq(Rulesets) /\ <<>> \in Seq(Nat)
  OBVIOUS
<1>3. elems' \in [Clients -> Seq(Rulesets)] /\ tickets' \in [Clients -> Seq(Nat)]
  BY <1>2
<1>4. /\ elem' \in [Clients -> Nat] /\ nrule' \in [Clients -> Nat]
      /\ poolHeld' \in [Clients -> Nat] /\ ruleTicket' \in [Clients -> Nat]
  OBVIOUS
<1>5. result' \in [Clients -> Errors \cup {"none", "ok"}] /\ calls' \in [Clients -> Nat]
  OBVIOUS
<1> QED BY <1>1, <1>3, <1>4, <1>5

\* A client that does not move keeps its control invariant.
LEMMA ControlFrame ==
  ASSUME NEW d \in Clients, ControlAt(d),
         pc'[d] = pc[d], call'[d] = call[d], elems'[d] = elems[d],
         tickets'[d] = tickets[d], elem'[d] = elem[d], nrule'[d] = nrule[d]
  PROVE  ControlAt(d)'
BY DEF ControlAt, Elements, ElemRules, RegistersPool, CurRule, IsAdd

LEMMA ReturnControl ==
  ASSUME TypeOK, Control, NEW c \in Clients, NEW r, Return(c, r)
  PROVE  Control'
<1> SUFFICES ASSUME NEW d \in Clients PROVE ControlAt(d)'
  BY DEF Control
<1>1. ControlAt(d)
  BY DEF Control
<1>2. CASE d # c
  <2>1. /\ pc'[d] = pc[d] /\ call'[d] = call[d] /\ elems'[d] = elems[d]
        /\ tickets'[d] = tickets[d] /\ elem'[d] = elem[d] /\ nrule'[d] = nrule[d]
    BY <1>2 DEF Return, Goto, TypeOK, ClientTypeOK
  <2> QED BY <1>1, <2>1, ControlFrame
<1>3. CASE d = c
  <2>1. /\ pc'[c] = "idle" /\ call'[c] = NoCall /\ elems'[c] = <<>>
        /\ tickets'[c] = <<>> /\ elem'[c] = 0 /\ nrule'[c] = 0
    BY DEF Return, Goto, TypeOK, ClientTypeOK
  <2> QED BY <1>3, <2>1 DEF ControlAt, NoCall
<1> QED BY <1>2, <1>3
\* When only client c moves, its own control invariant is what is left to show.
LEMMA ControlStep ==
  ASSUME Control, NEW c \in Clients,
         \A d \in Clients \ {c} :
           /\ pc'[d] = pc[d] /\ call'[d] = call[d] /\ elems'[d] = elems[d]
           /\ tickets'[d] = tickets[d] /\ elem'[d] = elem[d] /\ nrule'[d] = nrule[d],
         ControlAt(c)'
  PROVE  Control'
<1> SUFFICES ASSUME NEW d \in Clients PROVE ControlAt(d)'
  BY DEF Control
<1>1. CASE d = c
  BY <1>1
<1>2. CASE d # c
  BY <1>2, ControlFrame DEF Control
<1> QED BY <1>1, <1>2

-----------------------------------------------------------------------------
(* The ioctls keep the kernel's state typed. *)

LEMMA KernelSame == KernelTypeOK /\ UNCHANGED kernelVars => KernelTypeOK'
BY DEF KernelTypeOK, kernelVars

LEMMA BeginAddrsType == KernelTypeOK /\ BeginAddrs => KernelTypeOK'
BY DEF KernelTypeOK, BeginAddrs

LEMMA AddAddrType ==
  ASSUME KernelTypeOK, NEW t, NEW a \in Addrs, AddAddr(t, a) PROVE KernelTypeOK'
BY DEF KernelTypeOK, AddAddr

LEMMA GetTicketType ==
  ASSUME KernelTypeOK, NEW rs \in Rulesets, ChangeGetTicket(rs) PROVE KernelTypeOK'
BY DEF KernelTypeOK, ChangeGetTicket

LEMMA AddTailType ==
  ASSUME KernelTypeOK, NEW rs \in Rulesets, NEW rule \in Rules, NEW t, NEW pt,
         ChangeAddTail(rs, rule, t, pt)
  PROVE  KernelTypeOK'
<1>1. [rule |-> rule, pool |-> pabuf] \in Entry
  BY DEF KernelTypeOK, Entry
<1>2. Append(active[rs], [rule |-> rule, pool |-> pabuf]) \in Seq(Entry)
  BY <1>1 DEF KernelTypeOK
<1> QED BY <1>2 DEF KernelTypeOK, ChangeAddTail

LEMMA AddRuleType ==
  ASSUME KernelTypeOK, NEW rs \in Rulesets, NEW rule \in Rules, NEW t, NEW pt,
         AddRule(rs, rule, t, pt)
  PROVE  KernelTypeOK'
<1>1. [rule |-> rule, pool |-> pabuf] \in Entry
  BY DEF KernelTypeOK, Entry
<1>2. Append(inactive[rs], [rule |-> rule, pool |-> pabuf]) \in Seq(Entry)
  BY <1>1 DEF KernelTypeOK
<1> QED BY <1>2 DEF KernelTypeOK, AddRule

LEMMA XBeginType == ASSUME KernelTypeOK, NEW es, XBegin(es) PROVE KernelTypeOK'
<1>1. <<>> \in Seq(Entry)
  OBVIOUS
<1> QED BY <1>1 DEF KernelTypeOK, XBegin

LEMMA XCommitType == ASSUME KernelTypeOK, NEW es, NEW ts, XCommit(es, ts) PROVE KernelTypeOK'
<1>1. <<>> \in Seq(Entry)
  OBVIOUS
<1> QED BY <1>1 DEF KernelTypeOK, XCommit

-----------------------------------------------------------------------------
(* Each action keeps TypeOK and Control. *)

LEMMA AddChangeTyped ==
  ASSUME TypeOK, Control, NEW c \in Clients, NEW a \in Anchors, NEW ch \in Changes,
         AddChange(c, a, ch)
  PROVE  TypeOK' /\ Control'
<1>1. PICK S \in SUBSET Anchors : changeByAnchor[c] \in [S -> AllChanges]
  BY DEF TypeOK, ClientTypeOK, Transactions
<1> DEFINE new == [x \in DOMAIN changeByAnchor[c] \cup {a} |->
                     IF x = a THEN ch ELSE changeByAnchor[c][x]]
<1>2. new \in [S \cup {a} -> AllChanges]
  BY <1>1 DEF AllChanges
<1>3. new \in Transactions
  BY <1>2 DEF Transactions
<1>4. changeByAnchor' = [changeByAnchor EXCEPT ![c] = new]
  BY DEF AddChange
<1>5. changeByAnchor' \in [Clients -> Transactions]
  BY <1>3, <1>4 DEF TypeOK, ClientTypeOK
<1>6. ClientTypeOK'
  BY <1>5 DEF AddChange, TypeOK, ClientTypeOK, progressVars
<1>7. UNCHANGED <<pc, call, elems, tickets, elem, nrule>>
  BY DEF AddChange, progressVars
<1>8. KernelTypeOK'
  BY KernelSame DEF AddChange, TypeOK
<1>9. ControlAt(c)'
  BY <1>7, ControlFrame DEF Control
<1>10. Control'
  BY <1>7, <1>9, ControlStep
<1> QED BY <1>6, <1>8, <1>10 DEF TypeOK

LEMMA StartTyped ==
  ASSUME TypeOK, Control, NEW c \in Clients, NEW req \in Calls, NEW point,
         Start(c, req, point), changeByAnchor' \in [Clients -> Transactions],
         \/ req.op = "commit" /\ point = "begin"
         \/ req.op = "add" /\ point = "pool" /\ RuleKind[req.rule] = req.rs[2]
  PROVE  TypeOK' /\ Control'
<1>1. KernelTypeOK'
  BY KernelSame DEF Start, TypeOK
<1>2. pc' \in [Clients -> PCs]
  BY DEF TypeOK, ClientTypeOK, Start, Goto, PCs
<1>3. UNCHANGED <<elems, tickets, elem, nrule, poolHeld, ruleTicket, result>>
  BY DEF Start, progressVars
<1>4. call' \in [Clients -> Calls] /\ calls' \in [Clients -> Nat]
  BY DEF TypeOK, ClientTypeOK, Start
<1>5. ClientTypeOK'
  BY <1>2, <1>3, <1>4 DEF TypeOK, ClientTypeOK
<1>6. pc'[c] = point /\ call'[c] = req /\ call[c].op = "none"
      /\ elems'[c] = elems[c] /\ tickets'[c] = tickets[c]
      /\ elem'[c] = elem[c] /\ nrule'[c] = nrule[c]
  BY DEF TypeOK, ClientTypeOK, Start, Goto, progressVars, Control, ControlAt
<1>7. ControlAt(c)'
  BY <1>6 DEF Control, ControlAt
<1>8. Control'
  BY <1>7, ControlStep DEF Start, Goto, progressVars, TypeOK, ClientTypeOK
<1> QED BY <1>1, <1>5, <1>8 DEF TypeOK

LEMMA StartCallTyped ==
  ASSUME TypeOK, Control, NEW c \in Clients, StartCall(c)
  PROVE  TypeOK' /\ Control'
<1>1. CASE \E a \in Anchors, ch \in Changes : AddChange(c, a, ch)
  BY <1>1, AddChangeTyped
<1>2. ASSUME NEW a \in Anchors, NEW ch \in AllChanges, SetRules(c, a, ch)
      PROVE  TypeOK' /\ Control'
  <2> DEFINE req == [op |-> "commit", trans |-> [x \in {a} |-> ch]]
  <2>1. [x \in {a} |-> ch] \in [{a} -> AllChanges] /\ {a} \in SUBSET Anchors
    OBVIOUS
  <2>2. [x \in {a} |-> ch] \in Transactions
    BY <2>1 DEF Transactions
  <2>3. req \in Calls /\ req.op = "commit"
    BY <2>2 DEF Calls
  <2>4. Start(c, req, "begin") /\ changeByAnchor' \in [Clients -> Transactions]
    BY <1>2 DEF SetRules, TypeOK, ClientTypeOK
  <2> HIDE DEF req
  <2> QED BY <2>3, <2>4, StartTyped
<1>3. CASE \E a \in Anchors, ch \in Changes : SetRules(c, a, ch)
  BY <1>2, <1>3 DEF AllChanges
<1>4. CASE \E a \in Anchors, kind \in Kinds : FlushRules(c, a, kind)
  BY <1>2, <1>4 DEF AllChanges, FlushRules
<1>5. CASE CommitTransaction(c)
  <2> DEFINE req == [op |-> "commit", trans |-> changeByAnchor[c]]
  <2>1. req \in Calls /\ req.op = "commit"
    BY DEF Calls, TypeOK, ClientTypeOK
  <2>2. Empty \in [{} -> AllChanges]
    BY DEF Empty
  <2>3. Empty \in Transactions
    BY <2>2 DEF Transactions
  <2>4. Start(c, req, "begin") /\ changeByAnchor' \in [Clients -> Transactions]
    BY <1>5, <2>3 DEF CommitTransaction, TypeOK, ClientTypeOK
  <2> HIDE DEF req
  <2> QED BY <2>1, <2>4, StartTyped
<1>6. CASE \E a \in Anchors, rule \in Rules : AddSingleRule(c, a, rule)
  <2>1. PICK a \in Anchors, rule \in Rules : AddSingleRule(c, a, rule)
    BY <1>6
  <2> DEFINE req == [op |-> "add", rs |-> <<a, RuleKind[rule]>>, rule |-> rule]
  <2>2. <<a, RuleKind[rule]>> \in Rulesets
    BY RulesAssumption DEF Rulesets
  <2>3. req \in Calls /\ req.op = "add" /\ RuleKind[req.rule] = req.rs[2]
    BY <2>2 DEF Calls
  <2>4. Start(c, req, "pool") /\ changeByAnchor' \in [Clients -> Transactions]
    BY <2>1 DEF AddSingleRule, TypeOK, ClientTypeOK
  <2> HIDE DEF req
  <2> QED BY <2>3, <2>4, StartTyped
<1> QED BY <1>1, <1>3, <1>4, <1>5, <1>6 DEF StartCall

\* The ends of a call.
LEMMA ReturnTyped ==
  ASSUME TypeOK, Control, NEW c \in Clients, NEW r \in Errors \cup {"ok"}, Return(c, r),
         KernelTypeOK', changeByAnchor' \in [Clients -> Transactions]
  PROVE  TypeOK' /\ Control'
BY ReturnType, ReturnControl DEF TypeOK

LEMMA FailureTyped ==
  ASSUME TypeOK, Control, NEW c \in Clients,
         OpenFails(c) \/ ConversionFails(c) \/ TicketRefused(c) \/ IoctlFails(c) \/ Crash(c)
  PROVE  TypeOK' /\ Control'
<1>1. KernelTypeOK'
  BY KernelSame DEF TypeOK, OpenFails, ConversionFails, TicketRefused, IoctlFails, Crash
<1>2. PICK r \in Errors : Return(c, r)
  BY LocalErrorType
     DEF OpenFails, ConversionFails, TicketRefused, IoctlFails, Crash, Errors
<1>3. Empty \in [{} -> AllChanges]
  BY DEF Empty
<1>4. Empty \in Transactions
  BY <1>3 DEF Transactions
<1>5. \/ changeByAnchor' = changeByAnchor
      \/ changeByAnchor' = [changeByAnchor EXCEPT ![c] = Empty]
  BY DEF OpenFails, ConversionFails, TicketRefused, IoctlFails, Crash
<1>6. changeByAnchor' \in [Clients -> Transactions]
  BY <1>4, <1>5 DEF TypeOK, ClientTypeOK
<1> QED BY <1>1, <1>2, <1>6, ReturnTyped

LEMMA SucceedTyped ==
  ASSUME TypeOK, Control, NEW c \in Clients, Succeed(c), KernelTypeOK'
  PROVE  TypeOK' /\ Control'
<1>1. PICK r \in Errors \cup {"ok"} : Return(c, r)
  BY DEF Succeed, Errors
<1>2. Empty \in Transactions
  <2>1. Empty \in [{} -> AllChanges]
    BY DEF Empty
  <2> QED BY <2>1 DEF Transactions
<1>3. changeByAnchor' \in [Clients -> Transactions]
  BY <1>2 DEF Succeed, TypeOK, ClientTypeOK
<1> QED BY <1>1, <1>3, ReturnTyped

LEMMA CommitTransTyped ==
  ASSUME TypeOK, Control, NEW c \in Clients, CommitTrans(c)
  PROVE  TypeOK' /\ Control'
<1>1. KernelTypeOK'
  BY XCommitType DEF CommitTrans, TypeOK
<1> QED BY <1>1, SucceedTyped DEF CommitTrans

LEMMA BeginTransTyped ==
  ASSUME TypeOK, Control, NEW c \in Clients, BeginTrans(c)
  PROVE  TypeOK' /\ Control'
<1> DEFINE S == Submits(call[c].trans)
<1>1. PICK es \in ElementOrders(S) :
        /\ XBegin(es)
        /\ elems' = [elems EXCEPT ![c] = es]
        /\ tickets' = [tickets EXCEPT ![c] =
                         [i \in DOMAIN es |-> inactiveTicket[es[i]] + 1]]
  BY DEF BeginTrans
<1>2. es \in Seq(Rulesets) /\ IsInjective(es) /\ Range(es) = S
  BY <1>1, ElementOrdersType DEF Submits
<1>3. [i \in DOMAIN es |-> inactiveTicket[es[i]] + 1] \in Seq(Nat)
  <2> DEFINE ts == [i \in DOMAIN es |-> inactiveTicket[es[i]] + 1]
  <2>1. Len(es) \in Nat /\ DOMAIN es = 1..Len(es) /\ \A i \in DOMAIN es : es[i] \in Rulesets
    BY <1>2
  <2>2. \A i \in DOMAIN es : inactiveTicket[es[i]] + 1 \in Nat
    BY <2>1 DEF TypeOK, KernelTypeOK
  <2>3. ts \in [DOMAIN es -> Nat]
    BY <2>2
  <2>4. ts \in [1..Len(es) -> Nat]
    BY <2>1, <2>3
  <2> HIDE DEF ts
  <2>5. ts \in Seq(Nat)
    BY <2>1, <2>4, SeqDef
  <2> QED BY <2>5 DEF ts
<1>4. KernelTypeOK'
  BY <1>1, XBeginType DEF TypeOK
<1>5. elems' \in [Clients -> Seq(Rulesets)] /\ tickets' \in [Clients -> Seq(Nat)]
  BY <1>1, <1>2, <1>3 DEF TypeOK, ClientTypeOK
<1>6. pc' \in [Clients -> PCs] /\ elem' \in [Clients -> Nat]
  BY DEF TypeOK, ClientTypeOK, BeginTrans, Goto, PCs
<1>7. UNCHANGED <<changeByAnchor, call, nrule, poolHeld, ruleTicket, result, calls>>
  BY DEF BeginTrans
<1>8. ClientTypeOK'
  BY <1>5, <1>6, <1>7 DEF TypeOK, ClientTypeOK
<1>9. /\ pc[c] = "begin" /\ pc'[c] = "rule" /\ elems'[c] = es /\ elem'[c] = 1
      /\ DOMAIN tickets'[c] = DOMAIN es /\ nrule'[c] = nrule[c] /\ call'[c] = call[c]
  BY <1>1, <1>7 DEF BeginTrans, Ready, Goto, TypeOK, ClientTypeOK
<1>10. call[c].op = "commit" /\ nrule[c] = 0
  BY <1>9 DEF Control, ControlAt
<1>11. Elements(c)'
  BY <1>2, <1>9 DEF Elements
<1>12. elem'[c] \in DOMAIN elems'[c] => nrule'[c] \in 0..Len(ElemRules(c, elem[c]))'
  <2>1. SUFFICES ASSUME 1 \in DOMAIN es
                 PROVE  0 \in 0..Len(Contents(call[c].trans)[es[1]])
    BY <1>9, <1>10 DEF ElemRules
  <2>2. es[1] \in S
    BY <1>2, <2>1 DEF Range
  <2>3. Contents(call[c].trans)[es[1]] \in Seq(Rules)
    BY <1>10, <2>2, ContentsType, CallShape
  <2> QED BY <2>3
<1>13. ControlAt(c)'
  BY <1>9, <1>10, <1>11, <1>12 DEF ControlAt
<1>14. Control'
  BY <1>1, <1>7, <1>13, ControlStep DEF BeginTrans, Goto, TypeOK, ClientTypeOK
<1> QED BY <1>4, <1>8, <1>14 DEF TypeOK
\* The rules a transaction has for one of its elements.
LEMMA ElemRulesType ==
  ASSUME TypeOK, Control, NEW c \in Clients, call[c].op = "commit", pc[c] # "begin",
         NEW i \in DOMAIN elems[c]
  PROVE  /\ elems[c][i] \in Submits(call[c].trans) /\ elems[c][i] \in Rulesets
         /\ ElemRules(c, i) \in Seq(Rules)
         /\ \A j \in DOMAIN ElemRules(c, i) : RuleKind[ElemRules(c, i)[j]] = elems[c][i][2]
<1>1. Elements(c)
  BY DEF Control, ControlAt
<1>2. elems[c][i] \in Submits(call[c].trans)
  BY <1>1 DEF Elements, Range
<1> QED BY <1>2, CallShape, ContentsType DEF ElemRules, Submits

LEMMA NextRuleTyped ==
  ASSUME TypeOK, Control, NEW c \in Clients, NextRule(c)
  PROVE  TypeOK' /\ Control'
<1>1. UNCHANGED <<kernelVars, changeByAnchor, call, elems, tickets, poolHeld, ruleTicket,
                  result, calls>>
  BY DEF NextRule
<1>2. KernelTypeOK'
  BY <1>1, KernelSame DEF TypeOK
<1>3. /\ pc' \in [Clients -> PCs] /\ elem' \in [Clients -> Nat] /\ nrule' \in [Clients -> Nat]
      /\ \A d \in Clients \ {c} : pc'[d] = pc[d] /\ elem'[d] = elem[d] /\ nrule'[d] = nrule[d]
  <2>0. pc \in [Clients -> PCs] /\ elem \in [Clients -> Nat] /\ nrule \in [Clients -> Nat]
    BY DEF TypeOK, ClientTypeOK
  <2>1. pc' = pc \/ pc' = [pc EXCEPT ![c] = "pool"] \/ pc' = [pc EXCEPT ![c] = "commit"]
    BY DEF NextRule, Goto
  <2>2. /\ pc' \in [Clients -> PCs]
        /\ \A d \in Clients \ {c} : pc'[d] = pc[d]
    BY <2>0, <2>1 DEF PCs
  <2>3. elem' = elem \/ elem' = [elem EXCEPT ![c] = elem[c] + 1]
    BY DEF NextRule
  <2>4. nrule' = nrule \/ nrule' = [nrule EXCEPT ![c] = 0]
    BY DEF NextRule
  <2>5. /\ elem' \in [Clients -> Nat] /\ nrule' \in [Clients -> Nat]
        /\ \A d \in Clients \ {c} : elem'[d] = elem[d] /\ nrule'[d] = nrule[d]
    <3>1. elem' \in [Clients -> Nat] /\ \A d \in Clients \ {c} : elem'[d] = elem[d]
      <4>1. elem[c] + 1 \in Nat
        BY <2>0
      <4> QED BY <2>0, <2>3, <4>1
    <3>2. nrule' \in [Clients -> Nat] /\ \A d \in Clients \ {c} : nrule'[d] = nrule[d]
      BY <2>0, <2>4
    <3> QED BY <3>1, <3>2
  <2> QED BY <2>2, <2>5
<1>4. ClientTypeOK'
  BY <1>1, <1>3 DEF TypeOK, ClientTypeOK
<1>5. /\ ControlAt(c) /\ pc[c] = "rule" /\ call[c].op = "commit" /\ Elements(c)
      /\ elems[c] \in Seq(Rulesets)
  BY DEF NextRule, Control, ControlAt, TypeOK, ClientTypeOK
<1>6. /\ elem[c] \in Nat /\ elem[c] \in 1..(Len(elems[c]) + 1)
      /\ DOMAIN elems[c] = 1..Len(elems[c]) /\ Len(elems[c]) \in Nat
  BY <1>5 DEF Elements, TypeOK, ClientTypeOK
<1>7. ControlAt(c)'
  <2>1. CASE /\ elem[c] \in DOMAIN elems[c]
             /\ nrule[c] + 1 \in DOMAIN ElemRules(c, elem[c])
    <3>1. pc'[c] = "pool" /\ elem'[c] = elem[c] /\ nrule'[c] = nrule[c]
      BY <2>1 DEF NextRule, Goto, TypeOK, ClientTypeOK
    <3> QED BY <1>1, <1>5, <2>1, <3>1 DEF ControlAt, Elements, ElemRules
  <2>2. CASE /\ elem[c] \in DOMAIN elems[c]
             /\ nrule[c] + 1 \notin DOMAIN ElemRules(c, elem[c])
    <3>1. pc'[c] = "rule" /\ elem'[c] = elem[c] + 1 /\ nrule'[c] = 0
      BY <1>5, <2>2 DEF NextRule, TypeOK, ClientTypeOK
    <3>2. elem[c] + 1 \in 1..(Len(elems[c]) + 1)
      BY <1>6, <2>2
    <3>3. ASSUME elem[c] + 1 \in DOMAIN elems[c]
          PROVE  0 \in 0..Len(ElemRules(c, elem[c] + 1))
      BY <1>5, <3>3, ElemRulesType
    <3> QED BY <1>1, <1>5, <3>1, <3>2, <3>3 DEF ControlAt, Elements, ElemRules
  <2>3. CASE elem[c] \notin DOMAIN elems[c]
    <3>1. pc'[c] = "commit" /\ elem'[c] = elem[c] /\ nrule'[c] = nrule[c]
      BY <2>3 DEF NextRule, Goto, TypeOK, ClientTypeOK
    <3> QED BY <1>1, <1>5, <2>3, <3>1 DEF ControlAt, Elements, ElemRules
  <2> QED BY <2>1, <2>2, <2>3
<1>8. Control'
  BY <1>1, <1>3, <1>7, ControlStep
<1> QED BY <1>2, <1>4, <1>8 DEF TypeOK

\* The rule at work does not change while a call takes its ioctls for it.
LEMMA CurrentFrame ==
  ASSUME NEW c \in Clients, call'[c] = call[c], elems'[c] = elems[c],
         elem'[c] = elem[c], nrule'[c] = nrule[c]
  PROVE  /\ CurRule(c)' = CurRule(c) /\ CurRuleset(c)' = CurRuleset(c)
         /\ RegistersPool(c)' = RegistersPool(c) /\ IsAdd(c)' = IsAdd(c)
BY DEF CurRule, CurRuleset, RegistersPool, IsAdd, ElemRules

\* A step for the rule at work moves from one of the points to the next.
LEMMA RuleStepControl ==
  ASSUME TypeOK, Control, NEW c \in Clients, NEW point,
         UNCHANGED <<call, elems, tickets, elem, nrule>>, Goto(c, point),
         \/ pc[c] = "pool" /\ RegistersPool(c) /\ point = "addr"
         \/ pc[c] \in {"pool", "addr"} /\ IsAdd(c) /\ point = "ticket"
         \/ pc[c] \in {"pool", "addr"} /\ ~IsAdd(c) /\ point = "add"
         \/ pc[c] = "ticket" /\ point = "change"
  PROVE  Control' /\ pc' \in [Clients -> PCs]
<1>1. ControlAt(c) /\ pc'[c] = point /\ \A d \in Clients \ {c} : pc'[d] = pc[d]
  BY DEF Control, Goto, TypeOK, ClientTypeOK
<1>2. Elements(c)' = Elements(c) /\ ElemRules(c, elem[c])' = ElemRules(c, elem[c])
      /\ RegistersPool(c)' = RegistersPool(c)
  BY CurrentFrame DEF Elements, ElemRules
<1>3. ControlAt(c)'
  BY <1>1, <1>2, CallShape DEF ControlAt, IsAdd
<1>4. pc' \in [Clients -> PCs]
  BY DEF Goto, TypeOK, ClientTypeOK, PCs
<1> QED BY <1>1, <1>3, <1>4, ControlStep

LEMMA PoolTicketTyped ==
  ASSUME TypeOK, Control, NEW c \in Clients, PoolTicket(c)
  PROVE  TypeOK' /\ Control'
<1>1. KernelTypeOK'
  BY BeginAddrsType DEF PoolTicket, TypeOK
<1>2. poolHeld' \in [Clients -> Nat]
  BY DEF PoolTicket, TypeOK, ClientTypeOK, KernelTypeOK
<1>3. Control' /\ pc' \in [Clients -> PCs]
  <2> DEFINE point == CASE RegistersPool(c) -> "addr"
                        [] ~RegistersPool(c) /\ IsAdd(c) -> "ticket"
                        [] ~RegistersPool(c) /\ ~IsAdd(c) -> "add"
  <2>1. \/ RegistersPool(c) /\ point = "addr"
        \/ IsAdd(c) /\ point = "ticket"
        \/ ~IsAdd(c) /\ point = "add"
    BY DEF IsAdd, RegistersPool
  <2>2. pc[c] = "pool" /\ Goto(c, point) /\ UNCHANGED <<call, elems, tickets, elem, nrule>>
    BY DEF PoolTicket, Ready
  <2> HIDE DEF point
  <2> QED BY <2>1, <2>2, RuleStepControl
<1>4. ClientTypeOK'
  BY <1>2, <1>3 DEF PoolTicket, TypeOK, ClientTypeOK
<1> QED BY <1>1, <1>3, <1>4 DEF TypeOK
LEMMA AddPoolAddressTyped ==
  ASSUME TypeOK, Control, NEW c \in Clients, AddPoolAddress(c)
  PROVE  TypeOK' /\ Control'
<1>1. pc[c] = "addr" /\ CurRule(c) \in Rules
  BY CurrentType DEF AddPoolAddress, Ready
<1>2. PICK addr \in Addrs : AddAddr(poolHeld[c], addr)
  BY <1>1, RulesAssumption DEF AddPoolAddress
<1>3. KernelTypeOK'
  BY <1>2, AddAddrType DEF TypeOK
<1>4. changeByAnchor' = changeByAnchor
  BY DEF AddPoolAddress
<1>5. CASE Return(c, "InvalidPool")
  BY <1>3, <1>4, <1>5, ReturnTyped DEF Errors, TypeOK, ClientTypeOK
<1>6. CASE /\ Goto(c, IF IsAdd(c) THEN "ticket" ELSE "add")
           /\ UNCHANGED <<progressVars, call, result, calls>>
  <2>1. UNCHANGED <<call, elems, tickets, elem, nrule, poolHeld, ruleTicket, result, calls>>
    BY <1>6 DEF progressVars
  <2>2. Control' /\ pc' \in [Clients -> PCs]
    <3>1. CASE IsAdd(c)
      BY <1>1, <1>6, <2>1, <3>1, RuleStepControl
    <3>2. CASE ~IsAdd(c)
      BY <1>1, <1>6, <2>1, <3>2, RuleStepControl
    <3> QED BY <3>1, <3>2
  <2>3. ClientTypeOK'
    BY <1>4, <2>1, <2>2 DEF TypeOK, ClientTypeOK
  <2> QED BY <1>3, <2>2, <2>3 DEF TypeOK
<1> QED BY <1>5, <1>6 DEF AddPoolAddress

LEMMA AddTransRuleTyped ==
  ASSUME TypeOK, Control, NEW c \in Clients, AddTransRule(c)
  PROVE  TypeOK' /\ Control'
<1>1. /\ pc[c] = "add" /\ CurRule(c) \in Rules /\ CurRuleset(c) \in Rulesets
      /\ call[c].op = "commit" /\ ControlAt(c)
  BY CurrentType DEF AddTransRule, Control, ControlAt
<1>2. KernelTypeOK'
  BY <1>1, AddRuleType DEF AddTransRule, TypeOK
<1>3. UNCHANGED <<changeByAnchor, call, elems, tickets, elem, poolHeld, ruleTicket, result, calls>>
  BY DEF AddTransRule
<1>4. /\ pc' \in [Clients -> PCs] /\ pc'[c] = "rule"
      /\ \A d \in Clients \ {c} : pc'[d] = pc[d]
  BY DEF AddTransRule, Goto, TypeOK, ClientTypeOK, PCs
<1>5. /\ nrule' \in [Clients -> Nat] /\ nrule'[c] = nrule[c] + 1
      /\ \A d \in Clients \ {c} : nrule'[d] = nrule[d]
  <2>1. nrule \in [Clients -> Nat] /\ nrule[c] + 1 \in Nat
    BY DEF TypeOK, ClientTypeOK
  <2> QED BY <2>1 DEF AddTransRule
<1>6. ClientTypeOK'
  BY <1>3, <1>4, <1>5 DEF TypeOK, ClientTypeOK
<1>7. elem[c] \in DOMAIN elems[c] /\ nrule[c] + 1 \in DOMAIN ElemRules(c, elem[c])
  BY <1>1 DEF ControlAt
<1>8. nrule[c] + 1 \in 0..Len(ElemRules(c, elem[c]))
  BY <1>1, <1>7, ElemRulesType
<1>9. ControlAt(c)'
  BY <1>1, <1>3, <1>4, <1>5, <1>7, <1>8 DEF ControlAt, Elements, ElemRules
<1>10. Control'
  BY <1>3, <1>4, <1>5, <1>9, ControlStep
<1> QED BY <1>2, <1>6, <1>10 DEF TypeOK

LEMMA GetTicketTyped ==
  ASSUME TypeOK, Control, NEW c \in Clients, GetTicket(c)
  PROVE  TypeOK' /\ Control'
<1>1. pc[c] = "ticket" /\ CurRuleset(c) \in Rulesets
  BY CurrentType DEF GetTicket, Ready
<1>2. KernelTypeOK'
  BY <1>1, GetTicketType DEF GetTicket, TypeOK
<1>3. ruleTicket' \in [Clients -> Nat]
  <2>1. activeTicket[CurRuleset(c)] + 1 \in Nat
    BY <1>1 DEF TypeOK, KernelTypeOK
  <2> QED BY <2>1 DEF GetTicket, TypeOK, ClientTypeOK
<1>4. Control' /\ pc' \in [Clients -> PCs]
  BY <1>1, RuleStepControl DEF GetTicket
<1>5. ClientTypeOK'
  BY <1>3, <1>4 DEF GetTicket, TypeOK, ClientTypeOK
<1> QED BY <1>2, <1>4, <1>5 DEF TypeOK

LEMMA ChangeRuleTyped ==
  ASSUME TypeOK, Control, NEW c \in Clients, ChangeRule(c)
  PROVE  TypeOK' /\ Control'
<1>1. CurRule(c) \in Rules /\ CurRuleset(c) \in Rulesets
  BY CurrentType DEF ChangeRule, Ready
<1>2. KernelTypeOK'
  BY <1>1, AddTailType DEF ChangeRule, TypeOK
<1> QED BY <1>2, SucceedTyped DEF ChangeRule

-----------------------------------------------------------------------------
(* Type correctness. *)

LEMMA InitTyped == Init => TypeOK /\ Control
<1> SUFFICES ASSUME Init PROVE TypeOK /\ Control
  OBVIOUS
<1>1. <<>> \in Seq(Entry) /\ <<>> \in Seq(Rulesets) /\ <<>> \in Seq(Nat)
  OBVIOUS
<1>2. KernelTypeOK
  BY <1>1 DEF Init, KernelInit, KernelTypeOK
<1>3. Empty \in [{} -> AllChanges]
  BY DEF Empty
<1>4. Empty \in Transactions
  BY <1>3 DEF Transactions
<1>5. ClientTypeOK
  BY <1>1, <1>4 DEF Init, ClientTypeOK, PCs, Calls
<1>6. Control
  BY DEF Init, Control, ControlAt, NoCall
<1> QED BY <1>2, <1>5, <1>6 DEF TypeOK

LEMMA NextTyped == TypeOK /\ Control /\ [Next]_vars => TypeOK' /\ Control'
<1> SUFFICES ASSUME TypeOK, Control, [Next]_vars PROVE TypeOK' /\ Control'
  OBVIOUS
<1>1. CASE UNCHANGED vars
  <2>1. KernelTypeOK'
    BY <1>1, KernelSame DEF TypeOK, vars, kernelVars
  <2>2. ClientTypeOK'
    BY <1>1 DEF TypeOK, ClientTypeOK, vars
  <2>3. UNCHANGED <<pc, call, elems, tickets, elem, nrule>>
    BY <1>1 DEF vars
  <2>4. Control'
    BY <2>3, ControlFrame DEF Control
  <2> QED BY <2>1, <2>2, <2>4 DEF TypeOK
<1>2. ASSUME NEW c \in Clients,
             StartCall(c) \/ Step(c) \/ OpenFails(c) \/ IoctlFails(c) \/ Crash(c)
      PROVE  TypeOK' /\ Control'
  <2>1. CASE StartCall(c)
    BY <2>1, StartCallTyped
  <2>2. CASE OpenFails(c) \/ ConversionFails(c) \/ TicketRefused(c) \/ IoctlFails(c) \/ Crash(c)
    BY <2>2, FailureTyped
  <2>3. CASE BeginTrans(c) \/ NextRule(c) \/ CommitTrans(c)
    BY <2>3, BeginTransTyped, NextRuleTyped, CommitTransTyped
  <2>4. CASE PoolTicket(c) \/ AddPoolAddress(c) \/ AddTransRule(c)
    BY <2>4, PoolTicketTyped, AddPoolAddressTyped, AddTransRuleTyped
  <2>5. CASE GetTicket(c) \/ ChangeRule(c)
    BY <2>5, GetTicketTyped, ChangeRuleTyped
  <2> QED BY <1>2, <2>1, <2>2, <2>3, <2>4, <2>5 DEF Step
<1> QED BY <1>1, <1>2 DEF Next

\* Every reachable state is well typed: in particular a call that works on a
\* rule has one, of the kind of the ruleset it is sent to.
THEOREM TypeCorrect == Spec => []TypeOK
<1>1. Init => TypeOK /\ Control
  BY InitTyped
<1>2. TypeOK /\ Control /\ [Next]_vars => TypeOK' /\ Control'
  BY NextTyped
<1> QED BY <1>1, <1>2, PTL DEF Spec

THEOREM ControlCorrect == Spec => [](TypeOK /\ Control)
<1>1. Init => TypeOK /\ Control
  BY InitTyped
<1>2. TypeOK /\ Control /\ [Next]_vars => TypeOK' /\ Control'
  BY NextTyped
<1> QED BY <1>1, <1>2, PTL DEF Spec
=============================================================================
