--------------------------- MODULE PfRulesSafety ---------------------------
(***************************************************************************)
(* Proofs about PfRules, continued: tickets exclude each other, pools      *)
(* match their rules and inactive rulesets hold what their transaction     *)
(* added.                                                                  *)
(***************************************************************************)
EXTENDS PfRulesProofs

\* What a step does to the tickets.
ReturnStep(c) == /\ \E r : Return(c, r)
                 /\ UNCHANGED <<inactiveTicket, poolTicket>>
QuietStep(c) == /\ UNCHANGED <<elems, tickets, poolHeld, inactiveTicket, poolTicket>>
                /\ \A d \in Clients \ {c} : pc'[d] = pc[d]
                /\ pc'[c] \in {"addr", "add", "ticket", "change"} =>
                     pc[c] \in {"addr", "add", "ticket", "change"}

LEMMA StepKinds ==
  ASSUME TypeOK, Control, [Next]_vars
  PROVE  \/ UNCHANGED vars
         \/ \E c \in Clients :
              ReturnStep(c) \/ QuietStep(c) \/ BeginTrans(c) \/ PoolTicket(c)
<1>1. CASE UNCHANGED vars
  BY <1>1
<1>2. ASSUME NEW c \in Clients,
             StartCall(c) \/ Step(c) \/ OpenFails(c) \/ IoctlFails(c) \/ Crash(c)
      PROVE  ReturnStep(c) \/ QuietStep(c) \/ BeginTrans(c) \/ PoolTicket(c)
  <2>1. CASE StartCall(c)
    <3>1. UNCHANGED <<elems, tickets, poolHeld, inactiveTicket, poolTicket>>
      BY <2>1 DEF StartCall, AddChange, SetRules, FlushRules, CommitTransaction,
                  AddSingleRule, Start, kernelVars, progressVars
    <3>2. pc' = pc \/ pc' = [pc EXCEPT ![c] = "begin"] \/ pc' = [pc EXCEPT ![c] = "pool"]
      BY <2>1 DEF StartCall, AddChange, SetRules, FlushRules, CommitTransaction,
                  AddSingleRule, Start, Goto
    <3> QED BY <3>1, <3>2 DEF QuietStep, TypeOK, ClientTypeOK
  <2>2. CASE OpenFails(c) \/ ConversionFails(c) \/ TicketRefused(c) \/ IoctlFails(c) \/ Crash(c)
    BY <2>2 DEF OpenFails, ConversionFails, TicketRefused, IoctlFails, Crash, ReturnStep,
                kernelVars
  <2>3. CASE CommitTrans(c) \/ ChangeRule(c)
    BY <2>3 DEF CommitTrans, ChangeRule, Succeed, XCommit, ChangeAddTail, ReturnStep
  <2>4. CASE NextRule(c)
    <3>1. UNCHANGED <<elems, tickets, poolHeld, inactiveTicket, poolTicket>>
      BY <2>4 DEF NextRule, kernelVars
    <3>2. pc' = pc \/ pc' = [pc EXCEPT ![c] = "pool"] \/ pc' = [pc EXCEPT ![c] = "commit"]
      BY <2>4 DEF NextRule, Goto
    <3> QED BY <3>1, <3>2 DEF QuietStep, TypeOK, ClientTypeOK
  <2>5. CASE AddPoolAddress(c)
    <3>1. UNCHANGED <<inactiveTicket, poolTicket>> /\ pc[c] = "addr"
      BY <2>5 DEF AddPoolAddress, AddAddr, Ready
    <3>2. CASE Return(c, "InvalidPool")
      BY <3>1, <3>2 DEF ReturnStep
    <3>3. CASE /\ Goto(c, IF IsAdd(c) THEN "ticket" ELSE "add")
               /\ UNCHANGED <<progressVars, call, result, calls>>
      BY <3>1, <3>3 DEF QuietStep, progressVars, Goto, TypeOK, ClientTypeOK
    <3> QED BY <2>5, <3>2, <3>3 DEF AddPoolAddress
  <2>6. CASE AddTransRule(c)
    BY <2>6 DEF AddTransRule, AddRule, QuietStep, Goto, TypeOK, ClientTypeOK
  <2>7. CASE GetTicket(c)
    BY <2>7 DEF GetTicket, ChangeGetTicket, QuietStep, Goto, Ready, TypeOK, ClientTypeOK
  <2> QED BY <1>2, <2>1, <2>2, <2>3, <2>4, <2>5, <2>6, <2>7 DEF Step
<1> QED BY <1>1, <1>2 DEF Next

-----------------------------------------------------------------------------
(* Tickets. *)

TicketInv == TicketsIssued /\ TicketsExclusive

LEMMA TicketInvStep ==
  ASSUME TypeOK, Control, TicketInv, [Next]_vars
  PROVE  TicketInv'
<1>1. CASE UNCHANGED vars
  BY <1>1 DEF TicketInv, TicketsIssued, TicketsExclusive, vars
<1>2. ASSUME NEW c \in Clients, QuietStep(c) PROVE TicketInv'
  <2>1. \A d \in Clients : pc'[d] \in {"addr", "add", "ticket", "change"} =>
                             pc[d] \in {"addr", "add", "ticket", "change"}
    BY <1>2 DEF QuietStep
  <2> QED BY <1>2, <2>1 DEF QuietStep, TicketInv, TicketsIssued, TicketsExclusive
<1>3. ASSUME NEW c \in Clients, ReturnStep(c) PROVE TicketInv'
  <2>1. /\ pc'[c] = "idle" /\ elems'[c] = <<>> /\ poolHeld'[c] = 0
        /\ DOMAIN elems'[c] = {}
        /\ \A d \in Clients \ {c} : /\ pc'[d] = pc[d] /\ elems'[d] = elems[d]
                                   /\ tickets'[d] = tickets[d] /\ poolHeld'[d] = poolHeld[d]
        /\ UNCHANGED <<inactiveTicket, poolTicket>>
    BY <1>3 DEF ReturnStep, Return, Goto, TypeOK, ClientTypeOK
  <2>2. TicketsIssued'
    <3>1. 0 <= poolTicket
      BY DEF TypeOK, KernelTypeOK
    <3>2. \A d \in Clients : \A i \in DOMAIN elems'[d] :
            tickets'[d][i] <= inactiveTicket'[elems'[d][i]]
      BY <2>1 DEF TicketInv, TicketsIssued
    <3>3. \A d \in Clients :
            /\ poolHeld'[d] <= poolTicket'
            /\ pc'[d] \in {"addr", "add", "ticket", "change"} => poolHeld'[d] # 0
      BY <2>1, <3>1 DEF TicketInv, TicketsIssued
    <3> QED BY <3>2, <3>3 DEF TicketsIssued
  <2>3. TicketsExclusive'
    BY <2>1 DEF TicketInv, TicketsExclusive
  <2> QED BY <2>2, <2>3 DEF TicketInv
<1>4. ASSUME NEW c \in Clients, BeginTrans(c) PROVE TicketInv'
  <2>1. PICK es \in ElementOrders(Submits(call[c].trans)) :
          /\ XBegin(es)
          /\ elems' = [elems EXCEPT ![c] = es]
          /\ tickets' = [tickets EXCEPT ![c] =
                           [i \in DOMAIN es |-> inactiveTicket[es[i]] + 1]]
    BY <1>4 DEF BeginTrans
  <2>2. es \in Seq(Rulesets)
    BY <2>1, ElementOrdersType DEF Submits
  <2>3. /\ elems'[c] = es
        /\ \A i \in DOMAIN es : /\ es[i] \in Rulesets
                               /\ tickets'[c][i] = inactiveTicket[es[i]] + 1
                               /\ inactiveTicket'[es[i]] = inactiveTicket[es[i]] + 1
        /\ \A d \in Clients \ {c} : elems'[d] = elems[d] /\ tickets'[d] = tickets[d]
    BY <2>1, <2>2 DEF XBegin, Range, TypeOK, ClientTypeOK
  <2>4. \A rs \in Rulesets : /\ inactiveTicket[rs] \in Nat /\ inactiveTicket'[rs] \in Nat
                             /\ inactiveTicket[rs] <= inactiveTicket'[rs]
    BY <2>1 DEF XBegin, TypeOK, KernelTypeOK
  <2>5. UNCHANGED <<poolHeld, poolTicket>> /\ pc'[c] = "rule"
        /\ \A d \in Clients \ {c} : pc'[d] = pc[d]
    BY <1>4, <2>1 DEF BeginTrans, XBegin, Goto, TypeOK, ClientTypeOK
  <2>6. \A d \in Clients : \A i \in DOMAIN elems[d] :
           elems[d][i] \in Rulesets /\ tickets[d][i] \in Nat
    BY ElementsTyped
  <2>7. TicketsIssued'
    <3>1. \A i \in DOMAIN elems'[c] : tickets'[c][i] <= inactiveTicket'[elems'[c][i]]
      BY <2>3, <2>4
    <3>2. ASSUME NEW d \in Clients \ {c}, NEW i \in DOMAIN elems'[d]
          PROVE  tickets'[d][i] <= inactiveTicket'[elems'[d][i]]
      <4>1. elems'[d] = elems[d] /\ tickets'[d] = tickets[d] /\ i \in DOMAIN elems[d]
        BY <2>3
      <4>2. tickets[d][i] <= inactiveTicket[elems[d][i]]
        BY <4>1 DEF TicketInv, TicketsIssued
      <4>3. elems[d][i] \in Rulesets /\ tickets[d][i] \in Nat
        BY <2>6, <4>1
      <4> QED BY <2>4, <4>1, <4>2, <4>3
    <3>3. \A d \in Clients : \A i \in DOMAIN elems'[d] :
            tickets'[d][i] <= inactiveTicket'[elems'[d][i]]
      BY <3>1, <3>2
    <3>4. \A d \in Clients :
            /\ poolHeld'[d] <= poolTicket'
            /\ pc'[d] \in {"addr", "add", "ticket", "change"} => poolHeld'[d] # 0
      BY <2>5 DEF TicketInv, TicketsIssued
    <3> QED BY <3>3, <3>4 DEF TicketsIssued
  <2>8. ASSUME NEW d \in Clients \ {c}, NEW i \in DOMAIN es, NEW j \in DOMAIN elems[d],
               es[i] = elems[d][j]
        PROVE  tickets'[c][i] # tickets[d][j]
    BY <2>3, <2>4, <2>6, <2>8 DEF TicketInv, TicketsIssued
  <2>9. TicketsExclusive'
    BY <2>3, <2>5, <2>8 DEF TicketInv, TicketsExclusive
  <2> QED BY <2>7, <2>9 DEF TicketInv
<1>5. ASSUME NEW c \in Clients, PoolTicket(c) PROVE TicketInv'
  <2>1. /\ poolHeld'[c] = poolTicket + 1 /\ poolTicket' = poolTicket + 1
        /\ \A d \in Clients \ {c} : poolHeld'[d] = poolHeld[d] /\ pc'[d] = pc[d]
        /\ UNCHANGED <<elems, tickets, inactiveTicket>>
    BY <1>5 DEF PoolTicket, BeginAddrs, Goto, TypeOK, ClientTypeOK
  <2>2. poolTicket \in Nat /\ \A d \in Clients : poolHeld[d] \in Nat
    BY DEF TypeOK, KernelTypeOK, ClientTypeOK
  <2>3. TicketsIssued'
    BY <2>1, <2>2 DEF TicketInv, TicketsIssued
  <2>4. \A d \in Clients \ {c} : poolHeld'[d] # poolHeld'[c]
    BY <2>1, <2>2 DEF TicketInv, TicketsIssued
  <2>5. TicketsExclusive'
    BY <2>1, <2>4 DEF TicketInv, TicketsExclusive
  <2> QED BY <2>3, <2>5 DEF TicketInv
<1> QED BY <1>1, <1>2, <1>3, <1>4, <1>5, StepKinds

LEMMA InitTickets == Init => TicketInv
BY DEF Init, KernelInit, TicketInv, TicketsIssued, TicketsExclusive

\* No two clients ever hold the same ticket of a ruleset or of the address
\* buffer, for any number of clients, rulesets and calls.
THEOREM Exclusive == Spec => []TicketsExclusive
<1>1. Init => TicketInv
  BY InitTickets
<1>2. TypeOK /\ Control /\ TicketInv /\ [Next]_vars => TicketInv'
  BY TicketInvStep
<1>3. TicketInv => TicketsExclusive
  BY DEF TicketInv
<1> QED BY <1>1, <1>2, <1>3, ControlCorrect, PTL DEF Spec
-----------------------------------------------------------------------------
(* One client moves at a time. *)

Same(d) == /\ pc'[d] = pc[d] /\ call'[d] = call[d] /\ elems'[d] = elems[d]
           /\ tickets'[d] = tickets[d] /\ elem'[d] = elem[d] /\ nrule'[d] = nrule[d]
           /\ poolHeld'[d] = poolHeld[d]

Move(c) == StartCall(c) \/ Step(c) \/ OpenFails(c) \/ IoctlFails(c) \/ Crash(c)

LEMMA ReturnOthers ==
  ASSUME TypeOK, NEW c \in Clients, NEW r, Return(c, r)
  PROVE  /\ \A d \in Clients \ {c} : Same(d)
         /\ pc'[c] = "idle" /\ elems'[c] = <<>>
BY DEF Return, Goto, TypeOK, ClientTypeOK, Same

LEMMA OthersSame ==
  ASSUME TypeOK, NEW c \in Clients, Move(c)
  PROVE  \A d \in Clients \ {c} : Same(d)
<1>1. CASE StartCall(c)
  <2>1. UNCHANGED <<elems, tickets, elem, nrule, poolHeld>>
    BY <1>1 DEF StartCall, AddChange, SetRules, FlushRules, CommitTransaction,
                AddSingleRule, Start, progressVars
  <2>2. /\ \E point \in PCs : pc' = pc \/ pc' = [pc EXCEPT ![c] = point]
        /\ \E req : call' = call \/ call' = [call EXCEPT ![c] = req]
    BY <1>1 DEF StartCall, AddChange, SetRules, FlushRules, CommitTransaction,
                AddSingleRule, Start, Goto, PCs
  <2> QED BY <2>1, <2>2 DEF Same, TypeOK, ClientTypeOK
<1>2. CASE \E r : Return(c, r)
  BY <1>2, ReturnOthers
<1>3. CASE BeginTrans(c) \/ PoolTicket(c) \/ AddTransRule(c) \/ GetTicket(c)
  BY <1>3 DEF BeginTrans, PoolTicket, AddTransRule, GetTicket, Goto, Same, TypeOK, ClientTypeOK
<1>4. CASE NextRule(c)
  BY <1>4 DEF NextRule, Goto, Same, TypeOK, ClientTypeOK
<1>5. CASE AddPoolAddress(c)
  <2>1. CASE UNCHANGED <<progressVars, call, result, calls>>
             /\ Goto(c, IF IsAdd(c) THEN "ticket" ELSE "add")
    BY <2>1 DEF progressVars, Goto, Same, TypeOK, ClientTypeOK
  <2> QED BY <1>2, <1>5, <2>1 DEF AddPoolAddress
<1>6. CASE \/ OpenFails(c) \/ IoctlFails(c) \/ Crash(c) \/ ConversionFails(c)
           \/ TicketRefused(c) \/ CommitTrans(c) \/ ChangeRule(c)
  BY <1>2, <1>6 DEF OpenFails, IoctlFails, Crash, ConversionFails, TicketRefused,
                    CommitTrans, ChangeRule, Succeed
<1> QED BY <1>1, <1>3, <1>4, <1>5, <1>6 DEF Move, Step

-----------------------------------------------------------------------------
(* The address buffer. *)

LEMMA PoolFrame ==
  ASSUME NEW d \in Clients, PoolStagedAt(d), Same(d),
         UNCHANGED <<poolTicket, pabuf>> \/ poolHeld[d] # poolTicket'
  PROVE  PoolStagedAt(d)'
BY CurrentFrame DEF Same, PoolStagedAt

\* A step that touches the buffer was made with the current pool ticket, which
\* nobody else holds.
LEMMA PoolOthers ==
  ASSUME TypeOK, Control, TicketInv, NEW c \in Clients, Move(c), NEW d \in Clients \ {c}
  PROVE  UNCHANGED <<poolTicket, pabuf>> \/ poolHeld[d] # poolTicket'
<1>1. CASE AddPoolAddress(c) \/ AddTransRule(c) \/ ChangeRule(c)
  <2>1. poolTicket' = poolTicket /\ poolHeld[c] = poolTicket
        /\ pc[c] \in {"addr", "add", "change"}
    BY <1>1 DEF AddPoolAddress, AddTransRule, ChangeRule, AddAddr, AddRule, AddCurrent,
                ChangeAddTail, ChangeCurrent, Ready
  <2> QED BY <2>1 DEF TicketInv, TicketsIssued, TicketsExclusive
<1>2. CASE PoolTicket(c)
  <2>1. poolTicket' = poolTicket + 1 /\ poolTicket \in Nat /\ poolHeld[d] \in Nat
    BY <1>2 DEF PoolTicket, BeginAddrs, TypeOK, KernelTypeOK, ClientTypeOK
  <2>2. poolHeld[d] <= poolTicket
    BY DEF TicketInv, TicketsIssued
  <2> QED BY <2>1, <2>2
<1>3. CASE StartCall(c)
  BY <1>3 DEF StartCall, AddChange, SetRules, FlushRules, CommitTransaction,
              AddSingleRule, Start, kernelVars
<1>4. CASE \/ OpenFails(c) \/ IoctlFails(c) \/ Crash(c) \/ ConversionFails(c)
           \/ TicketRefused(c) \/ NextRule(c)
  BY <1>4 DEF OpenFails, IoctlFails, Crash, ConversionFails, TicketRefused, NextRule,
              kernelVars
<1>5. CASE CommitTrans(c) \/ BeginTrans(c) \/ GetTicket(c)
  BY <1>5 DEF CommitTrans, BeginTrans, GetTicket, XCommit, XBegin, ChangeGetTicket
<1> QED BY <1>1, <1>2, <1>3, <1>4, <1>5 DEF Move, Step

LEMMA PoolStagedStep ==
  ASSUME TypeOK, Control, TicketInv, PoolStaged, [Next]_vars
  PROVE  PoolStaged'
<1>1. CASE UNCHANGED vars
  <2>1. UNCHANGED <<pc, call, elems, tickets, elem, nrule, poolHeld, poolTicket, pabuf>>
    BY <1>1 DEF vars
  <2> QED BY <2>1, PoolFrame DEF PoolStaged, Same
<1>2. ASSUME NEW c \in Clients, Move(c) PROVE PoolStaged'
  <2>1. \A d \in Clients \ {c} : PoolStagedAt(d)'
    BY <1>2, OthersSame, PoolOthers, PoolFrame DEF PoolStaged
  <2>2. PoolStagedAt(c)'
    <3>1. CASE PoolTicket(c)
      <4>1. /\ call' = call /\ elems' = elems /\ elem' = elem /\ nrule' = nrule
            /\ pabuf' = {}
            /\ pc'[c] = CASE RegistersPool(c) -> "addr"
                          [] ~RegistersPool(c) /\ IsAdd(c) -> "ticket"
                          [] ~RegistersPool(c) /\ ~IsAdd(c) -> "add"
        BY <3>1 DEF PoolTicket, BeginAddrs, Goto, TypeOK, ClientTypeOK
      <4>2. RegistersPool(c)' = RegistersPool(c)
        BY <4>1, CurrentFrame
      <4>3. pc'[c] = "addr" \/ ~RegistersPool(c)
        BY <4>1 DEF RegistersPool, IsAdd
      <4>4. pc'[c] = "addr" => pc'[c] \notin {"add", "ticket", "change"}
        OBVIOUS
      <4> QED BY <4>1, <4>2, <4>3, <4>4 DEF PoolStagedAt
    <3>2. CASE AddPoolAddress(c)
      <4>1. CASE Return(c, "InvalidPool")
        BY <4>1, ReturnOthers DEF PoolStagedAt
      <4>2. CASE /\ Goto(c, IF IsAdd(c) THEN "ticket" ELSE "add")
                 /\ UNCHANGED <<progressVars, call, result, calls>>
        <5>1. /\ pc[c] = "addr" /\ CurRule(c) \in Rules /\ RegistersPool(c)
          BY <3>2, CurrentType DEF AddPoolAddress, Ready, Control, ControlAt
        <5>2. PICK addr \in RulePool[CurRule(c)] : AddAddr(poolHeld[c], addr)
          BY <3>2 DEF AddPoolAddress
        <5>3. RulePool[CurRule(c)] = {addr}
          BY <5>1, <5>2, PoolAssumption
        <5>4. pabuf' = RulePool[CurRule(c)]
          BY <5>1, <5>2, <5>3 DEF AddAddr, PoolStaged, PoolStagedAt
        <5>5. CurRule(c)' = CurRule(c) /\ RegistersPool(c)' = RegistersPool(c)
          BY <4>2, CurrentFrame DEF progressVars
        <5>6. pc'[c] # "addr"
          BY <4>2 DEF Goto, TypeOK, ClientTypeOK
        <5> QED BY <5>1, <5>4, <5>5, <5>6 DEF PoolStagedAt
      <4> QED BY <3>2, <4>1, <4>2 DEF AddPoolAddress
    <3>3. CASE GetTicket(c)
      <4>1. /\ pc[c] = "ticket" /\ pc'[c] = "change"
            /\ UNCHANGED <<call, elems, elem, nrule, poolHeld, poolTicket, pabuf>>
        BY <3>3 DEF GetTicket, ChangeGetTicket, Ready, Goto, TypeOK, ClientTypeOK
      <4>2. CurRule(c)' = CurRule(c) /\ RegistersPool(c)' = RegistersPool(c)
        BY <4>1, CurrentFrame
      <4> QED BY <4>1, <4>2 DEF PoolStaged, PoolStagedAt
    <3>4. CASE \/ OpenFails(c) \/ IoctlFails(c) \/ Crash(c) \/ ConversionFails(c)
               \/ TicketRefused(c) \/ CommitTrans(c) \/ ChangeRule(c)
      <4>1. \E r : Return(c, r)
        BY <3>4 DEF OpenFails, IoctlFails, Crash, ConversionFails, TicketRefused,
                    CommitTrans, ChangeRule, Succeed
      <4> QED BY <4>1, ReturnOthers DEF PoolStagedAt
    <3>5. CASE StartCall(c) \/ BeginTrans(c) \/ NextRule(c) \/ AddTransRule(c)
      <4>1. pc'[c] \in {"idle", "begin", "pool", "rule", "commit"}
        <5>1. CASE StartCall(c)
          BY <5>1 DEF StartCall, AddChange, SetRules, FlushRules, CommitTransaction,
                      AddSingleRule, Start, Goto, TypeOK, ClientTypeOK
        <5>2. CASE BeginTrans(c) \/ NextRule(c) \/ AddTransRule(c)
          BY <5>2 DEF BeginTrans, NextRule, AddTransRule, Goto, TypeOK, ClientTypeOK
        <5> QED BY <3>5, <5>1, <5>2
      <4> QED BY <4>1 DEF PoolStagedAt
    <3> QED BY <1>2, <3>1, <3>2, <3>3, <3>4, <3>5 DEF Move, Step
  <2> QED BY <2>1, <2>2 DEF PoolStaged
<1> QED BY <1>1, <1>2 DEF Next, Move
-----------------------------------------------------------------------------
(* Pools match rules. *)

StagedEntry(rs, e) == RuleKind[e.rule] = rs[2] /\ e.pool = RulePool[e.rule]
ActiveEntry(rs, e) == /\ RuleKind[e.rule] = rs[2]
                      /\ \/ e.pool = RulePool[e.rule]
                         \/ rs[2] = "filter" /\ e.pool = {}

LEMMA AppendEntry ==
  ASSUME NEW s \in Seq(Entry), NEW e \in Entry, NEW i \in DOMAIN Append(s, e)
  PROVE  \/ i \in DOMAIN s /\ Append(s, e)[i] = s[i]
         \/ i = Len(s) + 1 /\ Append(s, e)[i] = e
<1>1. DOMAIN Append(s, e) = 1..(Len(s) + 1) /\ DOMAIN s = 1..Len(s) /\ Len(s) \in Nat
  OBVIOUS
<1>2. CASE i \in 1..Len(s)
  BY <1>1, <1>2
<1>3. CASE i = Len(s) + 1
  BY <1>1, <1>3
<1> QED BY <1>1, <1>2, <1>3

LEMMA PoolsMatchForm ==
  PoolsMatch <=> \A rs \in Rulesets :
                   /\ \A i \in DOMAIN inactive[rs] : StagedEntry(rs, inactive[rs][i])
                   /\ \A i \in DOMAIN active[rs] : ActiveEntry(rs, active[rs][i])
BY DEF PoolsMatch, StagedEntry, ActiveEntry

LEMMA PoolsMatchStep ==
  ASSUME TypeOK, Control, PoolStaged, PoolsMatch, [Next]_vars
  PROVE  PoolsMatch'
<1>0. /\ active \in [Rulesets -> Seq(Entry)] /\ inactive \in [Rulesets -> Seq(Entry)]
      /\ pabuf \subseteq Addrs
  BY DEF TypeOK, KernelTypeOK
<1>1. CASE UNCHANGED <<active, inactive>>
  BY <1>1 DEF PoolsMatch
<1>2. ASSUME NEW c \in Clients, AddTransRule(c) PROVE PoolsMatch'
  <2> DEFINE rs == CurRuleset(c)
             e == [rule |-> CurRule(c), pool |-> pabuf]
  <2>1. /\ pc[c] = "add" /\ CurRule(c) \in Rules /\ rs \in Rulesets
        /\ RuleKind[CurRule(c)] = rs[2] /\ ~IsAdd(c)
    BY <1>2, CurrentType DEF AddTransRule, Control, ControlAt, IsAdd
  <2>2. /\ poolHeld[c] = poolTicket /\ active' = active
        /\ inactive' = [inactive EXCEPT ![rs] = Append(@, e)]
    BY <1>2 DEF AddTransRule, AddRule, AddCurrent
  <2>3. pabuf = RulePool[CurRule(c)]
    BY <2>1, <2>2 DEF PoolStaged, PoolStagedAt, RegistersPool
  <2>4. e \in Entry /\ StagedEntry(rs, e)
    BY <1>0, <2>1, <2>3 DEF Entry, StagedEntry
  <2> HIDE DEF rs, e
  <2>5. ASSUME NEW t \in Rulesets, NEW i \in DOMAIN inactive'[t]
        PROVE  StagedEntry(t, inactive'[t][i])
    <3>1. CASE t # rs
      BY <1>0, <2>2, <3>1, PoolsMatchForm
    <3>2. CASE t = rs
      <4>1. inactive'[t] = Append(inactive[rs], e) /\ inactive[rs] \in Seq(Entry)
        BY <1>0, <2>1, <2>2, <3>2
      <4> QED BY <2>1, <2>4, <3>2, <4>1, AppendEntry, PoolsMatchForm
    <3> QED BY <3>1, <3>2
  <2> QED BY <2>2, <2>5 DEF PoolsMatch, StagedEntry
<1>3. ASSUME NEW c \in Clients, ChangeRule(c) PROVE PoolsMatch'
  <2> DEFINE rs == CurRuleset(c)
             e == [rule |-> CurRule(c), pool |-> pabuf]
  <2>1. /\ pc[c] = "change" /\ CurRule(c) \in Rules /\ rs \in Rulesets
        /\ RuleKind[CurRule(c)] = rs[2] /\ IsAdd(c)
    BY <1>3, CurrentType DEF ChangeRule, Ready, Control, ControlAt, IsAdd
  <2>2. /\ poolHeld[c] = poolTicket /\ inactive' = inactive
        /\ active' = [active EXCEPT ![rs] = Append(@, e)]
    BY <1>3 DEF ChangeRule, ChangeAddTail, ChangeCurrent
  <2>3. pabuf = IF RegistersPool(c) THEN RulePool[CurRule(c)] ELSE {}
    BY <2>1, <2>2 DEF PoolStaged, PoolStagedAt
  <2>4. rs = call[c].rs /\ rs[2] \in Kinds
    BY <2>1 DEF CurRuleset, Rulesets
  <2>5. \/ pabuf = RulePool[CurRule(c)]
        \/ rs[2] = "filter" /\ pabuf = {}
    <3>1. CASE RegistersPool(c)
      BY <2>3, <3>1
    <3>2. CASE ~RegistersPool(c) /\ RulePool[CurRule(c)] = {}
      BY <2>3, <3>2
    <3>3. CASE rs[2] \notin {"nat", "redirect"} /\ ~RegistersPool(c)
      <4>1. rs[2] = "filter" \/ rs[2] = "scrub"
        BY <2>4, <3>3 DEF Kinds
      <4>2. rs[2] = "scrub" => RulePool[CurRule(c)] = {}
        BY <2>1, PoolAssumption
      <4> QED BY <2>3, <3>3, <4>1, <4>2
    <3> QED BY <2>1, <2>4, <3>1, <3>2, <3>3 DEF RegistersPool
  <2>6. e \in Entry /\ ActiveEntry(rs, e)
    BY <1>0, <2>1, <2>5 DEF Entry, ActiveEntry
  <2> HIDE DEF rs, e
  <2>7. ASSUME NEW t \in Rulesets, NEW i \in DOMAIN active'[t]
        PROVE  ActiveEntry(t, active'[t][i])
    <3>1. CASE t # rs
      BY <1>0, <2>2, <3>1, PoolsMatchForm
    <3>2. CASE t = rs
      <4>1. active'[t] = Append(active[rs], e) /\ active[rs] \in Seq(Entry)
        BY <1>0, <2>1, <2>2, <3>2
      <4> QED BY <2>1, <2>6, <3>2, <4>1, AppendEntry, PoolsMatchForm
    <3> QED BY <3>1, <3>2
  <2> QED BY <2>2, <2>7 DEF PoolsMatch, ActiveEntry
<1>4. ASSUME NEW c \in Clients, BeginTrans(c) PROVE PoolsMatch'
  <2>1. PICK es : XBegin(es)
    BY <1>4 DEF BeginTrans
  <2>2. active' = active /\ \A rs \in Rulesets :
          inactive'[rs] = <<>> \/ inactive'[rs] = inactive[rs]
    BY <2>1 DEF XBegin
  <2> QED BY <2>2 DEF PoolsMatch
<1>5. ASSUME NEW c \in Clients, CommitTrans(c) PROVE PoolsMatch'
  <2>1. \A rs \in Rulesets : /\ inactive'[rs] = <<>> \/ inactive'[rs] = inactive[rs]
                             /\ active'[rs] = inactive[rs] \/ active'[rs] = active[rs]
    BY <1>5 DEF CommitTrans, XCommit
  <2> QED BY <2>1 DEF PoolsMatch
<1>6. \/ UNCHANGED <<active, inactive>>
      \/ \E c \in Clients : \/ AddTransRule(c) \/ ChangeRule(c)
                            \/ BeginTrans(c) \/ CommitTrans(c)
  <2>1. CASE UNCHANGED vars
    BY <2>1 DEF vars
  <2>2. ASSUME NEW c \in Clients, Move(c)
        PROVE  \/ UNCHANGED <<active, inactive>>
               \/ AddTransRule(c) \/ ChangeRule(c) \/ BeginTrans(c) \/ CommitTrans(c)
    <3>1. CASE StartCall(c)
      BY <3>1 DEF StartCall, AddChange, SetRules, FlushRules, CommitTransaction,
                  AddSingleRule, Start, kernelVars
    <3>2. CASE \/ OpenFails(c) \/ IoctlFails(c) \/ Crash(c) \/ ConversionFails(c)
               \/ TicketRefused(c) \/ NextRule(c)
      BY <3>2 DEF OpenFails, IoctlFails, Crash, ConversionFails, TicketRefused, NextRule,
                  kernelVars
    <3>3. CASE PoolTicket(c) \/ AddPoolAddress(c) \/ GetTicket(c)
      BY <3>3 DEF PoolTicket, AddPoolAddress, GetTicket, BeginAddrs, AddAddr, ChangeGetTicket
    <3> QED BY <2>2, <3>1, <3>2, <3>3 DEF Move, Step
  <2> QED BY <2>1, <2>2 DEF Next, Move
<1> QED BY <1>1, <1>2, <1>3, <1>4, <1>5, <1>6

LEMMA InitPools == Init => PoolStaged /\ PoolsMatch
BY DEF Init, KernelInit, PoolStaged, PoolStagedAt, PoolsMatch

\* Whatever other clients do, and whatever failed calls and dead processes left
\* in the address buffer, a rule is stored with its own address.
THEOREM PoolsCorrect == Spec => []PoolsMatch
<1>1. Init => TicketInv /\ PoolStaged /\ PoolsMatch
  BY InitTickets, InitPools
<1>2. TypeOK /\ Control /\ TicketInv /\ PoolStaged /\ PoolsMatch /\ [Next]_vars
        => TicketInv' /\ PoolStaged' /\ PoolsMatch'
  BY TicketInvStep, PoolStagedStep, PoolsMatchStep
<1> QED BY <1>1, <1>2, ControlCorrect, PTL DEF Spec
=============================================================================
