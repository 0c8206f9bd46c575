---------------------------- MODULE PfRulesSolo ----------------------------
(***************************************************************************)
(* Proofs about PfRules, continued: a client that is alone, and whose      *)
(* ioctls fail for no other reason, never has a ticket refused.            *)
(***************************************************************************)
EXTENDS PfRulesProofs

\* What the invariant says of one client.
SoloAt(c) ==
  /\ \A i \in DOMAIN elems[c] : tickets[c][i] = inactiveTicket[elems[c][i]]
  /\ pc[c] \in {"addr", "add", "ticket", "change"} => poolHeld[c] = poolTicket
  /\ pc[c] = "change" => ruleTicket[c] = activeTicket[CurRuleset(c)]
  /\ result[c] # "Ioctl"

LEMMA SoloForm == SoloInv <=> (Solo => \A c \in Clients : SoloAt(c))
BY DEF SoloInv, SoloAt

\* With its tickets current, no ioctl of a client is refused.
LEMMA NotRefused ==
  ASSUME TypeOK, Control, NEW c \in Clients, SoloAt(c)
  PROVE  ~TicketRefused(c)
<1>1. ASSUME pc[c] = "add" PROVE AddCurrent(CurRuleset(c), CurTicket(c), poolHeld[c])
  <2>1. /\ ~IsAdd(c) /\ elem[c] \in DOMAIN elems[c]
    BY <1>1 DEF Control, ControlAt, IsAdd
  <2> QED BY <1>1, <2>1 DEF AddCurrent, CurRuleset, CurTicket, SoloAt
<1>2. pc[c] = "change" => ChangeCurrent(CurRuleset(c), ruleTicket[c], poolHeld[c])
  BY DEF SoloAt, ChangeCurrent
<1>3. pc[c] = "commit" => XCurrent(elems[c], tickets[c])
  BY DEF SoloAt, XCurrent
<1> QED BY <1>1, <1>2, <1>3 DEF TicketRefused, Ready, SoloAt

\* A call that ends without a refusal leaves nothing to be current.
LEMMA ReturnSolo ==
  ASSUME TypeOK, NEW c \in Clients, NEW r, r # "Ioctl", Return(c, r)
  PROVE  SoloAt(c)'
<1>1. pc'[c] = "idle" /\ elems'[c] = <<>> /\ result'[c] = r
  BY DEF Return, Goto, TypeOK, ClientTypeOK
<1> QED BY <1>1 DEF SoloAt

LEMMA SoloStep ==
  ASSUME TypeOK, Control, NEW c \in Clients, SoloAt(c), ~FaultsPossible,
         StartCall(c) \/ Step(c) \/ OpenFails(c) \/ IoctlFails(c) \/ Crash(c)
  PROVE  SoloAt(c)'
<1>1. CASE StartCall(c)
  <2>1. UNCHANGED <<elems, tickets, inactiveTicket, poolHeld, ruleTicket, result>>
    BY <1>1 DEF StartCall, AddChange, SetRules, FlushRules, CommitTransaction, AddSingleRule,
                Start, kernelVars, progressVars
  <2>2. pc'[c] \in {"idle", "begin", "pool"}
    BY <1>1 DEF StartCall, AddChange, SetRules, FlushRules, CommitTransaction, AddSingleRule,
                Start, Goto, TypeOK, ClientTypeOK
  <2> QED BY <2>1, <2>2 DEF SoloAt
<1>2. CASE ConversionFails(c)
  <2>1. LocalError(c) # "Ioctl"
    BY LocalErrorType
  <2> QED BY <1>2, <2>1, ReturnSolo DEF ConversionFails
<1>3. CASE CommitTrans(c) \/ ChangeRule(c)
  BY <1>3, ReturnSolo DEF CommitTrans, ChangeRule, Succeed
<1>4. CASE BeginTrans(c)
  <2>1. PICK es \in ElementOrders(Submits(call[c].trans)) :
          /\ XBegin(es)
          /\ elems' = [elems EXCEPT ![c] = es]
          /\ tickets' = [tickets EXCEPT ![c] =
                           [i \in DOMAIN es |-> inactiveTicket[es[i]] + 1]]
    BY <1>4 DEF BeginTrans
  <2>2. es \in Seq(Rulesets)
    BY <2>1, ElementOrdersType DEF Submits
  <2>3. elems'[c] = es /\ \A i \in DOMAIN es : tickets'[c][i] = inactiveTicket'[es[i]]
    BY <2>1, <2>2 DEF XBegin, Range, TypeOK, ClientTypeOK
  <2>4. pc'[c] = "rule" /\ result' = result
    BY <1>4 DEF BeginTrans, Goto, TypeOK, ClientTypeOK
  <2> QED BY <2>3, <2>4 DEF SoloAt
<1>5. CASE NextRule(c)
  <2>1. pc' = pc \/ pc' = [pc EXCEPT ![c] = "pool"] \/ pc' = [pc EXCEPT ![c] = "commit"]
    BY <1>5 DEF NextRule, Goto
  <2>2. pc'[c] \in {"rule", "pool", "commit"}
    BY <1>5, <2>1 DEF NextRule, TypeOK, ClientTypeOK
  <2> QED BY <1>5, <2>2 DEF NextRule, SoloAt, kernelVars
<1>6. CASE PoolTicket(c)
  <2>1. pc'[c] # "change" /\ poolHeld'[c] = poolTicket'
    BY <1>6 DEF PoolTicket, BeginAddrs, Goto, TypeOK, ClientTypeOK, RegistersPool, IsAdd
  <2> QED BY <1>6, <2>1 DEF PoolTicket, BeginAddrs, SoloAt
<1>7. CASE AddPoolAddress(c)
  <2>1. UNCHANGED <<inactiveTicket, poolTicket>> /\ pc[c] = "addr"
    BY <1>7 DEF AddPoolAddress, AddAddr, Ready
  <2>2. CASE Return(c, "InvalidPool")
    BY <2>2, ReturnSolo
  <2>3. CASE /\ Goto(c, IF IsAdd(c) THEN "ticket" ELSE "add")
             /\ UNCHANGED <<progressVars, call, result, calls>>
    BY <2>1, <2>3 DEF Goto, progressVars, SoloAt, TypeOK, ClientTypeOK
  <2> QED BY <1>7, <2>2, <2>3 DEF AddPoolAddress
<1>8. CASE AddTransRule(c)
  BY <1>8 DEF AddTransRule, AddRule, Goto, SoloAt, TypeOK, ClientTypeOK
<1>9. CASE GetTicket(c)
  <2>1. pc[c] = "ticket" /\ CurRuleset(c) \in Rulesets
    BY <1>9, CurrentType DEF GetTicket, Ready
  <2>2. ruleTicket'[c] = activeTicket'[CurRuleset(c)] /\ CurRuleset(c)' = CurRuleset(c)
    BY <1>9, <2>1, CurrentFrame
       DEF GetTicket, ChangeGetTicket, TypeOK, ClientTypeOK, KernelTypeOK
  <2> QED BY <1>9, <2>1, <2>2 DEF GetTicket, ChangeGetTicket, SoloAt
<1>10. ~TicketRefused(c) /\ ~OpenFails(c) /\ ~IoctlFails(c) /\ ~Crash(c)
  BY NotRefused DEF OpenFails, IoctlFails, Crash
<1> QED BY <1>1, <1>2, <1>3, <1>4, <1>5, <1>6, <1>7, <1>8, <1>9, <1>10 DEF Step

LEMMA InitSolo == Init => SoloInv
BY DEF Init, KernelInit, SoloInv

LEMMA NextSolo == TypeOK /\ Control /\ SoloInv /\ [Next]_vars => SoloInv'
<1> SUFFICES ASSUME TypeOK, Control, SoloInv, [Next]_vars PROVE SoloInv'
  OBVIOUS
<1>1. CASE UNCHANGED vars
  BY <1>1 DEF vars, SoloInv, CurRuleset, IsAdd
<1>2. ASSUME NEW c \in Clients, Solo,
             StartCall(c) \/ Step(c) \/ OpenFails(c) \/ IoctlFails(c) \/ Crash(c)
      PROVE  \A d \in Clients : SoloAt(d)'
  BY <1>2, SoloStep DEF Solo, SoloInv, SoloAt
<1> QED BY <1>1, <1>2 DEF Next, SoloInv, SoloAt

\* The order in which commit and the single-rule calls take their tickets never
\* invalidates one of their own, whatever the transaction holds.
THEOREM SoloNeverRefused == Spec => []NoSelfConflict
<1>1. TypeOK /\ Control /\ SoloInv /\ [Next]_vars => SoloInv'
  BY NextSolo
<1>2. SoloInv => NoSelfConflict
  BY DEF SoloInv, NoSelfConflict
<1> QED BY <1>1, <1>2, InitSolo, ControlCorrect, PTL DEF Spec
=============================================================================
