------------------------- MODULE PfRulesRefinement -------------------------
(***************************************************************************)
(* Proofs about PfRules, concluded: while a transaction's ticket is        *)
(* current the inactive ruleset holds what it added so far, and therefore  *)
(* the calls implement the atomic store.                                   *)
(***************************************************************************)
EXTENDS PfRulesSafety

FirstOf(R, n) == [j \in 1..n |-> R[j]]

\* StagedPrefix for one element of one client.
StagedAt(c, i) ==
  tickets[c][i] = inactiveTicket[elems[c][i]] =>
    RulesOf(inactive[elems[c][i]]) = FirstOf(ElemRules(c, i), Progress(c, i))

LEMMA StagedForm == StagedPrefix <=> \A c \in Clients : \A i \in DOMAIN elems[c] : StagedAt(c, i)
BY DEF StagedPrefix, StagedAt, FirstOf

\* The kernel's side of an element did not change, or its ticket is stale now.
Undisturbed(c, i) ==
  \/ /\ inactive'[elems[c][i]] = inactive[elems[c][i]]
     /\ inactiveTicket'[elems[c][i]] = inactiveTicket[elems[c][i]]
  \/ tickets[c][i] # inactiveTicket'[elems[c][i]]

LEMMA StagedFrame ==
  ASSUME NEW c \in Clients, NEW i \in DOMAIN elems[c], StagedAt(c, i), Undisturbed(c, i),
         call'[c] = call[c], elems'[c] = elems[c], tickets'[c] = tickets[c],
         Progress(c, i)' = Progress(c, i)
  PROVE  StagedAt(c, i)'
<1>1. ElemRules(c, i)' = ElemRules(c, i)
  BY DEF ElemRules
<1> QED BY <1>1 DEF StagedAt, Undisturbed, RulesOf

LEMMA ProgressFrame ==
  ASSUME NEW c \in Clients, NEW i, call'[c] = call[c], elems'[c] = elems[c],
         elem'[c] = elem[c], nrule'[c] = nrule[c]
  PROVE  Progress(c, i)' = Progress(c, i)
BY DEF Progress, ElemRules

LEMMA RulesOfType ==
  ASSUME NEW s \in Seq(Entry)
  PROVE  /\ RulesOf(s) \in Seq(Rules) /\ Len(RulesOf(s)) = Len(s)
         /\ \A j \in 1..Len(s) : RulesOf(s)[j] = s[j].rule
<1>1. /\ DOMAIN s = 1..Len(s) /\ Len(s) \in Nat
      /\ \A j \in 1..Len(s) : s[j] \in Entry
  OBVIOUS
<1>2. RulesOf(s) = [j \in 1..Len(s) |-> s[j].rule]
  BY <1>1 DEF RulesOf
<1>3. \A j \in 1..Len(s) : s[j].rule \in Rules
  BY <1>1 DEF Entry
<1> QED BY <1>1, <1>2, <1>3

LEMMA IntervalsEqual ==
  ASSUME NEW m \in Nat, NEW n \in Nat, 1..m = 1..n PROVE m = n
<1>1. (m \in 1..n <=> m \in 1..m) /\ (n \in 1..m <=> n \in 1..n)
  OBVIOUS
<1> QED BY <1>1

LEMMA RulesOfAppend ==
  ASSUME NEW s \in Seq(Entry), NEW e \in Entry, NEW R, NEW n \in Nat,
         RulesOf(s) = FirstOf(R, n), e.rule = R[n + 1]
  PROVE  RulesOf(Append(s, e)) = FirstOf(R, n + 1)
<1>1. DOMAIN s = 1..Len(s) /\ Len(s) \in Nat /\ DOMAIN Append(s, e) = 1..(Len(s) + 1)
  OBVIOUS
<1>2. 1..Len(s) = 1..n
  BY <1>1 DEF RulesOf, FirstOf
<1>3. Len(s) = n
  BY <1>1, <1>2, IntervalsEqual
<1>4. \A i \in 1..n : Append(s, e)[i].rule = R[i]
  <2>1. \A i \in 1..n : Append(s, e)[i] = s[i]
    BY <1>1, <1>3
  <2>2. \A i \in 1..n : s[i].rule = R[i]
    BY <1>1, <1>3 DEF RulesOf, FirstOf
  <2> QED BY <2>1, <2>2
<1>5. Append(s, e)[n + 1] = e
  BY <1>3
<1>6. \A i \in 1..(n + 1) : Append(s, e)[i].rule = R[i]
  <2>1. \A i \in 1..(n + 1) : i \in 1..n \/ i = n + 1
    OBVIOUS
  <2> QED BY <1>4, <1>5, <2>1
<1> QED BY <1>1, <1>3, <1>6 DEF RulesOf, FirstOf

-----------------------------------------------------------------------------
(* What a step of one client does to the elements of another. *)

LEMMA OthersUndisturbed ==
  ASSUME TypeOK, Control, TicketInv, NEW c \in Clients, Move(c), NEW d \in Clients \ {c},
         NEW i \in DOMAIN elems[d]
  PROVE  Undisturbed(d, i)
<1>0. /\ elems[d][i] \in Rulesets /\ tickets[d][i] \in Nat
      /\ tickets[d][i] <= inactiveTicket[elems[d][i]]
  BY ElementsTyped DEF TicketInv, TicketsIssued
<1>1. CASE UNCHANGED <<inactive, inactiveTicket>>
  BY <1>1 DEF Undisturbed
<1>2. CASE BeginTrans(c)
  <2>1. PICK es : XBegin(es)
    BY <1>2 DEF BeginTrans
  <2>2. inactiveTicket[elems[d][i]] \in Nat
    BY <1>0 DEF TypeOK, KernelTypeOK
  <2> QED BY <1>0, <2>1, <2>2 DEF XBegin, Undisturbed
<1>3. CASE AddTransRule(c)
  <2>1. /\ pc[c] = "add" /\ ~IsAdd(c) /\ elem[c] \in DOMAIN elems[c]
        /\ CurRuleset(c) = elems[c][elem[c]]
    BY <1>3 DEF AddTransRule, Control, ControlAt, IsAdd, CurRuleset
  <2>2. /\ tickets[c][elem[c]] = inactiveTicket[elems[c][elem[c]]]
        /\ \E e : inactive' = [inactive EXCEPT ![elems[c][elem[c]]] = Append(@, e)]
        /\ inactiveTicket' = inactiveTicket
    BY <1>3, <2>1 DEF AddTransRule, AddRule, AddCurrent, CurTicket
  <2>3. CASE elems[d][i] = elems[c][elem[c]]
    BY <2>1, <2>2, <2>3 DEF Undisturbed, TicketInv, TicketsExclusive
  <2>4. CASE elems[d][i] # elems[c][elem[c]]
    BY <1>0, <2>2, <2>4 DEF Undisturbed, TypeOK, KernelTypeOK
  <2> QED BY <2>3, <2>4
<1>4. CASE CommitTrans(c)
  <2>1. /\ inactiveTicket' = inactiveTicket
        /\ \A k \in DOMAIN elems[c] : tickets[c][k] = inactiveTicket[elems[c][k]]
        /\ inactive' = [rs \in Rulesets |->
                          IF rs \in Range(elems[c]) THEN <<>> ELSE inactive[rs]]
    BY <1>4 DEF CommitTrans, XCommit, XCurrent
  <2>2. CASE elems[d][i] \in Range(elems[c])
    <3>1. PICK k \in DOMAIN elems[c] : elems[c][k] = elems[d][i]
      BY <2>2 DEF Range
    <3> QED BY <2>1, <3>1 DEF Undisturbed, TicketInv, TicketsExclusive
  <2>3. CASE elems[d][i] \notin Range(elems[c])
    BY <1>0, <2>1, <2>3 DEF Undisturbed
  <2> QED BY <2>2, <2>3
<1>5. \/ UNCHANGED <<inactive, inactiveTicket>>
      \/ BeginTrans(c) \/ AddTransRule(c) \/ CommitTrans(c)
  <2>1. CASE StartCall(c)
    BY <2>1 DEF StartCall, AddChange, SetRules, FlushRules, CommitTransaction,
                AddSingleRule, Start, kernelVars
  <2>2. CASE \/ OpenFails(c) \/ IoctlFails(c) \/ Crash(c) \/ ConversionFails(c)
             \/ TicketRefused(c) \/ NextRule(c)
    BY <2>2 DEF OpenFails, IoctlFails, Crash, ConversionFails, TicketRefused, NextRule,
                kernelVars
  <2>3. CASE PoolTicket(c) \/ AddPoolAddress(c) \/ GetTicket(c) \/ ChangeRule(c)
    BY <2>3 DEF PoolTicket, AddPoolAddress, GetTicket, ChangeRule, BeginAddrs, AddAddr,
                ChangeGetTicket, ChangeAddTail
  <2> QED BY <2>1, <2>2, <2>3 DEF Move, Step
<1> QED BY <1>1, <1>2, <1>3, <1>4, <1>5

-----------------------------------------------------------------------------
(* What a step of a client does to its own elements. *)

LEMMA BeginStaged ==
  ASSUME TypeOK, Control, NEW c \in Clients, BeginTrans(c), NEW i \in DOMAIN elems'[c]
  PROVE  StagedAt(c, i)'
<1>1. pc[c] = "begin" /\ nrule[c] = 0
  BY DEF BeginTrans, Ready, Control, ControlAt
<1>2. PICK es : XBegin(es) /\ elems' = [elems EXCEPT ![c] = es]
  BY DEF BeginTrans
<1>3. /\ elems'[c] = es /\ elem'[c] = 1 /\ nrule'[c] = 0
  BY <1>1, <1>2 DEF BeginTrans, TypeOK, ClientTypeOK
<1>4. i \in DOMAIN es /\ es[i] \in Range(es)
  BY <1>3 DEF Range
<1>5. es \in Seq(Rulesets)
  BY <1>2, <1>3, BeginTransTyped DEF TypeOK, ClientTypeOK
<1>6. i \in 1..Len(es) /\ Len(es) \in Nat /\ es[i] \in Rulesets
  BY <1>4, <1>5
<1>7. inactive'[es[i]] = <<>>
  BY <1>2, <1>4, <1>6 DEF XBegin
<1>8. Progress(c, i)' = 0
  BY <1>3, <1>6 DEF Progress
<1>9. \A R : RulesOf(<<>>) = FirstOf(R, 0)
  BY DEF RulesOf, FirstOf
<1> QED BY <1>3, <1>7, <1>8, <1>9 DEF StagedAt, RulesOf, FirstOf

LEMMA NextRuleStaged ==
  ASSUME TypeOK, Control, NEW c \in Clients, NextRule(c), NEW i \in DOMAIN elems[c],
         StagedAt(c, i)
  PROVE  StagedAt(c, i)'
<1>1. /\ UNCHANGED <<inactive, inactiveTicket, call, elems, tickets>> /\ pc[c] = "rule"
  BY DEF NextRule, kernelVars
<1>2. Progress(c, i)' = Progress(c, i)
  <2>1. CASE UNCHANGED <<elem, nrule>>
    BY <1>1, <2>1, ProgressFrame
  <2>2. CASE /\ elem[c] \in DOMAIN elems[c]
             /\ nrule[c] + 1 \notin DOMAIN ElemRules(c, elem[c])
             /\ elem' = [elem EXCEPT ![c] = @ + 1]
             /\ nrule' = [nrule EXCEPT ![c] = 0]
    <3>1. call[c].op = "commit" /\ elem[c] \in Nat /\ i \in Nat
      BY <1>1 DEF Control, ControlAt, TypeOK, ClientTypeOK
    <3>2. ElemRules(c, elem[c]) \in Seq(Rules)
      BY <1>1, <2>2, <3>1, ElemRulesType
    <3>3. nrule[c] \in 0..Len(ElemRules(c, elem[c]))
      BY <1>1, <2>2 DEF Control, ControlAt
    <3>4. nrule[c] = Len(ElemRules(c, elem[c]))
      BY <2>2, <3>2, <3>3
    <3>5. elem'[c] = elem[c] + 1 /\ nrule'[c] = 0
      BY <2>2 DEF TypeOK, ClientTypeOK
    <3>6. ElemRules(c, i)' = ElemRules(c, i)
      BY <1>1 DEF ElemRules
    <3>7. CASE i < elem[c]
      BY <3>1, <3>5, <3>6, <3>7 DEF Progress
    <3>8. CASE i = elem[c]
      BY <3>1, <3>4, <3>5, <3>6, <3>8 DEF Progress
    <3>9. CASE i > elem[c]
      BY <3>1, <3>5, <3>6, <3>9 DEF Progress
    <3> QED BY <3>1, <3>7, <3>8, <3>9
  <2> QED BY <2>1, <2>2 DEF NextRule
<1> QED BY <1>1, <1>2, StagedFrame DEF Undisturbed

LEMMA AddStaged ==
  ASSUME TypeOK, Control, NEW c \in Clients, AddTransRule(c), NEW i \in DOMAIN elems[c],
         StagedAt(c, i)
  PROVE  StagedAt(c, i)'
<1> DEFINE rs == elems[c][elem[c]]
           e == [rule |-> CurRule(c), pool |-> pabuf]
<1>1. /\ pc[c] = "add" /\ call[c].op = "commit" /\ ~IsAdd(c) /\ elem[c] \in DOMAIN elems[c]
      /\ CurRuleset(c) = rs /\ CurRule(c) = ElemRules(c, elem[c])[nrule[c] + 1]
      /\ CurRule(c) \in Rules /\ rs \in Rulesets
  BY CurrentType DEF AddTransRule, Control, ControlAt, IsAdd, CurRuleset, CurRule
<1>2. /\ tickets[c][elem[c]] = inactiveTicket[rs]
      /\ inactive' = [inactive EXCEPT ![rs] = Append(@, e)]
      /\ UNCHANGED <<inactiveTicket, call, elems, tickets, elem>>
      /\ nrule' = [nrule EXCEPT ![c] = @ + 1]
  BY <1>1 DEF AddTransRule, AddRule, AddCurrent, CurTicket
<1>3. nrule[c] \in Nat /\ nrule'[c] = nrule[c] + 1 /\ inactive \in [Rulesets -> Seq(Entry)]
      /\ elems[c][i] \in Rulesets
  BY <1>2 DEF TypeOK, KernelTypeOK, ClientTypeOK
<1>4. CASE i # elem[c]
  <2>1. elems[c][i] # rs
    BY <1>1, <1>4 DEF Control, ControlAt, Elements, IsInjective
  <2>2. Undisturbed(c, i)
    BY <1>2, <1>3, <2>1 DEF Undisturbed
  <2>3. ElemRules(c, i)' = ElemRules(c, i)
    BY <1>2 DEF ElemRules
  <2>4. Progress(c, i)' = Progress(c, i)
    BY <1>2, <1>4, <2>3 DEF Progress
  <2> QED BY <1>2, <2>2, <2>4, StagedFrame
<1>5. CASE i = elem[c]
  <2>1. Progress(c, i) = nrule[c] /\ Progress(c, i)' = nrule[c] + 1
    BY <1>1, <1>2, <1>3, <1>5 DEF Progress, TypeOK, ClientTypeOK
  <2>2. RulesOf(inactive[rs]) = FirstOf(ElemRules(c, i), nrule[c])
    BY <1>2, <1>5, <2>1 DEF StagedAt
  <2>3. e \in Entry /\ e.rule = ElemRules(c, i)[nrule[c] + 1] /\ inactive[rs] \in Seq(Entry)
    BY <1>1, <1>3, <1>5 DEF Entry, TypeOK, KernelTypeOK
  <2> HIDE DEF e
  <2>4. RulesOf(Append(inactive[rs], e)) = FirstOf(ElemRules(c, i), nrule[c] + 1)
    BY <1>3, <2>2, <2>3, RulesOfAppend
  <2>5. inactive'[rs] = Append(inactive[rs], e) /\ ElemRules(c, i)' = ElemRules(c, i)
    BY <1>1, <1>2, <1>3 DEF ElemRules
  <2>6. RulesOf(inactive[rs])' = RulesOf(Append(inactive[rs], e))
    <3>1. (inactive[rs])' = Append(inactive[rs], e)
      BY <1>2, <2>5
    <3> QED BY <3>1 DEF RulesOf
  <2> QED BY <1>2, <1>5, <2>1, <2>4, <2>5, <2>6 DEF StagedAt
<1> QED BY <1>4, <1>5

LEMMA StagedStep ==
  ASSUME TypeOK, Control, TicketInv, StagedPrefix, [Next]_vars
  PROVE  StagedPrefix'
<1>1. CASE UNCHANGED vars
  <2>1. UNCHANGED <<inactive, inactiveTicket, call, elems, tickets, elem, nrule>>
    BY <1>1 DEF vars
  <2>2. ASSUME NEW d \in Clients, NEW i \in DOMAIN elems'[d] PROVE StagedAt(d, i)'
    <3>1. StagedAt(d, i) /\ Undisturbed(d, i) /\ i \in DOMAIN elems[d]
      BY <2>1, <2>2, StagedForm DEF Undisturbed
    <3>2. Progress(d, i)' = Progress(d, i)
      BY <2>1, ProgressFrame
    <3> QED BY <2>1, <3>1, <3>2, StagedFrame
  <2> QED BY <2>2 DEF StagedPrefix, StagedAt, FirstOf
<1>2. ASSUME NEW c \in Clients, Move(c) PROVE StagedPrefix'
  <2>1. ASSUME NEW d \in Clients \ {c}, NEW i \in DOMAIN elems'[d] PROVE StagedAt(d, i)'
    <3>1. Same(d) /\ i \in DOMAIN elems[d]
      BY <1>2, <2>1, OthersSame DEF Same
    <3>2. Undisturbed(d, i) /\ StagedAt(d, i)
      BY <1>2, <3>1, OthersUndisturbed, StagedForm
    <3>3. Progress(d, i)' = Progress(d, i)
      BY <3>1, ProgressFrame DEF Same
    <3> QED BY <3>1, <3>2, <3>3, StagedFrame DEF Same
  <2>2. ASSUME NEW i \in DOMAIN elems'[c] PROVE StagedAt(c, i)'
    <3>1. CASE BeginTrans(c)
      BY <2>2, <3>1, BeginStaged
    <3>2. CASE NextRule(c)
      <4>1. elems' = elems
        BY <3>2 DEF NextRule
      <4> QED BY <2>2, <3>2, <4>1, NextRuleStaged, StagedForm
    <3>3. CASE AddTransRule(c)
      <4>1. elems' = elems
        BY <3>3 DEF AddTransRule
      <4> QED BY <2>2, <3>3, <4>1, AddStaged, StagedForm
    <3>4. CASE \E r : Return(c, r)
      <4>1. elems'[c] = <<>> /\ DOMAIN <<>> = {}
        BY <3>4, ReturnOthers
      <4> QED BY <2>2, <4>1
    <3>5. CASE StartCall(c)
      <4>1. elems' = elems /\ pc[c] = "idle"
        BY <3>5 DEF StartCall, AddChange, SetRules, FlushRules, CommitTransaction,
                    AddSingleRule, Start, progressVars
      <4>2. elems[c] = <<>> /\ DOMAIN <<>> = {}
        BY <4>1 DEF Control, ControlAt
      <4> QED BY <2>2, <4>1, <4>2
    <3>6. CASE /\ UNCHANGED <<inactive, inactiveTicket, call, elems, tickets, elem, nrule>>
      <4>1. StagedAt(c, i) /\ Undisturbed(c, i) /\ i \in DOMAIN elems[c]
        BY <2>2, <3>6, StagedForm DEF Undisturbed
      <4>2. Progress(c, i)' = Progress(c, i)
        BY <3>6, ProgressFrame
      <4> QED BY <3>6, <4>1, <4>2, StagedFrame
    <3>7. CASE PoolTicket(c) \/ GetTicket(c)
      BY <3>6, <3>7 DEF PoolTicket, GetTicket, BeginAddrs, ChangeGetTicket
    <3>8. CASE AddPoolAddress(c)
      <4>1. UNCHANGED <<inactive, inactiveTicket>>
        BY <3>8 DEF AddPoolAddress, AddAddr
      <4>2. \/ \E r : Return(c, r)
            \/ UNCHANGED <<call, elems, tickets, elem, nrule>>
        BY <3>8 DEF AddPoolAddress, progressVars
      <4> QED BY <3>4, <3>6, <4>1, <4>2
    <3>9. CASE \/ OpenFails(c) \/ IoctlFails(c) \/ Crash(c) \/ ConversionFails(c)
               \/ TicketRefused(c) \/ CommitTrans(c) \/ ChangeRule(c)
      BY <3>4, <3>9 DEF OpenFails, IoctlFails, Crash, ConversionFails, TicketRefused,
                        CommitTrans, ChangeRule, Succeed
    <3> QED BY <1>2, <3>1, <3>2, <3>3, <3>5, <3>7, <3>8, <3>9 DEF Move, Step
  <2>3. \A d \in Clients : \A i \in DOMAIN elems'[d] : StagedAt(d, i)'
    BY <2>1, <2>2
  <2> QED BY <2>3 DEF StagedPrefix, StagedAt, FirstOf
<1> QED BY <1>1, <1>2 DEF Next, Move

LEMMA InitStaged == Init => StagedPrefix
BY DEF Init, StagedPrefix

\* While the ticket of a ruleset is current, the inactive ruleset holds exactly
\* the rules its transaction added so far.
THEOREM StagedCorrect == Spec => []StagedPrefix
<1>1. Init => TicketInv /\ StagedPrefix
  BY InitTickets, InitStaged
<1>2. TypeOK /\ Control /\ TicketInv /\ StagedPrefix /\ [Next]_vars
        => TicketInv' /\ StagedPrefix'
  BY TicketInvStep, StagedStep
<1> QED BY <1>1, <1>2, ControlCorrect, PTL DEF Spec

-----------------------------------------------------------------------------
(* The refinement. *)

LEMMA RequestShape ==
  ASSUME TypeOK, NEW c \in Clients
  PROVE  /\ call[c].op = "none" => Request(call[c]) = NoRequest
         /\ call[c].op # "none" => Request(call[c]) # NoRequest
         /\ call[c].op = "commit" =>
              Request(call[c]) = [op |-> "replace", contents |-> Contents(call[c].trans)]
         /\ call[c].op = "add" =>
              Request(call[c]) = [op |-> "append", rs |-> call[c].rs, rule |-> call[c].rule]
BY CallShape DEF Request, NoRequest

\* What a client's call looks like to the store.
LEMMA InvokeStep ==
  ASSUME TypeOK, Control, TypeOK', NEW c \in Clients, pc[c] = "idle",
         NEW req \in Calls \ {NoCall}, call' = [call EXCEPT ![c] = req],
         UNCHANGED <<active, result>>
  PROVE  Store!Invoke(c)
<1>1. call'[c] = req /\ \A d \in Clients \ {c} : call'[d] = call[d]
  BY DEF TypeOK, ClientTypeOK
<1>2. Request(call[c]) = NoRequest
  BY RequestShape DEF Control, ControlAt
<1>3. Request(call'[c]) \in {Request(r) : r \in Calls \ {NoCall}}
  BY <1>1
<1>4. [d \in Clients |-> Request(call'[d])]
        = [[d \in Clients |-> Request(call[d])] EXCEPT ![c] = Request(call'[c])]
  <2>1. \A d \in Clients : Request(call'[d]) =
          IF d = c THEN Request(call'[c]) ELSE Request(call[d])
    BY <1>1
  <2> DEFINE R == Request(call'[c])
             New(d) == Request(call'[d])
             Old(d) == Request(call[d])
  <2>2. \A d \in Clients : New(d) = IF d = c THEN R ELSE Old(d)
    BY <2>1
  <2> HIDE DEF R, New, Old
  <2>3. [d \in Clients |-> New(d)] = [[d \in Clients |-> Old(d)] EXCEPT ![c] = R]
    BY <2>2
  <2> QED BY <2>3 DEF R, New, Old
<1>5. [rs \in Rulesets |-> RulesOf(active'[rs])] = [rs \in Rulesets |-> RulesOf(active[rs])]
  OBVIOUS
<1> QED BY <1>2, <1>3, <1>4, <1>5 DEF Store!Invoke

LEMMA FinishStep ==
  ASSUME TypeOK, Control, NEW c \in Clients, NEW r, pc[c] # "idle", Return(c, r)
  PROVE  Store!Finish(c, r)
<1>1. call'[c] = NoCall /\ \A d \in Clients \ {c} : call'[d] = call[d]
  BY DEF Return, TypeOK, ClientTypeOK
<1>2. Request(call[c]) # NoRequest
  BY RequestShape DEF Control, ControlAt
<1>3. Request(NoCall) = NoRequest
  BY DEF Request, NoCall
<1>4. result' = [result EXCEPT ![c] = r]
  BY DEF Return
<1>5. [d \in Clients |-> Request(call'[d])]
        = [[d \in Clients |-> Request(call[d])] EXCEPT ![c] = NoRequest]
  BY <1>1, <1>3
<1> QED BY <1>2, <1>4, <1>5 DEF Store!Finish

\* A commit makes the rules of its transaction active, all of them.
LEMMA CommitTakes ==
  ASSUME TypeOK, Control, StagedPrefix, NEW c \in Clients, CommitTrans(c)
  PROVE  Store!Take(c)
<1> DEFINE req == Request(call[c])
           New(rs) == RulesOf(active'[rs])
           Old(rs) == RulesOf(active[rs])
<1>1. /\ pc[c] = "commit" /\ call[c].op = "commit" /\ elem[c] \notin DOMAIN elems[c]
      /\ Elements(c) /\ elems[c] \in Seq(Rulesets) /\ call[c].trans \in Transactions
  BY CallShape DEF CommitTrans, Control, ControlAt, TypeOK, ClientTypeOK
<1>2. req = [op |-> "replace", contents |-> Contents(call[c].trans)]
      /\ DOMAIN Contents(call[c].trans) = Submits(call[c].trans)
  BY <1>1, RequestShape DEF Contents
<1>3. Range(elems[c]) = Submits(call[c].trans)
  BY <1>1 DEF Elements
<1>4. /\ active' = [rs \in Rulesets |->
                      IF rs \in Range(elems[c]) THEN inactive[rs] ELSE active[rs]]
      /\ \A i \in DOMAIN elems[c] : tickets[c][i] = inactiveTicket[elems[c][i]]
  BY DEF CommitTrans, XCommit, XCurrent
<1>5. ASSUME NEW rs \in Submits(call[c].trans)
      PROVE  RulesOf(inactive[rs]) = Contents(call[c].trans)[rs]
  <2>1. PICK i \in DOMAIN elems[c] : elems[c][i] = rs
    BY <1>3 DEF Range
  <2>2. i \in Nat /\ elem[c] \in Nat /\ i < elem[c]
    BY <1>1, <2>1 DEF Elements
  <2>3. ElemRules(c, i) = Contents(call[c].trans)[rs] /\ ElemRules(c, i) \in Seq(Rules)
    BY <1>1, <2>1, ElemRulesType DEF ElemRules
  <2>4. Progress(c, i) = Len(ElemRules(c, i))
    BY <2>2 DEF Progress
  <2>5. RulesOf(inactive[rs]) = FirstOf(ElemRules(c, i), Len(ElemRules(c, i)))
    BY <1>4, <2>1, <2>4, StagedForm DEF StagedAt
  <2>6. ASSUME NEW R \in Seq(Rules) PROVE FirstOf(R, Len(R)) = R
    BY DEF FirstOf
  <2> QED BY <2>3, <2>5, <2>6
<1>6. \A rs \in Rulesets :
        New(rs) = IF rs \in DOMAIN req.contents THEN req.contents[rs] ELSE Old(rs)
  <2>1. ASSUME NEW rs \in Rulesets, rs \in Submits(call[c].trans)
        PROVE  New(rs) = Contents(call[c].trans)[rs]
    BY <1>3, <1>4, <1>5, <2>1
  <2>2. ASSUME NEW rs \in Rulesets, rs \notin Submits(call[c].trans)
        PROVE  New(rs) = Old(rs)
    BY <1>3, <1>4, <2>2
  <2> QED BY <1>2, <2>1, <2>2
<1>7. req.op = "replace"
  BY <1>2
<1>8. Store!Finish(c, "ok") \/ Store!Finish(c, "crashed")
  BY <1>1, FinishStep DEF CommitTrans, Succeed
<1> HIDE DEF req, New, Old
<1>9. [rs \in Rulesets |-> New(rs)] =
        [rs \in Rulesets |->
           IF req.op = "replace"
             THEN IF rs \in DOMAIN req.contents THEN req.contents[rs]
                  ELSE [t \in Rulesets |-> Old(t)][rs]
             ELSE IF rs = req.rs THEN Append([t \in Rulesets |-> Old(t)][rs], req.rule)
                  ELSE [t \in Rulesets |-> Old(t)][rs]]
  BY <1>6, <1>7
<1> QED BY <1>8, <1>9 DEF Store!Take, Store!Effect, req, New, Old

\* The last step of a single-rule call appends its rule.
LEMMA ChangeTakes ==
  ASSUME TypeOK, Control, NEW c \in Clients, ChangeRule(c)
  PROVE  Store!Take(c)
<1> DEFINE req == Request(call[c])
           e == [rule |-> CurRule(c), pool |-> pabuf]
           New(rs) == RulesOf(active'[rs])
           Old(rs) == RulesOf(active[rs])
<1>1. /\ pc[c] = "change" /\ call[c].op = "add" /\ CurRuleset(c) = call[c].rs
      /\ CurRule(c) = call[c].rule /\ CurRule(c) \in Rules /\ call[c].rs \in Rulesets
  BY CurrentType DEF ChangeRule, Ready, Control, ControlAt, IsAdd, CurRule, CurRuleset
<1>2. req = [op |-> "append", rs |-> call[c].rs, rule |-> call[c].rule]
  BY <1>1, RequestShape
<1>3. active' = [active EXCEPT ![call[c].rs] = Append(@, e)]
  BY <1>1 DEF ChangeRule, ChangeAddTail
<1>4. active \in [Rulesets -> Seq(Entry)] /\ e \in Entry /\ e.rule = call[c].rule
  BY <1>1 DEF TypeOK, KernelTypeOK, Entry
<1>5. \A rs \in Rulesets :
        New(rs) = IF rs = req.rs THEN Append(Old(rs), req.rule) ELSE Old(rs)
  <2>1. ASSUME NEW rs \in Rulesets, rs # call[c].rs PROVE New(rs) = Old(rs)
    BY <1>3, <1>4, <2>1
  <2>2. New(call[c].rs) = Append(Old(call[c].rs), call[c].rule)
    <3> DEFINE s == active[call[c].rs]
    <3>1. s \in Seq(Entry) /\ active'[call[c].rs] = Append(s, e)
      BY <1>1, <1>3, <1>4
    <3> HIDE DEF s, e
    <3>2. RulesOf(s) \in Seq(Rules) /\ Len(RulesOf(s)) = Len(s)
          /\ \A j \in 1..Len(s) : RulesOf(s)[j] = s[j].rule
      BY <3>1, RulesOfType
    <3>3. RulesOf(Append(s, e)) = Append(RulesOf(s), e.rule)
      <4>1. DOMAIN Append(s, e) = 1..(Len(s) + 1) /\ Len(s) \in Nat
        BY <3>1
      <4>2. \A j \in 1..(Len(s) + 1) :
              Append(s, e)[j] = IF j = Len(s) + 1 THEN e ELSE s[j]
        BY <1>4, <3>1
      <4>3. \A j \in 1..(Len(s) + 1) :
              Append(RulesOf(s), e.rule)[j] = IF j = Len(s) + 1 THEN e.rule ELSE s[j].rule
        BY <3>2, <4>1
      <4>4. DOMAIN Append(RulesOf(s), e.rule) = 1..(Len(s) + 1)
        BY <3>2, <4>1
      <4>5. Append(RulesOf(s), e.rule) = [j \in 1..(Len(s) + 1) |-> Append(RulesOf(s), e.rule)[j]]
        BY <3>2, <4>4
      <4>6. RulesOf(Append(s, e)) = [j \in 1..(Len(s) + 1) |-> Append(s, e)[j].rule]
        BY <4>1 DEF RulesOf
      <4>7. \A j \in 1..(Len(s) + 1) :
              Append(s, e)[j].rule = Append(RulesOf(s), e.rule)[j]
        BY <4>2, <4>3
      <4> QED BY <4>5, <4>6, <4>7
    <3> QED BY <1>4, <3>1, <3>3 DEF s
  <2>3. req.rs = call[c].rs /\ req.rule = call[c].rule
    BY <1>2
  <2> HIDE DEF req, New, Old
  <2> QED BY <2>1, <2>2, <2>3
<1>6. req.op # "replace"
  BY <1>2
<1>7. Store!Finish(c, "ok") \/ Store!Finish(c, "crashed")
  BY <1>1, FinishStep DEF ChangeRule, Succeed
<1> HIDE DEF req, New, Old
<1>8. [rs \in Rulesets |-> New(rs)] =
        [rs \in Rulesets |->
           IF req.op = "replace"
             THEN IF rs \in DOMAIN req.contents THEN req.contents[rs]
                  ELSE [t \in Rulesets |-> Old(t)][rs]
             ELSE IF rs = req.rs THEN Append([t \in Rulesets |-> Old(t)][rs], req.rule)
                  ELSE [t \in Rulesets |-> Old(t)][rs]]
  BY <1>5, <1>6
<1> QED BY <1>7, <1>8 DEF Store!Take, Store!Effect, req, New, Old

\* Every other step is a call that starts, a failure or invisible to the store.
LEMMA MoveRefines ==
  ASSUME TypeOK, Control, StagedPrefix, TypeOK', NEW c \in Clients, Move(c)
  PROVE  \/ Store!Invoke(c) \/ Store!Take(c) \/ Store!Refuse(c)
         \/ UNCHANGED <<active, call, result>>
<1>1. CASE StartCall(c)
  <2>1. ASSUME NEW req, NEW point, Start(c, req, point), req.op # "none"
        PROVE  Store!Invoke(c)
    <3>1. /\ pc[c] = "idle" /\ call' = [call EXCEPT ![c] = req]
          /\ UNCHANGED <<active, result>>
      BY <2>1 DEF Start, kernelVars
    <3>2. req = call'[c] /\ req \in Calls
      BY <3>1 DEF TypeOK, ClientTypeOK
    <3>3. req # NoCall
      BY <2>1 DEF NoCall
    <3> QED BY <3>1, <3>2, <3>3, InvokeStep
  <2>2. ASSUME NEW a \in Anchors, NEW ch, AddChange(c, a, ch) \/ SetRules(c, a, ch)
        PROVE  Store!Invoke(c) \/ UNCHANGED <<active, call, result>>
    BY <2>1, <2>2 DEF AddChange, SetRules, kernelVars
  <2>3. CASE CommitTransaction(c)
    BY <2>1, <2>3 DEF CommitTransaction
  <2>4. ASSUME NEW a \in Anchors, NEW rule \in Rules, AddSingleRule(c, a, rule)
        PROVE  Store!Invoke(c)
    BY <2>1, <2>4 DEF AddSingleRule
  <2> QED BY <1>1, <2>2, <2>3, <2>4 DEF StartCall, FlushRules
<1>2. ASSUME NEW r \in Errors, Return(c, r), pc[c] # "idle", active' = active
      PROVE  Store!Refuse(c)
  <2>1. Store!Finish(c, r)
    BY <1>2, FinishStep
  <2>2. [rs \in Rulesets |-> RulesOf(active'[rs])] = [rs \in Rulesets |-> RulesOf(active[rs])]
    BY <1>2
  <2> QED BY <2>1, <2>2 DEF Store!Refuse
<1>3. CASE OpenFails(c)
  BY <1>2, <1>3 DEF OpenFails, kernelVars, Errors
<1>4. CASE ConversionFails(c)
  <2>1. /\ LocalError(c) \in Errors /\ Return(c, LocalError(c)) /\ active' = active
        /\ LocalError(c) # "none"
    BY <1>4, LocalErrorType DEF ConversionFails, kernelVars, Errors
  <2>2. pc[c] # "idle"
    BY <2>1 DEF LocalError
  <2> QED BY <1>2, <2>1, <2>2
<1>5. CASE TicketRefused(c)
  BY <1>2, <1>5 DEF TicketRefused, Ready, kernelVars, Errors
<1>6. CASE IoctlFails(c) \/ Crash(c)
  BY <1>2, <1>6 DEF IoctlFails, Crash, kernelVars, Errors
<1>7. CASE CommitTrans(c)
  BY <1>7, CommitTakes
<1>8. CASE ChangeRule(c)
  BY <1>8, ChangeTakes
<1>9. CASE AddPoolAddress(c)
  <2>1. active' = active /\ pc[c] = "addr"
    BY <1>9 DEF AddPoolAddress, AddAddr, Ready
  <2>2. Return(c, "InvalidPool") \/ UNCHANGED <<call, result>>
    BY <1>9 DEF AddPoolAddress
  <2> QED BY <1>2, <2>1, <2>2 DEF Errors
<1>10. CASE BeginTrans(c) \/ NextRule(c) \/ PoolTicket(c) \/ AddTransRule(c) \/ GetTicket(c)
  BY <1>10 DEF BeginTrans, NextRule, PoolTicket, AddTransRule, GetTicket, XBegin, BeginAddrs,
               AddRule, ChangeGetTicket, kernelVars
<1> QED BY <1>1, <1>3, <1>4, <1>5, <1>6, <1>7, <1>8, <1>9, <1>10 DEF Move, Step

LEMMA StepRefines ==
  ASSUME TypeOK, Control, StagedPrefix, TypeOK', [Next]_vars
  PROVE  [Store!StoreNext]_(Store!storeVars)
<1>1. ASSUME UNCHANGED <<active, call, result>> PROVE UNCHANGED Store!storeVars
  <2>1. [rs \in Rulesets |-> RulesOf(active'[rs])] = [rs \in Rulesets |-> RulesOf(active[rs])]
    BY <1>1
  <2>2. [d \in Clients |-> Request(call'[d])] = [d \in Clients |-> Request(call[d])]
    BY <1>1
  <2> QED BY <1>1, <2>1, <2>2 DEF Store!storeVars
<1>2. CASE UNCHANGED vars
  BY <1>1, <1>2 DEF vars
<1>3. ASSUME NEW c \in Clients, Move(c) PROVE Store!StoreNext \/ UNCHANGED Store!storeVars
  BY <1>1, <1>3, MoveRefines DEF Store!StoreNext
<1> QED BY <1>2, <1>3 DEF Next, Move

LEMMA InitRefines == Init => Store!StoreInit
<1> SUFFICES ASSUME Init PROVE Store!StoreInit
  OBVIOUS
<1>1. [rs \in Rulesets |-> RulesOf(active[rs])] = [rs \in Rulesets |-> <<>>]
  BY DEF Init, KernelInit, RulesOf
<1>2. [c \in Clients |-> Request(call[c])] = [c \in Clients |-> NoRequest]
  BY DEF Init, NoCall, Request
<1> QED BY <1>1, <1>2 DEF Init, Store!StoreInit

\* Each call takes effect in one step, as a whole and in order, or not at all,
\* and reports which, under every interleaving, fault and crash, for any number
\* of clients, anchors, rules and calls.
THEOREM Implements == Spec => AtomicStore
<1>1. TypeOK /\ Control /\ StagedPrefix /\ TypeOK' /\ [Next]_vars
        => [Store!StoreNext]_(Store!storeVars)
  BY StepRefines
<1> QED BY <1>1, InitRefines, TypeCorrect, ControlCorrect, StagedCorrect, PTL
        DEF Spec, AtomicStore, Store!StoreSpec

-----------------------------------------------------------------------------
\* The invariant behind the results above is inductive: it holds before the first
\* call, and each ioctl, failure and crash of a rule call keeps it.
THEOREM Inductive == (Init => IInv) /\ (IInv /\ [Next]_vars => IInv')
<1>1. Init => IInv
  BY InitTyped, InitTickets, InitPools, InitStaged DEF IInv, TicketInv
<1>2. ASSUME IInv, [Next]_vars PROVE IInv'
  <2>1. TypeOK' /\ Control'
    BY <1>2, NextTyped DEF IInv
  <2>2. TicketInv'
    BY <1>2, TicketInvStep DEF IInv, TicketInv
  <2>3. PoolStaged' /\ PoolsMatch'
    BY <1>2, PoolStagedStep, PoolsMatchStep DEF IInv, TicketInv
  <2>4. StagedPrefix'
    BY <1>2, StagedStep DEF IInv, TicketInv
  <2> QED BY <2>1, <2>2, <2>3, <2>4 DEF IInv, TicketInv
<1> QED BY <1>1, <1>2
=============================================================================
