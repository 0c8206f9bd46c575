------------------------------ MODULE PfRules ------------------------------
(***************************************************************************)
(* The rule-management calls of pfctl: Transaction (src/src/transaction.rs)*)
(* and PfCtl::set_rules, flush_rules and the four add_*_rule calls         *)
(* (src/src/lib.rs).                                                       *)
(*                                                                         *)
(* Several clients (processes that opened /dev/pf) issue calls             *)
(* concurrently.  Each client runs one call at a time, but a call is many  *)
(* ioctls, and the ioctls of different clients interleave.  A client may   *)
(* crash between any two of its ioctls, and an ioctl may fail.             *)
(***************************************************************************)
EXTENDS PfKernel, FiniteSets

CONSTANTS
  Clients,        \* processes that use the library
  Changes,        \* the AnchorChange values clients build
  RuleKind,       \* [Rules -> Kinds]
  RulePool,       \* [Rules -> SUBSET Addrs], the pool address of a rule, if any
  Defect,         \* [Rules -> Defects], the conversion of the rule that fails
  LongNames,      \* the anchor names that do not fit the ioctl structures
  FaultsPossible, \* whether ioctls may fail for reasons not modelled
  MaxCalls        \* bound: the calls each client issues

Defects == {"none", "rule", "addr", "port"}

ASSUME AnchorsAssumption == IsFiniteSet(Anchors) /\ LongNames \subseteq Anchors
ASSUME RulesAssumption ==
  /\ RuleKind \in [Rules -> Kinds]
  /\ RulePool \in [Rules -> SUBSET Addrs]
  /\ Defect \in [Rules -> Defects]
ASSUME PoolAssumption ==
  \A r \in Rules :
    /\ \A x, y \in RulePool[r] : x = y
    /\ RuleKind[r] = "redirect" => RulePool[r] # {}
    /\ RuleKind[r] = "scrub" => RulePool[r] = {}
    /\ Defect[r] = "addr" => RuleKind[r] = "filter" /\ RulePool[r] # {}
    /\ Defect[r] = "port" => RuleKind[r] \in {"nat", "redirect"} /\ RulePool[r] # {}
ASSUME ChangesAssumption ==
  \A ch \in Changes :
    /\ DOMAIN ch \subseteq Kinds
    /\ \A k \in DOMAIN ch :
         /\ ch[k] \in Seq(Rules)
         /\ \A i \in DOMAIN ch[k] : RuleKind[ch[k][i]] = k
ASSUME BoundAssumption == MaxCalls \in Nat /\ FaultsPossible \in BOOLEAN

VARIABLES
  changeByAnchor, \* the Transaction each client is building
  pc,             \* what the client's call does next
  call,           \* the call under way, with its arguments
  elems,          \* pfioc_elements: the rulesets of the transaction, in order
  tickets,        \* the ticket of each element, as DIOCXBEGIN returned it
  elem,           \* the element being filled
  nrule,          \* how many rules of this element were added
  poolHeld,       \* pool_ticket
  ruleTicket,     \* the ticket of a single-rule call
  result,         \* what the last call returned
  calls           \* the calls issued so far

progressVars == <<elems, tickets, elem, nrule, poolHeld, ruleTicket>>
clientVars == <<changeByAnchor, pc, call, elems, tickets, elem, nrule, poolHeld,
                ruleTicket, result, calls>>
vars == <<active, activeTicket, inactive, inactiveTicket, poolTicket, pabuf,
          changeByAnchor, pc, call, elems, tickets, elem, nrule, poolHeld,
          ruleTicket, result, calls>>

Empty == [x \in {} |-> <<>>]

\* AnchorChange: an absent kind leaves the ruleset alone, an empty one flushes it.
FlushChange(kind) == [k \in {kind} |-> <<>>]
AllChanges == Changes \cup {FlushChange(k) : k \in Kinds}
Transactions == UNION {[S -> AllChanges] : S \in SUBSET Anchors}

NoCall == [op |-> "none"]
Calls == {NoCall}
         \cup [op : {"commit"}, trans : Transactions]
         \cup [op : {"add"}, rs : Rulesets, rule : Rules]

PCs == {"idle", "begin", "rule", "pool", "addr", "add", "commit", "ticket", "change"}
Errors == {"DeviceOpen", "InvalidAnchorName", "InvalidRule", "InvalidPool", "Ioctl", "crashed"}

ClientTypeOK ==
  /\ changeByAnchor \in [Clients -> Transactions]
  /\ pc \in [Clients -> PCs]
  /\ call \in [Clients -> Calls]
  /\ elems \in [Clients -> Seq(Rulesets)]
  /\ tickets \in [Clients -> Seq(Nat)]
  /\ elem \in [Clients -> Nat]
  /\ nrule \in [Clients -> Nat]
  /\ poolHeld \in [Clients -> Nat]
  /\ ruleTicket \in [Clients -> Nat]
  /\ result \in [Clients -> Errors \cup {"none", "ok"}]
  /\ calls \in [Clients -> Nat]

TypeOK == KernelTypeOK /\ ClientTypeOK

Init ==
  /\ KernelInit
  /\ changeByAnchor = [c \in Clients |-> Empty]
  /\ pc = [c \in Clients |-> "idle"]
  /\ call = [c \in Clients |-> NoCall]
  /\ elems = [c \in Clients |-> <<>>]
  /\ tickets = [c \in Clients |-> <<>>]
  /\ elem = [c \in Clients |-> 0]
  /\ nrule = [c \in Clients |-> 0]
  /\ poolHeld = [c \in Clients |-> 0]
  /\ ruleTicket = [c \in Clients |-> 0]
  /\ result = [c \in Clients |-> "none"]
  /\ calls = [c \in Clients |-> 0]

-----------------------------------------------------------------------------
(* The rulesets a transaction names, and the rules it has for them. *)

Submits(trans) ==
  {rs \in Rulesets : rs[1] \in DOMAIN trans /\ rs[2] \in DOMAIN trans[rs[1]]}

Contents(trans) == [rs \in Submits(trans) |-> trans[rs[1]][rs[2]]]

(* pfioc_elements: all filter rulesets, then nat, redirect and scrub.  The  *)
(* anchors come in the iteration order of one HashMap, the same in each kind.*)

KindOrder == <<"filter", "nat", "redirect", "scrub">>
KindRank(kind) == CHOOSE i \in 1..4 : KindOrder[i] = kind

AnchorOrders(S) == LET As == {rs[1] : rs \in S} IN Injection(As, 1..Cardinality(As))

ElementOrders(S) ==
  {es \in Bijection(1..Cardinality(S), S) :
     \E ord \in AnchorOrders(S) : \A i, j \in DOMAIN es :
       i < j => \/ KindRank(es[i][2]) < KindRank(es[j][2])
                \/ es[i][2] = es[j][2] /\ ord[es[i][1]] < ord[es[j][1]]}

(* The rule a call is working on, and the ruleset it goes to. *)

IsAdd(c) == call[c].op = "add"

\* Mutant: the anchor name is copied into the ioctl structure only once.
BugNameCopiedOnce(c) ==
  IF IsAdd(c) THEN call[c].rs ELSE <<elems[c][1][1], elems[c][elem[c]][2]>>

CurRuleset(c) == IF IsAdd(c) THEN call[c].rs ELSE elems[c][elem[c]]

ElemRules(c, i) == Contents(call[c].trans)[elems[c][i]]

CurRule(c) == IF IsAdd(c) THEN call[c].rule ELSE ElemRules(c, elem[c])[nrule[c] + 1]

\* Mutant: the ticket iterator is one element behind the changes.
BugTicketBehind(c) == tickets[c][IF elem[c] > 1 THEN elem[c] - 1 ELSE 1]

\* Each element of changes.zip(tickets.by_ref()) draws the next ticket, and none
\* is drawn when the changes of a kind are over.
CurTicket(c) == tickets[c][elem[c]]

\* add_nat_rule and add_redirect_rule of PfCtl check the name and the rule
\* before their first ioctl, as the four helpers of Transaction do; add_rule
\* and add_scrub_rule only before their last one.
ConvertsFirst(c) == IsAdd(c) => call[c].rs[2] \in {"nat", "redirect"}

\* Mutant: a transaction forgets the address of a NAT rule.
BugNatPoolForgotten(c) == /\ RulePool[CurRule(c)] # {}
                          /\ IsAdd(c) => call[c].rs[2] \in {"nat", "redirect"}
                          /\ ~IsAdd(c) => RuleKind[CurRule(c)] # "nat"

\* PfCtl::add_rule does not register the route address of a filter rule.
RegistersPool(c) == /\ RulePool[CurRule(c)] # {}
                    /\ IsAdd(c) => call[c].rs[2] \in {"nat", "redirect"}

\* The error a call finds by itself before its next ioctl.
LocalError(c) ==
  CASE pc[c] = "begin" /\ (\E rs \in Submits(call[c].trans) : rs[1] \in LongNames)
         -> "InvalidAnchorName"
    [] pc[c] = "pool" /\ ConvertsFirst(c) /\ CurRuleset(c)[1] \in LongNames
         -> "InvalidAnchorName"
    [] pc[c] = "pool" /\ ConvertsFirst(c) /\ CurRuleset(c)[1] \notin LongNames
         /\ Defect[CurRule(c)] = "rule"
         -> "InvalidRule"
    [] pc[c] = "addr" /\ Defect[CurRule(c)] = "addr"
         -> "InvalidPool"
    [] pc[c] = "ticket" /\ call[c].rs[1] \in LongNames
         -> "InvalidAnchorName"
    [] pc[c] = "change" /\ Defect[call[c].rule] = "rule"
         -> "InvalidRule"
    [] OTHER -> "none"

Ready(c, point) == pc[c] = point /\ LocalError(c) = "none"

Goto(c, point) == pc' = [pc EXCEPT ![c] = point]

Return(c, r) ==
  /\ Goto(c, "idle")
  /\ call' = [call EXCEPT ![c] = NoCall]
  /\ elems' = [elems EXCEPT ![c] = <<>>]
  /\ tickets' = [tickets EXCEPT ![c] = <<>>]
  /\ elem' = [elem EXCEPT ![c] = 0]
  /\ nrule' = [nrule EXCEPT ![c] = 0]
  /\ poolHeld' = [poolHeld EXCEPT ![c] = 0]
  /\ ruleTicket' = [ruleTicket EXCEPT ![c] = 0]
  /\ result' = [result EXCEPT ![c] = r]
  /\ UNCHANGED calls

\* The last ioctl of a call has done its work: the call says so, unless the process
\* dies before it can.
Succeed(c) ==
  \/ Return(c, "ok") /\ UNCHANGED changeByAnchor
  \/ /\ FaultsPossible /\ Return(c, "crashed")
     /\ changeByAnchor' = [changeByAnchor EXCEPT ![c] = Empty]

-----------------------------------------------------------------------------
(* The calls. *)

\* Transaction::add_change: the anchor's prior change is replaced as a whole.
AddChange(c, a, ch) ==
  /\ pc[c] = "idle" /\ calls[c] < MaxCalls
  /\ changeByAnchor' = [changeByAnchor EXCEPT ![c] =
        [x \in DOMAIN changeByAnchor[c] \cup {a} |->
           IF x = a THEN ch ELSE changeByAnchor[c][x]]]
  /\ UNCHANGED <<kernelVars, progressVars, pc, call, result, calls>>

Start(c, request, point) ==
  /\ pc[c] = "idle" /\ calls[c] < MaxCalls
  /\ call' = [call EXCEPT ![c] = request]
  /\ Goto(c, point)
  /\ calls' = [calls EXCEPT ![c] = @ + 1]
  /\ UNCHANGED <<kernelVars, progressVars, result>>

\* Transaction::commit consumes the transaction.
CommitTransaction(c) ==
  /\ Start(c, [op |-> "commit", trans |-> changeByAnchor[c]], "begin")
  /\ changeByAnchor' = [changeByAnchor EXCEPT ![c] = Empty]

SetRules(c, a, ch) ==
  /\ Start(c, [op |-> "commit", trans |-> [x \in {a} |-> ch]], "begin")
  /\ UNCHANGED changeByAnchor

FlushRules(c, a, kind) == SetRules(c, a, FlushChange(kind))

\* add_rule, add_nat_rule, add_redirect_rule and add_scrub_rule.
AddSingleRule(c, a, rule) ==
  /\ Start(c, [op |-> "add", rs |-> <<a, RuleKind[rule]>>, rule |-> rule], "pool")
  /\ UNCHANGED changeByAnchor

-----------------------------------------------------------------------------
(* The steps of a commit that precede and follow the rules. *)

OpenFails(c) ==
  /\ pc[c] = "begin" /\ FaultsPossible
  /\ Return(c, "DeviceOpen")
  /\ UNCHANGED <<kernelVars, changeByAnchor>>

\* Mutant: pfioc_trans counts one element, the others keep a zero ticket.
BugBeginsOneElement(c) ==
  /\ Ready(c, "begin")
  /\ \E es \in ElementOrders(Submits(call[c].trans)) :
       /\ XBegin([i \in DOMAIN es \cap {1} |-> es[i]])
       /\ elems' = [elems EXCEPT ![c] = es]
       /\ tickets' = [tickets EXCEPT ![c] =
                        [i \in DOMAIN es |-> IF i = 1 THEN inactiveTicket[es[i]] + 1 ELSE 0]]
  /\ elem' = [elem EXCEPT ![c] = 1]
  /\ Goto(c, "rule")
  /\ UNCHANGED <<changeByAnchor, call, nrule, poolHeld, ruleTicket, result, calls>>

BeginTrans(c) ==
  /\ Ready(c, "begin")
  /\ \E es \in ElementOrders(Submits(call[c].trans)) :
       /\ XBegin(es)
       /\ elems' = [elems EXCEPT ![c] = es]
       /\ tickets' = [tickets EXCEPT ![c] =
                        [i \in DOMAIN es |-> inactiveTicket[es[i]] + 1]]
  /\ elem' = [elem EXCEPT ![c] = 1]
  /\ Goto(c, "rule")
  /\ UNCHANGED <<changeByAnchor, call, nrule, poolHeld, ruleTicket, result, calls>>

\* Mutant: the loop ends after the first element.
BugFirstElementOnly(c) ==
  /\ pc[c] = "rule"
  /\ \/ /\ elem[c] \in DOMAIN elems[c]
        /\ nrule[c] + 1 \in DOMAIN ElemRules(c, elem[c])
        /\ Goto(c, "pool")
     \/ /\ elem[c] \in DOMAIN elems[c] => nrule[c] + 1 \notin DOMAIN ElemRules(c, elem[c])
        /\ Goto(c, "commit")
  /\ UNCHANGED <<kernelVars, changeByAnchor, call, elems, tickets, elem, nrule, poolHeld,
                 ruleTicket, result, calls>>

\* Mutant: an element without rules is never passed.
BugEmptyElementSticks(c) ==
  /\ pc[c] = "rule"
  /\ \/ /\ elem[c] \in DOMAIN elems[c]
        /\ nrule[c] + 1 \in DOMAIN ElemRules(c, elem[c])
        /\ Goto(c, "pool")
        /\ UNCHANGED <<elem, nrule>>
     \/ /\ elem[c] \in DOMAIN elems[c]
        /\ nrule[c] > 0 /\ nrule[c] = Len(ElemRules(c, elem[c]))
        /\ elem' = [elem EXCEPT ![c] = @ + 1]
        /\ nrule' = [nrule EXCEPT ![c] = 0]
        /\ UNCHANGED pc
     \/ /\ elem[c] \notin DOMAIN elems[c]
        /\ Goto(c, "commit")
        /\ UNCHANGED <<elem, nrule>>
  /\ UNCHANGED <<kernelVars, changeByAnchor, call, elems, tickets, poolHeld,
                 ruleTicket, result, calls>>

\* The four loops of commit over the elements and their rules.
NextRule(c) ==
  /\ pc[c] = "rule"
  /\ \/ /\ elem[c] \in DOMAIN elems[c]
        /\ nrule[c] + 1 \in DOMAIN ElemRules(c, elem[c])
        /\ Goto(c, "pool")
        /\ UNCHANGED <<elem, nrule>>
     \/ /\ elem[c] \in DOMAIN elems[c]
        /\ nrule[c] + 1 \notin DOMAIN ElemRules(c, elem[c])
        /\ elem' = [elem EXCEPT ![c] = @ + 1]
        /\ nrule' = [nrule EXCEPT ![c] = 0]
        /\ UNCHANGED pc
     \/ /\ elem[c] \notin DOMAIN elems[c]
        /\ Goto(c, "commit")
        /\ UNCHANGED <<elem, nrule>>
  /\ UNCHANGED <<kernelVars, changeByAnchor, call, elems, tickets, poolHeld,
                 ruleTicket, result, calls>>

CommitTrans(c) ==
  /\ pc[c] = "commit"
  /\ XCommit(elems[c], tickets[c])
  /\ Succeed(c)

-----------------------------------------------------------------------------
(* The steps for one rule, of a transaction or of a single-rule call. *)

\* Mutant: the pool ticket is read without starting an empty buffer.
BugBufferKept(c) ==
  /\ Ready(c, "pool")
  /\ poolHeld' = [poolHeld EXCEPT ![c] = poolTicket]
  /\ Goto(c, CASE RegistersPool(c) -> "addr"
               [] ~RegistersPool(c) /\ IsAdd(c) -> "ticket"
               [] ~RegistersPool(c) /\ ~IsAdd(c) -> "add")
  /\ UNCHANGED <<kernelVars, changeByAnchor, call, elems, tickets, elem, nrule, ruleTicket,
                 result, calls>>

\* get_pool_ticket
PoolTicket(c) ==
  /\ Ready(c, "pool")
  /\ BeginAddrs
  /\ poolHeld' = [poolHeld EXCEPT ![c] = poolTicket + 1]
  /\ Goto(c, CASE RegistersPool(c) -> "addr"
               [] ~RegistersPool(c) /\ IsAdd(c) -> "ticket"
               [] ~RegistersPool(c) /\ ~IsAdd(c) -> "add")
  /\ UNCHANGED <<changeByAnchor, call, elems, tickets, elem, nrule, ruleTicket, result, calls>>

\* add_pool_address, and the conversion of the port that follows it.
AddPoolAddress(c) ==
  /\ Ready(c, "addr")
  /\ \E addr \in RulePool[CurRule(c)] : AddAddr(poolHeld[c], addr)
  /\ \/ /\ Defect[CurRule(c)] = "port"
        /\ Return(c, "InvalidPool")
     \/ /\ Defect[CurRule(c)] # "port"
        /\ Goto(c, IF IsAdd(c) THEN "ticket" ELSE "add")
        /\ UNCHANGED <<progressVars, call, result, calls>>
  /\ UNCHANGED changeByAnchor

\* Mutant: the rules of an element are counted downwards, from zero.
BugCountsDown(c) ==
  /\ pc[c] = "add"
  /\ AddRule(CurRuleset(c), CurRule(c), CurTicket(c), poolHeld[c])
  /\ nrule' = [nrule EXCEPT ![c] = @ - 1]
  /\ Goto(c, "rule")
  /\ UNCHANGED <<changeByAnchor, call, elems, tickets, elem, poolHeld, ruleTicket,
                 result, calls>>

\* DIOCADDRULE, the last step of the four helpers of Transaction.
AddTransRule(c) ==
  /\ pc[c] = "add"
  /\ AddRule(CurRuleset(c), CurRule(c), CurTicket(c), poolHeld[c])
  /\ nrule' = [nrule EXCEPT ![c] = @ + 1]
  /\ Goto(c, "rule")
  /\ UNCHANGED <<changeByAnchor, call, elems, tickets, elem, poolHeld, ruleTicket,
                 result, calls>>

\* get_ticket
GetTicket(c) ==
  /\ Ready(c, "ticket")
  /\ ChangeGetTicket(CurRuleset(c))
  /\ ruleTicket' = [ruleTicket EXCEPT ![c] = activeTicket[CurRuleset(c)] + 1]
  /\ Goto(c, "change")
  /\ UNCHANGED <<changeByAnchor, call, elems, tickets, elem, nrule, poolHeld, result, calls>>

\* DIOCCHANGERULE, the last step of a single-rule call.
ChangeRule(c) ==
  /\ Ready(c, "change")
  /\ ChangeAddTail(CurRuleset(c), CurRule(c), ruleTicket[c], poolHeld[c])
  /\ Succeed(c)

-----------------------------------------------------------------------------
(* What ends a call early.  Nothing is rolled back: the library has no use  *)
(* of DIOCXROLLBACK, and each ? of the code simply returns.                 *)

\* Mutant: a transaction skips a rule that cannot be converted.
BugBadRuleSkipped(c) ==
  /\ LocalError(c) # "none"
  /\ \/ /\ IsAdd(c) \/ pc[c] = "begin"
        /\ Return(c, LocalError(c))
     \/ /\ ~IsAdd(c) /\ pc[c] # "begin"
        /\ Goto(c, "rule")
        /\ nrule' = [nrule EXCEPT ![c] = @ + 1]
        /\ UNCHANGED <<call, elems, tickets, elem, poolHeld, ruleTicket, result, calls>>
  /\ UNCHANGED <<kernelVars, changeByAnchor>>

ConversionFails(c) ==
  /\ LocalError(c) # "none"
  /\ Return(c, LocalError(c))
  /\ UNCHANGED <<kernelVars, changeByAnchor>>

\* The kernel refuses a ticket that is not current (EBUSY).
TicketRefused(c) ==
  /\ \/ Ready(c, "addr") /\ poolHeld[c] # poolTicket
     \/ Ready(c, "add") /\ ~AddCurrent(CurRuleset(c), CurTicket(c), poolHeld[c])
     \/ Ready(c, "change") /\ ~ChangeCurrent(CurRuleset(c), ruleTicket[c], poolHeld[c])
     \/ Ready(c, "commit") /\ ~XCurrent(elems[c], tickets[c])
  /\ Return(c, "Ioctl")
  /\ UNCHANGED <<kernelVars, changeByAnchor>>

\* Any other failure of an ioctl.
IoctlFails(c) ==
  /\ FaultsPossible
  /\ pc[c] \notin {"idle", "rule"} /\ LocalError(c) = "none"
  /\ Return(c, "Ioctl")
  /\ UNCHANGED <<kernelVars, changeByAnchor>>

\* The process dies; its file descriptor is closed, the kernel keeps its state.
Crash(c) ==
  /\ FaultsPossible /\ pc[c] # "idle"
  /\ Return(c, "crashed")
  /\ changeByAnchor' = [changeByAnchor EXCEPT ![c] = Empty]
  /\ UNCHANGED kernelVars

-----------------------------------------------------------------------------
StartCall(c) ==
  \/ \E a \in Anchors, ch \in Changes : AddChange(c, a, ch) \/ SetRules(c, a, ch)
  \/ CommitTransaction(c)
  \/ \E a \in Anchors, kind \in Kinds : FlushRules(c, a, kind)
  \/ \E a \in Anchors, rule \in Rules : AddSingleRule(c, a, rule)

Step(c) ==
  \/ BeginTrans(c) \/ NextRule(c) \/ CommitTrans(c)
  \/ PoolTicket(c) \/ AddPoolAddress(c) \/ AddTransRule(c)
  \/ GetTicket(c) \/ ChangeRule(c)
  \/ ConversionFails(c) \/ TicketRefused(c)

Next == \E c \in Clients : \/ StartCall(c) \/ Step(c)
                           \/ OpenFails(c) \/ IoctlFails(c) \/ Crash(c)

\* A process that is inside a call is eventually scheduled and every ioctl
\* returns; nobody is obliged to start a call, to crash or to meet a fault.
Fairness == \A c \in Clients : WF_vars(Step(c))

Spec == Init /\ [][Next]_vars
FairSpec == Spec /\ Fairness

-----------------------------------------------------------------------------
(* Properties. *)

\* Every rule the kernel holds is of its ruleset's kind and carries exactly the
\* address its author gave it, whatever other clients, failed calls and dead
\* processes left in the kernel's one address buffer.  The exception is
\* PfCtl::add_rule (src/src/lib.rs:340), which registers no route address.
PoolsMatch ==
  \A rs \in Rulesets :
    /\ \A i \in DOMAIN inactive[rs] :
         /\ RuleKind[inactive[rs][i].rule] = rs[2]
         /\ inactive[rs][i].pool = RulePool[inactive[rs][i].rule]
    /\ \A i \in DOMAIN active[rs] :
         /\ RuleKind[active[rs][i].rule] = rs[2]
         /\ \/ active[rs][i].pool = RulePool[active[rs][i].rule]
            \/ rs[2] = "filter" /\ active[rs][i].pool = {}

\* No two clients hold the same ticket of a ruleset, or of the address buffer:
\* at most one of two overlapping transactions can still commit.
TicketsExclusive ==
  \A c, d \in Clients : c # d =>
    /\ \A i \in DOMAIN elems[c], j \in DOMAIN elems[d] :
         elems[c][i] = elems[d][j] => tickets[c][i] # tickets[d][j]
    /\ poolHeld[c] # 0 => poolHeld[c] # poolHeld[d]

RulesOf(entries) == [i \in DOMAIN entries |-> entries[i].rule]

\* How many rules of element i the loops of commit have added.
Progress(c, i) == IF i < elem[c] THEN Len(ElemRules(c, i))
                  ELSE IF i = elem[c] THEN nrule[c] ELSE 0

\* While a client's ticket for a ruleset is current, the inactive ruleset holds
\* exactly the rules this client added so far, in order: the tickets are matched
\* with the right changes, and a stale transaction cannot leave rules behind in
\* a newer one.
StagedPrefix ==
  \A c \in Clients : \A i \in DOMAIN elems[c] :
    tickets[c][i] = inactiveTicket[elems[c][i]] =>
      RulesOf(inactive[elems[c][i]]) = [j \in 1..Progress(c, i) |-> ElemRules(c, i)[j]]

\* A client that is alone and meets no fault never has a ticket refused: the
\* order in which commit and the single-rule calls take their tickets does not
\* invalidate one of their own.
Solo == ~FaultsPossible /\ \A c, d \in Clients : c = d
NoSelfConflict == Solo => \A c \in Clients : result[c] # "Ioctl"

\* Every call that is started ends.
CallsReturn == \A c \in Clients : pc[c] # "idle" ~> pc[c] = "idle"

\* The calls implement the atomic store.
NoRequest == [op |-> "none"]
Request(req) == CASE req.op = "none" -> NoRequest
                  [] req.op = "commit" -> [op |-> "replace", contents |-> Contents(req.trans)]
                  [] req.op = "add" -> [op |-> "append", rs |-> req.rs, rule |-> req.rule]

Store == INSTANCE RulesetStore WITH
  Requests <- {Request(req) : req \in Calls \ {NoCall}},
  rules <- [rs \in Rulesets |-> RulesOf(active[rs])],
  request <- [c \in Clients |-> Request(call[c])],
  outcome <- result

\* Each call takes effect in one step, as a whole and in order, or not at all,
\* and reports which, under every interleaving, fault and crash.
AtomicStore == Store!StoreSpec

-----------------------------------------------------------------------------
(* The inductive invariant: TypeOK and the properties above need what a     *)
(* call's position says of its progress, and where tickets come from.       *)

\* The elements of a transaction after DIOCXBEGIN: every ruleset once.
Elements(c) ==
  /\ IsInjective(elems[c])
  /\ Range(elems[c]) = Submits(call[c].trans)
  /\ DOMAIN tickets[c] = DOMAIN elems[c]
  /\ elem[c] \in 1..(Len(elems[c]) + 1)

\* Where a call is, and what it has then.
ControlAt(c) ==
  /\ pc[c] = "idle" <=> call[c].op = "none"
  /\ pc[c] \in {"begin", "rule", "add", "commit"} => call[c].op = "commit"
  /\ pc[c] \in {"ticket", "change"} => call[c].op = "add"
  /\ call[c].op = "add" => RuleKind[call[c].rule] = call[c].rs[2]
  /\ IF call[c].op = "commit" /\ pc[c] # "begin"
       THEN Elements(c)
       ELSE elems[c] = <<>> /\ tickets[c] = <<>> /\ nrule[c] = 0
  /\ pc[c] = "rule" =>
       IF elem[c] \in DOMAIN elems[c]
         THEN nrule[c] \in 0..Len(ElemRules(c, elem[c])) ELSE nrule[c] = 0
  /\ call[c].op = "commit" /\ pc[c] \in {"pool", "addr", "add"} =>
       /\ elem[c] \in DOMAIN elems[c]
       /\ nrule[c] + 1 \in DOMAIN ElemRules(c, elem[c])
  /\ pc[c] = "addr" => RegistersPool(c)
  /\ pc[c] = "commit" => elem[c] \notin DOMAIN elems[c] /\ nrule[c] = 0

Control == \A c \in Clients : ControlAt(c)

\* Tickets were issued by the kernel and not taken back.
TicketsIssued ==
  /\ \A c \in Clients : \A i \in DOMAIN elems[c] :
       tickets[c][i] <= inactiveTicket[elems[c][i]]
  /\ \A c \in Clients :
       /\ poolHeld[c] <= poolTicket
       /\ pc[c] \in {"addr", "add", "ticket", "change"} => poolHeld[c] # 0

\* While a pool ticket is current, the buffer holds what its holder put there.
PoolStagedAt(c) ==
  poolHeld[c] = poolTicket =>
    /\ pc[c] = "addr" => pabuf = {}
    /\ pc[c] \in {"add", "ticket", "change"} =>
         pabuf = IF RegistersPool(c) THEN RulePool[CurRule(c)] ELSE {}

PoolStaged == \A c \in Clients : PoolStagedAt(c)

IInv == /\ TypeOK /\ Control /\ TicketsIssued /\ TicketsExclusive
        /\ PoolStaged /\ PoolsMatch /\ StagedPrefix

\* The tickets of a client that is alone are current when it uses them.
SoloInv ==
  Solo => \A c \in Clients :
    /\ \A i \in DOMAIN elems[c] : tickets[c][i] = inactiveTicket[elems[c][i]]
    /\ pc[c] \in {"addr", "add", "ticket", "change"} => poolHeld[c] = poolTicket
    /\ pc[c] = "change" => ruleTicket[c] = activeTicket[CurRuleset(c)]
    /\ result[c] # "Ioctl"
=============================================================================
