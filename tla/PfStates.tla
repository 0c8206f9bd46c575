------------------------------ MODULE PfStates ------------------------------
(***************************************************************************)
(* The calls of PfCtl (src/src/lib.rs) on the state table and on the       *)
(* anchor rules of the main rulesets: get_states, kill_state,              *)
(* clear_states, clear_interface_states, add_anchor, remove_anchor and the *)
(* try_ variants of the last two.                                          *)
(*                                                                         *)
(* Clients interleave ioctl by ioctl, with each other and with the kernel, *)
(* which creates states for traffic and removes the ones that expire.  The *)
(* kernel's side of each ioctl is external to the repository.              *)
(***************************************************************************)
EXTENDS Integers, Sequences, FiniteSets, SequencesExt

CONSTANTS
  Clients,
  Flows,         \* states, each created at most once
  NoFlow,        \* the contents of a slot that is all zeros
  Names,         \* anchor names, and those among them
  LongNames,     \*   that do not fit the anchor_call of a rule
  Kinds,         \* the kinds of anchors the clients use
  Owner,         \* [Flows -> Names], the filter anchor whose rule creates the state
  Class,         \* [Flows -> Classes], what a kill request can tell apart
  Classes,       \* address family, protocol and interface
  Iface,         \* [Classes -> Ifaces], the interface among them
  InitialTable,  \* the states and
  InitialAnchors,\* [Kinds -> Seq(Names)], the anchor rules when the clients start
  Operations,    \* the calls the clients make
  FaultsPossible,
  MaxCalls       \* bound: [Clients -> Nat], the calls each client issues

AllOperations == {"get", "kill", "clear", "clearInterface", "addAnchor", "removeAnchor"}
AnchorKinds == {"filter", "nat", "redirect", "scrub"}
Ifaces == {Iface[k] : k \in Classes}
AnyIface == "any"
LongIface == "long"  \* a name that does not fit psk_ifname
Selections == {AnyIface, LongIface} \cup Ifaces

ASSUME FlowsAssumption ==
  /\ IsFiniteSet(Flows) /\ NoFlow \notin Flows
  /\ Owner \in [Flows -> Names] /\ Class \in [Flows -> Classes]
  /\ Ifaces \cap {AnyIface, LongIface} = {}
ASSUME InitialAssumption ==
  /\ InitialTable \in Seq(Flows) /\ IsInjective(InitialTable)
  /\ "filter" \in Kinds /\ Kinds \subseteq AnchorKinds
  /\ InitialAnchors \in [Kinds -> Seq(Names)]
  /\ \A kind \in Kinds : IsInjective(InitialAnchors[kind])
  /\ LongNames \subseteq Names
  /\ \A kind \in Kinds : Range(InitialAnchors[kind]) \cap LongNames = {}
ASSUME OperationsAssumption ==
  Operations \subseteq AllOperations /\ FaultsPossible \in BOOLEAN /\ MaxCalls \in [Clients -> Nat]

VARIABLES
  table,    \* the kernel's states
  created,  \* Seq(Flows), all states there ever were, oldest first
  anchors,  \* [Kinds -> Seq(Names)], the anchor rules of the main rulesets
  pc,
  call,
  num,      \* num_states, as the first DIOCGETSTATES reported
  buf,      \* pfsync_states: what the second one wrote, then zeros
  index,    \* the number of the anchor rule that is looked up, or found
  count,    \* how many anchor rules there were
  todo,     \* the slots of buf that clear_states still has to kill
  total,    \* the states clear_states counted so far
  known,    \* the states the client last got from get_states
  result,   \* what the last call returned,
  reported, \*   and its number of removed states
  calls,
  removed,  \* history: the states the call under way, or the last one, removed
  present,  \* history: the states that existed when the call under way started
  moved     \* history: the clients in a call since whose start anchor rules of its kind
            \*   came or went

kernelVars == <<table, created, anchors>>
localVars == <<num, buf, index, count, todo, total>>
historyVars == <<removed, present, moved>>
vars == <<kernelVars, pc, call, localVars, known, result, reported, calls, historyVars>>

\* An exported state: the number of its anchor rule and the state itself.  A
\* slot the kernel did not write stays zero; its anchor number is then 0.
Phantom == [anchor |-> 0, flow |-> NoFlow]
NoRule == -1
Slots == [anchor : {NoRule} \cup Nat, flow : Flows] \cup {Phantom}

NoCall == [op |-> "none"]
CallTypes == {NoCall} \cup [op : {"get"}] \cup [op : {"kill"}, slot : Slots]
             \cup [op : {"clear"}, name : Names, kind : Kinds]
             \cup [op : {"clearInterface"}, iface : Selections]
             \cup [op : {"addAnchor", "removeAnchor"}, name : Names, kind : Kinds,
                   try : BOOLEAN]

PCs == {"idle", "count", "fetch", "rules", "rule", "kill", "killOne", "clearInterface",
        "insert", "delete"}
Results == {"none", "ok", "StateAlreadyActive", "AnchorDoesNotExist", "Ioctl",
            "InvalidAnchorName", "InvalidInterfaceName"}

TypeOK ==
  /\ created \in Seq(Flows) /\ IsInjective(created)
  /\ table \subseteq Range(created)
  /\ anchors \in [Kinds -> Seq(Names)] /\ \A kind \in Kinds : IsInjective(anchors[kind])
  /\ pc \in [Clients -> PCs]
  /\ call \in [Clients -> CallTypes]
  /\ num \in [Clients -> Nat]
  /\ buf \in [Clients -> Seq(Slots)]
  /\ index \in [Clients -> Nat]
  /\ count \in [Clients -> Nat]
  /\ todo \in [Clients -> SUBSET Nat]
  /\ total \in [Clients -> Nat]
  /\ known \in [Clients -> SUBSET Slots]
  /\ result \in [Clients -> Results]
  /\ reported \in [Clients -> Nat]
  /\ calls \in [Clients -> Nat] /\ \A c \in Clients : calls[c] <= MaxCalls[c]
  /\ removed \in [Clients -> SUBSET Flows]
  /\ present \in [Clients -> SUBSET Flows]
  /\ moved \subseteq Clients

Init ==
  /\ table = Range(InitialTable)
  /\ created = InitialTable
  /\ anchors = InitialAnchors
  /\ pc = [c \in Clients |-> "idle"]
  /\ call = [c \in Clients |-> NoCall]
  /\ num = [c \in Clients |-> 0]
  /\ buf = [c \in Clients |-> <<>>]
  /\ index = [c \in Clients |-> 0]
  /\ count = [c \in Clients |-> 0]
  /\ todo = [c \in Clients |-> {}]
  /\ total = [c \in Clients |-> 0]
  /\ known = [c \in Clients |-> {}]
  /\ result = [c \in Clients |-> "none"]
  /\ reported = [c \in Clients |-> 0]
  /\ calls = [c \in Clients |-> 0]
  /\ removed = [c \in Clients |-> {}]
  /\ present = [c \in Clients |-> {}]
  /\ moved = {}

-----------------------------------------------------------------------------
(* What the kernel does by itself. *)

Traffic(f) ==
  /\ f \notin Range(created) /\ Owner[f] \in Range(anchors["filter"])
  /\ table' = table \cup {f}
  /\ created' = Append(created, f)
  /\ UNCHANGED <<anchors, pc, call, localVars, known, result, reported, calls, historyVars>>

Expire(f) ==
  /\ table' = table \ {f}
  /\ UNCHANGED <<created, anchors, pc, call, localVars, known, result, reported, calls,
                 historyVars>>

(* The ioctls. *)

\* The number of the anchor rule of a state, as the kernel exports it.
AnchorNumber(name) ==
  IF name \in Range(anchors["filter"])
    THEN (CHOOSE i \in DOMAIN anchors["filter"] : anchors["filter"][i] = name) - 1
    ELSE NoRule

\* The place of a state in the table, which is in the order of creation.
Before(f, g) == \E j \in DOMAIN created : \E i \in 1..j : created[i] = f /\ created[j] = g
Rank(f) == Cardinality({g \in table : Before(g, f)})

Slot(f) == [anchor |-> AnchorNumber(Owner[f]), flow |-> f]

\* DIOCGETSTATES with a zeroed buffer of n slots: it writes the oldest states.
Export(n) ==
  [i \in 1..n |-> IF \E f \in table : Rank(f) = i
                    THEN Slot(CHOOSE f \in table : Rank(f) = i)
                    ELSE Phantom]

\* Mutant: the request is left zeroed.
BugEmptyRequest(slot, f) == TRUE

\* setup_pfioc_state_kill: the request has the family, protocol and interface of
\* the slot, no ports, and its addresses without their masks, which match every
\* address.  A zero field matches every state.
Matches(slot, f) == slot = Phantom \/ Class[f] = Class[slot.flow]

\* psk_af is a u8; the kernel returns the number of killed states in it.
Returned(n) == n % 256

Victims(slot) == {f \in table : Matches(slot, f)}

-----------------------------------------------------------------------------
Goto(c, point) == pc' = [pc EXCEPT ![c] = point]

\* ignore_error_kind: the try_ variants take one error for success.
Reported(c, r) ==
  CASE call[c].op = "addAnchor" /\ call[c].try /\ r = "StateAlreadyActive" -> "ok"
    [] call[c].op = "removeAnchor" /\ call[c].try /\ r = "AnchorDoesNotExist" -> "ok"
    [] OTHER -> r

Leave(c, r, n) ==
  /\ Goto(c, "idle")
  /\ call' = [call EXCEPT ![c] = NoCall]
  /\ num' = [num EXCEPT ![c] = 0]
  /\ buf' = [buf EXCEPT ![c] = <<>>]
  /\ index' = [index EXCEPT ![c] = 0]
  /\ count' = [count EXCEPT ![c] = 0]
  /\ todo' = [todo EXCEPT ![c] = {}]
  /\ total' = [total EXCEPT ![c] = 0]
  /\ result' = [result EXCEPT ![c] = Reported(c, r)]
  /\ reported' = [reported EXCEPT ![c] = n]
  /\ present' = [present EXCEPT ![c] = {}]
  /\ UNCHANGED calls

Return(c, r, n) == Leave(c, r, n) /\ moved' = moved \ {c}

\* Mutant: the kind of the anchor is not given to the kernel.
BugKindForgotten(c) == anchors["filter"]

\* The anchor rules that a call is about: its kind is the action of the request.
AnchorsOf(c) == anchors[call[c].kind]

\* A call that changes them returns, and finds others on their way through them.
ReturnWith(c, names) ==
  /\ anchors' = [anchors EXCEPT ![call[c].kind] = names]
  /\ Leave(c, "ok", 0)
  /\ moved' = (moved \ {c}) \cup
       {d \in Clients \ {c} : "kind" \in DOMAIN call[d] /\ call[d].kind = call[c].kind}

Start(c, request, point) ==
  /\ pc[c] = "idle" /\ calls[c] < MaxCalls[c] /\ request.op \in Operations
  /\ Goto(c, point)
  /\ call' = [call EXCEPT ![c] = request]
  /\ calls' = [calls EXCEPT ![c] = @ + 1]
  /\ removed' = [removed EXCEPT ![c] = {}]
  /\ present' = [present EXCEPT ![c] = table]
  /\ result' = [result EXCEPT ![c] = "none"]
  /\ reported' = [reported EXCEPT ![c] = 0]
  /\ UNCHANGED <<kernelVars, localVars, known, moved>>

StartCall(c) ==
  \/ Start(c, [op |-> "get"], "count")
  \/ \E slot \in known[c] : Start(c, [op |-> "kill", slot |-> slot], "killOne")
  \/ \E name \in Names, kind \in Kinds :
       Start(c, [op |-> "clear", name |-> name, kind |-> kind], "count")
  \/ \E iface \in Selections :
       Start(c, [op |-> "clearInterface", iface |-> iface], "clearInterface")
  \/ \E name \in Names, kind \in Kinds, try \in BOOLEAN :
       LET request(op) == [op |-> op, name |-> name, kind |-> kind, try |-> try]
       IN  \/ Start(c, request("addAnchor"), "insert")
           \/ Start(c, request("removeAnchor"), "rules")

\* get_num_states, and what get_states_inner does when there are none.
CountStates(c) ==
  /\ pc[c] = "count"
  /\ IF table = {}
       THEN /\ Return(c, "ok", 0)
            /\ known' = IF call[c].op = "get" THEN [known EXCEPT ![c] = {}] ELSE known
       ELSE /\ num' = [num EXCEPT ![c] = Cardinality(table)]
            /\ Goto(c, "fetch")
            /\ UNCHANGED <<call, buf, index, count, todo, total, known, result, reported,
                           calls, present, moved>>
  /\ UNCHANGED <<kernelVars, removed>>

\* get_states_inner fetches num_states slots and returns all of them, written
\* or not.
FetchStates(c) ==
  /\ pc[c] = "fetch"
  /\ \/ /\ call[c].op = "get"
        /\ known' = [known EXCEPT ![c] = Range(Export(num[c]))]
        /\ Return(c, "ok", 0)
     \/ /\ call[c].op = "clear"
        /\ buf' = [buf EXCEPT ![c] = Export(num[c])]
        /\ num' = [num EXCEPT ![c] = 0]
        /\ Goto(c, "rules")
        /\ UNCHANGED <<call, index, count, todo, total, known, result, reported, calls,
                       present, moved>>
  /\ UNCHANGED <<kernelVars, removed>>

\* Mutant: the walk starts at the last rule, also when there is none.
BugStartsAtLast(c) ==
  /\ pc[c] = "rules"
  /\ count' = [count EXCEPT ![c] = Len(AnchorsOf(c))]
  /\ index' = [index EXCEPT ![c] = Len(AnchorsOf(c)) - 1]
  /\ Goto(c, "rule")
  /\ UNCHANGED <<kernelVars, call, num, buf, todo, total, known, result, reported, calls,
                 historyVars>>

\* with_anchor_rule: DIOCGETRULES, then DIOCGETRULE for one number after the
\* other until the name matches.
GetRules(c) ==
  /\ pc[c] = "rules"
  /\ count' = [count EXCEPT ![c] = Len(AnchorsOf(c))]
  /\ index' = [index EXCEPT ![c] = 0]
  /\ Goto(c, "rule")
  /\ UNCHANGED <<kernelVars, call, num, buf, todo, total, known, result, reported, calls,
                 historyVars>>

\* Mutant: anchor rules are counted from 1.
BugCountsFromOne(c) == {i \in DOMAIN buf[c] : buf[c][i].anchor = index[c] + 1}

\* The slots of the snapshot that carry the number of the rule that was found.
StatesOfRule(c) == {i \in DOMAIN buf[c] : buf[c][i].anchor = index[c]}

\* Mutant: the same rule is asked for again and again.
BugIndexStays(c) ==
  /\ pc[c] = "rule" /\ index[c] < count[c] /\ index[c] < Len(AnchorsOf(c))
  /\ \/ /\ AnchorsOf(c)[index[c] + 1] # call[c].name
        /\ UNCHANGED <<pc, todo>>
     \/ /\ AnchorsOf(c)[index[c] + 1] = call[c].name /\ call[c].op = "clear"
        /\ todo' = [todo EXCEPT ![c] = StatesOfRule(c)]
        /\ Goto(c, "kill")
     \/ /\ AnchorsOf(c)[index[c] + 1] = call[c].name /\ call[c].op = "removeAnchor"
        /\ Goto(c, "delete")
        /\ UNCHANGED todo
  /\ UNCHANGED <<kernelVars, call, num, buf, index, count, total, known, result, reported,
                 calls, historyVars>>

GetRule(c) ==
  /\ pc[c] = "rule" /\ index[c] < count[c] /\ index[c] < Len(AnchorsOf(c))
  /\ \/ /\ AnchorsOf(c)[index[c] + 1] # call[c].name
        /\ index' = [index EXCEPT ![c] = @ + 1]
        /\ UNCHANGED <<pc, todo>>
     \/ /\ AnchorsOf(c)[index[c] + 1] = call[c].name /\ call[c].op = "clear"
        /\ todo' = [todo EXCEPT ![c] = StatesOfRule(c)]
        /\ Goto(c, "kill")
        /\ UNCHANGED index
     \/ /\ AnchorsOf(c)[index[c] + 1] = call[c].name /\ call[c].op = "removeAnchor"
        /\ Goto(c, "delete")
        /\ UNCHANGED <<index, todo>>
  /\ UNCHANGED <<kernelVars, call, num, buf, count, total, known, result, reported, calls,
                 historyVars>>

\* There is no rule of that number any more.
RuleGone(c) ==
  /\ pc[c] = "rule" /\ index[c] < count[c] /\ index[c] >= Len(AnchorsOf(c))
  /\ Return(c, "Ioctl", 0)
  /\ UNCHANGED <<kernelVars, known, removed>>

AnchorNotFound(c) ==
  /\ pc[c] = "rule" /\ index[c] >= count[c]
  /\ Return(c, "AnchorDoesNotExist", 0)
  /\ UNCHANGED <<kernelVars, known, removed>>

\* Mutant: each request counts as one state.
BugCountsRequests(c) ==
  /\ pc[c] = "kill"
  /\ \E i \in todo[c] :
       LET gone == Victims(buf[c][i]) IN
         /\ \A j \in todo[c] : i <= j
         /\ table' = table \ gone
         /\ removed' = [removed EXCEPT ![c] = @ \cup gone]
         /\ total' = [total EXCEPT ![c] = @ + 1]
         /\ todo' = [todo EXCEPT ![c] = @ \ {i}]
  /\ UNCHANGED <<created, anchors, pc, call, num, buf, index, count, known, result, reported,
                 calls, present, moved>>

\* The closure of clear_states: one kill request per state of the anchor.
KillNext(c) ==
  /\ pc[c] = "kill"
  /\ \E i \in todo[c] :
       LET gone == Victims(buf[c][i]) IN
         /\ \A j \in todo[c] : i <= j
         /\ table' = table \ gone
         /\ removed' = [removed EXCEPT ![c] = @ \cup gone]
         /\ total' = [total EXCEPT ![c] = @ + Returned(Cardinality(gone))]
         /\ todo' = [todo EXCEPT ![c] = @ \ {i}]
  /\ UNCHANGED <<created, anchors, pc, call, num, buf, index, count, known, result, reported,
                 calls, present, moved>>

KillsDone(c) ==
  /\ pc[c] = "kill" /\ todo[c] = {}
  /\ Return(c, "ok", total[c])
  /\ UNCHANGED <<kernelVars, known, removed>>

\* kill_state
KillState(c) ==
  /\ pc[c] = "killOne"
  /\ LET gone == Victims(call[c].slot) IN
       /\ table' = table \ gone
       /\ removed' = [removed EXCEPT ![c] = gone]
  /\ Return(c, "ok", 0)
  /\ UNCHANGED <<created, anchors, known>>

\* clear_interface_states: an empty name stands for all interfaces.
ClearInterfaceStates(c) ==
  /\ pc[c] = "clearInterface" /\ call[c].iface # LongIface
  /\ LET gone == {f \in table : call[c].iface \in {AnyIface, Iface[Class[f]]}} IN
       /\ table' = table \ gone
       /\ removed' = [removed EXCEPT ![c] = gone]
       /\ Return(c, "ok", Returned(Cardinality(gone)))
  /\ UNCHANGED <<created, anchors, known>>

\* add_anchor: DIOCINSERTRULE refuses a name that is there (EEXIST).
InsertAnchor(c) ==
  /\ pc[c] = "insert" /\ call[c].name \notin LongNames
  /\ \/ /\ call[c].name \notin Range(AnchorsOf(c))
        /\ \E i \in 1..(Len(AnchorsOf(c)) + 1) :
             ReturnWith(c, InsertAt(AnchorsOf(c), i, call[c].name))
     \/ /\ call[c].name \in Range(AnchorsOf(c))
        /\ Return(c, "StateAlreadyActive", 0)
        /\ UNCHANGED anchors
  /\ UNCHANGED <<table, created, known, removed>>

\* remove_anchor: DIOCDELETERULE fails if the rule found is gone by now.
DeleteAnchor(c) ==
  /\ pc[c] = "delete"
  /\ \/ \E i \in DOMAIN AnchorsOf(c) :
          /\ AnchorsOf(c)[i] = call[c].name
          /\ ReturnWith(c, RemoveAt(AnchorsOf(c), i))
     \/ /\ call[c].name \notin Range(AnchorsOf(c))
        /\ Return(c, "Ioctl", 0)
        /\ UNCHANGED anchors
  /\ UNCHANGED <<table, created, known, removed>>

\* A name is converted before the ioctl that it is for, and ends the call if it does
\* not fit.  (The lookup of with_anchor_rule only compares names.)
NameRefused(c) ==
  /\ \/ /\ pc[c] = "insert" /\ call[c].name \in LongNames
        /\ Return(c, "InvalidAnchorName", 0)
     \/ /\ pc[c] = "clearInterface" /\ call[c].iface = LongIface
        /\ Return(c, "InvalidInterfaceName", 0)
  /\ UNCHANGED <<kernelVars, known, removed>>

IoctlFails(c) ==
  /\ FaultsPossible
  /\ \/ pc[c] \in {"count", "fetch", "rules", "killOne", "delete"}
     \/ pc[c] = "insert" /\ call[c].name \notin LongNames
     \/ pc[c] = "clearInterface" /\ call[c].iface # LongIface
     \/ pc[c] = "rule" /\ index[c] < count[c]
     \/ pc[c] = "kill" /\ todo[c] # {}
  /\ Return(c, "Ioctl", 0)
  /\ UNCHANGED <<kernelVars, known, removed>>

Step(c) ==
  \/ CountStates(c) \/ FetchStates(c)
  \/ GetRules(c) \/ GetRule(c) \/ RuleGone(c) \/ AnchorNotFound(c)
  \/ KillNext(c) \/ KillsDone(c) \/ KillState(c) \/ ClearInterfaceStates(c)
  \/ InsertAnchor(c) \/ DeleteAnchor(c) \/ NameRefused(c)

Next ==
  \/ \E f \in Flows : Traffic(f)
  \/ \E f \in table : Expire(f)
  \/ \E c \in Clients : StartCall(c) \/ Step(c) \/ IoctlFails(c)

\* A process inside a call keeps running and its ioctls return.
Fairness == \A c \in Clients : WF_vars(Step(c))

Spec == Init /\ [][Next]_vars
FairSpec == Spec /\ Fairness

-----------------------------------------------------------------------------
(* Properties. *)

\* A clear_states that succeeds leaves none of the anchor's states that existed
\* when it was called, however many connections come and go and other calls kill
\* meanwhile.  It needs the anchor rules to stay where they are (see ClearCompletes).
ClearCompletesUnlessMoved ==
  [][\A c \in Clients :
       pc[c] = "kill" /\ pc'[c] = "idle" /\ result'[c] = "ok" /\ call[c].kind = "filter" =>
         \/ \A f \in present[c] : Owner[f] = call[c].name => f \notin table'
         \/ c \in moved]_vars

\* The number that clear_states and clear_interface_states return is the number
\* of states they removed: two requests never count the same state twice, and
\* none goes uncounted, as long as the number fits (see CountExact).
CountExactIfItFits ==
  [][\A c \in Clients :
       /\ pc[c] \in {"kill", "clearInterface"} /\ pc'[c] = "idle" /\ result'[c] = "ok"
       /\ Cardinality(removed'[c]) < 256
       => reported'[c] = Cardinality(removed'[c])]_vars

\* clear_states takes no slot of its snapshot for one of the anchor's that is of
\* another: the states it removes are like one of the anchor's, in all that a kill
\* request can tell.  Two things spoil that, a zeroed slot in the snapshot
\* (see ClearKeepsOthers) and anchor rules that move.
ClearSparesOthers ==
  \A c \in Clients :
    /\ pc[c] = "kill" /\ call[c].kind = "filter"
    /\ c \notin moved /\ Phantom \notin Range(buf[c])
    => \A f \in removed[c] : \E slot \in Range(buf[c]) :
         Owner[slot.flow] = call[c].name /\ Class[slot.flow] = Class[f]

\* with_anchor_rule says AnchorDoesNotExist (src/src/lib.rs:581), and
\* try_remove_anchor takes that for success, only of an anchor of that kind that is
\* not there, unless anchor rules of the kind came or went since the call started.
LookupExact ==
  [][\A c \in Clients :
       pc[c] = "rule" /\ pc'[c] = "idle" /\ result'[c] # "Ioctl" =>
         call[c].name \notin Range(AnchorsOf(c)) \/ c \in moved]_vars

\* Every call that is started ends, also when states keep coming and going.
CallsReturn == \A c \in Clients : pc[c] # "idle" ~> pc[c] = "idle"

(* What the documentation says and the code does not do. *)

\* clear_states clears the states created by rules in the anchor
\* (src/src/lib.rs:435), also while anchor rules come and go.
ClearCompletes ==
  [][\A c \in Clients :
       pc[c] = "kill" /\ pc'[c] = "idle" /\ result'[c] = "ok" /\ call[c].kind = "filter" =>
         \A f \in present[c] : Owner[f] = call[c].name => f \notin table']_vars

\* clear_states and clear_interface_states return the total number of removed
\* states (src/src/lib.rs:436 and 461), however many.
CountExact ==
  [][\A c \in Clients :
       pc[c] \in {"kill", "clearInterface"} /\ pc'[c] = "idle" /\ result'[c] = "ok" =>
         reported'[c] = Cardinality(removed'[c])]_vars

\* get_states returns states created by stateful rules (src/src/lib.rs:471), and
\* nothing else.
SnapshotIsReal == \A c \in Clients : Phantom \notin known[c]

\* kill_state removes the specified state (src/src/lib.rs:484), and no other.
KillsOnlySpecified ==
  [][\A c \in Clients :
       pc[c] = "killOne" /\ call[c].slot # Phantom =>
         removed'[c] \subseteq {call[c].slot.flow}]_vars

\* clear_states clears states created by rules in the anchor (src/src/lib.rs:435);
\* at most others that a kill request cannot tell from one of them go with them.
ClearKeepsOthers ==
  [][\A c \in Clients :
       call[c].op = "clear" =>
         \A f \in removed'[c] : \E g \in Flows :
           Owner[g] = call[c].name /\ Class[g] = Class[f]]_vars

-----------------------------------------------------------------------------
(* The inductive invariant: what the position of a call says of its progress. *)

ControlAt(c) ==
  /\ pc[c] = "idle" => call[c] = NoCall
  /\ pc[c] \in {"count", "fetch"} => call[c].op \in {"get", "clear"}
  /\ pc[c] \in {"rules", "rule"} => call[c].op \in {"clear", "removeAnchor"}
  /\ pc[c] = "kill" => call[c].op = "clear" /\ todo[c] \subseteq DOMAIN buf[c]
  /\ pc[c] = "killOne" => call[c].op = "kill"
  /\ pc[c] = "clearInterface" => call[c].op = "clearInterface"
  /\ pc[c] = "insert" => call[c].op = "addAnchor"
  /\ pc[c] = "delete" => call[c].op = "removeAnchor"

\* No anchor rule that was passed has the name.
LookupAt(c) ==
  pc[c] = "rule" /\ c \notin moved =>
    /\ count[c] = Len(AnchorsOf(c)) /\ index[c] <= count[c]
    /\ \A j \in 1..index[c] : AnchorsOf(c)[j] # call[c].name

\* A state that was there when the call started is still among the oldest, is in
\* the snapshot, and is among those to kill.
SnapshotAt(c) ==
  LET left == present[c] \cap table
      undisturbed == call[c].op = "clear" /\ call[c].kind = "filter" /\ c \notin moved
  IN  /\ present[c] \subseteq Range(created)
      /\ pc[c] = "fetch" => \A f \in left : Rank(f) <= num[c]
      /\ pc[c] \in {"rules", "rule"} /\ undisturbed =>
           \A f \in left : \E i \in DOMAIN buf[c] : buf[c][i] = Slot(f)
      /\ pc[c] = "kill" /\ undisturbed =>
           \A f \in left : Owner[f] = call[c].name => \E i \in todo[c] : buf[c][i].flow = f

\* Every state that was removed was counted, once, and does not come back.
CountAt(c) ==
  /\ pc[c] # "kill" => total[c] = 0
  /\ pc[c] \notin {"idle", "kill"} => removed[c] = {}
  /\ pc[c] = "kill" =>
       /\ removed[c] \subseteq Range(created) \ table
       /\ Cardinality(removed[c]) < 256 => total[c] = Cardinality(removed[c])

\* The slots carry the numbers that the anchor rules still have, and those to kill
\* are of the anchor.
SlotsAt(c) ==
  call[c].op = "clear" /\ call[c].kind = "filter" /\ c \notin moved =>
    /\ pc[c] \in {"rules", "rule"} =>
         \A i \in DOMAIN buf[c] : buf[c][i] = Phantom \/ \E f \in Flows : buf[c][i] = Slot(f)
    /\ pc[c] = "kill" =>
         \A i \in todo[c] : buf[c][i] = Phantom \/ Owner[buf[c][i].flow] = call[c].name

IInv ==
  /\ TypeOK /\ ClearSparesOthers
  /\ \A c \in Clients : /\ ControlAt(c) /\ LookupAt(c) /\ SnapshotAt(c) /\ CountAt(c)
                        /\ SlotsAt(c)
=============================================================================
