--------------------------- MODULE PfStatesSafety ---------------------------
(***************************************************************************)
(* The inductive invariant of PfStates, and what follows from it: which    *)
(* states clear_states removes, the number it returns, and when an anchor  *)
(* is said not to exist.                                                   *)
(***************************************************************************)
EXTENDS PfStatesProofs

-----------------------------------------------------------------------------
(* What a step does to the calls of other clients. *)

\* A call that may be looking for an anchor rule hears of the rules that move.
AnchorsStep(d) ==
  call[d].op \in {"clear", "addAnchor", "removeAnchor"} /\ d \notin moved' =>
    d \notin moved /\ anchors'[call[d].kind] = anchors[call[d].kind]

LEMMA CreatedGrows ==
  ASSUME TypeOK, TableStep
  PROVE  /\ Range(created) \subseteq Range(created')
         /\ table' \cap Range(created) \subseteq table
<1>1. CASE table' \subseteq table /\ created' = created
  BY <1>1
<1>2. ASSUME NEW f \in Flows \ Range(created),
             table' = table \cup {f}, created' = Append(created, f)
      PROVE  /\ Range(created) \subseteq Range(created')
             /\ table' \cap Range(created) \subseteq table
  <2>1. created \in Seq(Flows)
    BY DEF TypeOK
  <2>2. /\ DOMAIN created \subseteq DOMAIN Append(created, f)
        /\ \A i \in DOMAIN created : Append(created, f)[i] = created[i]
    BY <2>1
  <2>3. Range(created) \subseteq Range(created')
    BY <1>2, <2>2 DEF Range
  <2> QED BY <1>2, <2>3
<1> QED BY <1>1, <1>2 DEF TableStep

NumberIn(rules, name) ==
  IF name \in Range(rules) THEN (CHOOSE i \in DOMAIN rules : rules[i] = name) - 1 ELSE NoRule

LEMMA SlotFrame ==
  ASSUME anchors'["filter"] = anchors["filter"], NEW f
  PROVE  Slot(f)' = Slot(f)
<1>1. AnchorNumber(Owner[f]) = NumberIn(anchors["filter"], Owner[f])
  BY DEF AnchorNumber, NumberIn
<1>2. AnchorNumber(Owner[f])' = NumberIn(anchors'["filter"], Owner[f])
  BY DEF AnchorNumber, NumberIn
<1>3. AnchorNumber(Owner[f])' = AnchorNumber(Owner[f])
  BY <1>1, <1>2
<1> QED BY <1>3 DEF Slot

\* A number that is exported is the one of a rule.
LEMMA NumberedRule ==
  ASSUME TypeOK, NEW name, AnchorNumber(name) \in Nat
  PROVE  name = anchors["filter"][AnchorNumber(name) + 1]
<1>1. name \in Range(anchors["filter"])
  BY DEF AnchorNumber, NoRule
<1>2. PICK j \in DOMAIN anchors["filter"] : anchors["filter"][j] = name
  BY <1>1 DEF Range
<1>3. AnchorNumber(name) = j - 1
  BY <1>2, AnchorNumberIs
<1>4. j \in Nat
  BY <1>2, InitialAssumption DEF TypeOK
<1> QED BY <1>2, <1>3, <1>4

\* A snapshot holds states and zeroed slots, and nothing else.
LEMMA ExportReal ==
  ASSUME TypeOK, NEW n \in Nat, NEW i \in DOMAIN Export(n)
  PROVE  Export(n)[i] = Phantom \/ \E f \in Flows : Export(n)[i] = Slot(f)
<1>1. CASE \E f \in table : Rank(f) = i
  <2>1. (CHOOSE f \in table : Rank(f) = i) \in Flows
    BY <1>1, TableFinite
  <2> QED BY <1>1, <2>1 DEF Export
<1>2. CASE ~\E f \in table : Rank(f) = i
  BY <1>2 DEF Export
<1> QED BY <1>1, <1>2

LEMMA LookupFrame ==
  ASSUME Controlled, NEW d \in Clients, LookupAt(d), Untouched(d), AnchorsStep(d)
  PROVE  LookupAt(d)'
<1> SUFFICES ASSUME pc'[d] = "rule", d \notin moved'
             PROVE  /\ count'[d] = Len(AnchorsOf(d)') /\ index'[d] <= count'[d]
                    /\ \A j \in 1..index'[d] : AnchorsOf(d)'[j] # call'[d].name
  BY DEF LookupAt
<1>1. pc[d] = "rule" /\ call[d].op \in {"clear", "removeAnchor"}
  BY DEF Untouched, Controlled, ControlAt
<1>2. d \notin moved /\ anchors'[call[d].kind] = anchors[call[d].kind]
  BY <1>1 DEF AnchorsStep
<1>3. AnchorsOf(d)' = AnchorsOf(d)
  BY <1>2 DEF AnchorsOf, Untouched
<1> QED BY <1>1, <1>2, <1>3 DEF LookupAt, Untouched

LEMMA SnapshotFrame ==
  ASSUME Controlled, NEW d \in Clients, SnapshotAt(d), Untouched(d), TableStep, AnchorsStep(d)
  PROVE  SnapshotAt(d)'
<1> DEFINE left == present[d] \cap table
           left2 == present'[d] \cap table'
           undisturbed == call[d].op = "clear" /\ call[d].kind = "filter" /\ d \notin moved
           undisturbed2 == call'[d].op = "clear" /\ call'[d].kind = "filter" /\ d \notin moved'
<1>1. present'[d] = present[d] /\ present[d] \subseteq Range(created)
  BY DEF SnapshotAt, Untouched
<1>2. present'[d] \subseteq Range(created)'
  BY <1>1, CreatedGrows DEF Controlled
<1>3. left2 \subseteq left
  BY <1>1, CreatedGrows DEF Controlled
<1>4. ASSUME pc'[d] = "fetch", NEW f \in left2
      PROVE  Rank(f)' <= num'[d]
  <2>1. f \in table /\ Rank(f) <= num[d]
    BY <1>3, <1>4 DEF SnapshotAt, Untouched
  <2>2. Rank(f)' \in Int /\ Rank(f)' <= Rank(f)
    BY <2>1, RankFalls DEF Controlled
  <2>3. Rank(f) \in Nat /\ num[d] \in Nat
    <3>1. TypeOK
      BY DEF Controlled
    <3>2. num[d] \in Nat
      BY <3>1 DEF TypeOK
    <3>3. Rank(f) \in 1..Cardinality(table) /\ Cardinality(table) \in Nat
      BY <2>1, <3>1, RankType, TableFinite
    <3> QED BY <3>2, <3>3
  <2> HIDE DEF left, left2
  <2> QED BY <2>1, <2>2, <2>3 DEF Untouched
<1>5. undisturbed2 => undisturbed /\ anchors'["filter"] = anchors["filter"]
  BY DEF AnchorsStep, Untouched
<1>6. ASSUME undisturbed2, NEW f
      PROVE  Slot(f)' = Slot(f)
  BY <1>5, <1>6, SlotFrame
<1>7. ASSUME pc'[d] \in {"rules", "rule"}, undisturbed2, NEW f \in left2
      PROVE  \E i \in DOMAIN buf'[d] : buf'[d][i] = Slot(f)'
  BY <1>3, <1>5, <1>6, <1>7 DEF SnapshotAt, Untouched
<1>8. ASSUME pc'[d] = "kill", undisturbed2, NEW f \in left2, Owner[f] = call'[d].name
      PROVE  \E i \in todo'[d] : buf'[d][i].flow = f
  BY <1>3, <1>5, <1>8 DEF SnapshotAt, Untouched
<1> QED BY <1>2, <1>4, <1>7, <1>8 DEF SnapshotAt

LEMMA CountFrame ==
  ASSUME Controlled, NEW d \in Clients, CountAt(d), Untouched(d), TableStep
  PROVE  CountAt(d)'
<1>1. ASSUME NEW S, S \subseteq Range(created) \ table
      PROVE  S \subseteq Range(created') \ table'
  BY <1>1, CreatedGrows DEF Controlled
<1> QED BY <1>1 DEF CountAt, Untouched

\* What ClearSparesOthers says of one call.
SparesAt(c) ==
  /\ pc[c] = "kill" /\ call[c].kind = "filter"
  /\ c \notin moved /\ Phantom \notin Range(buf[c])
  => \A f \in removed[c] : \E slot \in Range(buf[c]) :
       Owner[slot.flow] = call[c].name /\ Class[slot.flow] = Class[f]

LEMMA SlotsFrame ==
  ASSUME Controlled, NEW d \in Clients, SlotsAt(d), SparesAt(d), Untouched(d), AnchorsStep(d)
  PROVE  SlotsAt(d)' /\ SparesAt(d)'
<1>1. pc[d] = "kill" => call[d].op = "clear"
  BY DEF Controlled, ControlAt
<1>2. call[d].op = "clear" /\ call[d].kind = "filter" /\ d \notin moved' =>
        d \notin moved /\ anchors'["filter"] = anchors["filter"]
  BY DEF AnchorsStep
<1>3. SparesAt(d)'
  BY <1>1, <1>2 DEF SparesAt, Untouched
<1>4. ASSUME call[d].op = "clear", call[d].kind = "filter", d \notin moved',
             pc[d] \in {"rules", "rule"}, NEW i \in DOMAIN buf[d]
      PROVE  buf[d][i] = Phantom \/ \E f \in Flows : buf[d][i] = Slot(f)'
  <2>1. buf[d][i] = Phantom \/ \E f \in Flows : buf[d][i] = Slot(f)
    BY <1>2, <1>4 DEF SlotsAt
  <2> QED BY <1>2, <1>4, <2>1, SlotFrame
<1>5. SlotsAt(d)'
  BY <1>2, <1>4 DEF SlotsAt, Untouched, Phantom
<1> QED BY <1>3, <1>5

-----------------------------------------------------------------------------
(* What a step does to the client's own call. *)

LEMMA ReturnOwn ==
  ASSUME TypeOK, NEW c \in Clients, Returns(c)
  PROVE  LookupAt(c)' /\ SnapshotAt(c)' /\ CountAt(c)'
<1>1. pc'[c] = "idle" /\ call'[c] = NoCall /\ present'[c] = {} /\ total'[c] = 0
  BY LeaveOwn DEF Returns
<1> QED BY <1>1 DEF LookupAt, SnapshotAt, CountAt

LEMMA StartOwn ==
  ASSUME IInv, NEW c \in Clients, StartCall(c)
  PROVE  LookupAt(c)' /\ SnapshotAt(c)' /\ CountAt(c)'
<1>1. ASSUME NEW request, NEW point, Start(c, request, point),
             \/ point \in {"count", "killOne", "clearInterface", "insert"}
             \/ point = "rules" /\ request.op = "removeAnchor"
      PROVE  LookupAt(c)' /\ SnapshotAt(c)' /\ CountAt(c)'
  <2>1. pc[c] = "idle" /\ pc'[c] = point /\ call'[c] = request
        /\ removed'[c] = {} /\ present'[c] = table /\ total'[c] = total[c]
        /\ created' = created
    BY <1>1 DEF Start, Goto, IInv, TypeOK, kernelVars, localVars
  <2>2. table \subseteq Range(created) /\ total[c] = 0
    BY <2>1 DEF IInv, TypeOK, CountAt
  <2>3. LookupAt(c)' /\ CountAt(c)'
    BY <1>1, <2>1, <2>2 DEF LookupAt, CountAt
  <2>4. SnapshotAt(c)'
    BY <1>1, <2>1, <2>2 DEF SnapshotAt
  <2> QED BY <2>3, <2>4
<1>2. CASE \/ Start(c, [op |-> "get"], "count")
           \/ \E slot \in known[c] : Start(c, [op |-> "kill", slot |-> slot], "killOne")
           \/ \E name \in Names, kind \in Kinds :
                Start(c, [op |-> "clear", name |-> name, kind |-> kind], "count")
           \/ \E iface \in Selections :
                Start(c, [op |-> "clearInterface", iface |-> iface], "clearInterface")
  BY <1>1, <1>2
<1>3. ASSUME NEW name \in Names, NEW kind \in Kinds, NEW try \in BOOLEAN, NEW op,
             \/ op = "addAnchor" /\ Start(c, [op |-> op, name |-> name, kind |-> kind, try |-> try],
                                          "insert")
             \/ op = "removeAnchor" /\ Start(c, [op |-> op, name |-> name, kind |-> kind, try |-> try],
                                             "rules")
      PROVE  LookupAt(c)' /\ SnapshotAt(c)' /\ CountAt(c)'
  <2> DEFINE request == [op |-> op, name |-> name, kind |-> kind, try |-> try]
  <2>1. request.op = op
    OBVIOUS
  <2> HIDE DEF request
  <2> QED BY <1>1, <1>3, <2>1 DEF request
<1> QED BY <1>2, <1>3 DEF StartCall

\* The snapshot holds every state that was there when the call started and still is.
LEMMA CountStatesOwn ==
  ASSUME IInv, NEW c \in Clients, CountStates(c), table # {}
  PROVE  LookupAt(c)' /\ SnapshotAt(c)' /\ CountAt(c)'
<1>1. /\ pc[c] = "count" /\ pc'[c] = "fetch" /\ num'[c] = Cardinality(table)
      /\ UNCHANGED <<table, created, total, removed, present>>
  BY DEF CountStates, Goto, IInv, TypeOK, kernelVars
<1>2. LookupAt(c)' /\ CountAt(c)'
  BY <1>1 DEF LookupAt, CountAt, IInv
<1>3. ASSUME NEW f \in table
      PROVE  Rank(f)' <= Cardinality(table)
  <2>1. Rank(f)' = Rank(f)
    BY <1>1 DEF Rank, Before
  <2> QED BY <2>1, RankType, TableFinite DEF IInv
<1>4. SnapshotAt(c)'
  BY <1>1, <1>3 DEF SnapshotAt, IInv
<1> QED BY <1>2, <1>4

LEMMA FetchStatesOwn ==
  ASSUME IInv, NEW c \in Clients, FetchStates(c), call[c].op = "clear"
  PROVE  LookupAt(c)' /\ SnapshotAt(c)' /\ CountAt(c)'
<1>1. /\ pc[c] = "fetch" /\ pc'[c] = "rules" /\ buf'[c] = Export(num[c])
      /\ UNCHANGED <<table, created, anchors, call, total, removed, present, moved>>
  BY DEF FetchStates, Goto, IInv, TypeOK, kernelVars
<1>2. LookupAt(c)' /\ CountAt(c)'
  BY <1>1 DEF LookupAt, CountAt, IInv
<1>3. ASSUME NEW f \in present[c] \cap table
      PROVE  \E i \in DOMAIN buf'[c] : buf'[c][i] = Slot(f)'
  <2>1. Rank(f) <= num[c] /\ num[c] \in Nat
    BY <1>1, <1>3 DEF IInv, SnapshotAt, TypeOK
  <2>2. Slot(f)' = Slot(f)
    BY <1>1, SlotFrame
  <2> QED BY <1>1, <2>1, <2>2, ExportComplete DEF IInv
<1>4. SnapshotAt(c)'
  BY <1>1, <1>3 DEF SnapshotAt, IInv
<1> QED BY <1>2, <1>4

LEMMA GetRulesOwn ==
  ASSUME IInv, NEW c \in Clients, GetRules(c)
  PROVE  LookupAt(c)' /\ SnapshotAt(c)' /\ CountAt(c)'
<1>1. /\ pc[c] = "rules" /\ pc'[c] = "rule" /\ count'[c] = Len(AnchorsOf(c)) /\ index'[c] = 0
      /\ UNCHANGED <<table, created, anchors, call, buf, total, removed, present, moved>>
  BY DEF GetRules, Goto, IInv, TypeOK, kernelVars, historyVars
<1>2. AnchorsOf(c)' = AnchorsOf(c)
  BY <1>1 DEF AnchorsOf
<1>3. Len(AnchorsOf(c)) \in Nat
  <2>1. TypeOK /\ call[c].op \in {"clear", "removeAnchor"}
    BY <1>1 DEF IInv, ControlAt
  <2>2. call[c].kind \in Kinds
    BY <2>1, Requests
  <2>3. AnchorsOf(c) \in Seq(Names)
    BY <2>1, <2>2 DEF AnchorsOf, TypeOK
  <2> QED BY <2>3
<1>4. LookupAt(c)'
  BY <1>1, <1>2, <1>3 DEF LookupAt
<1>5. \A f : Slot(f)' = Slot(f)
  BY <1>1, SlotFrame
<1>6. SnapshotAt(c)'
  BY <1>1, <1>5 DEF SnapshotAt, IInv
<1>7. CountAt(c)'
  BY <1>1 DEF CountAt, IInv
<1> QED BY <1>4, <1>6, <1>7

LEMMA GetRuleOwn ==
  ASSUME IInv, NEW c \in Clients, GetRule(c)
  PROVE  LookupAt(c)' /\ SnapshotAt(c)' /\ CountAt(c)'
<1> DEFINE rules == AnchorsOf(c)
<1>1. /\ pc[c] = "rule" /\ index[c] < count[c] /\ index[c] < Len(rules)
      /\ UNCHANGED <<table, created, anchors, call, buf, count, total, removed, present, moved>>
  BY DEF GetRule, kernelVars, historyVars
<1>2. /\ call[c].op \in {"clear", "removeAnchor"} /\ call[c].kind \in Kinds
      /\ rules \in Seq(Names) /\ IsInjective(rules) /\ index[c] \in Nat /\ count[c] \in Nat
  BY <1>1, Requests DEF IInv, ControlAt, AnchorsOf, TypeOK
<1>3. AnchorsOf(c)' = rules
  BY <1>1 DEF AnchorsOf
<1>4. \A f : Slot(f)' = Slot(f)
  BY <1>1, SlotFrame
<1>5. CASE rules[index[c] + 1] # call[c].name
  <2>1. pc'[c] = "rule" /\ index'[c] = index[c] + 1
    BY <1>1, <1>5 DEF GetRule, IInv, TypeOK
  <2>2. LookupAt(c)'
    <3> SUFFICES ASSUME c \notin moved
                 PROVE  /\ count[c] = Len(rules) /\ index[c] + 1 <= count[c]
                        /\ \A j \in 1..(index[c] + 1) : rules[j] # call[c].name
      BY <1>1, <1>3, <2>1 DEF LookupAt
    <3>1. count[c] = Len(rules) /\ \A j \in 1..index[c] : rules[j] # call[c].name
      BY <1>1 DEF IInv, LookupAt
    <3> HIDE DEF rules
    <3>2. \A j \in 1..(index[c] + 1) : j \in 1..index[c] \/ j = index[c] + 1
      BY <1>2
    <3> QED BY <1>1, <1>2, <1>5, <3>1, <3>2
  <2>3. SnapshotAt(c)'
    BY <1>1, <1>4, <2>1 DEF SnapshotAt, IInv
  <2>4. CountAt(c)'
    BY <1>1, <2>1 DEF CountAt, IInv
  <2> QED BY <2>2, <2>3, <2>4
<1>6. CASE rules[index[c] + 1] = call[c].name /\ call[c].op = "clear"
  <2>1. pc'[c] = "kill" /\ todo'[c] = StatesOfRule(c)
    BY <1>1, <1>6 DEF GetRule, Goto, IInv, TypeOK
  <2>2. LookupAt(c)'
    BY <2>1 DEF LookupAt
  <2>3. ASSUME call[c].kind = "filter", NEW f, Owner[f] = call[c].name, NEW i \in DOMAIN buf[c],
               buf[c][i] = Slot(f)
        PROVE  i \in todo'[c] /\ buf[c][i].flow = f
    <3>1. index[c] + 1 \in DOMAIN anchors["filter"]
      BY <1>1, <1>2, <2>3 DEF AnchorsOf
    <3>2. AnchorNumber(call[c].name) = index[c]
      BY <1>2, <1>6, <2>3, <3>1, AnchorNumberIs DEF AnchorsOf, IInv
    <3> QED BY <2>1, <2>3, <3>2 DEF StatesOfRule, Slot
  <2>4. SnapshotAt(c)'
    BY <1>1, <2>1, <2>3 DEF SnapshotAt, IInv
  <2>5. removed[c] = {} /\ total[c] = 0
    BY <1>1 DEF IInv, CountAt
  <2>6. CountAt(c)'
    BY <1>1, <2>1, <2>5, FS_EmptySet DEF CountAt
  <2> QED BY <2>2, <2>4, <2>6
<1>7. CASE rules[index[c] + 1] = call[c].name /\ call[c].op = "removeAnchor"
  <2>1. pc'[c] = "delete"
    BY <1>1, <1>7 DEF GetRule, Goto, IInv, TypeOK
  <2> QED BY <1>1, <2>1 DEF LookupAt, SnapshotAt, CountAt, IInv
<1> QED BY <1>2, <1>5, <1>6, <1>7

LEMMA KillNextOwn ==
  ASSUME IInv, NEW c \in Clients, KillNext(c)
  PROVE  LookupAt(c)' /\ SnapshotAt(c)' /\ CountAt(c)'
<1>1. PICK i \in todo[c] :
        /\ table' = table \ Victims(buf[c][i])
        /\ removed' = [removed EXCEPT ![c] = @ \cup Victims(buf[c][i])]
        /\ total' = [total EXCEPT ![c] = @ + Returned(Cardinality(Victims(buf[c][i])))]
        /\ todo' = [todo EXCEPT ![c] = @ \ {i}]
        /\ pc[c] = "kill"
        /\ UNCHANGED <<created, anchors, pc, call, num, buf, index, count, known, result,
                       reported, calls, present, moved>>
  BY DEF KillNext
<1> DEFINE gone == Victims(buf[c][i])
<1>2. /\ gone \subseteq table /\ IsFiniteSet(gone) /\ Cardinality(gone) \in Nat
  BY VictimsType DEF IInv
<1>3. LookupAt(c)'
  BY <1>1 DEF LookupAt
<1>4. SnapshotAt(c)'
  <2>1. ASSUME NEW f \in present[c] \cap table', Owner[f] = call[c].name, call[c].op = "clear",
               call[c].kind = "filter", c \notin moved
        PROVE  \E j \in todo'[c] : buf'[c][j].flow = f
    <3>1. f \in table
      BY <1>1, <2>1
    <3>2. PICK j \in todo[c] : buf[c][j].flow = f
      BY <1>1, <2>1, <3>1 DEF IInv, SnapshotAt
    <3>3. j # i
      <4>1. SUFFICES ASSUME j = i
                     PROVE  f \in gone
        BY <1>1, <2>1
      <4> QED BY <3>1, <3>2, <4>1 DEF Victims, Matches
    <3>4. j \in todo'[c]
      BY <1>1, <3>3 DEF IInv, TypeOK
    <3> QED BY <1>1, <3>2, <3>4
  <2> QED BY <1>1, <2>1 DEF SnapshotAt, IInv
<1>5. CountAt(c)'
  <2>1. /\ removed[c] \subseteq Range(created) \ table
        /\ Cardinality(removed[c]) < 256 => total[c] = Cardinality(removed[c])
    BY <1>1 DEF IInv, CountAt
  <2>2. removed'[c] = removed[c] \cup gone /\ total'[c] = total[c] + Returned(Cardinality(gone))
    BY <1>1 DEF IInv, TypeOK
  <2>3. IsFiniteSet(removed[c]) /\ Cardinality(removed[c]) \in Nat
    BY FlowsAssumption, FS_Subset, FS_CardinalityType DEF IInv, TypeOK
  <2>4. removed[c] \cap gone = {}
    BY <1>2, <2>1
  <2> HIDE DEF gone
  <2>5. Cardinality(removed'[c]) = Cardinality(removed[c]) + Cardinality(gone)
    <3>1. Cardinality(removed[c] \cap gone) = 0
      BY <2>4, FS_EmptySet
    <3>2. IsFiniteSet(gone) /\ Cardinality(gone) \in Nat
      BY <1>2 DEF gone
    <3>3. Cardinality(removed[c] \cup gone)
            = Cardinality(removed[c]) + Cardinality(gone) - Cardinality(removed[c] \cap gone)
      BY <2>3, <3>2, FS_Union
    <3> QED BY <2>2, <2>3, <3>1, <3>2, <3>3
  <2>6. Cardinality(removed'[c]) < 256 => total'[c] = Cardinality(removed'[c])
    BY <1>2, <2>1, <2>2, <2>3, <2>5 DEF Returned
  <2>7. gone \subseteq Range(created) /\ created' = created /\ table' = table \ gone
    BY <1>1, <1>2 DEF IInv, TypeOK, gone
  <2>8. removed'[c] \subseteq Range(created') \ table'
    BY <2>1, <2>2, <2>7
  <2> QED BY <1>1, <2>6, <2>8 DEF CountAt
<1> QED BY <1>3, <1>4, <1>5

-----------------------------------------------------------------------------
(* Which slots a clear_states kills. *)

LEMMA ReturnSlots ==
  ASSUME TypeOK, NEW c \in Clients, Returns(c)
  PROVE  SlotsAt(c)' /\ SparesAt(c)'
<1>1. pc'[c] = "idle"
  BY LeaveOwn DEF Returns
<1> QED BY <1>1 DEF SlotsAt, SparesAt

LEMMA StartSlots ==
  ASSUME IInv, NEW c \in Clients, StartCall(c)
  PROVE  SlotsAt(c)' /\ SparesAt(c)'
<1>1. ASSUME NEW request, NEW point, Start(c, request, point),
             \/ point \in {"count", "killOne", "clearInterface", "insert"}
             \/ point = "rules" /\ request.op = "removeAnchor"
      PROVE  SlotsAt(c)' /\ SparesAt(c)'
  <2>1. pc'[c] = point /\ call'[c] = request
    BY <1>1 DEF Start, Goto, IInv, TypeOK
  <2> QED BY <1>1, <2>1 DEF SlotsAt, SparesAt
<1>2. ASSUME NEW name \in Names, NEW kind \in Kinds, NEW try \in BOOLEAN, NEW op,
             op = "removeAnchor" /\ Start(c, [op |-> op, name |-> name, kind |-> kind, try |-> try],
                                          "rules")
      PROVE  SlotsAt(c)' /\ SparesAt(c)'
  <2> DEFINE request == [op |-> op, name |-> name, kind |-> kind, try |-> try]
  <2>1. request.op = op
    OBVIOUS
  <2> HIDE DEF request
  <2> QED BY <1>1, <1>2, <2>1 DEF request
<1> QED BY <1>1, <1>2 DEF StartCall

\* The snapshot carries the numbers of the anchor rules as they are then.
LEMMA FetchStatesSlots ==
  ASSUME IInv, NEW c \in Clients, FetchStates(c), call[c].op = "clear"
  PROVE  SlotsAt(c)' /\ SparesAt(c)'
<1>1. /\ pc'[c] = "rules" /\ buf'[c] = Export(num[c])
      /\ UNCHANGED <<anchors, call>>
  BY DEF FetchStates, Goto, IInv, TypeOK, kernelVars
<1>2. ASSUME NEW i \in DOMAIN buf'[c]
      PROVE  buf'[c][i] = Phantom \/ \E f \in Flows : buf'[c][i] = Slot(f)'
  <2>1. Export(num[c])[i] = Phantom \/ \E f \in Flows : Export(num[c])[i] = Slot(f)
    BY <1>1, <1>2, ExportReal DEF IInv, TypeOK
  <2> QED BY <1>1, <2>1, SlotFrame
<1> QED BY <1>1, <1>2 DEF SlotsAt, SparesAt

\* The slots that carry the number of the rule that was found are of the anchor.
LEMMA GetRuleSlots ==
  ASSUME IInv, NEW c \in Clients, GetRule(c)
  PROVE  SlotsAt(c)' /\ SparesAt(c)'
<1>1. /\ pc[c] = "rule" /\ index[c] < Len(AnchorsOf(c))
      /\ UNCHANGED <<anchors, call, buf, removed, moved>>
  BY DEF GetRule, kernelVars, historyVars
<1>2. \A f : Slot(f)' = Slot(f)
  BY <1>1, SlotFrame
<1>3. CASE pc'[c] = "kill"
  <2>1. /\ AnchorsOf(c)[index[c] + 1] = call[c].name
        /\ todo'[c] = StatesOfRule(c)
    BY <1>1, <1>3 DEF GetRule, Goto, IInv, TypeOK
  <2>2. ASSUME call[c].op = "clear", call[c].kind = "filter", c \notin moved,
               NEW i \in StatesOfRule(c)
        PROVE  buf[c][i] = Phantom \/ Owner[buf[c][i].flow] = call[c].name
    <3>1. CASE buf[c][i] = Phantom
      BY <3>1
    <3>2. ASSUME NEW f \in Flows, buf[c][i] = Slot(f)
          PROVE  Owner[buf[c][i].flow] = call[c].name
      <4>1. AnchorNumber(Owner[f]) = index[c] /\ index[c] \in Nat
        BY <2>2, <3>2 DEF StatesOfRule, Slot, IInv, TypeOK
      <4>2. Owner[f] = anchors["filter"][index[c] + 1]
        BY <4>1, NumberedRule DEF IInv
      <4> QED BY <2>1, <2>2, <3>2, <4>2 DEF AnchorsOf, Slot
    <3>3. i \in DOMAIN buf[c]
      BY <2>2 DEF StatesOfRule
    <3> QED BY <1>1, <2>2, <3>1, <3>2, <3>3 DEF IInv, SlotsAt
  <2>3. removed[c] = {}
    BY <1>1 DEF IInv, CountAt
  <2> QED BY <1>1, <1>3, <2>1, <2>2, <2>3 DEF SlotsAt, SparesAt
<1>4. CASE pc'[c] # "kill"
  BY <1>1, <1>2, <1>4 DEF SlotsAt, SparesAt, IInv
<1> QED BY <1>3, <1>4

LEMMA KillNextSlots ==
  ASSUME IInv, NEW c \in Clients, KillNext(c)
  PROVE  SlotsAt(c)' /\ SparesAt(c)'
<1>1. PICK i \in todo[c] :
        /\ removed' = [removed EXCEPT ![c] = @ \cup Victims(buf[c][i])]
        /\ todo' = [todo EXCEPT ![c] = @ \ {i}]
        /\ pc[c] = "kill"
        /\ UNCHANGED <<anchors, pc, call, buf, moved>>
  BY DEF KillNext
<1>2. call[c].op = "clear" /\ todo[c] \subseteq DOMAIN buf[c]
  BY <1>1 DEF IInv, ControlAt
<1>3. todo'[c] \subseteq todo[c] /\ removed'[c] = removed[c] \cup Victims(buf[c][i])
  BY <1>1 DEF IInv, TypeOK
<1>4. SlotsAt(c)'
  BY <1>1, <1>3 DEF SlotsAt, IInv
<1>5. ASSUME call[c].kind = "filter", c \notin moved, Phantom \notin Range(buf[c]),
             NEW f \in removed'[c]
      PROVE  \E slot \in Range(buf[c]) :
               Owner[slot.flow] = call[c].name /\ Class[slot.flow] = Class[f]
  <2>1. CASE f \in removed[c]
    BY <1>1, <1>5, <2>1 DEF IInv, ClearSparesOthers
  <2>2. CASE f \in Victims(buf[c][i])
    <3>1. buf[c][i] \in Range(buf[c]) /\ buf[c][i] # Phantom
      BY <1>2, <1>5 DEF Range
    <3>2. Owner[buf[c][i].flow] = call[c].name
      BY <1>1, <1>2, <1>5, <3>1 DEF IInv, SlotsAt
    <3>3. Class[f] = Class[buf[c][i].flow]
      BY <2>2, <3>1 DEF Victims, Matches
    <3> QED BY <3>1, <3>2, <3>3
  <2> QED BY <1>3, <1>5, <2>1, <2>2
<1> QED BY <1>1, <1>4, <1>5 DEF SparesAt

LEMMA SlotsStep ==
  ASSUME IInv, NEW c \in Clients, StartCall(c) \/ ReturnStep(c) \/ StepInside(c)
  PROVE  SlotsAt(c)' /\ SparesAt(c)'
<1>1. Controlled /\ SlotsAt(c)
  BY DEF IInv, Controlled
<1>2. CASE ReturnStep(c)
  BY <1>1, <1>2, ReturnStepReturns, ReturnSlots DEF Controlled
<1>3. CASE CountStates(c) /\ table # {}
  <2>1. pc'[c] = "fetch"
    BY <1>3 DEF CountStates, Goto, IInv, TypeOK
  <2> QED BY <2>1 DEF SlotsAt, SparesAt
<1>4. CASE GetRules(c)
  <2>1. pc[c] = "rules" /\ pc'[c] = "rule" /\ UNCHANGED <<anchors, call, buf, moved>>
    BY <1>4 DEF GetRules, Goto, IInv, TypeOK, kernelVars, historyVars
  <2>2. \A f : Slot(f)' = Slot(f)
    BY <2>1, SlotFrame
  <2> QED BY <1>1, <2>1, <2>2 DEF SlotsAt, SparesAt
<1> QED BY <1>2, <1>3, <1>4, StartSlots, FetchStatesSlots, GetRuleSlots, KillNextSlots
        DEF StepInside

-----------------------------------------------------------------------------
(* The invariant is inductive. *)

LEMMA TableSteps ==
  ASSUME Controlled, NEW c \in Clients, StartCall(c) \/ ReturnStep(c) \/ StepInside(c)
  PROVE  TableStep
<1>1. CASE StartCall(c)
  BY <1>1 DEF StartCall, Start, kernelVars, TableStep
<1>2. CASE ReturnStep(c)
  BY <1>2 DEF ReturnStep, CountStates, FetchStates, RuleGone, AnchorNotFound, KillsDone,
         KillState, ClearInterfaceStates, InsertAnchor, DeleteAnchor, NameRefused,
         IoctlFails, kernelVars, TableStep
<1>3. CASE StepInside(c)
  BY <1>3 DEF StepInside, CountStates, FetchStates, GetRules, GetRule, KillNext, kernelVars,
         TableStep
<1> QED BY <1>1, <1>2, <1>3

LEMMA AnchorsSteps ==
  ASSUME Controlled, NEW c \in Clients, StartCall(c) \/ ReturnStep(c) \/ StepInside(c),
         NEW d \in Clients, d # c
  PROVE  AnchorsStep(d)
<1>1. CASE UNCHANGED anchors /\ (moved' = moved \/ moved' = moved \ {c})
  BY <1>1 DEF AnchorsStep
<1>2. ASSUME NEW names, ReturnWith(c, names)
      PROVE  AnchorsStep(d)
  <2>1. ASSUME call[d].op \in {"clear", "addAnchor", "removeAnchor"}
        PROVE  "kind" \in DOMAIN call[d]
    <3>1. call[d] \in CallTypes
      BY DEF Controlled, TypeOK
    <3> QED BY <2>1, <3>1 DEF CallTypes, NoCall
  <2> QED BY <1>2, <2>1 DEF AnchorsStep, ReturnWith, Controlled, TypeOK
<1>3. CASE StartCall(c)
  <2>1. UNCHANGED anchors /\ moved' = moved
    BY <1>3 DEF StartCall, Start, kernelVars
  <2> QED BY <1>1, <2>1
<1>4. CASE StepInside(c)
  <2>1. UNCHANGED anchors /\ moved' = moved
    BY <1>4 DEF StepInside, CountStates, FetchStates, GetRules, GetRule, KillNext, kernelVars,
           historyVars
  <2> QED BY <1>1, <2>1
<1>5. CASE ReturnStep(c)
  <2>1. \/ UNCHANGED anchors /\ moved' = moved \ {c}
        \/ \E names : ReturnWith(c, names)
    BY <1>5 DEF ReturnStep, CountStates, FetchStates, RuleGone, AnchorNotFound, KillsDone,
           KillState, ClearInterfaceStates, InsertAnchor, DeleteAnchor, NameRefused,
           IoctlFails, kernelVars, Return
  <2> QED BY <1>1, <1>2, <2>1
<1> QED BY <1>3, <1>4, <1>5

LEMMA OwnStep ==
  ASSUME IInv, NEW c \in Clients, StartCall(c) \/ ReturnStep(c) \/ StepInside(c)
  PROVE  LookupAt(c)' /\ SnapshotAt(c)' /\ CountAt(c)'
<1>1. Controlled
  BY DEF IInv, Controlled
<1>2. CASE ReturnStep(c)
  BY <1>1, <1>2, ReturnStepReturns, ReturnOwn DEF Controlled
<1> QED BY <1>2, StartOwn, CountStatesOwn, FetchStatesOwn, GetRulesOwn, GetRuleOwn, KillNextOwn
        DEF StepInside

LEMMA InitInv == Init => IInv
<1> SUFFICES ASSUME Init
             PROVE  IInv
  OBVIOUS
<1>1. Controlled
  BY InitCorrect
<1>2. ASSUME NEW c \in Clients
      PROVE  LookupAt(c) /\ SnapshotAt(c) /\ CountAt(c) /\ SlotsAt(c)
  BY DEF Init, LookupAt, SnapshotAt, CountAt, SlotsAt
<1>3. ClearSparesOthers
  BY DEF Init, ClearSparesOthers
<1> QED BY <1>1, <1>2, <1>3 DEF Controlled, IInv

LEMMA NextInv == IInv /\ [Next]_vars => IInv'
<1> SUFFICES ASSUME IInv, [Next]_vars
             PROVE  IInv'
  OBVIOUS
<1> DEFINE Kept(d) == LookupAt(d)' /\ SnapshotAt(d)' /\ CountAt(d)' /\ SlotsAt(d)' /\ SparesAt(d)'
<1>1. Controlled /\ Controlled' /\ \A d \in Clients : SparesAt(d)
  BY NextCorrect DEF IInv, Controlled, ClearSparesOthers, SparesAt
<1>2. TypeOK' /\ \A c \in Clients : ControlAt(c)'
  BY <1>1 DEF Controlled
<1>3. ASSUME NEW d \in Clients, Untouched(d), TableStep, AnchorsStep(d)
      PROVE  Kept(d)
  BY <1>1, <1>3, LookupFrame, SnapshotFrame, CountFrame, SlotsFrame DEF IInv
<1>4. ASSUME NEW c \in Clients, StartCall(c) \/ Step(c) \/ IoctlFails(c)
      PROVE  \A d \in Clients : Kept(d)
  <2>1. StartCall(c) \/ ReturnStep(c) \/ StepInside(c)
    BY <1>4, StepKinds
  <2>2. \A d \in Clients : d # c => Untouched(d)
    BY <1>1, <1>4, StepCorrect
  <2> QED BY <1>1, <1>3, <2>1, <2>2, OwnStep, SlotsStep, TableSteps, AnchorsSteps
<1>5. ASSUME (\E f \in Flows : Traffic(f)) \/ (\E f \in table : Expire(f))
      PROVE  \A d \in Clients : Kept(d)
  <2>1. UNCHANGED <<anchors, moved>>
    BY <1>5 DEF Traffic, Expire, historyVars
  <2>2. \A d \in Clients : AnchorsStep(d)
    BY <2>1 DEF AnchorsStep
  <2> QED BY <1>1, <1>3, <1>5, <2>2, KernelStepCorrect
<1>6. ASSUME UNCHANGED vars
      PROVE  \A d \in Clients : Kept(d)
  <2>1. UNCHANGED <<anchors, moved, table, created>> /\ \A d \in Clients : Untouched(d)
    BY <1>6 DEF vars, kernelVars, localVars, historyVars, Untouched
  <2>2. TableStep /\ \A d \in Clients : AnchorsStep(d)
    BY <2>1 DEF TableStep, AnchorsStep
  <2> QED BY <1>3, <2>1, <2>2
<1>7. \A d \in Clients : Kept(d)
  BY <1>4, <1>5, <1>6 DEF Next
<1>8. ClearSparesOthers'
  BY <1>7 DEF ClearSparesOthers, SparesAt
<1> QED BY <1>2, <1>7, <1>8 DEF IInv

\* What the position of a call on states or anchor rules says of its progress,
\* whatever other clients and the traffic do meanwhile.
THEOREM Invariant == Spec => []IInv
BY InitInv, NextInv, PTL DEF Spec

-----------------------------------------------------------------------------
(* The answers. *)

\* Which steps end a call at a given point.
LEMMA EndOfCall ==
  ASSUME Controlled, NEW c \in Clients, Next, pc[c] # pc'[c], pc'[c] = "idle"
  PROVE  ReturnStep(c)
<1>1. ASSUME NEW b \in Clients, StartCall(b) \/ Step(b) \/ IoctlFails(b)
      PROVE  ReturnStep(c)
  <2>1. b = c
    BY <1>1, StepCorrect DEF Untouched
  <2>2. CASE StartCall(c)
    <3>1. pc[c] = "idle"
      BY <2>2 DEF StartCall, Start
    <3> QED BY <3>1
  <2>3. CASE StepInside(c)
    BY <2>3 DEF StepInside, CountStates, FetchStates, GetRules, GetRule, KillNext, Goto, Controlled, TypeOK
  <2> QED BY <1>1, <2>1, <2>2, <2>3, StepKinds
<1>2. CASE (\E f \in Flows : Traffic(f)) \/ (\E f \in table : Expire(f))
  BY <1>2, KernelStepCorrect DEF Untouched
<1> QED BY <1>1, <1>2 DEF Next

LEMMA LeaveAnswers ==
  ASSUME TypeOK, NEW c \in Clients, NEW r, NEW n, Leave(c, r, n)
  PROVE  /\ result'[c] = Reported(c, r) /\ reported'[c] = n
         /\ r \in {"Ioctl", "InvalidAnchorName", "InvalidInterfaceName"} => result'[c] = r
BY DEF Leave, TypeOK, Reported

LEMMA ClearedStep ==
  ASSUME IInv, Next, NEW c \in Clients, pc[c] = "kill", pc'[c] = "idle", result'[c] = "ok"
  PROVE  KillsDone(c)
<1>1. ReturnStep(c)
  BY EndOfCall DEF IInv, Controlled
<1>2. ASSUME IoctlFails(c)
      PROVE  FALSE
  BY <1>2, LeaveAnswers DEF IoctlFails, Return, IInv
<1> QED BY <1>1, <1>2 DEF ReturnStep, CountStates, FetchStates, RuleGone, AnchorNotFound, KillState,
        ClearInterfaceStates, InsertAnchor, DeleteAnchor, NameRefused

\* clear_states removes every state of the anchor that was there when it was called,
\* unless anchor rules of its kind came or went meanwhile.
THEOREM ClearsAll == Spec => ClearCompletesUnlessMoved
<1>1. ASSUME IInv, Next, NEW c \in Clients,
             pc[c] = "kill", pc'[c] = "idle", result'[c] = "ok", call[c].kind = "filter",
             c \notin moved, NEW f \in present[c], Owner[f] = call[c].name
      PROVE  f \notin table'
  <2>1. KillsDone(c)
    BY <1>1, ClearedStep
  <2>2. todo[c] = {} /\ table' = table
    BY <2>1 DEF KillsDone, kernelVars
  <2>3. call[c].op = "clear"
    BY <1>1 DEF IInv, ControlAt
  <2> QED BY <1>1, <2>2, <2>3 DEF IInv, SnapshotAt
<1>2. IInv /\ [Next]_vars =>
        [\A c \in Clients :
           pc[c] = "kill" /\ pc'[c] = "idle" /\ result'[c] = "ok" /\ call[c].kind = "filter" =>
             \/ \A f \in present[c] : Owner[f] = call[c].name => f \notin table'
             \/ c \in moved]_vars
  BY <1>1
<1> QED BY <1>2, Invariant, PTL DEF Spec, ClearCompletesUnlessMoved

\* clear_states of a filter anchor removes only states that are, to a kill request,
\* like one of the anchor's own, unless its snapshot has a zeroed slot or anchor rules
\* came or went meanwhile: another client or the traffic cannot make it take more.
THEOREM Spares == Spec => []ClearSparesOthers
<1>1. IInv => ClearSparesOthers
  BY DEF IInv
<1> QED BY <1>1, Invariant, PTL

\* clear_states and clear_interface_states return the number of states that they
\* removed, if it is below 256: requests of the same call never count a state twice.
THEOREM Counts == Spec => CountExactIfItFits
<1>1. ASSUME IInv, Next, NEW c \in Clients,
             pc[c] \in {"kill", "clearInterface"}, pc'[c] = "idle", result'[c] = "ok",
             Cardinality(removed'[c]) < 256
      PROVE  reported'[c] = Cardinality(removed'[c])
  <2>1. CASE pc[c] = "kill"
    <3>1. KillsDone(c)
      BY <1>1, <2>1, ClearedStep
    <3>2. reported'[c] = total[c] /\ removed'[c] = removed[c]
      <4>1. Leave(c, "ok", total[c]) /\ removed' = removed /\ TypeOK
        BY <1>1, <3>1 DEF KillsDone, Return, IInv
      <4> QED BY <4>1, LeaveAnswers
    <3> QED BY <1>1, <2>1, <3>2 DEF IInv, CountAt
  <2>2. CASE pc[c] = "clearInterface"
    <3>1. ReturnStep(c)
      BY <1>1, EndOfCall DEF IInv, Controlled
    <3>2. ASSUME NameRefused(c) \/ IoctlFails(c)
          PROVE  FALSE
      <4>1. PICK r \in {"Ioctl", "InvalidAnchorName", "InvalidInterfaceName"} : Leave(c, r, 0)
        BY <3>2 DEF NameRefused, IoctlFails, Return
      <4> QED BY <1>1, <4>1, LeaveAnswers DEF IInv
    <3>3. ClearInterfaceStates(c)
      BY <2>2, <3>1, <3>2 DEF ReturnStep, CountStates, FetchStates, RuleGone, AnchorNotFound,
             KillsDone, KillState, InsertAnchor, DeleteAnchor
    <3>4. PICK gone : /\ gone = {f \in table : call[c].iface \in {AnyIface, Iface[Class[f]]}}
                      /\ removed' = [removed EXCEPT ![c] = gone]
                      /\ Return(c, "ok", Returned(Cardinality(gone)))
      BY <3>3 DEF ClearInterfaceStates
    <3>5. gone \subseteq table
      BY <3>4
    <3>6. Cardinality(gone) \in Nat
      <4>1. IsFiniteSet(table)
        BY <1>1, TableFinite DEF IInv
      <4> QED BY <3>5, <4>1, FS_Subset, FS_CardinalityType
    <3>7. removed'[c] = gone /\ reported'[c] = Returned(Cardinality(gone))
      <4>1. Leave(c, "ok", Returned(Cardinality(gone))) /\ TypeOK
        BY <1>1, <3>4 DEF Return, IInv
      <4>2. removed'[c] = gone
        BY <3>4, <4>1 DEF TypeOK
      <4> QED BY <4>1, <4>2, LeaveAnswers
    <3> QED BY <1>1, <3>6, <3>7 DEF Returned
  <2> QED BY <1>1, <2>1, <2>2
<1>2. IInv /\ [Next]_vars =>
        [\A c \in Clients :
           /\ pc[c] \in {"kill", "clearInterface"} /\ pc'[c] = "idle" /\ result'[c] = "ok"
           /\ Cardinality(removed'[c]) < 256
           => reported'[c] = Cardinality(removed'[c])]_vars
  BY <1>1
<1> QED BY <1>2, Invariant, PTL DEF Spec, CountExactIfItFits

\* The 8 bits of psk_af are all that stands between the code and its documentation
\* (src/src/lib.rs:436 and 461): where there are never 256 states, the number is exact.
THEOREM CountsFewStates ==
  ASSUME Cardinality(Flows) < 256
  PROVE  Spec => CountExact
<1>1. ASSUME IInv', NEW c \in Clients
      PROVE  Cardinality(removed'[c]) < 256
  <2>1. removed'[c] \subseteq Flows
    BY <1>1 DEF IInv, TypeOK
  <2>2. Cardinality(removed'[c]) <= Cardinality(Flows) /\ IsFiniteSet(removed'[c])
    BY <2>1, FlowsAssumption, FS_Subset
  <2>3. Cardinality(removed'[c]) \in Nat /\ Cardinality(Flows) \in Nat
    BY <2>2, FlowsAssumption, FS_CardinalityType
  <2> QED BY <2>2, <2>3
<1>2. IInv' /\
      [\A c \in Clients :
         /\ pc[c] \in {"kill", "clearInterface"} /\ pc'[c] = "idle" /\ result'[c] = "ok"
         /\ Cardinality(removed'[c]) < 256
         => reported'[c] = Cardinality(removed'[c])]_vars
      => [\A c \in Clients :
            pc[c] \in {"kill", "clearInterface"} /\ pc'[c] = "idle" /\ result'[c] = "ok" =>
              reported'[c] = Cardinality(removed'[c])]_vars
  BY <1>1
<1> QED BY <1>2, Invariant, Counts, PTL DEF CountExact, CountExactIfItFits

\* remove_anchor and clear_states say AnchorDoesNotExist only of an anchor of that
\* kind that is not there, unless anchor rules of the kind came or went meanwhile.
THEOREM Lookups == Spec => LookupExact
<1>1. ASSUME IInv, Next, NEW c \in Clients, pc[c] = "rule", pc'[c] = "idle", result'[c] # "Ioctl",
             c \notin moved
      PROVE  call[c].name \notin Range(AnchorsOf(c))
  <2>1. ReturnStep(c)
    BY <1>1, EndOfCall DEF IInv, Controlled
  <2>2. ASSUME RuleGone(c) \/ IoctlFails(c)
        PROVE  FALSE
    BY <1>1, <2>2, LeaveAnswers DEF RuleGone, IoctlFails, Return, IInv
  <2>3. AnchorNotFound(c)
    BY <1>1, <2>1, <2>2 DEF ReturnStep, CountStates, FetchStates, KillsDone, KillState,
           ClearInterfaceStates, InsertAnchor, DeleteAnchor, NameRefused
  <2>4. /\ count[c] = Len(AnchorsOf(c)) /\ index[c] <= count[c]
        /\ \A j \in 1..index[c] : AnchorsOf(c)[j] # call[c].name
    BY <1>1 DEF IInv, LookupAt
  <2>5. index[c] >= count[c] /\ index[c] \in Nat /\ count[c] \in Nat
    <3>1. index[c] \in Nat /\ count[c] \in Nat
      BY <1>1 DEF IInv, TypeOK
    <3> QED BY <2>3, <3>1 DEF AnchorNotFound
  <2>6. index[c] = Len(AnchorsOf(c))
    BY <2>4, <2>5
  <2>7. AnchorsOf(c) \in Seq(Names)
    BY <1>1, Requests DEF IInv, ControlAt, AnchorsOf, TypeOK
  <2> QED BY <2>4, <2>6, <2>7 DEF Range
<1>2. IInv /\ [Next]_vars =>
        [\A c \in Clients :
           pc[c] = "rule" /\ pc'[c] = "idle" /\ result'[c] # "Ioctl" =>
             call[c].name \notin Range(AnchorsOf(c)) \/ c \in moved]_vars
  BY <1>1
<1> QED BY <1>2, Invariant, PTL DEF Spec, LookupExact

\* No client touches anchor rules.
Quiet == moved = {} /\ \A c \in Clients : call[c].op \notin {"addAnchor", "removeAnchor"}

LEMMA StaysQuiet ==
  ASSUME Operations \cap {"addAnchor", "removeAnchor"} = {}, IInv, Quiet, [Next]_vars
  PROVE  Quiet'
<1>1. ASSUME NEW c \in Clients, StartCall(c)
      PROVE  Quiet'
  <2>1. ASSUME NEW request, NEW point, request.op \notin {"addAnchor", "removeAnchor"},
               Start(c, request, point)
        PROVE  Quiet'
    BY <2>1 DEF Start, Quiet, IInv, TypeOK
  <2>2. ASSUME NEW request, NEW point, request.op \in {"addAnchor", "removeAnchor"},
               Start(c, request, point)
        PROVE  FALSE
    BY <2>2 DEF Start
  <2>3. \E request, point : Start(c, request, point)
    BY <1>1 DEF StartCall
  <2> QED BY <2>1, <2>2, <2>3
<1>2. ASSUME NEW c \in Clients, ReturnStep(c)
      PROVE  Quiet'
  <2>1. pc[c] \notin {"insert", "delete"}
    BY DEF Quiet, IInv, ControlAt
  <2>2. \E r, n : Return(c, r, n)
    BY <1>2, <2>1 DEF ReturnStep, CountStates, FetchStates, RuleGone, AnchorNotFound, KillsDone,
           KillState, ClearInterfaceStates, InsertAnchor, DeleteAnchor, NameRefused, IoctlFails
  <2>3. moved' = moved \ {c} /\ call' = [call EXCEPT ![c] = NoCall]
    BY <2>2 DEF Return, Leave
  <2> QED BY <2>3 DEF Quiet, IInv, TypeOK, NoCall
<1>3. ASSUME NEW c \in Clients, StepInside(c)
      PROVE  Quiet'
  <2>1. UNCHANGED <<moved, call>>
    BY <1>3 DEF StepInside, CountStates, FetchStates, GetRules, GetRule, KillNext, historyVars
  <2> QED BY <2>1 DEF Quiet
<1>4. CASE (\E f \in Flows : Traffic(f)) \/ (\E f \in table : Expire(f)) \/ UNCHANGED vars
  BY <1>4 DEF Traffic, Expire, vars, historyVars, Quiet
<1> QED BY <1>1, <1>2, <1>3, <1>4, StepKinds DEF Next

\* What the documentation says of clear_states (src/src/lib.rs:435) is so as long as
\* nobody adds or removes an anchor rule; the runs show that it is not otherwise.
THEOREM ClearsAllIfAnchorsStay ==
  ASSUME Operations \cap {"addAnchor", "removeAnchor"} = {}
  PROVE  Spec => ClearCompletes
<1>1. Init => Quiet
  BY DEF Init, Quiet, NoCall
<1>2. IInv /\ Quiet /\ [Next]_vars => Quiet'
  BY StaysQuiet
<1>3. Quiet /\
      [\A c \in Clients :
         pc[c] = "kill" /\ pc'[c] = "idle" /\ result'[c] = "ok" /\ call[c].kind = "filter" =>
           \/ \A f \in present[c] : Owner[f] = call[c].name => f \notin table'
           \/ c \in moved]_vars
      => [\A c \in Clients :
            pc[c] = "kill" /\ pc'[c] = "idle" /\ result'[c] = "ok" /\ call[c].kind = "filter" =>
              \A f \in present[c] : Owner[f] = call[c].name => f \notin table']_vars
  BY DEF Quiet
<1> QED BY <1>1, <1>2, <1>3, Invariant, ClearsAll, PTL
        DEF Spec, ClearCompletes, ClearCompletesUnlessMoved
=============================================================================
