--------------------------- MODULE PfStatesProofs ---------------------------
(***************************************************************************)
(* Proofs about PfStates: the order of the state table, what an exported   *)
(* snapshot contains, and type correctness.                                *)
(***************************************************************************)
EXTENDS PfStates, FiniteSetTheorems, SequenceTheorems, TLAPS

-----------------------------------------------------------------------------
(* The order of the state table. *)

LEMMA TableFinite ==
  ASSUME TypeOK
  PROVE  /\ table \subseteq Flows /\ IsFiniteSet(table) /\ Cardinality(table) \in Nat
         /\ Range(created) \subseteq Flows
<1>1. Range(created) \subseteq Flows /\ table \subseteq Flows
  BY DEF TypeOK, Range
<1> QED BY <1>1, FlowsAssumption, FS_Subset, FS_CardinalityType

LEMMA BeforeReflexive ==
  ASSUME TypeOK, NEW f \in Range(created)
  PROVE  Before(f, f)
BY DEF TypeOK, Before, Range

LEMMA BeforeOrders ==
  ASSUME TypeOK, NEW f \in Range(created), NEW g \in Range(created)
  PROVE  /\ Before(f, g) \/ Before(g, f)
         /\ Before(f, g) /\ Before(g, f) => f = g
<1>1. PICK i \in DOMAIN created, j \in DOMAIN created : created[i] = f /\ created[j] = g
  BY DEF Range
<1>2. i \in 1..j \/ j \in 1..i
  BY <1>1 DEF TypeOK
<1>3. \A k \in DOMAIN created : created[k] = f => k = i
  BY <1>1 DEF TypeOK, IsInjective
<1>4. \A k \in DOMAIN created : created[k] = g => k = j
  BY <1>1 DEF TypeOK, IsInjective
<1>5. DOMAIN created = 1..Len(created) /\ Len(created) \in Nat
  BY DEF TypeOK
<1>6. Before(f, g) => i <= j
  BY <1>3, <1>4, <1>5 DEF Before
<1>7. Before(g, f) => j <= i
  BY <1>3, <1>4, <1>5 DEF Before
<1>8. i = j => f = g
  BY <1>1
<1> QED BY <1>1, <1>2, <1>5, <1>6, <1>7, <1>8 DEF Before

LEMMA BeforeTransitive ==
  ASSUME TypeOK, NEW f, NEW g, NEW h, Before(f, g), Before(g, h)
  PROVE  Before(f, h)
<1>1. DOMAIN created = 1..Len(created) /\ Len(created) \in Nat
  BY DEF TypeOK
<1>2. PICK j \in DOMAIN created : \E i \in 1..j : created[i] = f /\ created[j] = g
  BY DEF Before
<1>3. PICK i \in 1..j : created[i] = f /\ created[j] = g
  BY <1>2
<1>4. PICK k \in DOMAIN created : \E l \in 1..k : created[l] = g /\ created[k] = h
  BY DEF Before
<1>5. PICK l \in 1..k : created[l] = g /\ created[k] = h
  BY <1>4
<1>6. l \in DOMAIN created /\ j \in DOMAIN created
  BY <1>1, <1>3, <1>5
<1>7. l = j
  BY <1>3, <1>5, <1>6 DEF TypeOK, IsInjective
<1>8. i \in 1..k
  BY <1>1, <1>3, <1>5, <1>7
<1> QED BY <1>3, <1>5, <1>8 DEF Before

LEMMA RankType ==
  ASSUME TypeOK, NEW f \in table
  PROVE  Rank(f) \in 1..Cardinality(table)
<1> DEFINE older == {g \in table : Before(g, f)}
<1>1. older \subseteq table /\ f \in older
  BY BeforeReflexive DEF TypeOK
<1>2. IsFiniteSet(older) /\ Cardinality(older) <= Cardinality(table)
  BY <1>1, TableFinite, FS_Subset
<1>3. Cardinality(older) \in Nat /\ Cardinality(older) # 0
  BY <1>1, <1>2, FS_EmptySet, FS_CardinalityType
<1> QED BY <1>2, <1>3, TableFinite DEF Rank

\* No two states have the same place in the table.
LEMMA RankInjective ==
  ASSUME TypeOK, NEW f \in table, NEW g \in table, Rank(f) = Rank(g)
  PROVE  f = g
<1> DEFINE older(h) == {e \in table : Before(e, h)}
<1>1. ASSUME NEW h \in table, NEW k \in table, Before(h, k), Rank(h) = Rank(k)
      PROVE  h = k
  <2>1. older(h) \subseteq older(k)
    BY <1>1, BeforeTransitive
  <2>2. IsFiniteSet(older(k))
    BY TableFinite, FS_Subset
  <2>3. older(h) = older(k)
    BY <1>1, <2>1, <2>2, FS_Subset DEF Rank
  <2>4. k \in Range(created) /\ h \in Range(created)
    BY DEF TypeOK
  <2>5. Before(k, h)
    BY <2>3, <2>4, BeforeReflexive
  <2> QED BY <1>1, <2>4, <2>5, BeforeOrders
<1>2. f \in Range(created) /\ g \in Range(created)
  BY DEF TypeOK
<1> QED BY <1>1, <1>2, BeforeOrders

\* A step of the table: states go, or one that is new comes.
TableStep ==
  \/ table' \subseteq table /\ created' = created
  \/ \E f \in Flows \ Range(created) : table' = table \cup {f} /\ created' = Append(created, f)

\* A state only gets nearer to the head of the table.
LEMMA RankFalls ==
  ASSUME TypeOK, TableStep, NEW f \in table
  PROVE  Rank(f)' \in Int /\ Rank(f)' <= Rank(f)
<1> DEFINE older == {g \in table : Before(g, f)}
           older2 == {g \in table' : Before(g, f)'}
<1>1. older2 \subseteq older
  <2>1. CASE table' \subseteq table /\ created' = created
    BY <2>1 DEF Before
  <2>2. ASSUME NEW n \in Flows \ Range(created),
               table' = table \cup {n}, created' = Append(created, n)
        PROVE  older2 \subseteq older
    <3>1. SUFFICES ASSUME NEW g \in table', Before(g, f)'
                   PROVE  g \in table /\ Before(g, f)
      OBVIOUS
    <3> PICK j \in DOMAIN created' : \E i \in 1..j : created'[i] = g /\ created'[j] = f
      BY <3>1 DEF Before
    <3>2. PICK i \in 1..j : created'[i] = g /\ created'[j] = f
      OBVIOUS
    <3>3. f \in Range(created) /\ f # n
      BY <2>2 DEF TypeOK
    <3>4. j \in DOMAIN created /\ i \in DOMAIN created
      BY <2>2, <3>2, <3>3 DEF TypeOK
    <3>5. created[i] = g /\ created[j] = f
      BY <2>2, <3>2, <3>4 DEF TypeOK
    <3>6. g # n
      BY <3>4, <3>5 DEF Range
    <3> QED BY <2>2, <3>2, <3>4, <3>5, <3>6 DEF Before
  <2> QED BY <2>1, <2>2 DEF TableStep
<1>2. IsFiniteSet(older)
  BY TableFinite, FS_Subset
<1>3. IsFiniteSet(older2) /\ Cardinality(older2) <= Cardinality(older)
  BY <1>1, <1>2, FS_Subset
<1>4. Cardinality(older2) \in Nat
  BY <1>3, FS_CardinalityType
<1> QED BY <1>3, <1>4 DEF Rank

-----------------------------------------------------------------------------
(* The exported snapshot. *)

LEMMA AnchorNumberIs ==
  ASSUME TypeOK, NEW j \in DOMAIN anchors["filter"]
  PROVE  AnchorNumber(anchors["filter"][j]) = j - 1
<1> DEFINE rules == anchors["filter"]
<1>1. rules \in Seq(Names) /\ IsInjective(rules)
  BY InitialAssumption DEF TypeOK
<1>2. rules[j] \in Range(rules)
  BY DEF Range
<1>3. \A i \in DOMAIN rules : rules[i] = rules[j] => i = j
  BY <1>1 DEF IsInjective
<1>4. (CHOOSE i \in DOMAIN rules : rules[i] = rules[j]) = j
  BY <1>3
<1> QED BY <1>2, <1>4 DEF AnchorNumber

LEMMA SlotType ==
  ASSUME TypeOK, NEW f \in Flows
  PROVE  Slot(f) \in Slots /\ Slot(f) # Phantom
<1> DEFINE rules == anchors["filter"]
<1>1. AnchorNumber(Owner[f]) \in {NoRule} \cup Nat
  <2>1. CASE Owner[f] \in Range(rules)
    <3>1. PICK j \in DOMAIN rules : rules[j] = Owner[f]
      BY <2>1 DEF Range
    <3>2. j - 1 \in Nat
      BY InitialAssumption DEF TypeOK
    <3> QED BY <3>1, <3>2, AnchorNumberIs
  <2> QED BY <2>1 DEF AnchorNumber
<1> QED BY <1>1, FlowsAssumption DEF Slot, Slots, Phantom

LEMMA ExportType ==
  ASSUME TypeOK, NEW n \in Nat
  PROVE  Export(n) \in Seq(Slots) /\ Range(Export(n)) \subseteq Slots /\ Len(Export(n)) = n
<1>1. \A i \in 1..n : Export(n)[i] \in Slots
  <2>1. SUFFICES ASSUME NEW i \in 1..n, \E f \in table : Rank(f) = i
                 PROVE  Slot(CHOOSE f \in table : Rank(f) = i) \in Slots
    BY DEF Export, Slots
  <2>2. (CHOOSE f \in table : Rank(f) = i) \in Flows
    BY <2>1, TableFinite
  <2> QED BY <2>2, SlotType
<1>2. DOMAIN Export(n) = 1..n
  BY DEF Export
<1>3. Export(n) = [i \in 1..n |-> Export(n)[i]]
  BY DEF Export
<1>4. Export(n) \in [1..n -> Slots]
  BY <1>1, <1>2, <1>3
<1> QED BY <1>4 DEF Range

\* The snapshot has every state that is among the n oldest.
LEMMA ExportComplete ==
  ASSUME TypeOK, NEW n \in Nat, NEW f \in table, Rank(f) <= n
  PROVE  \E i \in DOMAIN Export(n) : Export(n)[i] = Slot(f)
<1> DEFINE i == Rank(f)
<1>1. i \in 1..n
  BY RankType, TableFinite
<1>2. (CHOOSE g \in table : Rank(g) = i) = f
  BY RankInjective
<1> QED BY <1>1, <1>2 DEF Export

-----------------------------------------------------------------------------
(* The anchor rules: inserting a new name or removing one keeps names unique. *)

LEMMA WithLast ==
  ASSUME NEW S, NEW s \in Seq(S), NEW e \in S
  PROVE  /\ s \o <<e>> \in Seq(S) /\ Len(s \o <<e>>) = Len(s) + 1
         /\ \A j \in 1..(Len(s) + 1) : (s \o <<e>>)[j] = IF j <= Len(s) THEN s[j] ELSE e
<1> DEFINE t == <<e>>
<1>1. t \in Seq(S) /\ Len(t) = 1 /\ t[1] = e
  OBVIOUS
<1> HIDE DEF t
<1>2. /\ s \o t \in Seq(S) /\ Len(s \o t) = Len(s) + 1
      /\ \A j \in 1..(Len(s) + 1) : (s \o t)[j] = IF j <= Len(s) THEN s[j] ELSE t[j - Len(s)]
  BY <1>1, ConcatProperties
<1>3. \A j \in 1..(Len(s) + 1) : j <= Len(s) \/ j - Len(s) = 1
  OBVIOUS
<1>4. \A j \in 1..(Len(s) + 1) : (s \o t)[j] = IF j <= Len(s) THEN s[j] ELSE e
  BY <1>1, <1>2, <1>3
<1> QED BY <1>2, <1>4 DEF t

LEMMA InsertAtUnique ==
  ASSUME NEW S, NEW s \in Seq(S), IsInjective(s), NEW e \in S, e \notin Range(s),
         NEW i \in 1..(Len(s) + 1)
  PROVE  InsertAt(s, i, e) \in Seq(S) /\ IsInjective(InsertAt(s, i, e))
<1> DEFINE t == InsertAt(s, i, e)
           a == SubSeq(s, 1, i - 1)
           b == SubSeq(s, i, Len(s))
<1>a. a \in Seq(S) /\ Len(a) = i - 1 /\ \A j \in 1..(i - 1) : a[j] = s[j]
  OBVIOUS
<1>b. b \in Seq(S) /\ Len(b) = Len(s) - i + 1 /\ \A j \in 1..(Len(s) - i + 1) : b[j] = s[i + j - 1]
  OBVIOUS
<1> DEFINE m == a \o <<e>>
<1>m. m \in Seq(S) /\ Len(m) = i /\ \A j \in 1..i : m[j] = IF j < i THEN s[j] ELSE e
  <2> HIDE DEF a
  <2>1. /\ m \in Seq(S) /\ Len(m) = Len(a) + 1
        /\ \A j \in 1..(Len(a) + 1) : m[j] = IF j <= Len(a) THEN a[j] ELSE e
    BY <1>a, WithLast
  <2> HIDE DEF m
  <2> QED BY <1>a, <2>1
<1>c. t = m \o b
  BY DEF InsertAt
<1>1. t \in Seq(S) /\ Len(t) = Len(s) + 1
  <2> HIDE DEF m, b, t
  <2> QED BY <1>m, <1>b, <1>c
<1>2. \A j \in 1..Len(t) : t[j] = IF j < i THEN s[j] ELSE IF j = i THEN e ELSE s[j - 1]
  <2>1. \A j \in 1..Len(t) : t[j] = IF j <= Len(m) THEN m[j] ELSE b[j - Len(m)]
    <3> HIDE DEF m, b, t
    <3> QED BY <1>m, <1>b, <1>c, <1>1, ConcatProperties
  <2>2. ASSUME NEW j \in 1..Len(t), j > i
        PROVE  t[j] = s[j - 1]
    <3>1. j - i \in 1..(Len(s) - i + 1)
      BY <1>1, <2>2
    <3>2. b[j - i] = s[j - 1]
      BY <3>1, <1>b
    <3> HIDE DEF m, b, t
    <3> QED BY <1>1, <1>m, <2>1, <2>2, <3>2
  <2> HIDE DEF m, b, t
  <2> QED BY <1>1, <1>m, <2>1, <2>2
<1>3. \A j \in 1..Len(s) : s[j] # e
  BY DEF Range
<1>4. \A j, k \in 1..Len(s) : s[j] = s[k] => j = k
  BY DEF IsInjective
<1>5. ASSUME NEW j \in 1..Len(t), NEW k \in 1..Len(t), t[j] = t[k]
      PROVE  j = k
  <2>1. ASSUME NEW l \in 1..Len(t)
        PROVE  \/ l < i /\ l \in 1..Len(s) /\ t[l] = s[l]
               \/ l = i /\ t[l] = e
               \/ l > i /\ l - 1 \in 1..Len(s) /\ t[l] = s[l - 1]
    <3> HIDE DEF t
    <3> QED BY <1>1, <1>2
  <2> HIDE DEF t
  <2>2. CASE j < i
    BY <1>3, <1>4, <1>5, <2>1, <2>2
  <2>3. CASE j = i
    BY <1>3, <1>4, <1>5, <2>1, <2>3
  <2>4. CASE j > i
    BY <1>3, <1>4, <1>5, <2>1, <2>4
  <2> QED BY <1>1, <2>2, <2>3, <2>4
<1> QED BY <1>1, <1>5 DEF IsInjective

LEMMA RemoveAtUnique ==
  ASSUME NEW S, NEW s \in Seq(S), IsInjective(s), NEW i \in DOMAIN s
  PROVE  RemoveAt(s, i) \in Seq(S) /\ IsInjective(RemoveAt(s, i))
<1> DEFINE t == RemoveAt(s, i)
           a == SubSeq(s, 1, i - 1)
           b == SubSeq(s, i + 1, Len(s))
<1>a. a \in Seq(S) /\ Len(a) = i - 1 /\ \A j \in 1..(i - 1) : a[j] = s[j]
  OBVIOUS
<1>b. b \in Seq(S) /\ Len(b) = Len(s) - i /\ \A j \in 1..(Len(s) - i) : b[j] = s[i + j]
  OBVIOUS
<1>c. t = a \o b
  BY DEF RemoveAt
<1>1. t \in Seq(S) /\ Len(t) = Len(s) - 1
  <2> HIDE DEF a, b, t
  <2> QED BY <1>a, <1>b, <1>c
<1>2. \A j \in 1..Len(t) : t[j] = IF j < i THEN s[j] ELSE s[j + 1]
  <2>1. \A j \in 1..Len(t) : t[j] = IF j <= Len(a) THEN a[j] ELSE b[j - Len(a)]
    <3> HIDE DEF a, b, t
    <3> QED BY <1>a, <1>b, <1>c, <1>1, ConcatProperties
  <2>2. ASSUME NEW j \in 1..Len(t), j >= i
        PROVE  t[j] = s[j + 1]
    <3>1. j - (i - 1) \in 1..(Len(s) - i)
      BY <1>1, <2>2
    <3>2. b[j - (i - 1)] = s[j + 1]
      <4> HIDE DEF a, b, t
      <4>1. b[j - (i - 1)] = s[i + (j - (i - 1))]
        BY <3>1, <1>b
      <4>2. i + (j - (i - 1)) = j + 1
        BY <1>1
      <4> QED BY <4>1, <4>2
    <3> HIDE DEF a, b, t
    <3> QED BY <1>1, <1>a, <2>1, <2>2, <3>2
  <2>3. ASSUME NEW j \in 1..Len(t), j < i
        PROVE  t[j] = s[j]
    <3>1. j \in 1..(i - 1) /\ j <= Len(a)
      BY <1>1, <1>a, <2>3
    <3> HIDE DEF a, b, t
    <3> QED BY <1>1, <1>a, <2>1, <3>1
  <2> HIDE DEF t
  <2> QED BY <1>1, <2>2, <2>3
<1>3. \A j, k \in 1..Len(s) : s[j] = s[k] => j = k
  BY DEF IsInjective
<1>4. ASSUME NEW j \in 1..Len(t), NEW k \in 1..Len(t), t[j] = t[k]
      PROVE  j = k
  <2>1. Len(s) \in Nat
    OBVIOUS
  <2> HIDE DEF t
  <2> QED BY <1>1, <1>2, <1>3, <1>4, <2>1
<1> QED BY <1>1, <1>4 DEF IsInjective

-----------------------------------------------------------------------------
(* Type correctness. *)

LEMMA Requests ==
  ASSUME TypeOK, NEW c \in Clients
  PROVE  /\ call[c].op \in {"clear", "addAnchor", "removeAnchor"} =>
               call[c].name \in Names /\ call[c].kind \in Kinds
         /\ call[c].op = "kill" => call[c].slot \in Slots
<1>1. call[c] \in CallTypes
  BY DEF TypeOK
<1> QED BY <1>1 DEF CallTypes, NoCall

LEMMA VictimsType ==
  ASSUME TypeOK, NEW slot
  PROVE  /\ Victims(slot) \subseteq table /\ Victims(slot) \subseteq Flows
         /\ IsFiniteSet(Victims(slot)) /\ Cardinality(Victims(slot)) \in Nat
<1>1. Victims(slot) \subseteq table
  BY DEF Victims
<1> QED BY <1>1, TableFinite, FS_Subset, FS_CardinalityType

LEMMA ReturnedType ==
  ASSUME NEW n \in Nat
  PROVE  Returned(n) \in Nat
BY DEF Returned

\* What a step of a client touches, apart from the kernel and the history.
LocalsTyped ==
  /\ pc \in [Clients -> PCs] /\ call \in [Clients -> CallTypes]
  /\ num \in [Clients -> Nat] /\ buf \in [Clients -> Seq(Slots)]
  /\ index \in [Clients -> Nat] /\ count \in [Clients -> Nat]
  /\ todo \in [Clients -> SUBSET Nat] /\ total \in [Clients -> Nat]
  /\ result \in [Clients -> Results] /\ reported \in [Clients -> Nat]
  /\ calls \in [Clients -> Nat] /\ \A c \in Clients : calls[c] <= MaxCalls[c]
  /\ present \in [Clients -> SUBSET Flows]

KernelTyped ==
  /\ created \in Seq(Flows) /\ IsInjective(created)
  /\ table \subseteq Range(created)
  /\ anchors \in [Kinds -> Seq(Names)] /\ \A kind \in Kinds : IsInjective(anchors[kind])

LEMMA TypeParts ==
  TypeOK <=> /\ KernelTyped /\ LocalsTyped
             /\ known \in [Clients -> SUBSET Slots]
             /\ removed \in [Clients -> SUBSET Flows]
             /\ moved \subseteq Clients
BY Zenon DEF TypeOK, KernelTyped, LocalsTyped

LEMMA LeaveTyped ==
  ASSUME TypeOK, NEW c \in Clients, NEW r \in Results, NEW n \in Nat, Leave(c, r, n)
  PROVE  LocalsTyped'
<1>1. Reported(c, r) \in Results
  BY DEF Reported, Results
<1>2. NoCall \in CallTypes /\ "idle" \in PCs /\ <<>> \in Seq(Slots)
  BY DEF CallTypes, PCs
<1> QED BY <1>1, <1>2 DEF TypeOK, LocalsTyped, Leave, Goto

Controlled == TypeOK /\ \A c \in Clients : ControlAt(c)

\* What a step leaves alone of a client's call.
Untouched(d) ==
  /\ pc'[d] = pc[d] /\ call'[d] = call[d] /\ num'[d] = num[d] /\ buf'[d] = buf[d]
  /\ index'[d] = index[d] /\ count'[d] = count[d] /\ todo'[d] = todo[d]
  /\ total'[d] = total[d] /\ removed'[d] = removed[d] /\ present'[d] = present[d]

LEMMA LeaveFrame ==
  ASSUME TypeOK, NEW c \in Clients, NEW r, NEW n, Leave(c, r, n), NEW d \in Clients, d # c,
         removed'[d] = removed[d]
  PROVE  Untouched(d)
BY DEF TypeOK, Leave, Goto, Untouched

LEMMA LeaveOwn ==
  ASSUME TypeOK, NEW c \in Clients, NEW r, NEW n, Leave(c, r, n)
  PROVE  pc'[c] = "idle" /\ call'[c] = NoCall /\ present'[c] = {} /\ total'[c] = 0
BY DEF TypeOK, Leave, Goto

\* A call that returns, whatever it did to the kernel.
Returns(c) ==
  /\ \E r \in Results, n \in Nat : Leave(c, r, n)
  /\ KernelTyped' /\ known' \in [Clients -> SUBSET Slots]
  /\ \/ removed' = removed
     \/ \E gone \in SUBSET Flows : removed' = [removed EXCEPT ![c] = gone]
  /\ moved' \subseteq Clients

LEMMA ReturnsCorrect ==
  ASSUME TypeOK, NEW c \in Clients, Returns(c)
  PROVE  /\ TypeOK' /\ ControlAt(c)'
         /\ \A d \in Clients : d # c => Untouched(d)
<1>1. PICK r \in Results, n \in Nat : Leave(c, r, n)
  BY DEF Returns
<1>2. LocalsTyped'
  BY <1>1, LeaveTyped
<1>3. removed' \in [Clients -> SUBSET Flows] /\ \A d \in Clients : d # c => removed'[d] = removed[d]
  BY DEF Returns, TypeOK
<1>4. TypeOK'
  BY <1>2, <1>3, Zenon DEF TypeOK, Returns, KernelTyped, LocalsTyped
<1>5. ControlAt(c)'
  BY <1>1, LeaveOwn DEF ControlAt
<1>6. ASSUME NEW d \in Clients, d # c
      PROVE  Untouched(d)
  BY <1>1, <1>3, <1>6, LeaveFrame
<1> QED BY <1>4, <1>5, <1>6

LEMMA KernelKept ==
  ASSUME TypeOK, UNCHANGED kernelVars
  PROVE  KernelTyped'
BY DEF TypeOK, KernelTyped, kernelVars

LEMMA Killed ==
  ASSUME TypeOK, NEW gone, table' = table \ gone, UNCHANGED <<created, anchors>>
  PROVE  KernelTyped'
BY DEF TypeOK, KernelTyped

\* The calls that return.
ReturnStep(c) ==
  \/ CountStates(c) /\ table = {}
  \/ FetchStates(c) /\ call[c].op = "get"
  \/ RuleGone(c) \/ AnchorNotFound(c) \/ KillsDone(c) \/ KillState(c)
  \/ ClearInterfaceStates(c) \/ InsertAnchor(c) \/ DeleteAnchor(c)
  \/ NameRefused(c) \/ IoctlFails(c)

LEMMA ReturnStepReturns ==
  ASSUME Controlled, NEW c \in Clients, ReturnStep(c)
  PROVE  Returns(c)
<1> USE DEF Controlled
<1>1. 0 \in Nat /\ {"ok", "AnchorDoesNotExist", "StateAlreadyActive", "Ioctl",
                  "InvalidAnchorName", "InvalidInterfaceName"} \subseteq Results
  BY DEF Results
<1>2. \A r, n : Return(c, r, n) => moved' \subseteq Clients
  BY DEF Return, TypeOK
<1>3. CASE CountStates(c) /\ table = {}
  <2>1. known' \in [Clients -> SUBSET Slots]
    BY <1>3 DEF CountStates, TypeOK
  <2> QED BY <1>1, <1>2, <1>3, <2>1, KernelKept DEF CountStates, Returns, Return
<1>4. CASE FetchStates(c) /\ call[c].op = "get"
  <2>1. Range(Export(num[c])) \subseteq Slots
    BY ExportType DEF TypeOK
  <2>2. known' \in [Clients -> SUBSET Slots]
    BY <1>4, <2>1 DEF FetchStates, TypeOK
  <2> QED BY <1>1, <1>2, <1>4, <2>2, KernelKept DEF FetchStates, Returns, Return
<1>5. CASE RuleGone(c) \/ AnchorNotFound(c) \/ NameRefused(c) \/ IoctlFails(c)
  <2>1. known' \in [Clients -> SUBSET Slots]
    BY <1>5 DEF RuleGone, AnchorNotFound, NameRefused, IoctlFails, TypeOK
  <2> QED BY <1>1, <1>2, <1>5, <2>1, KernelKept
          DEF RuleGone, AnchorNotFound, NameRefused, IoctlFails, Returns, Return
<1>6. CASE KillsDone(c)
  <2>1. total[c] \in Nat /\ known' \in [Clients -> SUBSET Slots]
    BY <1>6 DEF KillsDone, TypeOK
  <2> QED BY <1>1, <1>2, <1>6, <2>1, KernelKept DEF KillsDone, Returns, Return
<1>7. CASE KillState(c)
  <2> DEFINE gone == Victims(call[c].slot)
  <2>1. gone \in SUBSET Flows /\ known' \in [Clients -> SUBSET Slots]
    BY <1>7, VictimsType DEF KillState, TypeOK
  <2>2. KernelTyped'
    BY <1>7, Killed DEF KillState
  <2> QED BY <1>1, <1>2, <1>7, <2>1, <2>2 DEF KillState, Returns, Return
<1>8. CASE ClearInterfaceStates(c)
  <2> DEFINE gone == {f \in table : call[c].iface \in {AnyIface, Iface[Class[f]]}}
  <2>1. gone \subseteq table
    OBVIOUS
  <2> HIDE DEF gone
  <2>2. gone \in SUBSET Flows /\ Returned(Cardinality(gone)) \in Nat
    BY <2>1, TableFinite, FS_Subset, FS_CardinalityType, ReturnedType
  <2>3. /\ table' = table \ gone /\ removed' = [removed EXCEPT ![c] = gone]
        /\ Return(c, "ok", Returned(Cardinality(gone))) /\ UNCHANGED <<created, anchors, known>>
    BY <1>8 DEF ClearInterfaceStates, gone
  <2>4. KernelTyped' /\ known' \in [Clients -> SUBSET Slots]
    BY <2>3, Killed DEF TypeOK
  <2> QED BY <1>1, <1>2, <2>2, <2>3, <2>4 DEF Returns, Return
<1>9. CASE InsertAnchor(c) \/ DeleteAnchor(c)
  <2>1. call[c].kind \in Kinds /\ call[c].name \in Names
    BY <1>9, Requests DEF InsertAnchor, DeleteAnchor, ControlAt
  <2>2. AnchorsOf(c) \in Seq(Names) /\ IsInjective(AnchorsOf(c))
    BY <2>1 DEF AnchorsOf, TypeOK
  <2>3. /\ known' \in [Clients -> SUBSET Slots] /\ removed' = removed
        /\ table' = table /\ created' = created
    BY <1>9 DEF InsertAnchor, DeleteAnchor, TypeOK
  <2>4. ASSUME NEW names, names \in Seq(Names), IsInjective(names), ReturnWith(c, names)
        PROVE  Returns(c)
    <3>1. anchors' \in [Kinds -> Seq(Names)] /\ \A kind \in Kinds : IsInjective(anchors'[kind])
      BY <2>1, <2>4 DEF ReturnWith, TypeOK
    <3>2. KernelTyped'
      BY <2>3, <3>1 DEF KernelTyped, TypeOK
    <3>3. moved' \subseteq Clients
      BY <2>4 DEF ReturnWith, TypeOK
    <3> QED BY <1>1, <2>3, <2>4, <3>2, <3>3 DEF Returns, ReturnWith
  <2>5. ASSUME NEW r \in Results, Return(c, r, 0), UNCHANGED anchors
        PROVE  Returns(c)
    <3>1. KernelTyped'
      BY <2>3, <2>5, KernelKept DEF kernelVars
    <3> QED BY <1>1, <1>2, <2>3, <2>5, <3>1 DEF Returns, Return
  <2>6. CASE InsertAnchor(c)
    <3>1. \/ /\ call[c].name \notin Range(AnchorsOf(c))
             /\ \E i \in 1..(Len(AnchorsOf(c)) + 1) :
                  ReturnWith(c, InsertAt(AnchorsOf(c), i, call[c].name))
          \/ Return(c, "StateAlreadyActive", 0) /\ UNCHANGED anchors
      BY <2>6 DEF InsertAnchor
    <3> QED BY <1>1, <2>1, <2>2, <2>4, <2>5, <3>1, InsertAtUnique
  <2>7. CASE DeleteAnchor(c)
    <3>1. \/ \E i \in DOMAIN AnchorsOf(c) : ReturnWith(c, RemoveAt(AnchorsOf(c), i))
          \/ Return(c, "Ioctl", 0) /\ UNCHANGED anchors
      BY <2>7 DEF DeleteAnchor
    <3> QED BY <1>1, <2>2, <2>4, <2>5, <3>1, RemoveAtUnique
  <2> QED BY <1>9, <2>6, <2>7
<1> QED BY <1>3, <1>4, <1>5, <1>6, <1>7, <1>8, <1>9 DEF ReturnStep

\* The steps inside a call.
StepInside(c) ==
  \/ CountStates(c) /\ table # {}
  \/ FetchStates(c) /\ call[c].op = "clear"
  \/ GetRules(c) \/ GetRule(c) \/ KillNext(c)

LEMMA StepKinds ==
  ASSUME NEW c
  PROVE  Step(c) \/ IoctlFails(c) => ReturnStep(c) \/ StepInside(c)
BY DEF Step, ReturnStep, StepInside, FetchStates

LEMMA StartCorrect ==
  ASSUME Controlled, NEW c \in Clients, StartCall(c)
  PROVE  /\ TypeOK' /\ ControlAt(c)'
         /\ \A d \in Clients : d # c => Untouched(d)
<1>1. ASSUME NEW request \in CallTypes, NEW point \in PCs, Start(c, request, point)
      PROVE  /\ TypeOK' /\ call'[c] = request /\ pc'[c] = point
             /\ \A d \in Clients : d # c => Untouched(d)
  <2>1. /\ pc' = [pc EXCEPT ![c] = point] /\ call' = [call EXCEPT ![c] = request]
        /\ calls' = [calls EXCEPT ![c] = @ + 1] /\ calls[c] < MaxCalls[c]
        /\ removed' = [removed EXCEPT ![c] = {}] /\ present' = [present EXCEPT ![c] = table]
        /\ result' = [result EXCEPT ![c] = "none"] /\ reported' = [reported EXCEPT ![c] = 0]
        /\ UNCHANGED <<table, created, anchors, num, buf, index, count, todo, total, known, moved>>
    BY <1>1 DEF Start, Goto, kernelVars, localVars
  <2>2. MaxCalls[c] \in Nat /\ calls[c] \in Nat /\ "none" \in Results /\ table \subseteq Flows
    BY OperationsAssumption, TableFinite DEF Controlled, TypeOK, Results
  <2>3. /\ calls' \in [Clients -> Nat] /\ \A d \in Clients : calls'[d] <= MaxCalls[d]
        /\ pc' \in [Clients -> PCs] /\ call' \in [Clients -> CallTypes]
    <3>1. calls \in [Clients -> Nat] /\ \A d \in Clients : calls[d] <= MaxCalls[d]
      BY DEF Controlled, TypeOK
    <3>2. calls' \in [Clients -> Nat]
      BY <2>1, <2>2, <3>1
    <3>3. calls'[c] = calls[c] + 1 /\ \A d \in Clients \ {c} : calls'[d] = calls[d]
      BY <2>1, <3>1
    <3>4. \A d \in Clients : calls'[d] <= MaxCalls[d]
      BY <2>1, <2>2, <3>1, <3>3
    <3>5. pc \in [Clients -> PCs] /\ call \in [Clients -> CallTypes]
      BY DEF Controlled, TypeOK
    <3>6. pc' \in [Clients -> PCs] /\ call' \in [Clients -> CallTypes]
      BY <1>1, <2>1, <3>5
    <3> QED BY <3>2, <3>4, <3>6
  <2>4. /\ removed' \in [Clients -> SUBSET Flows] /\ present' \in [Clients -> SUBSET Flows]
        /\ result' \in [Clients -> Results] /\ reported' \in [Clients -> Nat]
    BY <2>1, <2>2 DEF Controlled, TypeOK
  <2>5. TypeOK'
    BY <2>1, <2>3, <2>4 DEF Controlled, TypeOK
  <2> QED BY <2>1, <2>5 DEF Controlled, TypeOK, Untouched
<1>2. CASE Start(c, [op |-> "get"], "count")
  BY <1>1, <1>2 DEF CallTypes, PCs, ControlAt
<1>3. ASSUME NEW slot \in known[c], Start(c, [op |-> "kill", slot |-> slot], "killOne")
      PROVE  /\ TypeOK' /\ ControlAt(c)'
             /\ \A d \in Clients : d # c => Untouched(d)
  <2>1. slot \in Slots
    BY DEF Controlled, TypeOK
  <2> QED BY <1>1, <1>3, <2>1 DEF CallTypes, PCs, ControlAt
<1>4. ASSUME NEW name \in Names, NEW kind \in Kinds,
             Start(c, [op |-> "clear", name |-> name, kind |-> kind], "count")
      PROVE  /\ TypeOK' /\ ControlAt(c)'
             /\ \A d \in Clients : d # c => Untouched(d)
  BY <1>1, <1>4 DEF CallTypes, PCs, ControlAt
<1>5. ASSUME NEW iface \in Selections,
             Start(c, [op |-> "clearInterface", iface |-> iface], "clearInterface")
      PROVE  /\ TypeOK' /\ ControlAt(c)'
             /\ \A d \in Clients : d # c => Untouched(d)
  BY <1>1, <1>5 DEF CallTypes, PCs, ControlAt
<1>6. ASSUME NEW name \in Names, NEW kind \in Kinds, NEW try \in BOOLEAN, NEW op,
             \/ op = "addAnchor" /\ Start(c, [op |-> op, name |-> name, kind |-> kind, try |-> try],
                                          "insert")
             \/ op = "removeAnchor" /\ Start(c, [op |-> op, name |-> name, kind |-> kind, try |-> try],
                                             "rules")
      PROVE  /\ TypeOK' /\ ControlAt(c)'
             /\ \A d \in Clients : d # c => Untouched(d)
  <2> DEFINE request == [op |-> op, name |-> name, kind |-> kind, try |-> try]
  <2>1. request \in CallTypes
    <3>1. request \in [op : {"addAnchor", "removeAnchor"}, name : Names, kind : Kinds, try : BOOLEAN]
      BY <1>6, Zenon
    <3> QED BY <3>1, Zenon DEF CallTypes
  <2>2. request.op = op
    OBVIOUS
  <2> HIDE DEF request
  <2>3. CASE op = "addAnchor" /\ Start(c, request, "insert")
    BY <1>1, <2>1, <2>2, <2>3 DEF PCs, ControlAt
  <2>4. CASE op = "removeAnchor" /\ Start(c, request, "rules")
    BY <1>1, <2>1, <2>2, <2>4 DEF PCs, ControlAt
  <2> QED BY <1>6, <2>3, <2>4 DEF request
<1> QED BY <1>2, <1>3, <1>4, <1>5, <1>6 DEF StartCall

LEMMA StepInsideCorrect ==
  ASSUME Controlled, NEW c \in Clients, StepInside(c)
  PROVE  /\ TypeOK' /\ ControlAt(c)'
         /\ \A d \in Clients : d # c => Untouched(d)
<1> USE DEF Controlled
<1>1. CASE CountStates(c) /\ table # {}
  <2>1. /\ num' = [num EXCEPT ![c] = Cardinality(table)] /\ pc' = [pc EXCEPT ![c] = "fetch"]
        /\ UNCHANGED <<kernelVars, call, buf, index, count, todo, total, known, result, reported,
                       calls, removed, present, moved>>
    BY <1>1 DEF CountStates, Goto
  <2>2. num' \in [Clients -> Nat] /\ pc' \in [Clients -> PCs]
    BY <2>1, TableFinite DEF TypeOK, PCs
  <2>3. TypeOK'
    BY <2>1, <2>2 DEF TypeOK, kernelVars
  <2> QED BY <1>1, <2>1, <2>3 DEF TypeOK, ControlAt, CountStates, Untouched
<1>2. CASE FetchStates(c) /\ call[c].op = "clear"
  <2>1. /\ buf' = [buf EXCEPT ![c] = Export(num[c])] /\ num' = [num EXCEPT ![c] = 0]
        /\ pc' = [pc EXCEPT ![c] = "rules"]
        /\ UNCHANGED <<kernelVars, call, index, count, todo, total, known, result, reported,
                       calls, removed, present, moved>>
    BY <1>2 DEF FetchStates, Goto
  <2>2. Export(num[c]) \in Seq(Slots)
    BY ExportType DEF TypeOK
  <2>3. num' \in [Clients -> Nat] /\ pc' \in [Clients -> PCs] /\ buf' \in [Clients -> Seq(Slots)]
    BY <2>1, <2>2 DEF TypeOK, PCs
  <2>4. TypeOK'
    BY <2>1, <2>3 DEF TypeOK, kernelVars
  <2> QED BY <1>2, <2>1, <2>4 DEF TypeOK, ControlAt, Untouched
<1>3. CASE GetRules(c)
  <2>1. call[c].op \in {"clear", "removeAnchor"}
    BY <1>3 DEF GetRules, ControlAt
  <2>2. AnchorsOf(c) \in Seq(Names)
    BY <2>1, Requests DEF AnchorsOf, TypeOK
  <2>3. /\ count' = [count EXCEPT ![c] = Len(AnchorsOf(c))] /\ index' = [index EXCEPT ![c] = 0]
        /\ pc' = [pc EXCEPT ![c] = "rule"]
        /\ UNCHANGED <<kernelVars, call, num, buf, todo, total, known, result, reported, calls,
                       removed, present, moved>>
    BY <1>3 DEF GetRules, Goto, historyVars
  <2>4. count' \in [Clients -> Nat] /\ index' \in [Clients -> Nat] /\ pc' \in [Clients -> PCs]
    BY <2>2, <2>3 DEF TypeOK, PCs
  <2>5. TypeOK'
    BY <2>3, <2>4 DEF TypeOK, kernelVars
  <2> QED BY <2>1, <2>3, <2>5 DEF TypeOK, ControlAt, Untouched
<1>4. CASE GetRule(c)
  <2>1. /\ \/ index' = [index EXCEPT ![c] = @ + 1] /\ UNCHANGED <<pc, todo>>
           \/ /\ todo' = [todo EXCEPT ![c] = StatesOfRule(c)] /\ pc' = [pc EXCEPT ![c] = "kill"]
              /\ call[c].op = "clear" /\ UNCHANGED index
           \/ /\ pc' = [pc EXCEPT ![c] = "delete"] /\ call[c].op = "removeAnchor"
              /\ UNCHANGED <<index, todo>>
        /\ UNCHANGED <<kernelVars, call, num, buf, count, total, known, result, reported, calls,
                       removed, present, moved>>
    BY <1>4 DEF GetRule, Goto, historyVars
  <2>2. StatesOfRule(c) \subseteq DOMAIN buf[c] /\ DOMAIN buf[c] \subseteq Nat
    BY DEF StatesOfRule, TypeOK
  <2>3. CASE index' = [index EXCEPT ![c] = @ + 1] /\ UNCHANGED <<pc, todo>>
    <3>1. index' \in [Clients -> Nat]
      BY <2>3 DEF TypeOK
    <3>2. TypeOK'
      BY <2>1, <2>3, <3>1 DEF TypeOK, kernelVars
    <3> QED BY <2>1, <2>3, <3>2 DEF TypeOK, ControlAt, Untouched
  <2>4. CASE /\ todo' = [todo EXCEPT ![c] = StatesOfRule(c)] /\ pc' = [pc EXCEPT ![c] = "kill"]
             /\ call[c].op = "clear" /\ UNCHANGED index
    <3>1. todo' \in [Clients -> SUBSET Nat] /\ pc' \in [Clients -> PCs]
      BY <2>2, <2>4 DEF TypeOK, PCs
    <3>2. TypeOK'
      BY <2>1, <2>4, <3>1 DEF TypeOK, kernelVars
    <3> QED BY <2>1, <2>2, <2>4, <3>2 DEF TypeOK, ControlAt, Untouched
  <2>5. CASE /\ pc' = [pc EXCEPT ![c] = "delete"] /\ call[c].op = "removeAnchor"
             /\ UNCHANGED <<index, todo>>
    <3>1. pc' \in [Clients -> PCs]
      BY <2>5 DEF TypeOK, PCs
    <3>2. TypeOK'
      BY <2>1, <2>5, <3>1 DEF TypeOK, kernelVars
    <3> QED BY <2>1, <2>5, <3>2 DEF TypeOK, ControlAt, Untouched
  <2> QED BY <2>1, <2>3, <2>4, <2>5
<1>5. CASE KillNext(c)
  <2>1. PICK i \in todo[c] :
          /\ table' = table \ Victims(buf[c][i])
          /\ removed' = [removed EXCEPT ![c] = @ \cup Victims(buf[c][i])]
          /\ total' = [total EXCEPT ![c] = @ + Returned(Cardinality(Victims(buf[c][i])))]
          /\ todo' = [todo EXCEPT ![c] = @ \ {i}]
          /\ UNCHANGED <<created, anchors, pc, call, num, buf, index, count, known, result,
                         reported, calls, present, moved>>
    BY <1>5 DEF KillNext
  <2> DEFINE gone == Victims(buf[c][i])
  <2>2. gone \subseteq Flows /\ Returned(Cardinality(gone)) \in Nat
    BY VictimsType, ReturnedType
  <2> HIDE DEF gone
  <2>3. removed' \in [Clients -> SUBSET Flows] /\ total' \in [Clients -> Nat]
        /\ todo' \in [Clients -> SUBSET Nat]
    BY <2>1, <2>2 DEF TypeOK, gone
  <2>4. TypeOK'
    BY <2>1, <2>3 DEF TypeOK
  <2> QED BY <2>1, <2>4 DEF TypeOK, ControlAt, Untouched
<1> QED BY <1>1, <1>2, <1>3, <1>4, <1>5 DEF StepInside

LEMMA KernelStepCorrect ==
  ASSUME Controlled, \/ \E f \in Flows : Traffic(f)
                     \/ \E f \in table : Expire(f)
  PROVE  TypeOK' /\ TableStep /\ \A d \in Clients : Untouched(d)
<1>1. ASSUME NEW f \in Flows, Traffic(f)
      PROVE  TypeOK' /\ TableStep /\ \A d \in Clients : Untouched(d)
  <2>1. /\ f \in Flows \ Range(created)
        /\ table' = table \cup {f} /\ created' = Append(created, f)
        /\ UNCHANGED <<anchors, pc, call, localVars, known, result, reported, calls, historyVars>>
    BY <1>1 DEF Traffic
  <2>2. created' \in Seq(Flows) /\ Len(created') = Len(created) + 1
    BY <2>1 DEF Controlled, TypeOK
  <2>3. \A i \in 1..Len(created') : created'[i] = IF i <= Len(created) THEN created[i] ELSE f
    <3>1. created \in Seq(Flows)
      BY DEF Controlled, TypeOK
    <3>2. \A i \in 1..(Len(created) + 1) : Append(created, f)[i] = IF i <= Len(created) THEN created[i] ELSE f
      BY <3>1
    <3> QED BY <2>1, <2>2, <3>2
  <2>4. \A i \in 1..Len(created) : created[i] # f
    BY <2>1 DEF Range, Controlled, TypeOK
  <2>5. Len(created) \in Nat /\ DOMAIN created = 1..Len(created) /\ DOMAIN created' = 1..Len(created')
    BY <2>2 DEF Controlled, TypeOK
  <2>6. IsInjective(created')
    BY <2>2, <2>3, <2>4, <2>5 DEF IsInjective, Controlled, TypeOK
  <2>7. Range(created) \cup {f} \subseteq Range(created')
    BY <2>2, <2>3, <2>5 DEF Range
  <2>8. table' \subseteq Range(created')
    BY <2>1, <2>7 DEF Controlled, TypeOK
  <2>9. TypeOK'
    BY <2>1, <2>2, <2>6, <2>8 DEF Controlled, TypeOK, localVars, historyVars
  <2> QED BY <2>1, <2>9 DEF TableStep, Untouched, localVars, historyVars
<1>2. ASSUME NEW f \in table, Expire(f)
      PROVE  TypeOK' /\ TableStep /\ \A d \in Clients : Untouched(d)
  BY <1>2 DEF Expire, Controlled, TypeOK, TableStep, Untouched, localVars, historyVars
<1> QED BY <1>1, <1>2

LEMMA StepCorrect ==
  ASSUME Controlled, NEW c \in Clients, StartCall(c) \/ Step(c) \/ IoctlFails(c)
  PROVE  /\ TypeOK' /\ ControlAt(c)'
         /\ \A d \in Clients : d # c => Untouched(d)
BY StartCorrect, StepKinds, ReturnStepReturns, ReturnsCorrect, StepInsideCorrect DEF Controlled

LEMMA ControlFrame ==
  ASSUME NEW d, ControlAt(d), Untouched(d)
  PROVE  ControlAt(d)'
BY DEF ControlAt, Untouched

LEMMA InitCorrect == Init => Controlled
<1> SUFFICES ASSUME Init
             PROVE  Controlled
  OBVIOUS
<1>1. Range(InitialTable) \subseteq Flows
  BY InitialAssumption DEF Range
<1>2. NoCall \in CallTypes /\ "idle" \in PCs /\ "none" \in Results /\ <<>> \in Seq(Slots)
  BY DEF CallTypes, PCs, Results
<1>3. \A c \in Clients : 0 <= MaxCalls[c]
  BY OperationsAssumption
<1>4. TypeOK
  BY <1>1, <1>2, <1>3, InitialAssumption DEF Init, TypeOK
<1>5. \A c \in Clients : ControlAt(c)
  BY DEF Init, ControlAt
<1> QED BY <1>4, <1>5 DEF Controlled

LEMMA NextCorrect == Controlled /\ [Next]_vars => Controlled'
<1> SUFFICES ASSUME Controlled, [Next]_vars
             PROVE  Controlled'
  OBVIOUS
<1>1. ASSUME NEW c \in Clients, StartCall(c) \/ Step(c) \/ IoctlFails(c)
      PROVE  Controlled'
  BY <1>1, StepCorrect, ControlFrame DEF Controlled
<1>2. CASE (\E f \in Flows : Traffic(f)) \/ (\E f \in table : Expire(f))
  BY <1>2, KernelStepCorrect, ControlFrame DEF Controlled
<1>3. CASE UNCHANGED vars
  BY <1>3 DEF vars, kernelVars, localVars, historyVars, Controlled, TypeOK, ControlAt
<1> QED BY <1>1, <1>2, <1>3 DEF Next

\* Every reachable state of the calls on states and anchor rules is well typed, and
\* a call's position says which call it is: the lookup of an anchor rule, which two
\* calls share, goes on as the call that started it (PfCtl::with_anchor_rule).
THEOREM TypeCorrect == Spec => []TypeOK
<1>1. Controlled => TypeOK
  BY DEF Controlled
<1> QED BY <1>1, InitCorrect, NextCorrect, PTL DEF Spec
=============================================================================
