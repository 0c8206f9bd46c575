--------------------------- MODULE PfDeviceProofs ---------------------------
(***************************************************************************)
(* Proofs about PfDevice: type correctness, what get_interfaces returns,   *)
(* and what the calls on the switch of the firewall answer.                *)
(***************************************************************************)
EXTENDS PfDevice, FiniteSetTheorems, TLAPS

-----------------------------------------------------------------------------
(* Numbers and sets. *)

LEMMA MinOfTwo ==
  ASSUME NEW m \in Nat, NEW n \in Nat
  PROVE  Min({m, n}) = IF m <= n THEN m ELSE n
<1> DEFINE least == IF m <= n THEN m ELSE n
<1>1. least \in {m, n} /\ \A y \in {m, n} : least <= y
  OBVIOUS
<1>2. Min({m, n}) \in {m, n} /\ \A y \in {m, n} : Min({m, n}) <= y
  BY <1>1 DEF Min
<1> QED BY <1>1, <1>2

LEMMA MaxOfTwo ==
  ASSUME NEW m \in Int, NEW n \in Int
  PROVE  Max({m, n}) = IF m >= n THEN m ELSE n
<1> DEFINE largest == IF m >= n THEN m ELSE n
<1>1. largest \in {m, n} /\ \A y \in {m, n} : largest >= y
  OBVIOUS
<1>2. Max({m, n}) \in {m, n} /\ \A y \in {m, n} : Max({m, n}) >= y
  BY <1>1 DEF Max
<1> QED BY <1>1, <1>2

LEMMA MaxOfZero == ASSUME NEW n, n = 0 PROVE Max({n, 0}) = 0
<1>1. Max({0, 0}) = 0
  BY MaxOfTwo
<1> QED BY <1>1

\* What matches a request is a finite set of entries.
LEMMA MatchingType ==
  ASSUME TypeOK, NEW on
  PROVE  /\ Matching(on) \in SUBSET Entries /\ IsFiniteSet(Matching(on))
         /\ Cardinality(Matching(on)) \in Nat
<1>1. Selected(on) \subseteq Interfaces
  BY DEF Selected, TypeOK
<1>2. IsFiniteSet(Selected(on))
  BY <1>1, InterfacesAssumption, FS_Subset
<1> DEFINE f == [i \in Selected(on) |-> [name |-> i, skip |-> i \in skip]]
<1>3. f \in Surjection(Selected(on), Matching(on))
  BY DEF Surjection, Matching
<1>4. IsFiniteSet(Matching(on))
  BY <1>2, <1>3, FS_Surjection
<1>5. Matching(on) \in SUBSET Entries
  <2> SUFFICES ASSUME NEW i \in Interfaces
               PROVE  [name |-> i, skip |-> i \in skip] \in Entries
    BY <1>1 DEF Matching
  <2>1. (i \in skip) \in BOOLEAN
    OBVIOUS
  <2> QED BY <2>1, Zenon DEF Entries
<1> QED BY <1>4, <1>5, FS_CardinalityType

-----------------------------------------------------------------------------
(* Type correctness and control. *)

LEMMA Frame ==
  ASSUME NEW d \in Clients, ControlAt(d), BufferAt(d),
         pc'[d] = pc[d], call'[d] = call[d], capacity'[d] = capacity[d], buf'[d] = buf[d],
         size'[d] = size[d], retry'[d] = retry[d], seen'[d] = seen[d], most'[d] = most[d]
  PROVE  ControlAt(d)' /\ BufferAt(d)'
BY DEF ControlAt, BufferAt

\* Every call that ends leaves a typed, idle client.
LEMMA ReturnTyped ==
  ASSUME TypeOK, NEW c \in Clients, Return(c, result'[c]),
         result'[c] \in {"ok", "on", "off", "StateAlreadyActive", "InvalidInterfaceName", "Ioctl"}
  PROVE  /\ pc' \in [Clients -> {"idle", "switch", "flags", "fetch", "check"}]
         /\ call' \in [Clients -> Requests \cup {NoCall}]
         /\ result' \in [Clients -> {"none", "ok", "on", "off", "StateAlreadyActive",
                                     "InvalidInterfaceName", "Ioctl"}]
         /\ calls' \in [Clients -> 0 .. MaxCalls]
         /\ pc'[c] = "idle" /\ call'[c] = NoCall
         /\ \A d \in Clients \ {c} : pc'[d] = pc[d] /\ call'[d] = call[d] /\ result'[d] = result[d]
BY DEF TypeOK, Return

\* The steps of a client change nothing of another one.
LEMMA Others ==
  ASSUME TypeOK, NEW c \in Clients,
         Step(c) \/ \E request \in Requests : StartCall(c, request),
         NEW d \in Clients \ {c}
  PROVE  /\ pc'[d] = pc[d] /\ call'[d] = call[d] /\ capacity'[d] = capacity[d]
         /\ buf'[d] = buf[d] /\ blank'[d] = blank[d] /\ size'[d] = size[d]
         /\ retry'[d] = retry[d] /\ seen'[d] = seen[d] /\ most'[d] = most[d]
         /\ result'[d] = result[d]
BY DEF TypeOK, Step, StartCall, Enable, Disable, IsEnabled, ChangeFlags, FetchInterfaces,
       Retry, Finish, IoctlFails, Fails, Return, bufferVars, answerVars

LEMMA SwitchTyped ==
  ASSUME TypeOK, NEW c \in Clients, ControlAt(c), Enable(c) \/ Disable(c) \/ IsEnabled(c)
  PROVE  TypeOK' /\ ControlAt(c)'
<1>1. /\ Return(c, result'[c])
      /\ result'[c] \in {"ok", "on", "off", "StateAlreadyActive", "Ioctl"}
      /\ running' \in BOOLEAN /\ errno' \in [Clients -> {"none", "EEXIST", "ENOENT", "EIO"}]
      /\ UNCHANGED <<present, skip, bufferVars>>
  BY DEF TypeOK, Enable, Disable, IsEnabled, Fails, Return, Ignoring, Guarded, OffAlready,
         systemVars
<1> QED BY <1>1, ReturnTyped DEF TypeOK, ControlAt, bufferVars, NoCall, SwitchOperations

LEMMA ChangeFlagsTyped ==
  ASSUME TypeOK, NEW c \in Clients, ControlAt(c), ChangeFlags(c)
  PROVE  TypeOK' /\ ControlAt(c)'
<1>1. /\ Return(c, result'[c]) /\ result'[c] = "ok"
      /\ UNCHANGED <<running, present, bufferVars, errno>>
  BY DEF TypeOK, ChangeFlags, Return
<1>2. skip' \subseteq present
  BY DEF TypeOK, ChangeFlags, Selected
<1> QED BY <1>1, <1>2, ReturnTyped DEF TypeOK, ControlAt, bufferVars, NoCall, SwitchOperations

LEMMA IoctlFailsTyped ==
  ASSUME TypeOK, NEW c \in Clients, ControlAt(c), IoctlFails(c)
  PROVE  TypeOK' /\ ControlAt(c)'
<1>1. /\ Return(c, result'[c]) /\ result'[c] = "Ioctl"
      /\ errno' \in [Clients -> {"none", "EEXIST", "ENOENT", "EIO"}]
      /\ UNCHANGED <<systemVars, bufferVars>>
  BY DEF TypeOK, IoctlFails, Fails, Return, Guarded, OffAlready
<1> QED BY <1>1, ReturnTyped
        DEF TypeOK, ControlAt, systemVars, bufferVars, NoCall, SwitchOperations

LEMMA StartTyped ==
  ASSUME TypeOK, NEW c \in Clients, ControlAt(c), NEW request \in Requests,
         StartCall(c, request)
  PROVE  TypeOK' /\ ControlAt(c)'
<1> DEFINE point == CASE request.op = "get" -> "fetch"
                      [] request.op \in {"set", "clear"} -> "flags"
                      [] request.op \in SwitchOperations -> "switch"
<1>1. request.op \in InterfaceOperations \cup SwitchOperations
  BY DEF Requests, InterfaceOperations, SwitchOperations
<1>2. point \in {"switch", "flags", "fetch"}
  BY <1>1 DEF InterfaceOperations, SwitchOperations
<1>3. /\ pc' \in [Clients -> {"idle", "switch", "flags", "fetch", "check"}]
      /\ call' \in [Clients -> Requests \cup {NoCall}]
      /\ result' \in [Clients -> {"none", "ok", "on", "off", "StateAlreadyActive",
                                  "InvalidInterfaceName", "Ioctl"}]
  <2>1. pc' \in {pc, [pc EXCEPT ![c] = point]} /\ call' \in {call, [call EXCEPT ![c] = request]}
        /\ result' \in {[result EXCEPT ![c] = "none"], [result EXCEPT ![c] = "InvalidInterfaceName"]}
    BY DEF StartCall
  <2> HIDE DEF point
  <2> QED BY <2>1, <1>2 DEF TypeOK
<1>4. /\ calls' \in [Clients -> 0 .. MaxCalls]
      /\ errno' \in [Clients -> {"none", "EEXIST", "ENOENT", "EIO"}]
      /\ capacity' \in [Clients -> Nat] /\ blank' \in [Clients -> Nat]
      /\ size' \in [Clients -> Nat] /\ most' \in [Clients -> Nat]
      /\ retry' \in [Clients -> 0 .. MaxRetries] /\ retry'[c] = 0
      /\ UNCHANGED systemVars
  BY InterfacesAssumption DEF TypeOK, StartCall
<1>5. buf' \in [Clients -> SUBSET Entries] /\ seen' \in [Clients -> SUBSET Entries]
  BY DEF TypeOK, StartCall
<1>6. TypeOK'
  BY <1>3, <1>4, <1>5 DEF TypeOK, systemVars
<1>7. ControlAt(c)'
  <2>1. CASE request.op \in InterfaceOperations /\ request.on = LongName
    BY <2>1, <1>4, InterfacesAssumption DEF StartCall, ControlAt
  <2>2. CASE ~(request.op \in InterfaceOperations /\ request.on = LongName)
    <3>1. pc'[c] = point /\ call'[c] = request
      BY <2>2 DEF StartCall, TypeOK
    <3> QED BY <3>1, <1>1, <1>4, InterfacesAssumption
            DEF ControlAt, InterfaceOperations, SwitchOperations
  <2> QED BY <2>1, <2>2
<1> QED BY <1>6, <1>7

-----------------------------------------------------------------------------
(* The loop of get_interfaces. *)

\* What one ioctl leaves in the buffer, and what is known of it.
LEMMA FetchTyped ==
  ASSUME TypeOK, NEW c \in Clients, ControlAt(c), BufferAt(c), FetchInterfaces(c)
  PROVE  TypeOK' /\ ControlAt(c)' /\ BufferAt(c)'
<1> DEFINE matching == Matching(call[c].on)
           written == Min({capacity[c], Cardinality(matching)})
<1>1. matching \in SUBSET Entries /\ IsFiniteSet(matching) /\ Cardinality(matching) \in Nat
  BY MatchingType
<1>2. capacity[c] \in Nat /\ most[c] \in Nat /\ Cardinality(seen[c]) \in Nat
  BY FS_CardinalityType DEF TypeOK, BufferAt
<1>3. written \in Nat /\ written <= capacity[c]
  BY <1>1, <1>2, MinOfTwo
<1>4. Max({most[c], Cardinality(seen[c])}) \in Nat
      /\ (Max({most[c], Cardinality(seen[c])}) <= capacity[c])
  BY <1>2, MaxOfTwo DEF BufferAt, FetchInterfaces
<1>5. PICK entries \in kSubset(written, matching) : buf' = [buf EXCEPT ![c] = entries]
  BY DEF FetchInterfaces
<1>6. entries \subseteq matching /\ Cardinality(entries) = written
  BY <1>5 DEF kSubset
<1>7. /\ pc' = [pc EXCEPT ![c] = "check"]
      /\ blank' = [blank EXCEPT ![c] = capacity[c] - written]
      /\ size' = [size EXCEPT ![c] = Cardinality(matching)]
      /\ most' = [most EXCEPT ![c] = Max({@, Cardinality(seen[c])})]
      /\ seen' = [seen EXCEPT ![c] = matching]
      /\ UNCHANGED <<systemVars, call, capacity, retry, answerVars, calls>>
  BY DEF FetchInterfaces
<1> HIDE DEF matching, written
<1>8. TypeOK'
  <2>1. buf' \in [Clients -> SUBSET Entries] /\ seen' \in [Clients -> SUBSET Entries]
    BY <1>1, <1>5, <1>6, <1>7 DEF TypeOK
  <2>2. capacity[c] - written \in Nat
    BY <1>2, <1>3
  <2>3. blank' \in [Clients -> Nat] /\ size' \in [Clients -> Nat] /\ most' \in [Clients -> Nat]
    BY <1>1, <1>4, <1>7, <2>2 DEF TypeOK
  <2> QED BY <1>7, <2>1, <2>3 DEF TypeOK, systemVars, answerVars
<1>9. ControlAt(c)'
  BY <1>7 DEF ControlAt, TypeOK, FetchInterfaces
<1>10. /\ pc'[c] = "check" /\ capacity'[c] = capacity[c] /\ buf'[c] = entries
       /\ most'[c] = Max({most[c], Cardinality(seen[c])})
       /\ seen'[c] = matching /\ size'[c] = Cardinality(matching)
  BY <1>5, <1>7 DEF TypeOK
<1>11. BufferAt(c)'
  <2>1. capacity[c] >= InitialCapacity
    BY DEF BufferAt, FetchInterfaces
  <2>2. Cardinality(entries) = Min({capacity'[c], size'[c]})
    BY <1>6, <1>10 DEF written
  <2> QED BY <1>1, <1>2, <1>4, <1>6, <1>10, <2>1, <2>2 DEF BufferAt
<1> QED BY <1>8, <1>9, <1>11

LEMMA RetryTyped ==
  ASSUME TypeOK, NEW c \in Clients, ControlAt(c), BufferAt(c), Retry(c)
  PROVE  TypeOK' /\ ControlAt(c)' /\ BufferAt(c)'
<1>1. /\ pc[c] = "check" /\ retry[c] + 1 < MaxRetries /\ size[c] > capacity[c]
      /\ capacity[c] \in Nat /\ size[c] \in Nat /\ most[c] \in Nat
      /\ InitialCapacity \in Nat /\ MaxRetries \in Nat /\ retry[c] \in 0 .. MaxRetries
  BY InterfacesAssumption DEF Retry, TypeOK
<1>2. /\ pc'[c] = "fetch" /\ capacity'[c] = size[c] /\ retry'[c] = retry[c] + 1
      /\ seen'[c] = seen[c] /\ most'[c] = most[c] /\ call'[c] = call[c]
  BY DEF Retry, TypeOK
<1>3. TypeOK'
  <2>1. retry[c] + 1 \in 0 .. MaxRetries
    BY <1>1
  <2>2. retry' \in [Clients -> 0 .. MaxRetries]
    BY <2>1 DEF Retry, TypeOK
  <2>3. /\ pc' \in [Clients -> {"idle", "switch", "flags", "fetch", "check"}]
        /\ capacity' \in [Clients -> Nat] /\ blank' \in [Clients -> Nat]
        /\ buf' \in [Clients -> SUBSET Entries]
    BY DEF Retry, TypeOK
  <2> QED BY <2>2, <2>3 DEF Retry, TypeOK, systemVars, answerVars
<1>4. ControlAt(c)'
  BY <1>1, <1>2 DEF ControlAt
<1>5. BufferAt(c)'
  BY <1>1, <1>2 DEF BufferAt
<1> QED BY <1>3, <1>4, <1>5

LEMMA FinishTyped ==
  ASSUME TypeOK, NEW c \in Clients, ControlAt(c), BufferAt(c), Finish(c)
  PROVE  TypeOK' /\ ControlAt(c)'
<1>1. /\ pc[c] = "check" /\ capacity[c] \in Nat /\ size[c] \in Nat
      /\ MaxRetries \in Nat /\ retry[c] \in 0 .. MaxRetries
  BY InterfacesAssumption DEF Finish, TypeOK
<1>2. retry[c] + 1 \in 0 .. MaxRetries
  BY <1>1 DEF ControlAt
<1>3. Max({Min({capacity[c], size[c]}) - Cardinality(buf[c]), 0}) = 0
  <2>1. Min({capacity[c], size[c]}) \in Nat
    BY <1>1, MinOfTwo
  <2>2. Min({capacity[c], size[c]}) - Cardinality(buf[c]) = 0
    BY <1>1, <2>1 DEF BufferAt
  <2> QED BY <2>2, MaxOfZero
<1>4. blank' = [blank EXCEPT ![c] = 0]
  BY <1>3 DEF Finish
<1>5. retry' \in [Clients -> 0 .. MaxRetries] /\ blank' \in [Clients -> Nat]
  BY <1>2, <1>4 DEF Finish, TypeOK
<1>6. Return(c, result'[c]) /\ result'[c] \in {"ok", "InvalidInterfaceName"}
  BY DEF Finish, Return, Described, TypeOK
<1>7. TypeOK'
  BY <1>5, <1>6, ReturnTyped DEF Finish, TypeOK, systemVars
<1>8. ControlAt(c)'
  BY <1>6, ReturnTyped DEF ControlAt, NoCall, SwitchOperations
<1> QED BY <1>7, <1>8

-----------------------------------------------------------------------------
(* The inductive invariant. *)

ListAt(c) == Listed(c) => blank[c] = 0 /\ buf[c] \subseteq seen[c]
CompleteAt(c) ==
  Listed(c) => \/ buf[c] = seen[c]
               \/ Cardinality(seen[c]) > Max({InitialCapacity, most[c]})
ClientInv(c) == ControlAt(c) /\ BufferAt(c) /\ ListAt(c) /\ CompleteAt(c)

LEMMA InvForm == IInv <=> TypeOK /\ \A c \in Clients : ClientInv(c)
BY DEF IInv, ClientInv, ListIsReal, CompleteUnlessOvertaken, ListAt, CompleteAt

\* A list is complete if the last buffer was large enough, and otherwise the last
\* ioctl saw more than all before it.
LEMMA FinishComplete ==
  ASSUME TypeOK, NEW c \in Clients, BufferAt(c), Finish(c)
  PROVE  ListAt(c)' /\ CompleteAt(c)'
<1>1. /\ pc[c] = "check" /\ buf'[c] = buf[c] /\ seen'[c] = seen[c] /\ most'[c] = most[c]
      /\ capacity[c] \in Nat /\ size[c] \in Nat /\ most[c] \in Nat
  BY DEF Finish, TypeOK
<1>2. /\ IsFiniteSet(seen[c]) /\ buf[c] \subseteq seen[c] /\ size[c] = Cardinality(seen[c])
      /\ Cardinality(buf[c]) = Min({capacity[c], size[c]})
      /\ capacity[c] >= InitialCapacity /\ capacity[c] >= most[c]
  BY <1>1 DEF BufferAt
<1>3. ASSUME size[c] <= capacity[c] PROVE CompleteAt(c)'
  <2>1. Cardinality(buf[c]) = Cardinality(seen[c])
    BY <1>1, <1>2, <1>3, MinOfTwo
  <2>2. buf[c] = seen[c]
    BY <1>2, <2>1, FS_Subset
  <2> QED BY <1>1, <2>2 DEF CompleteAt
<1>4. ASSUME size[c] > capacity[c] PROVE CompleteAt(c)'
  <2>1. Cardinality(seen[c]) > Max({InitialCapacity, most[c]})
    BY <1>1, <1>2, <1>4, MaxOfTwo, InterfacesAssumption
  <2> QED BY <1>1, <2>1 DEF CompleteAt
<1>5. CompleteAt(c)'
  BY <1>1, <1>3, <1>4
<1>6. ListAt(c)'
  <2>1. Min({capacity[c], size[c]}) \in Nat
    BY <1>1, MinOfTwo
  <2>2. Max({Min({capacity[c], size[c]}) - Cardinality(buf[c]), 0}) = 0
    <3>1. Min({capacity[c], size[c]}) - Cardinality(buf[c]) = 0
      BY <1>2, <2>1
    <3> QED BY <3>1, MaxOfZero
  <2> QED BY <1>1, <1>2, <2>2 DEF ListAt, Finish, TypeOK
<1> QED BY <1>5, <1>6

LEMMA InitInv == Init => IInv
<1> SUFFICES ASSUME Init PROVE IInv
  OBVIOUS
<1>1. TypeOK
  BY InterfacesAssumption DEF Init, TypeOK
<1>2. ASSUME NEW c \in Clients PROVE ClientInv(c)
  <2>1. pc[c] = "idle" /\ call[c] = NoCall /\ seen[c] = {} /\ retry[c] = 0
    BY <1>2 DEF Init
  <2> QED BY <2>1, FS_EmptySet
          DEF ClientInv, ControlAt, BufferAt, ListAt, CompleteAt, Listed, NoCall, SwitchOperations
<1> QED BY <1>1, <1>2, InvForm

\* What one step of a client, or the start of a call, does to that client.
LEMMA ClientStep ==
  ASSUME IInv, NEW c \in Clients,
         Step(c) \/ \E request \in Requests : StartCall(c, request)
  PROVE  TypeOK' /\ ClientInv(c)'
<1>1. TypeOK /\ ControlAt(c) /\ BufferAt(c)
  BY InvForm DEF ClientInv
<1>2. ASSUME Return(c, result'[c]), result'[c] # "ok" \/ retry[c] = 0,
             UNCHANGED bufferVars, TypeOK', ControlAt(c)'
      PROVE  ClientInv(c)'
  <2>1. pc'[c] = "idle" /\ seen'[c] = seen[c] /\ ~Listed(c)'
    BY <1>1, <1>2 DEF Return, TypeOK, bufferVars, Listed
  <2> QED BY <1>1, <1>2, <2>1 DEF ClientInv, BufferAt, ListAt, CompleteAt
<1>3. CASE Enable(c) \/ Disable(c) \/ IsEnabled(c)
  <2>1. Return(c, result'[c]) /\ retry[c] = 0 /\ UNCHANGED bufferVars
    BY <1>1, <1>3 DEF Enable, Disable, IsEnabled, Fails, Return, ControlAt, TypeOK
  <2> QED BY <1>1, <1>2, <1>3, <2>1, SwitchTyped
<1>4. CASE ChangeFlags(c)
  <2>1. Return(c, result'[c]) /\ retry[c] = 0 /\ UNCHANGED bufferVars
    BY <1>1, <1>4 DEF ChangeFlags, Return, ControlAt, TypeOK
  <2> QED BY <1>1, <1>2, <1>4, <2>1, ChangeFlagsTyped
<1>5. CASE IoctlFails(c)
  <2>1. Return(c, result'[c]) /\ result'[c] = "Ioctl" /\ UNCHANGED bufferVars
    BY <1>1, <1>5 DEF IoctlFails, Fails, Guarded, OffAlready, Return, TypeOK
  <2> QED BY <1>1, <1>2, <1>5, <2>1, IoctlFailsTyped
<1>6. CASE FetchInterfaces(c)
  <2>1. ~Listed(c)'
    BY <1>1, <1>6 DEF FetchInterfaces, TypeOK, Listed
  <2> QED BY <1>1, <1>6, <2>1, FetchTyped DEF ClientInv, ListAt, CompleteAt
<1>7. CASE Retry(c)
  <2>1. ~Listed(c)'
    BY <1>1, <1>7 DEF Retry, TypeOK, Listed
  <2> QED BY <1>1, <1>7, <2>1, RetryTyped DEF ClientInv, ListAt, CompleteAt
<1>8. CASE Finish(c)
  <2>1. pc'[c] = "idle" /\ seen'[c] = seen[c]
    BY <1>1, <1>8 DEF Finish, Return, TypeOK
  <2>2. BufferAt(c)'
    BY <1>1, <2>1 DEF BufferAt
  <2> QED BY <1>1, <1>8, <2>2, FinishTyped, FinishComplete DEF ClientInv
<1>9. ASSUME NEW request \in Requests, StartCall(c, request) PROVE TypeOK' /\ ClientInv(c)'
  <2>1. /\ capacity'[c] = InitialCapacity /\ retry'[c] = 0 /\ seen'[c] = {} /\ most'[c] = 0
        /\ pc'[c] # "check"
    <3>1. request.op \in InterfaceOperations \cup SwitchOperations
      BY DEF Requests, InterfaceOperations, SwitchOperations
    <3> QED BY <1>1, <1>9, <3>1
            DEF StartCall, TypeOK, ControlAt, InterfaceOperations, SwitchOperations
  <2>2. IsFiniteSet({}) /\ Cardinality({}) = 0
    BY FS_EmptySet
  <2>3. BufferAt(c)' /\ ~Listed(c)'
    BY <2>1, <2>2, InterfacesAssumption DEF BufferAt, Listed
  <2> QED BY <1>1, <1>9, <2>3, StartTyped DEF ClientInv, ListAt, CompleteAt
<1> QED BY <1>3, <1>4, <1>5, <1>6, <1>7, <1>8, <1>9 DEF Step

LEMMA InvStep == IInv /\ [Next]_vars => IInv'
<1> SUFFICES ASSUME IInv, [Next]_vars PROVE IInv'
  OBVIOUS
<1>0. TypeOK /\ \A c \in Clients : ClientInv(c)
  BY InvForm
<1>1. ASSUME Appear \/ Disappear \/ UNCHANGED vars PROVE IInv'
  <2>1. UNCHANGED <<pc, call, bufferVars, answerVars, calls>> /\ running' \in BOOLEAN
    BY <1>0, <1>1 DEF Appear, Disappear, vars, systemVars, TypeOK
  <2>2. skip' \subseteq present' /\ present' \subseteq Interfaces
    BY <1>0, <1>1 DEF Appear, Disappear, vars, systemVars, TypeOK
  <2>3. TypeOK'
    BY <1>0, <2>1, <2>2 DEF TypeOK, bufferVars, answerVars
  <2>4. \A c \in Clients : ClientInv(c)'
    BY <1>0, <2>1
       DEF ClientInv, ControlAt, BufferAt, ListAt, CompleteAt, Listed, bufferVars, answerVars
  <2> QED BY <2>3, <2>4
         DEF IInv, ClientInv, ListAt, CompleteAt, ListIsReal, CompleteUnlessOvertaken
<1>2. ASSUME NEW c \in Clients, Step(c) \/ \E request \in Requests : StartCall(c, request)
      PROVE  IInv'
  <2>1. TypeOK' /\ ClientInv(c)'
    BY <1>2, ClientStep
  <2>2. ASSUME NEW d \in Clients \ {c} PROVE ClientInv(d)'
    BY <1>0, <1>2, <2>2, Others, Frame DEF ClientInv, ListAt, CompleteAt, Listed
  <2> QED BY <2>1, <2>2
         DEF IInv, ClientInv, ListAt, CompleteAt, ListIsReal, CompleteUnlessOvertaken
<1> QED BY <1>1, <1>2 DEF Next

-----------------------------------------------------------------------------
(* Theorems. *)

\* IInv is an invariant, whatever the interfaces do and whatever fails.
THEOREM Invariant == Spec => []IInv
<1>1. IInv /\ [Next]_vars => IInv'
  BY InvStep
<1> QED BY <1>1, InitInv, PTL DEF Spec

\* The calls on the device keep every variable well typed; the number of tries
\* of get_interfaces stays within MAX_RETRIES.
THEOREM TypeCorrect == Spec => []TypeOK
<1>1. IInv => TypeOK
  BY DEF IInv
<1> QED BY <1>1, Invariant, PTL

\* A list that get_interfaces returns has no zeroed entry and comes from one ioctl.
THEOREM ListsReal == Spec => []ListIsReal
<1>1. IInv => ListIsReal
  BY DEF IInv
<1> QED BY <1>1, Invariant, PTL

\* It is complete unless the last retry was overtaken, for any INITIAL_CAPACITY
\* and any positive MAX_RETRIES.
THEOREM ListsComplete == Spec => []CompleteUnlessOvertaken
<1>1. IInv => CompleteUnlessOvertaken
  BY DEF IInv
<1> QED BY <1>1, Invariant, PTL

-----------------------------------------------------------------------------
(* The switch. *)

LEMMA SwitchStep == IInv /\ [Next]_vars => \A c \in Clients : SwitchAnswer(c)
<1> SUFFICES ASSUME IInv, [Next]_vars, NEW c \in Clients,
                    pc[c] = "switch", pc'[c] = "idle", call[c].op # "isEnabled"
             PROVE  SwitchAnswer(c)
  BY DEF SwitchAnswer
<1>0. TypeOK /\ ControlAt(c)
  BY InvForm DEF ClientInv
<1>1. call[c].op \in {"enable", "disable"} /\ call[c].try \in BOOLEAN /\ running \in BOOLEAN
  <2>1. call[c] \in Requests \cup {NoCall} /\ call[c].op \in {"enable", "disable"}
    BY <1>0 DEF TypeOK, ControlAt, SwitchOperations
  <2> QED BY <1>0, <2>1 DEF Requests, NoCall, InterfaceOperations, TypeOK
<1>2. Step(c)
  <2>1. pc' # pc
    OBVIOUS
  <2>2. ~(Appear \/ Disappear \/ UNCHANGED vars)
    BY <2>1 DEF Appear, Disappear, vars
  <2>3. PICK d \in Clients : Step(d) \/ \E request \in Requests : StartCall(d, request)
    BY <2>2 DEF Next
  <2>4. d = c
    BY <1>0, <2>3, Others
  <2>5. ~\E request \in Requests : StartCall(c, request)
    BY DEF StartCall
  <2> QED BY <2>3, <2>4, <2>5
<1>3. Enable(c) \/ Disable(c) \/ IoctlFails(c)
  BY <1>2 DEF Step, IsEnabled, ChangeFlags, FetchInterfaces, Retry, Finish
<1>4. CASE Enable(c)
  BY <1>0, <1>1, <1>4 DEF Enable, Fails, Return, Ignoring, Guarded, SwitchAnswer, TypeOK
<1>5. CASE Disable(c)
  BY <1>0, <1>1, <1>5
     DEF Disable, Fails, Return, Ignoring, Guarded, OffAlready, SwitchAnswer, TypeOK
<1>6. CASE IoctlFails(c)
  BY <1>0, <1>1, <1>6
     DEF IoctlFails, Fails, Return, Guarded, OffAlready, SwitchAnswer, TypeOK, systemVars
<1> QED BY <1>3, <1>4, <1>5, <1>6

\* Each strict call hears exactly whether it changed the switch, a try_ call never
\* that it did not, and neither fails unless its ioctl did.
THEOREM AnswersRight == Spec => SwitchAnswers
<1>1. IInv /\ [Next]_vars => [\A c \in Clients : SwitchAnswer(c)]_vars
  BY SwitchStep
<1>2. Spec => [][\A c \in Clients : SwitchAnswer(c)]_vars
  BY <1>1, Invariant, PTL DEF Spec
<1> QED BY <1>2 DEF SwitchAnswers
=============================================================================
