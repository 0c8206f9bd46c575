------------------------------ MODULE PfDevice ------------------------------
(***************************************************************************)
(* The calls of PfCtl (src/src/lib.rs) on the switch of the firewall       *)
(* (enable, disable, their try_ variants and is_enabled) and on its        *)
(* interfaces (get_interfaces, set_interface_flag, clear_interface_flag),  *)
(* while interfaces come and go.                                           *)
(*                                                                         *)
(* get_interfaces guesses how large its buffer must be, and asks again     *)
(* when the guess was too low.  Nothing keeps the interfaces the same in   *)
(* between.  The kernel's side is external to the repository.              *)
(***************************************************************************)
EXTENDS Integers, FiniteSets, FiniteSetsExt

CONSTANTS
  Clients,
  Interfaces,      \* the interfaces the system can have, and those among them whose
  Unreadable,      \*   name is not UTF-8 or not terminated
  InitialPresent,  \* those it has when the clients start
  InitialCapacity, \* INITIAL_CAPACITY: 30 in the code
  MaxRetries,      \* MAX_RETRIES: 2 in the code
  FaultsPossible,
  MaxCalls         \* bound: the calls each client issues

AnyInterface == "any"
LongName == "long"  \* a name that does not fit pfiio_name
\* What a client can ask for; its names are texts.
Selections == {AnyInterface, LongName} \cup (Interfaces \ Unreadable)
InterfaceOperations == {"get", "set", "clear"}
SwitchOperations == {"enable", "disable", "isEnabled"}
Requests == [op : InterfaceOperations, on : Selections]
            \cup [op : {"enable", "disable"}, try : BOOLEAN] \cup [op : {"isEnabled"}]
Entries == [name : Interfaces, skip : BOOLEAN]

ASSUME InterfacesAssumption ==
  /\ IsFiniteSet(Interfaces) /\ InitialPresent \subseteq Interfaces
  /\ Unreadable \subseteq Interfaces
  /\ Interfaces \cap {AnyInterface, LongName} = {}
  /\ InitialCapacity \in Nat /\ MaxRetries \in Nat \ {0} /\ FaultsPossible \in BOOLEAN
  /\ MaxCalls \in Nat

VARIABLES
  running,   \* whether the firewall is on
  present,   \* the interfaces of the system,
  skip,      \*   and those with PFI_IFLAG_SKIP among them
  pc,
  call,
  capacity,  \* buf.len()
  buf,       \* the entries the last DIOCIGETIFACES wrote, and
  blank,     \*   how many slots after them are zeros
  size,      \* pfiio_size: what it said
  retry,
  errno,     \* of the last ioctl of the call that failed, or "none"
  result,    \* what the last call returned: "none", "ok", the kind of its error,
             \*   or the answer of is_enabled
  calls,
  seen,      \* history: the entries that matched at the last DIOCIGETIFACES of the call
  most       \* history: how many matched at most in the ones before it

systemVars == <<running, present, skip>>
bufferVars == <<capacity, buf, blank, size, retry, seen, most>>
answerVars == <<errno, result>>
vars == <<systemVars, pc, call, bufferVars, answerVars, calls>>

NoCall == [op |-> "none"]

TypeOK ==
  /\ skip \subseteq present /\ present \subseteq Interfaces
  /\ pc \in [Clients -> {"idle", "switch", "flags", "fetch", "check"}]
  /\ running \in BOOLEAN
  /\ call \in [Clients -> Requests \cup {NoCall}]
  /\ capacity \in [Clients -> Nat] /\ blank \in [Clients -> Nat]
  /\ buf \in [Clients -> SUBSET Entries] /\ seen \in [Clients -> SUBSET Entries]
  /\ size \in [Clients -> Nat] /\ retry \in [Clients -> 0 .. MaxRetries]
  /\ most \in [Clients -> Nat] /\ calls \in [Clients -> 0 .. MaxCalls]
  /\ errno \in [Clients -> {"none", "EEXIST", "ENOENT", "EIO"}]
  /\ result \in [Clients -> {"none", "ok", "on", "off", "StateAlreadyActive",
                             "InvalidInterfaceName", "Ioctl"}]

Init ==
  /\ running \in BOOLEAN /\ present = InitialPresent /\ skip = {}
  /\ pc = [c \in Clients |-> "idle"] /\ call = [c \in Clients |-> NoCall]
  /\ capacity = [c \in Clients |-> 0] /\ blank = [c \in Clients |-> 0]
  /\ buf = [c \in Clients |-> {}] /\ seen = [c \in Clients |-> {}]
  /\ size = [c \in Clients |-> 0] /\ retry = [c \in Clients |-> 0]
  /\ most = [c \in Clients |-> 0]
  /\ errno = [c \in Clients |-> "none"] /\ result = [c \in Clients |-> "none"]
  /\ calls = [c \in Clients |-> 0]

-----------------------------------------------------------------------------
(* The system. *)

Appear ==
  /\ \E i \in Interfaces \ present : present' = present \cup {i}
  /\ UNCHANGED <<running, skip, pc, call, bufferVars, answerVars, calls>>

Disappear ==
  /\ \E i \in present : present' = present \ {i} /\ skip' = skip \ {i}
  /\ UNCHANGED <<running, pc, call, bufferVars, answerVars, calls>>

\* The interfaces a request is about; an empty name stands for all.
Selected(on) == IF on = AnyInterface THEN present ELSE present \cap {on}
Matching(on) == {[name |-> i, skip |-> i \in skip] : i \in Selected(on)}

-----------------------------------------------------------------------------
(* The clients. *)

Return(c, value) ==
  /\ pc' = [pc EXCEPT ![c] = "idle"]
  /\ call' = [call EXCEPT ![c] = NoCall]
  /\ result' = [result EXCEPT ![c] = value]
  /\ UNCHANGED calls

\* ignore_error_kind: what a try_ variant makes of the same result.
Ignoring(c, kind, value) == IF call[c].try /\ value = kind THEN "ok" ELSE value

\* ioctl_guard for a call that failed: the error says that the state was so
\* already, or else it is an Ioctl error.
Guarded(error, alreadyActive) == IF error = alreadyActive THEN "StateAlreadyActive" ELSE "Ioctl"

\* Each call on an interface converts its name before its first ioctl.
StartCall(c, request) ==
  /\ pc[c] = "idle" /\ calls[c] < MaxCalls
  /\ calls' = [calls EXCEPT ![c] = @ + 1]
  /\ IF request.op \in InterfaceOperations /\ request.on = LongName
     THEN /\ result' = [result EXCEPT ![c] = "InvalidInterfaceName"]
          /\ UNCHANGED <<pc, call>>
     ELSE /\ pc' = [pc EXCEPT ![c] = CASE request.op = "get" -> "fetch"
                                       [] request.op \in {"set", "clear"} -> "flags"
                                       [] request.op \in SwitchOperations -> "switch"]
          /\ call' = [call EXCEPT ![c] = request]
          /\ result' = [result EXCEPT ![c] = "none"]
  /\ capacity' = [capacity EXCEPT ![c] = InitialCapacity]
  /\ buf' = [buf EXCEPT ![c] = {}] /\ blank' = [blank EXCEPT ![c] = InitialCapacity]
  /\ size' = [size EXCEPT ![c] = 0] /\ retry' = [retry EXCEPT ![c] = 0]
  /\ seen' = [seen EXCEPT ![c] = {}] /\ most' = [most EXCEPT ![c] = 0]
  /\ errno' = [errno EXCEPT ![c] = "none"]
  /\ UNCHANGED systemVars

\* An ioctl of a client ends with this error and the call with it.
Fails(c, error, value) ==
  /\ errno' = [errno EXCEPT ![c] = error]
  /\ Return(c, value)

\* enable and try_enable: DIOCSTART fails with EEXIST if the firewall is on.
Enable(c) ==
  /\ pc[c] = "switch" /\ call[c].op = "enable"
  /\ IF running
     THEN /\ Fails(c, "EEXIST", Ignoring(c, "StateAlreadyActive", Guarded("EEXIST", "EEXIST")))
          /\ UNCHANGED running
     ELSE running' = TRUE /\ Return(c, "ok") /\ UNCHANGED errno
  /\ UNCHANGED <<present, skip, bufferVars>>

\* (A bug: disable is guarded like all other calls.)
BugSameGuard == "EEXIST"
\* The error by which ioctl_guard knows, in disable, that the firewall is off.
OffAlready == "ENOENT"

\* disable and try_disable: DIOCSTOP fails with ENOENT if the firewall is off.
Disable(c) ==
  /\ pc[c] = "switch" /\ call[c].op = "disable"
  /\ IF running
     THEN running' = FALSE /\ Return(c, "ok") /\ UNCHANGED errno
     ELSE /\ Fails(c, "ENOENT", Ignoring(c, "StateAlreadyActive", Guarded("ENOENT", OffAlready)))
          /\ UNCHANGED running
  /\ UNCHANGED <<present, skip, bufferVars>>

\* is_enabled: DIOCGETSTATUS
IsEnabled(c) ==
  /\ pc[c] = "switch" /\ call[c].op = "isEnabled"
  /\ Return(c, IF running THEN "on" ELSE "off")
  /\ UNCHANGED <<systemVars, bufferVars, errno>>

\* DIOCSETIFFLAG and DIOCCLRIFFLAG
ChangeFlags(c) ==
  /\ pc[c] = "flags"
  /\ skip' = IF call[c].op = "set" THEN skip \cup Selected(call[c].on)
                                   ELSE skip \ Selected(call[c].on)
  /\ Return(c, "ok")
  /\ UNCHANGED <<running, present, bufferVars, errno>>

\* DIOCIGETIFACES writes entries while there is room, and says how many match.
FetchInterfaces(c) ==
  /\ pc[c] = "fetch"
  /\ LET matching == Matching(call[c].on)
         written == Min({capacity[c], Cardinality(matching)})
     IN  /\ \E entries \in kSubset(written, matching) : buf' = [buf EXCEPT ![c] = entries]
         /\ blank' = [blank EXCEPT ![c] = capacity[c] - written]
         /\ size' = [size EXCEPT ![c] = Cardinality(matching)]
         /\ most' = [most EXCEPT ![c] = Max({@, Cardinality(seen[c])})]
         /\ seen' = [seen EXCEPT ![c] = matching]
  /\ pc' = [pc EXCEPT ![c] = "check"]
  /\ UNCHANGED <<systemVars, call, capacity, retry, answerVars, calls>>

\* (A bug: the loop asks again without a larger buffer and without end.)
BugSameBuffer(c) ==
  /\ pc[c] = "check" /\ size[c] > capacity[c]
  /\ buf' = [buf EXCEPT ![c] = {}] /\ blank' = [blank EXCEPT ![c] = capacity[c]]
  /\ pc' = [pc EXCEPT ![c] = "fetch"]
  /\ UNCHANGED <<systemVars, call, capacity, size, retry, answerVars, calls, seen, most>>
\* (A bug: the new buffer takes one entry less.)
BugOneShort(c) ==
  /\ pc[c] = "check" /\ retry[c] + 1 < MaxRetries /\ size[c] > capacity[c]
  /\ retry' = [retry EXCEPT ![c] = @ + 1]
  /\ capacity' = [capacity EXCEPT ![c] = size[c] - 1]
  /\ buf' = [buf EXCEPT ![c] = {}] /\ blank' = [blank EXCEPT ![c] = size[c] - 1]
  /\ pc' = [pc EXCEPT ![c] = "fetch"]
  /\ UNCHANGED <<systemVars, call, size, answerVars, calls, seen, most>>

\* (A bug: one retry more.)
BugOneMore(c) ==
  /\ pc[c] = "check" /\ retry[c] < MaxRetries /\ size[c] > capacity[c]
  /\ retry' = [retry EXCEPT ![c] = @ + 1]
  /\ capacity' = [capacity EXCEPT ![c] = size[c]]
  /\ buf' = [buf EXCEPT ![c] = {}] /\ blank' = [blank EXCEPT ![c] = size[c]]
  /\ pc' = [pc EXCEPT ![c] = "fetch"]
  /\ UNCHANGED <<systemVars, call, size, answerVars, calls, seen, most>>

\* A new buffer of the size the system asked for, and another try.
Retry(c) ==
  /\ pc[c] = "check" /\ retry[c] + 1 < MaxRetries /\ size[c] > capacity[c]
  /\ retry' = [retry EXCEPT ![c] = @ + 1]
  /\ capacity' = [capacity EXCEPT ![c] = size[c]]
  /\ buf' = [buf EXCEPT ![c] = {}] /\ blank' = [blank EXCEPT ![c] = size[c]]
  /\ pc' = [pc EXCEPT ![c] = "fetch"]
  /\ UNCHANGED <<systemVars, call, size, answerVars, calls, seen, most>>

\* What becomes of the entries: the list, unless InterfaceDescription::try_from
\* cannot read a name.
Described(entries) ==
  IF \E entry \in entries : entry.name \in Unreadable THEN "InvalidInterfaceName" ELSE "ok"

\* (A bug: the list is not truncated.)
BugNoTruncate(c) ==
  /\ pc[c] = "check" /\ (retry[c] + 1 >= MaxRetries \/ size[c] <= capacity[c])
  /\ retry' = [retry EXCEPT ![c] = @ + 1]
  /\ Return(c, Described(buf[c]))
  /\ UNCHANGED <<systemVars, capacity, buf, blank, size, seen, most, errno>>

\* The entries are first in the buffer, so truncating it takes zeros away.
Finish(c) ==
  /\ pc[c] = "check" /\ (retry[c] + 1 >= MaxRetries \/ size[c] <= capacity[c])
  /\ retry' = [retry EXCEPT ![c] = @ + 1]
  /\ LET left == Min({capacity[c], size[c]}) - Cardinality(buf[c])
     IN  blank' = [blank EXCEPT ![c] = Max({left, 0})]
  /\ Return(c, Described(buf[c]))
  /\ UNCHANGED <<systemVars, capacity, buf, size, seen, most, errno>>

\* Any other error of an ioctl.
IoctlFails(c) ==
  /\ FaultsPossible /\ pc[c] \in {"switch", "flags", "fetch"}
  /\ Fails(c, "EIO", Guarded("EIO", IF call[c].op = "disable" THEN OffAlready ELSE "EEXIST"))
  /\ UNCHANGED <<systemVars, bufferVars>>

Step(c) ==
  \/ Enable(c) \/ Disable(c) \/ IsEnabled(c)
  \/ ChangeFlags(c) \/ FetchInterfaces(c) \/ Retry(c) \/ Finish(c) \/ IoctlFails(c)

Next ==
  \/ Appear \/ Disappear
  \/ \E c \in Clients : Step(c) \/ \E request \in Requests : StartCall(c, request)

Spec == Init /\ [][Next]_vars /\ \A c \in Clients : WF_vars(Step(c))

-----------------------------------------------------------------------------
(* Properties. *)

\* What a call on the switch answers, for the client that gets the answer.
SwitchAnswer(c) ==
  pc[c] = "switch" /\ pc'[c] = "idle" /\ call[c].op # "isEnabled" =>
    LET wanted == call[c].op = "enable"
    IN  CASE result'[c] = "ok" -> running' = wanted /\ (call[c].try \/ running # wanted)
          [] result'[c] = "StateAlreadyActive" ->
               running = wanted /\ running' = wanted /\ ~call[c].try
          [] result'[c] = "Ioctl" -> running' = running /\ errno'[c] = "EIO"

\* Of clients that switch the firewall on and off at the same time, each hears Ok
\* from the strict call exactly if it was the one that changed it, and
\* StateAlreadyActive exactly if it did not have to; a try_ call never says so, and
\* neither fails unless its ioctl really did (src/src/lib.rs:277, 283, 289, 295).
SwitchAnswers == [][\A c \in Clients : SwitchAnswer(c)]_vars

Listed(c) == pc[c] = "idle" /\ retry[c] > 0 /\ result[c] = "ok"

\* A list that get_interfaces returns has no zeroed entry, although the number of
\* interfaces may have dropped after the buffer was sized, and its entries are
\* interfaces with their flags as they were in one and the same ioctl.
ListIsReal ==
  \A c \in Clients : Listed(c) => blank[c] = 0 /\ buf[c] \subseteq seen[c]

\* MaxRetries counts the first ioctl: with the value of the code there is one
\* retry.  The list is complete unless the retry was overtaken: more interfaces matched
\* than the initial buffer takes, and more than in any ioctl before the last.
CompleteUnlessOvertaken ==
  \A c \in Clients :
    Listed(c) => \/ buf[c] = seen[c]
                 \/ Cardinality(seen[c]) > Max({InitialCapacity, most[c]})

\* Interfaces that keep coming and going do not keep get_interfaces from returning.
CallsReturn == \A c \in Clients : pc[c] # "idle" ~> pc[c] = "idle"

-----------------------------------------------------------------------------
(* The inductive invariant: the properties of the lists need what the loop  *)
(* of get_interfaces knows before it returns.                               *)

\* What each point of a call is about.
ControlAt(c) ==
  /\ pc[c] = "idle" <=> call[c].op = "none"
  /\ pc[c] = "switch" <=> call[c].op \in SwitchOperations
  /\ pc[c] = "flags" <=> call[c].op \in {"set", "clear"}
  /\ pc[c] \in {"fetch", "check"} => retry[c] < MaxRetries
  /\ pc[c] \in {"switch", "flags"} => retry[c] = 0

\* The buffer of a loop that goes on takes what any earlier ioctl had to tell.
BufferAt(c) ==
  /\ IsFiniteSet(seen[c])
  /\ pc[c] \in {"fetch", "check"} =>
       capacity[c] >= InitialCapacity /\ capacity[c] >= most[c]
  /\ pc[c] = "fetch" => capacity[c] >= Cardinality(seen[c])
  /\ pc[c] = "check" =>
       /\ buf[c] \subseteq seen[c] /\ size[c] = Cardinality(seen[c])
       /\ Cardinality(buf[c]) = Min({capacity[c], size[c]})

IInv ==
  /\ TypeOK /\ \A c \in Clients : ControlAt(c) /\ BufferAt(c)
  /\ ListIsReal /\ CompleteUnlessOvertaken
=============================================================================
