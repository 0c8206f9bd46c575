------------------------------ MODULE PfKernel ------------------------------
(***************************************************************************)
(* The rule side of the pf(4) device, as src/src uses it through the       *)
(* ioctls declared in src/src/ffi/mod.rs.  The device itself is external   *)
(* to the repository: this module says what the library relies on.         *)
(*                                                                         *)
(* A ruleset is an anchor and a rule kind.  It has an active sequence of   *)
(* rules and an inactive one that a transaction fills and then swaps in.   *)
(* Three kinds of tickets detect interference between clients:             *)
(*   - activeTicket[rs], for rules appended to the active sequence;        *)
(*   - inactiveTicket[rs], for rules added to the inactive sequence;       *)
(*   - poolTicket, for the one address buffer (pabuf) of the whole device. *)
(* An ioctl that is given a ticket that is not current is refused (EBUSY)  *)
(* and changes nothing.  Each ioctl is atomic.  Tickets are 32 bits in the *)
(* device; they are unbounded here, so no ticket is ever issued twice.     *)
(***************************************************************************)
EXTENDS Integers, Sequences, Functions

CONSTANTS Anchors,  \* anchor names
          Rules,    \* rules of every kind, as the client describes them
          Addrs     \* pool addresses (route-to, nat-to and redirect-to targets)

VARIABLES
  active,          \* [Rulesets -> Seq(Entry)], the rules in force
  activeTicket,    \* [Rulesets -> Nat]
  inactive,        \* [Rulesets -> Seq(Entry)], the rules of a transaction
  inactiveTicket,  \* [Rulesets -> Nat]
  poolTicket,      \* Nat
  pabuf            \* SUBSET Addrs, the addresses given for the next rule

kernelVars == <<active, activeTicket, inactive, inactiveTicket, poolTicket, pabuf>>

Kinds == {"filter", "nat", "redirect", "scrub"}
Rulesets == Anchors \X Kinds

\* What the kernel stores for a rule: the rule and the pool it was given.
Entry == [rule : Rules, pool : SUBSET Addrs]

KernelTypeOK ==
  /\ active \in [Rulesets -> Seq(Entry)]
  /\ activeTicket \in [Rulesets -> Nat]
  /\ inactive \in [Rulesets -> Seq(Entry)]
  /\ inactiveTicket \in [Rulesets -> Nat]
  /\ poolTicket \in Nat
  /\ pabuf \in SUBSET Addrs

KernelInit ==
  /\ active = [rs \in Rulesets |-> <<>>]
  /\ activeTicket = [rs \in Rulesets |-> 0]
  /\ inactive = [rs \in Rulesets |-> <<>>]
  /\ inactiveTicket = [rs \in Rulesets |-> 0]
  /\ poolTicket = 0
  /\ pabuf = {}

-----------------------------------------------------------------------------
\* Address pool: DIOCBEGINADDRS and DIOCADDADDR.

BeginAddrs ==
  /\ poolTicket' = poolTicket + 1
  /\ pabuf' = {}
  /\ UNCHANGED <<active, activeTicket, inactive, inactiveTicket>>

AddAddr(poolTick, addr) ==
  /\ poolTick = poolTicket
  /\ pabuf' = pabuf \cup {addr}
  /\ UNCHANGED <<active, activeTicket, inactive, inactiveTicket, poolTicket>>

-----------------------------------------------------------------------------
\* One rule at a time: DIOCCHANGERULE with PF_CHANGE_GET_TICKET and with
\* PF_CHANGE_ADD_TAIL.  An accepted rule takes the buffered addresses with it.

ChangeGetTicket(rs) ==
  /\ activeTicket' = [activeTicket EXCEPT ![rs] = @ + 1]
  /\ UNCHANGED <<active, inactive, inactiveTicket, poolTicket, pabuf>>

ChangeCurrent(rs, tick, poolTick) ==
  /\ tick = activeTicket[rs]
  /\ poolTick = poolTicket

ChangeAddTail(rs, rule, tick, poolTick) ==
  /\ ChangeCurrent(rs, tick, poolTick)
  /\ active' = [active EXCEPT ![rs] = Append(@, [rule |-> rule, pool |-> pabuf])]
  /\ activeTicket' = [activeTicket EXCEPT ![rs] = @ + 1]
  /\ pabuf' = {}
  /\ UNCHANGED <<inactive, inactiveTicket, poolTicket>>

-----------------------------------------------------------------------------
\* Transactions: DIOCXBEGIN, DIOCADDRULE and DIOCXCOMMIT.  elems is a sequence
\* of distinct rulesets, tickets a sequence of the same length.

XBegin(elems) ==
  /\ inactive' = [rs \in Rulesets |->
                    IF rs \in Range(elems) THEN <<>> ELSE inactive[rs]]
  /\ inactiveTicket' = [rs \in Rulesets |->
                    IF rs \in Range(elems) THEN inactiveTicket[rs] + 1
                                             ELSE inactiveTicket[rs]]
  /\ UNCHANGED <<active, activeTicket, poolTicket, pabuf>>

AddCurrent(rs, tick, poolTick) ==
  /\ tick = inactiveTicket[rs]
  /\ poolTick = poolTicket

AddRule(rs, rule, tick, poolTick) ==
  /\ AddCurrent(rs, tick, poolTick)
  /\ inactive' = [inactive EXCEPT ![rs] = Append(@, [rule |-> rule, pool |-> pabuf])]
  /\ pabuf' = {}
  /\ UNCHANGED <<active, activeTicket, inactiveTicket, poolTicket>>

\* Every ticket is checked before the first ruleset is swapped.
XCurrent(elems, tickets) == \A i \in DOMAIN elems : tickets[i] = inactiveTicket[elems[i]]

XCommit(elems, tickets) ==
  /\ XCurrent(elems, tickets)
  /\ active' = [rs \in Rulesets |->
                  IF rs \in Range(elems) THEN inactive[rs] ELSE active[rs]]
  /\ activeTicket' = [rs \in Rulesets |->
                  IF rs \in Range(elems) THEN inactiveTicket[rs] ELSE activeTicket[rs]]
  /\ inactive' = [rs \in Rulesets |->
                  IF rs \in Range(elems) THEN <<>> ELSE inactive[rs]]
  /\ UNCHANGED <<inactiveTicket, poolTicket, pabuf>>
=============================================================================
