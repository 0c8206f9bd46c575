----------------------------- MODULE PfPoolList -----------------------------
(***************************************************************************)
(* The memory of a PoolAddrList (src/src/pooladdr.rs): the array of        *)
(* addresses, the list head that is made for it, and the copies the        *)
(* functions make on their stack, from its creation to the ioctl of a call *)
(* that uses it.                                                           *)
(*                                                                         *)
(* An object is live from when it is written until the function that owns  *)
(* it ends.  A pointer is the name of the object it points into.           *)
(***************************************************************************)
EXTENDS Integers, Functions, TLC

CONSTANT MaxAddrs  \* bound: how many addresses a list is made of

\* An object has a name and a number.  The names are those of the code; owned is
\* the head in the PoolAddrList, request the one in the pfioc_rule.
Pool(k) == <<"pool", k>>
Object(name) == <<name, 0>>
Null == Object("null")
elem1 == Object("elem1")
elem2 == Object("elem2")
first_elem == Object("first_elem")
last_elem == Object("last_elem")
list == Object("list")
owned == Object("owned")
request == Object("request")

\* Those who make a list: add_filter_rule for a route, add_nat_rule and
\* add_redirect_rule, each for one address, and whoever else calls new.
Users == {"route", "nat", "redirect", "other"}

VARIABLES
  pc,
  user,
  n,       \* how many addresses there are
  i,       \* the loop of link_elements
  memory   \* what the live objects contain: entries and list heads

vars == <<pc, user, n, i, memory>>

Entry == [next |-> Null, prev |-> Null]

Init ==
  /\ pc = "init" /\ user \in Users /\ i = 1
  /\ n \in IF user = "other" THEN 0 .. MaxAddrs ELSE {1}
  /\ memory = [o \in {} |-> Null]

Goto(point) == pc' = point
Dies(objects) == Restrict(memory, DOMAIN memory \ objects)
Array == {Pool(k) : k \in 0 .. n - 1}

\* init_pool: zeroed entries, or an error if an interface name is too long; the
\* calls on rules found that out before, when they registered the address.
InitPool ==
  /\ pc = "init"
  /\ \/ /\ memory' = [o \in Array |-> Entry]
        /\ Goto("link")
     \/ user = "other" /\ n > 0 /\ Goto("returned") /\ UNCHANGED memory
  /\ UNCHANGED <<user, n, i>>

\* One round of link_elements: it links copies of two entries.
LinkCopies ==
  /\ pc = "link" /\ i < n /\ elem1 \notin DOMAIN memory
  /\ memory' = elem1 :> [memory[Pool(i - 1)] EXCEPT !.next = elem2] @@
               elem2 :> [memory[Pool(i)] EXCEPT !.prev = elem1] @@ memory
  /\ UNCHANGED <<pc, user, n, i>>

RoundEnds ==
  /\ pc = "link" /\ elem1 \in DOMAIN memory
  /\ memory' = Dies({elem1, elem2})
  /\ i' = i + 1
  /\ UNCHANGED <<pc, user, n>>

\* create_palist: the head points to copies of the first and last entry, or,
\* without entries, to itself.
CreatePalist ==
  /\ pc = "link" /\ i >= n
  /\ memory' =
       IF n = 0 THEN list :> [first |-> Null, last |-> list]
       ELSE first_elem :> [memory[Pool(0)] EXCEPT !.prev = list] @@
            last_elem :> [memory[Pool(n - 1)] EXCEPT !.next = Null] @@
            list :> [first |-> first_elem, last |-> last_elem] @@ memory
  /\ Goto("new")
  /\ UNCHANGED <<user, n, i>>

\* The head is moved into the PoolAddrList, which owns the array from here on;
\* what create_palist had on its stack is gone.
New ==
  /\ pc = "new"
  /\ memory' = owned :> memory[list] @@ Restrict(memory, Array)
  /\ Goto("copy")
  /\ UNCHANGED <<user, n, i>>

\* to_palist, into the request.  add_nat_rule ends the block that owns the
\* PoolAddrList here; the others keep it.
ToPalist ==
  /\ pc = "copy" /\ user # "other"
  /\ memory' = request :> memory[owned] @@
               Restrict(memory, IF user = "nat" THEN {} ELSE DOMAIN memory)
  /\ Goto("ioctl")
  /\ UNCHANGED <<user, n, i>>

\* The end of the function, after its ioctl or an error before it.
Drop ==
  /\ pc \in {"copy", "ioctl"}
  /\ memory' = Dies(DOMAIN memory)
  /\ Goto("returned")
  /\ UNCHANGED <<user, n, i>>

Next == InitPool \/ LinkCopies \/ RoundEnds \/ CreatePalist \/ New \/ ToPalist \/ Drop

Spec == Init /\ [][Next]_vars

-----------------------------------------------------------------------------
(* What the documentation says and the code does not do. *)

Targets(head) == {head.first, head.last} \ {Null}

\* The class retains the array "to make sure that pointers used in pf_palist
\* reference the valid memory" (src/src/pooladdr.rs:65-66): whoever holds a list
\* head while the array lives can follow it.
PointersValid ==
  \A holder \in {owned, request} \cap DOMAIN memory :
    owned \in DOMAIN memory => Targets(memory[holder]) \subseteq DOMAIN memory
=============================================================================
