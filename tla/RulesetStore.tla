---------------------------- MODULE RulesetStore ----------------------------
(***************************************************************************)
(* What the rule-management calls promise: the rulesets are a store that   *)
(* every call changes in one step, completely or not at all.               *)
(*                                                                         *)
(*   - A transaction replaces the rules of every ruleset it names by its   *)
(*     own, in order, and leaves the others alone (the doc comment of      *)
(*     AnchorChange, src/src/transaction.rs:289-292).                      *)
(*   - A single-rule call appends its rule to one ruleset.                 *)
(*   - A call that returns an error changes nothing.  One that never       *)
(*     returns because its process died changes everything or nothing.     *)
(***************************************************************************)
EXTENDS Sequences

CONSTANTS Clients, Rulesets, Rules, Requests, Errors, NoRequest

VARIABLES rules,    \* [Rulesets -> Seq(Rules)]
          request,  \* [Clients -> Requests \cup {NoRequest}], the call under way
          outcome   \* what the last call returned

storeVars == <<rules, request, outcome>>

StoreInit ==
  /\ rules = [rs \in Rulesets |-> <<>>]
  /\ request = [c \in Clients |-> NoRequest]
  /\ outcome = [c \in Clients |-> "none"]

\* A request either replaces the rulesets in the domain of its contents or
\* appends one rule.
Effect(req) ==
  [rs \in Rulesets |->
     IF req.op = "replace"
       THEN IF rs \in DOMAIN req.contents THEN req.contents[rs] ELSE rules[rs]
       ELSE IF rs = req.rs THEN Append(rules[rs], req.rule) ELSE rules[rs]]

Invoke(c) ==
  /\ request[c] = NoRequest
  /\ request'[c] \in Requests
  /\ request' = [request EXCEPT ![c] = request'[c]]
  /\ UNCHANGED <<rules, outcome>>

Finish(c, r) ==
  /\ request[c] # NoRequest
  /\ request' = [request EXCEPT ![c] = NoRequest]
  /\ outcome' = [outcome EXCEPT ![c] = r]

Take(c) ==
  /\ Finish(c, "ok") \/ Finish(c, "crashed")
  /\ rules' = Effect(request[c])

Refuse(c) ==
  /\ \E e \in Errors : Finish(c, e)
  /\ UNCHANGED rules

StoreNext == \E c \in Clients : Invoke(c) \/ Take(c) \/ Refuse(c)

StoreSpec == StoreInit /\ [][StoreNext]_storeVars
=============================================================================
