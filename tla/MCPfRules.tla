----------------------------- MODULE MCPfRules -----------------------------
(***************************************************************************)
(* PfRules on small instances: a filter rule without a route, one with a   *)
(* route, a NAT rule, a redirect rule, and rules whose conversion fails at *)
(* each of the places where one can.                                       *)
(***************************************************************************)
EXTENDS PfRules, TLC

CONSTANTS c1, c2, a1, a2, a3,
          plain, routed, nat, rdr,      \* rules without a defect
          badRule, badAddr, badPort,    \* two filter rules and a NAT rule
          x, y                          \* addresses

MCRuleKind == [r \in Rules |->
  CASE r \in {plain, routed, badRule, badAddr} -> "filter"
    [] r \in {nat, badPort} -> "nat"
    [] r = rdr -> "redirect"]
MCRulePool == [r \in Rules |->
  CASE r \in {plain, badRule} -> {}
    [] r \in {routed, badAddr, badPort} -> {x}
    [] r \in {nat, rdr} -> {y}]
MCDefect == [r \in Rules |->
  CASE r = badRule -> "rule"
    [] r = badAddr -> "addr"
    [] r = badPort -> "port"
    [] OTHER -> "none"]

\* Changes that set two kinds, that order the same rules differently, that set
\* no rules for a kind, and that fail after some of their rules were added.
Two == ("filter" :> <<plain, routed>>) @@ ("nat" :> <<nat>>)
Swapped == "filter" :> <<routed, plain>>
Mixed == ("filter" :> <<>>) @@ ("redirect" :> <<rdr>>)
BrokenRule == "filter" :> <<routed, badRule>>
BrokenAddr == "filter" :> <<plain, badAddr>>
BrokenPort == ("filter" :> <<plain>>) @@ ("nat" :> <<badPort>>)

ConcurrentChanges == {Two, Swapped}
SoloChanges == {Mixed, BrokenRule, BrokenAddr, BrokenPort}
=============================================================================
