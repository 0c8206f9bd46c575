----------------------------- MODULE MCPfStates -----------------------------
(***************************************************************************)
(* PfStates on small instances.  s1 and s2 differ in nothing a kill        *)
(* request holds (two connections over the same interface); s3 is on       *)
(* another interface.                                                      *)
(***************************************************************************)
EXTENDS PfStates, TLC

CONSTANTS c1, c2, s1, s2, s3, first, second, long, udp, tcp, lo, en

MCOwner == [f \in Flows |-> IF f = s3 THEN second ELSE first]
\* s1 and s2 created by the rules of different anchors
MCOwnerSplit == [f \in Flows |-> IF f = s1 THEN first ELSE second]
MCClass == [f \in Flows |-> IF f = s3 THEN tcp ELSE udp]
MCIface == (udp :> lo) @@ (tcp :> en)

NoStates == <<>>
OneState == <<s1>>
TwoStates == <<s1, s2>>
BothAnchors == [kind \in Kinds |-> IF kind = "filter" THEN <<first, second>> ELSE <<first>>]

\* 256 connections between two hosts, all there when the client starts.
ManyFlows == 1..256
ManyStates == [i \in 1..256 |-> i]
ManyOwner == [f \in ManyFlows |-> first]
ManyClass == [f \in ManyFlows |-> udp]

ClearAndAnchors == {"clear", "clearInterface", "addAnchor", "removeAnchor"}

OneCallEach == [c \in Clients |-> 1]
TwoCallsEach == [c \in Clients |-> 2]
TwoCallsAndOne == [c \in Clients |-> IF c = c1 THEN 2 ELSE 1]

ClientSymmetry == Permutations(Clients)
=============================================================================
