--------------------------- MODULE MCOperatorClient ---------------------------
(***************************************************************************)
(* OperatorClient with two calls: the pairs of kinds that share an         *)
(* artifact, where a call that stops half-way is the other one's past, a   *)
(* draw of two transactions alone, with everything that can delay it, and  *)
(* the sortition calls that follow or repeat each other.                   *)
(***************************************************************************)
EXTENDS OperatorClient

CONSTANTS c1, c2

Pair(a, b) == [c \in {c1, c2} |-> IF c = c1 THEN a ELSE b]
MCKinds == {Pair("rngv2", "none"), Pair("inline", "commit"), Pair("conditions", "commit"),
            Pair("script", "commit"), Pair("createDraw", "registerTicket"),
            Pair("registerTicket", "registerTicket"), Pair("registerTicket", "sealDraw"),
            Pair("sealDraw", "claimTicket"), Pair("claimTicket", "claimTicket")}

=============================================================================
