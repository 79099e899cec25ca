--------------------------- MODULE MCConfigurations ---------------------------
(***************************************************************************)
(* Instances of Configurations for TLC: k1 is of a family whose            *)
(* configurations end, k2 of the one whose do not.                         *)
(***************************************************************************)
EXTENDS Configurations

CONSTANTS c1, c2, k1, k2, x, y

\* Both connectors target k1, and k2 is of a network that is not served; or one
\* targets k2, whose event code is also that of k1.
Shared == [target |-> [c \in {c1, c2} |-> k1],
           code |-> [k \in {k1, k2} |-> IF k = k1 THEN x ELSE y],
           served |-> {k1}]
Clash == [target |-> [c \in {c1, c2} |-> IF c = c1 THEN k1 ELSE k2],
          code |-> [k \in {k1, k2} |-> x],
          served |-> {k1, k2}]
TwoWorlds == {Shared, Clash}

EndsOf == [k \in Configs |-> IF k = k1 THEN 2 ELSE 0]
TypeOf == [k \in Configs |-> IF k = k1 THEN "TonEth" ELSE "EthTon"]
===============================================================================
