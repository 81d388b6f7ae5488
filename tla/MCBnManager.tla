----------------------------- MODULE MCBnManager -----------------------------
(* BnManager for TLC: two nodes with every role.                           *)
EXTENDS BnManager

AllRoles == [i \in Nodes |-> {"all"}]

\* The node configured first may lag behind.
TierSets == [i \in Nodes |-> IF i = 1 THEN {0, 3} ELSE {0}]

\* Block production can afford the floor for both nodes, the queries only
\* for one.
Budgets == [op \in Operations |-> IF op = "v4" THEN 2 ELSE 1]
==============================================================================
