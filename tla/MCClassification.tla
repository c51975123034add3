--------------------------- MODULE MCClassification ---------------------------
(* Classification for TLC.  The .cfg files give the bounds; no state is a      *)
(* permutation of another that TLC could skip, because names of entries and    *)
(* tokens are taken in a fixed order.                                          *)
EXTENDS Classification

\* Every kind of failure there is, and those after which a request is still answered.
AllFaults == {"crash", "slow", "error", "version"}
DeliveryFaults == {"crash", "slow"}
===============================================================================
