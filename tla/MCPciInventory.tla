--------------------------- MODULE MCPciInventory ---------------------------
(* PciInventory for TLC: two functions, one of each kind the readers tell  *)
(* apart at most.                                                          *)
EXTENDS PciInventory

MCFunctions ==
  {[vendor |-> "nvidia", capable |-> TRUE], [vendor |-> "nvidia", capable |-> FALSE],
   [vendor |-> "other", capable |-> FALSE]}
=============================================================================
