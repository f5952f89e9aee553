--------------------------- MODULE MCPriceContract ---------------------------
(* Values of the constants of PriceContract for TLC.                       *)
EXTENDS PriceContract

\* Neighbours are within the jump limit, the ends are not.
MCLevels == {1, 2, 3}

\* Every move is beyond the jump limit.
MCJumps == {1, 3, 5}

\* The highest level is out of the bounds of the adapter.
MCBounds == MCLevels \ {3}
MCJumpBounds == MCJumps \ {5}
=============================================================================
