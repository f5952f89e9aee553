---------------------------- MODULE MCPaperBroker ----------------------------
(* Values of the constants of PaperBroker for TLC.                         *)
EXTENDS PaperBroker

\* At the first stop, half way to it, at the entry (below a locked stop), at 0.30
\* and 0.75 of the risk (beyond a locked stop), at the first and at the second
\* target.
MCPrices == {-100, -50, 0, 30, 75, 125, 225}
=============================================================================
