-------------------------- MODULE MCCanaryPipeline --------------------------
(* Values of the constants of CanaryPipeline for TLC.                      *)
EXTENDS CanaryPipeline, TLC

CONSTANTS btcLong, btcShort, ethLong, btc, eth, a1, a2

MCKeys == {btcLong, btcShort, ethLong}
MCTwoSymbolOf == btcLong :> btc @@ ethLong :> eth
MCTwoKeys == {btcLong, ethLong}
MCSymbols == {btc, eth}
MCSymbolOf == btcLong :> btc @@ btcShort :> btc @@ ethLong :> eth

\* The two keys of one symbol are interchangeable.
MCSymmetry == Permutations({btcLong, btcShort})
=============================================================================
