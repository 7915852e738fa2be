--------------------------- MODULE MCPaperTerminal ---------------------------
(***************************************************************************)
(* Instances of PaperTerminal for TLC.  The average of two shares at the   *)
(* two prices is a tie of rounding; no generated stop or target is.        *)
(***************************************************************************)
EXTENDS PaperTerminal

MCPrices  == {120, 141}
MCLots    == {1}
MCNoLots  == {}
MCTopUps  == {140}

Bracket   == [stop |-> 120, target1 |-> 0, target2 |-> 141]
MCBracket == {Bracket}
MCNoStops == {NoStops}

\* A quantity of zero is saved as one.
OnePerDay ==
    [Defaults EXCEPT !.enabled = TRUE, !.quantity = 0, !.maxOpen = 2, !.maxTrades = 1]

InPoints ==
    [Defaults EXCEPT !.enabled = TRUE, !.sizing = "FIXED_AMOUNT", !.amount = 280,
                     !.targetMode = "POINTS", !.target = 20, !.stopMode = "POINTS",
                     !.stop = 20, !.maxOpen = 2, !.maxTrades = 2, !.maxLoss = 30]

MCSettings   == {OnePerDay, InPoints}
MCNoSettings == {}
=============================================================================
