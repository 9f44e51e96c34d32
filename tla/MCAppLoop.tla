------------------------------ MODULE MCAppLoop -----------------------------
(* Instance of AppLoop for TLC: of the screens that change nothing here,   *)
(* EXPORTS alone is kept, since SQUARE goes there; of the buttons, all     *)
(* but LEFT, which does what CIRCLE does on SCAN.  Two hosts are           *)
(* interchangeable.                                                        *)
EXTENDS AppLoop, TLC

CONSTANTS h1, h2

MCScreens == <<"RADAR", "STATS", "SCAN", "DETAIL", "SETTINGS", "EXPORTS">>
MCButtons == {"L", "R", "SQUARE", "SELECT", "TRIANGLE", "UP", "DOWN", "CIRCLE", "CROSS", "START"}

Symmetry == Permutations({h1, h2})
=============================================================================
