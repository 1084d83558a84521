----------------------------- MODULE MCStateFeed ------------------------------
(***************************************************************************)
(* StateFeed for TLC: dashboards that connect, read and leave while the    *)
(* cluster changes.                                                        *)
(***************************************************************************)
EXTENDS StateFeed, TLC

CONSTANTS c1, c2

TwoDashboards == {c1, c2}
Second == {c2}

\* FairSpec with two dashboards for one change, and one for two; the third
\* change is one that finds eventCh full.
Focus ==
    /\ changes' > 1 => conn'[c1] = "none"
    /\ changes = 2 /\ changes' = 3 => blocked' # "none"
FocusSpec == Init /\ [][Next /\ Focus]_vars /\ Fairness
===============================================================================
