----------------------------- MODULE MCStartup -----------------------------
(* Command lines for TLC: each option present or not, with few values.        *)
EXTENDS Startup
MCRates == {2}
MCDurations == {1, 2}
MCFlows == {1, 2, 3, 5}
MCSizes == {1, 3}
MCRatios == 0 .. 3
MCBuilds == BOOLEAN
MCTexts == {0, 10}
MCNameLen == <<5, 4>>
=============================================================================
