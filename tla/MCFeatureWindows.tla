---------------------------- MODULE MCFeatureWindows ----------------------------
EXTENDS FeatureWindows, TLC

CONSTANTS e1, e2

\* Two logs in the first window, the second also in the next, and a later one.
MCTime == e1 :> 0 @@ e2 :> 1
MCUnset == -1
================================================================================
