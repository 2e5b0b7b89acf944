--------------------------- MODULE MCBrowserBridge ---------------------------
EXTENDS BrowserBridge, TLC

CONSTANTS o1, o2, t1, t2, c1, c2

\* participants and tabs are alike
Alike == Permutations({o1, o2}) \cup Permutations({t1, t2})
=============================================================================
