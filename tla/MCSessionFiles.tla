--------------------------- MODULE MCSessionFiles ---------------------------
\* Two sessions, three assets of which one fills a scope, and one upload to a page.
EXTENDS SessionFiles, TLC

CONSTANTS s1, s2, u1, u2, u3, b1

Alike == Permutations({s1, s2}) \union Permutations({u1, u2, u3})
===============================================================================
