---------------------------- MODULE MCPageCommands ----------------------------
(* Two requests of one client, of kinds that have to do with each other. *)
EXTENDS PageCommands, TLC

CONSTANTS k1, k2, w1, w2

MCMixes == {{"drag", "wait"}, {"click", "navigate"}, {"fill", "condition"}, {"type"},
            {"element", "download"}, {"picture", "command", "tools"},
            {"fullPage", "resize", "switchWindow", "newWindow", "closeWindow"},
            {"diagnostics", "clear"}}

MCSymmetry == Permutations({k1, k2}) \union Permutations({w1, w2})
===============================================================================
