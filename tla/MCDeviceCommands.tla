--------------------------- MODULE MCDeviceCommands ---------------------------
(* Two requests of one client, two ports of the application under test.  A session ends for   *)
(* good, so that nothing need be possible after it.                                          *)
EXTENDS DeviceCommands, TLC

CONSTANTS k1, k2, p1, p2

MCSymmetry == Permutations({k1, k2})
===============================================================================
