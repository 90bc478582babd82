---------------------------- MODULE MCEventFeed ----------------------------
(* Small instances of EventFeed for TLC.                                   *)
EXTENDS EventFeed

CONSTANTS e1, e2, e3, c1

============================================================================
