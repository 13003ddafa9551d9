----------------------------- MODULE MCEventLog -----------------------------
(***************************************************************************)
(* A small block tree for EventLog: a trunk and one fork.  The client      *)
(* starts at the node's tip, so t1 is never logged and the fork is above   *)
(* the first logged block.                                                 *)
(*                                                                         *)
(*      t1(1) -- t2(2) -- t3(3)                                            *)
(*                  \                                                      *)
(*                   v3(3) -- v4(4)                                        *)
(***************************************************************************)
EXTENDS EventLog

CONSTANTS t1, t2, t3, v3, v4

MCBlock == {t1, t2, t3, v3, v4}

MCPath ==
    [b \in MCBlock |->
        CASE b = t1 -> <<t1>>
          [] b = t2 -> <<t1, t2>>
          [] b = t3 -> <<t1, t2, t3>>
          [] b = v3 -> <<t1, t2, v3>>
          [] b = v4 -> <<t1, t2, v3, v4>>]

MCSlot ==
    [b \in MCBlock |->
        CASE b = t1 -> 1 [] b = t2 -> 2 [] b \in {t3, v3} -> 3 [] b = v4 -> 4]

=============================================================================
