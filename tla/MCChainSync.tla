----------------------------- MODULE MCChainSync -----------------------------
(***************************************************************************)
(* A small block tree for TLC: a trunk t1, t2 and forks that compete for   *)
(* slots and for heights.                                                  *)
(*                                                                         *)
(*      t1(1) -- t2(2) -- t3(3) -- t4(5)                                   *)
(*        |         \                                                      *)
(*        |          u3(4)              height rival of t3                 *)
(*        v2(2) -- v3(4) -- v4(5)       slot rivals of t2, u3 and t4       *)
(***************************************************************************)
EXTENDS ChainSync

CONSTANTS t1, t2, t3, t4, u3, v2, v3, v4

MCBlock == {t1, t2, t3, t4, u3, v2, v3, v4}

MCPath ==
    [b \in MCBlock |->
        CASE b = t1 -> <<t1>>
          [] b = t2 -> <<t1, t2>>
          [] b = t3 -> <<t1, t2, t3>>
          [] b = t4 -> <<t1, t2, t3, t4>>
          [] b = u3 -> <<t1, t2, u3>>
          [] b = v2 -> <<t1, v2>>
          [] b = v3 -> <<t1, v2, v3>>
          [] b = v4 -> <<t1, v2, v3, v4>>]

MCSlot ==
    [b \in MCBlock |->
        CASE b = t1 -> 1
          [] b \in {t2, v2} -> 2
          [] b = t3 -> 3
          [] b \in {u3, v3} -> 4
          [] b \in {t4, v4} -> 5]

=============================================================================
