------------------------------ MODULE ChainFeed ------------------------------
(***************************************************************************)
(* What the event feed promises a reader about blocks, with no regard for  *)
(* how the observer gets there.  Reading the feed, a client strikes out    *)
(* the blocks an "orphaned_block" event names and keeps the others: the    *)
(* blocks it keeps are one chain, growing by one child at a time and       *)
(* shrinking only from its newest end.  Only after the observer had to     *)
(* start over somewhere it cannot connect to the blocks already announced  *)
(* is that promise off.                                                    *)
(***************************************************************************)
EXTENDS ChainTree

VARIABLES
    standing,  \* what the feed last said of each block
    broken     \* the feed was restarted at an unrelated point

feedVars == <<standing, broken>>

Current == {b \in Block : standing[b] = "current"}

Init ==
    /\ standing = [b \in Block |-> "unseen"]
    /\ broken = FALSE

(* A "block" event: the next block of the chain the reader holds. *)
Adopt(b) ==
    /\ standing[b] # "current"
    /\ ~broken => /\ \A c \in Current : OnChain(c, b)
                  /\ Current # {} => Parent(b) \in Current
    /\ standing' = [standing EXCEPT ![b] = "current"]
    /\ UNCHANGED broken

(* The "orphaned_block" events of one rollback: the newest blocks go. *)
OrphanNewest(lost) ==
    /\ lost # {} /\ lost \subseteq Current
    /\ ~broken => \A c \in Current \ lost, b \in lost : Height(c) < Height(b)
    /\ standing' = [b \in Block |-> IF b \in lost THEN "orphaned" ELSE standing[b]]
    /\ UNCHANGED broken

(* The observer starts over; nothing is said of the blocks. *)
StartOver ==
    /\ ~broken /\ Current # {}
    /\ broken' = TRUE
    /\ UNCHANGED standing

Next ==
    \/ \E b \in Block : Adopt(b)
    \/ \E lost \in SUBSET Block : OrphanNewest(lost)
    \/ StartOver

Spec == Init /\ [][Next]_feedVars

(* The promise: what a reader keeps is one chain. *)
OneChain == broken \/ \A b, c \in Current : OnChain(b, c) \/ OnChain(c, b)
=============================================================================
