------------------------------ MODULE ChainTree ------------------------------
(***************************************************************************)
(* The tree of blocks a Cardano node may adopt: the vocabulary every other *)
(* module shares.  A BlockRef of the observer (hash, slot, height) is the  *)
(* block itself here: its hash identifies it, Slot[b] is its slot, and its *)
(* height is its depth in the tree.  Path[b] is the chain that ends in b.  *)
(***************************************************************************)
EXTENDS Naturals, Sequences

CONSTANTS
    Block,   \* the blocks that may ever be forged, told apart by hash
    Origin,  \* the point before the first block ("origin" in chain-sync)
    Path,    \* Path[b]: the blocks from the first one to b, b included
    Slot     \* Slot[b]: the slot b was forged in

Point == Block \cup {Origin}

(***************************************************************************)
(* What a ledger guarantees: a block fixes its ancestors, slots grow along *)
(* a chain, and all chains share their first block (nobody forks the       *)
(* immutable part of the chain).                                           *)
(***************************************************************************)
ASSUME TreeAssumption ==
    /\ Origin \notin Block
    /\ Slot \in [Block -> Nat]
    /\ Path \in [Block -> Seq(Block)]
    /\ \A b \in Block :
          /\ Len(Path[b]) > 0
          /\ Path[b][Len(Path[b])] = b
          /\ \A i \in 1..Len(Path[b]) : Path[Path[b][i]] = SubSeq(Path[b], 1, i)
          /\ \A i, j \in 1..Len(Path[b]) :
                i < j => Slot[Path[b][i]] < Slot[Path[b][j]]
    /\ \A b, c \in Block : Path[b][1] = Path[c][1]

Height(p) == IF p = Origin THEN 0 ELSE Len(Path[p])

Parent(b) == IF Len(Path[b]) = 1 THEN Origin ELSE Path[b][Len(Path[b]) - 1]

(* p lies on the chain that ends in t (possibly p = t). *)
OnChain(p, t) ==
    \/ p = Origin
    \/ t # Origin /\ \E i \in 1..Len(Path[t]) : Path[t][i] = p

(* q is the last point the chains ending in p and t have in common. *)
IsForkPoint(q, p, t) ==
    /\ OnChain(q, p) /\ OnChain(q, t)
    /\ \A c \in Block : OnChain(c, p) /\ OnChain(c, t) => Height(c) <= Height(q)

(* Two blocks that compete for a slot or for a height. *)
SlotRivals(b, c) == b # c /\ Slot[b] = Slot[c]
HeightRivals(b, c) == b # c /\ Height(b) = Height(c)
Rivals(b, c) == SlotRivals(b, c) \/ HeightRivals(b, c)

=============================================================================
