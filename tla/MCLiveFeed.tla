----------------------------- MODULE MCLiveFeed -----------------------------
(***************************************************************************)
(* A ring for LiveFeed.  Event 2 was published after event 1 and is of an  *)
(* earlier slot, as when its fork replaced a block: boot puts it first.    *)
(***************************************************************************)
EXTENDS LiveFeed

BySlot == <<2, 1, 3>>

=============================================================================
