------------------------------ MODULE ChainSync ------------------------------
(***************************************************************************)
(* The observer's chain-sync client (src/ogmios.rs) with the orphan and    *)
(* battle bookkeeping of AppState (src/state.rs), against a node that      *)
(* switches forks and a connection that drops at any moment.               *)
(*                                                                         *)
(* The node keeps, for the connection, the read pointer of the chain-sync  *)
(* protocol and answers up to Pipeline outstanding nextBlock requests;     *)
(* answers travel in order in `wire'.  The observer handles one answer at  *)
(* a time (handle_forward and handle_rollback are awaited by the loop), so *)
(* a handler is one step here; what a browser sees in the middle of one is *)
(* the subject of LiveFeed, a crash in the middle of one that of EventLog.   *)
(***************************************************************************)
EXTENDS ChainTree, SequencesExt

CONSTANTS
    RecentCap,     \* blocks kept in recent_blocks (720)
    OrphanCap,     \* orphans kept for battle detection (100)
    ResumePoints,  \* points offered to findIntersection (10)
    Pipeline,      \* outstanding nextBlock requests (25)
    MaxReorgs,     \* bound: fork switches of the node
    MaxDrops       \* bound: lost connections

ASSUME CapAssumption ==
    /\ RecentCap \in Nat \ {0} /\ OrphanCap \in Nat \ {0}
    /\ ResumePoints \in Nat \ {0} /\ Pipeline \in Nat \ {0}
    /\ MaxReorgs \in Nat /\ MaxDrops \in Nat

NoPoint == "no_point"
ASSUME NoPointAssumption == NoPoint \notin Point

VARIABLES
    \* the node
    nodeTip,      \* tip of the chain it has adopted
    readPtr,      \* read pointer of the observer's connection
    owesRollback, \* the next answer must move the client to readPtr
    reorgs,       \* fork switches so far
    \* the connection
    phase,        \* where sync_once stands; "down" between two attempts
    asked,        \* the tip the node answered to queryNetwork/tip
    wire,         \* answers to nextBlock the observer has not handled
    drops,        \* connections lost so far
    \* AppState
    recent,       \* recent_blocks: the believed chain, oldest first
    orphans,      \* recently orphaned blocks
    tip,          \* the tip last reported to browsers
    \* history: what the published events say
    standing,     \* what the feed last said of each block
    battles,      \* the slot_battle events published
    pos,          \* last point handled on this connection
    restarted     \* how the client last started over: "no", "tip", "origin"

nodeVars == <<nodeTip, reorgs>>
linkVars == <<readPtr, owesRollback, phase, asked, wire, drops>>
stateVars == <<recent, orphans, tip>>
historyVars == <<standing, battles>>
vars == <<nodeVars, linkVars, stateVars, historyVars, pos, restarted>>

Message == [dir : {"forward"}, pt : Block] \cup [dir : {"backward"}, pt : Point]
Battle == [winner : Block, loser : Block, kind : {"slot", "height"}]

Init ==
    /\ nodeTip \in {b \in Block : Height(b) = 1}
    /\ readPtr = Origin /\ owesRollback = FALSE /\ reorgs = 0
    /\ phase = "down" /\ asked = NoPoint /\ wire = <<>> /\ drops = 0
    /\ recent = <<>> /\ orphans = <<>> /\ tip = NoPoint
    /\ standing = [b \in Block |-> "unseen"] /\ battles = {}
    /\ pos = NoPoint /\ restarted = "no"

-----------------------------------------------------------------------------
(* The node (external). *)

(* The next block of the adopted chain arrives. *)
Extend(b) ==
    /\ Parent(b) = nodeTip
    /\ nodeTip' = b
    /\ UNCHANGED <<reorgs, linkVars, stateVars, historyVars, pos, restarted>>

(* Chain selection prefers a chain on another fork: never a shorter one. *)
Reorg(b) ==
    /\ reorgs < MaxReorgs
    /\ ~OnChain(nodeTip, b) /\ Height(b) >= Height(nodeTip)
    /\ nodeTip' = b
    /\ reorgs' = reorgs + 1
    /\ UNCHANGED <<linkVars, stateVars, historyVars, pos, restarted>>

(* One more answer: back to the fork point when the read pointer is owed or *)
(* has left the adopted chain, else the next block of that chain.           *)
ServeBackward ==
    /\ phase = "live" /\ Len(wire) < Pipeline
    /\ owesRollback \/ ~OnChain(readPtr, nodeTip)
    /\ \E q \in Point :
          /\ IsForkPoint(q, readPtr, nodeTip)
          /\ wire' = Append(wire, [dir |-> "backward", pt |-> q])
          /\ readPtr' = q
    /\ owesRollback' = FALSE
    /\ UNCHANGED <<nodeVars, phase, asked, drops, stateVars, historyVars, pos, restarted>>

ServeForward ==
    /\ phase = "live" /\ Len(wire) < Pipeline
    /\ ~owesRollback /\ OnChain(readPtr, nodeTip)
    /\ \E b \in Block :
          /\ OnChain(b, nodeTip) /\ Parent(b) = readPtr
          /\ wire' = Append(wire, [dir |-> "forward", pt |-> b])
          /\ readPtr' = b
    /\ UNCHANGED <<nodeVars, owesRollback, phase, asked, drops, stateVars, historyVars,
                   pos, restarted>>

-----------------------------------------------------------------------------
(* sync_once: connect and find where to start. *)

(* Fault: the recorded blocks are not used. *)
ConnectAtTip ==
    /\ phase = "down"
    /\ phase' = "query_tip"
    /\ UNCHANGED <<nodeVars, readPtr, owesRollback, asked, wire, drops,
                   stateVars, historyVars, pos, restarted>>

(* The loop of run: a new attempt; without resume points the tip is asked. *)
Connect ==
    /\ phase = "down"
    /\ phase' = IF recent = <<>> THEN "query_tip" ELSE "find_points"
    /\ UNCHANGED <<nodeVars, readPtr, owesRollback, asked, wire, drops,
                   stateVars, historyVars, pos, restarted>>

(* The connection fails in any phase: run goes round its loop. *)
Drop ==
    /\ phase # "down" /\ drops < MaxDrops
    /\ phase' = "down" /\ asked' = NoPoint
    /\ wire' = <<>> /\ owesRollback' = FALSE /\ readPtr' = Origin /\ pos' = NoPoint
    /\ drops' = drops + 1
    /\ UNCHANGED <<nodeVars, stateVars, historyVars, restarted>>

(* Fault: the list is not reversed before it is cut to its first points. *)
ResumeIndexOldest == {i \in 1..Len(recent) : i <= ResumePoints}

(* recent_blocks_points: positions in recent of the points offered. *)
ResumeIndex == {i \in 1..Len(recent) : i + ResumePoints > Len(recent)}

(* The node settles on p and the pipeline is primed. *)
Attach(p) ==
    /\ phase' = "live" /\ asked' = NoPoint
    /\ readPtr' = p /\ owesRollback' = TRUE /\ wire' = <<>> /\ pos' = NoPoint

(* The points are offered newest first; the node takes the first it knows. *)
FirstKnown(i) ==
    /\ OnChain(recent[i], nodeTip)
    /\ \A j \in ResumeIndex : j > i => ~OnChain(recent[j], nodeTip)

(* findIntersection with the resume points. *)
FindByPoints ==
    /\ phase = "find_points"
    /\ \E i \in ResumeIndex : FirstKnown(i) /\ Attach(recent[i])
    /\ UNCHANGED <<nodeVars, drops, stateVars, historyVars, restarted>>

(* Fault: an intersection at origin is an error like any other; try again. *)
FindNoneBails ==
    /\ phase = "find_points"
    /\ \A i \in ResumeIndex : ~OnChain(recent[i], nodeTip)
    /\ phase' = "down"
    /\ UNCHANGED <<nodeVars, readPtr, owesRollback, asked, wire, drops,
                   stateVars, historyVars, pos, restarted>>

(* None is known: the intersection collapses to origin; use the tip. *)
FindNone ==
    /\ phase = "find_points"
    /\ \A i \in ResumeIndex : ~OnChain(recent[i], nodeTip)
    /\ phase' = "query_tip"
    /\ UNCHANGED <<nodeVars, readPtr, owesRollback, asked, wire, drops,
                   stateVars, historyVars, pos, restarted>>

QueryTip ==
    /\ phase = "query_tip"
    /\ phase' = "find_tip" /\ asked' = nodeTip
    /\ UNCHANGED <<nodeVars, readPtr, owesRollback, wire, drops,
                   stateVars, historyVars, pos, restarted>>

(* findIntersection with that tip and origin, a request later: the node may *)
(* have left the tip it answered, and then only origin is left.             *)
FindByTip ==
    /\ phase = "find_tip"
    /\ LET at == IF OnChain(asked, nodeTip) THEN asked ELSE Origin
       IN  /\ Attach(at)
           /\ restarted' = CASE recent = <<>> -> restarted
                             [] recent # <<>> /\ (at = Origin \/ restarted = "origin") -> "origin"
                             [] OTHER -> "tip"
    /\ UNCHANGED <<nodeVars, drops, stateVars, historyVars>>

-----------------------------------------------------------------------------
(* AppState bookkeeping and the two handlers. *)

(* The last n elements of a sequence. *)
LastN(s, n) == IF Len(s) <= n THEN s ELSE SubSeq(s, Len(s) - n + 1, Len(s))

(* note_block: the first orphan in the same slot, else at the same height. *)
FirstOf(S) == {i \in S : \A j \in S : i <= j}
SlotLosersByNumber(b) == {i \in 1..Len(orphans) : Slot[orphans[i]] = Slot[b]} \* fault: no hash test
SlotLosers(b) == {i \in 1..Len(orphans) : SlotRivals(b, orphans[i])}
HeightLosers(b) == {i \in 1..Len(orphans) : HeightRivals(b, orphans[i])}

(* Fault: only slots are compared. *)
SlotBattlesOf(b) ==
    {[winner |-> b, loser |-> orphans[i], kind |-> "slot"] : i \in FirstOf(SlotLosers(b))}

BattlesOf(b) ==
    IF SlotLosers(b) # {}
    THEN {[winner |-> b, loser |-> orphans[i], kind |-> "slot"] : i \in FirstOf(SlotLosers(b))}
    ELSE {[winner |-> b, loser |-> orphans[i], kind |-> "height"] : i \in FirstOf(HeightLosers(b))}

(* Fault: a full list takes no new block. *)
NotedUnlessFull(b) == IF Len(recent) >= RecentCap THEN recent ELSE Append(recent, b)

(* recent_blocks after note_block(b). *)
Noted(b) == Append(IF Len(recent) >= RecentCap THEN Tail(recent) ELSE recent, b)

TipIfHigher(b) == IF tip = NoPoint THEN b          \* fault: the tip never goes down
                  ELSE IF Height(b) > Height(tip) THEN b ELSE tip
TipAfter(b) == b

(* handle_forward: note the block, publish it and any battle, move the tip. *)
HandleForward ==
    /\ phase = "live" /\ wire # <<>> /\ Head(wire).dir = "forward"
    /\ LET b == Head(wire).pt
       IN  /\ battles' = battles \cup BattlesOf(b)
           /\ recent' = Noted(b)
           /\ standing' = [standing EXCEPT ![b] = "current"]
           /\ tip' = TipAfter(b)
           /\ pos' = b
    /\ wire' = Tail(wire)
    /\ UNCHANGED <<nodeVars, readPtr, owesRollback, phase, asked, drops, orphans, restarted>>

(* Fault: pop the block at the slot too. *)
KeepsFirstBelow(n, slot) ==
    /\ n \in 0..Len(recent)
    /\ \A i \in (n + 1)..Len(recent) : Slot[recent[i]] >= slot
    /\ n > 0 => Slot[recent[n]] < slot

(* rollback_to(slot) keeps the first n blocks: it pops while the last block *)
(* is above the slot.                                                       *)
KeepsFirst(n, slot) ==
    /\ n \in 0..Len(recent)
    /\ \A i \in (n + 1)..Len(recent) : Slot[recent[i]] > slot
    /\ n > 0 => Slot[recent[n]] <= slot

(* The blocks handle_rollback publishes as orphaned. *)
NewestLost(lost) == {lost[i] : i \in {j \in 1..Len(lost) : j = Len(lost)}} \* fault: only one
AllLost(lost) == {lost[i] : i \in 1..Len(lost)}

(* handle_rollback: blocks above the point are orphaned, newest first, and  *)
(* published as such; a point without a slot (origin) is ignored.           *)
HandleBackward ==
    /\ phase = "live" /\ wire # <<>> /\ Head(wire).dir = "backward"
    /\ LET q == Head(wire).pt
       IN  /\ pos' = q
           /\ IF q = Origin
              THEN UNCHANGED <<recent, orphans, standing>>
              ELSE \E n \in 0..Len(recent) :
                      /\ KeepsFirst(n, Slot[q])
                      /\ LET lost == SubSeq(recent, n + 1, Len(recent))
                         IN  /\ recent' = SubSeq(recent, 1, n)
                             /\ orphans' = LastN(orphans \o Reverse(lost), OrphanCap)
                             /\ standing' = [b \in Block |-> IF b \in AllLost(lost)
                                                             THEN "orphaned" ELSE standing[b]]
    /\ wire' = Tail(wire)
    /\ UNCHANGED <<nodeVars, readPtr, owesRollback, phase, asked, drops, tip, battles, restarted>>

-----------------------------------------------------------------------------
Sync ==
    \/ Connect \/ FindByPoints \/ FindNone \/ QueryTip \/ FindByTip
    \/ HandleForward \/ HandleBackward

Serve == ServeBackward \/ ServeForward

Next ==
    \/ \E b \in Block : Extend(b) \/ Reorg(b)
    \/ Serve
    \/ Drop
    \/ Sync

Spec == Init /\ [][Next]_vars

(* The node answers outstanding requests and the loops of run and sync_once *)
(* never stop; nothing makes the node grow its chain or drop the link.      *)
FairSpec == Spec /\ WF_vars(Sync) /\ WF_vars(Serve)

-----------------------------------------------------------------------------
(* Properties. *)

(* Types, and the capacities of recent_blocks, orphans and the pipeline. *)
TypeOK ==
    /\ nodeTip \in Block /\ reorgs \in 0..MaxReorgs
    /\ readPtr \in Point /\ owesRollback \in BOOLEAN
    /\ phase \in {"down", "find_points", "query_tip", "find_tip", "live"}
    /\ asked \in Block \cup {NoPoint}
    /\ wire \in Seq(Message) /\ Len(wire) <= Pipeline
    /\ drops \in 0..MaxDrops
    /\ recent \in Seq(Block) /\ Len(recent) <= RecentCap
    /\ orphans \in Seq(Block) /\ Len(orphans) <= OrphanCap
    /\ tip \in Block \cup {NoPoint}
    /\ standing \in [Block -> {"unseen", "current", "orphaned"}]
    /\ battles \subseteq Battle
    /\ pos \in Point \cup {NoPoint}
    /\ restarted \in {"no", "tip", "origin"}

(* "Recent blocks on the (believed) current chain" (state.rs): while the    *)
(* client never had to start over, each recorded block is the child of the  *)
(* one before it, whatever forks, reconnects and evictions did.             *)
RecentIsChain ==
    restarted = "no" =>
        \A i \in 1..(Len(recent) - 1) : Parent(recent[i + 1]) = recent[i]

(* rollback_to pops by slot and stops at the first block not above it: that *)
(* is right only if slots grow along recent_blocks, also across a restart   *)
(* at the node's tip that leaves blocks of an abandoned fork in the list.   *)
SlotsGrow ==
    restarted # "origin" =>
        \A i \in 1..(Len(recent) - 1) : Slot[recent[i]] < Slot[recent[i + 1]]

(* Once a connection has moved the client to a point, the believed chain    *)
(* ends exactly there: rollbacks neither leave a dead block behind nor take *)
(* one too many, even when several answers were already in flight.          *)
EndsAtPosition ==
    phase = "live" /\ pos # NoPoint /\ restarted = "no" /\ recent # <<>> =>
        recent[Len(recent)] = pos

(* Every block a reader of the feed still holds as current is in            *)
(* recent_blocks and nothing else is, so every later rollback finds the     *)
(* blocks it must report (capacities not exceeded, no replay from origin).  *)
CurrentIsRecent ==
    restarted # "origin" =>
        \A b \in Block :
            standing[b] = "current" <=> \E i \in 1..Len(recent) : recent[i] = b

(* A dropped connection alone never makes the observer report a fork: "the  *)
(* first backward after (re)connecting normally just moves us to the        *)
(* intersection point and orphans nothing" (ogmios.rs).                     *)
NoForkNoOrphan ==
    reorgs = 0 => \A b \in Block : standing[b] # "orphaned"

(* A slot_battle event tells the truth when it is published: the winner is  *)
(* current, the loser was announced, is not part of the believed chain, and *)
(* the two compete.  (The orphan list is never cleaned when a fork wins     *)
(* back, so it also holds current blocks.)                                  *)
BattlesAreReal ==
    [][\A t \in battles' \ battles :
          /\ standing'[t.winner] = "current"
          /\ restarted # "origin" => standing'[t.loser] = "orphaned"
          /\ IF t.kind = "slot" THEN SlotRivals(t.winner, t.loser)
                                ELSE HeightRivals(t.winner, t.loser)]_battles

(* No battle goes unreported: a current block that took the slot or height  *)
(* of an orphaned block is the winner of a published battle with a rival    *)
(* (at most one battle per adoption; orphan capacity not exceeded).         *)
BattlesReported ==
    restarted = "no" =>
        \A b, c \in Block :
            standing[b] = "current" /\ standing[c] = "orphaned" /\ Rivals(b, c) =>
                \E t \in battles : t.winner = b /\ Rivals(b, t.loser)

(* The feed keeps its promise to readers (see ChainFeed). *)
Feed == INSTANCE ChainFeed WITH broken <- restarted # "no"
KeepsPromise == Feed!Spec

(* "Never replay the whole chain from genesis; restart from the tip         *)
(* instead" (ogmios.rs): a client that has recorded blocks is never served  *)
(* from origin, even when none of its resume points is known any more.      *)
NeverReplaysGenesis == phase = "live" /\ recent # <<>> => readPtr # Origin

(* When the node settles and the link stops failing, the observer catches   *)
(* up: the believed chain ends in the node's tip for good.  Without any     *)
(* recorded block there is nothing to compare; then the read pointer is     *)
(* at the tip and all answers are handled.                                  *)
CaughtUp ==
    /\ phase = "live" /\ ~owesRollback /\ readPtr = nodeTip /\ wire = <<>>
    /\ recent # <<>> /\ restarted = "no" => recent[Len(recent)] = nodeTip
Converges == <>[]CaughtUp

(* The tip shown in the header (state.tip is set by handle_forward only; a  *)
(* rollback leaves it on the orphaned block) ends up on the believed chain. *)
TipSettles ==
    <>[](recent # <<>> /\ restarted = "no" => tip = recent[Len(recent)])

-----------------------------------------------------------------------------
(* The inductive invariant behind RecentIsChain, SlotsGrow, EndsAtPosition. *)

(* The believed chain is a run of blocks of the one chain its end is on.    *)
RecentIsRun ==
    restarted = "no" /\ recent # <<>> =>
        LET end  == recent[Len(recent)]
            base == Height(end) - Len(recent)
        IN  base >= 0 /\ \A i \in 1..Len(recent) : recent[i] = Path[end][base + i]

(* Answers in flight lead from the client's position to the read pointer:   *)
(* a forward to a child, a backward to an ancestor; the first answer on a   *)
(* connection is the backward the node owes.                                *)
WireLeads ==
    /\ phase # "live" => wire = <<>> /\ ~owesRollback /\ pos = NoPoint
    /\ owesRollback => wire = <<>> /\ pos = NoPoint
    /\ wire # <<>> => readPtr = wire[Len(wire)].pt
    /\ wire = <<>> /\ pos # NoPoint => readPtr = pos
    /\ phase = "live" /\ ~owesRollback /\ pos = NoPoint =>
          wire # <<>> /\ wire[1].dir = "backward"
    /\ \A i \in 1..Len(wire) :
          i > 1 \/ pos # NoPoint =>
              LET from == IF i = 1 THEN pos ELSE wire[i - 1].pt
              IN  IF wire[i].dir = "forward" THEN Parent(wire[i].pt) = from
                  ELSE wire[i].pt # Origin /\ OnChain(wire[i].pt, from)

(* The point a connection starts from is one the believed chain can be cut  *)
(* back to, or the client is known to have started over.                    *)
Resumable(p) ==
    \/ recent = <<>> \/ restarted = "origin"
    \/ p # Origin /\ restarted = "tip"
    \/ p # Origin /\ \E i \in 1..Len(recent) : OnChain(p, recent[i])

StartsWell ==
    /\ owesRollback => Resumable(readPtr)
    /\ phase = "live" /\ pos = NoPoint /\ wire # <<>> => Resumable(wire[1].pt)

(* Recorded blocks are not above the client's position.                     *)
BelowPosition ==
    pos # NoPoint /\ restarted # "origin" /\ recent # <<>> =>
        /\ pos # Origin /\ Slot[recent[Len(recent)]] <= Slot[pos]
        /\ restarted = "no" => recent[Len(recent)] = pos

ChainInv ==
    TypeOK /\ SlotsGrow /\ RecentIsRun /\ WireLeads /\ StartsWell /\ BelowPosition

=============================================================================
