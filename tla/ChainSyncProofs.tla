--------------------------- MODULE ChainSyncProofs ---------------------------
(***************************************************************************)
(* Facts about block trees, and proofs about ChainSync, for every block    *)
(* tree and every capacity: its state, then what readers of its feed are   *)
(* told.                                                                   *)
(***************************************************************************)
EXTENDS ChainSync, DataLemmas

-----------------------------------------------------------------------------
(* Block trees. *)

(* A point of a chain: its path is the chain up to it. *)
LEMMA PathPrefix ==
    ASSUME NEW t \in Block, NEW i \in 1..Len(Path[t])
    PROVE  /\ Path[t] \in Seq(Block) /\ Len(Path[t]) \in Nat
           /\ Path[t][i] \in Block
           /\ Len(Path[Path[t][i]]) = i
           /\ \A j \in 1..i : Path[Path[t][i]][j] = Path[t][j]
  <1>1. Path[t] \in Seq(Block) /\ Len(Path[t]) \in Nat
    BY TreeAssumption
  <1>2. Path[t][i] \in Block
    BY <1>1, ElementOfSeq
  <1>3. Path[Path[t][i]] = SubSeq(Path[t], 1, i)
    BY ONLY TreeAssumption, Zenon
  <1>4. QED
    BY <1>1, <1>2, <1>3

(* Every block ends its own chain. *)
LEMMA PathEnd ==
    ASSUME NEW b \in Block
    PROVE  /\ Path[b] \in Seq(Block) /\ Len(Path[b]) \in Nat /\ Len(Path[b]) > 0
           /\ Path[b][Len(Path[b])] = b
           /\ Height(b) = Len(Path[b]) /\ b # Origin
           /\ OnChain(b, b)
  <1>1. Path[b] \in Seq(Block) /\ Len(Path[b]) \in Nat
    BY TreeAssumption
  <1>6. b # Origin
    BY ONLY TreeAssumption, Zenon
  <1>2. Len(Path[b]) > 0 /\ Path[b][Len(Path[b])] = b
    BY ONLY TreeAssumption, Zenon
  <1>3. Len(Path[b]) \in 1..Len(Path[b])
    BY <1>1, <1>2
  <1>4. OnChain(b, b)
    BY <1>2, <1>3, <1>6 DEF OnChain
  <1>5. QED
    BY <1>1, <1>2, <1>4, <1>6 DEF Height

(* Being on a chain is transitive. *)
LEMMA OnChainTransitive ==
    ASSUME NEW p \in Point, NEW q \in Point, NEW t \in Point,
           OnChain(p, q), OnChain(q, t)
    PROVE  OnChain(p, t)
  <1>1. CASE p = Origin
    BY <1>1 DEF OnChain
  <1>2. CASE p # Origin
    <2>1. q # Origin /\ t # Origin /\ q \in Block /\ t \in Block
      BY <1>2 DEF OnChain, Point
    <2>2. PICK i \in 1..Len(Path[t]) : Path[t][i] = q
      BY <2>1 DEF OnChain
    <2>3. PICK j \in 1..Len(Path[q]) : Path[q][j] = p
      BY <1>2 DEF OnChain
    <2>4. j \in 1..i /\ Path[t][j] = p
      BY <2>1, <2>2, <2>3, PathPrefix
    <2>5. j \in 1..Len(Path[t])
      BY <2>1, <2>2, <2>4, PathEnd
    <2>6. QED
      BY <2>1, <2>4, <2>5 DEF OnChain
  <1>3. QED
    BY <1>1, <1>2

(* Two chains that both hold blocks share more than the origin. *)
LEMMA ForkPointIsBlock ==
    ASSUME NEW p \in Block, NEW t \in Block, NEW q \in Point, IsForkPoint(q, p, t)
    PROVE  q # Origin
  <1> DEFINE c == Path[p][1]
  <1>1. 1 \in 1..Len(Path[p]) /\ 1 \in 1..Len(Path[t])
    BY PathEnd
  <1>2. c \in Block /\ Len(Path[c]) = 1 /\ c = Path[t][1]
    <2>1. c \in Block /\ Len(Path[c]) = 1
      BY <1>1, PathPrefix
    <2>2. c = Path[t][1]
      BY TreeAssumption, Zenon
    <2>3. QED
      BY <2>1, <2>2
  <1>3. OnChain(c, p) /\ OnChain(c, t)
    BY <1>1, <1>2, TreeAssumption DEF OnChain
  <1>4. Height(c) = 1 /\ Height(Origin) = 0
    BY <1>2, PathEnd DEF Height
  <1>5. QED
    BY <1>2, <1>3, <1>4 DEF IsForkPoint

(* The position of a block on a chain is monotone in its slot. *)
LEMMA SlotsOrderPath ==
    ASSUME NEW t \in Block, NEW i \in 1..Len(Path[t]), NEW j \in 1..Len(Path[t])
    PROVE  /\ Slot[Path[t][i]] \in Nat
           /\ Slot[Path[t][i]] <= Slot[Path[t][j]] <=> i <= j
  <1>1. Len(Path[t]) \in Nat /\ Path[t][i] \in Block /\ Path[t][j] \in Block
    BY PathPrefix
  <1>2. Slot[Path[t][i]] \in Nat /\ Slot[Path[t][j]] \in Nat
    BY <1>1, TreeAssumption
  <1>3. (i < j => Slot[Path[t][i]] < Slot[Path[t][j]])
        /\ (j < i => Slot[Path[t][j]] < Slot[Path[t][i]])
    BY TreeAssumption
  <1>4. i < j \/ i = j \/ j < i
    BY <1>1
  <1>5. QED
    BY <1>1, <1>2, <1>3, <1>4

(* The chain of a child is the chain of its parent and the child. *)
LEMMA ChildPath ==
    ASSUME NEW b \in Block, NEW p \in Block, Parent(b) = p
    PROVE  /\ Len(Path[b]) = Len(Path[p]) + 1
           /\ \A i \in 1..Len(Path[p]) : Path[b][i] = Path[p][i]
           /\ Slot[p] < Slot[b]
  <1>1. p # Origin
    BY ONLY TreeAssumption, Zenon
  <1>2. Len(Path[b]) # 1 /\ p = Path[b][Len(Path[b]) - 1]
    BY <1>1 DEF Parent
  <1>3. Len(Path[b]) \in Nat /\ Len(Path[b]) > 0 /\ Path[b][Len(Path[b])] = b
    BY PathEnd
  <1>4. /\ Len(Path[b]) - 1 \in 1..Len(Path[b]) /\ Len(Path[b]) \in 1..Len(Path[b])
    <2> DEFINE n == Len(Path[b])
    <2>1. n \in Nat /\ n > 0 /\ n # 1
      BY <1>2, <1>3
    <2> HIDE DEF n
    <2>2. n - 1 \in 1..n /\ n \in 1..n
      BY <2>1
    <2>3. QED
      BY <2>2 DEF n
  <1>5. Len(Path[p]) = Len(Path[b]) - 1
        /\ \A i \in 1..(Len(Path[b]) - 1) : Path[p][i] = Path[b][i]
    BY <1>2, <1>4, PathPrefix, SMTT(30)
  <1>6. ~(Slot[b] <= Slot[p]) /\ Slot[p] \in Nat /\ Slot[b] \in Nat
    BY <1>2, <1>3, <1>4, SlotsOrderPath, SMTT(30)
  <1>7. QED
    BY <1>3, <1>5, <1>6

-----------------------------------------------------------------------------
(* Sequences, and what one step does to the types. *)

(* Taking a bounded tail of a sequence: type and length. *)
LEMMA LastNBounded ==
    ASSUME NEW S, NEW s \in Seq(S), NEW n \in Nat \ {0}
    PROVE  LastN(s, n) \in Seq(S) /\ Len(LastN(s, n)) <= n
  <1>1. CASE Len(s) <= n
    BY <1>1 DEF LastN
  <1>2. CASE ~(Len(s) <= n)
    <2>1. Len(s) \in Nat /\ Len(s) - n + 1 \in 1..Len(s)
      BY <1>2
    <2>2. /\ SubSeq(s, Len(s) - n + 1, Len(s)) \in Seq(S)
          /\ Len(SubSeq(s, Len(s) - n + 1, Len(s))) = n
      BY <1>2, <2>1, SubSeqProperties
    <2>3. QED
      BY <1>2, <2>2 DEF LastN
  <1>3. QED
    BY <1>1, <1>2

(* Reversing keeps the type. *)
LEMMA ReverseType ==
    ASSUME NEW S, NEW s \in Seq(S)
    PROVE  Reverse(s) \in Seq(S)
  BY DEF Reverse

(* recent_blocks after a block is noted: type and capacity. *)
LEMMA NotedType ==
    ASSUME NEW b \in Block, recent \in Seq(Block), Len(recent) <= RecentCap
    PROVE  Noted(b) \in Seq(Block) /\ Len(Noted(b)) <= RecentCap
  <1>1. RecentCap \in Nat \ {0}
    BY CapAssumption
  <1>2. CASE Len(recent) >= RecentCap
    <2>1. recent # <<>>
      BY <1>1, <1>2
    <2>2. Tail(recent) \in Seq(Block) /\ Len(Tail(recent)) = Len(recent) - 1
      BY <2>1, HeadTailProperties
    <2>3. QED
      BY <1>1, <1>2, <2>2, AppendProperties DEF Noted
  <1>3. CASE ~(Len(recent) >= RecentCap)
    BY <1>1, <1>3, AppendProperties DEF Noted
  <1>4. QED
    BY <1>2, <1>3

(* The battles note_block reports are between announced blocks. *)
LEMMA BattlesType ==
    ASSUME NEW b \in Block, orphans \in Seq(Block)
    PROVE  BattlesOf(b) \subseteq Battle
  <1>1. \A i \in SlotLosers(b) \cup HeightLosers(b) : orphans[i] \in Block
    BY DEF SlotLosers, HeightLosers
  <1>2. FirstOf(SlotLosers(b)) \subseteq SlotLosers(b)
        /\ FirstOf(HeightLosers(b)) \subseteq HeightLosers(b)
    BY DEF FirstOf
  <1>3. QED
    BY <1>1, <1>2 DEF BattlesOf, Battle

-----------------------------------------------------------------------------
(* Each group of steps keeps the types. *)

LEMMA InitTypeOK == Init => TypeOK
  <1> SUFFICES ASSUME Init PROVE TypeOK
    OBVIOUS
  <1>1. /\ MaxReorgs \in Nat /\ MaxDrops \in Nat /\ Pipeline \in Nat
        /\ RecentCap \in Nat /\ OrphanCap \in Nat
    BY CapAssumption
  <1>2. /\ wire \in Seq(Message) /\ recent \in Seq(Block) /\ orphans \in Seq(Block)
        /\ Len(wire) = 0 /\ Len(recent) = 0 /\ Len(orphans) = 0
    BY DEF Init
  <1>3. standing \in [Block -> {"unseen", "current", "orphaned"}] /\ battles \subseteq Battle
    BY DEF Init
  <1>4. nodeTip \in Block
    BY DEF Init
  <1>5. owesRollback \in BOOLEAN
    BY Zenon DEF Init
  <1>6. /\ reorgs \in 0..MaxReorgs /\ readPtr \in Point /\ drops \in 0..MaxDrops
        /\ phase = "down" /\ asked = NoPoint /\ tip = NoPoint /\ pos = NoPoint
        /\ restarted = "no"
    BY <1>1 DEF Init, Point
  <1>7. QED
    BY <1>1, <1>2, <1>3, <1>4, <1>5, <1>6 DEF TypeOK

USE DEF vars, nodeVars, linkVars, stateVars, historyVars

LEMMA NodeTypeOK ==
    ASSUME TypeOK, NEW b \in Block, Extend(b) \/ Reorg(b)
    PROVE  TypeOK'
  BY CapAssumption DEF TypeOK, Extend, Reorg

LEMMA ServeTypeOK ==
    ASSUME TypeOK, Serve
    PROVE  TypeOK'
  <1>1. ASSUME NEW m \in Message, wire' = Append(wire, m), Len(wire) < Pipeline
        PROVE  wire' \in Seq(Message) /\ Len(wire') <= Pipeline
    BY <1>1, CapAssumption DEF TypeOK
  <1>2. CASE ServeBackward
    <2>1. PICK q \in Point : /\ wire' = Append(wire, [dir |-> "backward", pt |-> q])
                             /\ readPtr' = q
      BY <1>2 DEF ServeBackward
    <2>2. wire' \in Seq(Message) /\ Len(wire') <= Pipeline
      BY <1>1, <1>2, <2>1 DEF ServeBackward, Message
    <2>3. QED
      BY <1>2, <2>1, <2>2 DEF TypeOK, ServeBackward
  <1>3. CASE ServeForward
    <2>1. PICK b \in Block : /\ wire' = Append(wire, [dir |-> "forward", pt |-> b])
                             /\ readPtr' = b
      BY <1>3 DEF ServeForward
    <2>2. wire' \in Seq(Message) /\ Len(wire') <= Pipeline
      BY <1>1, <1>3, <2>1 DEF ServeForward, Message
    <2>3. QED
      BY <1>3, <2>1, <2>2 DEF TypeOK, ServeForward, Point
  <1>4. QED
    BY <1>2, <1>3 DEF Serve

(* The client is only ever attached to a point. *)
LEMMA FindTipPoint ==
    ASSUME TypeOK, FindByTip
    PROVE  (IF OnChain(asked, nodeTip) THEN asked ELSE Origin) \in Point
  <1>1. asked = NoPoint => \A i \in 1..Len(Path[nodeTip]) : Path[nodeTip][i] # asked
    BY NoPointAssumption, PathPrefix DEF TypeOK, Point
  <1>2. asked \in Point \/ ~OnChain(asked, nodeTip)
    BY <1>1, NoPointAssumption DEF OnChain, TypeOK, Point
  <1>3. QED
    BY <1>2 DEF Point

LEMMA LinkTypeOK ==
    ASSUME TypeOK, Connect \/ Drop \/ FindByPoints \/ FindNone \/ QueryTip \/ FindByTip
    PROVE  TypeOK'
  <1>1. CASE Connect \/ FindNone \/ QueryTip
    BY <1>1, CapAssumption DEF TypeOK, Connect, FindNone, QueryTip, Point
  <1>5. CASE Drop
    <2>1. drops' \in 0..MaxDrops
      BY <1>5, CapAssumption DEF TypeOK, Drop
    <2>2. wire' \in Seq(Message) /\ Len(wire') <= Pipeline
      BY <1>5, CapAssumption DEF Drop
    <2>3. QED
      BY <1>5, <2>1, <2>2 DEF TypeOK, Drop, Point
  <1>2. CASE FindByPoints
    <2>1. PICK i \in ResumeIndex : Attach(recent[i])
      BY <1>2 DEF FindByPoints
    <2>2. recent[i] \in Block
      BY <2>1 DEF ResumeIndex, TypeOK
    <2>3. QED
      BY <1>2, <2>1, <2>2, CapAssumption DEF TypeOK, FindByPoints, Attach, Point
  <1>3. CASE FindByTip
    <2>2. readPtr' \in Point
      BY <1>3, FindTipPoint DEF FindByTip, Attach
    <2>3. QED
      BY <1>3, <2>2, CapAssumption DEF TypeOK, FindByTip, Attach
  <1>4. QED
    BY <1>1, <1>2, <1>3, <1>5

LEMMA HandleTypeOK ==
    ASSUME TypeOK, HandleForward \/ HandleBackward
    PROVE  TypeOK'
  <1>1. wire # <<>> /\ Head(wire) \in Message
        /\ wire' = Tail(wire) /\ wire' \in Seq(Message) /\ Len(wire') <= Pipeline
    <2>1. wire # <<>> /\ wire' = Tail(wire) /\ wire \in Seq(Message)
          /\ Len(wire) \in Nat /\ Len(wire) <= Pipeline
      BY DEF HandleForward, HandleBackward, TypeOK
    <2>2. Head(wire) \in Message /\ Tail(wire) \in Seq(Message)
          /\ Len(Tail(wire)) = Len(wire) - 1
      BY <2>1, HeadTailProperties
    <2>3. Pipeline \in Nat
      BY CapAssumption
    <2>4. QED
      BY <2>1, <2>2, <2>3
  <1>2. CASE HandleForward
    <2> DEFINE b == Head(wire).pt
    <2>1. b \in Block
      BY <1>1, <1>2 DEF HandleForward, Message
    <2>2. recent' \in Seq(Block) /\ Len(recent') <= RecentCap
      BY <1>2, <2>1, NotedType DEF HandleForward, TypeOK
    <2>3. battles' \subseteq Battle
      BY <1>2, <2>1, BattlesType DEF HandleForward, TypeOK
    <2>4. standing' \in [Block -> {"unseen", "current", "orphaned"}]
      BY <1>2, <2>1 DEF HandleForward, TypeOK
    <2>5. QED
      BY <1>1, <1>2, <2>1, <2>2, <2>3, <2>4 DEF HandleForward, TypeOK, TipAfter, Point
  <1>3. CASE HandleBackward
    <2> DEFINE q == Head(wire).pt
    <2>1. q \in Point
      BY <1>1 DEF Message, Point
    <2>2. CASE q = Origin
      BY <1>1, <1>3, <2>1, <2>2 DEF HandleBackward, TypeOK
    <2>3. CASE q # Origin
      <3>1. PICK n \in 0..Len(recent) :
               LET lost == SubSeq(recent, n + 1, Len(recent))
               IN  /\ recent' = SubSeq(recent, 1, n)
                   /\ orphans' = LastN(orphans \o Reverse(lost), OrphanCap)
                   /\ standing' = [b \in Block |-> IF b \in AllLost(lost)
                                                   THEN "orphaned" ELSE standing[b]]
        BY <1>3, <2>3 DEF HandleBackward
      <3> DEFINE lost == SubSeq(recent, n + 1, Len(recent))
      <3>2. recent \in Seq(Block) /\ Len(recent) \in Nat /\ Len(recent) <= RecentCap
        BY DEF TypeOK
      <3>3. recent' \in Seq(Block) /\ Len(recent') = n
        BY <3>1, <3>2, SubSeqProperties
      <3>4. lost \in Seq(Block)
        BY <3>1, <3>2, SubSeqProperties
      <3>5. orphans' \in Seq(Block) /\ Len(orphans') <= OrphanCap
        <4>1. orphans \o Reverse(lost) \in Seq(Block)
          BY <3>4, ReverseType, ConcatProperties DEF TypeOK
        <4>2. QED
          BY <3>1, <4>1, LastNBounded, CapAssumption
      <3>6. standing' \in [Block -> {"unseen", "current", "orphaned"}]
        BY <3>1 DEF TypeOK
      <3>7. Len(recent') <= RecentCap
        BY <3>1, <3>2, <3>3, CapAssumption
      <3>8. QED
        BY <1>1, <1>3, <2>1, <3>3, <3>5, <3>6, <3>7 DEF HandleBackward, TypeOK
    <2>4. QED
      BY <2>2, <2>3
  <1>4. QED
    BY <1>2, <1>3

LEMMA StepTypeOK == TypeOK /\ [Next]_vars => TypeOK'
  <1> SUFFICES ASSUME TypeOK, [Next]_vars PROVE TypeOK'
    OBVIOUS
  <1>1. ASSUME NEW b \in Block, Extend(b) \/ Reorg(b) PROVE TypeOK'
    BY <1>1, NodeTypeOK
  <1>2. CASE Serve
    BY <1>2, ServeTypeOK
  <1>3. CASE Drop \/ Sync
    BY <1>3, LinkTypeOK, HandleTypeOK DEF Sync
  <1>4. CASE UNCHANGED vars
    BY <1>4 DEF TypeOK
  <1>5. QED
    BY <1>1, <1>2, <1>3, <1>4 DEF Next

(* Every reachable state is well typed and every buffer within capacity:    *)
(* recent_blocks, the orphan list and the pipelined answers never outgrow   *)
(* their bounds, whatever the node and the network do.                      *)
THEOREM TypeCorrect == Spec => []TypeOK
  BY InitTypeOK, StepTypeOK, PTL DEF Spec

-----------------------------------------------------------------------------
(* Answers in flight lead from the client's position to the read pointer:   *)
(* WireLeads on its own, whatever recent_blocks holds.                      *)

(* What the node answers: the rollback it owes, the next block of its chain *)
(* or the way back to it.                                                   *)
Answer(m) ==
    /\ phase = "live" /\ UNCHANGED <<phase, pos, recent, restarted>>
    /\ wire' = Append(wire, m) /\ readPtr' = m.pt /\ ~owesRollback'
    /\ owesRollback => /\ m.dir = "backward" /\ OnChain(m.pt, readPtr)
                       /\ readPtr # Origin => m.pt # Origin
    /\ ~owesRollback => /\ wire # <<>> \/ pos # NoPoint
                        /\ IF m.dir = "forward" THEN Parent(m.pt) = readPtr
                           ELSE m.pt # Origin /\ OnChain(m.pt, readPtr)

LEMMA AnswerFacts ==
    ASSUME TypeOK, WireLeads, Serve
    PROVE  \E m \in Message : Answer(m)
  <1>1. CASE ServeBackward
    <2>1. PICK q \in Point : /\ IsForkPoint(q, readPtr, nodeTip)
                             /\ wire' = Append(wire, [dir |-> "backward", pt |-> q])
                             /\ readPtr' = q
      BY <1>1 DEF ServeBackward
    <2> DEFINE m == [dir |-> "backward", pt |-> q]
    <2>2. m \in Message /\ m.dir = "backward" /\ m.pt = q
      BY DEF Message
    <2>3. OnChain(q, readPtr) /\ readPtr \in Point /\ nodeTip \in Block
      BY <2>1 DEF IsForkPoint, TypeOK
    <2>4. readPtr # Origin => q # Origin
      BY <2>1, <2>3, ForkPointIsBlock DEF Point
    <2>5. ~owesRollback => readPtr # Origin
      BY <1>1 DEF ServeBackward, OnChain
    <2>6. UNCHANGED <<phase, pos, recent, restarted>> /\ phase = "live"
      BY <1>1 DEF ServeBackward
    <2>7. ~owesRollback'
      BY <1>1, Zenon DEF ServeBackward
    <2>8. ~owesRollback => wire # <<>> \/ pos # NoPoint
      BY <2>6 DEF WireLeads
    <2>9. wire' = Append(wire, m) /\ readPtr' = m.pt
      BY <2>1, <2>2
    <2> HIDE DEF m
    <2>10. QED
      BY <2>2, <2>3, <2>4, <2>5, <2>6, <2>7, <2>8, <2>9 DEF Answer
  <1>2. CASE ServeForward
    <2>1. PICK b \in Block : /\ Parent(b) = readPtr
                             /\ wire' = Append(wire, [dir |-> "forward", pt |-> b])
                             /\ readPtr' = b
      BY <1>2 DEF ServeForward
    <2> DEFINE m == [dir |-> "forward", pt |-> b]
    <2>2. m \in Message /\ m.dir = "forward" /\ m.pt = b
      BY DEF Message
    <2>3. ~owesRollback /\ ~owesRollback'
      BY <1>2, Zenon DEF ServeForward
    <2>4. UNCHANGED <<phase, pos, recent, restarted>> /\ phase = "live"
      BY <1>2 DEF ServeForward
    <2>5. wire # <<>> \/ pos # NoPoint
      BY <2>3, <2>4 DEF WireLeads
    <2>6. wire' = Append(wire, m) /\ readPtr' = m.pt
      BY <2>1, <2>2
    <2> HIDE DEF m
    <2>7. QED
      BY <2>1, <2>2, <2>3, <2>4, <2>5, <2>6 DEF Answer
  <1>3. QED
    BY <1>1, <1>2 DEF Serve

LEMMA AnswerLeads ==
    ASSUME TypeOK, WireLeads, NEW m \in Message, Answer(m)
    PROVE  WireLeads' /\ wire' # <<>> /\ wire'[1] = IF wire = <<>> THEN m ELSE wire[1]
  <1> DEFINE n == Len(wire)
  <1>1. /\ wire \in Seq(Message) /\ n \in Nat /\ Len(wire') = n + 1
        /\ \A i \in 1..n : wire'[i] = wire[i]
        /\ wire'[n + 1] = m /\ wire' # <<>>
    BY AppendProperties DEF TypeOK, Answer
  <1>2. /\ owesRollback => n = 0 /\ pos = NoPoint
        /\ n > 0 => readPtr = wire[n].pt
        /\ n = 0 /\ pos # NoPoint => readPtr = pos
        /\ n = 0 <=> wire = <<>>
        /\ pos' = pos
    BY <1>1 DEF WireLeads, Answer
  <1>3. \A i \in 1..(n + 1) :
           i > 1 \/ pos' # NoPoint =>
               LET from == IF i = 1 THEN pos' ELSE wire'[i - 1].pt
               IN  IF wire'[i].dir = "forward" THEN Parent(wire'[i].pt) = from
                   ELSE wire'[i].pt # Origin /\ OnChain(wire'[i].pt, from)
    <2> SUFFICES ASSUME NEW i \in 1..(n + 1), i > 1 \/ pos # NoPoint
                 PROVE  LET from == IF i = 1 THEN pos ELSE wire'[i - 1].pt
                        IN  IF wire'[i].dir = "forward" THEN Parent(wire'[i].pt) = from
                            ELSE wire'[i].pt # Origin /\ OnChain(wire'[i].pt, from)
      BY <1>2
    <2>1. CASE i \in 1..n
      <3>1. wire'[i] = wire[i] /\ (i > 1 => wire'[i - 1] = wire[i - 1])
        BY <1>1, <2>1
      <3>2. QED
        BY <2>1, <3>1 DEF WireLeads
    <2>2. CASE i = n + 1
      <3>1. ~owesRollback
        BY <1>1, <1>2, <2>2
      <3>2. readPtr = IF i = 1 THEN pos ELSE wire'[i - 1].pt
        BY <1>1, <1>2, <2>2
      <3>3. wire'[i] = m
        BY <1>1, <2>2
      <3>4. QED
        BY <3>1, <3>2, <3>3 DEF Answer
    <2>3. QED
      BY <1>1, <2>1, <2>2
  <1>4. wire'[1] = IF wire = <<>> THEN m ELSE wire[1]
    BY <1>1, <1>2
  <1>5. pos = NoPoint => wire'[1].dir = "backward"
    BY <1>2, <1>4 DEF WireLeads, Answer
  <1>6. WireLeads'
    BY <1>1, <1>2, <1>3, <1>5 DEF WireLeads, Answer
  <1>7. QED
    BY <1>1, <1>4, <1>6

(* Handling the first answer keeps the rest leading on from the new position. *)
LEMMA TailLeads ==
    ASSUME TypeOK, WireLeads, wire # <<>>, phase = "live",
           wire' = Tail(wire), pos' = wire[1].pt,
           UNCHANGED <<phase, readPtr, owesRollback>>
    PROVE  WireLeads' /\ ~owesRollback /\ pos' # NoPoint
  <1> DEFINE n == Len(wire)
  <1>1. /\ wire \in Seq(Message) /\ n \in Nat /\ n > 0 /\ Len(wire') = n - 1
        /\ \A i \in 1..(n - 1) : wire'[i] = wire[i + 1]
        /\ wire[1].pt \in Point
    <2>1. wire \in Seq(Message) /\ n \in Nat /\ n > 0
      BY DEF TypeOK
    <2>2. Len(wire') = n - 1 /\ \A i \in 1..(n - 1) : wire'[i] = wire[i + 1]
      BY <2>1, HeadTailProperties
    <2>3. wire[1] \in Message
      BY <2>1
    <2>4. QED
      BY <2>1, <2>2, <2>3 DEF Message, Point
  <1>2. ~owesRollback /\ pos' # NoPoint
    BY <1>1, NoPointAssumption DEF WireLeads
  <1>3. \A i \in 1..(n - 1) :
           LET from == IF i = 1 THEN pos' ELSE wire'[i - 1].pt
           IN  IF wire'[i].dir = "forward" THEN Parent(wire'[i].pt) = from
               ELSE wire'[i].pt # Origin /\ OnChain(wire'[i].pt, from)
    <2> SUFFICES ASSUME NEW i \in 1..(n - 1)
                 PROVE  LET from == IF i = 1 THEN pos' ELSE wire'[i - 1].pt
                        IN  IF wire'[i].dir = "forward" THEN Parent(wire'[i].pt) = from
                            ELSE wire'[i].pt # Origin /\ OnChain(wire'[i].pt, from)
      OBVIOUS
    <2>1. i + 1 \in 1..n /\ i + 1 > 1 /\ (i + 1) - 1 = i /\ wire'[i] = wire[i + 1]
      BY <1>1
    <2>2. (IF i = 1 THEN pos' ELSE wire'[i - 1].pt) = wire[i].pt
      BY <1>1
    <2>3. IF wire[i + 1].dir = "forward" THEN Parent(wire[i + 1].pt) = wire[i].pt
          ELSE wire[i + 1].pt # Origin /\ OnChain(wire[i + 1].pt, wire[i].pt)
      BY <2>1 DEF WireLeads
    <2>4. QED
      BY <2>1, <2>2, <2>3
  <1>4. /\ wire' # <<>> => readPtr' = wire'[Len(wire')].pt
        /\ wire' = <<>> => readPtr' = pos'
    <2>1. readPtr = wire[n].pt
      BY <1>1 DEF WireLeads
    <2>2. CASE n = 1
      BY <1>1, <2>1, <2>2
    <2>3. CASE n > 1
      <3>1. n - 1 \in 1..(n - 1) /\ wire'[n - 1] = wire[n]
        BY <1>1, <2>3
      <3>2. wire' # <<>>
        <4>1. wire' \in Seq(Message)
          BY <1>1, HeadTailProperties
        <4>2. Len(wire') # 0
          BY <1>1, <2>3
        <4>3. QED
          BY <4>1, <4>2, EmptySeq
      <3>3. QED
        BY <1>1, <2>1, <3>1, <3>2
    <2>4. QED
      BY <1>1, <2>2, <2>3
  <1>5. QED
    BY <1>1, <1>2, <1>3, <1>4 DEF WireLeads

(* Where a handler takes the client: the first answer, a child or an        *)
(* ancestor of its position, if it has one.                                 *)
LEMMA HandlerLeads ==
    ASSUME TypeOK, WireLeads, HandleForward \/ HandleBackward
    PROVE  /\ WireLeads' /\ wire # <<>> /\ Head(wire) = wire[1] /\ wire[1] \in Message
           /\ phase = "live" /\ pos' = wire[1].pt /\ pos' # NoPoint /\ pos' \in Point
           /\ ~owesRollback /\ ~owesRollback' /\ UNCHANGED <<phase, restarted>>
           /\ HandleForward => /\ wire[1].dir = "forward" /\ wire[1].pt \in Block
                               /\ pos # NoPoint /\ Parent(wire[1].pt) = pos
           /\ HandleBackward => /\ wire[1].dir = "backward"
                                /\ pos # NoPoint =>
                                      wire[1].pt # Origin /\ OnChain(wire[1].pt, pos)
  <1>1. wire \in Seq(Message) /\ wire # <<>> /\ Head(wire) = wire[1] /\ 1 \in 1..Len(wire)
    BY DEF TypeOK, HandleForward, HandleBackward
  <1>2. wire[1] \in Message /\ wire[1].pt \in Point
        /\ (wire[1].dir = "forward" => wire[1].pt \in Block)
    BY <1>1 DEF Message, Point
  <1>3. /\ wire' = Tail(wire) /\ pos' = wire[1].pt /\ phase = "live"
        /\ UNCHANGED <<phase, readPtr, restarted>>
    BY <1>1 DEF HandleForward, HandleBackward
  <1>4. owesRollback' = owesRollback
    BY DEF HandleForward, HandleBackward
  <1>5. WireLeads' /\ ~owesRollback /\ pos' # NoPoint
    BY <1>1, <1>3, <1>4, TailLeads
  <1>6. HandleForward => /\ wire[1].dir = "forward"
                         /\ pos # NoPoint /\ Parent(wire[1].pt) = pos
    BY <1>1, <1>3, <1>5 DEF HandleForward, WireLeads
  <1>7. HandleBackward => /\ wire[1].dir = "backward"
                          /\ pos # NoPoint =>
                                wire[1].pt # Origin /\ OnChain(wire[1].pt, pos)
    BY <1>1 DEF HandleBackward, WireLeads
  <1>8. QED
    BY <1>1, <1>2, <1>3, <1>4, <1>5, <1>6, <1>7

(* The other steps of the link leave nothing in flight. *)
LEMMA LinkLeads ==
    ASSUME WireLeads, Connect \/ Drop \/ FindNone \/ QueryTip \/ FindByPoints \/ FindByTip
    PROVE  /\ WireLeads' /\ wire' = <<>> /\ pos' = NoPoint
           /\ Connect \/ Drop \/ FindNone \/ QueryTip => phase' # "live" /\ ~owesRollback'
  <1>1. CASE Connect \/ Drop \/ FindNone \/ QueryTip
    <2>1. phase' # "live" /\ wire' = <<>> /\ pos' = NoPoint
      BY <1>1 DEF Connect, Drop, FindNone, QueryTip, WireLeads
    <2>2. ~owesRollback'
      <3>1. CASE Drop
        BY <3>1, Zenon DEF Drop
      <3>2. CASE ~Drop
        <4>1. phase # "live" /\ owesRollback' = owesRollback
          BY <1>1, <3>2 DEF Connect, FindNone, QueryTip
        <4>2. QED
          BY <4>1 DEF WireLeads
      <3>3. QED
        BY <3>1, <3>2
    <2>3. QED
      BY <2>1, <2>2 DEF WireLeads
  <1>2. CASE FindByPoints \/ FindByTip
    <2>1. phase' = "live" /\ wire' = <<>> /\ pos' = NoPoint
      BY <1>2 DEF FindByPoints, FindByTip, Attach
    <2>2. owesRollback'
      BY <1>2, Zenon DEF FindByPoints, FindByTip, Attach
    <2>3. WireLeads'
      BY <2>1, <2>2 DEF WireLeads
    <2>4. ~(Connect \/ Drop \/ FindNone \/ QueryTip)
      BY <2>1 DEF Connect, Drop, FindNone, QueryTip
    <2>5. QED
      BY <2>1, <2>3, <2>4
  <1>3. QED
    BY <1>1, <1>2

LEMMA StepLeads ==
    ASSUME TypeOK, WireLeads, [Next]_vars
    PROVE  WireLeads'
  <1>1. CASE (\E b \in Block : Extend(b) \/ Reorg(b)) \/ UNCHANGED vars
    <2>1. UNCHANGED <<linkVars, pos>>
      BY <1>1 DEF Extend, Reorg
    <2>2. QED
      BY <2>1 DEF WireLeads
  <1>2. CASE Serve
    BY <1>2, AnswerFacts, AnswerLeads
  <1>3. CASE HandleForward \/ HandleBackward
    BY <1>3, HandlerLeads
  <1>4. CASE Connect \/ Drop \/ FindNone \/ QueryTip \/ FindByPoints \/ FindByTip
    BY <1>4, LinkLeads
  <1>5. QED
    BY <1>1, <1>2, <1>3, <1>4 DEF Next, Sync

-----------------------------------------------------------------------------
(* The inductive invariant ChainInv: what each step does to its parts. *)

Shape == SlotsGrow /\ RecentIsRun /\ WireLeads /\ StartsWell /\ BelowPosition

LEMMA InitShape == Init => Shape
  <1> SUFFICES ASSUME Init PROVE Shape
    OBVIOUS
  <1>1. recent = <<>> /\ wire = <<>> /\ pos = NoPoint /\ phase = "down"
    BY DEF Init
  <1>2. ~owesRollback
    BY Zenon DEF Init
  <1>3. SlotsGrow /\ RecentIsRun /\ BelowPosition
    BY <1>1 DEF SlotsGrow, RecentIsRun, BelowPosition
  <1>4. WireLeads /\ StartsWell
    BY <1>1, <1>2 DEF WireLeads, StartsWell
  <1>5. QED
    BY <1>3, <1>4 DEF Shape

(* Steps of the node alone: none of the parts mentions its chain. *)
LEMMA NodeShape ==
    ASSUME Shape, NEW b \in Block, Extend(b) \/ Reorg(b)
    PROVE  Shape'
  <1>1. UNCHANGED <<linkVars, stateVars, pos, restarted>>
    BY DEF Extend, Reorg
  <1>2. QED
    BY <1>1 DEF Shape, SlotsGrow, RecentIsRun, WireLeads, StartsWell, Resumable, BelowPosition

(* Steps that hand out no answer and move no position. *)
LEMMA ConnectShape ==
    ASSUME TypeOK, Shape, Connect \/ Drop \/ FindNone \/ QueryTip
    PROVE  Shape'
  <1>1. UNCHANGED <<recent, restarted>>
    BY DEF Connect, Drop, FindNone, QueryTip
  <1>2. WireLeads' /\ phase' # "live" /\ wire' = <<>> /\ pos' = NoPoint /\ ~owesRollback'
    BY LinkLeads DEF Shape
  <1>3. SlotsGrow' /\ RecentIsRun' /\ BelowPosition'
    BY <1>1, <1>2 DEF Shape, SlotsGrow, RecentIsRun, BelowPosition
  <1>4. StartsWell'
    BY <1>2 DEF StartsWell
  <1>5. QED
    BY <1>2, <1>3, <1>4 DEF Shape

(* Attaching to a resumable point. *)
LEMMA AttachShape ==
    ASSUME NEW p \in Point, TypeOK, Shape, Attach(p), recent' = recent,
           SlotsGrow', RecentIsRun', Resumable(p)'
    PROVE  Shape'
  <1>1. /\ phase' = "live" /\ wire' = <<>> /\ pos' = NoPoint /\ readPtr' = p
    BY DEF Attach
  <1>2. owesRollback'
    BY Zenon DEF Attach
  <1>3. WireLeads'
    BY <1>1, <1>2 DEF WireLeads
  <1>4. StartsWell'
    BY <1>1, <1>2 DEF StartsWell, Resumable
  <1>5. BelowPosition'
    BY <1>1 DEF BelowPosition
  <1>6. QED
    BY <1>3, <1>4, <1>5 DEF Shape

LEMMA FindShape ==
    ASSUME TypeOK, Shape, FindByPoints \/ FindByTip
    PROVE  Shape'
  <1>1. CASE FindByPoints
    <2>1. PICK i \in ResumeIndex : Attach(recent[i])
      BY <1>1 DEF FindByPoints
    <2>2. recent[i] \in Block /\ i \in 1..Len(recent)
      BY <2>1 DEF ResumeIndex, TypeOK
    <2>3. recent' = recent /\ restarted' = restarted
      BY <1>1 DEF FindByPoints
    <2>4. SlotsGrow' /\ RecentIsRun'
      BY <2>3 DEF Shape, SlotsGrow, RecentIsRun
    <2>5. recent[i] # Origin /\ OnChain(recent[i], recent[i])
      BY <2>2, PathEnd
    <2>6. Resumable(recent[i])
      BY <2>2, <2>5 DEF Resumable
    <2>7. QED
      BY <2>1, <2>2, <2>3, <2>4, <2>6, AttachShape DEF Point, Resumable
  <1>2. CASE FindByTip
    <2>1. PICK at \in Point : at = (IF OnChain(asked, nodeTip) THEN asked ELSE Origin)
      BY <1>2, FindTipPoint
    <2>2. Attach(at) /\ recent' = recent
      BY <1>2, <2>1 DEF FindByTip
    <2>3. restarted' = CASE recent = <<>> -> restarted
                         [] recent # <<>> /\ (at = Origin \/ restarted = "origin") -> "origin"
                         [] OTHER -> "tip"
      BY <1>2, <2>1 DEF FindByTip
    <2>4. CASE recent = <<>>
      <3>1. restarted' = restarted
        BY <2>3, <2>4
      <3>2. SlotsGrow' /\ RecentIsRun' /\ Resumable(at)'
        BY <2>2, <2>4 DEF Resumable, RecentIsRun, SlotsGrow
      <3>3. QED
        BY <2>2, <3>2, AttachShape
    <2>5. CASE recent # <<>> /\ (at = Origin \/ restarted = "origin")
      <3>1. restarted' = "origin"
        BY <2>3, <2>5
      <3>2. SlotsGrow' /\ RecentIsRun' /\ Resumable(at)'
        BY <3>1 DEF Resumable, RecentIsRun, SlotsGrow
      <3>3. QED
        BY <2>2, <3>2, AttachShape
    <2>6. CASE recent # <<>> /\ at # Origin /\ restarted # "origin"
      <3>1. restarted' = "tip"
        BY <2>3, <2>6
      <3>2. SlotsGrow' /\ RecentIsRun' /\ Resumable(at)'
        BY <2>2, <2>6, <3>1 DEF Shape, Resumable, RecentIsRun, SlotsGrow
      <3>3. QED
        BY <2>2, <3>2, AttachShape
    <2>7. QED
      BY <2>4, <2>5, <2>6
  <1>3. QED
    BY <1>1, <1>2

(* One more answer from the node. *)
LEMMA ServeShape ==
    ASSUME TypeOK, Shape, Serve
    PROVE  Shape'
  <1>1. WireLeads /\ StartsWell
    BY DEF Shape
  <1>2. PICK m \in Message : Answer(m)
    BY <1>1, AnswerFacts
  <1>3. WireLeads' /\ wire' # <<>> /\ wire'[1] = (IF wire = <<>> THEN m ELSE wire[1])
    BY <1>1, <1>2, AnswerLeads
  <1>4. ASSUME Resumable(readPtr), OnChain(m.pt, readPtr), readPtr # Origin => m.pt # Origin
        PROVE  Resumable(m.pt)
    <2>1. m.pt \in Point /\ readPtr \in Point
      BY DEF Message, Point, TypeOK
    <2>2. CASE \E i \in 1..Len(recent) : OnChain(readPtr, recent[i])
      <3>1. PICK i \in 1..Len(recent) : OnChain(readPtr, recent[i])
        BY <2>2
      <3>2. recent[i] \in Point
        BY DEF TypeOK, Point
      <3>3. OnChain(m.pt, recent[i])
        BY <1>4, <2>1, <3>1, <3>2, OnChainTransitive
      <3>4. QED
        BY <1>4, <3>3 DEF Resumable
    <2>3. QED
      BY <1>4, <2>2 DEF Resumable
  <1>5. pos = NoPoint => Resumable(wire'[1].pt)
    <2>1. CASE wire = <<>>
      <3>1. pos = NoPoint => owesRollback
        BY <1>1, <1>2, <2>1 DEF WireLeads, Answer
      <3>2. pos = NoPoint => Resumable(readPtr)
        BY <1>1, <3>1 DEF StartsWell
      <3>3. QED
        BY <1>2, <1>3, <1>4, <2>1, <3>1, <3>2 DEF Answer
    <2>2. CASE wire # <<>>
      BY <1>1, <1>2, <1>3, <2>2 DEF StartsWell, Answer
    <2>3. QED
      BY <2>1, <2>2
  <1>6. StartsWell'
    BY <1>2, <1>5 DEF StartsWell, Resumable, Answer
  <1>7. SlotsGrow' /\ RecentIsRun' /\ BelowPosition'
    BY <1>2 DEF Shape, SlotsGrow, RecentIsRun, BelowPosition, Answer
  <1>8. QED
    BY <1>3, <1>6, <1>7 DEF Shape

(* recent_blocks after a block is noted: what is left, shifted when full, *)
(* and the block at the end.                                              *)
LEMMA NotedElements ==
    ASSUME NEW b \in Block, TypeOK
    PROVE  \E d \in 0..Len(recent) :
              /\ Len(Noted(b)) = Len(recent) - d + 1
              /\ \A i \in 1..(Len(recent) - d) : Noted(b)[i] = recent[i + d]
              /\ Noted(b)[Len(recent) - d + 1] = b
  <1> DEFINE L == Len(recent)
  <1>1. recent \in Seq(Block) /\ L \in Nat /\ RecentCap \in Nat \ {0}
    BY CapAssumption DEF TypeOK
  <1>2. CASE L >= RecentCap
    <2> DEFINE r == Tail(recent)
    <2>1. L >= 1 /\ recent # <<>>
      BY <1>1, <1>2
    <2>2. /\ r \in Seq(Block) /\ Len(r) = L - 1
          /\ \A i \in 1..(L - 1) : r[i] = recent[i + 1]
      BY <1>1, <2>1, HeadTailProperties
    <2>3. Noted(b) = Append(r, b)
      BY <1>2 DEF Noted
    <2>4. /\ Len(Noted(b)) = L - 1 + 1
          /\ \A i \in 1..(L - 1) : Noted(b)[i] = recent[i + 1]
          /\ Noted(b)[L - 1 + 1] = b
      BY <1>1, <2>1, <2>2, <2>3, AppendProperties
    <2>5. 1 \in 0..L
      BY <1>1, <2>1
    <2>6. QED
      BY <2>4, <2>5
  <1>3. CASE ~(L >= RecentCap)
    <2>1. Noted(b) = Append(recent, b)
      BY <1>3 DEF Noted
    <2>2. /\ Len(Noted(b)) = L - 0 + 1
          /\ \A i \in 1..(L - 0) : Noted(b)[i] = recent[i + 0]
          /\ Noted(b)[L - 0 + 1] = b
      BY <1>1, <2>1, AppendProperties
    <2>3. 0 \in 0..L
      BY <1>1
    <2>4. QED
      BY <2>2, <2>3
  <1>4. QED
    BY <1>2, <1>3

LEMMA HandleForwardShape ==
    ASSUME TypeOK, Shape, HandleForward
    PROVE  Shape'
  <1>1. /\ WireLeads' /\ Head(wire) = wire[1] /\ pos' = wire[1].pt /\ pos' # NoPoint
        /\ ~owesRollback' /\ restarted' = restarted
        /\ wire[1].pt \in Block /\ pos # NoPoint /\ Parent(wire[1].pt) = pos
    BY HandlerLeads DEF Shape
  <1>2. PICK b \in Block : b = wire[1].pt
    BY <1>1
  <1> DEFINE L == Len(recent)
  <1>3. recent' = Noted(b) /\ pos' = b
    BY <1>1, <1>2 DEF HandleForward
  <1>4. pos # NoPoint /\ Parent(b) = pos
    BY <1>1, <1>2
  <1>5. PICK p \in Point : p = pos
    BY <1>4 DEF TypeOK, Point
  <1>6. PICK d \in 0..L : /\ Len(recent') = L - d + 1
                          /\ \A i \in 1..(L - d) : recent'[i] = recent[i + d]
                          /\ recent'[L - d + 1] = b
    BY <1>3, NotedElements
  <1>7. L \in Nat /\ d \in Nat /\ d <= L /\ recent \in Seq(Block)
    BY DEF TypeOK
  <1>8. /\ Path[b] \in Seq(Block) /\ Len(Path[b]) \in Nat /\ Len(Path[b]) > 0
        /\ Path[b][Len(Path[b])] = b /\ Height(b) = Len(Path[b]) /\ b # Origin
    BY PathEnd
  <1>9. ASSUME restarted # "origin", L > 0
         PROVE  /\ p \in Block /\ Parent(b) = p
                /\ Slot[recent[L]] < Slot[b]
                /\ restarted = "no" => recent[L] = p
    <2>1. recent # <<>>
      BY <1>9
    <2>2. p # Origin /\ Slot[recent[L]] <= Slot[p] /\ (restarted = "no" => recent[L] = p)
      BY <1>4, <1>5, <1>9, <2>1 DEF Shape, BelowPosition
    <2>3. p \in Block
      BY <2>2 DEF Point
    <2>4. Slot[p] < Slot[b]
      BY <1>4, <1>5, <2>3, ChildPath
    <2>5. recent[L] \in Block
      BY <1>7, <1>9
    <2>6. Slot[p] \in Nat /\ Slot[b] \in Nat /\ Slot[recent[L]] \in Nat
      BY <2>3, <2>5, TreeAssumption
    <2>7. QED
      BY <1>4, <1>5, <2>2, <2>3, <2>4, <2>6
  <1>10. SlotsGrow'
    <2>a. Len(recent') - 1 = L - d
      BY <1>6, <1>7
    <2> SUFFICES ASSUME restarted # "origin", NEW i \in 1..(L - d)
                 PROVE  Slot[recent'[i]] < Slot[recent'[i + 1]]
      BY <1>1, <2>a DEF SlotsGrow
    <2>1. recent'[i] = recent[i + d] /\ L > 0
      BY <1>6, <1>7
    <2>2. CASE i < L - d
      <3>1. recent'[i + 1] = recent[(i + d) + 1] /\ i + d \in 1..(L - 1)
        BY <1>6, <1>7, <2>2
      <3>2. Slot[recent[i + d]] < Slot[recent[(i + d) + 1]]
        BY <3>1 DEF Shape, SlotsGrow
      <3>3. QED
        BY <2>1, <3>1, <3>2
    <2>3. CASE i = L - d
      <3>1. recent'[i + 1] = b /\ i + d = L
        BY <1>6, <1>7, <2>3
      <3>2. QED
        BY <1>9, <2>1, <3>1
    <2>4. QED
      BY <1>7, <2>2, <2>3
  <1>11. RecentIsRun'
    <2> DEFINE base == Height(b) - (L - d + 1)
    <2> SUFFICES ASSUME restarted = "no"
                 PROVE  base >= 0 /\ \A i \in 1..(L - d + 1) : recent'[i] = Path[b][base + i]
      BY <1>1, <1>6 DEF RecentIsRun
    <2>1. CASE L = 0
      <3>1. d = 0 /\ base = Len(Path[b]) - 1
        BY <1>7, <1>8, <2>1
      <3>2. QED
        BY <1>6, <1>8, <2>1, <3>1
    <2>2. CASE L > 0
      <3>1. p \in Block /\ Parent(b) = p /\ recent[L] = p
        BY <1>9, <2>2
      <3>2. /\ Len(Path[b]) = Len(Path[p]) + 1
            /\ \A i \in 1..Len(Path[p]) : Path[b][i] = Path[p][i]
        BY <3>1, ChildPath
      <3>3. Height(p) = Len(Path[p]) /\ Len(Path[p]) \in Nat
        BY <3>1, PathEnd
      <3>4. /\ Len(Path[p]) - L >= 0
            /\ \A i \in 1..L : recent[i] = Path[p][Len(Path[p]) - L + i]
        <4>1. recent # <<>>
          BY <2>2
        <4>2. QED
          BY <3>1, <3>3, <4>1 DEF Shape, RecentIsRun
      <3>5. base = Len(Path[p]) - L + d
        BY <1>7, <1>8, <3>2, <3>3
      <3> HIDE DEF base
      <3>6. ASSUME NEW i \in 1..(L - d + 1)
            PROVE  recent'[i] = Path[b][base + i]
        <4>1. CASE i <= L - d
          <5>1. recent'[i] = recent[i + d] /\ i + d \in 1..L
            BY <1>6, <1>7, <4>1
          <5>2. recent[i + d] = Path[p][Len(Path[p]) - L + (i + d)]
            BY <3>4, <5>1
          <5>3. /\ Len(Path[p]) - L + (i + d) = base + i
                /\ base + i \in 1..Len(Path[p])
            <6> DEFINE h == Len(Path[p])
            <6>1. h \in Nat /\ L \in Nat /\ d \in Nat /\ i \in Nat /\ i >= 1
              BY <1>7, <3>3
            <6>2. base = h - L + d /\ h - L >= 0 /\ i <= L - d
              BY <3>4, <3>5, <4>1
            <6> HIDE DEF h, L
            <6>3. h - L + (i + d) = base + i /\ base + i \in 1..h
              BY <6>1, <6>2
            <6>4. QED
              BY <6>3 DEF h, L
          <5>4. QED
            BY <3>2, <5>1, <5>2, <5>3
        <4>2. CASE i = L - d + 1
          <5>1. base + i = Len(Path[b])
            <6> DEFINE h == Len(Path[p])
            <6>1. h \in Nat /\ L \in Nat /\ d \in Nat /\ Len(Path[b]) = h + 1
              BY <1>7, <3>2, <3>3
            <6>2. base = h - L + d /\ i = L - d + 1
              BY <3>5, <4>2
            <6> HIDE DEF h, L
            <6>3. QED
              BY <6>1, <6>2
          <5>2. QED
            BY <1>6, <1>8, <4>2, <5>1
        <4>3. QED
          BY <1>7, <4>1, <4>2
      <3>7. QED
        BY <1>7, <3>3, <3>4, <3>5, <3>6
    <2>3. QED
      BY <1>7, <2>1, <2>2
  <1>12. BelowPosition'
    <2>1. recent'[Len(recent')] = b /\ pos' = b
      BY <1>3, <1>6
    <2>2. Slot[b] <= Slot[b]
      BY TreeAssumption
    <2>3. QED
      BY <1>8, <2>1, <2>2 DEF BelowPosition
  <1>13. StartsWell'
    BY <1>1 DEF StartsWell
  <1>14. QED
    BY <1>1, <1>10, <1>11, <1>12, <1>13 DEF Shape

(* Where a cut-back believed chain ends: the blocks kept by rollback_to are *)
(* exactly those up to the point, when the point is on the believed chain.  *)
LEMMA CutEndsAtPoint ==
    ASSUME TypeOK, RecentIsRun, restarted = "no",
           NEW q \in Block, NEW n \in 1..Len(recent), KeepsFirst(n, Slot[q]),
           \E i \in 1..Len(recent) : OnChain(q, recent[i])
    PROVE  recent[n] = q
  <1> DEFINE L == Len(recent)
  <1>1. L \in Nat /\ L > 0 /\ recent # <<>> /\ recent[L] \in Block
    BY DEF TypeOK
  <1>2. PICK end \in Block : end = recent[L]
    BY <1>1
  <1>3. Height(end) = Len(Path[end]) /\ Len(Path[end]) \in Nat
    BY PathEnd
  <1> DEFINE base == Height(end) - L
  <1>4. base >= 0 /\ \A i \in 1..L : recent[i] = Path[end][base + i]
    BY <1>1, <1>2 DEF RecentIsRun
  <1>5. base \in Nat /\ base + L = Len(Path[end])
    BY <1>1, <1>3, <1>4
  <1> HIDE DEF base
  <1>6. PICK j \in 1..L : OnChain(q, recent[j])
    OBVIOUS
  <1>7. recent[j] \in Block /\ q \in Point /\ recent[j] \in Point /\ end \in Point /\ q # Origin
    <2>1. recent[j] \in Block
      BY DEF TypeOK
    <2>2. QED
      BY <2>1, PathEnd DEF Point
  <1>8. base + j \in 1..Len(Path[end]) /\ Path[end][base + j] = recent[j]
    <2>1. j \in Nat /\ 1 <= j /\ j <= L
      BY <1>1
    <2>2. base + j \in Nat /\ 1 <= base + j /\ base + j <= base + L
      BY <1>1, <1>5, <2>1
    <2>3. base + j \in 1..Len(Path[end])
      BY <1>3, <1>5, <2>2
    <2>4. QED
      BY <1>4, <2>3
  <1>9. OnChain(recent[j], end)
    BY <1>8, PathEnd DEF OnChain
  <1>10. OnChain(q, end)
    BY <1>6, <1>7, <1>9, OnChainTransitive
  <1>11. PICK k \in 1..Len(Path[end]) : Path[end][k] = q
    BY <1>7, <1>10 DEF OnChain
  <1>12. base + n \in 1..Len(Path[end]) /\ recent[n] = Path[end][base + n]
    BY <1>1, <1>4, <1>5
  <1>13. base + n <= k
    BY <1>11, <1>12, SlotsOrderPath DEF KeepsFirst
  <1>14. CASE n = L
    <2>1. k = base + n
      BY <1>3, <1>5, <1>13, <1>14
    <2>2. QED
      BY <1>11, <1>12, <2>1
  <1>15. CASE n < L
    <2>1. /\ n + 1 \in (n + 1)..L /\ n + 1 \in 1..L
          /\ base + (n + 1) \in 1..Len(Path[end])
      BY <1>1, <1>5, <1>15
    <2>2. recent[n + 1] = Path[end][base + (n + 1)] /\ Slot[recent[n + 1]] > Slot[q]
      BY <1>4, <2>1 DEF KeepsFirst
    <2>3. /\ Slot[Path[end][base + (n + 1)]] \in Nat
          /\ Slot[Path[end][base + (n + 1)]] <= Slot[Path[end][k]] <=> base + (n + 1) <= k
      BY <2>1, SlotsOrderPath
    <2>4. Slot[q] \in Nat
      BY TreeAssumption
    <2>5. ~(base + (n + 1) <= k)
      BY <1>11, <2>2, <2>3, <2>4
    <2>6. k = base + n
      BY <1>5, <1>13, <2>5
    <2>7. QED
      BY <1>11, <1>12, <2>6
  <1>16. QED
    BY <1>1, <1>14, <1>15

LEMMA HandleBackwardShape ==
    ASSUME TypeOK, Shape, HandleBackward
    PROVE  Shape'
  <1>1. /\ WireLeads' /\ Head(wire) = wire[1] /\ pos' = wire[1].pt /\ pos' # NoPoint
        /\ wire # <<>> /\ phase = "live" /\ pos' \in Point
        /\ ~owesRollback' /\ restarted' = restarted
        /\ pos # NoPoint => wire[1].pt # Origin /\ OnChain(wire[1].pt, pos)
    BY HandlerLeads DEF Shape
  <1>2. PICK q \in Point : q = wire[1].pt
    BY <1>1
  <1> DEFINE L == Len(recent)
  <1>3. pos' = q
    BY <1>1, <1>2
  <1>4. StartsWell'
    BY <1>1 DEF StartsWell
  <1>5. IF pos # NoPoint THEN q # Origin /\ OnChain(q, pos) ELSE Resumable(q)
    BY <1>1, <1>2 DEF Shape, StartsWell
  <1>6. CASE q = Origin
    <2>1. recent' = recent /\ (recent = <<>> \/ restarted = "origin")
      BY <1>1, <1>2, <1>5, <1>6 DEF HandleBackward, Resumable
    <2>2. SlotsGrow' /\ RecentIsRun' /\ BelowPosition'
      BY <1>1, <1>3, <2>1 DEF SlotsGrow, RecentIsRun, BelowPosition
    <2>3. QED
      BY <1>1, <1>4, <2>2 DEF Shape
  <1>7. CASE q # Origin
    <2>1. q \in Block
      BY <1>7 DEF Point
    <2>2. PICK n \in 0..L : KeepsFirst(n, Slot[q]) /\ recent' = SubSeq(recent, 1, n)
      BY <1>1, <1>2, <1>7 DEF HandleBackward
    <2>3. L \in Nat /\ n \in Nat /\ n <= L /\ recent \in Seq(Block)
      BY DEF TypeOK
    <2>4. Len(recent') = n /\ \A i \in 1..n : recent'[i] = recent[i]
      BY <2>2, <2>3
    <2>5. SlotsGrow'
      <3> SUFFICES ASSUME restarted # "origin", NEW i \in 1..(n - 1)
                   PROVE  Slot[recent'[i]] < Slot[recent'[i + 1]]
        BY <1>1, <2>4 DEF SlotsGrow
      <3>1. i \in 1..(L - 1) /\ i \in 1..n /\ i + 1 \in 1..n
        BY <2>3
      <3>2. QED
        BY <2>4, <3>1 DEF Shape, SlotsGrow
    <2>6. RecentIsRun'
      <3> SUFFICES ASSUME restarted = "no", n > 0
                   PROVE  LET base == Height(recent[n]) - n
                          IN  base >= 0 /\ \A i \in 1..n : recent[i] = Path[recent[n]][base + i]
        BY <1>1, <2>3, <2>4, SMTT(60) DEF RecentIsRun
      <3>1. PICK end \in Block : end = recent[L]
        BY <2>3
      <3>2. Height(end) = Len(Path[end]) /\ Len(Path[end]) \in Nat
        BY PathEnd
      <3> DEFINE base == Len(Path[end]) - L
      <3>3. base \in Int /\ base + L = Len(Path[end])
        BY <2>3, <3>2
      <3>4. base >= 0 /\ \A i \in 1..L : recent[i] = Path[end][base + i]
        <4>1. recent # <<>>
          BY <2>3
        <4>2. QED
          BY <3>1, <3>2, <4>1 DEF Shape, RecentIsRun
      <3> HIDE DEF base
      <3>5. PICK m \in 1..Len(Path[end]) : m = base + n
        BY <2>3, <3>2, <3>3, <3>4
      <3>6. recent[n] = Path[end][m]
        BY <2>3, <3>4, <3>5
      <3>7. /\ Path[end][m] \in Block /\ Len(Path[Path[end][m]]) = m
            /\ \A j \in 1..m : Path[Path[end][m]][j] = Path[end][j]
        BY PathPrefix
      <3>8. Height(recent[n]) - n = base
        <4>1. recent[n] \in Block /\ Len(Path[recent[n]]) = m
          BY <3>6, <3>7
        <4>2. Height(recent[n]) = m
          BY <4>1, PathEnd
        <4>3. QED
          BY <2>3, <3>3, <3>5, <4>2
      <3>9. \A i \in 1..n : recent[i] = Path[recent[n]][base + i]
        <4> SUFFICES ASSUME NEW i \in 1..n PROVE recent[i] = Path[recent[n]][base + i]
          OBVIOUS
        <4>1. i \in 1..L /\ i \in Nat
          BY <2>3
        <4>2. recent[i] = Path[end][base + i]
          BY <3>4, <4>1
        <4>3. base + i \in 1..m
          <5>1. i >= 1 /\ i <= n /\ m = base + n /\ base \in Int /\ base >= 0 /\ n \in Nat
            BY <2>3, <3>3, <3>4, <3>5
          <5>2. QED
            BY <4>1, <5>1
        <4>4. QED
          BY <3>6, <3>7, <4>2, <4>3
      <3>10. QED
        BY <3>4, <3>8, <3>9
    <2>7. BelowPosition'
      <3> SUFFICES ASSUME restarted # "origin", n > 0
                   PROVE  /\ Slot[recent[n]] <= Slot[q]
                          /\ restarted = "no" => recent[n] = q
        BY <1>1, <1>3, <1>7, <2>3, <2>4 DEF BelowPosition
      <3>1. Slot[recent[n]] <= Slot[q]
        BY <2>2, <2>3 DEF KeepsFirst
      <3>2. ASSUME restarted = "no" PROVE \E i \in 1..L : OnChain(q, recent[i])
        <4>1. recent # <<>> /\ L \in 1..L
          BY <2>3
        <4>2. CASE pos # NoPoint
          <5>1. recent[L] = pos
            BY <3>2, <4>1, <4>2 DEF Shape, BelowPosition
          <5>2. QED
            BY <1>5, <4>1, <4>2, <5>1
        <4>3. CASE pos = NoPoint
          BY <1>5, <3>2, <4>1, <4>3 DEF Resumable
        <4>4. QED
          BY <4>2, <4>3
      <3>3. ASSUME restarted = "no" PROVE recent[n] = q
        <4>1. n \in 1..Len(recent)
          BY <2>3
        <4>2. QED
          BY <2>1, <2>2, <3>2, <3>3, <4>1, CutEndsAtPoint DEF Shape
      <3>4. QED
        BY <3>1, <3>3
    <2>8. QED
      BY <1>1, <1>4, <2>5, <2>6, <2>7 DEF Shape
  <1>8. QED
    BY <1>6, <1>7

(* Every step, and stuttering, keeps the shape. *)
LEMMA StepShape ==
    ASSUME TypeOK, Shape, [Next]_vars
    PROVE  Shape'
  <1>1. CASE \E b \in Block : Extend(b) \/ Reorg(b)
    BY <1>1, NodeShape
  <1>2. CASE Serve
    BY <1>2, ServeShape
  <1>4. CASE Connect \/ Drop \/ FindNone \/ QueryTip
    BY <1>4, ConnectShape
  <1>5. CASE FindByPoints \/ FindByTip
    BY <1>5, FindShape
  <1>6. CASE HandleForward
    BY <1>6, HandleForwardShape
  <1>7. CASE HandleBackward
    BY <1>7, HandleBackwardShape
  <1>8. CASE UNCHANGED vars
    BY <1>8 DEF Shape, SlotsGrow, RecentIsRun, WireLeads, StartsWell, Resumable, BelowPosition
  <1>9. QED
    BY <1>1, <1>2, <1>4, <1>5, <1>6, <1>7, <1>8 DEF Next, Sync

(* The inductive invariant of chain following holds in every reachable      *)
(* state, for every block tree, every capacity and any number of forks,     *)
(* drops and answers in flight.                                             *)
THEOREM ChainInvariant == Spec => []ChainInv
  <1>1. Init => Shape
    BY InitShape
  <1>2. TypeOK /\ Shape /\ [Next]_vars => Shape'
    BY StepShape
  <1>3. TypeOK /\ Shape <=> ChainInv
    BY DEF ChainInv, Shape
  <1>4. QED
    BY TypeCorrect, <1>1, <1>2, <1>3, PTL DEF Spec

(* The believed chain is a chain: each recorded block is the child of the   *)
(* one before it (state.rs, recent_blocks), while the client has not had to *)
(* start over.                                                              *)
THEOREM ChainIsUnbroken == Spec => []RecentIsChain
  <1>1. ASSUME ChainInv PROVE RecentIsChain
    <2> SUFFICES ASSUME restarted = "no", NEW i \in 1..(Len(recent) - 1)
                 PROVE  Parent(recent[i + 1]) = recent[i]
      BY DEF RecentIsChain
    <2> DEFINE L == Len(recent)
    <2>1. L \in Nat /\ L > 0 /\ recent # <<>> /\ recent[L] \in Block
          /\ i \in 1..L /\ i + 1 \in 1..L
      BY <1>1 DEF ChainInv, TypeOK
    <2>2. PICK end \in Block : end = recent[L]
      BY <2>1
    <2>3. Height(end) = Len(Path[end]) /\ Len(Path[end]) \in Nat
      BY PathEnd
    <2> DEFINE base == Len(Path[end]) - L
    <2>4. base \in Int /\ base + L = Len(Path[end])
      BY <2>1, <2>3
    <2>5. base >= 0 /\ \A j \in 1..L : recent[j] = Path[end][base + j]
      BY <1>1, <2>1, <2>2, <2>3 DEF ChainInv, RecentIsRun
    <2> DEFINE m == base + (i + 1)
    <2>6. m \in 1..Len(Path[end]) /\ m - 1 = base + i /\ m > 1
      <3>1. i \in Nat /\ i >= 1 /\ i + 1 <= L /\ L \in Nat
        BY <2>1
      <3> HIDE DEF base, L
      <3>2. QED
        BY <2>3, <2>4, <2>5, <3>1
    <2>7. recent[i + 1] = Path[end][m] /\ recent[i] = Path[end][m - 1] /\ m > 1
      <3> HIDE DEF base
      <3>1. QED
        BY <2>1, <2>4, <2>5, <2>6
    <2> HIDE DEF m
    <2>8. /\ Path[end][m] \in Block /\ Len(Path[Path[end][m]]) = m
          /\ \A j \in 1..m : Path[Path[end][m]][j] = Path[end][j]
      BY <2>6, PathPrefix
    <2>9. m - 1 \in 1..m /\ m # 1
      BY <2>3, <2>6
    <2>10. QED
      BY <2>7, <2>8, <2>9 DEF Parent
  <1>2. QED
    BY ChainInvariant, <1>1, PTL

(* rollback_to's pop by slot sees slots that grow along recent_blocks, also *)
(* after a restart at the node's tip.                                       *)
THEOREM SlotsGrowAlways == Spec => []SlotsGrow
  <1>1. ChainInv => SlotsGrow
    BY DEF ChainInv
  <1>2. QED
    BY ChainInvariant, <1>1, PTL

(* On a connection, the believed chain ends where the node last moved the   *)
(* client, however many answers were in flight when the fork switched.      *)
THEOREM EndsWhereMoved == Spec => []EndsAtPosition
  <1>1. ASSUME ChainInv PROVE EndsAtPosition
    BY <1>1 DEF ChainInv, EndsAtPosition, BelowPosition
  <1>2. QED
    BY ChainInvariant, <1>1, PTL

-----------------------------------------------------------------------------
(***************************************************************************)
(* What readers of the feed are told: the chain-sync client implements     *)
(* ChainFeed, what they hold as current is what it remembers, its slot     *)
(* battles are real and none is left out, and lost connections make no     *)
(* orphans, for any tree, any capacities and any number of forks, lost     *)
(* connections and evictions.  Where a theorem needs that no fork is       *)
(* deeper than what recent_blocks remembers, it says so.                   *)
(***************************************************************************)

(* No rollback takes the whole list.  It is 720 blocks long once the       *)
(* client has run for a few hours; a block that has left it can never be   *)
(* reported as orphaned.                                                   *)
ForksFit == [][recent' # <<>>]_recent

(* Whatever is in either list has been announced, *)
Seen ==
    /\ \A i \in 1..Len(recent) : standing[recent[i]] # "unseen"
    /\ \A i \in 1..Len(orphans) : standing[orphans[i]] # "unseen"

(* and what readers hold as current is the recorded chain and its past.    *)
HeldIsRecorded ==
    restarted = "no" =>
        /\ \A i \in 1..Len(recent) : standing[recent[i]] = "current"
        /\ \A c \in Block : standing[c] = "current" =>
              recent # <<>> /\ OnChain(c, recent[Len(recent)])

FeedInv == Seen /\ HeldIsRecorded

-----------------------------------------------------------------------------
(* The recorded chain as a stretch of the chain of its end. *)
LEMMA RunOfEnd ==
    ASSUME TypeOK, RecentIsRun, restarted = "no", recent # <<>>
    PROVE  \E end \in Block, base \in Nat :
              /\ Len(recent) \in Nat \ {0} /\ end = recent[Len(recent)]
              /\ Len(Path[end]) = base + Len(recent)
              /\ \A i \in 1..Len(recent) : recent[i] = Path[end][base + i]
  <1> DEFINE L == Len(recent)
  <1>1. L \in Nat \ {0} /\ recent[L] \in Block
    BY DEF TypeOK
  <1>2. PICK end \in Block : end = recent[L]
    BY <1>1
  <1>3. Height(end) = Len(Path[end]) /\ Len(Path[end]) \in Nat
    BY PathEnd
  <1> DEFINE base == Len(Path[end]) - L
  <1>4. base \in Int
    BY <1>1, <1>3
  <1>5. base >= 0 /\ \A i \in 1..L : recent[i] = Path[end][base + i]
    BY <1>1, <1>2, <1>3, <1>4 DEF RecentIsRun
  <1>6. base \in Nat /\ Len(Path[end]) = base + L
    BY <1>1, <1>3, <1>4, <1>5
  <1> HIDE DEF base
  <1>7. QED
    BY <1>1, <1>2, <1>5, <1>6

(* What handle_forward does, and where the new block belongs. *)
LEMMA ForwardStep ==
    ASSUME TypeOK, Shape, HandleForward
    PROVE  \E b \in Block :
              /\ recent' = Noted(b) /\ battles' = battles \cup BattlesOf(b)
              /\ standing' = [standing EXCEPT ![b] = "current"]
              /\ UNCHANGED <<orphans, restarted>>
              /\ restarted = "no" /\ recent # <<>> => Parent(b) = recent[Len(recent)]
  <1>1. wire \in Seq(Message) /\ wire # <<>> /\ Head(wire) = wire[1] /\ 1 \in 1..Len(wire)
    BY DEF TypeOK, HandleForward
  <1>2. PICK b \in Block : b = wire[1].pt /\ wire[1].dir = "forward"
    <2>1. wire[1] \in Message /\ wire[1].dir = "forward"
      BY <1>1 DEF HandleForward
    <2>2. QED
      BY <2>1 DEF Message
  <1>3. /\ recent' = Noted(b) /\ battles' = battles \cup BattlesOf(b)
        /\ standing' = [standing EXCEPT ![b] = "current"]
        /\ UNCHANGED <<orphans, restarted>> /\ phase = "live"
    BY <1>1, <1>2 DEF HandleForward
  <1>4. pos # NoPoint
    BY <1>1, <1>2, <1>3 DEF Shape, WireLeads
  <1>5. Parent(b) = pos
    BY <1>1, <1>2, <1>4 DEF Shape, WireLeads
  <1>6. QED
    BY <1>3, <1>4, <1>5 DEF Shape, BelowPosition

(* What handle_rollback does to the lists and to the standing of blocks. *)
LEMMA BackwardStep ==
    ASSUME TypeOK, HandleBackward
    PROVE  /\ UNCHANGED <<restarted, battles>>
           /\ \/ UNCHANGED <<recent, orphans, standing>>
              \/ \E n \in 0..Len(recent) :
                    /\ Len(recent') = n /\ \A i \in 1..n : recent'[i] = recent[i]
                    /\ LET lost == {recent[i] : i \in (n + 1)..Len(recent)}
                       IN  /\ \A i \in 1..Len(orphans') :
                                 \/ orphans'[i] \in lost
                                 \/ \E j \in 1..Len(orphans) : orphans'[i] = orphans[j]
                           /\ standing' = [b \in Block |-> IF b \in lost
                                                           THEN "orphaned" ELSE standing[b]]
  <1> DEFINE L == Len(recent)
  <1>1. UNCHANGED <<restarted, battles>>
    BY DEF HandleBackward
  <1>2. CASE UNCHANGED <<recent, orphans, standing>>
    BY <1>1, <1>2
  <1>3. CASE ~UNCHANGED <<recent, orphans, standing>>
    <2>1. PICK q \in {Head(wire).pt}, n \in 0..L :
              LET lost == SubSeq(recent, n + 1, L)
              IN  /\ recent' = SubSeq(recent, 1, n)
                  /\ orphans' = LastN(orphans \o Reverse(lost), OrphanCap)
                  /\ standing' = [b \in Block |-> IF b \in AllLost(lost)
                                                  THEN "orphaned" ELSE standing[b]]
      BY <1>3 DEF HandleBackward
    <2> DEFINE lost == SubSeq(recent, n + 1, L)
               gone == {recent[i] : i \in (n + 1)..L}
    <2>2. recent \in Seq(Block) /\ L \in Nat /\ n \in Nat /\ n <= L /\ orphans \in Seq(Block)
      BY DEF TypeOK
    <2>3. Len(recent') = n /\ \A i \in 1..n : recent'[i] = recent[i]
      BY <2>1, <2>2
    <2>4. lost \in Seq(Block) /\ Len(lost) = L - n /\ \A i \in 1..(L - n) : lost[i] = recent[n + i]
      BY <2>2
    <2>5. AllLost(lost) = gone
      <3>1. ASSUME NEW i \in (n + 1)..L PROVE recent[i] \in AllLost(lost)
        <4>1. i - n \in 1..(L - n) /\ n + (i - n) = i
          BY <2>2
        <4>2. QED
          BY <2>4, <4>1 DEF AllLost
      <3>2. ASSUME NEW i \in 1..(L - n) PROVE lost[i] \in gone
        <4>1. n + i \in (n + 1)..L
          BY <2>2
        <4>2. QED
          BY <2>4, <4>1
      <3>3. QED
        BY <2>4, <3>1, <3>2 DEF AllLost
    <2>6. ASSUME NEW i \in 1..Len(orphans')
          PROVE  orphans'[i] \in gone \/ \E j \in 1..Len(orphans) : orphans'[i] = orphans[j]
      <3> DEFINE r == Reverse(lost)
                 s == orphans \o r
      <3> HIDE DEF lost
      <3>1. r \in Seq(Block) /\ Len(r) = L - n /\ \A k \in 1..(L - n) : r[k] = lost[(L - n) - k + 1]
        <4>1. r \in Seq(Block)
          BY <2>4, ReverseType
        <4>2. r = [k \in 1..(L - n) |-> lost[(L - n) - k + 1]] /\ L - n \in Nat
          BY <2>2, <2>4 DEF Reverse
        <4>3. QED
          BY <2>2, <4>1, <4>2
      <3>2. /\ s \in Seq(Block) /\ Len(s) = Len(orphans) + (L - n)
            /\ \A k \in 1..Len(s) : s[k] = IF k <= Len(orphans) THEN orphans[k]
                                           ELSE r[k - Len(orphans)]
        <4> HIDE DEF r
        <4>1. /\ s \in Seq(Block) /\ Len(s) = Len(orphans) + Len(r)
              /\ \A k \in 1..(Len(orphans) + Len(r)) :
                    s[k] = IF k <= Len(orphans) THEN orphans[k] ELSE r[k - Len(orphans)]
          BY <2>2, <3>1, ConcatProperties, ZenonT(40)
        <4>2. QED
          BY <3>1, <4>1, Zenon
      <3>3. \A k \in 1..(L - n) : r[k] \in gone
        <4> SUFFICES ASSUME NEW k \in 1..(L - n) PROVE r[k] \in gone
          OBVIOUS
        <4>1. (L - n) - k + 1 \in 1..(L - n) /\ n + ((L - n) - k + 1) \in (n + 1)..L
          BY <2>2
        <4>2. r[k] = lost[(L - n) - k + 1]
          BY <3>1
        <4>3. lost[(L - n) - k + 1] = recent[n + ((L - n) - k + 1)]
          BY <2>4, <4>1
        <4>4. QED
          BY <4>1, <4>2, <4>3
      <3>4. OrphanCap \in Nat \ {0}
        BY CapAssumption
      <3>5. \E k \in 1..Len(s) : orphans'[i] = s[k]
        <4>1. orphans' = LastN(s, OrphanCap)
          BY <2>1 DEF lost
        <4>2. CASE Len(s) <= OrphanCap
          BY <4>1, <4>2 DEF LastN
        <4>3. CASE ~(Len(s) <= OrphanCap)
          <5> DEFINE f == Len(s) - OrphanCap + 1
          <5>1. f \in 1..Len(s) /\ Len(s) \in Nat
            BY <2>2, <3>2, <3>4, <4>3
          <5>2. orphans' = SubSeq(s, f, Len(s))
            BY <4>1, <4>3 DEF LastN
          <5> HIDE DEF f, s
          <5>3. Len(orphans') = Len(s) - f + 1 /\ \A k \in 1..(Len(s) - f + 1) : orphans'[k] = s[f + k - 1]
            BY <3>2, <5>1, <5>2
          <5>4. f + i - 1 \in 1..Len(s) /\ i \in 1..(Len(s) - f + 1)
            BY <5>1, <5>3
          <5>5. QED
            BY <5>3, <5>4
        <4>4. QED
          BY <4>2, <4>3
      <3>6. PICK k \in 1..Len(s) : orphans'[i] = s[k]
        BY <3>5
      <3>7. CASE k <= Len(orphans)
        <4>1. k \in 1..Len(orphans)
          BY <2>2, <3>2, <3>7
        <4>2. QED
          BY <3>2, <3>6, <3>7, <4>1
      <3>8. CASE ~(k <= Len(orphans))
        <4>1. k - Len(orphans) \in 1..(L - n)
          BY <2>2, <3>2, <3>8
        <4>2. QED
          BY <3>2, <3>3, <3>6, <3>8, <4>1
      <3>9. QED
        BY <3>7, <3>8
    <2>7. standing' = [b \in Block |-> IF b \in gone THEN "orphaned" ELSE standing[b]]
      BY <2>1, <2>5
    <2>8. QED
      BY <1>1, <2>3, <2>6, <2>7
  <1>4. QED
    BY <1>2, <1>3

-----------------------------------------------------------------------------
(* The recorded chain grows upwards, and what lies on it and above none of *)
(* the blocks kept is one of them or of their past.                        *)
LEMMA CutTheRun ==
    ASSUME TypeOK, RecentIsRun, restarted = "no", NEW n \in 0..Len(recent)
    PROVE  /\ \A i \in 1..n, j \in (n + 1)..Len(recent) : Height(recent[i]) < Height(recent[j])
           /\ \A c \in Block : /\ n > 0 /\ OnChain(c, recent[Len(recent)])
                               /\ \A j \in (n + 1)..Len(recent) : c # recent[j]
                               => OnChain(c, recent[n])
  <1> DEFINE L == Len(recent)
  <1>1. CASE recent = <<>>
    <2>1. n = 0 /\ 1..n = {}
      BY <1>1
    <2>2. QED
      BY <2>1
  <1>2. CASE recent # <<>>
    <2>1. PICK end \in Block, base \in Nat :
              /\ L \in Nat \ {0} /\ end = recent[L] /\ Len(Path[end]) = base + L
              /\ \A i \in 1..L : recent[i] = Path[end][base + i]
      BY <1>2, RunOfEnd
    <2>2. n \in Nat /\ n <= L
      BY <2>1
    <2> HIDE DEF L
    <2>3. \A i \in 1..L : base + i \in 1..Len(Path[end])
      BY <2>1
    <2>4. ASSUME NEW i \in 1..L
          PROVE  /\ recent[i] \in Block /\ Height(recent[i]) = base + i
                 /\ \A k \in 1..(base + i) : Path[recent[i]][k] = Path[end][k]
      <3>1. base + i \in 1..Len(Path[end]) /\ recent[i] = Path[end][base + i]
        BY <2>1, <2>3
      <3>2. /\ recent[i] \in Block /\ Len(Path[recent[i]]) = base + i
            /\ \A k \in 1..(base + i) : Path[recent[i]][k] = Path[end][k]
        BY <3>1, PathPrefix
      <3>3. QED
        BY <3>2, PathEnd
    <2>5. ASSUME NEW i \in 1..n, NEW j \in (n + 1)..L PROVE Height(recent[i]) < Height(recent[j])
      <3>1. i \in 1..L /\ j \in 1..L /\ i < j
        BY <2>1, <2>2
      <3>2. Height(recent[i]) = base + i /\ Height(recent[j]) = base + j
        BY <2>4, <3>1
      <3>3. QED
        BY <2>1, <3>1, <3>2
    <2>6. ASSUME NEW c \in Block, n > 0, OnChain(c, end), \A j \in (n + 1)..L : c # recent[j]
          PROVE  OnChain(c, recent[n])
      <3>1. PICK k \in 1..Len(Path[end]) : Path[end][k] = c
        BY <2>6, PathEnd DEF OnChain
      <3>2. k <= base + n
        <4> SUFFICES ASSUME ~(k <= base + n) PROVE FALSE
          OBVIOUS
        <4>1. k - base \in (n + 1)..L /\ k - base \in 1..L /\ base + (k - base) = k
          BY <2>1, <2>2, <3>1
        <4>2. recent[k - base] = c
          BY <2>1, <3>1, <4>1
        <4>3. QED
          BY <2>6, <4>1, <4>2
      <3>3. n \in 1..L /\ k \in 1..(base + n)
        BY <2>1, <2>2, <2>6, <3>1, <3>2
      <3>4. recent[n] \in Block /\ Path[recent[n]][k] = c
        BY <2>4, <3>1, <3>3
      <3>5. k \in 1..Len(Path[recent[n]]) /\ recent[n] # Origin
        <4>1. Height(recent[n]) = Len(Path[recent[n]]) /\ recent[n] # Origin
          BY <3>4, PathEnd
        <4>2. QED
          BY <2>4, <3>3, <4>1
      <3>6. QED
        BY <3>4, <3>5 DEF OnChain
    <2>7. QED
      BY <2>1, <2>5, <2>6 DEF L
  <1>3. QED
    BY <1>1, <1>2

(* A child's chain is its parent's and itself. *)
LEMMA ChildChain ==
    ASSUME NEW b \in Block, NEW p \in Block, Parent(b) = p, NEW c \in Block, OnChain(c, p)
    PROVE  /\ OnChain(c, b) /\ c # b
           /\ ~SlotRivals(b, c) /\ ~HeightRivals(b, c)
  <1>1. /\ Len(Path[b]) = Len(Path[p]) + 1 /\ Slot[p] < Slot[b]
        /\ \A i \in 1..Len(Path[p]) : Path[b][i] = Path[p][i]
    BY ChildPath
  <1>2. p # Origin /\ b # Origin /\ Len(Path[p]) \in Nat /\ Len(Path[p]) > 0
        /\ Path[p][Len(Path[p])] = p /\ Height(b) = Len(Path[b]) /\ c # Origin
        /\ Height(c) = Len(Path[c])
    BY PathEnd
  <1>3. PICK i \in 1..Len(Path[p]) : Path[p][i] = c
    BY <1>2 DEF OnChain
  <1>4. i \in 1..Len(Path[b]) /\ Path[b][i] = c
    BY <1>1, <1>2, <1>3
  <1>5. Len(Path[c]) = i
    BY <1>3, PathPrefix
  <1>6. Slot[c] <= Slot[p]
    <2>1. Len(Path[p]) \in 1..Len(Path[p]) /\ i <= Len(Path[p])
      BY <1>2
    <2>2. QED
      BY <1>2, <1>3, <2>1, SlotsOrderPath
  <1>7. Slot[c] \in Nat /\ Slot[p] \in Nat /\ Slot[b] \in Nat
    BY TreeAssumption
  <1>8. Slot[c] # Slot[b] /\ Height(c) # Height(b)
    BY <1>1, <1>2, <1>3, <1>5, <1>6, <1>7
  <1>9. QED
    BY <1>2, <1>4, <1>8 DEF OnChain, SlotRivals, HeightRivals

(* A new block leaves the readers' chain what it was, plus the block. *)
LEMMA ForwardKeepsFeed ==
    ASSUME TypeOK, Shape, FeedInv, HandleForward
    PROVE  FeedInv' /\ [Feed!Next]_(Feed!feedVars)
  <1> DEFINE L == Len(recent)
  <1>1. PICK b \in Block :
              /\ recent' = Noted(b)
              /\ standing' = [standing EXCEPT ![b] = "current"]
              /\ UNCHANGED <<orphans, restarted>>
              /\ restarted = "no" /\ recent # <<>> => Parent(b) = recent[L]
    BY ForwardStep
  <1>2. PICK d \in 0..L : /\ Len(recent') = L - d + 1
                          /\ \A i \in 1..(L - d) : recent'[i] = recent[i + d]
                          /\ recent'[L - d + 1] = b
    BY <1>1, NotedElements
  <1>3. /\ L \in Nat /\ d \in Nat /\ d <= L /\ recent \in Seq(Block) /\ orphans \in Seq(Block)
        /\ standing \in [Block -> {"unseen", "current", "orphaned"}]
    BY DEF TypeOK
  <1>4. standing'[b] = "current" /\ \A c \in Block : c # b => standing'[c] = standing[c]
    BY <1>1, <1>3
  <1>5. ASSUME NEW i \in 1..Len(recent')
        PROVE  recent'[i] = b \/ \E j \in 1..L : recent'[i] = recent[j]
    <2>1. CASE i = L - d + 1
      BY <1>2, <2>1
    <2>2. CASE i # L - d + 1
      <3>1. i \in Nat /\ 1 <= i /\ i <= L - d + 1 /\ L \in Nat /\ d \in Nat /\ d <= L
        BY <1>2, <1>3
      <3>2. i \in 1..(L - d) /\ i + d \in 1..L
        <4> HIDE DEF L
        <4>1. QED
          BY <3>1, <2>2
      <3>3. QED
        BY <1>2, <3>2
    <2>3. QED
      BY <2>1, <2>2
  <1>6. \A j \in 1..L : recent[j] \in Block
    BY <1>3
  <1>7. \A j \in 1..Len(orphans) : orphans[j] \in Block
    BY <1>3
  <1>8. Seen'
    BY <1>1, <1>4, <1>5, <1>6, <1>7 DEF FeedInv, Seen
  <1>9. ASSUME restarted = "no", NEW c \in Block, standing[c] = "current"
        PROVE  /\ L \in 1..L /\ recent[L] \in Block /\ Parent(b) = recent[L]
               /\ OnChain(c, recent[L]) /\ OnChain(c, b) /\ c # b
               /\ ~SlotRivals(b, c) /\ ~HeightRivals(b, c)
    <2>1. recent # <<>> /\ OnChain(c, recent[L])
      BY <1>9 DEF FeedInv, HeldIsRecorded
    <2>2. L \in 1..L
      BY <1>3, <2>1
    <2>3. QED
      BY <1>1, <1>6, <1>9, <2>1, <2>2, ChildChain
  <1>10. HeldIsRecorded'
    <2> SUFFICES ASSUME restarted = "no"
                 PROVE  /\ \A i \in 1..Len(recent') : standing'[recent'[i]] = "current"
                        /\ \A c \in Block : standing'[c] = "current" =>
                               recent' # <<>> /\ OnChain(c, recent'[Len(recent')])
      BY <1>1 DEF HeldIsRecorded
    <2>1. \A i \in 1..Len(recent') : standing'[recent'[i]] = "current"
      BY <1>4, <1>5, <1>6 DEF FeedInv, HeldIsRecorded
    <2>2. recent'[Len(recent')] = b /\ recent' # <<>>
      <3>1. Len(recent') > 0
        BY <1>2, <1>3
      <3>2. QED
        BY <1>2, <3>1
    <2>3. OnChain(b, b)
      BY PathEnd
    <2>4. QED
      BY <1>4, <1>9, <2>1, <2>2, <2>3
  <1>11. [Feed!Next]_(Feed!feedVars)
    <2>1. CASE standing[b] = "current"
      <3>1. standing' = standing
        BY <1>1, <1>3, <2>1
      <3>2. QED
        BY <1>1, <3>1 DEF Feed!feedVars
    <2>2. CASE standing[b] # "current"
      <3>1. ASSUME restarted = "no", Feed!Current # {} PROVE Parent(b) \in Feed!Current
        <4>1. PICK c \in Block : standing[c] = "current"
          BY <3>1 DEF Feed!Current
        <4>2. L \in 1..L /\ recent[L] \in Block /\ Parent(b) = recent[L]
          BY <1>9, <3>1, <4>1
        <4>3. standing[recent[L]] = "current"
          BY <3>1, <4>2 DEF FeedInv, HeldIsRecorded
        <4>4. QED
          BY <4>2, <4>3 DEF Feed!Current
      <3>2. restarted = "no" => \A c \in Feed!Current : OnChain(c, b)
        BY <1>9 DEF Feed!Current
      <3>3. Feed!Adopt(b)
        BY <1>1, <2>2, <3>1, <3>2 DEF Feed!Adopt, Feed!OnChain, OnChain, Feed!Parent, Parent
      <3>4. QED
        BY <3>3 DEF Feed!Next
    <2>3. QED
      BY <2>1, <2>2
  <1>12. QED
    BY <1>8, <1>10, <1>11 DEF FeedInv

(* A rollback takes the newest blocks of the readers' chain. *)
LEMMA BackwardKeepsFeed ==
    ASSUME TypeOK, Shape, FeedInv, HandleBackward, recent' # <<>> \/ recent' = recent
    PROVE  FeedInv' /\ [Feed!Next]_(Feed!feedVars)
  <1> DEFINE L == Len(recent)
  <1>1. UNCHANGED restarted
    BY BackwardStep
  <1>2. CASE UNCHANGED <<recent, orphans, standing>>
    BY <1>1, <1>2 DEF FeedInv, Seen, HeldIsRecorded, Feed!feedVars
  <1>3. CASE ~UNCHANGED <<recent, orphans, standing>>
    <2>1. PICK n \in 0..L :
              /\ Len(recent') = n /\ \A i \in 1..n : recent'[i] = recent[i]
              /\ LET lost == {recent[i] : i \in (n + 1)..L}
                 IN  /\ \A i \in 1..Len(orphans') :
                           \/ orphans'[i] \in lost
                           \/ \E j \in 1..Len(orphans) : orphans'[i] = orphans[j]
                     /\ standing' = [b \in Block |-> IF b \in lost
                                                     THEN "orphaned" ELSE standing[b]]
      BY <1>3, BackwardStep
    <2> DEFINE lost == {recent[i] : i \in (n + 1)..L}
    <2>2. /\ L \in Nat /\ n \in Nat /\ n <= L
          /\ recent \in Seq(Block) /\ orphans \in Seq(Block)
          /\ standing \in [Block -> {"unseen", "current", "orphaned"}]
      BY DEF TypeOK
    <2>3. /\ \A i \in 1..L : recent[i] \in Block
          /\ \A i \in 1..Len(orphans) : orphans[i] \in Block
          /\ 1..n \subseteq 1..L /\ (n + 1)..L \subseteq 1..L /\ lost \subseteq Block
      BY <2>2
    <2>4. \A b \in Block : standing'[b] = IF b \in lost THEN "orphaned" ELSE standing[b]
      BY <2>1
    <2>5. Seen'
      <3>1. \A b \in Block : standing[b] # "unseen" => standing'[b] # "unseen"
        BY <2>4
      <3>2. \A b \in lost : standing'[b] # "unseen"
        BY <2>3, <2>4
      <3>3. \A i \in 1..Len(recent') : standing'[recent'[i]] # "unseen"
        BY <2>1, <2>3, <3>1 DEF FeedInv, Seen
      <3>4. \A i \in 1..Len(orphans') : standing'[orphans'[i]] # "unseen"
        BY <2>1, <2>3, <3>1, <3>2 DEF FeedInv, Seen
      <3>5. QED
        BY <3>3, <3>4 DEF Seen
    <2>6. HeldIsRecorded'
      <3> SUFFICES ASSUME restarted = "no"
                   PROVE  /\ \A i \in 1..n : standing'[recent[i]] = "current"
                          /\ \A c \in Block : standing'[c] = "current" =>
                                 recent' # <<>> /\ OnChain(c, recent[n])
        <4>1. recent' # <<>> => n \in 1..n
          BY <2>1, <2>2
        <4>2. QED
          BY <1>1, <2>1, <4>1 DEF HeldIsRecorded
      <3>1. RecentIsRun
        BY DEF Shape
      <3>2. \A i \in 1..n : recent[i] \notin lost
        <4> SUFFICES ASSUME NEW i \in 1..n, NEW j \in (n + 1)..L PROVE recent[i] # recent[j]
          OBVIOUS
        <4>1. Height(recent[i]) < Height(recent[j])
          BY <3>1, CutTheRun
        <4>2. Height(recent[i]) \in Nat
          BY <2>3, PathEnd
        <4>3. QED
          BY <4>1, <4>2
      <3>3. \A i \in 1..n : standing'[recent[i]] = "current"
        BY <2>3, <2>4, <3>2 DEF FeedInv, HeldIsRecorded
      <3>4. ASSUME NEW c \in Block, standing'[c] = "current"
            PROVE  recent' # <<>> /\ OnChain(c, recent[n])
        <4>1. c \notin lost /\ standing[c] = "current"
          BY <2>4, <3>4
        <4>2. recent # <<>> /\ OnChain(c, recent[L])
          BY <4>1 DEF FeedInv, HeldIsRecorded
        <4>3. recent' # <<>>
          BY <4>2
        <4>4. n > 0
          BY <2>1, <2>2, <4>3
        <4>5. QED
          BY <3>1, <4>1, <4>2, <4>3, <4>4, CutTheRun
      <3>5. QED
        BY <3>3, <3>4
    <2>7. [Feed!Next]_(Feed!feedVars)
      <3> DEFINE gone == lost \cap Feed!Current
      <3>1. \A b \in lost : standing[b] = "current" \/ standing[b] = "orphaned"
        BY <2>2, <2>3 DEF FeedInv, Seen
      <3>2. standing' = [b \in Block |-> IF b \in gone THEN "orphaned" ELSE standing[b]]
        BY <2>1, <2>3, <3>1 DEF Feed!Current
      <3>3. CASE gone = {}
        <4>1. standing' = standing
          BY <2>2, <3>2, <3>3
        <4>2. QED
          BY <1>1, <4>1 DEF Feed!feedVars
      <3>4. CASE gone # {}
        <4>1. gone \subseteq Feed!Current /\ gone \in SUBSET Block
          BY <2>3
        <4>2. ASSUME restarted = "no", NEW c \in Feed!Current \ gone, NEW b \in gone
              PROVE  Height(c) < Height(b)
          <5>1. c \in Block /\ standing'[c] = "current" /\ c \notin lost
            BY <2>4, <4>2 DEF Feed!Current
          <5>2. PICK j \in (n + 1)..L : b = recent[j]
            BY <4>2
          <5>3. recent' # <<>> /\ OnChain(c, recent'[n])
            BY <1>1, <2>1, <4>2, <5>1, <2>6 DEF HeldIsRecorded
          <5>4. n \in 1..n /\ recent'[n] = recent[n] /\ recent[n] \in Block
            BY <2>1, <2>2, <2>3, <5>3
          <5>5. Height(recent[n]) < Height(b)
            BY <4>2, <5>2, <5>4, CutTheRun DEF Shape
          <5>6. PICK k \in 1..Len(Path[recent[n]]) : Path[recent[n]][k] = c
            BY <5>1, <5>3, <5>4, PathEnd DEF OnChain
          <5>7. Len(Path[c]) = k
            BY <5>4, <5>6, PathPrefix
          <5>8. /\ Height(c) = Len(Path[c]) /\ Height(recent[n]) = Len(Path[recent[n]])
                /\ Len(Path[recent[n]]) \in Nat /\ Height(b) = Len(Path[b]) /\ Len(Path[b]) \in Nat
            BY <2>3, <4>2, <5>1, <5>4, PathEnd
          <5>9. QED
            BY <5>5, <5>6, <5>7, <5>8
        <4>3. Feed!OrphanNewest(gone)
          BY <1>1, <3>2, <3>4, <4>1, <4>2 DEF Feed!OrphanNewest, Feed!Height, Height
        <4>4. QED
          BY <4>1, <4>3 DEF Feed!Next
      <3>5. QED
        BY <3>3, <3>4
    <2>8. QED
      BY <2>5, <2>6, <2>7 DEF FeedInv
  <1>4. QED
    BY <1>2, <1>3

(* The steps that tell readers nothing; starting over breaks the promise. *)
LEMMA OthersKeepFeed ==
    ASSUME TypeOK, FeedInv, [Next]_vars, ~HandleForward, ~HandleBackward
    PROVE  FeedInv' /\ [Feed!Next]_(Feed!feedVars)
  <1>1. UNCHANGED <<recent, orphans, standing, battles>>
    BY DEF Next, Extend, Reorg, Serve, ServeBackward, ServeForward, Drop, Sync, Connect,
           FindByPoints, FindNone, QueryTip, FindByTip, stateVars, historyVars, vars
  <1>2. CASE restarted' = restarted
    BY <1>1, <1>2 DEF FeedInv, Seen, HeldIsRecorded, Feed!feedVars
  <1>3. CASE restarted' # restarted
    <2>1. FindByTip
      BY <1>3 DEF Next, Extend, Reorg, Serve, ServeBackward, ServeForward, Drop, Sync, Connect,
                  FindByPoints, FindNone, QueryTip, vars
    <2>2. recent # <<>> /\ restarted' # "no"
      BY <1>3, <2>1 DEF FindByTip
    <2>3. FeedInv'
      BY <1>1, <2>2 DEF FeedInv, Seen, HeldIsRecorded
    <2>4. CASE restarted # "no"
      BY <1>1, <2>2, <2>3, <2>4 DEF Feed!feedVars
    <2>5. CASE restarted = "no"
      <3>1. 1 \in 1..Len(recent) /\ recent[1] \in Block
        BY <2>2 DEF TypeOK
      <3>2. recent[1] \in Feed!Current
        BY <2>5, <3>1 DEF FeedInv, HeldIsRecorded, Feed!Current
      <3>3. Feed!StartOver
        BY <1>1, <2>2, <2>5, <3>2 DEF Feed!StartOver
      <3>4. QED
        BY <2>3, <3>3 DEF Feed!Next
    <2>6. QED
      BY <2>3, <2>4, <2>5
  <1>4. QED
    BY <1>2, <1>3

LEMMA FeedInitially == Init => FeedInv /\ Feed!Init
  BY DEF Init, FeedInv, Seen, HeldIsRecorded, Feed!Init

LEMMA StepKeepsFeed ==
    ASSUME TypeOK, Shape, FeedInv, [Next]_vars, [recent' # <<>>]_recent
    PROVE  FeedInv' /\ [Feed!Next]_(Feed!feedVars)
  <1>1. CASE HandleForward
    BY <1>1, ForwardKeepsFeed
  <1>2. CASE HandleBackward
    <2>1. recent' # <<>> \/ recent' = recent
      OBVIOUS
    <2>2. QED
      BY <1>2, <2>1, BackwardKeepsFeed
  <1>3. CASE ~HandleForward /\ ~HandleBackward
    BY <1>3, OthersKeepFeed
  <1>4. QED
    BY <1>1, <1>2, <1>3

(* The client implements ChainFeed: what handle_forward and                *)
(* handle_rollback publish is one chain, growing by one child at a time    *)
(* and shrinking from its newest end, until the client had to start over.  *)
THEOREM ClientKeepsPromise == Spec /\ ForksFit => KeepsPromise
  <1>1. Init => FeedInv /\ Feed!Init
    BY FeedInitially
  <1>2. TypeOK /\ Shape /\ FeedInv /\ [Next]_vars /\ [recent' # <<>>]_recent
        => FeedInv' /\ [Feed!Next]_(Feed!feedVars)
    BY StepKeepsFeed
  <1>3. ChainInv => TypeOK /\ Shape
    BY DEF ChainInv, Shape
  <1>4. QED
    BY ChainInvariant, <1>1, <1>2, <1>3, PTL DEF Spec, ForksFit, KeepsPromise, Feed!Spec

-----------------------------------------------------------------------------
(* The losers a battle names are rivals of its winner from the orphans. *)
LEMMA BattlesNameRivals ==
    ASSUME TypeOK, NEW b \in Block, NEW t \in BattlesOf(b)
    PROVE  /\ t.winner = b
           /\ \E i \in 1..Len(orphans) : t.loser = orphans[i]
           /\ IF t.kind = "slot" THEN SlotRivals(b, t.loser) ELSE HeightRivals(b, t.loser)
  <1>1. CASE SlotLosers(b) # {}
    <2>1. PICK i \in FirstOf(SlotLosers(b)) :
              t = [winner |-> b, loser |-> orphans[i], kind |-> "slot"]
      BY <1>1 DEF BattlesOf
    <2>2. i \in SlotLosers(b)
      BY <2>1 DEF FirstOf
    <2>3. QED
      BY <2>1, <2>2 DEF SlotLosers
  <1>2. CASE SlotLosers(b) = {}
    <2>1. PICK i \in FirstOf(HeightLosers(b)) :
              t = [winner |-> b, loser |-> orphans[i], kind |-> "height"]
      BY <1>2 DEF BattlesOf
    <2>2. i \in HeightLosers(b)
      BY <2>1 DEF FirstOf
    <2>3. QED
      BY <2>1, <2>2 DEF HeightLosers
  <1>3. QED
    BY <1>1, <1>2

LEMMA NewBattlesAreReal ==
    ASSUME TypeOK, Shape, FeedInv, [Next]_vars, restarted = "no", NEW t \in battles' \ battles
    PROVE  /\ standing'[t.winner] = "current" /\ standing'[t.loser] = "orphaned"
           /\ IF t.kind = "slot" THEN SlotRivals(t.winner, t.loser)
                                 ELSE HeightRivals(t.winner, t.loser)
  <1>1. HandleForward
    <2>1. battles' # battles
      OBVIOUS
    <2>2. HandleBackward => battles' = battles
      BY BackwardStep
    <2>3. QED
      BY <2>1, <2>2
      DEF Next, Extend, Reorg, Serve, ServeBackward, ServeForward, Drop, Sync, Connect,
          FindByPoints, FindNone, QueryTip, FindByTip, stateVars, historyVars, vars
  <1>2. PICK b \in Block :
              /\ battles' = battles \cup BattlesOf(b)
              /\ standing' = [standing EXCEPT ![b] = "current"]
              /\ recent # <<>> => Parent(b) = recent[Len(recent)]
    BY <1>1, ForwardStep
  <1>3. PICK i \in 1..Len(orphans) : t.winner = b /\ t.loser = orphans[i]
    BY <1>2, BattlesNameRivals
  <1>4. IF t.kind = "slot" THEN SlotRivals(b, orphans[i]) ELSE HeightRivals(b, orphans[i])
    BY <1>2, <1>3, BattlesNameRivals
  <1>5. /\ orphans[i] \in Block /\ orphans[i] # b
        /\ standing \in [Block -> {"unseen", "current", "orphaned"}]
    BY <1>4 DEF TypeOK, SlotRivals, HeightRivals
  <1>6. standing[orphans[i]] # "current"
    <2> SUFFICES ASSUME standing[orphans[i]] = "current" PROVE FALSE
      OBVIOUS
    <2>1. recent # <<>> /\ OnChain(orphans[i], recent[Len(recent)])
      BY <1>5 DEF FeedInv, HeldIsRecorded
    <2>2. recent[Len(recent)] \in Block
      BY <2>1 DEF TypeOK
    <2>3. QED
      BY <1>2, <1>4, <1>5, <2>1, <2>2, ChildChain
  <1>7. standing[orphans[i]] = "orphaned"
    BY <1>5, <1>6 DEF FeedInv, Seen
  <1>8. QED
    BY <1>2, <1>3, <1>4, <1>5, <1>7

(* A slot_battle event (note_block, handle_forward) names a current block  *)
(* and an orphaned one that competed with it, although the orphan list is  *)
(* never cleaned when a fork wins back, as long as the client has not had  *)
(* to start over.                                                          *)
THEOREM BattlesTellTheTruth == Spec /\ ForksFit /\ [](restarted = "no") => BattlesAreReal
  <1> DEFINE Real == \A t \in battles' \ battles :
                        /\ standing'[t.winner] = "current"
                        /\ restarted # "origin" => standing'[t.loser] = "orphaned"
                        /\ IF t.kind = "slot" THEN SlotRivals(t.winner, t.loser)
                                              ELSE HeightRivals(t.winner, t.loser)
  <1>1. Init => FeedInv
    BY FeedInitially
  <1>2. TypeOK /\ Shape /\ FeedInv /\ [Next]_vars /\ [recent' # <<>>]_recent => FeedInv'
    BY StepKeepsFeed
  <1>3. TypeOK /\ Shape /\ FeedInv /\ [Next]_vars /\ restarted = "no" => Real
    BY NewBattlesAreReal
  <1>4. ChainInv => TypeOK /\ Shape
    BY DEF ChainInv, Shape
  <1>5. QED
    BY ChainInvariant, <1>1, <1>2, <1>3, <1>4, PTL DEF Spec, ForksFit, BattlesAreReal

-----------------------------------------------------------------------------
(* What readers hold as current and what the client still remembers.        *)

(* No block is noted while the list is full: nothing has been evicted.      *)
NeverFull == [][HandleForward => Len(recent) < RecentCap]_vars

(* Readers' current blocks are the recorded ones and older ones: none is    *)
(* missing above the oldest recorded block, and none is too many.           *)
CurrentAbove ==
    restarted # "origin" =>
        /\ \A i \in 1..Len(recent) : standing[recent[i]] = "current"
        /\ \A b \in Block : standing[b] = "current" =>
              /\ recent # <<>>
              /\ (\E i \in 1..Len(recent) : recent[i] = b) \/ Slot[b] < Slot[recent[1]]

LEMMA SlotsIncrease ==
    ASSUME TypeOK, SlotsGrow, restarted # "origin",
           NEW i \in 1..Len(recent), NEW j \in 1..Len(recent), i < j
    PROVE  Slot[recent[i]] < Slot[recent[j]]
  <1> DEFINE L == Len(recent)
             Bad == {k \in (i + 1)..L : ~(Slot[recent[i]] < Slot[recent[k]])}
  <1>1. L \in Nat /\ recent \in Seq(Block) /\ i \in Nat /\ j \in Nat /\ j <= L /\ i >= 1
    BY DEF TypeOK
  <1>2. \A k \in 1..L : recent[k] \in Block /\ Slot[recent[k]] \in Nat
    <2>1. \A b \in Block : Slot[b] \in Nat
      BY ONLY TreeAssumption
    <2>2. \A k \in 1..L : recent[k] \in Block
      BY ONLY <1>1
    <2>3. QED
      BY ONLY <2>1, <2>2
  <1>3. \A k \in 1..(L - 1) : Slot[recent[k]] < Slot[recent[k + 1]]
    BY DEF SlotsGrow
  <1> HIDE DEF L
  <1>4. Bad = {}
    <2> SUFFICES ASSUME Bad # {} PROVE FALSE
      OBVIOUS
    <2>1. Bad \in SUBSET Nat
      BY <1>1
    <2>2. PICK k \in Bad : \A m \in Bad : k <= m
      BY <2>1, LeastNumber
    <2>3. k \in (i + 1)..L /\ ~(Slot[recent[i]] < Slot[recent[k]])
      BY <2>2
    <2>4. k - 1 \in 1..(L - 1) /\ (k - 1) + 1 = k /\ k - 1 \in 1..L /\ k \in 1..L /\ i \in 1..L
          /\ (k - 1 = i \/ k - 1 \in (i + 1)..L) /\ ~(k <= k - 1)
      BY <1>1, <2>3
    <2>5. k - 1 = i \/ Slot[recent[i]] < Slot[recent[k - 1]]
      BY <2>2, <2>4
    <2>6. Slot[recent[k - 1]] < Slot[recent[k]]
      BY <1>3, <2>4
    <2>7. Slot[recent[i]] \in Nat /\ Slot[recent[k - 1]] \in Nat /\ Slot[recent[k]] \in Nat
      BY <1>2, <2>4
    <2>8. QED
      BY <2>3, <2>5, <2>6, <2>7
  <1>5. j \in (i + 1)..L
    BY <1>1
  <1>6. QED
    BY <1>4, <1>5

(* A new block is above every recorded one. *)
LEMMA ForwardIsAbove ==
    ASSUME TypeOK, Shape, HandleForward
    PROVE  \E b \in Block :
              /\ recent' = Noted(b) /\ standing' = [standing EXCEPT ![b] = "current"]
              /\ UNCHANGED restarted
              /\ restarted # "origin" =>
                    \A i \in 1..Len(recent) : Slot[recent[i]] < Slot[b]
  <1>1. wire \in Seq(Message) /\ wire # <<>> /\ Head(wire) = wire[1] /\ 1 \in 1..Len(wire)
    BY DEF TypeOK, HandleForward
  <1>2. PICK b \in Block : b = wire[1].pt /\ wire[1].dir = "forward"
    <2>1. wire[1] \in Message /\ wire[1].dir = "forward"
      BY <1>1 DEF HandleForward
    <2>2. QED
      BY <2>1 DEF Message
  <1>3. /\ recent' = Noted(b) /\ standing' = [standing EXCEPT ![b] = "current"]
        /\ UNCHANGED restarted /\ phase = "live"
    BY <1>1, <1>2 DEF HandleForward
  <1>4. pos # NoPoint
    BY <1>1, <1>2, <1>3 DEF Shape, WireLeads
  <1>5. Parent(b) = pos
    BY <1>1, <1>2, <1>4 DEF Shape, WireLeads
  <1>6. ASSUME restarted # "origin", NEW i \in 1..Len(recent)
        PROVE  Slot[recent[i]] < Slot[b]
    <2> DEFINE L == Len(recent)
    <2>1. L \in Nat /\ recent \in Seq(Block) /\ recent # <<>> /\ L \in 1..L
      BY <1>6 DEF TypeOK
    <2>2. pos # Origin /\ Slot[recent[L]] <= Slot[pos]
      BY <1>4, <1>6, <2>1 DEF Shape, BelowPosition
    <2>3. pos \in Block
      BY <1>4, <2>2 DEF TypeOK, Point
    <2>4. Slot[pos] < Slot[b]
      BY <1>5, <2>3, ChildPath
    <2>5. i = L \/ i < L
      BY <2>1
    <2>6. i < L => Slot[recent[i]] < Slot[recent[L]]
      BY <1>6, <2>1, SlotsIncrease DEF Shape
    <2>7. recent[i] \in Block /\ recent[L] \in Block
      BY <2>1
    <2>8. Slot[recent[i]] \in Nat /\ Slot[recent[L]] \in Nat /\ Slot[pos] \in Nat /\ Slot[b] \in Nat
      BY <2>3, <2>7, TreeAssumption
    <2> HIDE DEF L
    <2>9. QED
      BY <2>2, <2>4, <2>5, <2>6, <2>8
  <1>7. QED
    BY <1>3, <1>6

(* A rollback orphans what it takes off the list, and nothing it leaves.    *)
LEMMA BackwardTakes ==
    ASSUME TypeOK, Shape, HandleBackward, restarted # "origin"
    PROVE  \E n \in 0..Len(recent) :
              /\ Len(recent') = n /\ \A i \in 1..n : recent'[i] = recent[i]
              /\ \A i \in 1..n : standing'[recent[i]] = standing[recent[i]]
              /\ \A b \in Block : \/ standing'[b] = standing[b] /\ \A j \in (n + 1)..Len(recent) : b # recent[j]
                                  \/ standing'[b] = "orphaned" /\ \E j \in (n + 1)..Len(recent) : b = recent[j]
  <1> DEFINE L == Len(recent)
  <1>1. L \in Nat /\ recent \in Seq(Block)
    BY DEF TypeOK
  <1>2. CASE UNCHANGED <<recent, orphans, standing>>
    <2>1. L \in 0..L /\ (L + 1)..L = {}
      BY <1>1
    <2>2. QED
      BY <1>2, <2>1
  <1>3. CASE ~UNCHANGED <<recent, orphans, standing>>
    <2>1. PICK n \in 0..L :
              /\ Len(recent') = n /\ \A i \in 1..n : recent'[i] = recent[i]
              /\ standing' = [b \in Block |-> IF b \in {recent[i] : i \in (n + 1)..L}
                                              THEN "orphaned" ELSE standing[b]]
      BY <1>3, BackwardStep
    <2>2. ASSUME NEW i \in 1..n, NEW j \in (n + 1)..L
          PROVE  recent[i] # recent[j]
      <3>1. i \in 1..L /\ j \in 1..L /\ i < j
        BY <1>1
      <3>2. Slot[recent[i]] < Slot[recent[j]] /\ Slot[recent[i]] \in Nat
        <4>1. recent[i] \in Block
          BY <1>1, <3>1
        <4>2. QED
          BY <3>1, <4>1, SlotsIncrease, TreeAssumption DEF Shape
      <3>3. QED
        BY <3>2
    <2>3. \A i \in 1..n : recent[i] \in Block
      BY <1>1
    <2>4. \A i \in 1..n : standing'[recent[i]] = standing[recent[i]]
      BY <2>1, <2>2, <2>3
    <2>5. QED
      BY <2>1, <2>4
  <1>4. QED
    BY <1>2, <1>3

(* The steps that leave the lists alone; a client that started over from    *)
(* origin with recorded blocks stays marked as such.                        *)
LEMMA OthersKeepLists ==
    ASSUME [Next]_vars, ~HandleForward, ~HandleBackward
    PROVE  /\ UNCHANGED <<recent, orphans, standing, battles>>
           /\ restarted = "origin" => restarted' = "origin"
           /\ restarted' = "no" => restarted = "no"
  BY DEF Next, Extend, Reorg, Serve, ServeBackward, ServeForward, Drop, Sync, Connect,
         FindByPoints, FindNone, QueryTip, FindByTip, stateVars, historyVars, vars

LEMMA StepCurrentAbove ==
    ASSUME TypeOK, Shape, CurrentAbove, [Next]_vars, [recent' # <<>>]_recent
    PROVE  CurrentAbove'
  <1> DEFINE L == Len(recent)
  <1>1. /\ L \in Nat /\ recent \in Seq(Block) /\ \A i \in 1..L : recent[i] \in Block
        /\ standing \in [Block -> {"unseen", "current", "orphaned"}]
    BY DEF TypeOK
  <1>2. CASE HandleForward
    <2>1. PICK b \in Block :
              /\ recent' = Noted(b) /\ standing' = [standing EXCEPT ![b] = "current"]
              /\ UNCHANGED restarted
              /\ restarted # "origin" => \A i \in 1..L : Slot[recent[i]] < Slot[b]
      BY <1>2, ForwardIsAbove
    <2>2. PICK d \in 0..L : /\ Len(recent') = L - d + 1
                            /\ \A i \in 1..(L - d) : recent'[i] = recent[i + d]
                            /\ recent'[L - d + 1] = b
      BY <2>1, NotedElements
    <2>3. standing'[b] = "current" /\ \A c \in Block : c # b => standing'[c] = standing[c]
      BY <1>1, <2>1
    <2> SUFFICES ASSUME restarted # "origin"
                 PROVE  /\ \A i \in 1..(L - d + 1) : standing'[recent'[i]] = "current"
                        /\ \A c \in Block : standing'[c] = "current" =>
                              \/ \E i \in 1..(L - d + 1) : recent'[i] = c
                              \/ Slot[c] < Slot[recent'[1]]
      <3>1. recent' # <<>>
        <4>1. L - d + 1 # 0
          BY <1>1
        <4>2. QED
          BY <2>2, <4>1
      <3>2. QED
        BY <2>1, <2>2, <3>1 DEF CurrentAbove
    <2>4. \A i \in 1..L : standing[recent[i]] = "current"
      BY DEF CurrentAbove
    <2>5. ASSUME NEW i \in 1..(L - d + 1)
          PROVE  standing'[recent'[i]] = "current"
      <3>1. CASE i = L - d + 1
        BY <2>2, <2>3, <3>1
      <3>2. CASE i # L - d + 1
        <4>1. i \in 1..(L - d) /\ i + d \in 1..L
          <5> HIDE DEF L
          <5>1. QED
            BY <1>1, <3>2
        <4>2. QED
          BY <1>1, <2>2, <2>3, <2>4, <4>1
      <3>3. QED
        BY <3>1, <3>2
    <2>6. ASSUME NEW c \in Block, standing'[c] = "current"
          PROVE  (\E i \in 1..(L - d + 1) : recent'[i] = c) \/ Slot[c] < Slot[recent'[1]]
      <3>1. L - d + 1 \in 1..(L - d + 1)
        BY <1>1
      <3>2. CASE c = b
        BY <2>2, <3>1, <3>2
      <3>3. CASE c # b
        <4>1. standing[c] = "current"
          BY <2>3, <2>6, <3>3
        <4>2. L \in 1..L /\ ((\E i \in 1..L : recent[i] = c) \/ Slot[c] < Slot[recent[1]])
          BY <1>1, <4>1 DEF CurrentAbove
        <4>3. 1 \in 1..L
          BY <1>1, <4>2
        <4>4. recent'[1] = IF d = L THEN b ELSE recent[1 + d]
          <5> HIDE DEF L
          <5>1. CASE d = L
            <6>1. L - d + 1 = 1
              BY <1>1, <5>1
            <6>2. QED
              BY <2>2, <5>1, <6>1
          <5>2. CASE d # L
            <6>1. 1 \in 1..(L - d)
              BY <1>1, <5>2
            <6>2. QED
              BY <2>2, <5>2, <6>1
          <5>3. QED
            BY <5>1, <5>2
        <4>5. \A i \in 1..L : i <= d => Slot[recent[i]] < Slot[recent'[1]]
          <5> SUFFICES ASSUME NEW i \in 1..L, i <= d PROVE Slot[recent[i]] < Slot[recent'[1]]
            OBVIOUS
          <5>1. CASE d = L
            BY <2>1, <4>4, <5>1
          <5>2. CASE d # L
            <6>1. 1 + d \in 1..L /\ i < 1 + d
              <7> HIDE DEF L
              <7>1. QED
                BY <1>1, <5>2
            <6>2. SlotsGrow
              BY DEF Shape
            <6>3. Slot[recent[i]] < Slot[recent[1 + d]]
              BY <6>1, <6>2, SlotsIncrease
            <6>4. QED
              BY <4>4, <5>2, <6>3
          <5>3. QED
            BY <5>1, <5>2
        <4>6. CASE \E i \in 1..L : recent[i] = c
          <5>1. PICK i \in 1..L : recent[i] = c
            BY <4>6
          <5>2. CASE i <= d
            BY <4>5, <5>1, <5>2
          <5>3. CASE ~(i <= d)
            <6>1. i - d \in 1..(L - d) /\ i - d \in 1..(L - d + 1) /\ (i - d) + d = i
              <7> HIDE DEF L
              <7>1. QED
                BY <1>1, <5>3
            <6>2. recent'[i - d] = c
              BY <2>2, <5>1, <6>1
            <6>3. QED
              BY <6>1, <6>2
          <5>4. QED
            BY <5>2, <5>3
        <4>7. CASE Slot[c] < Slot[recent[1]]
          <5>1. Slot[recent[1]] <= Slot[recent'[1]]
            <6>1. CASE d = 0
              <7>1. d # L /\ 1 + d = 1
                BY <4>3, <6>1
              <7>2. recent'[1] = recent[1]
                BY <4>4, <7>1
              <7>3. Slot[recent[1]] \in Nat
                BY <1>1, <4>3, TreeAssumption
              <7>4. QED
                BY <7>2, <7>3
            <6>2. CASE d # 0
              <7>1. 1 <= d
                BY <6>2
              <7>2. Slot[recent[1]] < Slot[recent'[1]]
                BY <4>3, <4>5, <7>1
              <7>3. recent'[1] \in Block /\ recent[1] \in Block
                <8>1. d # L => 1 + d \in 1..L
                  BY <1>1
                <8>2. QED
                  BY <1>1, <4>3, <4>4, <8>1
              <7>4. Slot[recent[1]] \in Nat /\ Slot[recent'[1]] \in Nat
                BY <7>3, TreeAssumption
              <7>5. QED
                BY <7>2, <7>4
            <6>3. QED
              BY <6>1, <6>2
          <5>2. recent'[1] \in Block /\ recent[1] \in Block
            <6>1. d # L => 1 + d \in 1..L
              BY <1>1
            <6>2. QED
              BY <1>1, <4>3, <4>4, <6>1
          <5>3. Slot[c] \in Nat /\ Slot[recent[1]] \in Nat /\ Slot[recent'[1]] \in Nat
            BY <5>2, TreeAssumption
          <5>4. QED
            BY <4>7, <5>1, <5>3
        <4>8. QED
          BY <4>2, <4>6, <4>7
      <3>4. QED
        BY <3>2, <3>3
    <2>7. QED
      BY <2>5, <2>6
  <1>3. CASE HandleBackward
    <2>1. UNCHANGED restarted
      BY <1>3, BackwardStep
    <2> SUFFICES ASSUME restarted # "origin"
                 PROVE  CurrentAbove'
      BY <2>1 DEF CurrentAbove
    <2>2. PICK n \in 0..L :
              /\ Len(recent') = n /\ \A i \in 1..n : recent'[i] = recent[i]
              /\ \A i \in 1..n : standing'[recent[i]] = standing[recent[i]]
              /\ \A b \in Block : \/ standing'[b] = standing[b] /\ \A j \in (n + 1)..L : b # recent[j]
                                  \/ standing'[b] = "orphaned" /\ \E j \in (n + 1)..L : b = recent[j]
      BY <1>3, BackwardTakes
    <2>3. /\ \A i \in 1..L : standing[recent[i]] = "current"
          /\ \A b \in Block : standing[b] = "current" =>
                /\ recent # <<>>
                /\ (\E i \in 1..L : recent[i] = b) \/ Slot[b] < Slot[recent[1]]
      BY DEF CurrentAbove
    <2>4. 1..n \subseteq 1..L /\ \A i \in 1..L : i \in 1..n \/ i \in (n + 1)..L
      <3> HIDE DEF L
      <3>1. QED
        BY <1>1
    <2>5. \A i \in 1..Len(recent') : standing'[recent'[i]] = "current"
      BY <2>2, <2>3, <2>4
    <2>6. ASSUME NEW b \in Block, standing'[b] = "current"
          PROVE  /\ recent' # <<>>
                 /\ (\E i \in 1..Len(recent') : recent'[i] = b) \/ Slot[b] < Slot[recent'[1]]
      <3>1. standing[b] = "current" /\ \A j \in (n + 1)..L : b # recent[j]
        BY <2>2, <2>6
      <3>2. recent # <<>> /\ ((\E i \in 1..L : recent[i] = b) \/ Slot[b] < Slot[recent[1]])
        BY <2>3, <3>1
      <3>3. recent' # <<>>
        BY <3>2
      <3>4. recent' \in Seq(Block)
        BY StepTypeOK DEF TypeOK
      <3>5. 1 \in 1..n
        BY <2>2, <3>3, <3>4
      <3>6. QED
        BY <2>2, <2>4, <3>1, <3>2, <3>3, <3>5
    <2>7. QED
      BY <2>5, <2>6 DEF CurrentAbove
  <1>4. CASE ~HandleForward /\ ~HandleBackward
    BY <1>4, OthersKeepLists DEF CurrentAbove
  <1>5. QED
    BY <1>2, <1>3, <1>4

(* Above the oldest block that recent_blocks still holds, what readers hold *)
(* as current is exactly what the client remembers, so that a rollback      *)
(* there reports every block it must, however often the list has evicted    *)
(* its oldest block and also after a restart at the node's tip (note_block, *)
(* rollback_to).                                                            *)
THEOREM CurrentIsRemembered == Spec /\ ForksFit => []CurrentAbove
  <1>1. Init => CurrentAbove
    BY DEF Init, CurrentAbove
  <1>2. TypeOK /\ Shape /\ CurrentAbove /\ [Next]_vars /\ [recent' # <<>>]_recent
        => CurrentAbove'
    BY StepCurrentAbove
  <1>3. ChainInv => TypeOK /\ Shape
    BY DEF ChainInv, Shape
  <1>4. QED
    BY ChainInvariant, <1>1, <1>2, <1>3, PTL DEF Spec, ForksFit

LEMMA StepCurrentIsRecent ==
    ASSUME TypeOK, Shape, CurrentIsRecent, [Next]_vars,
           [HandleForward => Len(recent) < RecentCap]_vars
    PROVE  CurrentIsRecent'
  <1> DEFINE L == Len(recent)
  <1>1. /\ L \in Nat /\ recent \in Seq(Block) /\ \A i \in 1..L : recent[i] \in Block
        /\ standing \in [Block -> {"unseen", "current", "orphaned"}]
    BY DEF TypeOK
  <1>2. CASE HandleForward
    <2>1. PICK b \in Block :
              /\ recent' = Noted(b) /\ standing' = [standing EXCEPT ![b] = "current"]
              /\ UNCHANGED restarted
      BY <1>2, ForwardIsAbove
    <2>2. Len(recent) < RecentCap
      <3>1. wire' = Tail(wire) /\ wire # <<>> /\ wire \in Seq(Message)
        <4>1. wire' = Tail(wire) /\ wire # <<>>
          BY <1>2 DEF HandleForward
        <4>2. wire \in Seq(Message)
          BY DEF TypeOK
        <4>3. QED
          BY <4>1, <4>2
      <3>2. wire' # wire
        <4>1. Len(Tail(wire)) = Len(wire) - 1 /\ Len(wire) \in Nat
          BY <3>1
        <4>2. Len(Tail(wire)) # Len(wire)
          BY ONLY <4>1
        <4>3. Tail(wire) # wire
          BY ONLY <4>2, Zenon
        <4>4. QED
          BY ONLY <3>1, <4>3, Zenon
      <3>3. vars' # vars
        BY <3>2 DEF vars, linkVars
      <3>4. QED
        BY <1>2, <3>3
    <2>3. recent' = Append(recent, b)
      <3>1. ~(Len(recent) >= RecentCap)
        BY <1>1, <2>2, CapAssumption
      <3>2. QED
        BY <2>1, <3>1 DEF Noted
    <2>4. Len(recent') = L + 1 /\ recent'[L + 1] = b /\ \A i \in 1..L : recent'[i] = recent[i]
      BY <1>1, <2>3, AppendProperties
    <2>5. \A c \in Block : (\E i \in 1..(L + 1) : recent'[i] = c) <=> (\E i \in 1..L : recent[i] = c) \/ c = b
      <3>1. L + 1 \in 1..(L + 1) /\ 1..L \subseteq 1..(L + 1) /\ \A i \in 1..(L + 1) : i \in 1..L \/ i = L + 1
        BY <1>1
      <3>2. QED
        BY <2>4, <3>1
    <2>6. \A c \in Block : standing'[c] = "current" <=> standing[c] = "current" \/ c = b
      BY <1>1, <2>1
    <2>7. QED
      BY <2>1, <2>4, <2>5, <2>6 DEF CurrentIsRecent
  <1>3. CASE HandleBackward
    <2>1. UNCHANGED restarted
      BY <1>3, BackwardStep
    <2> SUFFICES ASSUME restarted # "origin"
                 PROVE  CurrentIsRecent'
      BY <2>1 DEF CurrentIsRecent
    <2>2. PICK n \in 0..L :
              /\ Len(recent') = n /\ \A i \in 1..n : recent'[i] = recent[i]
              /\ \A i \in 1..n : standing'[recent[i]] = standing[recent[i]]
              /\ \A b \in Block : \/ standing'[b] = standing[b] /\ \A j \in (n + 1)..L : b # recent[j]
                                  \/ standing'[b] = "orphaned" /\ \E j \in (n + 1)..L : b = recent[j]
      BY <1>3, BackwardTakes
    <2>3. 1..n \subseteq 1..L /\ \A i \in 1..L : i \in 1..n \/ i \in (n + 1)..L
      <3> HIDE DEF L
      <3>1. QED
        BY <1>1
    <2>4. \A c \in Block : standing[c] = "current" <=> \E i \in 1..L : recent[i] = c
      BY DEF CurrentIsRecent
    <2>5. ASSUME NEW c \in Block
          PROVE  standing'[c] = "current" <=> \E i \in 1..n : recent[i] = c
      <3>1. ASSUME standing'[c] = "current"
            PROVE  \E i \in 1..n : recent[i] = c
        BY <2>2, <2>3, <2>4, <3>1
      <3>2. ASSUME NEW i \in 1..n, recent[i] = c
            PROVE  standing'[c] = "current"
        BY <2>2, <2>3, <2>4, <3>2
      <3>3. QED
        BY <3>1, <3>2
    <2>6. QED
      BY <2>2, <2>5 DEF CurrentIsRecent
  <1>4. CASE ~HandleForward /\ ~HandleBackward
    BY <1>4, OthersKeepLists DEF CurrentIsRecent
  <1>5. QED
    BY <1>2, <1>3, <1>4

(* Before recent_blocks is full, a block is current for readers exactly     *)
(* when the client remembers it, also when a rollback empties the list.     *)
THEOREM CurrentIsRecorded == Spec /\ NeverFull => []CurrentIsRecent
  <1>1. Init => CurrentIsRecent
    <2> SUFFICES ASSUME Init, NEW b \in Block
                 PROVE  standing[b] = "current" <=> \E i \in 1..Len(recent) : recent[i] = b
      BY DEF CurrentIsRecent
    <2>1. standing[b] = "unseen" /\ recent = <<>>
      BY DEF Init
    <2>2. 1..Len(recent) = {}
      BY <2>1, EmptySeq
    <2>3. QED
      BY <2>1, <2>2
  <1>2. TypeOK /\ Shape /\ CurrentIsRecent /\ [Next]_vars
        /\ [HandleForward => Len(recent) < RecentCap]_vars => CurrentIsRecent'
    BY ONLY StepCurrentIsRecent
  <1>3. ChainInv => TypeOK /\ Shape
    BY DEF ChainInv, Shape
  <1>4. QED
    BY ChainInvariant, <1>1, <1>2, <1>3, PTL DEF Spec, NeverFull

-----------------------------------------------------------------------------
(* While the node has not switched forks, everything the client holds, asks *)
(* for or is sent lies on the node's chain, and a connection begins at the  *)
(* newest recorded block.                                                   *)
NoForkInv ==
    reorgs = 0 =>
        /\ \A i \in 1..Len(recent) : OnChain(recent[i], nodeTip)
        /\ OnChain(readPtr, nodeTip)
        /\ asked # NoPoint => OnChain(asked, nodeTip)
        /\ \A i \in 1..Len(wire) :
              /\ OnChain(wire[i].pt, nodeTip)
              /\ wire[i].dir = "backward" => i = 1 /\ pos = NoPoint
        /\ phase \in {"query_tip", "find_tip"} => recent = <<>>
        /\ phase = "live" /\ pos = NoPoint /\ recent # <<>> =>
              /\ owesRollback => readPtr = recent[Len(recent)]
              /\ wire # <<>> => wire[1].pt = recent[Len(recent)]
        /\ \A b \in Block : standing[b] # "orphaned"

LEMMA ChildKeepsChain ==
    ASSUME NEW b \in Block, NEW p \in Block, Parent(b) = p, NEW q, OnChain(q, p)
    PROVE  OnChain(q, b)
  <1>1. /\ Len(Path[b]) = Len(Path[p]) + 1 /\ \A i \in 1..Len(Path[p]) : Path[b][i] = Path[p][i]
    BY ChildPath
  <1>2. b # Origin /\ Len(Path[p]) \in Nat
    BY PathEnd
  <1>3. CASE q = Origin
    BY <1>3 DEF OnChain
  <1>4. CASE q # Origin
    <2>1. PICK i \in 1..Len(Path[p]) : Path[p][i] = q
      BY <1>4 DEF OnChain
    <2>2. i \in 1..Len(Path[b]) /\ Path[b][i] = q
      BY <1>1, <1>2, <2>1
    <2>3. QED
      BY <1>2, <2>2 DEF OnChain
  <1>5. QED
    BY <1>3, <1>4

(* A read pointer on the node's chain is its own fork point. *)
LEMMA OwnForkPoint ==
    ASSUME NEW p \in Point, NEW t \in Block, NEW q \in Point, OnChain(p, t), IsForkPoint(q, p, t)
    PROVE  q = p
  <1>1. CASE p = Origin
    BY <1>1 DEF IsForkPoint, OnChain
  <1>2. CASE p # Origin
    <2>1. p \in Block
      BY <1>2 DEF Point
    <2>2. Height(p) <= Height(q) /\ Height(p) = Len(Path[p]) /\ Len(Path[p]) \in Nat \ {0}
          /\ Path[p][Len(Path[p])] = p
      BY <2>1, PathEnd DEF IsForkPoint
    <2>3. q # Origin
      <3>1. ASSUME q = Origin PROVE FALSE
        <4>1. Height(q) = 0
          BY <3>1 DEF Height
        <4>2. QED
          BY <2>2, <4>1
      <3>2. QED
        BY <3>1
    <2>4. PICK i \in 1..Len(Path[p]) : Path[p][i] = q
      BY <2>3 DEF IsForkPoint, OnChain
    <2>5. q \in Block /\ Len(Path[q]) = i
      BY <2>1, <2>4, PathPrefix
    <2>6. Height(q) = i
      BY <2>5, PathEnd
    <2>7. i = Len(Path[p])
      BY <2>2, <2>4, <2>6
    <2>8. QED
      BY <2>2, <2>4, <2>7
  <1>3. QED
    BY <1>1, <1>2

LEMMA NodeNoFork ==
    ASSUME TypeOK, NoForkInv, NEW b \in Block, Extend(b) \/ Reorg(b)
    PROVE  NoForkInv'
  <1>1. CASE Reorg(b)
    <2>1. reorgs' = reorgs + 1 /\ reorgs \in Nat
      BY <1>1, CapAssumption DEF Reorg, TypeOK
    <2>2. reorgs' # 0
      BY <2>1
    <2>3. QED
      BY <2>2 DEF NoForkInv
  <1>2. CASE Extend(b)
    <2>1. /\ Parent(b) = nodeTip /\ nodeTip' = b /\ nodeTip \in Block
          /\ UNCHANGED <<reorgs, linkVars, stateVars, historyVars, pos>>
      BY <1>2 DEF Extend, TypeOK
    <2>2. \A q : OnChain(q, nodeTip) => OnChain(q, nodeTip')
      BY <2>1, ChildKeepsChain
    <2>3. QED
      BY <2>1, <2>2 DEF NoForkInv, linkVars, stateVars, historyVars
  <1>3. QED
    BY <1>1, <1>2

LEMMA LinkNoFork ==
    ASSUME TypeOK, NoForkInv, Connect \/ Drop \/ FindByPoints \/ FindNone \/ QueryTip \/ FindByTip
    PROVE  NoForkInv'
  <1> DEFINE L == Len(recent)
  <1>1. UNCHANGED <<nodeVars, stateVars, historyVars>>
    BY DEF Connect, Drop, FindByPoints, FindNone, QueryTip, FindByTip
  <1> SUFFICES ASSUME reorgs = 0
               PROVE  NoForkInv'
    BY <1>1 DEF NoForkInv, nodeVars
  <1>2. /\ \A i \in 1..L : OnChain(recent[i], nodeTip)
        /\ OnChain(readPtr, nodeTip)
        /\ asked # NoPoint => OnChain(asked, nodeTip)
        /\ phase \in {"query_tip", "find_tip"} => recent = <<>>
        /\ \A b \in Block : standing[b] # "orphaned"
    BY DEF NoForkInv
  <1>3. recent \in Seq(Block) /\ L \in Nat /\ (recent # <<>> => L \in 1..L) /\ nodeTip \in Block
    BY DEF TypeOK
  <1>4. recent # <<>> => L \in ResumeIndex
    BY <1>3, CapAssumption DEF ResumeIndex
  <1>5. /\ nodeTip' = nodeTip /\ recent' = recent /\ standing' = standing
    BY <1>1 DEF nodeVars, stateVars, historyVars
  <1>6. CASE Drop
    <2>1. /\ phase' = "down" /\ asked' = NoPoint /\ wire' = <<>> /\ readPtr' = Origin
      BY <1>6 DEF Drop
    <2>2. OnChain(readPtr', nodeTip')
      BY <2>1 DEF OnChain
    <2>3. QED
      BY <1>2, <1>5, <2>1, <2>2 DEF NoForkInv
  <1>7. ASSUME NEW p, Attach(p), OnChain(p, nodeTip), recent # <<>> => p = recent[L]
        PROVE  NoForkInv'
    <2>1. phase' = "live" /\ asked' = NoPoint /\ readPtr' = p /\ wire' = <<>>
      BY <1>7 DEF Attach
    <2>2. QED
      BY <1>2, <1>5, <1>7, <2>1 DEF NoForkInv
  <1>8. CASE FindByPoints
    <2>1. PICK i \in ResumeIndex : FirstKnown(i) /\ Attach(recent[i])
      BY <1>8 DEF FindByPoints
    <2>2. i \in 1..L /\ OnChain(recent[i], nodeTip)
      BY <2>1 DEF ResumeIndex, FirstKnown
    <2>3. recent # <<>> /\ OnChain(recent[L], nodeTip)
      BY <1>2, <1>3, <2>2
    <2>4. ~(L > i)
      BY <1>4, <2>1, <2>3 DEF FirstKnown
    <2>5. i = L
      BY <1>3, <2>2, <2>4
    <2>6. QED
      BY <1>7, <2>1, <2>2, <2>5
  <1>9. CASE FindByTip
    <2>1. phase = "find_tip" /\ Attach(IF OnChain(asked, nodeTip) THEN asked ELSE Origin)
      BY <1>9 DEF FindByTip
    <2>2. OnChain(IF OnChain(asked, nodeTip) THEN asked ELSE Origin, nodeTip)
      BY DEF OnChain
    <2>3. recent = <<>>
      BY <1>2, <2>1
    <2>4. QED
      BY <1>7, <2>1, <2>2, <2>3
  <1>10. CASE Connect \/ FindNone \/ QueryTip
    <2>1. phase' # "live" /\ UNCHANGED <<readPtr, wire>> /\ wire' = wire /\ pos' = pos
      BY <1>10 DEF Connect, FindNone, QueryTip
    <2>2. asked' # NoPoint => OnChain(asked', nodeTip)
      <3>1. asked' = asked \/ asked' = nodeTip
        BY <1>10 DEF Connect, FindNone, QueryTip
      <3>2. OnChain(nodeTip, nodeTip)
        BY <1>3, PathEnd
      <3>3. QED
        BY <1>2, <3>1, <3>2
    <2>3. phase' \in {"query_tip", "find_tip"} => recent = <<>>
      <3>1. CASE Connect
        BY <3>1 DEF Connect
      <3>2. CASE FindNone
        BY <1>2, <1>3, <1>4, <3>2 DEF FindNone
      <3>3. CASE QueryTip
        BY <1>2, <3>3 DEF QueryTip
      <3>4. QED
        BY <1>10, <3>1, <3>2, <3>3
    <2>4. \A i \in 1..Len(wire) : /\ OnChain(wire[i].pt, nodeTip)
                                  /\ wire[i].dir = "backward" => i = 1 /\ pos = NoPoint
      BY DEF NoForkInv
    <2>5. QED
      BY <1>2, <1>5, <2>1, <2>2, <2>3, <2>4 DEF NoForkInv
  <1>11. QED
    BY <1>6, <1>8, <1>9, <1>10

LEMMA ServeNoFork ==
    ASSUME TypeOK, Shape, NoForkInv, Serve
    PROVE  NoForkInv'
  <1> DEFINE L == Len(recent)
             n == Len(wire)
  <1>1. UNCHANGED <<nodeVars, stateVars, historyVars, phase, asked, pos>>
    BY DEF Serve, ServeBackward, ServeForward
  <1>2. /\ nodeTip' = nodeTip /\ reorgs' = reorgs /\ recent' = recent /\ standing' = standing
        /\ phase' = phase /\ asked' = asked /\ pos' = pos
    BY <1>1 DEF nodeVars, stateVars, historyVars
  <1> SUFFICES ASSUME reorgs = 0
               PROVE  NoForkInv'
    BY <1>2 DEF NoForkInv
  <1>3. /\ \A i \in 1..n : /\ OnChain(wire[i].pt, nodeTip)
                           /\ wire[i].dir = "backward" => i = 1 /\ pos = NoPoint
        /\ OnChain(readPtr, nodeTip)
        /\ phase = "live" /\ pos = NoPoint /\ recent # <<>> =>
              /\ owesRollback => readPtr = recent[L]
              /\ wire # <<>> => wire[1].pt = recent[L]
    BY DEF NoForkInv
  <1>4. wire \in Seq(Message) /\ n \in Nat /\ nodeTip \in Block /\ readPtr \in Point
    BY DEF TypeOK
  <1>5. ASSUME NEW m \in Message, wire' = Append(wire, m)
        PROVE  /\ wire' # <<>> /\ Len(wire') = n + 1 /\ wire'[n + 1] = m
               /\ \A i \in 1..n : wire'[i] = wire[i]
    BY <1>4, <1>5, AppendProperties
  <1>6. CASE ServeBackward
    <2>1. PICK q \in Point : /\ IsForkPoint(q, readPtr, nodeTip)
                             /\ wire' = Append(wire, [dir |-> "backward", pt |-> q])
                             /\ readPtr' = q
      BY <1>6 DEF ServeBackward
    <2>2. phase = "live" /\ ~owesRollback'
      BY <1>6, Zenon DEF ServeBackward
    <2>3. owesRollback
      BY <1>3, <1>6, Zenon DEF ServeBackward
    <2>4. wire = <<>> /\ pos = NoPoint
      BY <2>3 DEF Shape, WireLeads
    <2>5. q = readPtr
      BY <1>3, <1>4, <2>1, OwnForkPoint
    <2>6. [dir |-> "backward", pt |-> q] \in Message
      BY DEF Message
    <2>7. n = 0
      BY <2>4
    <2>8. wire' # <<>> /\ Len(wire') = 1 /\ wire'[1] = [dir |-> "backward", pt |-> q]
      BY <1>5, <2>1, <2>6, <2>7
    <2>9. recent # <<>> => q = recent[L]
      BY <1>3, <2>2, <2>3, <2>4, <2>5, Zenon
    <2>10. \A i \in 1..Len(wire') : /\ OnChain(wire'[i].pt, nodeTip)
                                    /\ wire'[i].dir = "backward" => i = 1 /\ pos = NoPoint
      BY <1>3, <2>4, <2>5, <2>8
    <2>11. readPtr' = recent[L] \/ ~owesRollback'
      BY <2>2, Zenon
    <2>12. /\ phase' = "live" /\ pos' = NoPoint /\ recent' # <<>> =>
              /\ owesRollback' => readPtr' = recent'[L]
              /\ wire' # <<>> => wire'[1].pt = recent'[L]
      BY <1>2, <2>8, <2>9, <2>11
    <2>13. OnChain(readPtr', nodeTip)
      BY <1>3, <2>1, <2>5
    <2>14. QED
      BY <1>2, <2>10, <2>12, <2>13 DEF NoForkInv
  <1>7. CASE ServeForward
    <2>1. PICK b \in Block : /\ OnChain(b, nodeTip)
                             /\ wire' = Append(wire, [dir |-> "forward", pt |-> b])
                             /\ readPtr' = b
      BY <1>7 DEF ServeForward
    <2>2. phase = "live" /\ ~owesRollback /\ ~owesRollback'
      BY <1>7, Zenon DEF ServeForward
    <2>3. [dir |-> "forward", pt |-> b] \in Message
      BY DEF Message
    <2>4. /\ wire' # <<>> /\ Len(wire') = n + 1 /\ wire'[n + 1] = [dir |-> "forward", pt |-> b]
          /\ \A i \in 1..n : wire'[i] = wire[i]
      BY <1>5, <2>1, <2>3
    <2>5. pos = NoPoint => wire # <<>> /\ wire'[1] = wire[1]
      <3>1. pos = NoPoint => wire # <<>>
        BY <2>2, Zenon DEF Shape, WireLeads
      <3>2. wire # <<>> => 1 \in 1..n
        BY <1>4
      <3>3. QED
        BY <2>4, <3>1, <3>2
    <2>6. \A i \in 1..Len(wire') : /\ OnChain(wire'[i].pt, nodeTip)
                                   /\ wire'[i].dir = "backward" => i = 1 /\ pos = NoPoint
      <3>1. \A i \in 1..Len(wire') : i \in 1..n \/ i = n + 1
        BY <1>4, <2>4
      <3>2. QED
        BY <1>3, <2>1, <2>4, <3>1
    <2>7. readPtr' = recent[L] \/ ~owesRollback'
      BY <2>2, Zenon
    <2>8. /\ phase' = "live" /\ pos' = NoPoint /\ recent' # <<>> =>
              /\ owesRollback' => readPtr' = recent'[L]
              /\ wire' # <<>> => wire'[1].pt = recent'[L]
      BY <1>2, <1>3, <2>2, <2>5, <2>7
    <2>9. QED
      BY <1>2, <2>1, <2>6, <2>8 DEF NoForkInv
  <1>8. QED
    BY <1>6, <1>7 DEF Serve

LEMMA HandleNoFork ==
    ASSUME TypeOK, Shape, NoForkInv, HandleForward \/ HandleBackward
    PROVE  NoForkInv'
  <1> DEFINE L == Len(recent)
             n == Len(wire)
  <1>1. /\ nodeTip' = nodeTip /\ reorgs' = reorgs /\ readPtr' = readPtr /\ asked' = asked
        /\ phase = "live" /\ phase' = "live" /\ wire # <<>> /\ wire' = Tail(wire)
    BY DEF HandleForward, HandleBackward, nodeVars
  <1> SUFFICES ASSUME reorgs = 0
               PROVE  NoForkInv'
    BY <1>1 DEF NoForkInv
  <1>2. /\ \A i \in 1..n : /\ OnChain(wire[i].pt, nodeTip)
                           /\ wire[i].dir = "backward" => i = 1 /\ pos = NoPoint
        /\ OnChain(readPtr, nodeTip)
        /\ asked # NoPoint => OnChain(asked, nodeTip)
        /\ phase = "live" /\ pos = NoPoint /\ recent # <<>> =>
              (wire # <<>> => wire[1].pt = recent[L])
        /\ \A i \in 1..L : OnChain(recent[i], nodeTip)
        /\ \A b \in Block : standing[b] # "orphaned"
    BY DEF NoForkInv
  <1>3. /\ wire \in Seq(Message) /\ n \in Nat /\ n >= 1 /\ Head(wire) = wire[1] /\ wire[1] \in Message
        /\ Len(wire') = n - 1 /\ \A i \in 1..(n - 1) : wire'[i] = wire[i + 1]
    BY <1>1 DEF TypeOK
  <1>4. \A i \in 1..(n - 1) : i + 1 \in 1..n /\ i + 1 # 1
    BY <1>3
  <1>5. \A i \in 1..Len(wire') : /\ OnChain(wire'[i].pt, nodeTip)
                                 /\ wire'[i].dir # "backward"
    BY <1>2, <1>3, <1>4
  <1>6. pos' = wire[1].pt /\ pos' # NoPoint
    <2>1. pos' = wire[1].pt
      BY <1>3 DEF HandleForward, HandleBackward
    <2>2. wire[1].pt \in Point
      BY <1>3 DEF Message, Point
    <2>3. QED
      BY <2>1, <2>2, NoPointAssumption
  <1>7. recent \in Seq(Block) /\ L \in Nat /\ standing \in [Block -> {"unseen", "current", "orphaned"}]
    BY DEF TypeOK
  <1>8. /\ \A i \in 1..Len(recent') : OnChain(recent'[i], nodeTip)
        /\ \A b \in Block : standing'[b] # "orphaned"
    <2>1. CASE HandleForward
      <3>1. wire[1].dir = "forward" /\ recent' = Noted(wire[1].pt)
            /\ standing' = [standing EXCEPT ![wire[1].pt] = "current"]
        BY <1>3, <2>1 DEF HandleForward
      <3>2. PICK b \in Block : b = wire[1].pt
        BY <1>3, <3>1 DEF Message
      <3>3. OnChain(b, nodeTip)
        BY <1>2, <1>3, <3>2
      <3>4. PICK d \in 0..L : /\ Len(recent') = L - d + 1
                              /\ \A i \in 1..(L - d) : recent'[i] = recent[i + d]
                              /\ recent'[L - d + 1] = b
        BY <3>1, <3>2, NotedElements
      <3>5. \A i \in 1..(L - d + 1) : i = L - d + 1 \/ (i \in 1..(L - d) /\ i + d \in 1..L)
        BY <1>7
      <3>6. \A i \in 1..Len(recent') : OnChain(recent'[i], nodeTip)
        BY <1>2, <3>3, <3>4, <3>5
      <3>7. QED
        BY <1>2, <1>7, <3>1, <3>2, <3>6
    <2>2. CASE HandleBackward
      <3>1. pos = NoPoint
        BY <1>2, <1>3, <2>2 DEF HandleBackward
      <3>2. CASE UNCHANGED <<recent, orphans, standing>>
        BY <1>2, <3>2
      <3>3. CASE ~UNCHANGED <<recent, orphans, standing>>
        <4>1. PICK k \in 0..L :
                 /\ KeepsFirst(k, Slot[wire[1].pt])
                 /\ recent' = SubSeq(recent, 1, k)
                 /\ standing' = [b \in Block |-> IF b \in AllLost(SubSeq(recent, k + 1, L))
                                                 THEN "orphaned" ELSE standing[b]]
          BY <1>3, <2>2, <3>3 DEF HandleBackward
        <4>2. k = L
          <5> SUFFICES ASSUME k # L PROVE FALSE
            OBVIOUS
          <5>1. L \in (k + 1)..L /\ recent # <<>> /\ L \in 1..L
            BY <1>7
          <5>2. wire[1].pt = recent[L]
            BY <1>1, <1>2, <3>1, <5>1
          <5>3. Slot[recent[L]] > Slot[recent[L]]
            BY <4>1, <5>1, <5>2 DEF KeepsFirst
          <5>4. Slot[recent[L]] \in Nat
            <6>1. \A b \in Block : Slot[b] \in Nat
              BY ONLY TreeAssumption
            <6>2. recent[L] \in Block
              BY <1>7, <5>1
            <6>3. QED
              BY ONLY <6>1, <6>2
          <5>5. QED
            BY <5>3, <5>4
        <4>3. AllLost(SubSeq(recent, k + 1, L)) = {}
          <5>1. Len(SubSeq(recent, k + 1, L)) = 0
            BY <1>7, <4>2
          <5>2. QED
            BY <5>1 DEF AllLost
        <4>4. Len(recent') = L /\ \A i \in 1..L : recent'[i] = recent[i]
          BY <1>7, <4>1, <4>2
        <4>5. QED
          BY <1>2, <4>1, <4>3, <4>4
      <3>4. QED
        BY <3>2, <3>3
    <2>3. QED
      BY <2>1, <2>2
  <1>9. QED
    BY <1>1, <1>2, <1>5, <1>6, <1>8 DEF NoForkInv

LEMMA StepNoFork ==
    ASSUME TypeOK, Shape, NoForkInv, [Next]_vars
    PROVE  NoForkInv'
  <1>1. CASE UNCHANGED vars
    BY <1>1 DEF NoForkInv, vars, nodeVars, linkVars, stateVars, historyVars
  <1>2. CASE Next
    BY <1>2, NodeNoFork, LinkNoFork, ServeNoFork, HandleNoFork DEF Next, Sync
  <1>3. QED
    BY <1>1, <1>2

(* A lost connection alone never makes the observer report a fork: the      *)
(* rollback that begins every connection takes nothing off the list (run,   *)
(* recent_blocks_points, handle_rollback).                                  *)
THEOREM DropsReportNoFork == Spec => []NoForkNoOrphan
  <1>1. Init => NoForkInv
    <2> SUFFICES ASSUME Init PROVE NoForkInv
      OBVIOUS
    <2>1. /\ recent = <<>> /\ readPtr = Origin /\ asked = NoPoint /\ wire = <<>> /\ phase = "down"
          /\ standing = [b \in Block |-> "unseen"]
      BY DEF Init
    <2>2. QED
      BY <2>1 DEF NoForkInv, OnChain
  <1>2. TypeOK /\ Shape /\ NoForkInv /\ [Next]_vars => NoForkInv'
    BY StepNoFork
  <1>3. NoForkInv => NoForkNoOrphan
    BY DEF NoForkInv, NoForkNoOrphan
  <1>4. ChainInv => TypeOK /\ Shape
    BY DEF ChainInv, Shape
  <1>5. QED
    BY ChainInvariant, <1>1, <1>2, <1>3, <1>4, PTL DEF Spec

-----------------------------------------------------------------------------
(* Battles are not missed. *)

(* A current block has a battle for every orphaned rival still listed.      *)
ListedAreReported ==
    restarted = "no" =>
        \A b \in Block, i \in 1..Len(orphans) :
            standing[b] = "current" /\ standing[orphans[i]] = "orphaned" /\ Rivals(b, orphans[i]) =>
                \E t \in battles : t.winner = b /\ Rivals(b, t.loser)

(* Every orphaned block is still listed. *)
OrphansAreListed ==
    \A c \in Block : standing[c] = "orphaned" => \E i \in 1..Len(orphans) : orphans[i] = c

(* Two blocks of one chain do not compete. *)
LEMMA OneChainNoRivals ==
    ASSUME NEW t \in Block, NEW b \in Block, NEW c \in Block, OnChain(b, t), OnChain(c, t)
    PROVE  ~Rivals(b, c)
  <1>1. b # Origin /\ c # Origin
    BY PathEnd
  <1>2. PICK i \in 1..Len(Path[t]) : Path[t][i] = b
    BY <1>1 DEF OnChain
  <1>3. PICK j \in 1..Len(Path[t]) : Path[t][j] = c
    BY <1>1 DEF OnChain
  <1>4. Len(Path[b]) = i /\ Len(Path[c]) = j
    BY <1>2, <1>3, PathPrefix
  <1>5. Height(b) = i /\ Height(c) = j
    BY <1>4, PathEnd
  <1>6. /\ Slot[b] \in Nat /\ Slot[c] \in Nat
        /\ Slot[b] <= Slot[c] <=> i <= j
        /\ Slot[c] <= Slot[b] <=> j <= i
    BY <1>2, <1>3, SlotsOrderPath
  <1>7. i = j => b = c
    BY <1>2, <1>3
  <1>8. i \in Int /\ j \in Int
    OBVIOUS
  <1>9. QED
    BY <1>5, <1>6, <1>7, <1>8 DEF Rivals, SlotRivals, HeightRivals

(* note_block finds a rival whenever one is listed. *)
LEMMA RivalIsNamed ==
    ASSUME TypeOK, NEW b \in Block, NEW i \in 1..Len(orphans), Rivals(b, orphans[i])
    PROVE  \E t \in BattlesOf(b) : t.winner = b /\ Rivals(b, t.loser)
  <1>1. Len(orphans) \in Nat
    BY DEF TypeOK
  <1>2. ASSUME NEW S \in SUBSET (1..Len(orphans)), S # {}
        PROVE  \E k \in S : k \in FirstOf(S)
    <2>1. S \in SUBSET Nat
      BY <1>1, <1>2
    <2>2. PICK k \in S : \A m \in S : k <= m
      BY <1>2, <2>1, LeastNumber
    <2>3. QED
      BY <2>2 DEF FirstOf
  <1>3. CASE SlotLosers(b) # {}
    <2>1. SlotLosers(b) \in SUBSET (1..Len(orphans))
      BY DEF SlotLosers
    <2>2. PICK k \in SlotLosers(b) : k \in FirstOf(SlotLosers(b))
      BY <1>2, <1>3, <2>1
    <2>3. [winner |-> b, loser |-> orphans[k], kind |-> "slot"] \in BattlesOf(b)
      BY <1>3, <2>2 DEF BattlesOf
    <2>4. Rivals(b, orphans[k])
      BY <2>2 DEF SlotLosers, Rivals
    <2>5. QED
      BY <2>3, <2>4
  <1>4. CASE SlotLosers(b) = {}
    <2>1. HeightLosers(b) \in SUBSET (1..Len(orphans)) /\ i \in HeightLosers(b)
      BY <1>4 DEF SlotLosers, HeightLosers, Rivals
    <2>2. PICK k \in HeightLosers(b) : k \in FirstOf(HeightLosers(b))
      BY <1>2, <2>1
    <2>3. [winner |-> b, loser |-> orphans[k], kind |-> "height"] \in BattlesOf(b)
      BY <1>4, <2>2 DEF BattlesOf
    <2>4. Rivals(b, orphans[k])
      BY <2>2 DEF HeightLosers, Rivals
    <2>5. QED
      BY <2>3, <2>4
  <1>5. QED
    BY <1>3, <1>4

LEMMA StepListedAreReported ==
    ASSUME TypeOK, Shape, FeedInv, ListedAreReported, [Next]_vars
    PROVE  ListedAreReported'
  <1>1. CASE HandleForward
    <2>1. PICK b \in Block :
              /\ battles' = battles \cup BattlesOf(b)
              /\ standing' = [standing EXCEPT ![b] = "current"]
              /\ UNCHANGED <<orphans, restarted>>
      BY <1>1, ForwardStep
    <2> SUFFICES ASSUME restarted = "no", NEW c \in Block, NEW i \in 1..Len(orphans),
                        standing'[c] = "current", standing'[orphans[i]] = "orphaned",
                        Rivals(c, orphans[i])
                 PROVE  \E t \in battles' : t.winner = c /\ Rivals(c, t.loser)
      BY <2>1 DEF ListedAreReported
    <2>2. /\ standing \in [Block -> {"unseen", "current", "orphaned"}]
          /\ orphans[i] \in Block
      BY DEF TypeOK
    <2>3. CASE c = b
      <3>1. \E t \in BattlesOf(b) : t.winner = b /\ Rivals(b, t.loser)
        BY <2>3, RivalIsNamed
      <3>2. QED
        BY <2>1, <2>3, <3>1
    <2>4. CASE c # b
      <3>1. standing[c] = "current" /\ standing[orphans[i]] = "orphaned"
        BY <2>1, <2>2, <2>4
      <3>2. QED
        BY <2>1, <3>1 DEF ListedAreReported
    <2>5. QED
      BY <2>3, <2>4
  <1>2. CASE HandleBackward
    <2> DEFINE L == Len(recent)
    <2>1. UNCHANGED <<restarted, battles>>
      BY <1>2, BackwardStep
    <2>2. CASE UNCHANGED <<recent, orphans, standing>>
      BY <2>1, <2>2 DEF ListedAreReported
    <2>3. CASE ~UNCHANGED <<recent, orphans, standing>>
      <3>1. PICK n \in 0..L :
              LET lost == {recent[i] : i \in (n + 1)..L}
              IN  /\ \A i \in 1..Len(orphans') :
                        \/ orphans'[i] \in lost
                        \/ \E j \in 1..Len(orphans) : orphans'[i] = orphans[j]
                  /\ standing' = [b \in Block |-> IF b \in lost THEN "orphaned" ELSE standing[b]]
        BY <1>2, <2>3, BackwardStep
      <3> DEFINE lost == {recent[i] : i \in (n + 1)..L}
      <3> SUFFICES ASSUME restarted = "no", NEW c \in Block, NEW i \in 1..Len(orphans'),
                          standing'[c] = "current", standing'[orphans'[i]] = "orphaned",
                          Rivals(c, orphans'[i])
                   PROVE  \E t \in battles : t.winner = c /\ Rivals(c, t.loser)
        BY <2>1 DEF ListedAreReported
      <3>2. c \notin lost /\ standing[c] = "current"
        BY <3>1
      <3>3. orphans' \in Seq(Block)
        BY StepTypeOK DEF TypeOK
      <3>4. orphans'[i] \in Block
        BY <3>3
      <3>5. recent \in Seq(Block) /\ L \in Nat /\ orphans \in Seq(Block)
        BY DEF TypeOK
      <3>6. CASE orphans'[i] \in lost
        <4>1. PICK j \in (n + 1)..L : orphans'[i] = recent[j]
          BY <3>6
        <4>2. j \in 1..L
          BY <3>5
        <4>3. recent # <<>> /\ OnChain(c, recent[L])
          BY <3>2 DEF FeedInv, HeldIsRecorded
        <4>4. recent[L] \in Block /\ standing[recent[j]] = "current"
          BY <3>5, <4>2, <4>3 DEF FeedInv, HeldIsRecorded
        <4>5. OnChain(orphans'[i], recent[L])
          BY <3>4, <4>1, <4>4 DEF FeedInv, HeldIsRecorded
        <4>6. ~Rivals(c, orphans'[i])
          BY <3>4, <4>3, <4>4, <4>5, OneChainNoRivals
        <4>7. QED
          BY <4>6
      <3>7. CASE orphans'[i] \notin lost
        <4>1. PICK j \in 1..Len(orphans) : orphans'[i] = orphans[j]
          BY <3>1, <3>7
        <4>2. standing[orphans[j]] = "orphaned"
          BY <3>1, <3>4, <3>7, <4>1
        <4>3. QED
          BY <3>2, <4>1, <4>2 DEF ListedAreReported
      <3>8. QED
        BY <3>6, <3>7
    <2>4. QED
      BY <2>2, <2>3
  <1>3. CASE ~HandleForward /\ ~HandleBackward
    BY <1>3, OthersKeepLists DEF ListedAreReported
  <1>4. QED
    BY <1>1, <1>2, <1>3

(* No battle goes unreported while the loser is on the orphan list: the     *)
(* current block of a slot or height that an orphaned block also claimed    *)
(* is the winner of a published battle (note_block, handle_forward).        *)
THEOREM ListedBattlesAreReported == Spec /\ ForksFit => []ListedAreReported
  <1>1. Init => FeedInv /\ ListedAreReported
    <2> SUFFICES ASSUME Init PROVE ListedAreReported
      BY FeedInitially
    <2>1. Len(orphans) = 0
      BY DEF Init
    <2>2. QED
      BY <2>1 DEF ListedAreReported
  <1>2. TypeOK /\ Shape /\ FeedInv /\ [Next]_vars /\ [recent' # <<>>]_recent => FeedInv'
    BY StepKeepsFeed
  <1>3. TypeOK /\ Shape /\ FeedInv /\ ListedAreReported /\ [Next]_vars => ListedAreReported'
    BY StepListedAreReported
  <1>4. ChainInv => TypeOK /\ Shape
    BY DEF ChainInv, Shape
  <1>5. QED
    BY ChainInvariant, <1>1, <1>2, <1>3, <1>4, PTL DEF Spec, ForksFit

(* Below its capacity the orphan list drops nothing. *)
LEMMA OrphansKept ==
    ASSUME TypeOK, HandleBackward, Len(orphans') < OrphanCap, NEW c \in Block,
           \/ \E j \in 1..Len(orphans) : orphans[j] = c
           \/ standing'[c] # standing[c]
    PROVE  \E i \in 1..Len(orphans') : orphans'[i] = c
  <1> DEFINE L == Len(recent)
  <1>1. CASE UNCHANGED <<recent, orphans, standing>>
    BY <1>1
  <1>2. CASE ~UNCHANGED <<recent, orphans, standing>>
    <2>1. PICK n \in 0..L :
              LET lost == SubSeq(recent, n + 1, L)
              IN  /\ orphans' = LastN(orphans \o Reverse(lost), OrphanCap)
                  /\ standing' = [b \in Block |-> IF b \in AllLost(lost)
                                                  THEN "orphaned" ELSE standing[b]]
      BY <1>2 DEF HandleBackward
    <2> DEFINE lost == SubSeq(recent, n + 1, L)
               r == Reverse(lost)
               s == orphans \o r
    <2>2. recent \in Seq(Block) /\ L \in Nat /\ n \in Nat /\ n <= L /\ orphans \in Seq(Block)
      BY DEF TypeOK
    <2>3. lost \in Seq(Block) /\ Len(lost) \in Nat
      BY <2>2
    <2>4. c \in AllLost(lost) \/ \E j \in 1..Len(orphans) : orphans[j] = c
      BY <2>1
    <2>5. orphans' = LastN(s, OrphanCap)
      BY <2>1
    <2> HIDE DEF lost
    <2>6. r = [k \in 1..Len(lost) |-> lost[(Len(lost) - k) + 1]] /\ r \in Seq(Block)
      BY <2>3, ReverseType DEF Reverse
    <2>7. Len(r) = Len(lost) /\ \A k \in 1..Len(lost) : r[k] = lost[(Len(lost) - k) + 1]
      BY <2>3, <2>6
    <2> HIDE DEF r
    <2>8. /\ s \in Seq(Block) /\ Len(s) = Len(orphans) + Len(r)
          /\ \A k \in 1..(Len(orphans) + Len(r)) :
                s[k] = IF k <= Len(orphans) THEN orphans[k] ELSE r[k - Len(orphans)]
      BY <2>2, <2>6, ConcatProperties
    <2>9. Len(orphans) \in Nat /\ Len(r) \in Nat /\ OrphanCap \in Nat \ {0}
      BY <2>2, <2>6, CapAssumption
    <2> HIDE DEF s
    <2>10. orphans' = s
      <3>1. CASE Len(s) <= OrphanCap
        BY <2>5, <3>1 DEF LastN
      <3>2. CASE ~(Len(s) <= OrphanCap)
        <4>1. orphans' = SubSeq(s, Len(s) - OrphanCap + 1, Len(s))
          BY <2>5, <3>2 DEF LastN
        <4>2. Len(SubSeq(s, Len(s) - OrphanCap + 1, Len(s))) = OrphanCap
          <5> DEFINE f == Len(s) - OrphanCap + 1
          <5>1. f \in 1..Len(s) /\ Len(s) \in Nat /\ Len(s) - f + 1 = OrphanCap
            BY <2>8, <2>9, <3>2
          <5> HIDE DEF f
          <5>2. Len(SubSeq(s, f, Len(s))) = Len(s) - f + 1
            BY <2>8, <5>1
          <5>3. QED
            BY <5>1, <5>2 DEF f
        <4>3. QED
          BY <2>9, <4>1, <4>2
      <3>3. QED
        BY <3>1, <3>2
    <2>11. \E k \in 1..Len(s) : s[k] = c
      <3>1. CASE \E j \in 1..Len(orphans) : orphans[j] = c
        <4>1. PICK j \in 1..Len(orphans) : orphans[j] = c
          BY <3>1
        <4>2. j \in 1..(Len(orphans) + Len(r)) /\ j <= Len(orphans)
          BY <2>9
        <4>3. QED
          BY <2>8, <4>1, <4>2
      <3>2. CASE c \in AllLost(lost)
        <4>1. PICK j \in 1..Len(lost) : lost[j] = c
          BY <3>2 DEF AllLost
        <4> DEFINE k == Len(lost) - j + 1
        <4>2. k \in 1..Len(lost) /\ (Len(lost) - k) + 1 = j
          BY <2>3
        <4> HIDE DEF k
        <4>3. r[k] = c
          BY <2>7, <4>1, <4>2
        <4>4. /\ Len(orphans) + k \in 1..(Len(orphans) + Len(r)) /\ ~(Len(orphans) + k <= Len(orphans))
              /\ (Len(orphans) + k) - Len(orphans) = k
          BY <2>7, <2>9, <4>2
        <4> DEFINE m == Len(orphans) + k
        <4>5. m \in 1..(Len(orphans) + Len(r)) /\ ~(m <= Len(orphans)) /\ m - Len(orphans) = k
          BY ONLY <4>4
        <4> HIDE DEF m
        <4>6. s[m] = r[m - Len(orphans)]
          BY ONLY <2>8, <4>5
        <4>7. m \in 1..Len(s) /\ s[m] = c
          BY ONLY <2>8, <4>3, <4>5, <4>6
        <4>8. QED
          BY ONLY <4>7
      <3>3. QED
        BY <2>4, <3>1, <3>2
    <2>12. QED
      BY <2>10, <2>11
  <1>3. QED
    BY <1>1, <1>2

LEMMA StepOrphansAreListed ==
    ASSUME TypeOK, OrphansAreListed, [Next]_vars, Len(orphans') < OrphanCap
    PROVE  OrphansAreListed'
  <1>1. CASE HandleForward
    <2>1. orphans' = orphans /\ standing' = [standing EXCEPT ![Head(wire).pt] = "current"]
          /\ standing \in [Block -> {"unseen", "current", "orphaned"}]
      BY <1>1 DEF HandleForward, TypeOK
    <2>2. \A c \in Block : standing'[c] = "orphaned" => standing[c] = "orphaned"
      BY <2>1
    <2>3. QED
      BY <2>1, <2>2 DEF OrphansAreListed
  <1>2. CASE HandleBackward
    <2>1. ASSUME NEW c \in Block, standing'[c] = "orphaned"
          PROVE  \E i \in 1..Len(orphans') : orphans'[i] = c
      BY <1>2, <2>1, OrphansKept DEF OrphansAreListed
    <2>2. QED
      BY <2>1 DEF OrphansAreListed
  <1>3. CASE ~HandleForward /\ ~HandleBackward
    BY <1>3, OthersKeepLists DEF OrphansAreListed
  <1>4. QED
    BY <1>1, <1>2, <1>3

(* While the orphan list has not been full, that holds for every orphaned   *)
(* block (state.rs keeps the last 100).                                     *)
THEOREM BattlesAreReported ==
    Spec /\ ForksFit /\ [](Len(orphans) < OrphanCap) => []BattlesReported
  <1>1. Init => OrphansAreListed
    BY DEF Init, OrphansAreListed
  <1>2. TypeOK /\ OrphansAreListed /\ [Next]_vars /\ (Len(orphans) < OrphanCap)'
        => OrphansAreListed'
    BY StepOrphansAreListed
  <1>3. ListedAreReported /\ OrphansAreListed => BattlesReported
    BY DEF ListedAreReported, OrphansAreListed, BattlesReported
  <1>4. ChainInv => TypeOK
    BY DEF ChainInv
  <1>5. QED
    BY ChainInvariant, ListedBattlesAreReported, <1>1, <1>2, <1>3, <1>4, PTL DEF Spec

=============================================================================
