--------------------------- MODULE EventLogProofs ---------------------------
(***************************************************************************)
(* Events on disk and in the ring: ids resolve, nothing seen is lost but   *)
(* for what a torn line costs, no block is missed, and what the log holds  *)
(* for current is on the chain, for every block tree, every window, any    *)
(* number of crashes, forks and lost connections.                          *)
(***************************************************************************)
EXTENDS EventLog, ChainSyncProofs

Event == [id : Nat, kind : Kind, blk : Block, slot : Nat, ts : Nat, parent : Nat]
DraftEvent == [kind : Kind, blk : Block, slot : Nat, ts : Nat]
TornLine == [kind : {"cut", "split"}]
Line == Event \cup TornLine

LogTyped ==
    /\ TypeOK
    /\ log \in Seq(Line) /\ (ended \/ log # <<>>)
    /\ ring \in Seq(Event) /\ nextId \in Nat \ {0}
    /\ batch \in Seq(DraftEvent) /\ blockId \in Nat /\ now \in Nat /\ tears \in Nat
    /\ said \subseteq Event /\ IsFiniteSet(said)

(* Where the lines are that a restart now would restore. *)
Kept == {i \in Readable : InWindow(log[i])}

-----------------------------------------------------------------------------
(* Lines. *)

LEMMA LineKinds ==
    /\ \A e \in Event : /\ ~IsTorn(e) /\ e.kind # "split" /\ e.kind \in Kind
                        /\ e.id \in Nat /\ e.blk \in Block /\ e.slot \in Nat
                        /\ e.ts \in Nat /\ e.parent \in Nat
    /\ \A l \in TornLine : IsTorn(l)
    /\ \A l \in Line : ~IsTorn(l) => l \in Event
  BY DEF Event, Line, TornLine, IsTorn, Kind

LEMMA GluedIsTorn ==
    ASSUME NEW l, NEW m
    PROVE  Glued(l, m) \in TornLine
  BY DEF Glued, Torn, TornLine

(* A write adds a line, or spoils the last one. *)
LEMMA WrittenFacts ==
    ASSUME log \in Seq(Line), ended \/ log # <<>>, NEW l \in Line, NEW g, g = Written(l)
    PROVE  /\ g \in Seq(Line) /\ g # <<>> /\ Len(log) \in Nat
           /\ ended => /\ Len(g) = Len(log) + 1 /\ g[Len(log) + 1] = l
                       /\ \A i \in 1..Len(log) : g[i] = log[i]
           /\ ~ended => /\ Len(log) \in 1..Len(log) /\ Len(g) = Len(log)
                        /\ g[Len(log)] \in TornLine
                        /\ \A i \in 1..(Len(log) - 1) : g[i] = log[i]
  <1>1. Len(log) \in Nat /\ (log # <<>> => Len(log) \in 1..Len(log))
    BY EmptySeq, LenProperties
  <1>2. CASE ended
    <2>1. g = Append(log, l)
      BY <1>2, Zenon DEF Written
    <2>2. /\ g \in Seq(Line) /\ Len(g) = Len(log) + 1 /\ g[Len(log) + 1] = l
          /\ \A i \in 1..Len(log) : g[i] = log[i]
      BY <2>1, AppendProperties
    <2>3. g # <<>>
      BY <1>1, <2>2, EmptySeq
    <2>4. QED
      BY <1>1, <1>2, <2>2, <2>3, Zenon
  <1>3. CASE ~ended
    <2>1. g = [log EXCEPT ![Len(log)] = Glued(@, l)] /\ log # <<>>
      BY <1>3, Zenon DEF Written
    <2>2. PICK t \in TornLine : g = [log EXCEPT ![Len(log)] = t]
      BY <2>1, GluedIsTorn, Zenon
    <2>3. /\ Len(log) \in 1..Len(log) /\ t \in Line
      BY <1>1, <2>1 DEF Line
    <2>4. /\ g \in Seq(Line) /\ Len(g) = Len(log) /\ g[Len(log)] = t
          /\ \A i \in 1..Len(log) : i # Len(log) => g[i] = log[i]
      BY <2>2, <2>3, ExceptSeq
    <2>5. \A i \in 1..(Len(log) - 1) : i \in 1..Len(log) /\ i # Len(log)
      BY <1>1
    <2>6. g # <<>>
      BY <2>3, <2>4, EmptySeq
    <2>7. QED
      BY <1>1, <1>3, <2>2, <2>3, <2>4, <2>5, <2>6, Zenon
  <1>4. QED
    BY <1>2, <1>3, Zenon

-----------------------------------------------------------------------------
(* What a load restores: positions, windows, order. *)

LEMMA KeptFacts ==
    ASSUME LogTyped
    PROVE  /\ Len(log) \in Nat /\ Kept \in SUBSET (1..Len(log)) /\ Kept \in SUBSET (0..Len(log))
           /\ IsFiniteSet(Kept) /\ \A i \in Kept : log[i] \in Event
  <1>1. log \in Seq(Line) /\ Len(log) \in Nat
    BY LenProperties DEF LogTyped
  <1>2. Kept \in SUBSET (1..Len(log))
    BY DEF Kept, Readable
  <1>3. Kept \in SUBSET (0..Len(log))
    BY <1>1, <1>2
  <1>4. IsFiniteSet(Kept)
    <2>1. IsFiniteSet(1..Len(log))
      BY <1>1, FS_Interval
    <2>2. QED
      BY <1>2, <2>1, FS_Subset
  <1>5. ASSUME NEW i \in Kept
        PROVE  log[i] \in Event
    <2>1. log[i] \in Line
      BY <1>1, <1>2, ElementOfSeq
    <2>2. ~IsTorn(log[i])
      BY DEF Kept, Readable
    <2>3. QED
      BY <2>1, <2>2, LineKinds
  <1>6. QED
    BY <1>1, <1>2, <1>3, <1>4, <1>5

(* Trimming drops a front of the sequence, and nothing in the window. *)
LEMMA TrimFacts ==
    ASSUME NEW s \in Seq(Event)
    PROVE  /\ Trimmed(s) \in Seq(Event)
           /\ \E d \in 0..Len(s) :
                 /\ Len(Trimmed(s)) = Len(s) - d
                 /\ \A k \in 1..Len(Trimmed(s)) : Trimmed(s)[k] = s[k + d]
                 /\ \A i \in 1..Len(s) : InWindow(s[i]) => d < i
  <1> DEFINE kept == {i \in 1..Len(s) : InWindow(s[i])}
  <1>1. Len(s) \in Nat /\ \A i \in 1..Len(s) : s[i] \in Event
    BY LenProperties, ElementOfSeq
  <1>2. Trimmed(s) = IF kept = {} THEN <<>> ELSE SubSeq(s, Min(kept), Len(s))
    BY DEF Trimmed
  <1>3. CASE kept = {}
    <2>1. Trimmed(s) = <<>> /\ Len(Trimmed(s)) = 0 /\ Trimmed(s) \in Seq(Event)
      BY <1>2, <1>3, EmptySeq
    <2>2. \A i \in 1..Len(s) : ~InWindow(s[i])
      BY <1>3
    <2>3. Len(s) \in 0..Len(s) /\ Len(s) - Len(s) = 0 /\ 1..0 = {}
      BY <1>1
    <2>4. QED
      BY <2>1, <2>2, <2>3
  <1>4. CASE kept # {}
    <2> DEFINE m == Min(kept)
    <2>1. m \in kept /\ \A i \in kept : m <= i
      <3>1. kept \in SUBSET Nat
        OBVIOUS
      <3>2. QED
        BY <1>4, <3>1, MinIsLeast
    <2>2. m \in 1..Len(s)
      BY <2>1
    <2>3. Trimmed(s) = SubSeq(s, m, Len(s))
      BY <1>2, <1>4
    <2> HIDE DEF m, kept
    <2>4. m \in Int /\ Len(s) \in Int /\ m <= Len(s) /\ \A i \in m..Len(s) : s[i] \in Event
      BY <1>1, <2>2
    <2>5. /\ Trimmed(s) \in Seq(Event) /\ Len(Trimmed(s)) = Len(s) - m + 1
          /\ \A k \in 1..(Len(s) - m + 1) : Trimmed(s)[k] = s[m + k - 1]
      BY <2>3, <2>4, SubSeqProperties
    <2>6. /\ m - 1 \in 0..Len(s) /\ Len(Trimmed(s)) = Len(s) - (m - 1)
          /\ \A k \in 1..Len(Trimmed(s)) : Trimmed(s)[k] = s[k + (m - 1)]
      <3>1. Len(Trimmed(s)) = Len(s) - (m - 1) /\ m - 1 \in 0..Len(s)
        BY <1>1, <2>2, <2>5
      <3>2. ASSUME NEW k \in 1..Len(Trimmed(s))
            PROVE  Trimmed(s)[k] = s[k + (m - 1)]
        <4>1. k \in 1..(Len(s) - m + 1) /\ m + k - 1 = k + (m - 1)
          BY <1>1, <2>2, <2>5
        <4>2. QED
          BY <2>5, <4>1
      <3>3. QED
        BY <3>1, <3>2
    <2>7. ASSUME NEW i \in 1..Len(s), InWindow(s[i])
          PROVE  m - 1 < i
      <3>1. m <= i
        BY <2>1, <2>7 DEF kept
      <3>2. QED
        BY <1>1, <2>2, <3>1
    <2>8. QED
      BY <2>5, <2>6, <2>7
  <1>5. QED
    BY <1>3, <1>4

(* By slot, id and place in the file: a strict total order of the lines. *)
LEMMA BeforeOrders ==
    ASSUME LogTyped
    PROVE  /\ \A i \in Kept : ~Before(i, i)
           /\ \A i, j \in Kept : i # j => Before(i, j) \/ Before(j, i)
           /\ \A i, j, k \in Kept : Before(i, j) /\ Before(j, k) => Before(i, k)
  <1>1. \A i \in Kept : i \in Nat /\ log[i].slot \in Nat /\ log[i].id \in Nat
    BY KeptFacts, LineKinds
  <1>2. \A i \in Kept : ~Before(i, i)
    BY <1>1 DEF Before
  <1>3. \A i, j \in Kept : i # j => Before(i, j) \/ Before(j, i)
    BY <1>1 DEF Before
  <1>4. \A i, j, k \in Kept : Before(i, j) /\ Before(j, k) => Before(i, k)
    BY <1>1 DEF Before
  <1>5. QED
    BY <1>2, <1>3, <1>4

(* Hence every place is taken by one line. *)
LEMMA PlaceFacts ==
    ASSUME LogTyped
    PROVE  /\ Cardinality(Kept) \in Nat
           /\ \A i \in Kept : Place(Kept, i) \in 1..Cardinality(Kept)
           /\ \A i, k \in Kept : Place(Kept, i) = Place(Kept, k) => i = k
           /\ \A n \in 1..Cardinality(Kept) : \E i \in Kept : Place(Kept, i) = n
  <1> DEFINE D(i) == {j \in Kept : Before(j, i)}
             n == Cardinality(Kept)
  <1>1. IsFiniteSet(Kept) /\ n \in Nat
    BY KeptFacts, FS_CardinalityType
  <1>2. ASSUME NEW i \in Kept
        PROVE  /\ IsFiniteSet(D(i)) /\ Cardinality(D(i)) \in Nat /\ Cardinality(D(i)) < n
               /\ Place(Kept, i) = 1 + Cardinality(D(i))
    <2>1. D(i) \in SUBSET Kept /\ D(i) # Kept
      BY BeforeOrders
    <2>2. IsFiniteSet(D(i)) /\ Cardinality(D(i)) <= n /\ Cardinality(D(i)) # n
      BY <1>1, <2>1, FS_Subset
    <2>3. Cardinality(D(i)) \in Nat
      BY <2>2, FS_CardinalityType
    <2>4. QED
      BY <1>1, <2>2, <2>3 DEF Place
  <1>3. ASSUME NEW i \in Kept, NEW k \in Kept, Before(i, k)
        PROVE  Place(Kept, i) # Place(Kept, k)
    <2>1. D(i) \in SUBSET D(k) /\ D(i) # D(k)
      BY <1>3, BeforeOrders
    <2>2. Cardinality(D(i)) # Cardinality(D(k))
      BY <1>2, <2>1, FS_Subset
    <2>3. /\ Place(Kept, i) = 1 + Cardinality(D(i)) /\ Cardinality(D(i)) \in Nat
          /\ Place(Kept, k) = 1 + Cardinality(D(k)) /\ Cardinality(D(k)) \in Nat
      BY <1>2
    <2> HIDE DEF D
    <2>4. QED
      BY ONLY <2>2, <2>3
  <1>4. \A i, k \in Kept : Place(Kept, i) = Place(Kept, k) => i = k
    BY <1>3, BeforeOrders
  <1>5. ASSUME NEW i \in Kept
        PROVE  Place(Kept, i) \in 1..n
    <2>1. /\ Place(Kept, i) = 1 + Cardinality(D(i))
          /\ Cardinality(D(i)) \in Nat /\ Cardinality(D(i)) < n
      BY <1>2
    <2> HIDE DEF D, n
    <2>2. QED
      BY ONLY <1>1, <2>1
  <1> DEFINE f == [i \in Kept |-> Place(Kept, i)]
  <1>6. f \in Surjection(Kept, 1..n)
    <2>1. f \in [Kept -> 1..n] /\ \A i, k \in Kept : f[i] = f[k] => i = k
      BY <1>4, <1>5
    <2>2. f \in Injection(Kept, 1..n)
      BY <2>1 DEF Injection, IsInjective
    <2>3. IsFiniteSet(1..n) /\ Cardinality(1..n) = n
      BY <1>1, FS_Interval
    <2>4. QED
      BY <2>2, <2>3, FS_Injection
  <1>7. ASSUME NEW k \in 1..n
        PROVE  \E i \in Kept : Place(Kept, i) = k
    <2>1. \E i \in Kept : f[i] = k
      BY <1>6 DEF Surjection
    <2>2. QED
      BY <2>1
  <1>8. QED
    BY <1>1, <1>4, <1>5, <1>7

(* So the restored ring holds each line of the window once. *)
LEMMA SortedFacts ==
    ASSUME LogTyped
    PROVE  /\ Sorted(Kept) \in Seq(Event)
           /\ \E g \in [1..Len(Sorted(Kept)) -> Kept] :
                 /\ \A k, l \in 1..Len(Sorted(Kept)) : g[k] = g[l] => k = l
                 /\ \A k \in 1..Len(Sorted(Kept)) : Sorted(Kept)[k] = log[g[k]]
           /\ \A i \in Kept : \E k \in 1..Len(Sorted(Kept)) : Sorted(Kept)[k] = log[i]
  <1> DEFINE n == Cardinality(Kept)
             at(k) == CHOOSE i \in Kept : Place(Kept, i) = k
             g == [k \in 1..n |-> at(k)]
  <1>1. n \in Nat
    BY PlaceFacts
  <1>2. ASSUME NEW k \in 1..n
        PROVE  at(k) \in Kept /\ Place(Kept, at(k)) = k
    <2>1. \E i \in Kept : Place(Kept, i) = k
      BY PlaceFacts
    <2>2. QED
      BY <2>1
  <1>3. Sorted(Kept) = [k \in 1..n |-> log[at(k)]]
    BY DEF Sorted
  <1> HIDE DEF at, n
  <1>4. Sorted(Kept) \in [1..n -> Event]
    BY <1>2, <1>3, KeptFacts
  <1>5. Sorted(Kept) \in Seq(Event)
    BY <1>1, <1>4, SeqDef
  <1>6. Len(Sorted(Kept)) = n
    BY <1>1, <1>3, <1>5
  <1>7. g \in [1..n -> Kept] /\ \A k \in 1..n : g[k] = at(k) /\ Sorted(Kept)[k] = log[g[k]]
    BY <1>2, <1>3
  <1>8. \A k, l \in 1..n : g[k] = g[l] => k = l
    BY <1>2, <1>7
  <1>9. ASSUME NEW i \in Kept
        PROVE  \E k \in 1..n : Sorted(Kept)[k] = log[i]
    <2>1. Place(Kept, i) \in 1..n
      BY PlaceFacts DEF n
    <2>2. at(Place(Kept, i)) = i
      BY <1>2, <2>1, PlaceFacts
    <2>3. QED
      BY <1>3, <2>1, <2>2
  <1>10. QED
    BY <1>5, <1>6, <1>7, <1>8, <1>9

-----------------------------------------------------------------------------
(* What the handlers queue. *)

LEMMA DraftFacts ==
    ASSUME NEW kind \in Kind, NEW b \in Block, NEW ts \in Nat
    PROVE  /\ Draft(kind, b, ts) \in DraftEvent
           /\ Draft(kind, b, ts).kind = kind /\ Draft(kind, b, ts).blk = b
  <1>1. Slot[b] \in Nat
    BY TreeAssumption
  <1>2. QED
    BY <1>1 DEF Draft, DraftEvent

(* The events of a block are of that block. *)
LEMMA ForwardBatch ==
    ASSUME LogTyped, Forward
    PROVE  /\ batch' \in Seq(DraftEvent)
           /\ \A k, l \in 1..Len(batch') : batch'[k].blk = batch'[l].blk
  <1> DEFINE b == Head(wire).pt
             c == Draft("block", b, Slot[b])
             t == Draft("transaction", b, Slot[b])
             s == Draft("slot_battle", b, Slot[b])
             D == {d \in DraftEvent : d.blk = b}
  <1>1. b \in Block
    <2>1. wire # <<>> /\ wire \in Seq(Message) /\ Head(wire).dir = "forward"
      BY DEF Forward, HandleForward, LogTyped, TypeOK
    <2>2. Head(wire) \in Message
      BY <2>1, HeadTailProperties
    <2>3. QED
      BY <2>1, <2>2 DEF Message
  <1>2. c \in D /\ t \in D /\ s \in D
    <2>1. Slot[b] \in Nat
      BY <1>1, TreeAssumption
    <2>2. "block" \in Kind /\ "transaction" \in Kind /\ "slot_battle" \in Kind
      BY DEF Kind
    <2>3. QED
      BY <1>1, <2>1, <2>2, DraftFacts
  <1>3. batch' = <<c, t>> \o IF BattlesOf(b) = {} THEN <<>> ELSE <<s>>
    BY DEF Forward
  <1> HIDE DEF c, t, s, D
  <1>4. batch' \in Seq(D)
    BY <1>2, <1>3
  <1>5. batch' \in Seq(DraftEvent)
    BY <1>4, SeqMonotonic DEF D
  <1>6. \A k \in 1..Len(batch') : batch'[k] \in D
    BY <1>4, ElementOfSeq
  <1>7. QED
    BY <1>5, <1>6 DEF D

(* A rollback queues neither blocks nor transactions. *)
LEMMA BackwardBatch ==
    ASSUME LogTyped, Backward
    PROVE  /\ batch' \in Seq(DraftEvent)
           /\ \A k \in 1..Len(batch') : batch'[k].kind \notin {"block", "transaction"}
  <1> DEFINE q == Head(wire).pt
             cut == SubSeq(recent, Len(recent') + 1, Len(recent))
             lost == Reverse(cut)
             r == Draft("rollback", q, Slot[q])
             o == [i \in 1..Len(lost) |-> Draft("orphaned_block", lost[i], Slot[q])]
             D == {d \in DraftEvent : d.kind \notin {"block", "transaction"}}
  <1>1. recent \in Seq(Block) /\ Len(recent) \in Nat
    BY LenProperties DEF LogTyped, TypeOK
  <1>2. batch' = IF lost = <<>> THEN <<>> ELSE <<r>> \o o
    BY DEF Backward
  <1>3. q = Origin => lost = <<>>
    <2>1. SUFFICES ASSUME q = Origin
                   PROVE  lost = <<>>
      OBVIOUS
    <2>2. recent' = recent
      BY <2>1 DEF Backward, HandleBackward
    <2>3. cut = <<>>
      BY <1>1, <2>2, SubSeqEmpty
    <2>4. Reverse(<<>>) = <<>>
      BY DEF Reverse
    <2>5. QED
      BY <2>3, <2>4
  <1>4. lost \in Seq(Block)
    <2>1. recent' \in Seq(Block) /\ Len(recent') \in Nat
      <3>1. TypeOK'
        BY HandleTypeOK DEF Backward, LogTyped
      <3>2. QED
        BY <3>1, LenProperties DEF TypeOK
    <2>2. \A i \in (Len(recent') + 1)..Len(recent) : recent[i] \in Block
      BY <1>1, <2>1, ElementOfSeq
    <2>3. cut \in Seq(Block)
      BY <1>1, <2>1, <2>2, SubSeqProperties
    <2>4. QED
      BY <2>3, ReverseType
  <1>5. q \in Point
    <2>1. wire # <<>> /\ wire \in Seq(Message)
      BY DEF Backward, HandleBackward, LogTyped, TypeOK
    <2>2. Head(wire) \in Message
      BY <2>1, HeadTailProperties
    <2>3. QED
      BY <2>2 DEF Message, Point
  <1> HIDE DEF q, lost, cut
  <1>6. CASE lost = <<>>
    <2>1. batch' = <<>>
      BY <1>2, <1>6
    <2>2. QED
      BY <2>1
  <1>7. CASE lost # <<>>
    <2>1. q \in Block /\ Slot[q] \in Nat
      BY <1>3, <1>5, <1>7, TreeAssumption DEF Point
    <2>2. "rollback" \in Kind /\ "orphaned_block" \in Kind
      BY DEF Kind
    <2>3. r \in D
      BY <2>1, <2>2, DraftFacts
    <2>4. Len(lost) \in Nat /\ \A i \in 1..Len(lost) : lost[i] \in Block
      BY <1>4, LenProperties, ElementOfSeq
    <2>5. \A i \in 1..Len(lost) : Draft("orphaned_block", lost[i], Slot[q]) \in D
      BY <2>1, <2>2, <2>4, DraftFacts
    <2>6. o \in Seq(D)
      <3>1. o \in [1..Len(lost) -> D]
        BY <2>5
      <3>2. QED
        BY <2>4, <3>1, SeqDef
    <2> HIDE DEF r, o, D
    <2>7. batch' = <<r>> \o o /\ <<r>> \in Seq(D)
      BY <1>2, <1>7, <2>3
    <2>8. batch' \in Seq(D)
      BY <2>6, <2>7, ConcatProperties
    <2>9. batch' \in Seq(DraftEvent) /\ \A k \in 1..Len(batch') : batch'[k] \in D
      BY <2>8, SeqMonotonic, ElementOfSeq DEF D
    <2>10. QED
      BY <2>9 DEF D
  <1>8. QED
    BY <1>6, <1>7

(* The event published next. *)
LEMMA StampedFacts ==
    ASSUME LogTyped, batch # <<>>
    PROVE  LET d == Head(batch)
               e == Stamped(d)
           IN  /\ d \in DraftEvent /\ d = batch[1] /\ 1 \in 1..Len(batch)
               /\ e \in Event /\ e.id = nextId /\ e.kind = d.kind /\ e.blk = d.blk
               /\ e.parent = IF d.kind = "transaction" THEN blockId ELSE 0
               /\ Tail(batch) \in Seq(DraftEvent) /\ Len(Tail(batch)) = Len(batch) - 1
               /\ \A k \in 1..Len(Tail(batch)) :
                     k + 1 \in 1..Len(batch) /\ Tail(batch)[k] = batch[k + 1]
  <1>1. batch \in Seq(DraftEvent) /\ Len(batch) \in Nat \ {0} /\ nextId \in Nat /\ blockId \in Nat
    BY EmptySeq DEF LogTyped
  <1>2. /\ Head(batch) \in DraftEvent /\ Head(batch) = batch[1] /\ 1 \in 1..Len(batch)
        /\ Tail(batch) \in Seq(DraftEvent) /\ Len(Tail(batch)) = Len(batch) - 1
        /\ \A k \in 1..Len(Tail(batch)) : k + 1 \in 1..Len(batch) /\ Tail(batch)[k] = batch[k + 1]
    BY <1>1, HeadTailProperties
  <1>3. Stamped(Head(batch)) \in Event
    BY <1>1, <1>2 DEF Stamped, Event, DraftEvent
  <1>4. QED
    BY <1>2, <1>3 DEF Stamped

-----------------------------------------------------------------------------
(* Each step keeps the types. *)

LEMMA InitLogTyped == LogInit => LogTyped
  <1> SUFFICES ASSUME LogInit PROVE LogTyped
    OBVIOUS
  <1>1. TypeOK
    BY InitTypeOK DEF LogInit
  <1>2. <<>> \in Seq(Line) /\ <<>> \in Seq(Event) /\ <<>> \in Seq(DraftEvent)
    BY EmptySeq
  <1>3. IsFiniteSet({})
    BY FS_EmptySet
  <1>4. QED
    BY <1>1, <1>2, <1>3 DEF LogInit, LogTyped

(* Steps that leave the log and the ring alone. *)
LEMMA QuietTyped ==
    ASSUME LogTyped, Tick \/ (Serve /\ UNCHANGED logVars) \/ Link \/ Forward \/ Backward
                     \/ \E b \in Block : NodeMoves(b)
    PROVE  LogTyped'
  <1>1. TypeOK'
    <2>1. CASE Tick
      BY <2>1, StepTypeOK DEF Tick, LogTyped, vars
    <2>2. CASE \E b \in Block : NodeMoves(b)
      BY <2>2, NodeTypeOK DEF NodeMoves, LogTyped
    <2>3. CASE Serve
      BY <2>3, ServeTypeOK DEF LogTyped
    <2>4. CASE Link
      BY <2>4, LinkTypeOK DEF Link, LogTyped
    <2>5. CASE Forward \/ Backward
      BY <2>5, HandleTypeOK DEF Forward, Backward, LogTyped
    <2>6. QED
      BY <2>1, <2>2, <2>3, <2>4, <2>5
  <1>2. UNCHANGED <<log, ended, ring, nextId, tears, said>>
    BY DEF Tick, NodeMoves, Link, Forward, Backward, logVars
  <1>3. batch' \in Seq(DraftEvent)
    <2>1. CASE Forward
      BY <2>1, ForwardBatch
    <2>2. CASE Backward
      BY <2>2, BackwardBatch
    <2>3. CASE UNCHANGED batch
      BY <2>3 DEF LogTyped
    <2>4. QED
      BY <2>1, <2>2, <2>3 DEF Tick, NodeMoves, Link, logVars
  <1>4. blockId' \in Nat /\ now' \in Nat
    <2>1. blockId' \in {blockId, 0} /\ now' \in {now, now + 1}
      BY DEF Tick, NodeMoves, Link, Forward, Backward, logVars
    <2>2. QED
      BY <2>1 DEF LogTyped
  <1>5. QED
    BY <1>1, <1>2, <1>3, <1>4 DEF LogTyped

LEMMA PublishTyped ==
    ASSUME LogTyped, Publish
    PROVE  LogTyped'
  <1> DEFINE e == Stamped(Head(batch))
  <1>1. e \in Event /\ e \in Line /\ e.id = nextId /\ Tail(batch) \in Seq(DraftEvent)
    BY StampedFacts DEF Publish, Line
  <1> HIDE DEF e
  <1>2. /\ log' = Written(e) /\ ended' = TRUE /\ ring' = Trimmed(Append(ring, e))
        /\ blockId' \in {blockId, e.id} /\ said' = said \cup {e}
        /\ nextId' = nextId + 1 /\ batch' = Tail(batch) /\ UNCHANGED <<vars, now, tears>>
    BY DEF Publish, e
  <1>3. log' \in Seq(Line)
    BY <1>1, <1>2, WrittenFacts DEF LogTyped
  <1>4. ring' \in Seq(Event)
    <2>1. Append(ring, e) \in Seq(Event)
      BY <1>1, AppendProperties DEF LogTyped
    <2>2. QED
      BY <1>2, <2>1, TrimFacts
  <1>5. said' \subseteq Event /\ IsFiniteSet(said')
    BY <1>1, <1>2, FS_AddElement DEF LogTyped
  <1>6. TypeOK'
    BY <1>2, StepTypeOK DEF LogTyped
  <1>7. nextId' \in Nat \ {0} /\ blockId' \in Nat
    BY <1>1, <1>2 DEF LogTyped
  <1>8. QED
    BY <1>1, <1>2, <1>3, <1>4, <1>5, <1>6, <1>7 DEF LogTyped

(* What a crash leaves in the file. *)
LEMMA CrashLog ==
    ASSUME LogTyped, Crash
    PROVE  \/ UNCHANGED <<log, ended, tears>>
           \/ /\ batch # <<>>
              /\ \E l \in {Stamped(Head(batch))} \cup TornLine : log' = Written(l)
              /\ \/ ended' = TRUE /\ UNCHANGED tears
                 \/ ended' = FALSE /\ tears' = tears + 1
  <1>1. \A k \in TearKinds \ {"unended"} : Torn(k) \in TornLine
    BY LogAssumption DEF Torn, TornLine
  <1>2. QED
    BY <1>1 DEF Crash

LEMMA CrashTyped ==
    ASSUME LogTyped, Crash
    PROVE  LogTyped'
  <1>1. log' \in Seq(Line) /\ (ended' \/ log' # <<>>) /\ tears' \in Nat
    <2>1. CASE UNCHANGED <<log, ended, tears>>
      BY <2>1 DEF LogTyped
    <2>2. CASE /\ batch # <<>>
               /\ \E l \in {Stamped(Head(batch))} \cup TornLine : log' = Written(l)
               /\ \/ ended' = TRUE /\ UNCHANGED tears
                  \/ ended' = FALSE /\ tears' = tears + 1
      <3>1. PICK l \in Line : log' = Written(l)
        BY <2>2, StampedFacts DEF Line
      <3>2. log' \in Seq(Line) /\ log' # <<>>
        BY <3>1, WrittenFacts DEF LogTyped
      <3>3. tears' \in Nat
        BY <2>2 DEF LogTyped
      <3>4. QED
        BY <3>2, <3>3
    <2>3. QED
      BY <2>1, <2>2, CrashLog
  <1>2. /\ ring' \in Seq(Event) /\ nextId' \in Nat \ {0} /\ batch' \in Seq(DraftEvent)
        /\ blockId' \in Nat
    BY EmptySeq DEF Crash
  <1>3. now' \in Nat /\ said' \subseteq Event /\ IsFiniteSet(said')
    BY DEF Crash, LogTyped
  <1>4. TypeOK'
    <2>1. /\ UNCHANGED <<nodeTip, reorgs, drops, standing, battles, restarted>>
          /\ recent' = <<>> /\ orphans' = <<>> /\ wire' = <<>> /\ tip' = NoPoint
          /\ phase' = "down" /\ asked' = NoPoint /\ owesRollback' = FALSE
          /\ readPtr' = Origin /\ pos' = NoPoint
      BY DEF Crash, nodeVars, historyVars
    <2>2. recent' \in Seq(Block) /\ orphans' \in Seq(Block) /\ wire' \in Seq(Message)
      BY <2>1, EmptySeq
    <2>3. Len(recent') <= RecentCap /\ Len(orphans') <= OrphanCap /\ Len(wire') <= Pipeline
      BY <2>1, CapAssumption, EmptySeq
    <2>4. QED
      BY <2>1, <2>2, <2>3 DEF LogTyped, TypeOK, Point
  <1>5. QED
    BY <1>1, <1>2, <1>3, <1>4 DEF LogTyped

(* The blocks restored, and the next id: above every id restored. *)
LEMMA RestoredType ==
    ASSUME LogTyped
    PROVE  /\ RestoredBlocks(Kept) \in Seq(Block)
           /\ Len(RestoredBlocks(Kept)) <= RecentCap
           /\ NextIdAfter(Kept) \in Nat \ {0}
           /\ \A i \in Kept : log[i].id < NextIdAfter(Kept)
  <1> DEFINE s == [i \in Kept |-> log[i].blk]
             P == InBackfill(Kept)
             ids == {0} \cup {log[i].id : i \in Kept}
  <1>1. /\ Len(log) \in Nat /\ Kept \in SUBSET (0..Len(log)) /\ IsFiniteSet(Kept)
        /\ \A i \in Kept : log[i].blk \in Block /\ log[i].id \in Nat
    BY KeptFacts, LineKinds
  <1>2. RestoredBlocks(Kept) \in Seq(Block) /\ Len(RestoredBlocks(Kept)) <= RecentCap
    <2>1. P \in SUBSET Kept
      BY DEF InBackfill
    <2>2. P \in SUBSET (0..Len(log)) /\ \A i \in P : s[i] \in Block
      BY <1>1, <2>1
    <2>3. Subsequence(s, P) \in Seq(Block)
      BY <1>1, <2>2, SubsequenceFacts
    <2>4. RecentCap \in Nat \ {0}
      BY CapAssumption
    <2>5. LastN(Subsequence(s, P), RecentCap) \in Seq(Block)
          /\ Len(LastN(Subsequence(s, P), RecentCap)) <= RecentCap
      BY <2>3, <2>4, LastNBounded
    <2>6. <<>> \in Seq(Block) /\ Len(<<>>) = 0
      BY EmptySeq
    <2>7. RestoredBlocks(Kept) = IF Backfill = 0 THEN <<>> ELSE LastN(Subsequence(s, P), RecentCap)
      BY DEF RestoredBlocks
    <2>8. QED
      BY <2>4, <2>5, <2>6, <2>7
  <1>3. Max(ids) \in ids /\ \A m \in ids : m <= Max(ids)
    <2>1. ids \in SUBSET Nat /\ ids # {}
      BY <1>1
    <2> DEFINE f == [i \in 1..Len(log) |-> IF i \in Kept THEN log[i].id ELSE 0]
    <2>2. PICK b \in Nat : \A i \in 1..Len(log) : f[i] <= b
      <3>1. f \in [1..Len(log) -> Nat]
        BY <1>1
      <3> HIDE DEF f
      <3>2. QED
        BY <1>1, <3>1, ValuesBounded
    <2>3. \A i \in Kept : i \in 1..Len(log)
      BY KeptFacts
    <2>4. \A m \in ids : m <= b
      BY <2>2, <2>3
    <2> HIDE DEF ids
    <2>5. QED
      BY <2>1, <2>4, MaxIsGreatest
  <1>4. NextIdAfter(Kept) = 1 + Max(ids)
    BY DEF NextIdAfter
  <1>5. \A i \in Kept : log[i].id \in ids /\ log[i].id \in Nat
    BY <1>1
  <1>6. ids \subseteq Nat
    BY <1>1
  <1> HIDE DEF ids
  <1>7. Max(ids) \in Nat /\ \A i \in Kept : log[i].id \in ids /\ log[i].id \in Nat
    BY <1>3, <1>5, <1>6
  <1>8. NextIdAfter(Kept) \in Nat \ {0} /\ \A i \in Kept : log[i].id < NextIdAfter(Kept)
    BY <1>3, <1>4, <1>7
  <1>9. QED
    BY <1>2, <1>8

(* A restart, in terms of what is kept. *)
LEMMA BootFacts ==
    ASSUME LogTyped, Boot
    PROVE  /\ ~up /\ up' = TRUE /\ ring' = Sorted(Kept) /\ nextId' = NextIdAfter(Kept)
           /\ recent' = RestoredBlocks(Kept)
           /\ said' = said \cup {log[i] : i \in Kept}
           /\ UNCHANGED <<log, ended, batch, blockId, now, tears>>
           /\ Kept' = Kept
           /\ UNCHANGED <<nodeTip, reorgs, readPtr, owesRollback, phase, asked, wire, drops,
                          orphans, tip, standing, battles, pos, restarted>>
  <1>1. Kept = {i \in Readable : InWindow(log[i])}
    BY DEF Kept
  <1>2. UNCHANGED <<log, ended, batch, blockId, now, tears>>
    BY DEF Boot
  <1>3. Kept' = Kept
    BY <1>2 DEF Kept, Readable, InWindow
  <1>4. QED
    BY <1>1, <1>2, <1>3 DEF Boot, nodeVars, linkVars, historyVars

LEMMA BootTyped ==
    ASSUME LogTyped, Boot
    PROVE  LogTyped'
  <1>1. ring' \in Seq(Event) /\ nextId' \in Nat \ {0}
    BY BootFacts, SortedFacts, RestoredType
  <1>2. said' \subseteq Event /\ IsFiniteSet(said')
    <2> DEFINE f == [i \in Kept |-> log[i]]
               T == {log[i] : i \in Kept}
    <2>1. IsFiniteSet(Kept) /\ \A i \in Kept : log[i] \in Event
      BY KeptFacts
    <2>2. f \in Surjection(Kept, T)
      BY DEF Surjection
    <2>3. IsFiniteSet(T)
      BY <2>1, <2>2, FS_Surjection
    <2>4. T \subseteq Event
      BY <2>1
    <2>5. said' = said \cup T
      BY BootFacts
    <2> HIDE DEF T
    <2>6. IsFiniteSet(said \cup T)
      BY <2>3, FS_Union DEF LogTyped
    <2>7. QED
      BY <2>4, <2>5, <2>6 DEF LogTyped
  <1>3. TypeOK'
    BY BootFacts, RestoredType DEF LogTyped, TypeOK
  <1>4. QED
    BY <1>1, <1>2, <1>3, BootFacts DEF LogTyped

LEMMA StepLogTyped ==
    ASSUME LogTyped, [LogNext]_allVars
    PROVE  LogTyped'
  <1>1. CASE Boot
    BY <1>1, BootTyped
  <1>2. CASE Crash
    BY <1>2, CrashTyped
  <1>3. CASE Publish
    BY <1>3, PublishTyped
  <1>4. CASE Tick \/ (Serve /\ UNCHANGED logVars) \/ Link \/ Forward \/ Backward
             \/ \E b \in Block : NodeMoves(b)
    BY <1>4, QuietTyped
  <1>5. CASE UNCHANGED allVars
    BY <1>5 DEF LogTyped, TypeOK, allVars, logVars, vars, nodeVars, linkVars, stateVars,
                historyVars
  <1>6. QED
    BY <1>1, <1>2, <1>3, <1>4, <1>5 DEF LogNext

-----------------------------------------------------------------------------
(* Which lines a restart would keep, after a step. *)

LEMMA KeptAfterWrite ==
    ASSUME LogTyped, LogTyped', NEW l \in Line, log' = Written(l), now' = now
    PROVE  /\ \A i \in Kept' :
                 \/ i \in Kept /\ log'[i] = log[i]
                 \/ ended /\ i = Len(log) + 1 /\ log'[i] = l /\ i \notin Kept
           /\ \A i \in 1..Len(log) : (\A j \in 1..Len(log') : log'[j] # log[i]) =>
                  ~ended /\ i = Len(log)
           /\ ended => \E j \in 1..Len(log') : log'[j] = l
  <1>1. /\ Len(log) \in Nat
        /\ ended => /\ Len(log') = Len(log) + 1 /\ log'[Len(log) + 1] = l
                    /\ \A i \in 1..Len(log) : log'[i] = log[i]
        /\ ~ended => /\ Len(log) \in 1..Len(log) /\ Len(log') = Len(log)
                     /\ log'[Len(log)] \in TornLine
                     /\ \A i \in 1..(Len(log) - 1) : log'[i] = log[i]
    <2>1. log \in Seq(Line) /\ (ended \/ log # <<>>)
      BY DEF LogTyped
    <2>2. PICK g : g = log'
      OBVIOUS
    <2>3. g = Written(l)
      BY <2>2
    <2>4. /\ Len(log) \in Nat
          /\ ended => /\ Len(g) = Len(log) + 1 /\ g[Len(log) + 1] = l
                      /\ \A i \in 1..Len(log) : g[i] = log[i]
          /\ ~ended => /\ Len(log) \in 1..Len(log) /\ Len(g) = Len(log)
                       /\ g[Len(log)] \in TornLine
                       /\ \A i \in 1..(Len(log) - 1) : g[i] = log[i]
      BY ONLY <2>1, <2>3, l \in Line, WrittenFacts, SMTT(30)
    <2>5. QED
      BY <2>2, <2>4
  <1>2. Kept' = {i \in 1..Len(log') :
                   /\ ~IsTorn(log'[i]) /\ \A j \in 1..i : log'[j].kind # "split"
                   /\ log'[i].ts + Retention >= now}
    BY DEF Kept, Readable, InWindow, IsTorn
  <1>3. Kept = {i \in 1..Len(log) :
                   /\ ~IsTorn(log[i]) /\ \A j \in 1..i : log[j].kind # "split"
                   /\ log[i].ts + Retention >= now}
    BY DEF Kept, Readable, InWindow, IsTorn
  <1>4. ASSUME NEW i \in Kept', i \in 1..Len(log), \A j \in 1..i : log'[j] = log[j]
        PROVE  i \in Kept /\ log'[i] = log[i]
    <2>1. i \in 1..i
      BY <1>4
    <2>2. log'[i] = log[i]
      BY <1>4, <2>1
    <2>3. \A j \in 1..i : log[j].kind # "split"
      BY <1>2, <1>4
    <2>4. QED
      BY <1>2, <1>3, <1>4, <2>2, <2>3
  <1>5. CASE ended
    <2>1. ASSUME NEW i \in Kept'
          PROVE  \/ i \in Kept /\ log'[i] = log[i]
                 \/ ended /\ i = Len(log) + 1 /\ log'[i] = l /\ i \notin Kept
      <3>1. i \in 1..(Len(log) + 1)
        BY <1>1, <1>2, <1>5
      <3>2. CASE i = Len(log) + 1
        <4>1. i \notin Kept
          BY <1>1, <1>3, <3>2
        <4>2. QED
          BY <1>1, <1>5, <3>2, <4>1
      <3>3. CASE i # Len(log) + 1
        <4>1. i \in 1..Len(log)
          BY <1>1, <3>1, <3>3
        <4>2. \A j \in 1..i : log'[j] = log[j]
          BY <1>1, <1>5, <4>1
        <4>3. QED
          BY <1>4, <4>1, <4>2
      <3>4. QED
        BY <3>2, <3>3
    <2>2. /\ \A i \in 1..Len(log) : i \in 1..Len(log') /\ log'[i] = log[i]
          /\ Len(log) + 1 \in 1..Len(log') /\ log'[Len(log) + 1] = l
      BY <1>1, <1>5
    <2>3. QED
      BY <1>5, <2>1, <2>2
  <1>6. CASE ~ended
    <2>1. ASSUME NEW i \in Kept'
          PROVE  i \in Kept /\ log'[i] = log[i]
      <3>1. i \in 1..Len(log) /\ i # Len(log)
        <4>1. IsTorn(log'[Len(log)])
          BY <1>1, <1>6, LineKinds
        <4>2. QED
          BY <1>1, <1>2, <1>6, <4>1
      <3>2. \A j \in 1..i : log'[j] = log[j]
        BY <1>1, <1>6, <3>1
      <3>3. QED
        BY <1>4, <3>1, <3>2
    <2>2. \A i \in 1..Len(log) : i # Len(log) => i \in 1..Len(log') /\ log'[i] = log[i]
      BY <1>1, <1>6
    <2>3. QED
      BY <1>6, <2>1, <2>2
  <1>7. QED
    BY <1>5, <1>6

(* Time passing only takes lines away. *)
LEMMA KeptAfterTick ==
    ASSUME LogTyped, UNCHANGED log, now' \in {now, now + 1}
    PROVE  Kept' \subseteq Kept
  <1>1. ASSUME NEW i \in Kept'
        PROVE  i \in Kept
    <2>1. i \in Readable /\ log[i].ts + Retention >= now'
      BY DEF Kept, Readable, InWindow
    <2>2. log[i] \in Event
      <3>1. i \in 1..Len(log) /\ ~IsTorn(log[i])
        BY <2>1 DEF Readable
      <3>2. log[i] \in Line
        BY <3>1, ElementOfSeq DEF LogTyped
      <3>3. QED
        BY <3>1, <3>2, LineKinds
    <2>3. log[i].ts + Retention \in Nat /\ now \in Nat
      BY <2>2, LineKinds, LogAssumption DEF LogTyped
    <2>4. log[i].ts + Retention >= now
      BY <2>1, <2>3
    <2>5. QED
      BY <2>1, <2>4 DEF Kept, InWindow
  <1>2. QED
    BY <1>1

-----------------------------------------------------------------------------
(* Ids.  The same is said of the lines a restart would keep and of the ring: *)
(* s is the log or the ring, P the positions in it.                          *)

IdsGood(s, P) ==
    /\ \A i \in P : s[i].parent < s[i].id
    /\ \A i, j \in P : s[i].id = s[j].id => i = j
    /\ \A i, j \in P :
          s[i].parent # 0 /\ s[j].id = s[i].parent => s[j].kind = "block" /\ s[j].blk = s[i].blk

IdsBelow(s, P, n) == \A i \in P : s[i].id < n

(* Events with the id bid are the block of the transactions yet to publish. *)
BlockKnown(s, P, bid, bt) ==
    bid # 0 => \A j \in P : s[j].id = bid =>
                  /\ s[j].kind = "block"
                  /\ \A k \in 1..Len(bt) : bt[k].kind = "transaction" => bt[k].blk = s[j].blk

OneBlock(bt) ==
    \A k, l \in 1..Len(bt) :
        bt[k].kind = "block" /\ bt[l].kind = "transaction" => bt[k].blk = bt[l].blk

RingPositions == 1..Len(ring)

IdsInv ==
    /\ LogTyped
    /\ IdsGood(log, Kept) /\ IdsGood(ring, RingPositions)
    /\ up => IdsBelow(log, Kept, nextId) /\ IdsBelow(ring, RingPositions, nextId)
    /\ up => blockId < nextId
    /\ BlockKnown(log, Kept, blockId, batch) /\ BlockKnown(ring, RingPositions, blockId, batch)
    /\ OneBlock(batch)
    /\ ~up => ring = <<>> /\ batch = <<>> /\ blockId = 0

(* t holds at Q some of what s holds at P, each once. *)
Reindexed(s, P, t, Q) ==
    \E g \in [Q -> P] : /\ \A k, l \in Q : g[k] = g[l] => k = l
                        /\ \A k \in Q : t[k] = s[g[k]]

(* Keeping fewer of the events, in whatever order. *)
LEMMA IdsReindexed ==
    ASSUME NEW s, NEW P, NEW t, NEW Q, Reindexed(s, P, t, Q)
    PROVE  /\ IdsGood(s, P) => IdsGood(t, Q)
           /\ \A n : IdsBelow(s, P, n) => IdsBelow(t, Q, n)
           /\ \A bid, bt : BlockKnown(s, P, bid, bt) => BlockKnown(t, Q, bid, bt)
  <1>1. PICK g \in [Q -> P] : /\ \A k \in Q : g[k] \in P
                              /\ \A k, l \in Q : g[k] = g[l] => k = l
                              /\ \A k \in Q : t[k] = s[g[k]]
    BY DEF Reindexed
  <1>2. IdsGood(s, P) => IdsGood(t, Q)
    BY <1>1 DEF IdsGood
  <1>3. \A n : IdsBelow(s, P, n) => IdsBelow(t, Q, n)
    BY <1>1 DEF IdsBelow
  <1>4. \A bid, bt : BlockKnown(s, P, bid, bt) => BlockKnown(t, Q, bid, bt)
    BY <1>1 DEF BlockKnown
  <1>5. QED
    BY <1>2, <1>3, <1>4

(* The queue gets shorter. *)
LEMMA ShorterQueue ==
    ASSUME NEW bt, NEW ct, NEW f \in [1..Len(ct) -> 1..Len(bt)],
           \A k \in 1..Len(ct) : ct[k] = bt[f[k]]
    PROVE  /\ OneBlock(bt) => OneBlock(ct)
           /\ \A s, P, bid : BlockKnown(s, P, bid, bt) => BlockKnown(s, P, bid, ct)
  <1>1. \A k \in 1..Len(ct) : f[k] \in 1..Len(bt)
    OBVIOUS
  <1>2. OneBlock(bt) => OneBlock(ct)
    BY <1>1 DEF OneBlock
  <1>3. \A s, P, bid : BlockKnown(s, P, bid, bt) => BlockKnown(s, P, bid, ct)
    BY <1>1 DEF BlockKnown
  <1>4. QED
    BY <1>2, <1>3

(* Publishing (or writing in a crash) one more event, x its position: its id *)
(* is new, and its parent, if any, is the block it belongs to.               *)
LEMMA IdsAdded ==
    ASSUME LogTyped, batch # <<>>, blockId < nextId,
           NEW s, NEW P, \A i \in P : s[i] \in Event,
           IdsGood(s, P), IdsBelow(s, P, nextId), BlockKnown(s, P, blockId, batch),
           NEW t, NEW Q, NEW x, x \notin P,
           \A i \in Q : \/ i \in P /\ t[i] = s[i]
                        \/ i = x /\ t[i] = Stamped(Head(batch))
    PROVE  /\ IdsGood(t, Q) /\ IdsBelow(t, Q, nextId + 1)
           /\ BlockKnown(t, Q, blockId, batch)
           /\ OneBlock(batch) /\ Head(batch).kind = "block" =>
                 BlockKnown(t, Q, nextId, batch)
  <1> DEFINE e == Stamped(Head(batch))
             new(i) == i = x /\ t[i] = e
             old(i) == i \in P /\ t[i] = s[i]
  <1>1. /\ e \in Event /\ e.id = nextId /\ e.kind = Head(batch).kind /\ e.blk = Head(batch).blk
        /\ e.parent = IF e.kind = "transaction" THEN blockId ELSE 0
        /\ Head(batch) = batch[1] /\ 1 \in 1..Len(batch)
    BY StampedFacts
  <1>2. nextId \in Nat \ {0} /\ blockId \in Nat
    BY DEF LogTyped
  <1> HIDE DEF e
  <1>3. \A i \in P : /\ s[i].id \in Nat /\ s[i].parent \in Nat /\ s[i].id < nextId
                     /\ s[i].parent < s[i].id
    BY LineKinds DEF IdsGood, IdsBelow
  <1>4. ASSUME NEW i \in Q
        PROVE  /\ old(i) \/ new(i)
               /\ old(i) => /\ t[i].id \in Nat /\ t[i].parent \in Nat /\ t[i].id < nextId
                            /\ t[i].parent < t[i].id
               /\ new(i) => t[i].id = nextId /\ t[i].parent < nextId /\ t[i].parent \in Nat
    <2>1. old(i) \/ new(i)
      BY DEF e
    <2>2. new(i) => t[i].id = nextId /\ t[i].parent < nextId /\ t[i].parent \in Nat
      BY <1>1, <1>2
    <2>3. QED
      BY <1>3, <2>1, <2>2
  <1>5. \A i \in Q : t[i].parent < t[i].id /\ t[i].id < nextId + 1
    BY <1>2, <1>4
  <1>6. ASSUME NEW i \in Q, NEW j \in Q, t[i].id = t[j].id
        PROVE  i = j
    <2>1. CASE old(i) /\ old(j)
      BY <1>6, <2>1 DEF IdsGood
    <2>2. CASE new(i) /\ new(j)
      BY <2>2
    <2>3. ~(old(i) /\ new(j)) /\ ~(new(i) /\ old(j))
      BY <1>2, <1>4, <1>6
    <2>4. QED
      BY <1>4, <2>1, <2>2, <2>3
  <1>7. ASSUME NEW j \in Q, blockId # 0, t[j].id = blockId
        PROVE  /\ old(j) /\ t[j].kind = "block"
               /\ \A k \in 1..Len(batch) : batch[k].kind = "transaction" => batch[k].blk = t[j].blk
    <2>1. old(j)
      BY <1>2, <1>4, <1>7
    <2>2. QED
      BY <1>7, <2>1 DEF BlockKnown
  <1>8. ASSUME NEW i \in Q, NEW j \in Q, t[i].parent # 0, t[j].id = t[i].parent
        PROVE  t[j].kind = "block" /\ t[j].blk = t[i].blk
    <2>1. old(j)
      BY <1>2, <1>4, <1>8
    <2>2. CASE old(i)
      BY <1>8, <2>1, <2>2 DEF IdsGood
    <2>3. CASE new(i)
      <3>1. t[i].parent = blockId /\ batch[1].kind = "transaction" /\ t[i].blk = batch[1].blk
        BY <1>1, <1>8, <2>3
      <3>2. QED
        BY <1>1, <1>7, <1>8, <3>1
    <2>4. QED
      BY <1>4, <2>2, <2>3
  <1>9. ASSUME OneBlock(batch), Head(batch).kind = "block", NEW j \in Q, t[j].id = nextId
        PROVE  /\ t[j].kind = "block"
               /\ \A k \in 1..Len(batch) : batch[k].kind = "transaction" => batch[k].blk = t[j].blk
    <2>1. t[j] = e
      BY <1>2, <1>4, <1>9
    <2>2. QED
      BY <1>1, <1>9, <2>1 DEF OneBlock
  <1>10. QED
    BY <1>5, <1>6, <1>7, <1>8, <1>9 DEF IdsGood, IdsBelow, BlockKnown

LEMMA InitIds == LogInit => IdsInv
  <1> SUFFICES ASSUME LogInit PROVE IdsInv
    OBVIOUS
  <1>1. LogTyped
    BY InitLogTyped
  <1>2. log = <<>> /\ ring = <<>> /\ batch = <<>> /\ blockId = 0 /\ up = FALSE
    BY DEF LogInit
  <1>3. Kept = {} /\ RingPositions = {}
    BY <1>2 DEF Kept, Readable, RingPositions
  <1>4. OneBlock(batch)
    BY <1>2 DEF OneBlock
  <1>5. QED
    BY <1>1, <1>2, <1>3, <1>4 DEF IdsInv, IdsGood, BlockKnown

(* Lines that fall out of the window. *)
LEMMA FewerKept ==
    ASSUME UNCHANGED log, Kept' \subseteq Kept
    PROVE  /\ IdsGood(log, Kept) => IdsGood(log', Kept')
           /\ \A n : IdsBelow(log, Kept, n) => IdsBelow(log', Kept', n)
           /\ \A bid, bt : BlockKnown(log, Kept, bid, bt) => BlockKnown(log', Kept', bid, bt)
  BY DEF IdsGood, IdsBelow, BlockKnown

LEMMA QuietIds ==
    ASSUME IdsInv, LogTyped',
           \/ Tick \/ (Serve /\ UNCHANGED logVars) \/ Link \/ Forward \/ Backward
           \/ (\E b \in Block : NodeMoves(b)) \/ UNCHANGED allVars
    PROVE  IdsInv'
  <1>1. UNCHANGED <<log, ended, ring, nextId, up>> /\ now' \in {now, now + 1}
    BY DEF Tick, NodeMoves, Link, Forward, Backward, logVars, allVars
  <1>2. Kept' \subseteq Kept /\ RingPositions' = RingPositions
    BY <1>1, KeptAfterTick DEF IdsInv, RingPositions
  <1>3. /\ IdsGood(log', Kept') /\ IdsGood(ring', RingPositions')
        /\ up' => IdsBelow(log', Kept', nextId') /\ IdsBelow(ring', RingPositions', nextId')
    BY <1>1, <1>2, FewerKept DEF IdsInv
  <1>4. /\ \A bid, bt : BlockKnown(log, Kept, bid, bt) => BlockKnown(log', Kept', bid, bt)
        /\ \A bid, bt : BlockKnown(ring, RingPositions, bid, bt) =>
                            BlockKnown(ring', RingPositions', bid, bt)
    BY <1>1, <1>2, FewerKept
  <1>5. CASE UNCHANGED <<batch, blockId>>
    BY <1>1, <1>3, <1>4, <1>5 DEF IdsInv
  <1>6. CASE Forward
    <2>1. up /\ blockId' = 0 /\ blockId' < nextId'
      <3>1. nextId \in Nat \ {0}
        BY DEF IdsInv, LogTyped
      <3>2. QED
        BY <1>1, <1>6, <3>1 DEF Forward
    <2>2. OneBlock(batch')
      BY <1>6, ForwardBatch DEF IdsInv, OneBlock
    <2>3. BlockKnown(log', Kept', blockId', batch') /\ BlockKnown(ring', RingPositions', blockId', batch')
      BY <2>1 DEF BlockKnown
    <2>4. QED
      BY <1>1, <1>3, <2>1, <2>2, <2>3 DEF IdsInv
  <1>7. CASE Backward
    <2>1. up /\ blockId' = blockId
      BY <1>7 DEF Backward
    <2>2. \A k \in 1..Len(batch') : batch'[k].kind \notin {"block", "transaction"}
      BY <1>7, BackwardBatch DEF IdsInv
    <2>3. OneBlock(batch')
      BY <2>2 DEF OneBlock
    <2>4. BlockKnown(log', Kept', blockId, batch) /\ BlockKnown(ring', RingPositions', blockId, batch)
      BY <1>4 DEF IdsInv
    <2>5. BlockKnown(log', Kept', blockId', batch') /\ BlockKnown(ring', RingPositions', blockId', batch')
      BY <2>1, <2>2, <2>4 DEF BlockKnown
    <2>6. QED
      BY <1>1, <1>3, <2>1, <2>3, <2>5 DEF IdsInv
  <1>8. UNCHANGED <<batch, blockId>> \/ Forward \/ Backward
    BY DEF Tick, NodeMoves, Link, logVars, allVars
  <1>9. QED
    BY <1>5, <1>6, <1>7, <1>8

LEMMA BootIds ==
    ASSUME IdsInv, LogTyped', Boot
    PROVE  IdsInv'
  <1>1. /\ ~up /\ up' = TRUE /\ ring' = Sorted(Kept) /\ nextId' = NextIdAfter(Kept)
        /\ UNCHANGED <<log, batch, blockId>> /\ Kept' = Kept
        /\ batch = <<>> /\ blockId = 0
    BY BootFacts DEF IdsInv
  <1>2. LogTyped /\ IdsGood(log, Kept)
    BY DEF IdsInv
  <1>3. IdsBelow(log, Kept, nextId') /\ nextId' \in Nat \ {0}
    BY <1>1, <1>2, RestoredType DEF IdsBelow
  <1>4. IdsGood(ring', RingPositions') /\ IdsBelow(ring', RingPositions', nextId')
    <2> DEFINE r == Sorted(Kept)
    <2>1. Reindexed(log, Kept, r, 1..Len(r))
      BY <1>2, SortedFacts DEF Reindexed
    <2> HIDE DEF r
    <2>2. /\ IdsGood(log, Kept) => IdsGood(r, 1..Len(r))
          /\ \A n : IdsBelow(log, Kept, n) => IdsBelow(r, 1..Len(r), n)
      BY <2>1, IdsReindexed, ZenonT(30)
    <2>3. IdsGood(r, 1..Len(r)) /\ IdsBelow(r, 1..Len(r), nextId')
      BY <1>2, <1>3, <2>2
    <2>4. ring' = r /\ RingPositions' = 1..Len(r)
      BY <1>1 DEF RingPositions, r
    <2>5. QED
      BY <2>3, <2>4
  <1>5. /\ BlockKnown(log', Kept', blockId', batch')
        /\ BlockKnown(ring', RingPositions', blockId', batch')
        /\ OneBlock(batch')
    BY <1>1 DEF BlockKnown, OneBlock
  <1>6. blockId' < nextId'
    BY <1>1, <1>3
  <1>7. IdsGood(log', Kept') /\ IdsBelow(log', Kept', nextId')
    BY <1>1, <1>2, <1>3
  <1>8. QED
    BY <1>1, <1>4, <1>5, <1>6, <1>7 DEF IdsInv

LEMMA PublishIds ==
    ASSUME IdsInv, LogTyped', Publish
    PROVE  IdsInv'
  <1> DEFINE e == Stamped(Head(batch))
             a == Append(ring, e)
             A == 1..(Len(ring) + 1)
  <1>1. /\ up /\ batch # <<>> /\ log' = Written(e) /\ ring' = Trimmed(a)
        /\ nextId' = nextId + 1 /\ batch' = Tail(batch) /\ up' = up /\ now' = now
        /\ blockId' = IF e.kind = "block" THEN e.id ELSE blockId
    BY DEF Publish
  <1>2. LogTyped /\ blockId < nextId /\ OneBlock(batch)
    BY <1>1 DEF IdsInv
  <1>3. /\ e \in Event /\ e \in Line /\ e.id = nextId /\ e.kind = Head(batch).kind
        /\ Len(Tail(batch)) = Len(batch) - 1
        /\ \A k \in 1..Len(Tail(batch)) : k + 1 \in 1..Len(batch) /\ Tail(batch)[k] = batch[k + 1]
    BY <1>1, <1>2, StampedFacts DEF Line
  <1>4. /\ IdsGood(log', Kept') /\ IdsBelow(log', Kept', nextId + 1)
        /\ BlockKnown(log', Kept', blockId, batch)
        /\ Head(batch).kind = "block" => BlockKnown(log', Kept', nextId, batch)
    <2>1. \A i \in Kept : log[i] \in Event
      BY <1>2, KeptFacts
    <2>2. /\ IdsGood(log, Kept) /\ IdsBelow(log, Kept, nextId)
          /\ BlockKnown(log, Kept, blockId, batch)
      BY <1>1 DEF IdsInv
    <2>3. \A i \in Kept' : \/ i \in Kept /\ log'[i] = log[i]
                           \/ i = Len(log) + 1 /\ log'[i] = e
      BY <1>1, <1>2, <1>3, KeptAfterWrite
    <2>4. Len(log) + 1 \notin Kept
      BY <1>2, KeptFacts
    <2> HIDE DEF a, A
    <2>5. QED
      BY <1>1, <1>2, <2>1, <2>2, <2>3, <2>4, IdsAdded
  <1>5. /\ IdsGood(a, A) /\ IdsBelow(a, A, nextId + 1)
        /\ BlockKnown(a, A, blockId, batch)
        /\ Head(batch).kind = "block" => BlockKnown(a, A, nextId, batch)
    <2>1. Len(ring) \in Nat /\ \A i \in RingPositions : ring[i] \in Event
      BY <1>2, LenProperties, ElementOfSeq DEF LogTyped, RingPositions
    <2>2. /\ IdsGood(ring, RingPositions) /\ IdsBelow(ring, RingPositions, nextId)
          /\ BlockKnown(ring, RingPositions, blockId, batch)
      BY <1>1 DEF IdsInv
    <2>3. /\ \A i \in 1..Len(ring) : a[i] = ring[i]
          /\ a[Len(ring) + 1] = e
      BY <1>2, <1>3, AppendProperties DEF LogTyped
    <2>4. \A i \in A : \/ i \in RingPositions /\ a[i] = ring[i]
                       \/ i = Len(ring) + 1 /\ a[i] = e
      BY <2>1, <2>3 DEF RingPositions
    <2>5. Len(ring) + 1 \notin RingPositions
      BY <2>1 DEF RingPositions
    <2> HIDE DEF a, A
    <2>6. batch # <<>>
      BY <1>1
    <2>7. QED
      BY ONLY <1>2, <2>1, <2>2, <2>4, <2>5, <2>6, IdsAdded, SMTT(30)
  <1>6. /\ IdsGood(ring', RingPositions') /\ IdsBelow(ring', RingPositions', nextId + 1)
        /\ BlockKnown(ring', RingPositions', blockId, batch)
        /\ Head(batch).kind = "block" => BlockKnown(ring', RingPositions', nextId, batch)
    <2>1. a \in Seq(Event) /\ Len(a) = Len(ring) + 1 /\ Len(ring) \in Nat
      BY <1>2, <1>3, AppendProperties, LenProperties DEF LogTyped
    <2>2. PICK d \in 0..Len(a) :
             /\ Len(Trimmed(a)) = Len(a) - d
             /\ \A k \in 1..Len(Trimmed(a)) : Trimmed(a)[k] = a[k + d]
      BY <2>1, TrimFacts
    <2> DEFINE g == [k \in RingPositions' |-> k + d]
    <2> HIDE DEF a
    <2>3. RingPositions' = 1..(Len(ring) + 1 - d) /\ \A k \in RingPositions' : ring'[k] = a[k + d]
      <3>1. ring' = Trimmed(a) /\ RingPositions' = 1..Len(ring')
        BY <1>1 DEF RingPositions, a
      <3>2. Len(ring') = Len(ring) + 1 - d
        BY <2>1, <2>2, <3>1
      <3>3. QED
        BY ONLY <2>2, <3>1, <3>2
    <2>4. /\ g \in [RingPositions' -> A] /\ \A k, l \in RingPositions' : g[k] = g[l] => k = l
          /\ \A k \in RingPositions' : ring'[k] = a[g[k]]
      BY <2>1, <2>2, <2>3
    <2>5. Reindexed(a, A, ring', RingPositions')
      BY <2>4 DEF Reindexed
    <2> HIDE DEF A
    <2>6. /\ IdsGood(a, A) => IdsGood(ring', RingPositions')
          /\ \A n : IdsBelow(a, A, n) => IdsBelow(ring', RingPositions', n)
          /\ \A bid, bt : BlockKnown(a, A, bid, bt) => BlockKnown(ring', RingPositions', bid, bt)
      BY <2>5, IdsReindexed, Zenon
    <2>7. QED
      BY <1>5, <2>6
  <1>7. /\ OneBlock(batch')
        /\ \A s, P, bid : BlockKnown(s, P, bid, batch) => BlockKnown(s, P, bid, batch')
    <2> DEFINE f == [k \in 1..Len(Tail(batch)) |-> k + 1]
    <2>1. f \in [1..Len(Tail(batch)) -> 1..Len(batch)]
          /\ \A k \in 1..Len(Tail(batch)) : Tail(batch)[k] = batch[f[k]]
      BY <1>3
    <2> HIDE DEF f
    <2>2. /\ OneBlock(batch) => OneBlock(Tail(batch))
          /\ \A s, P, bid : BlockKnown(s, P, bid, batch) => BlockKnown(s, P, bid, Tail(batch))
      BY <2>1, ShorterQueue
    <2>3. QED
      BY <1>1, <1>2, <2>2
  <1>8. /\ blockId' < nextId'
        /\ BlockKnown(log', Kept', blockId', batch')
        /\ BlockKnown(ring', RingPositions', blockId', batch')
    <2>1. nextId \in Nat /\ blockId \in Nat
      BY <1>2 DEF LogTyped
    <2>2. CASE e.kind = "block"
      <3>1. blockId' = nextId /\ Head(batch).kind = "block"
        BY <1>1, <1>3, <2>2
      <3>2. QED
        BY <1>1, <1>4, <1>6, <1>7, <2>1, <3>1
    <2>3. CASE e.kind # "block"
      <3>1. blockId' = blockId
        BY <1>1, <2>3
      <3>2. QED
        BY <1>1, <1>2, <1>4, <1>6, <1>7, <2>1, <3>1
    <2>4. QED
      BY <2>2, <2>3
  <1>9. QED
    BY <1>1, <1>4, <1>6, <1>7, <1>8 DEF IdsInv

LEMMA CrashIds ==
    ASSUME IdsInv, LogTyped', Crash
    PROVE  IdsInv'
  <1>1. /\ up /\ up' = FALSE /\ ring' = <<>> /\ batch' = <<>> /\ blockId' = 0 /\ now' = now
    BY DEF Crash
  <1>2. LogTyped /\ blockId < nextId /\ IdsGood(log, Kept)
    BY <1>1 DEF IdsInv
  <1>3. IdsGood(log', Kept')
    <2>1. CASE UNCHANGED log
      <3>1. Kept' \subseteq Kept
        BY <1>1, <1>2, <2>1, KeptAfterTick
      <3>2. QED
        BY <1>2, <2>1, <3>1, FewerKept
    <2>2. CASE batch # <<>> /\ \E l \in {Stamped(Head(batch))} \cup TornLine : log' = Written(l)
      <3> DEFINE e == Stamped(Head(batch))
      <3>1. PICK l \in {e} \cup TornLine : log' = Written(l)
        BY <2>2
      <3>2. l \in Line
        BY <1>2, <2>2, StampedFacts DEF Line
      <3>3. \A i \in Kept' : \/ i \in Kept /\ log'[i] = log[i]
                             \/ i = Len(log) + 1 /\ log'[i] = l
        BY <1>1, <1>2, <3>1, <3>2, KeptAfterWrite
      <3>4. \A i \in Kept' : ~IsTorn(log'[i])
        BY DEF Kept, Readable, IsTorn
      <3>5. \A i \in Kept' : \/ i \in Kept /\ log'[i] = log[i]
                             \/ i = Len(log) + 1 /\ log'[i] = e
        BY <3>1, <3>3, <3>4, LineKinds
      <3>6. /\ \A i \in Kept : log[i] \in Event
            /\ Len(log) + 1 \notin Kept
        BY <1>2, KeptFacts
      <3>7. IdsBelow(log, Kept, nextId) /\ BlockKnown(log, Kept, blockId, batch)
        BY <1>1 DEF IdsInv
      <3>8. QED
        BY <1>2, <2>2, <3>5, <3>6, <3>7, IdsAdded
    <2>3. QED
      BY <1>2, <2>1, <2>2, CrashLog
  <1>4. /\ IdsGood(ring', RingPositions') /\ OneBlock(batch')
        /\ BlockKnown(log', Kept', blockId', batch')
        /\ BlockKnown(ring', RingPositions', blockId', batch')
    <2>1. RingPositions' = {}
      BY <1>1 DEF RingPositions
    <2>2. QED
      BY <1>1, <2>1 DEF IdsGood, OneBlock, BlockKnown
  <1>5. QED
    BY <1>1, <1>3, <1>4 DEF IdsInv

LEMMA StepIds == IdsInv /\ [LogNext]_allVars => IdsInv'
  <1> SUFFICES ASSUME IdsInv, [LogNext]_allVars PROVE IdsInv'
    OBVIOUS
  <1>1. LogTyped'
    BY StepLogTyped DEF IdsInv
  <1>2. CASE Boot
    BY <1>1, <1>2, BootIds
  <1>3. CASE Crash
    BY <1>1, <1>3, CrashIds
  <1>4. CASE Publish
    BY <1>1, <1>4, PublishIds
  <1>5. CASE \/ Tick \/ (Serve /\ UNCHANGED logVars) \/ Link \/ Forward \/ Backward
             \/ (\E b \in Block : NodeMoves(b)) \/ UNCHANGED allVars
    BY <1>1, <1>5, QuietIds
  <1>6. QED
    BY <1>2, <1>3, <1>4, <1>5 DEF LogNext

(* Ids identify events of the ring and parents resolve to the block event,  *)
(* also after any number of restarts that forget ids: a restart continues   *)
(* above every id it restores, and a line outside the window stays outside. *)
THEOREM IdsResolveAlways == LogSpec => []RingIdsResolve
  <1>1. IdsInv => RingIdsResolve
    BY DEF IdsInv, IdsGood, RingPositions, RingIdsResolve
  <1>2. QED
    BY InitIds, StepIds, <1>1, PTL DEF LogSpec

-----------------------------------------------------------------------------
(* What is lost.  A line left without its newline may cost two events: its   *)
(* own and the one appended to it.  They are counted when it is left so.     *)

Lost == {e \in said : \A i \in 1..Len(log) : log[i] # e}
Owed == IF ended THEN 0 ELSE 2

RingHasKept == \A i \in Kept : \E k \in 1..Len(ring) : ring[k] = log[i]

SeenInv ==
    /\ LogTyped
    /\ up => RingHasKept
    /\ Cardinality(Lost) + Owed <= 2 * tears

LEMMA LostFinite ==
    ASSUME IsFiniteSet(said)
    PROVE  IsFiniteSet(Lost) /\ Cardinality(Lost) \in Nat
  <1>1. Lost \in SUBSET said
    BY DEF Lost
  <1>2. IsFiniteSet(Lost)
    BY <1>1, FS_Subset
  <1>3. QED
    BY <1>2, FS_CardinalityType

(* A set within another and two elements more. *)
LEMMA TwoMore ==
    ASSUME NEW S, NEW T, NEW a, NEW b, IsFiniteSet(S), IsFiniteSet(T)
    PROVE  /\ T \subseteq S => Cardinality(T) <= Cardinality(S)
           /\ T \subseteq S \cup {a} => Cardinality(T) <= Cardinality(S) + 1
           /\ T \subseteq (S \cup {a}) \cup {b} => Cardinality(T) <= Cardinality(S) + 2
  <1>1. /\ IsFiniteSet(S \cup {a}) /\ IsFiniteSet((S \cup {a}) \cup {b})
        /\ Cardinality(S \cup {a}) <= Cardinality(S) + 1
        /\ Cardinality((S \cup {a}) \cup {b}) <= Cardinality(S) + 2
        /\ Cardinality(S) \in Nat /\ Cardinality(T) \in Nat
        /\ Cardinality(S \cup {a}) \in Nat /\ Cardinality((S \cup {a}) \cup {b}) \in Nat
    <2>1. /\ IsFiniteSet(S \cup {a}) /\ Cardinality(S) \in Nat /\ Cardinality(T) \in Nat
          /\ Cardinality(S \cup {a}) \in {Cardinality(S), Cardinality(S) + 1}
      BY FS_AddElement, FS_CardinalityType
    <2>2. /\ IsFiniteSet((S \cup {a}) \cup {b})
          /\ Cardinality((S \cup {a}) \cup {b}) \in
                {Cardinality(S \cup {a}), Cardinality(S \cup {a}) + 1}
      BY <2>1, FS_AddElement
    <2>3. QED
      BY <2>1, <2>2
  <1>2. T \subseteq S => Cardinality(T) <= Cardinality(S)
    BY FS_Subset
  <1>3. T \subseteq S \cup {a} => Cardinality(T) <= Cardinality(S \cup {a})
    BY <1>1, FS_Subset
  <1>4. T \subseteq (S \cup {a}) \cup {b} => Cardinality(T) <= Cardinality((S \cup {a}) \cup {b})
    BY <1>1, FS_Subset
  <1>5. QED
    BY <1>1, <1>2, <1>3, <1>4

LEMMA LostAfterWrite ==
    ASSUME LogTyped, LogTyped', NEW l \in Line, log' = Written(l), now' = now
    PROVE  /\ Cardinality(Lost) \in Nat /\ Cardinality(Lost') \in Nat
           /\ said' = said =>
                 Cardinality(Lost') <= Cardinality(Lost) + (IF ended THEN 0 ELSE 1)
           /\ said' = said \cup {l} =>
                 Cardinality(Lost') <= Cardinality(Lost) + (IF ended THEN 0 ELSE 2)
  <1>1. IsFiniteSet(Lost) /\ Cardinality(Lost) \in Nat
    BY LostFinite DEF LogTyped
  <1>2. IsFiniteSet(Lost') /\ Cardinality(Lost') \in Nat
    <2>1. Lost' \in SUBSET said' /\ IsFiniteSet(said')
      BY DEF Lost, LogTyped
    <2>2. IsFiniteSet(Lost')
      BY <2>1, FS_Subset
    <2>3. QED
      BY <2>2, FS_CardinalityType
  <1>3. /\ \A i \in 1..Len(log) : (\A j \in 1..Len(log') : log'[j] # log[i]) =>
               ~ended /\ i = Len(log)
        /\ ended => \E j \in 1..Len(log') : log'[j] = l
    BY KeptAfterWrite
  <1>4. Lost' = {e \in said' : \A i \in 1..Len(log') : log'[i] # e}
    BY DEF Lost
  <1>5. ASSUME said' = said
        PROVE  Lost' \subseteq Lost \/ (~ended /\ Lost' \subseteq Lost \cup {log[Len(log)]})
    <2>1. \A e \in Lost' : e \in Lost \/ (~ended /\ e = log[Len(log)])
      BY <1>3, <1>4, <1>5 DEF Lost
    <2>2. QED
      BY <2>1
  <1>6. ASSUME said' = said \cup {l}
        PROVE  \/ Lost' \subseteq Lost
               \/ ~ended /\ Lost' \subseteq (Lost \cup {log[Len(log)]}) \cup {l}
    <2>1. \A e \in Lost' : e \in Lost \/ (~ended /\ (e = log[Len(log)] \/ e = l))
      BY <1>3, <1>4, <1>6 DEF Lost
    <2>2. QED
      BY <2>1
  <1> HIDE DEF Lost
  <1>7. /\ Lost' \subseteq Lost => Cardinality(Lost') <= Cardinality(Lost)
        /\ Lost' \subseteq Lost \cup {log[Len(log)]} =>
               Cardinality(Lost') <= Cardinality(Lost) + 1
        /\ Lost' \subseteq (Lost \cup {log[Len(log)]}) \cup {l} =>
               Cardinality(Lost') <= Cardinality(Lost) + 2
    BY <1>1, <1>2, TwoMore
  <1>8. QED
    BY <1>1, <1>2, <1>5, <1>6, <1>7

LEMMA QuietSeen ==
    ASSUME SeenInv, LogTyped', UNCHANGED <<log, ended, ring, tears, said, up>>,
           now' \in {now, now + 1}
    PROVE  SeenInv'
  <1>1. Kept' \subseteq Kept
    BY KeptAfterTick DEF SeenInv
  <1>2. up' => RingHasKept'
    BY <1>1 DEF SeenInv, RingHasKept
  <1>3. Lost' = Lost /\ Owed' = Owed
    BY DEF Lost, Owed
  <1>4. QED
    BY <1>2, <1>3 DEF SeenInv

LEMMA BootSeen ==
    ASSUME SeenInv, LogTyped', Boot
    PROVE  SeenInv'
  <1>1. LogTyped
    BY DEF SeenInv
  <1>2. /\ ring' = Sorted(Kept) /\ said' = said \cup {log[i] : i \in Kept}
        /\ UNCHANGED <<log, ended, tears>> /\ Kept' = Kept
    BY <1>1, BootFacts
  <1>3. RingHasKept'
    BY <1>1, <1>2, SortedFacts DEF RingHasKept
  <1>4. Lost' = Lost /\ Owed' = Owed
    <2>1. \A i \in Kept : i \in 1..Len(log)
      BY <1>1, KeptFacts
    <2>2. QED
      BY <1>2, <2>1 DEF Lost, Owed
  <1>5. QED
    BY <1>2, <1>3, <1>4 DEF SeenInv

LEMMA PublishSeen ==
    ASSUME SeenInv, LogTyped', Publish
    PROVE  SeenInv'
  <1> DEFINE e == Stamped(Head(batch))
             a == Append(ring, e)
  <1>1. /\ up /\ batch # <<>> /\ log' = Written(e) /\ ended' = TRUE /\ ring' = Trimmed(a)
        /\ said' = said \cup {e} /\ up' = up /\ now' = now /\ tears' = tears
    BY DEF Publish
  <1>2. LogTyped /\ RingHasKept /\ e \in Event /\ e \in Line
    BY <1>1, StampedFacts DEF SeenInv, Line
  <1> HIDE DEF e
  <1>3. Cardinality(Lost') + Owed' <= 2 * tears'
    <2>1. /\ Cardinality(Lost) \in Nat /\ Cardinality(Lost') \in Nat
          /\ Cardinality(Lost') <= Cardinality(Lost) + (IF ended THEN 0 ELSE 2)
      BY <1>1, <1>2, LostAfterWrite
    <2>2. Cardinality(Lost) + Owed <= 2 * tears /\ tears \in Nat
      BY DEF SeenInv, LogTyped
    <2>3. Owed = (IF ended THEN 0 ELSE 2) /\ Owed' = 0
      BY <1>1 DEF Owed
    <2>4. QED
      BY <1>1, <2>1, <2>2, <2>3
  <1>4. RingHasKept'
    <2>1. /\ a \in Seq(Event) /\ Len(a) = Len(ring) + 1 /\ Len(ring) \in Nat
          /\ \A i \in 1..Len(ring) : a[i] = ring[i]
          /\ a[Len(ring) + 1] = e
      BY <1>2, AppendProperties, LenProperties DEF LogTyped
    <2> HIDE DEF a
    <2>2. PICK d \in 0..Len(a) :
             /\ Len(Trimmed(a)) = Len(a) - d
             /\ \A k \in 1..Len(Trimmed(a)) : Trimmed(a)[k] = a[k + d]
             /\ \A i \in 1..Len(a) : InWindow(a[i]) => d < i
      BY <2>1, TrimFacts
    <2>3. ASSUME NEW i \in Kept'
          PROVE  \E k \in 1..Len(ring') : ring'[k] = log'[i]
      <3>1. \E m \in 1..Len(a) : a[m] = log'[i]
        <4>1. \/ i \in Kept /\ log'[i] = log[i]
              \/ log'[i] = e
          BY <1>1, <1>2, KeptAfterWrite
        <4>2. QED
          BY <1>2, <2>1, <4>1 DEF RingHasKept
      <3>2. PICK m \in 1..Len(a) : a[m] = log'[i]
        BY <3>1
      <3>3. InWindow(a[m])
        BY <1>1, <3>2 DEF Kept, InWindow
      <3>4. m - d \in 1..Len(Trimmed(a)) /\ (m - d) + d = m
        BY <2>1, <2>2, <3>3
      <3>5. ring'[m - d] = a[m]
        BY <1>1, <2>2, <3>4
      <3>6. QED
        BY <1>1, <3>2, <3>4, <3>5
    <2>4. QED
      BY <2>3 DEF RingHasKept
  <1>5. QED
    BY <1>3, <1>4 DEF SeenInv

LEMMA CrashSeen ==
    ASSUME SeenInv, LogTyped', Crash
    PROVE  SeenInv'
  <1>1. LogTyped /\ up' = FALSE /\ now' = now /\ said' = said
    BY DEF Crash, SeenInv
  <1>2. Cardinality(Lost) + Owed <= 2 * tears /\ tears \in Nat
        /\ Owed = (IF ended THEN 0 ELSE 2)
    BY DEF SeenInv, LogTyped, Owed
  <1>3. CASE UNCHANGED <<log, ended, tears>>
    <2>1. Lost' = Lost /\ Owed' = Owed
      BY <1>1, <1>3 DEF Lost, Owed
    <2>2. QED
      BY <1>1, <1>3, <2>1 DEF SeenInv
  <1>4. CASE /\ batch # <<>>
             /\ \E l \in {Stamped(Head(batch))} \cup TornLine : log' = Written(l)
             /\ \/ ended' = TRUE /\ UNCHANGED tears
                \/ ended' = FALSE /\ tears' = tears + 1
    <2>1. PICK l \in Line : log' = Written(l)
      BY <1>1, <1>4, StampedFacts DEF Line
    <2>2. /\ Cardinality(Lost) \in Nat /\ Cardinality(Lost') \in Nat
          /\ Cardinality(Lost') <= Cardinality(Lost) + (IF ended THEN 0 ELSE 1)
      BY <1>1, <2>1, LostAfterWrite
    <2>3. CASE ended' = TRUE /\ UNCHANGED tears
      <3>1. Owed' = 0
        BY <2>3 DEF Owed
      <3>2. Cardinality(Lost') + Owed' <= 2 * tears'
        BY <1>2, <2>2, <2>3, <3>1
      <3>3. QED
        BY <1>1, <3>2 DEF SeenInv
    <2>4. CASE ended' = FALSE /\ tears' = tears + 1
      <3>1. Owed' = 2
        BY <2>4 DEF Owed
      <3>2. Cardinality(Lost') + Owed' <= 2 * tears'
        BY <1>2, <2>2, <2>4, <3>1
      <3>3. QED
        BY <1>1, <3>2 DEF SeenInv
    <2>5. QED
      BY <1>4, <2>3, <2>4
  <1>5. QED
    BY <1>1, <1>3, <1>4, CrashLog

LEMMA InitSeen == LogInit => SeenInv
  <1> SUFFICES ASSUME LogInit PROVE SeenInv
    OBVIOUS
  <1>1. LogTyped /\ log = <<>> /\ said = {} /\ ended = TRUE /\ tears = 0 /\ up = FALSE
    BY InitLogTyped DEF LogInit
  <1>2. Lost = {} /\ Owed = 0
    BY <1>1 DEF Lost, Owed
  <1>3. Cardinality(Lost) = 0
    BY <1>2, FS_EmptySet
  <1>4. QED
    BY <1>1, <1>2, <1>3 DEF SeenInv

LEMMA StepSeen == SeenInv /\ [LogNext]_allVars => SeenInv'
  <1> SUFFICES ASSUME SeenInv, [LogNext]_allVars PROVE SeenInv'
    OBVIOUS
  <1>1. LogTyped'
    BY StepLogTyped DEF SeenInv
  <1>2. CASE Boot
    BY <1>1, <1>2, BootSeen
  <1>3. CASE Crash
    BY <1>1, <1>3, CrashSeen
  <1>4. CASE Publish
    BY <1>1, <1>4, PublishSeen
  <1>5. CASE \/ Tick \/ (Serve /\ UNCHANGED logVars) \/ Link \/ Forward \/ Backward
             \/ (\E b \in Block : NodeMoves(b)) \/ UNCHANGED allVars
    <2>1. UNCHANGED <<log, ended, ring, tears, said, up>> /\ now' \in {now, now + 1}
      BY <1>5 DEF Tick, NodeMoves, Link, Forward, Backward, logVars, allVars
    <2>2. QED
      BY <1>1, <2>1, QuietSeen
  <1>6. QED
    BY <1>2, <1>3, <1>4, <1>5 DEF LogNext

(* An event some browser may have seen stays in the ring for the retention  *)
(* window through any number of crashes and restarts; each torn line costs  *)
(* at most two events, and hides those behind it only when it is cut inside *)
(* a character.                                                             *)
THEOREM SeenStays == LogSpec => []SeenIsKept
  <1>1. ASSUME SeenInv
        PROVE  SeenIsKept
    <2>1. SUFFICES ASSUME up
                   PROVE  Cardinality(Vanished \ Hidden) <= 2 * tears
      BY DEF SeenIsKept
    <2>2. ASSUME NEW e \in Vanished \ Hidden, NEW i \in 1..Len(log), log[i] = e
          PROVE  FALSE
      <3>1. e \in Event /\ InWindow(e) /\ \A k \in 1..Len(ring) : ring[k] # e
        BY <1>1 DEF Vanished, SeenInv, LogTyped
      <3>2. ~IsTorn(log[i]) /\ log[i].kind # "split"
        BY <2>2, <3>1, LineKinds
      <3>3. \A j \in 1..(i - 1) : log[j].kind # "split"
        BY <2>2 DEF Hidden
      <3>4. \A j \in 1..i : log[j].kind # "split"
        <4>1. i \in Nat /\ \A j \in 1..i : j = i \/ j \in 1..(i - 1)
          OBVIOUS
        <4>2. QED
          BY <3>2, <3>3, <4>1
      <3>5. i \in Kept
        BY <2>2, <3>1, <3>2, <3>4 DEF Kept, Readable
      <3>6. QED
        BY <1>1, <2>1, <2>2, <3>1, <3>5 DEF SeenInv, RingHasKept
    <2>3. Vanished \ Hidden \in SUBSET Lost
      BY <2>2 DEF Vanished, Lost
    <2>4. /\ IsFiniteSet(Lost) /\ Cardinality(Lost) \in Nat /\ tears \in Nat
          /\ Cardinality(Lost) + Owed <= 2 * tears
      BY <1>1, LostFinite DEF SeenInv, LogTyped
    <2>5. /\ Cardinality(Vanished \ Hidden) <= Cardinality(Lost)
          /\ Cardinality(Vanished \ Hidden) \in Nat
      BY <2>3, <2>4, FS_Subset, FS_CardinalityType
    <2>6. Owed \in {0, 2}
      BY DEF Owed
    <2>7. QED
      BY <2>4, <2>5, <2>6
  <1>2. SeenInv => SeenIsKept
    BY <1>1
  <1>3. QED
    BY InitSeen, StepSeen, <1>2, PTL DEF LogSpec

-----------------------------------------------------------------------------
(* What is missing.  Everything announced has its parent in the log, down to *)
(* the first block announced, because the client goes on from a point that   *)
(* is announced itself, or lies below all that is.                           *)

(* The positions of the events of a kind, and the blocks they are about. *)
Places(s, kind) == {i \in 1..Len(s) : s[i].kind = kind}
Blks(s, kind) == {s[i].blk : i \in Places(s, kind)}

(* The blocks the log or the running handler has announced. *)
Announced == Blks(log, "block") \cup Blks(batch, "block")

(* h is the height of the first announced block. *)
IsFloor(h) ==
    /\ h \in Nat \ {0}
    /\ \A i \in Places(log, "block") :
          (\A j \in Places(log, "block") : i <= j) => Height(log[i].blk) = h
    /\ Places(log, "block") = {} =>
          \A k \in Places(batch, "block") : Height(batch[k].blk) = h

(* p is one of the blocks S, or below all that S has to hold. *)
Within(S, h, p) == S = {} \/ Height(p) < h \/ p \in S

Unbroken(h) ==
    /\ IsFloor(h)
    /\ \A x \in Announced : Height(x) > h => Parent(x) \in Blks(log, "block")
    /\ pos # NoPoint => Within(Announced, h, pos)
    /\ owesRollback => Within(Announced, h, readPtr)
    /\ phase = "live" /\ pos = NoPoint /\ wire # <<>> => Within(Announced, h, wire[1].pt)
    /\ \A i \in 1..Len(recent) : recent[i] \in Announced
    /\ up /\ recent = <<>> => Announced = {}
    /\ up /\ phase \in {"query_tip", "find_tip"} => recent = <<>>

(* The transactions of a block are queued behind it, and of one block only. *)
ToldNext(bt) ==
    /\ \A k \in Places(bt, "block") :
          \E l \in Places(bt, "transaction") : k < l /\ bt[l].blk = bt[k].blk
    /\ \A k, l \in Places(bt, "transaction") : bt[k].blk = bt[l].blk

(* Blocks whose transactions are neither logged nor about to be. *)
Untold == (Blks(log, "block") \ Blks(log, "transaction")) \ Blks(batch, "transaction")

MissInv ==
    /\ SeenInv /\ WireLeads
    /\ ~up => phase = "down" /\ recent = <<>> /\ batch = <<>>
    /\ ToldNext(batch)
    /\ crashes \in Nat
    /\ tears = 0 => Cardinality(Untold) <= crashes
    /\ ~skipped /\ tears = 0 => \E h \in Nat : Unbroken(h)

LEMMA ParentOnPath ==
    ASSUME NEW t \in Block, NEW i \in 2..Len(Path[t])
    PROVE  /\ Path[t][i] \in Block /\ Height(Path[t][i]) = i
           /\ Parent(Path[t][i]) = Path[t][i - 1]
  <1>1. Len(Path[t]) \in Nat /\ i \in 1..Len(Path[t]) /\ i - 1 \in 1..i
    BY PathEnd
  <1>2. /\ Path[t][i] \in Block /\ Len(Path[Path[t][i]]) = i
        /\ \A j \in 1..i : Path[Path[t][i]][j] = Path[t][j]
    BY <1>1, PathPrefix
  <1>3. Height(Path[t][i]) = i
    BY <1>2, PathEnd
  <1>4. Parent(Path[t][i]) = Path[Path[t][i]][i - 1]
    BY <1>1, <1>2 DEF Parent
  <1>5. QED
    BY <1>1, <1>2, <1>3, <1>4

(* The ancestors of such a point are such points. *)
LEMMA AncestorWithin ==
    ASSUME NEW S \in SUBSET Block, NEW h \in Nat \ {0},
           \A x \in S : Height(x) > h => Parent(x) \in S,
           NEW p \in Point, NEW q \in Point, OnChain(q, p), Within(S, h, p)
    PROVE  Within(S, h, q)
  <1>1. CASE q = Origin
    BY <1>1 DEF Within, Height
  <1>2. CASE q # Origin /\ ~(S = {})
    <2>1. p \in Block /\ q \in Block
      BY <1>2 DEF OnChain, Point
    <2>2. PICK i \in 1..Len(Path[p]) : Path[p][i] = q
      BY <1>2 DEF OnChain
    <2> DEFINE n == Len(Path[p])
               Out == {j \in i..n : Path[p][j] \notin S}
    <2>3. n \in Nat /\ i \in Nat /\ i <= n /\ i > 0 /\ Path[p][n] = p
      BY <2>1, <2>2, PathEnd
    <2>4. Height(p) = n /\ Height(q) = i
      BY <2>1, <2>2, PathPrefix, PathEnd
    <2>5. SUFFICES ASSUME ~(i < h), q \notin S
                   PROVE  FALSE
      BY <2>4 DEF Within
    <2>6. p \in S
      <3>1. ~(Height(p) < h)
        BY <2>3, <2>4, <2>5
      <3>2. QED
        BY <1>2, <3>1 DEF Within
    <2>7. PICK j \in Out : \A m \in Out : m <= j
      <3>1. Out \in SUBSET Nat /\ (\A m \in Out : m <= n) /\ i \in Out
        BY <2>2, <2>3, <2>5
      <3> HIDE DEF Out
      <3>2. QED
        BY <2>3, <3>1, GreatestNumber
    <2>8. j \in i..n /\ Path[p][j] \notin S
      OBVIOUS
    <2>9. j # n /\ j + 1 \in 2..n /\ j + 1 \in i..n /\ (j + 1) - 1 = j
      BY <2>3, <2>6, <2>8
    <2>10. Path[p][j + 1] \in S
      BY <2>7, <2>9
    <2>11. Height(Path[p][j + 1]) = j + 1 /\ Parent(Path[p][j + 1]) = Path[p][j]
      BY <2>1, <2>9, ParentOnPath
    <2>12. j + 1 > h
      BY <2>3, <2>5, <2>8
    <2>13. QED
      BY <2>8, <2>10, <2>11, <2>12
  <1>3. CASE S = {}
    BY <1>3 DEF Within
  <1>4. QED
    BY <1>1, <1>2, <1>3

(* One event more at the end, one less at the front. *)
OneMore(s, t, e) ==
    /\ Len(s) \in Nat /\ Len(t) = Len(s) + 1
    /\ \A i \in 1..Len(s) : t[i] = s[i]
    /\ t[Len(s) + 1] = e

OneLess(s, t) ==
    /\ Len(s) \in Nat /\ Len(t) = Len(s) - 1 /\ 1 \in 1..Len(s)
    /\ \A k \in 1..Len(t) : k + 1 \in 1..Len(s) /\ t[k] = s[k + 1]

LEMMA PlacesAdded ==
    ASSUME NEW s, NEW t, NEW e, NEW kind, OneMore(s, t, e)
    PROVE  /\ Places(t, kind) = Places(s, kind) \cup
                                (IF e.kind = kind THEN {Len(s) + 1} ELSE {})
           /\ Blks(t, kind) = Blks(s, kind) \cup (IF e.kind = kind THEN {e.blk} ELSE {})
           /\ \A i \in Places(s, kind) : i <= Len(s) /\ t[i] = s[i]
  <1>1. /\ \A i \in 1..Len(s) : i \in 1..Len(t) /\ i <= Len(s)
        /\ \A i \in 1..Len(t) : i \in 1..Len(s) \/ i = Len(s) + 1
        /\ Len(s) + 1 \in 1..Len(t)
        /\ \A i \in 1..Len(s) : t[i] = s[i]
        /\ t[Len(s) + 1] = e
    BY DEF OneMore
  <1>2. Places(t, kind) = Places(s, kind) \cup (IF e.kind = kind THEN {Len(s) + 1} ELSE {})
    BY <1>1 DEF Places
  <1>3. \A i \in Places(s, kind) : i <= Len(s) /\ t[i] = s[i]
    BY <1>1 DEF Places
  <1>4. Blks(t, kind) = Blks(s, kind) \cup (IF e.kind = kind THEN {e.blk} ELSE {})
    <2>1. CASE e.kind = kind
      BY <1>1, <1>2, <1>3, <2>1 DEF Blks
    <2>2. CASE e.kind # kind
      BY <1>1, <1>2, <1>3, <2>2 DEF Blks
    <2>3. QED
      BY <2>1, <2>2
  <1>5. QED
    BY <1>2, <1>3, <1>4

LEMMA PlacesFewer ==
    ASSUME NEW s, NEW t, NEW kind, OneLess(s, t)
    PROVE  /\ Blks(s, kind) = Blks(t, kind) \cup (IF s[1].kind = kind THEN {s[1].blk} ELSE {})
           /\ \A k \in Places(t, kind) : k + 1 \in Places(s, kind) /\ t[k] = s[k + 1]
           /\ \A k \in Places(s, kind) : k > 1 => k - 1 \in Places(t, kind) /\ t[k - 1] = s[k]
  <1>0. /\ Len(s) \in Nat /\ Len(t) = Len(s) - 1 /\ 1 \in 1..Len(s)
        /\ \A k \in 1..Len(t) : k + 1 \in 1..Len(s) /\ t[k] = s[k + 1]
    BY DEF OneLess
  <1>1. \A k \in Places(t, kind) : k + 1 \in Places(s, kind) /\ t[k] = s[k + 1]
    BY <1>0 DEF Places
  <1>2. ASSUME NEW k \in Places(s, kind), k > 1
        PROVE  k - 1 \in Places(t, kind) /\ t[k - 1] = s[k]
    <2>1. k \in 1..Len(s) /\ s[k].kind = kind
      BY DEF Places
    <2>2. k - 1 \in 1..Len(t) /\ (k - 1) + 1 = k
      BY <1>0, <1>2, <2>1
    <2>3. t[k - 1] = s[k]
      BY <1>0, <2>2
    <2>4. QED
      BY <2>1, <2>2, <2>3 DEF Places
  <1>3. \A k \in Places(s, kind) : k = 1 \/ k > 1
    BY DEF Places
  <1>4. s[1].kind = kind => 1 \in Places(s, kind)
    BY <1>0 DEF Places
  <1>5. 1 \in Places(s, kind) => s[1].kind = kind
    BY DEF Places
  <1>6. Blks(s, kind) = Blks(t, kind) \cup (IF s[1].kind = kind THEN {s[1].blk} ELSE {})
    <2>1. ASSUME NEW x \in Blks(s, kind)
          PROVE  x \in Blks(t, kind) \cup (IF s[1].kind = kind THEN {s[1].blk} ELSE {})
      <3>1. PICK k \in Places(s, kind) : x = s[k].blk
        BY DEF Blks
      <3>2. CASE k = 1
        BY <1>5, <3>1, <3>2
      <3>3. CASE k > 1
        BY <1>2, <3>1, <3>3 DEF Blks
      <3>4. QED
        BY <1>3, <3>2, <3>3
    <2>2. Blks(t, kind) \subseteq Blks(s, kind)
      BY <1>1 DEF Blks
    <2>3. s[1].kind = kind => s[1].blk \in Blks(s, kind)
      BY <1>4 DEF Blks
    <2>4. QED
      BY <2>1, <2>2, <2>3
  <1>7. QED
    BY <1>1, <1>2, <1>6

(* A handler announces one block, and its transaction after it. *)
LEMMA ForwardTold ==
    ASSUME LogTyped, Forward
    PROVE  /\ ToldNext(batch')
           /\ Blks(batch', "block") = {Head(wire).pt}
           /\ Blks(batch', "orphaned_block") = {}
           /\ \A k \in Places(batch', "block") :
                 k = 1 /\ batch'[k].blk = Head(wire).pt /\ batch'[k].ts = Slot[Head(wire).pt]
  <1> DEFINE b == Head(wire).pt
             c == Draft("block", b, Slot[b])
             t == Draft("transaction", b, Slot[b])
             s == Draft("slot_battle", b, Slot[b])
  <1>1. /\ c.kind = "block" /\ c.blk = b /\ c.ts = Slot[b] /\ t.kind = "transaction" /\ t.blk = b
        /\ s.kind = "slot_battle" /\ s.blk = b
    BY DEF Draft
  <1>2. batch' = <<c, t>> \o IF BattlesOf(b) = {} THEN <<>> ELSE <<s>>
    BY DEF Forward
  <1> HIDE DEF b, c, t, s
  <1>3. PICK x \in {<<>>, <<s>>} : batch' = <<c, t>> \o x
    BY <1>2
  <1>4. /\ Len(batch') \in {2, 3} /\ batch'[1] = c /\ batch'[2] = t
        /\ Len(batch') = 3 => batch'[3] = s
    <2> DEFINE D == {c, t, s}
    <2>1. <<c, t>> \in Seq(D) /\ Len(<<c, t>>) = 2 /\ <<c, t>>[1] = c /\ <<c, t>>[2] = t
      OBVIOUS
    <2>2. x \in Seq(D) /\ Len(x) \in {0, 1} /\ (Len(x) = 1 => x[1] = s)
      <3>1. <<>> \in Seq(D) /\ Len(<<>>) = 0 /\ <<s>> \in Seq(D) /\ Len(<<s>>) = 1 /\ <<s>>[1] = s
        OBVIOUS
      <3>2. x = <<>> \/ x = <<s>>
        BY <1>3
      <3> HIDE DEF D
      <3>3. CASE x = <<>>
        BY <3>1, <3>3
      <3>4. CASE x = <<s>>
        BY <3>1, <3>4
      <3>5. QED
        BY <3>2, <3>3, <3>4
    <2> HIDE DEF D
    <2>3. /\ Len(batch') = 2 + Len(x)
          /\ \A i \in 1..2 : batch'[i] = <<c, t>>[i]
          /\ \A i \in 1..Len(x) : batch'[2 + i] = x[i]
      BY <1>3, <2>1, <2>2, ConcatProperties
    <2>4. QED
      BY <2>1, <2>2, <2>3
  <1>5. /\ Places(batch', "block") = {1} /\ Places(batch', "transaction") = {2}
        /\ Places(batch', "orphaned_block") = {}
    BY <1>1, <1>4 DEF Places
  <1>6. ToldNext(batch')
    BY <1>1, <1>4, <1>5 DEF ToldNext
  <1>7. /\ Blks(batch', "block") = {b} /\ Blks(batch', "orphaned_block") = {}
        /\ \A k \in Places(batch', "block") : k = 1 /\ batch'[k].blk = b /\ batch'[k].ts = Slot[b]
    BY <1>1, <1>4, <1>5 DEF Blks
  <1>8. QED
    BY <1>6, <1>7 DEF b

LEMMA BackwardTold ==
    ASSUME LogTyped, Backward
    PROVE  /\ Places(batch', "block") = {} /\ Blks(batch', "block") = {}
           /\ Blks(batch', "transaction") = {} /\ ToldNext(batch')
  <1>1. \A k \in 1..Len(batch') : batch'[k].kind \notin {"block", "transaction"}
    BY BackwardBatch
  <1>2. Places(batch', "block") = {} /\ Places(batch', "transaction") = {}
    BY <1>1 DEF Places
  <1>3. QED
    BY <1>2 DEF Blks, ToldNext

LEMMA NothingQueued ==
    ASSUME NEW bt, bt = <<>>
    PROVE  /\ \A kind : Places(bt, kind) = {} /\ Blks(bt, kind) = {}
           /\ ToldNext(bt)
  BY DEF Places, Blks, ToldNext

(* Only events are of these kinds, and they name blocks. *)
LEMMA BlksTyped ==
    ASSUME LogTyped, NEW kind \in Kind
    PROVE  /\ Len(log) \in Nat /\ Len(batch) \in Nat
           /\ \A i \in Places(log, kind) : i \in 1..Len(log) /\ log[i].blk \in Block
           /\ \A k \in Places(batch, kind) : k \in 1..Len(batch) /\ batch[k].blk \in Block
           /\ Blks(log, kind) \subseteq Block /\ Blks(batch, kind) \subseteq Block
           /\ IsFiniteSet(Blks(log, kind))
  <1>1. /\ log \in Seq(Line) /\ Len(log) \in Nat /\ batch \in Seq(DraftEvent)
        /\ Len(batch) \in Nat
    BY LenProperties DEF LogTyped
  <1>2. ASSUME NEW i \in Places(log, kind)
        PROVE  i \in 1..Len(log) /\ log[i].blk \in Block
    <2>1. i \in 1..Len(log) /\ log[i].kind \in Kind
      BY DEF Places
    <2>2. log[i] \in Line
      BY <1>1, <2>1, ElementOfSeq
    <2>3. ~IsTorn(log[i])
      BY <2>1 DEF IsTorn, Kind
    <2>4. QED
      BY <2>1, <2>2, <2>3, LineKinds
  <1>3. ASSUME NEW k \in Places(batch, kind)
        PROVE  k \in 1..Len(batch) /\ batch[k].blk \in Block
    <2>1. k \in 1..Len(batch)
      BY DEF Places
    <2>2. batch[k] \in DraftEvent
      BY <1>1, <2>1, ElementOfSeq
    <2>3. QED
      BY <2>1, <2>2 DEF DraftEvent
  <1>4. Blks(log, kind) \subseteq Block /\ Blks(batch, kind) \subseteq Block
    BY <1>2, <1>3 DEF Blks
  <1>5. IsFiniteSet(Blks(log, kind))
    <2> DEFINE P == Places(log, kind)
               f == [i \in P |-> log[i].blk]
    <2>1. IsFiniteSet(P)
      <3>1. IsFiniteSet(1..Len(log)) /\ P \subseteq 1..Len(log)
        BY <1>1, <1>2, FS_Interval
      <3>2. QED
        BY <3>1, FS_Subset
    <2>2. f \in Surjection(P, Blks(log, kind))
      BY DEF Surjection, Blks
    <2>3. QED
      BY <2>1, <2>2, FS_Surjection
  <1>6. QED
    BY <1>1, <1>2, <1>3, <1>4, <1>5

(* Without an unfinished line the log only grows. *)
LEMMA NoTearNoGap ==
    ASSUME SeenInv, tears = 0
    PROVE  ended
  <1>1. Cardinality(Lost) \in Nat /\ Cardinality(Lost) + Owed <= 0
    BY LostFinite DEF SeenInv, LogTyped
  <1>2. Owed \in {0, 2}
    BY DEF Owed
  <1>3. Owed = 0
    BY <1>1, <1>2
  <1>4. QED
    BY <1>3 DEF Owed

(* What is left of the queue when the first event is taken. *)
LEMMA QueueShorter ==
    ASSUME LogTyped, batch # <<>>
    PROVE  LET d == Head(batch)
               r == Tail(batch)
           IN  /\ d = batch[1] /\ 1 \in 1..Len(batch)
               /\ \A kind : Blks(batch, kind) = Blks(r, kind) \cup
                                                (IF d.kind = kind THEN {d.blk} ELSE {})
               /\ \A kind : \A k \in Places(r, kind) :
                     k + 1 \in Places(batch, kind) /\ r[k] = batch[k + 1]
               /\ ToldNext(batch) => ToldNext(r)
  <1> DEFINE d == Head(batch)
             r == Tail(batch)
  <1>1. /\ d = batch[1] /\ 1 \in 1..Len(batch) /\ Len(r) = Len(batch) - 1
        /\ \A k \in 1..Len(r) : k + 1 \in 1..Len(batch) /\ r[k] = batch[k + 1]
    BY StampedFacts
  <1>2. Len(batch) \in Nat
    BY LenProperties DEF LogTyped
  <1> HIDE DEF r
  <1>3. ASSUME NEW kind
        PROVE  /\ Blks(batch, kind) = Blks(r, kind) \cup (IF d.kind = kind THEN {d.blk} ELSE {})
               /\ \A k \in Places(r, kind) : k + 1 \in Places(batch, kind) /\ r[k] = batch[k + 1]
               /\ \A k \in Places(batch, kind) :
                     k > 1 => k - 1 \in Places(r, kind) /\ r[k - 1] = batch[k]
    <2>1. OneLess(batch, r)
      BY <1>1, <1>2 DEF OneLess
    <2>2. /\ Blks(batch, kind) = Blks(r, kind) \cup
                                 (IF batch[1].kind = kind THEN {batch[1].blk} ELSE {})
          /\ \A k \in Places(r, kind) : k + 1 \in Places(batch, kind) /\ r[k] = batch[k + 1]
          /\ \A k \in Places(batch, kind) :
                k > 1 => k - 1 \in Places(r, kind) /\ r[k - 1] = batch[k]
      BY ONLY <2>1, PlacesFewer, SMTT(30)
    <2>3. QED
      BY <1>1, <2>2, Zenon
  <1>4. ASSUME ToldNext(batch)
        PROVE  ToldNext(r)
    <2>1. ASSUME NEW k \in Places(r, "block")
          PROVE  \E l \in Places(r, "transaction") : k < l /\ r[l].blk = r[k].blk
      <3>1. k \in Nat \ {0} /\ k + 1 \in Places(batch, "block") /\ r[k] = batch[k + 1]
        <4>1. k \in Nat \ {0}
          BY DEF Places
        <4>2. QED
          BY <1>3, <4>1
      <3>2. PICK l \in Places(batch, "transaction") : k + 1 < l /\ batch[l].blk = batch[k + 1].blk
        BY <1>4, <3>1 DEF ToldNext
      <3>3. l \in Nat /\ l > 1
        BY <3>1, <3>2 DEF Places
      <3>4. l - 1 \in Places(r, "transaction") /\ r[l - 1] = batch[l]
        BY <1>3, <3>3
      <3>5. QED
        BY <3>1, <3>2, <3>3, <3>4
    <2>2. \A k, l \in Places(r, "transaction") : r[k].blk = r[l].blk
      BY <1>3, <1>4 DEF ToldNext
    <2>3. QED
      BY <2>1, <2>2 DEF ToldNext
  <1>5. QED
    BY <1>1, <1>3, <1>4 DEF r

(* The next event goes from the queue to the log. *)
LEMMA LogGrows ==
    ASSUME LogTyped, ended, batch # <<>>, log' = Written(Stamped(Head(batch)))
    PROVE  LET d == Head(batch)
               n == Len(log) + 1
           IN  /\ log'[n].blk = d.blk
               /\ \A kind : /\ Places(log', kind) = Places(log, kind) \cup
                                                    (IF d.kind = kind THEN {n} ELSE {})
                            /\ Blks(log', kind) = Blks(log, kind) \cup
                                                  (IF d.kind = kind THEN {d.blk} ELSE {})
                            /\ \A i \in Places(log, kind) : i < n /\ log'[i] = log[i]
  <1> DEFINE d == Head(batch)
             e == Stamped(d)
             n == Len(log) + 1
  <1>1. e \in Line /\ e.kind = d.kind /\ e.blk = d.blk
    BY StampedFacts DEF Line
  <1> HIDE DEF e
  <1>2. /\ Len(log) \in Nat /\ Len(log') = Len(log) + 1 /\ log'[n] = e
        /\ \A i \in 1..Len(log) : log'[i] = log[i]
    <2>1. log' = Written(e)
      BY DEF e
    <2>2. QED
      BY <1>1, <2>1, WrittenFacts DEF LogTyped
  <1>3. ASSUME NEW kind
        PROVE  /\ Places(log', kind) = Places(log, kind) \cup (IF d.kind = kind THEN {n} ELSE {})
               /\ Blks(log', kind) = Blks(log, kind) \cup (IF d.kind = kind THEN {d.blk} ELSE {})
               /\ \A i \in Places(log, kind) : i < n /\ log'[i] = log[i]
    <2>1. /\ Places(log', kind) = Places(log, kind) \cup
                                  (IF e.kind = kind THEN {Len(log) + 1} ELSE {})
          /\ Blks(log', kind) = Blks(log, kind) \cup (IF e.kind = kind THEN {e.blk} ELSE {})
          /\ \A i \in Places(log, kind) : i <= Len(log) /\ log'[i] = log[i]
      <3>1. OneMore(log, log', e)
        BY <1>2 DEF OneMore
      <3>2. QED
        BY <3>1, PlacesAdded
    <2>2. \A i \in Places(log, kind) : i < n
      BY <1>2, <2>1 DEF Places
    <2>3. QED
      BY <1>1, <2>1, <2>2
  <1>4. log'[n].blk = d.blk
    BY <1>1, <1>2
  <1>5. QED
    BY <1>2, <1>3, <1>4

LEMMA ParentHeight ==
    ASSUME NEW b \in Block
    PROVE  /\ Height(b) \in Nat \ {0} /\ Height(Parent(b)) \in Nat
           /\ Height(b) = Height(Parent(b)) + 1
  <1> DEFINE n == Len(Path[b])
  <1>1. n \in Nat /\ n > 0 /\ Height(b) = n
    BY PathEnd
  <1>2. CASE n = 1
    BY <1>1, <1>2 DEF Parent, Height
  <1>3. CASE n # 1
    <2>1. n - 1 \in 1..n /\ Parent(b) = Path[b][n - 1]
      <3>1. Parent(b) = Path[b][n - 1]
        BY <1>3 DEF Parent
      <3> HIDE DEF n
      <3>2. n - 1 \in 1..n
        BY <1>1, <1>3
      <3>3. QED
        BY <3>1, <3>2
    <2>2. Path[b][n - 1] \in Block /\ Len(Path[Path[b][n - 1]]) = n - 1
      BY <2>1, PathPrefix
    <2>3. Height(Path[b][n - 1]) = n - 1
      BY <2>2, PathEnd
    <2>4. QED
      BY <1>1, <2>1, <2>3
  <1>4. QED
    BY <1>2, <1>3

(* The first block stays the first, published or not. *)
LEMMA FloorStays ==
    ASSUME LogTyped, ended, batch # <<>>, log' = Written(Stamped(Head(batch))),
           batch' \in {Tail(batch), <<>>}, NEW h, IsFloor(h)
    PROVE  IsFloor(h)'
  <1> DEFINE d == Head(batch)
             n == Len(log) + 1
             B == Places(log, "block")
             C == Places(log', "block")
  <1>1. /\ d = batch[1] /\ 1 \in 1..Len(batch) /\ n \in Nat /\ log'[n].blk = d.blk
        /\ C = B \cup (IF d.kind = "block" THEN {n} ELSE {})
        /\ \A i \in B : i < n /\ log'[i] = log[i]
        /\ \A k \in Places(Tail(batch), "block") :
              k + 1 \in Places(batch, "block") /\ Tail(batch)[k] = batch[k + 1]
    <2>1. n \in Nat
      BY LenProperties DEF LogTyped
    <2>2. QED
      BY <2>1, QueueShorter, LogGrows, Zenon
  <1>2. \A i \in B : i \in Nat
    BY DEF Places
  <1>3. d.kind = "block" => 1 \in Places(batch, "block")
    BY <1>1 DEF Places
  <1>4. /\ h \in Nat \ {0}
        /\ \A i \in B : (\A j \in B : i <= j) => Height(log[i].blk) = h
        /\ B = {} => \A k \in Places(batch, "block") : Height(batch[k].blk) = h
    BY DEF IsFloor
  <1>5. Places(<<>>, "block") = {}
    BY DEF Places
  <1> HIDE DEF B, C, n
  <1>6. ASSUME NEW i \in C, \A j \in C : i <= j
        PROVE  Height(log'[i].blk) = h
    <2>1. CASE B = {}
      <3>1. i = n /\ d.kind = "block"
        BY <1>1, <2>1
      <3>2. log'[i].blk = batch[1].blk /\ Height(batch[1].blk) = h
        BY <1>1, <1>3, <1>4, <2>1, <3>1
      <3>3. QED
        BY <3>2
    <2>2. CASE B # {}
      <3>1. PICK j \in B : TRUE
        BY <2>2
      <3>2. j < n /\ i <= j /\ j \in Nat
        BY <1>1, <1>2, <1>6, <3>1
      <3>3. i # n
        BY <1>1, <3>2
      <3>4. i \in B /\ log'[i] = log[i]
        BY <1>1, <3>3
      <3>5. \A m \in B : i <= m
        BY <1>1, <1>6
      <3>6. QED
        BY <1>4, <3>4, <3>5
    <2>3. QED
      BY <2>1, <2>2
  <1>7. ASSUME C = {}, NEW k \in Places(batch', "block")
        PROVE  Height(batch'[k].blk) = h
    <2>1. batch' = Tail(batch) /\ B = {}
      BY <1>1, <1>5, <1>7
    <2>2. QED
      BY <1>1, <1>4, <2>1
  <1>8. QED
    BY <1>4, <1>6, <1>7 DEF IsFloor, C

(* Steps that neither announce nor publish anything. *)
LEMMA QuietTold ==
    ASSUME MissInv, SeenInv', WireLeads',
           UNCHANGED <<log, batch, up, crashes, tears>>,
           ~up' => phase' = "down" /\ recent' = <<>> /\ batch' = <<>>,
           ~skipped' /\ tears' = 0 => \E h \in Nat : Unbroken(h)'
    PROVE  MissInv'
  <1>1. Untold' = Untold
    BY DEF Untold, Blks, Places
  <1>2. ToldNext(batch')
    BY DEF MissInv
  <1>3. crashes' \in Nat /\ (tears' = 0 => Cardinality(Untold') <= crashes')
    BY <1>1 DEF MissInv
  <1>4. QED
    BY <1>2, <1>3 DEF MissInv

LEMMA IdleMiss ==
    ASSUME MissInv, SeenInv', Tick \/ (\E b \in Block : NodeMoves(b)) \/ UNCHANGED allVars
    PROVE  MissInv'
  <1>1. /\ UNCHANGED <<log, batch, up, crashes, tears, skipped>>
        /\ UNCHANGED <<phase, wire, readPtr, pos, recent, owesRollback>>
    <2>1. CASE Tick
      BY <2>1 DEF Tick, vars, linkVars, stateVars
    <2>2. CASE \E b \in Block : NodeMoves(b)
      BY <2>2 DEF NodeMoves, Extend, Reorg, logVars, linkVars, stateVars
    <2>3. CASE UNCHANGED allVars
      BY <2>3 DEF allVars, logVars, vars, linkVars, stateVars
    <2>4. QED
      BY <2>1, <2>2, <2>3
  <1>2. WireLeads'
    BY <1>1 DEF MissInv, WireLeads
  <1>3. Announced' = Announced
    BY <1>1 DEF Announced
  <1>4. ASSUME NEW h, Unbroken(h)
        PROVE  Unbroken(h)'
    <2>1. IsFloor(h)'
      BY <1>1, <1>4 DEF Unbroken, IsFloor
    <2>2. QED
      BY <1>1, <1>3, <1>4, <2>1 DEF Unbroken
  <1>5. QED
    BY <1>1, <1>2, <1>4, QuietTold DEF MissInv

(* What the invariant says of the announced blocks. *)
LEMMA AnnouncedFacts ==
    ASSUME LogTyped, NEW h, Unbroken(h)
    PROVE  /\ Announced \in SUBSET Block /\ h \in Nat \ {0}
           /\ \A x \in Announced : Height(x) > h => Parent(x) \in Announced
           /\ \A p \in Point, q \in Point :
                 OnChain(q, p) /\ Within(Announced, h, p) => Within(Announced, h, q)
  <1>1. Announced \in SUBSET Block
    <2>1. "block" \in Kind
      BY DEF Kind
    <2>2. QED
      BY <2>1, BlksTyped DEF Announced
  <1>2. h \in Nat \ {0} /\ \A x \in Announced : Height(x) > h => Parent(x) \in Announced
    BY DEF Unbroken, IsFloor, Announced
  <1>3. QED
    BY <1>1, <1>2, AncestorWithin

LEMMA ServeMiss ==
    ASSUME MissInv, SeenInv', Serve, UNCHANGED logVars
    PROVE  MissInv'
  <1>1. LogTyped /\ TypeOK /\ WireLeads
    BY DEF MissInv, SeenInv, LogTyped
  <1>2. UNCHANGED <<log, batch, up, crashes, tears, skipped>>
    BY DEF logVars
  <1>3. PICK m \in Message : Answer(m)
    BY <1>1, AnswerFacts
  <1>4. WireLeads' /\ wire' # <<>> /\ wire'[1] = IF wire = <<>> THEN m ELSE wire[1]
    BY <1>1, <1>3, AnswerLeads
  <1>5. /\ UNCHANGED <<phase, pos, recent>> /\ ~owesRollback'
        /\ owesRollback => OnChain(m.pt, readPtr)
        /\ ~owesRollback => wire # <<>> \/ pos # NoPoint
    BY <1>3 DEF Answer
  <1>6. m.pt \in Point /\ readPtr \in Point
    BY <1>1 DEF Message, Point, TypeOK
  <1>7. Announced' = Announced
    BY <1>2 DEF Announced
  <1>8. ASSUME NEW h, Unbroken(h)
        PROVE  Unbroken(h)'
    <2>1. IsFloor(h)'
      BY <1>2, <1>8 DEF Unbroken, IsFloor
    <2>2. phase = "live" /\ pos = NoPoint => Within(Announced, h, wire'[1].pt)
      <3>1. CASE wire # <<>>
        BY <1>4, <1>8, <3>1 DEF Unbroken
      <3>2. CASE wire = <<>> /\ pos = NoPoint
        <4>1. OnChain(m.pt, readPtr) /\ Within(Announced, h, readPtr)
          BY <1>5, <1>8, <3>2 DEF Unbroken
        <4>2. Within(Announced, h, m.pt)
          BY <1>1, <1>6, <1>8, <4>1, AnnouncedFacts
        <4>3. QED
          BY <1>4, <3>2, <4>2
      <3>3. QED
        BY <3>1, <3>2
    <2>3. QED
      BY <1>2, <1>5, <1>7, <1>8, <2>1, <2>2 DEF Unbroken
  <1>9. QED
    BY <1>2, <1>4, <1>5, <1>8, QuietTold DEF MissInv

LEMMA LinkMiss ==
    ASSUME MissInv, SeenInv', Link
    PROVE  MissInv'
  <1>1. LogTyped /\ TypeOK /\ WireLeads
    BY DEF MissInv, SeenInv, LogTyped
  <1>2. UNCHANGED <<log, batch, up, crashes, tears>> /\ up
    BY DEF Link
  <1>3. /\ Drop \/ Connect \/ FindByPoints \/ QueryTip \/ FindByTip \/ FindNone
        /\ FindNone \/ UNCHANGED skipped
        /\ ~skipped' => ~skipped /\ (Drop \/ Connect \/ FindByPoints \/ QueryTip \/ FindByTip)
    BY DEF Link
  <1>4. /\ WireLeads' /\ wire' = <<>> /\ pos' = NoPoint
        /\ Connect \/ Drop \/ FindNone \/ QueryTip => phase' # "live" /\ ~owesRollback'
    BY <1>1, <1>3, LinkLeads
  <1>5. UNCHANGED recent
    BY <1>3 DEF Drop, Connect, FindByPoints, QueryTip, FindByTip, FindNone, stateVars
  <1>6. Announced' = Announced
    BY <1>2 DEF Announced
  <1>7. ASSUME NEW h, Unbroken(h), ~skipped'
        PROVE  Unbroken(h)'
    <2>1. IsFloor(h)'
      BY <1>2, <1>7 DEF Unbroken, IsFloor
    <2>2. owesRollback' => Within(Announced, h, readPtr')
      <3>1. CASE FindByPoints
        <4>1. PICK i \in ResumeIndex : readPtr' = recent[i]
          BY <3>1 DEF FindByPoints, Attach
        <4>2. i \in 1..Len(recent)
          BY DEF ResumeIndex
        <4>3. readPtr' \in Announced
          BY <1>7, <4>1, <4>2 DEF Unbroken
        <4>4. QED
          BY <4>3 DEF Within
      <3>2. CASE FindByTip
        <4>1. recent = <<>>
          BY <1>2, <1>7, <3>2 DEF FindByTip, Unbroken
        <4>2. Announced = {}
          BY <1>2, <1>7, <4>1 DEF Unbroken
        <4>3. QED
          BY <4>2 DEF Within
      <3>3. QED
        BY <1>3, <1>4, <1>7, <3>1, <3>2
    <2>3. phase' \in {"query_tip", "find_tip"} => recent = <<>>
      <3>1. CASE Drop \/ FindByPoints \/ FindByTip
        BY <3>1 DEF Drop, FindByPoints, FindByTip, Attach
      <3>2. CASE Connect
        BY <3>2 DEF Connect
      <3>3. CASE QueryTip
        BY <1>2, <1>7, <3>3 DEF QueryTip, Unbroken
      <3>4. QED
        BY <1>3, <1>7, <3>1, <3>2, <3>3
    <2>4. QED
      BY <1>2, <1>4, <1>5, <1>6, <1>7, <2>1, <2>2, <2>3 DEF Unbroken
  <1>8. QED
    BY <1>2, <1>3, <1>4, <1>7, QuietTold DEF MissInv

(* What is restored was logged. *)
LEMMA RestoredAnnounced ==
    ASSUME LogTyped
    PROVE  \A i \in 1..Len(RestoredBlocks(Kept)) : RestoredBlocks(Kept)[i] \in Blks(log, "block")
  <1> DEFINE B == Blks(log, "block")
             s == [i \in Kept |-> log[i].blk]
             P == InBackfill(Kept)
             r == RestoredBlocks(Kept)
  <1>1. Len(log) \in Nat /\ Kept \in SUBSET (0..Len(log)) /\ Kept \in SUBSET (1..Len(log))
    BY KeptFacts
  <1>2. P \in SUBSET Kept /\ P \in SUBSET (0..Len(log))
    BY <1>1 DEF InBackfill
  <1>3. \A i \in P : s[i] \in B
    BY <1>1, <1>2 DEF InBackfill, Blks, Places
  <1> HIDE DEF B
  <1>4. Subsequence(s, P) \in Seq(B)
    BY <1>1, <1>2, <1>3, SubsequenceFacts
  <1>5. LastN(Subsequence(s, P), RecentCap) \in Seq(B)
    BY <1>4, CapAssumption, LastNBounded
  <1>6. r = IF Backfill = 0 THEN <<>> ELSE LastN(Subsequence(s, P), RecentCap)
    BY DEF RestoredBlocks
  <1>7. r \in Seq(B)
    BY <1>5, <1>6, EmptySeq
  <1>8. QED
    BY <1>7, ElementOfSeq DEF B

LEMMA BootMiss ==
    ASSUME MissInv, SeenInv', Boot
    PROVE  MissInv'
  <1>1. LogTyped /\ WireLeads /\ ~up
    BY DEF MissInv, SeenInv, Boot
  <1>2. /\ up' = TRUE /\ recent' = RestoredBlocks(Kept)
        /\ UNCHANGED <<log, batch, tears>> /\ UNCHANGED <<readPtr, owesRollback, phase, wire, pos>>
    BY <1>1, BootFacts
  <1>3. UNCHANGED crashes
    BY DEF Boot
  <1>4. phase = "down" /\ batch = <<>>
    BY <1>1 DEF MissInv
  <1>5. WireLeads' /\ pos = NoPoint /\ ~owesRollback
    <2>1. pos = NoPoint /\ ~owesRollback
      BY <1>1, <1>4 DEF WireLeads
    <2>2. WireLeads'
      BY <1>1, <1>2 DEF WireLeads
    <2>3. QED
      BY <2>1, <2>2
  <1>6. Untold' = Untold /\ Announced' = Announced /\ Announced = Blks(log, "block")
    BY <1>2, <1>4, NothingQueued DEF Untold, Blks, Places, Announced
  <1>7. ~skipped' => ~skipped /\ (recent' = <<>> => LoggedBlocks = {})
    BY DEF Boot
  <1>8. LoggedBlocks = Announced
    BY <1>6 DEF LoggedBlocks, Blks, Places
  <1>9. \A i \in 1..Len(recent') : recent'[i] \in Announced
    BY <1>1, <1>2, <1>6, RestoredAnnounced
  <1>10. ASSUME NEW h, Unbroken(h), ~skipped'
         PROVE  Unbroken(h)'
    <2>1. IsFloor(h)'
      BY <1>2, <1>10 DEF Unbroken, IsFloor
    <2>2. \A x \in Announced : Height(x) > h => Parent(x) \in Blks(log, "block")
      BY <1>10 DEF Unbroken
    <2>3. QED
      BY <1>2, <1>4, <1>5, <1>6, <1>7, <1>8, <1>9, <1>10, <2>1, <2>2 DEF Unbroken
  <1>11. ToldNext(batch')
    BY <1>2 DEF MissInv
  <1>12. QED
    BY <1>2, <1>3, <1>5, <1>6, <1>7, <1>10, <1>11 DEF MissInv

(* A block is handled: its parent is where the client stood. *)
LEMMA ForwardMiss ==
    ASSUME MissInv, SeenInv', Forward
    PROVE  MissInv'
  <1> DEFINE b == wire[1].pt
  <1>1. LogTyped /\ TypeOK /\ WireLeads
    BY DEF MissInv, SeenInv, LogTyped
  <1>2. UNCHANGED <<log, up, crashes, tears, skipped>> /\ up /\ batch = <<>> /\ HandleForward
    BY DEF Forward
  <1>3. /\ WireLeads' /\ Head(wire).pt = b /\ phase = "live" /\ phase' = phase /\ pos' = b
        /\ pos' # NoPoint /\ ~owesRollback' /\ b \in Block /\ pos # NoPoint /\ Parent(b) = pos
    BY <1>1, <1>2, HandlerLeads
  <1> HIDE DEF b
  <1>4. /\ ToldNext(batch') /\ Blks(batch', "block") = {b}
        /\ \A k \in Places(batch', "block") : batch'[k].blk = b
    BY <1>1, <1>3, ForwardTold
  <1>5. /\ Announced = Blks(log, "block") /\ Announced' = Announced \cup {b}
        /\ Blks(log', "block") = Blks(log, "block")
    BY <1>2, <1>4, NothingQueued DEF Announced
  <1>6. /\ recent' # <<>>
        /\ \A i \in 1..Len(recent') : recent'[i] = b \/ \E j \in 1..Len(recent) : recent'[i] = recent[j]
    <2>1. recent' = Noted(b)
      BY <1>2, <1>3 DEF HandleForward
    <2>2. PICK d \in 0..Len(recent) :
             /\ Len(Noted(b)) = Len(recent) - d + 1
             /\ \A i \in 1..(Len(recent) - d) : Noted(b)[i] = recent[i + d]
             /\ Noted(b)[Len(recent) - d + 1] = b
      BY <1>1, <1>3, NotedElements
    <2>3. Len(recent) \in Nat /\ recent' # <<>>
      <3>1. Len(recent) \in Nat
        BY <1>1, LenProperties DEF TypeOK
      <3>2. Len(Noted(b)) # 0
        BY <2>2, <3>1
      <3>3. QED
        BY <2>1, <3>1, <3>2, EmptySeq
    <2>4. ASSUME NEW i \in 1..Len(recent')
          PROVE  recent'[i] = b \/ \E j \in 1..Len(recent) : recent'[i] = recent[j]
      <3>1. i = Len(recent) - d + 1 \/ (i \in 1..(Len(recent) - d) /\ i + d \in 1..Len(recent))
        <4> DEFINE m == Len(recent)
        <4>1. m \in Nat /\ i \in 1..(m - d + 1) /\ d \in 0..m
          BY <2>1, <2>2, <2>3
        <4> HIDE DEF m
        <4>2. i = m - d + 1 \/ (i \in 1..(m - d) /\ i + d \in 1..m)
          BY <4>1
        <4>3. QED
          BY <4>2 DEF m
      <3>2. QED
        BY <2>1, <2>2, <3>1
    <2>5. QED
      BY <2>3, <2>4
  <1>7. ASSUME NEW h \in Nat, Unbroken(h)
        PROVE  \E g \in Nat : Unbroken(g)'
    <2>1. /\ Height(b) \in Nat \ {0} /\ Height(pos) \in Nat /\ Height(b) = Height(pos) + 1
      BY <1>3, ParentHeight
    <2>2. PICK g \in Nat \ {0} : /\ h \in Nat \ {0}
                                 /\ g = IF Announced = {} THEN Height(b) ELSE h
      BY <1>7, <2>1 DEF Unbroken, IsFloor
    <2>3. IsFloor(g)'
      <3>1. Announced = {} <=> Places(log, "block") = {}
        BY <1>5 DEF Blks
      <3>2. \A i \in Places(log, "block") :
               (\A j \in Places(log, "block") : i <= j) => Height(log[i].blk) = h
        BY <1>7 DEF Unbroken, IsFloor
      <3>3. Places(log', "block") = Places(log, "block")
        BY <1>2
      <3>4. Places(log, "block") = {} =>
               \A k \in Places(batch', "block") : Height(batch'[k].blk) = g
        BY <1>4, <2>2, <3>1
      <3>5. \A i \in Places(log, "block") :
               (\A j \in Places(log, "block") : i <= j) => Height(log[i].blk) = g
        BY <2>2, <3>1, <3>2
      <3>6. QED
        BY <1>2, <2>2, <3>3, <3>4, <3>5 DEF IsFloor
    <2>4. ASSUME NEW x \in Announced', Height(x) > g
          PROVE  Parent(x) \in Blks(log', "block")
      <3>1. CASE x \in Announced
        <4>1. g = h
          BY <2>2, <3>1
        <4>2. QED
          BY <1>5, <1>7, <2>4, <3>1, <4>1 DEF Unbroken
      <3>2. CASE x = b
        <4>1. Announced # {} /\ g = h
          BY <2>1, <2>2, <2>4, <3>2
        <4>2. ~(Height(pos) < h)
          BY <2>1, <2>2, <2>4, <3>2, <4>1
        <4>3. pos \in Announced
          BY <1>3, <1>7, <4>1, <4>2 DEF Unbroken, Within
        <4>4. QED
          BY <1>3, <1>5, <3>2, <4>3
      <3>3. QED
        BY <1>5, <2>4, <3>1, <3>2
    <2>5. Within(Announced', g, pos')
      BY <1>3, <1>5 DEF Within
    <2>6. \A i \in 1..Len(recent') : recent'[i] \in Announced'
      BY <1>5, <1>6, <1>7 DEF Unbroken
    <2>7. Unbroken(g)'
      BY <1>3, <1>6, <2>3, <2>4, <2>5, <2>6 DEF Unbroken
    <2>8. QED
      BY <2>2, <2>7
  <1>8. Cardinality(Untold') <= Cardinality(Untold) /\ Cardinality(Untold) \in Nat
        /\ Cardinality(Untold') \in Nat
    <2>1. "block" \in Kind
      BY DEF Kind
    <2>2. IsFiniteSet(Blks(log, "block"))
      BY <1>1, <2>1, BlksTyped
    <2>3. Untold \subseteq Blks(log, "block") /\ Untold' \subseteq Untold
      BY <1>2, NothingQueued DEF Untold
    <2>4. QED
      BY <2>2, <2>3, FS_Subset, FS_CardinalityType
  <1>9. crashes' \in Nat /\ (tears' = 0 => Cardinality(Untold') <= crashes')
    <2>1. crashes \in Nat /\ (tears = 0 => Cardinality(Untold) <= crashes)
      BY DEF MissInv
    <2>2. QED
      BY <1>2, <1>8, <2>1
  <1>10. QED
    BY <1>2, <1>3, <1>4, <1>7, <1>9 DEF MissInv

(* A rollback is handled: its point is the first of the connection, or an *)
(* ancestor of where the client stood.                                    *)
LEMMA BackwardMiss ==
    ASSUME MissInv, SeenInv', Backward
    PROVE  MissInv'
  <1> DEFINE q == wire[1].pt
  <1>1. LogTyped /\ TypeOK /\ WireLeads
    BY DEF MissInv, SeenInv, LogTyped
  <1>2. UNCHANGED <<log, up, crashes, tears>> /\ up /\ batch = <<>> /\ HandleBackward
    BY DEF Backward
  <1>3. /\ WireLeads' /\ Head(wire).pt = q /\ phase = "live" /\ phase' = phase /\ pos' = q
        /\ pos' # NoPoint /\ ~owesRollback' /\ q \in Point /\ wire # <<>>
        /\ pos # NoPoint => OnChain(q, pos)
    BY <1>1, <1>2, HandlerLeads
  <1> HIDE DEF q
  <1>4. /\ Places(batch', "block") = {} /\ Blks(batch', "block") = {}
        /\ Blks(batch', "transaction") = {} /\ ToldNext(batch')
    BY <1>1, BackwardTold
  <1>5. /\ Announced = Blks(log, "block") /\ Announced' = Announced
        /\ Blks(log', "block") = Blks(log, "block") /\ Untold' = Untold
    BY <1>2, <1>4, NothingQueued DEF Announced, Untold
  <1>6. \A i \in 1..Len(recent') : i \in 1..Len(recent) /\ recent'[i] = recent[i]
    <2>1. CASE recent' = recent
      BY <2>1
    <2>2. CASE recent' # recent
      <3>1. PICK n \in 0..Len(recent) : recent' = SubSeq(recent, 1, n)
        BY <1>2, <2>2, Zenon DEF HandleBackward
      <3>2. recent \in Seq(Block) /\ Len(recent) \in Nat
        BY <1>1, LenProperties DEF TypeOK
      <3>3. Len(recent') = n /\ \A i \in 1..n : recent'[i] = recent[i] /\ i \in 1..Len(recent)
        BY <3>1, <3>2
      <3>4. QED
        BY <3>3
    <2>3. QED
      BY <2>1, <2>2
  <1>7. ~skipped' => ~skipped /\ (recent' = <<>> => recent = <<>>)
    BY Zenon DEF Backward
  <1>8. ASSUME NEW h, Unbroken(h), ~skipped'
        PROVE  Unbroken(h)'
    <2>1. IsFloor(h)'
      BY <1>2, <1>4, <1>8 DEF Unbroken, IsFloor
    <2>2. Within(Announced, h, q)
      <3>1. CASE pos = NoPoint
        BY <1>3, <1>8, <3>1 DEF Unbroken, q
      <3>2. CASE pos # NoPoint
        <4>1. pos \in Point
          BY <1>1, <3>2 DEF TypeOK
        <4>2. OnChain(q, pos) /\ Within(Announced, h, pos)
          BY <1>3, <1>8, <3>2 DEF Unbroken
        <4>3. QED
          BY <1>1, <1>3, <1>8, <4>1, <4>2, AnnouncedFacts
      <3>3. QED
        BY <3>1, <3>2
    <2>3. recent' = <<>> => Announced = {}
      BY <1>2, <1>7, <1>8 DEF Unbroken
    <2>4. \A i \in 1..Len(recent') : recent'[i] \in Announced
      BY <1>6, <1>8 DEF Unbroken
    <2>5. QED
      BY <1>3, <1>5, <1>8, <2>1, <2>2, <2>3, <2>4 DEF Unbroken
  <1>9. crashes' \in Nat /\ (tears' = 0 => Cardinality(Untold') <= crashes')
    BY <1>2, <1>5 DEF MissInv
  <1>10. QED
    BY <1>2, <1>3, <1>4, <1>7, <1>8, <1>9 DEF MissInv

LEMMA PublishMiss ==
    ASSUME MissInv, SeenInv', Publish
    PROVE  MissInv'
  <1> DEFINE d == Head(batch)
             r == Tail(batch)
  <1>1. LogTyped /\ WireLeads /\ ToldNext(batch) /\ crashes \in Nat
    BY DEF MissInv, SeenInv
  <1>2. /\ up /\ batch # <<>> /\ log' = Written(Stamped(Head(batch))) /\ batch' = Tail(batch)
        /\ UNCHANGED <<up, crashes, tears, skipped>>
        /\ UNCHANGED <<phase, wire, readPtr, pos, recent, owesRollback>>
    BY DEF Publish, vars, linkVars, stateVars
  <1>3. WireLeads'
    BY <1>1, <1>2 DEF WireLeads
  <1>4. CASE tears # 0
    <2>1. ToldNext(batch')
      BY <1>1, <1>2, QueueShorter, Zenon
    <2>2. QED
      BY <1>1, <1>2, <1>3, <1>4, <2>1 DEF MissInv
  <1>5. CASE tears = 0
    <2>1. ended
      BY <1>5, NoTearNoGap DEF MissInv
    <2>2. /\ d = batch[1] /\ 1 \in 1..Len(batch)
          /\ \A kind : Blks(log', kind) = Blks(log, kind) \cup
                                          (IF d.kind = kind THEN {d.blk} ELSE {})
          /\ \A kind : Blks(batch, kind) = Blks(r, kind) \cup
                                           (IF d.kind = kind THEN {d.blk} ELSE {})
      BY <1>1, <1>2, <2>1, QueueShorter, LogGrows, Zenon
    <2>3. ToldNext(r)
      BY <1>1, <1>2, QueueShorter, Zenon
    <2>4. Announced' = Announced
      BY <1>2, <2>2 DEF Announced
    <2>5. d.kind = "block" => d.blk \in Blks(r, "transaction")
      <3>1. SUFFICES ASSUME d.kind = "block" PROVE d.blk \in Blks(r, "transaction")
        OBVIOUS
      <3>2. 1 \in Places(batch, "block")
        BY <2>2, <3>1 DEF Places
      <3>3. PICK l \in Places(batch, "transaction") : batch[l].blk = batch[1].blk
        BY <1>1, <3>2 DEF ToldNext
      <3>4. d.blk \in Blks(batch, "transaction")
        BY <2>2, <3>3 DEF Blks
      <3>5. QED
        BY <2>2, <3>1, <3>4
    <2>6. Untold' \subseteq Untold
      BY <1>2, <2>2, <2>5 DEF Untold
    <2>7. Cardinality(Untold') <= crashes'
      <3>1. IsFiniteSet(Untold)
        <4>1. "block" \in Kind
          BY DEF Kind
        <4>2. IsFiniteSet(Blks(log, "block")) /\ Untold \subseteq Blks(log, "block")
          BY <1>1, <4>1, BlksTyped DEF Untold
        <4>3. QED
          BY <4>2, FS_Subset
      <3>2. /\ Cardinality(Untold') <= Cardinality(Untold) /\ Cardinality(Untold) \in Nat
            /\ Cardinality(Untold') \in Nat
        BY <2>6, <3>1, FS_Subset, FS_CardinalityType
      <3>3. Cardinality(Untold) <= crashes
        BY <1>5 DEF MissInv
      <3>4. QED
        BY <1>1, <1>2, <3>2, <3>3
    <2>8. ASSUME NEW h, Unbroken(h)
          PROVE  Unbroken(h)'
      <3>1. IsFloor(h)'
        BY <1>1, <1>2, <2>1, <2>8, FloorStays DEF Unbroken
      <3>2. \A x \in Announced : Height(x) > h => Parent(x) \in Blks(log', "block")
        BY <2>2, <2>8 DEF Unbroken
      <3>3. QED
        BY <1>2, <2>4, <2>8, <3>1, <3>2 DEF Unbroken
    <2>9. ~skipped' /\ tears' = 0 => \E h \in Nat : Unbroken(h)'
      BY <1>2, <2>8 DEF MissInv
    <2>10. QED
      BY <1>1, <1>2, <1>3, <2>3, <2>7, <2>9 DEF MissInv
  <1>6. QED
    BY <1>4, <1>5

(* A stop leaves the block being published, and no other, without its rest. *)
LEMMA CrashMiss ==
    ASSUME MissInv, SeenInv', Crash
    PROVE  MissInv'
  <1> DEFINE d == Head(batch)
  <1>1. LogTyped /\ ToldNext(batch) /\ crashes \in Nat /\ tears \in Nat
    BY DEF MissInv, SeenInv, LogTyped
  <1>2. /\ up' = FALSE /\ crashes' = crashes + 1 /\ batch' = <<>> /\ recent' = <<>>
        /\ phase' = "down" /\ wire' = <<>> /\ pos' = NoPoint /\ skipped' = skipped
    BY DEF Crash
  <1>3. ~owesRollback'
    BY Zenon DEF Crash
  <1>4. WireLeads'
    BY <1>2, <1>3 DEF WireLeads
  <1>5. ToldNext(batch')
    BY <1>2, NothingQueued
  <1>6. CASE tears' # 0
    BY <1>1, <1>2, <1>4, <1>5, <1>6 DEF MissInv
  <1>7. CASE tears' = 0
    <2>1. tears = 0
      BY <1>1, <1>7 DEF Crash
    <2>2. ended
      BY <2>1, NoTearNoGap DEF MissInv
    <2>3. \/ log' = log
          \/ batch # <<>> /\ log' = Written(Stamped(Head(batch)))
      BY <1>7, <2>1 DEF Crash
    <2> DEFINE Grown(kind) == Blks(log', kind) = Blks(log, kind) \cup
                                                 (IF d.kind = kind THEN {d.blk} ELSE {})
    <2>4. batch # <<>> /\ log' = Written(Stamped(Head(batch))) =>
             /\ d = batch[1] /\ 1 \in 1..Len(batch)
             /\ \A kind : Grown(kind)
      BY <1>1, <2>2, QueueShorter, LogGrows, Zenon
    <2>5. ASSUME NEW h, Unbroken(h)
          PROVE  Unbroken(h)'
      <3>1. IsFloor(h)'
        <4>1. CASE log' = log
          BY <1>2, <2>5, <4>1, NothingQueued DEF Unbroken, IsFloor
        <4>2. CASE batch # <<>> /\ log' = Written(Stamped(Head(batch)))
          BY <1>1, <1>2, <2>2, <2>5, <4>2, FloorStays DEF Unbroken
        <4>3. QED
          BY <2>3, <4>1, <4>2
      <3>2. Announced' \subseteq Announced /\ Blks(log, "block") \subseteq Blks(log', "block")
        <4>1. Announced' = Blks(log', "block")
          BY <1>2, NothingQueued DEF Announced
        <4>2. CASE log' = log
          BY <4>1, <4>2 DEF Announced
        <4>3. CASE batch # <<>> /\ log' = Written(Stamped(Head(batch)))
          <5>1. d.kind = "block" => d.blk \in Blks(batch, "block")
            BY <2>4, <4>3 DEF Blks, Places
          <5>2. QED
            BY <2>4, <4>1, <4>3, <5>1 DEF Announced
        <4>4. QED
          BY <2>3, <4>2, <4>3
      <3>3. \A x \in Announced' : Height(x) > h => Parent(x) \in Blks(log', "block")
        BY <2>5, <3>2 DEF Unbroken
      <3>4. QED
        BY <1>2, <1>3, <3>1, <3>3, EmptySeq DEF Unbroken
    <2>6. \E a : Untold' \subseteq Untold \cup {a}
      <3>1. Untold' = Blks(log', "block") \ Blks(log', "transaction")
        BY <1>2, NothingQueued DEF Untold
      <3>2. PICK a : Blks(batch, "transaction") \subseteq {a}
                     /\ (1 \in Places(batch, "block") => batch[1].blk = a)
        <4>1. CASE Places(batch, "transaction") = {}
          BY <1>1, <4>1 DEF ToldNext, Blks
        <4>2. CASE Places(batch, "transaction") # {}
          <5>1. PICK l \in Places(batch, "transaction") : TRUE
            BY <4>2
          <5>2. \A k \in Places(batch, "transaction") : batch[k].blk = batch[l].blk
            BY <1>1, <5>1 DEF ToldNext
          <5>3. 1 \in Places(batch, "block") => batch[1].blk = batch[l].blk
            BY <1>1, <5>2 DEF ToldNext
          <5>4. QED
            BY <5>2, <5>3 DEF Blks
        <4>3. QED
          BY <4>1, <4>2
      <3>3. CASE log' = log
        BY <3>1, <3>2, <3>3 DEF Untold
      <3>4. CASE batch # <<>> /\ log' = Written(Stamped(Head(batch)))
        <4>1. d.kind = "block" => d.blk = a
          BY <2>4, <3>2, <3>4 DEF Places
        <4>2. Grown("block") /\ Grown("transaction")
          BY <2>4, <3>4
        <4>3. QED
          BY <3>1, <3>2, <4>1, <4>2 DEF Untold
      <3>5. QED
        BY <2>3, <3>3, <3>4
    <2>7. Cardinality(Untold') <= crashes'
      <3>1. PICK a : Untold' \subseteq Untold \cup {a}
        BY <2>6
      <3>2. IsFiniteSet(Untold)
        <4>1. "block" \in Kind
          BY DEF Kind
        <4>2. IsFiniteSet(Blks(log, "block")) /\ Untold \subseteq Blks(log, "block")
          BY <1>1, <4>1, BlksTyped DEF Untold
        <4>3. QED
          BY <4>2, FS_Subset
      <3>3. IsFiniteSet(Untold')
        BY <3>1, <3>2, FS_AddElement, FS_Subset
      <3>4. Cardinality(Untold') <= Cardinality(Untold) + 1
        BY <3>1, <3>2, <3>3, TwoMore
      <3>5. Cardinality(Untold) \in Nat /\ Cardinality(Untold') \in Nat
            /\ Cardinality(Untold) <= crashes
        BY <2>1, <3>2, <3>3, FS_CardinalityType DEF MissInv
      <3>6. QED
        BY <1>1, <1>2, <3>4, <3>5
    <2>8. ~skipped' /\ tears' = 0 => \E h \in Nat : Unbroken(h)'
      BY <1>2, <2>1, <2>5 DEF MissInv
    <2>9. QED
      BY <1>1, <1>2, <1>4, <1>5, <2>7, <2>8 DEF MissInv
  <1>8. QED
    BY <1>6, <1>7

LEMMA InitMiss == LogInit => MissInv
  <1> SUFFICES ASSUME LogInit PROVE MissInv
    OBVIOUS
  <1>1. /\ log = <<>> /\ batch = <<>> /\ up = FALSE /\ crashes = 0 /\ phase = "down"
        /\ recent = <<>> /\ pos = NoPoint /\ wire = <<>>
    BY DEF LogInit, Init
  <1>2. ~owesRollback
    BY Zenon DEF LogInit, Init
  <1>3. SeenInv /\ WireLeads
    <2>1. WireLeads
      BY <1>1, <1>2 DEF WireLeads
    <2>2. QED
      BY <2>1, InitSeen
  <1>4. Places(log, "block") = {} /\ Announced = {} /\ Untold = {} /\ ToldNext(batch)
    BY <1>1, NothingQueued DEF Announced, Untold
  <1>5. Unbroken(1)
    <2>1. IsFloor(1)
      BY <1>1, <1>4, NothingQueued DEF IsFloor
    <2>2. QED
      BY <1>1, <1>2, <1>4, <2>1, EmptySeq DEF Unbroken
  <1>6. Cardinality(Untold) <= crashes
    BY <1>1, <1>4, FS_EmptySet
  <1>7. QED
    BY <1>1, <1>3, <1>4, <1>5, <1>6 DEF MissInv

LEMMA StepMiss == MissInv /\ [LogNext]_allVars => MissInv'
  <1> SUFFICES ASSUME MissInv, [LogNext]_allVars PROVE MissInv'
    OBVIOUS
  <1>1. SeenInv'
    BY StepSeen DEF MissInv
  <1>2. CASE Boot
    BY <1>1, <1>2, BootMiss
  <1>3. CASE Crash
    BY <1>1, <1>3, CrashMiss
  <1>4. CASE Publish
    BY <1>1, <1>4, PublishMiss
  <1>5. CASE Forward
    BY <1>1, <1>5, ForwardMiss
  <1>6. CASE Backward
    BY <1>1, <1>6, BackwardMiss
  <1>7. CASE Serve /\ UNCHANGED logVars
    BY <1>1, <1>7, ServeMiss
  <1>8. CASE Link
    BY <1>1, <1>8, LinkMiss
  <1>9. CASE Tick \/ (\E b \in Block : NodeMoves(b)) \/ UNCHANGED allVars
    BY <1>1, <1>9, IdleMiss
  <1>10. QED
    BY <1>2, <1>3, <1>4, <1>5, <1>6, <1>7, <1>8, <1>9 DEF LogNext

(* While every start found a resume point, and no line was torn, no block is *)
(* missing between the first logged one and any later one, whatever forks,   *)
(* reconnects and stops did; and a stop leaves at most one block without its *)
(* transactions.                                                             *)
THEOREM NothingMissed == LogSpec => []NoBlockMissed
  <1>1. ASSUME MissInv
        PROVE  NoBlockMissed
    <2> DEFINE B == {i \in 1..Len(log) : log[i].kind = "block"}
               first == log[Min(B)].blk
               Told(b) == \E i \in 1..Len(log) : log[i].kind = "transaction" /\ log[i].blk = b
    <2>1. SUFFICES ASSUME ~skipped, tears = 0, LoggedBlocks # {}
                   PROVE  /\ \A b \in LoggedBlocks :
                                Height(b) > Height(first) => Parent(b) \in LoggedBlocks
                          /\ batch = <<>> =>
                                Cardinality({b \in LoggedBlocks : ~Told(b)}) <= crashes
      BY DEF NoBlockMissed
    <2>2. B = Places(log, "block") /\ LoggedBlocks = Blks(log, "block")
      BY DEF LoggedBlocks, Blks, Places
    <2>3. PICK h \in Nat : Unbroken(h)
      BY <1>1, <2>1 DEF MissInv
    <2>4. Min(B) \in B /\ \A j \in B : Min(B) <= j
      <3>1. B \in SUBSET Nat /\ B # {}
        BY <2>1, <2>2 DEF Blks
      <3> HIDE DEF B
      <3>2. QED
        BY <3>1, MinIsLeast
    <2>5. Height(first) = h
      BY <2>2, <2>3, <2>4 DEF Unbroken, IsFloor
    <2>6. \A b \in LoggedBlocks : Height(b) > Height(first) => Parent(b) \in LoggedBlocks
      BY <2>2, <2>3, <2>5 DEF Unbroken, Announced
    <2>7. batch = <<>> => Untold = {b \in LoggedBlocks : ~Told(b)}
      <3>1. \A b : b \in Blks(log, "transaction") <=> Told(b)
        BY DEF Blks, Places
      <3>2. QED
        BY <2>2, <3>1, NothingQueued DEF Untold
    <2>8. Cardinality(Untold) <= crashes
      BY <1>1, <2>1 DEF MissInv
    <2>9. QED
      BY <2>6, <2>7, <2>8
  <1>2. MissInv => NoBlockMissed
    BY <1>1
  <1>3. QED
    BY InitMiss, StepMiss, <1>2, PTL DEF LogSpec

-----------------------------------------------------------------------------
(* Forks.  What the log holds for current beside what the running process  *)
(* remembers of it, through rollbacks, stops and restarts.                 *)

(* The lines of the chain: which of two of its blocks comes first, the      *)
(* chain of a child, and the first block that is not below a slot.          *)
LEMMA ChainUp ==
    ASSUME NEW p \in Block, NEW t \in Block, OnChain(p, t)
    PROVE  /\ Slot[p] \in Nat /\ Slot[t] \in Nat /\ Slot[p] <= Slot[t]
           /\ Slot[p] = Slot[t] => p = t
  <1>1. /\ Len(Path[t]) \in 1..Len(Path[t]) /\ Path[t][Len(Path[t])] = t /\ p # Origin
        /\ Len(Path[t]) \in Nat
    BY PathEnd
  <1>2. PICK i \in 1..Len(Path[t]) : Path[t][i] = p
    BY <1>1 DEF OnChain
  <1>3. /\ Slot[p] \in Nat /\ Slot[t] \in Nat
        /\ Slot[p] <= Slot[t] <=> i <= Len(Path[t])
        /\ Slot[t] <= Slot[p] <=> Len(Path[t]) <= i
    BY <1>1, <1>2, SlotsOrderPath
  <1>4. i <= Len(Path[t])
    BY <1>1
  <1>5. Slot[p] = Slot[t] => i = Len(Path[t])
    BY <1>1, <1>3
  <1>6. QED
    BY <1>1, <1>2, <1>3, <1>4, <1>5

LEMMA ChainLine ==
    ASSUME NEW p \in Block, NEW q \in Block, NEW t \in Block,
           OnChain(p, t), OnChain(q, t), Slot[p] <= Slot[q]
    PROVE  OnChain(p, q)
  <1>1. p # Origin /\ q # Origin
    BY PathEnd
  <1>2. PICK i \in 1..Len(Path[t]) : Path[t][i] = p
    BY <1>1 DEF OnChain
  <1>3. PICK j \in 1..Len(Path[t]) : Path[t][j] = q
    BY <1>1 DEF OnChain
  <1>4. i <= j
    BY <1>2, <1>3, SlotsOrderPath
  <1>5. Len(Path[q]) = j /\ \A k \in 1..j : Path[q][k] = Path[t][k]
    BY <1>3, PathPrefix
  <1>6. i \in 1..Len(Path[q]) /\ Path[q][i] = p
    BY <1>2, <1>4, <1>5
  <1>7. QED
    BY <1>1, <1>6 DEF OnChain

LEMMA ChainOfChild ==
    ASSUME NEW b \in Block, NEW p \in Block, Parent(b) = p
    PROVE  /\ Slot[p] < Slot[b] /\ OnChain(p, b)
           /\ \A c \in Block : OnChain(c, b) <=> c = b \/ OnChain(c, p)
  <1>1. /\ Len(Path[b]) = Len(Path[p]) + 1 /\ Slot[p] < Slot[b]
        /\ \A i \in 1..Len(Path[p]) : Path[b][i] = Path[p][i]
    BY ChildPath
  <1>2. /\ OnChain(p, p) /\ OnChain(b, b) /\ b # Origin /\ p # Origin /\ Len(Path[p]) \in Nat
        /\ Path[b][Len(Path[b])] = b
    BY PathEnd
  <1>3. ASSUME NEW c \in Block, OnChain(c, b)
        PROVE  c = b \/ OnChain(c, p)
    <2>1. c # Origin
      BY PathEnd
    <2>2. PICK i \in 1..Len(Path[b]) : Path[b][i] = c
      BY <1>3, <2>1 DEF OnChain
    <2>3. i = Len(Path[b]) \/ i \in 1..Len(Path[p])
      BY <1>1, <1>2
    <2>4. QED
      BY <1>1, <1>2, <2>2, <2>3 DEF OnChain
  <1>4. QED
    BY <1>1, <1>2, <1>3, ChildChain

LEMMA FirstNotBelow ==
    ASSUME NEW q \in Block, NEW s \in Nat, s <= Slot[q]
    PROVE  \E c \in Block : /\ OnChain(c, q) /\ Slot[c] >= s
                            /\ \A d \in Block : OnChain(d, q) /\ Slot[d] < Slot[c] => Slot[d] < s
  <1> DEFINE S == {Slot[c] : c \in {d \in Block : OnChain(d, q) /\ Slot[d] >= s}}
  <1>1. \A c \in Block : Slot[c] \in Nat
    BY TreeAssumption
  <1>2. Slot[q] \in S /\ S \in SUBSET Nat
    BY <1>1, PathEnd
  <1>3. PICK n \in S : \A m \in S : n <= m
    BY <1>2, LeastNumber
  <1>4. PICK c \in Block : OnChain(c, q) /\ Slot[c] >= s /\ n = Slot[c]
    BY <1>3
  <1>5. ASSUME NEW d \in Block, OnChain(d, q), Slot[d] < Slot[c]
        PROVE  Slot[d] < s
    <2>1. SUFFICES ASSUME Slot[d] >= s PROVE FALSE
      BY <1>1
    <2>2. Slot[d] \in S
      BY <1>5, <2>1
    <2>3. QED
      BY <1>1, <1>3, <1>4, <1>5, <2>2
  <1>6. QED
    BY <1>4, <1>5

-----------------------------------------------------------------------------
(* Blocks the log holds, those it holds for current, those it holds for     *)
(* orphaned; what the running handler has yet to say; and what will be      *)
(* current when it is done.                                                 *)
Logged == Blks(log, "block")
Coming == Blks(batch, "block")
Going == Blks(batch, "orphaned_block")

StandsAt(b) ==
    \E i \in Places(log, "block") :
       log[i].blk = b /\ \A j \in Places(log, "orphaned_block") : log[j].blk = b => j < i
Present == {b \in Logged : StandsAt(b)}
Gone == Logged \ Present
Held == (Present \ Going) \cup Coming

(* No line is torn, and a block event is dated with its slot. *)
Whole ==
    /\ \A i \in 1..Len(log) : ~IsTorn(log[i])
    /\ \A i \in Places(log, "block") : log[i].ts = Slot[log[i].blk]

(* A queued block comes first, and not with orphans. *)
BlockFirst ==
    /\ \A k \in Places(batch, "block") : k = 1 /\ batch[k].ts = Slot[batch[k].blk]
    /\ Coming # {} => Going = {}

(* Every announced chain goes down to f, without a gap in the log. *)
Rooted(f) ==
    \A q \in Announced :
       /\ OnChain(f, q)
       /\ \A c \in Block : OnChain(c, q) /\ OnChain(f, c) => c \in Logged \/ c = q

(* Blocks announced after a current one are above it. *)
LoggedInOrder ==
    \A x \in Present :
       \E i \in Places(log, "block") :
          /\ log[i].blk = x
          /\ \A j \in Places(log, "block") : j > i => Slot[x] < Slot[log[j].blk]

(* Between a current block and a chain that does not hold it stands an      *)
(* orphan: the first block of that chain that is not below it.              *)
Overtaken(x, q) ==
    \E c \in Gone :
       /\ OnChain(c, q) /\ Slot[c] >= Slot[x]
       /\ \A d \in Block : OnChain(d, q) /\ Slot[d] < Slot[c] => Slot[d] < Slot[x]
Apart(x, q) == OnChain(x, q) \/ Slot[x] > Slot[q] \/ Overtaken(x, q)
AllApart == \A x \in Present, q \in Logged : Apart(x, q)

(* What is current is recorded, above what is not above it; or all that is  *)
(* recorded is above it.                                                    *)
RecordedAt(x, i) ==
    /\ i > 0 => recent[i] = x
    /\ \A j \in (i + 1)..Len(recent) : Slot[x] < Slot[recent[j]]
Recorded == \A x \in Held : \E i \in 0..Len(recent) : RecordedAt(x, i)

(* Nothing current is above the client's position. *)
AtPosition ==
    pos # NoPoint /\ Announced # {} =>
        pos \in Announced /\ \A x \in Held : Slot[x] <= Slot[pos]

(* A connection starts on an announced chain. *)
OnAnnounced(p) == Announced # {} => p # Origin /\ \E a \in Announced : OnChain(p, a)
StartsOnChain ==
    /\ owesRollback => OnAnnounced(readPtr)
    /\ phase = "live" /\ pos = NoPoint /\ wire # <<>> => OnAnnounced(wire[1].pt)

(* A queued block goes on from a logged one that nothing current is above.  *)
FitsOn == \A b \in Coming, x \in Present : Parent(b) \in Logged /\ Slot[x] <= Slot[Parent(b)]

LogForks == Whole /\ LoggedInOrder /\ AllApart
LinkForks == BlockFirst /\ Recorded /\ AtPosition /\ StartsOnChain /\ FitsOn

ForkInv ==
    /\ MissInv
    /\ ~skipped /\ tears = 0 => LogForks /\ LinkForks /\ \E f \in Block : Rooted(f)

(* These sets hold blocks, and each is part of the next one. *)
LEMMA ForkTypes ==
    ASSUME LogTyped
    PROVE  /\ Logged \subseteq Block /\ Coming \subseteq Block /\ Going \subseteq Block
           /\ Announced = Logged \cup Coming /\ Announced \subseteq Block
           /\ Present \subseteq Logged /\ Gone \subseteq Logged /\ Held \subseteq Announced
           /\ \A b \in Block : Slot[b] \in Nat
  <1>1. "block" \in Kind /\ "orphaned_block" \in Kind
    BY DEF Kind
  <1>2. Logged \subseteq Block /\ Coming \subseteq Block /\ Going \subseteq Block
    BY <1>1, BlksTyped DEF Logged, Coming, Going
  <1>3. Announced = Logged \cup Coming
    BY DEF Announced, Logged, Coming
  <1>4. Present \subseteq Logged /\ Gone \subseteq Logged
    BY DEF Present, Gone
  <1>5. QED
    BY <1>2, <1>3, <1>4, TreeAssumption DEF Held

(* What one more line says of the blocks. *)
LEMMA LineAdded ==
    ASSUME LogTyped, ended, batch # <<>>, log' = Written(Stamped(Head(batch)))
    PROVE  /\ Len(log) \in Nat /\ Len(log') = Len(log) + 1
           /\ log'[Len(log) + 1] = Stamped(Head(batch))
           /\ \A i \in 1..Len(log) : log'[i] = log[i]
  <1> DEFINE e == Stamped(Head(batch))
  <1>1. e \in Line
    BY StampedFacts DEF Line
  <1> HIDE DEF e
  <1>2. log' = Written(e)
    BY DEF e
  <1>3. QED
    BY <1>1, <1>2, WrittenFacts DEF LogTyped, e

LEMMA PresentAfter ==
    ASSUME LogTyped, ended, batch # <<>>, log' = Written(Stamped(Head(batch)))
    PROVE  LET d == Head(batch)
           IN  /\ Logged' = Logged \cup (IF d.kind = "block" THEN {d.blk} ELSE {})
               /\ d.kind = "block" => Present' = Present \cup {d.blk}
               /\ d.kind = "orphaned_block" => Present' = Present \ {d.blk}
               /\ d.kind \notin {"block", "orphaned_block"} => Present' = Present
  <1> DEFINE d == Head(batch)
             n == Len(log) + 1
             B == Places(log, "block")
             O == Places(log, "orphaned_block")
             C == Places(log', "block")
             P == Places(log', "orphaned_block")
  <1>1. /\ log'[n].blk = d.blk
        /\ C = B \cup (IF d.kind = "block" THEN {n} ELSE {})
        /\ P = O \cup (IF d.kind = "orphaned_block" THEN {n} ELSE {})
        /\ \A i \in B : i < n /\ log'[i] = log[i]
        /\ \A i \in O : i < n /\ log'[i] = log[i]
        /\ Logged' = Logged \cup (IF d.kind = "block" THEN {d.blk} ELSE {})
    BY LogGrows, Zenon DEF Logged
  <1>2. n \in Nat /\ (\A i \in B : i \in Nat) /\ \A i \in O : i \in Nat
    <2>1. Len(log) \in Nat
      BY LineAdded
    <2>2. QED
      BY <2>1 DEF Places
  <1>3. \A b : StandsAt(b) <=> \E i \in B : log[i].blk = b /\ \A j \in O : log[j].blk = b => j < i
    BY DEF StandsAt
  <1>4. \A b : StandsAt(b)' <=> \E i \in C : log'[i].blk = b /\ \A j \in P : log'[j].blk = b => j < i
    BY DEF StandsAt
  <1>5. Present = {b \in Logged : StandsAt(b)} /\ Present' = {b \in Logged' : StandsAt(b)'}
    BY DEF Present
  <1>6. \A b : StandsAt(b) => b \in Logged
    BY <1>3 DEF Logged, Blks
  <1>0. PICK v : v = d.blk
    OBVIOUS
  <1> HIDE DEF d, n, B, O, C, P
  <1>7. ASSUME d.kind = "block"
        PROVE  Present' = Present \cup {d.blk}
    <2>1. C = B \cup {n} /\ P = O /\ Logged' = Logged \cup {d.blk}
      BY <1>1, <1>7
    <2>2. StandsAt(v)'
      BY <1>0, <1>1, <1>4, <2>1
    <2>3. \A b : b # v => (StandsAt(b)' <=> StandsAt(b))
      BY <1>0, <1>1, <1>3, <1>4, <2>1
    <2>4. QED
      BY <1>0, <1>5, <1>6, <2>1, <2>2, <2>3
  <1>8. ASSUME d.kind = "orphaned_block"
        PROVE  Present' = Present \ {d.blk}
    <2>1. C = B /\ P = O \cup {n} /\ Logged' = Logged
      BY <1>1, <1>8
    <2>2. ~StandsAt(v)'
      BY <1>0, <1>1, <1>2, <1>4, <2>1
    <2>3. \A b : b # v => (StandsAt(b)' <=> StandsAt(b))
      BY <1>0, <1>1, <1>3, <1>4, <2>1
    <2>4. QED
      BY <1>0, <1>5, <2>1, <2>2, <2>3
  <1>9. ASSUME d.kind \notin {"block", "orphaned_block"}
        PROVE  Present' = Present
    <2>1. C = B /\ P = O /\ Logged' = Logged
      BY <1>1, <1>9
    <2>2. \A b : StandsAt(b)' <=> StandsAt(b)
      BY <1>1, <1>3, <1>4, <2>1
    <2>3. QED
      BY <1>5, <2>1, <2>2
  <1>10. QED
    BY <1>1, <1>7, <1>8, <1>9 DEF d

(* The log with one more line: what it holds for current stays in order and *)
(* apart from the chains that do not hold it.                               *)
LEMMA WholeAfter ==
    ASSUME LogTyped, ended, batch # <<>>, log' = Written(Stamped(Head(batch))), Whole, BlockFirst
    PROVE  Whole'
  <1> DEFINE d == Head(batch)
             n == Len(log) + 1
  <1>1. /\ Len(log) \in Nat /\ Len(log') = n /\ log'[n] = Stamped(d)
        /\ \A i \in 1..Len(log) : log'[i] = log[i]
    BY LineAdded
  <1>2. /\ Stamped(d) \in Event /\ Stamped(d).blk = d.blk /\ Stamped(d).ts = d.ts
        /\ Stamped(d).kind = d.kind /\ d = batch[1] /\ 1 \in 1..Len(batch)
    BY StampedFacts DEF Stamped
  <1>3. ~IsTorn(Stamped(d))
    BY <1>2, LineKinds
  <1>4. d.kind = "block" => d.ts = Slot[d.blk]
    BY <1>2 DEF BlockFirst, Places
  <1> HIDE DEF d
  <1>5. \A i \in 1..Len(log') : i = n \/ i \in 1..Len(log)
    BY <1>1
  <1>6. \A i \in 1..Len(log') : ~IsTorn(log'[i])
    BY <1>1, <1>3, <1>5 DEF Whole
  <1>7. ASSUME NEW i \in Places(log', "block")
        PROVE  log'[i].ts = Slot[log'[i].blk]
    <2>1. i \in 1..Len(log') /\ log'[i].kind = "block"
      BY DEF Places
    <2>2. CASE i = n
      BY <1>1, <1>2, <1>4, <2>1, <2>2
    <2>3. CASE i \in 1..Len(log)
      <3>1. i \in Places(log, "block") /\ log'[i] = log[i]
        BY <1>1, <2>1, <2>3 DEF Places
      <3>2. QED
        BY <3>1 DEF Whole
    <2>4. QED
      BY <1>5, <2>1, <2>2, <2>3
  <1>8. QED
    BY <1>6, <1>7 DEF Whole

LEMMA OrderAfter ==
    ASSUME LogTyped, ended, batch # <<>>, log' = Written(Stamped(Head(batch))),
           LoggedInOrder, BlockFirst, FitsOn
    PROVE  LoggedInOrder'
  <1> DEFINE d == Head(batch)
             n == Len(log) + 1
             B == Places(log, "block")
             C == Places(log', "block")
  <1>1. /\ log'[n].blk = d.blk
        /\ C = B \cup (IF d.kind = "block" THEN {n} ELSE {})
        /\ \A i \in B : i < n /\ log'[i] = log[i]
    BY LogGrows, Zenon
  <1>2. n \in Nat /\ \A i \in B : i \in Nat
    <2>1. Len(log) \in Nat
      BY LineAdded
    <2>2. QED
      BY <2>1 DEF Places
  <1>3. /\ d.kind = "block" => Present' = Present \cup {d.blk}
        /\ d.kind # "block" => Present' \subseteq Present
    BY PresentAfter
  <1>4. ASSUME d.kind = "block", NEW x \in Present
        PROVE  Slot[x] < Slot[d.blk]
    <2>1. d.blk \in Coming
      BY <1>4, QueueShorter DEF Coming
    <2>2. Parent(d.blk) \in Logged /\ Slot[x] <= Slot[Parent(d.blk)]
      BY <2>1 DEF FitsOn
    <2>3. d.blk \in Block /\ Parent(d.blk) \in Block /\ x \in Block
          /\ \A c \in Block : Slot[c] \in Nat
      BY <2>1, <2>2, ForkTypes
    <2>4. Slot[Parent(d.blk)] < Slot[d.blk]
      BY <2>3, ChainOfChild
    <2>5. QED
      BY <2>2, <2>3, <2>4
  <1> HIDE DEF d, n, C
  <1>5. ASSUME NEW x \in Present'
        PROVE  \E i \in C : /\ log'[i].blk = x
                            /\ \A j \in C : j > i => Slot[x] < Slot[log'[j].blk]
    <2>1. CASE x \in Present
      <3>1. PICK i \in B : /\ log[i].blk = x
                            /\ \A j \in B : j > i => Slot[x] < Slot[log[j].blk]
        BY <2>1 DEF LoggedInOrder
      <3>2. i \in C /\ log'[i].blk = x
        BY <1>1, <3>1
      <3>3. ASSUME NEW j \in C, j > i
            PROVE  Slot[x] < Slot[log'[j].blk]
        <4>1. CASE j \in B
          BY <1>1, <3>1, <3>3, <4>1
        <4>2. CASE j \notin B
          <5>1. d.kind = "block" /\ j = n
            BY <1>1, <4>2
          <5>2. QED
            BY <1>1, <1>4, <2>1, <5>1
        <4>3. QED
          BY <4>1, <4>2
      <3>4. QED
        BY <3>2, <3>3
    <2>2. CASE x \notin Present
      <3>1. d.kind = "block" /\ x = d.blk /\ n \in C /\ C = B \cup {n}
        BY <1>1, <1>3, <2>2
      <3>2. \A j \in C : ~(j > n)
        BY <1>1, <1>2, <3>1
      <3>3. QED
        BY <1>1, <3>1, <3>2
    <2>3. QED
      BY <2>1, <2>2
  <1>6. QED
    BY <1>5 DEF LoggedInOrder, C

LEMMA RootedAfter ==
    ASSUME LogTyped, ended, batch # <<>>, log' = Written(Stamped(Head(batch))),
           batch' \in {Tail(batch), <<>>}, NEW f, Rooted(f)
    PROVE  Rooted(f)' /\ Announced' \subseteq Announced /\ Logged \subseteq Logged'
  <1>1. /\ Logged' = Logged \cup (IF Head(batch).kind = "block" THEN {Head(batch).blk} ELSE {})
        /\ Coming = Blks(Tail(batch), "block") \cup
                    (IF Head(batch).kind = "block" THEN {Head(batch).blk} ELSE {})
    BY PresentAfter, QueueShorter, Zenon DEF Coming
  <1>2. Coming' \subseteq Blks(Tail(batch), "block")
    BY NothingQueued DEF Coming
  <1>3. Announced = Logged \cup Coming /\ Announced' = Logged' \cup Coming'
    BY DEF Announced, Logged, Coming
  <1>4. Announced' \subseteq Announced /\ Logged \subseteq Logged'
    BY <1>1, <1>2, <1>3
  <1>5. QED
    BY <1>4 DEF Rooted

LEMMA ApartAfter ==
    ASSUME LogTyped, ended, batch # <<>>, log' = Written(Stamped(Head(batch))),
           AllApart, FitsOn, NEW f \in Block, Rooted(f)
    PROVE  AllApart'
  <1>1. PICK v : v = Head(batch).blk
    OBVIOUS
  <1>2. /\ Logged' = Logged \cup (IF Head(batch).kind = "block" THEN {v} ELSE {})
        /\ Head(batch).kind = "block" => Present' = Present \cup {v}
        /\ Head(batch).kind # "block" => Present' \subseteq Present
    BY <1>1, PresentAfter
  <1>3. Gone = Logged \ Present /\ Gone' = Logged' \ Present'
    BY DEF Gone
  <1>4. /\ Logged \subseteq Block /\ Present \subseteq Logged /\ Coming \subseteq Block
        /\ Announced = Logged \cup Coming /\ \A b \in Block : Slot[b] \in Nat
    BY ForkTypes
  <1>5. ASSUME NEW x, NEW q, Apart(x, q),
               \A c \in Gone : OnChain(c, q) /\ Slot[c] >= Slot[x]
                               /\ (\A d \in Block : OnChain(d, q) /\ Slot[d] < Slot[c]
                                                       => Slot[d] < Slot[x])
                               => c \in Gone'
        PROVE  Apart(x, q)'
    BY <1>5 DEF Apart, Overtaken
  <1>6. CASE Head(batch).kind # "block"
    <2>1. Gone \subseteq Gone' /\ Logged' = Logged /\ Present' \subseteq Present
      BY <1>2, <1>3, <1>6
    <2>2. QED
      BY <1>5, <2>1 DEF AllApart
  <1>7. CASE Head(batch).kind = "block"
    <2> DEFINE p == Parent(v)
    <2>1. /\ v \in Coming /\ v \in Block /\ v \in Announced
          /\ Logged' = Logged \cup {v} /\ Present' = Present \cup {v} /\ Gone' = Gone \ {v}
      <3>1. v \in Coming
        BY <1>1, <1>7, QueueShorter DEF Coming
      <3>2. QED
        BY <1>2, <1>3, <1>4, <1>7, <3>1
    <2>2. OnChain(v, v)
      BY <2>1, PathEnd
    <2>3. ASSUME NEW x \in Present
          PROVE  /\ x \in Block /\ p \in Logged /\ p \in Block /\ Slot[x] <= Slot[p]
                 /\ Slot[p] < Slot[v] /\ OnChain(p, v)
                 /\ \A c \in Block : OnChain(c, v) <=> c = v \/ OnChain(c, p)
      <3>1. p \in Logged /\ Slot[x] <= Slot[p] /\ x \in Block /\ p \in Block
        BY <1>4, <2>1 DEF FitsOn
      <3>2. QED
        BY <2>1, <3>1, ChainOfChild
    <2> HIDE DEF p
    <2>4. \A x \in Present : Slot[x] < Slot[v]
      BY <1>4, <2>1, <2>3
    <2>5. ASSUME NEW x \in Present, NEW q \in Logged
          PROVE  Apart(x, q)'
      <3>1. ASSUME OnChain(v, q),
                   \A d \in Block : OnChain(d, q) /\ Slot[d] < Slot[v] => Slot[d] < Slot[x]
            PROVE  FALSE
        <4>1. /\ p \in Point /\ v \in Point /\ q \in Point /\ p \in Block /\ OnChain(p, v)
              /\ Slot[p] < Slot[v] /\ Slot[x] <= Slot[p] /\ x \in Block
          BY <1>4, <2>1, <2>3 DEF Point
        <4>2. OnChain(p, q)
          BY <3>1, <4>1, OnChainTransitive
        <4>3. QED
          BY <1>4, <3>1, <4>1, <4>2
      <3>2. QED
        BY <1>5, <2>1, <3>1 DEF AllApart
    <2>6. ASSUME NEW x \in Present
          PROVE  Apart(x, v)'
      <3>1. /\ x \in Block /\ p \in Logged /\ p \in Block /\ Slot[x] <= Slot[p] /\ Slot[p] < Slot[v]
            /\ \A c \in Block : OnChain(c, v) <=> c = v \/ OnChain(c, p)
        BY <2>3
      <3>2. OnChain(x, p) \/ Overtaken(x, p)
        BY <1>4, <3>1 DEF AllApart, Apart
      <3>3. CASE OnChain(x, p)
        BY <3>1, <3>3 DEF Apart
      <3>4. CASE Overtaken(x, p)
        <4>1. PICK c \in Gone :
                 /\ OnChain(c, p) /\ Slot[c] >= Slot[x]
                 /\ \A d \in Block : OnChain(d, p) /\ Slot[d] < Slot[c] => Slot[d] < Slot[x]
          BY <3>4 DEF Overtaken
        <4>2. c \in Block /\ Slot[c] <= Slot[p]
          BY <1>3, <1>4, <3>1, <4>1, ChainUp
        <4>3. c \in Gone' /\ OnChain(c, v)
          BY <1>4, <2>1, <3>1, <4>1, <4>2
        <4>4. \A d \in Block : OnChain(d, v) /\ Slot[d] < Slot[c] => Slot[d] < Slot[x]
          BY <1>4, <2>1, <3>1, <4>1, <4>2
        <4>5. QED
          BY <4>1, <4>3, <4>4 DEF Apart, Overtaken
      <3>5. QED
        BY <3>2, <3>3, <3>4
    <2>7. ASSUME NEW q \in Logged
          PROVE  Apart(v, q)'
      <3>1. q \in Block /\ q \in Announced /\ Slot[v] \in Nat /\ Slot[q] \in Nat
        BY <1>4, <2>1
      <3>2. SUFFICES ASSUME ~(Slot[v] > Slot[q]), ~OnChain(v, q)
                     PROVE  Overtaken(v, q)'
        BY DEF Apart
      <3>3. PICK c \in Block :
               /\ OnChain(c, q) /\ Slot[c] >= Slot[v]
               /\ \A d \in Block : OnChain(d, q) /\ Slot[d] < Slot[c] => Slot[d] < Slot[v]
        <4>1. Slot[v] <= Slot[q]
          BY <3>1, <3>2
        <4>2. QED
          BY <3>1, <4>1, FirstNotBelow
      <3>4. OnChain(f, v) /\ OnChain(f, q)
        BY <2>1, <3>1 DEF Rooted
      <3>5. Slot[f] <= Slot[v] /\ Slot[f] \in Nat
        BY <2>1, <3>4, ChainUp
      <3>6. OnChain(f, c)
        <4>1. Slot[f] <= Slot[c]
          BY <1>4, <3>1, <3>3, <3>5
        <4>2. QED
          BY <3>1, <3>3, <3>4, <4>1, ChainLine
      <3>7. c \in Logged
        BY <3>1, <3>3, <3>6 DEF Rooted
      <3>8. c # v
        BY <3>2, <3>3
      <3>9. c \notin Present
        BY <1>4, <2>4, <3>1, <3>3
      <3>10. c \in Gone'
        BY <1>3, <2>1, <3>7, <3>8, <3>9
      <3>11. QED
        BY <3>3, <3>10 DEF Overtaken
    <2>8. Apart(v, v)'
      BY <2>2 DEF Apart
    <2>9. QED
      BY <2>1, <2>5, <2>6, <2>7, <2>8 DEF AllApart
  <1>8. QED
    BY <1>6, <1>7

-----------------------------------------------------------------------------
(* Each step. *)

(* Steps that write nothing to the log, and those that queue nothing either. *)
LEMMA SameLog ==
    ASSUME UNCHANGED log
    PROVE  /\ UNCHANGED <<Logged, Present, Gone>>
           /\ LogForks => LogForks'
  <1>1. UNCHANGED Logged
    BY DEF Logged
  <1>2. UNCHANGED <<Present, Gone>>
    <2>1. Present' = Present
      BY <1>1 DEF Present, StandsAt
    <2>2. QED
      BY <1>1, <2>1 DEF Gone
  <1>3. Whole => Whole'
    BY DEF Whole
  <1>4. LoggedInOrder => LoggedInOrder'
    BY <1>2 DEF LoggedInOrder
  <1>5. AllApart => AllApart'
    <2>1. \A x, q : Overtaken(x, q) => Overtaken(x, q)'
      BY <1>2 DEF Overtaken
    <2>2. QED
      BY <1>1, <1>2, <2>1 DEF AllApart, Apart
  <1>6. QED
    BY <1>1, <1>2, <1>3, <1>4, <1>5 DEF LogForks

LEMMA NothingNew ==
    ASSUME UNCHANGED <<log, batch>>
    PROVE  /\ UNCHANGED <<Held, Announced>>
           /\ LogForks => LogForks'
           /\ BlockFirst => BlockFirst'
           /\ FitsOn => FitsOn'
           /\ \A f : Rooted(f) => Rooted(f)'
  <1>1. UNCHANGED <<Coming, Going, Announced>>
    BY DEF Coming, Going, Announced
  <1>2. UNCHANGED <<Logged, Present>> /\ (LogForks => LogForks')
    BY SameLog
  <1>3. QED
    BY <1>1, <1>2 DEF Held, BlockFirst, FitsOn, Rooted

LEMMA IdleFork ==
    ASSUME ForkInv, MissInv', Tick \/ (\E b \in Block : NodeMoves(b)) \/ UNCHANGED allVars
    PROVE  ForkInv'
  <1>1. /\ UNCHANGED <<log, batch, tears, skipped>>
        /\ UNCHANGED <<phase, wire, readPtr, pos, recent, owesRollback>>
    <2>1. CASE Tick
      BY <2>1 DEF Tick, vars, linkVars, stateVars
    <2>2. CASE \E b \in Block : NodeMoves(b)
      BY <2>2 DEF NodeMoves, Extend, Reorg, logVars, linkVars, stateVars
    <2>3. CASE UNCHANGED allVars
      BY <2>3 DEF allVars, logVars, vars, linkVars, stateVars
    <2>4. QED
      BY <2>1, <2>2, <2>3
  <1>2. SUFFICES ASSUME ~skipped, tears = 0
                 PROVE  LogForks' /\ LinkForks' /\ \E f \in Block : Rooted(f)'
    BY <1>1 DEF ForkInv
  <1>3. PICK f \in Block : Rooted(f)
    BY <1>2 DEF ForkInv
  <1>4. LogForks' /\ BlockFirst' /\ FitsOn' /\ Rooted(f)' /\ Held' = Held /\ Announced' = Announced
    BY <1>1, <1>2, <1>3, NothingNew DEF ForkInv, LinkForks
  <1>5. Recorded'
    BY <1>1, <1>2, <1>4 DEF ForkInv, LinkForks, Recorded, RecordedAt
  <1>6. AtPosition'
    BY <1>1, <1>2, <1>4 DEF ForkInv, LinkForks, AtPosition
  <1>7. StartsOnChain'
    BY <1>1, <1>2, <1>4 DEF ForkInv, LinkForks, StartsOnChain, OnAnnounced
  <1>8. QED
    BY <1>4, <1>5, <1>6, <1>7 DEF LinkForks

LEMMA ServeFork ==
    ASSUME ForkInv, MissInv', Serve, UNCHANGED logVars
    PROVE  ForkInv'
  <1>1. LogTyped /\ TypeOK /\ WireLeads
    BY DEF ForkInv, MissInv, SeenInv, LogTyped
  <1>2. UNCHANGED <<log, batch, tears, skipped>>
    BY DEF logVars
  <1>3. PICK m \in Message : Answer(m)
    BY <1>1, AnswerFacts
  <1>4. wire' # <<>> /\ wire'[1] = IF wire = <<>> THEN m ELSE wire[1]
    BY <1>1, <1>3, AnswerLeads
  <1>5. /\ UNCHANGED <<phase, pos, recent>> /\ ~owesRollback'
        /\ owesRollback => OnChain(m.pt, readPtr) /\ (readPtr # Origin => m.pt # Origin)
        /\ ~owesRollback => wire # <<>> \/ pos # NoPoint
    BY <1>3 DEF Answer
  <1>6. m.pt \in Point /\ readPtr \in Point
    BY <1>1 DEF Message, Point, TypeOK
  <1>7. SUFFICES ASSUME ~skipped, tears = 0
                 PROVE  LogForks' /\ LinkForks' /\ \E f \in Block : Rooted(f)'
    BY <1>2 DEF ForkInv
  <1>8. PICK f \in Block : Rooted(f)
    BY <1>7 DEF ForkInv
  <1>9. LogForks' /\ BlockFirst' /\ FitsOn' /\ Rooted(f)' /\ Held' = Held /\ Announced' = Announced
    BY <1>2, <1>7, <1>8, NothingNew DEF ForkInv, LinkForks
  <1>10. Recorded'
    BY <1>5, <1>7, <1>9 DEF ForkInv, LinkForks, Recorded, RecordedAt
  <1>11. AtPosition'
    BY <1>5, <1>7, <1>9 DEF ForkInv, LinkForks, AtPosition
  <1>12. StartsOnChain'
    <2>1. StartsOnChain
      BY <1>7 DEF ForkInv, LinkForks
    <2>2. ASSUME phase = "live", pos = NoPoint, Announced # {}
          PROVE  wire'[1].pt # Origin /\ \E a \in Announced : OnChain(wire'[1].pt, a)
      <3>1. CASE wire # <<>>
        BY <1>4, <2>1, <2>2, <3>1 DEF StartsOnChain, OnAnnounced
      <3>2. CASE wire = <<>>
        <4>1. OnChain(m.pt, readPtr) /\ m.pt # Origin
              /\ readPtr # Origin /\ \E a \in Announced : OnChain(readPtr, a)
          BY <1>5, <2>1, <2>2, <3>2 DEF StartsOnChain, OnAnnounced
        <4>2. PICK a \in Announced : OnChain(readPtr, a)
          BY <4>1
        <4>3. a \in Point
          BY <1>1, ForkTypes DEF Point
        <4>4. OnChain(m.pt, a)
          BY <1>6, <4>1, <4>2, <4>3, OnChainTransitive
        <4>5. QED
          BY <1>4, <3>2, <4>1, <4>4
      <3>3. QED
        BY <3>1, <3>2
    <2>3. QED
      BY <1>5, <1>9, <2>2 DEF StartsOnChain, OnAnnounced
  <1>13. QED
    BY <1>9, <1>10, <1>11, <1>12 DEF LinkForks

LEMMA LinkFork ==
    ASSUME ForkInv, MissInv', Link
    PROVE  ForkInv'
  <1>1. LogTyped /\ TypeOK /\ WireLeads
    BY DEF ForkInv, MissInv, SeenInv, LogTyped
  <1>2. UNCHANGED <<log, batch, tears>> /\ up
    BY DEF Link
  <1>3. /\ Drop \/ Connect \/ FindByPoints \/ QueryTip \/ FindByTip \/ FindNone
        /\ ~skipped' => ~skipped /\ (Drop \/ Connect \/ FindByPoints \/ QueryTip \/ FindByTip)
    BY DEF Link
  <1>4. /\ wire' = <<>> /\ pos' = NoPoint
        /\ Connect \/ Drop \/ FindNone \/ QueryTip => phase' # "live" /\ ~owesRollback'
    BY <1>1, <1>3, LinkLeads
  <1>5. UNCHANGED recent
    BY <1>3 DEF Drop, Connect, FindByPoints, QueryTip, FindByTip, FindNone, stateVars
  <1>6. SUFFICES ASSUME ~skipped', tears' = 0
                 PROVE  LogForks' /\ LinkForks' /\ \E f \in Block : Rooted(f)'
    BY DEF ForkInv
  <1>7. PICK f \in Block : Rooted(f)
    BY <1>2, <1>3, <1>6 DEF ForkInv
  <1>8. PICK h \in Nat : Unbroken(h)
    BY <1>2, <1>3, <1>6 DEF ForkInv, MissInv
  <1>9. LogForks' /\ BlockFirst' /\ FitsOn' /\ Rooted(f)' /\ Held' = Held /\ Announced' = Announced
    BY <1>2, <1>3, <1>6, <1>7, NothingNew DEF ForkInv, LinkForks
  <1>10. Recorded'
    BY <1>2, <1>3, <1>5, <1>6, <1>9 DEF ForkInv, LinkForks, Recorded, RecordedAt
  <1>11. AtPosition'
    BY <1>4 DEF AtPosition
  <1>12. owesRollback' => OnAnnounced(readPtr)'
    <2>1. CASE FindByPoints
      <3>1. PICK i \in ResumeIndex : readPtr' = recent[i]
        BY <2>1 DEF FindByPoints, Attach
      <3>2. i \in 1..Len(recent)
        BY DEF ResumeIndex
      <3>3. readPtr' \in Announced
        BY <1>8, <3>1, <3>2 DEF Unbroken
      <3>4. readPtr' # Origin /\ OnChain(readPtr', readPtr')
        BY <1>1, <3>3, ForkTypes, PathEnd
      <3>5. QED
        BY <1>9, <3>3, <3>4 DEF OnAnnounced
    <2>2. CASE FindByTip
      <3>1. recent = <<>>
        BY <1>2, <1>8, <2>2 DEF FindByTip, Unbroken
      <3>2. Announced = {}
        BY <1>2, <1>8, <3>1 DEF Unbroken
      <3>3. QED
        BY <1>9, <3>2 DEF OnAnnounced
    <2>3. QED
      BY <1>3, <1>4, <1>6, <2>1, <2>2
  <1>13. StartsOnChain'
    BY <1>4, <1>12 DEF StartsOnChain
  <1>14. QED
    BY <1>9, <1>10, <1>11, <1>13 DEF LinkForks

LEMMA PublishFork ==
    ASSUME ForkInv, MissInv', Publish
    PROVE  ForkInv'
  <1> DEFINE d == Head(batch)
             r == Tail(batch)
  <1>1. LogTyped
    BY DEF ForkInv, MissInv, SeenInv
  <1>2. /\ batch # <<>> /\ log' = Written(Stamped(Head(batch))) /\ batch' = Tail(batch)
        /\ UNCHANGED <<tears, skipped, phase, wire, readPtr, pos, recent, owesRollback>>
    BY DEF Publish, vars, linkVars, stateVars
  <1>3. SUFFICES ASSUME ~skipped, tears = 0
                 PROVE  LogForks' /\ LinkForks' /\ \E f \in Block : Rooted(f)'
    BY <1>2 DEF ForkInv
  <1>4. ended
    BY <1>3, NoTearNoGap DEF ForkInv, MissInv
  <1>5. PICK f \in Block : Rooted(f)
    BY <1>3 DEF ForkInv
  <1>6. LogForks /\ LinkForks
    BY <1>3 DEF ForkInv
  <1>7. LogForks'
    BY <1>1, <1>2, <1>4, <1>5, <1>6, WholeAfter, OrderAfter, ApartAfter DEF LogForks, LinkForks
  <1>8. Rooted(f)'
    BY <1>1, <1>2, <1>4, <1>5, RootedAfter
  <1>9. Places(batch', "block") = {} /\ Coming' = {}
    <2>1. \A k \in Places(r, "block") : k + 1 \in Places(batch, "block")
      BY <1>1, <1>2, QueueShorter, Zenon
    <2>2. ASSUME NEW k \in Places(r, "block")
          PROVE  FALSE
      <3>1. k + 1 = 1
        BY <1>6, <2>1 DEF LinkForks, BlockFirst
      <3>2. k \in Nat \ {0}
        BY DEF Places
      <3>3. QED
        BY <3>1, <3>2
    <2>3. QED
      BY <1>2, <2>2 DEF Coming, Blks
  <1>10. BlockFirst' /\ FitsOn'
    BY <1>9 DEF BlockFirst, FitsOn
  <1>11. /\ Coming = Coming' \cup (IF d.kind = "block" THEN {d.blk} ELSE {})
         /\ Going = Going' \cup (IF d.kind = "orphaned_block" THEN {d.blk} ELSE {})
    BY <1>1, <1>2, QueueShorter, Zenon DEF Coming, Going
  <1>12. /\ Logged' = Logged \cup (IF d.kind = "block" THEN {d.blk} ELSE {})
         /\ d.kind = "block" => Present' = Present \cup {d.blk}
         /\ d.kind = "orphaned_block" => Present' = Present \ {d.blk}
         /\ d.kind \notin {"block", "orphaned_block"} => Present' = Present
    BY <1>1, <1>2, <1>4, PresentAfter
  <1>13. Announced' = Announced
    BY <1>11, <1>12 DEF Announced, Logged, Coming
  <1>14. Held' \subseteq Held
    <2>1. Held = (Present \ Going) \cup Coming /\ Held' = Present' \ Going'
      BY <1>9 DEF Held
    <2>2. d.kind = "block" => Going = {}
      BY <1>6, <1>11 DEF LinkForks, BlockFirst
    <2>3. QED
      BY <1>9, <1>11, <1>12, <2>1, <2>2
  <1>15. Recorded'
    BY <1>2, <1>6, <1>14 DEF LinkForks, Recorded, RecordedAt
  <1>16. AtPosition'
    BY <1>2, <1>6, <1>13, <1>14 DEF LinkForks, AtPosition
  <1>17. StartsOnChain'
    BY <1>2, <1>6, <1>13 DEF LinkForks, StartsOnChain, OnAnnounced
  <1>18. QED
    BY <1>7, <1>8, <1>10, <1>15, <1>16, <1>17 DEF LinkForks

LEMMA CrashFork ==
    ASSUME ForkInv, MissInv', Crash
    PROVE  ForkInv'
  <1>1. LogTyped /\ tears \in Nat
    BY DEF ForkInv, MissInv, SeenInv, LogTyped
  <1>2. /\ batch' = <<>> /\ recent' = <<>> /\ phase' = "down" /\ pos' = NoPoint
        /\ skipped' = skipped
    BY DEF Crash
  <1>3. ~owesRollback'
    BY Zenon DEF Crash
  <1>4. SUFFICES ASSUME ~skipped', tears' = 0
                 PROVE  LogForks' /\ LinkForks' /\ \E f \in Block : Rooted(f)'
    BY DEF ForkInv
  <1>5. tears = 0
    BY <1>1, <1>4 DEF Crash
  <1>6. PICK f \in Block : Rooted(f)
    BY <1>2, <1>4, <1>5 DEF ForkInv
  <1>7. LogForks /\ BlockFirst /\ FitsOn
    BY <1>2, <1>4, <1>5 DEF ForkInv, LinkForks
  <1>8. LogForks' /\ Rooted(f)'
    <2>1. CASE batch # <<>> /\ log' = Written(Stamped(Head(batch)))
      <3>1. ended
        BY <1>5, NoTearNoGap DEF ForkInv, MissInv
      <3>2. QED
        BY <1>1, <1>2, <1>6, <1>7, <2>1, <3>1, WholeAfter, OrderAfter, ApartAfter, RootedAfter
        DEF LogForks
    <2>2. CASE log' = log
      <3>1. Logged' = Logged /\ LogForks'
        BY <1>7, <2>2, SameLog
      <3>2. Announced' \subseteq Announced
        <4>1. Announced' = Logged'
          BY <1>2, NothingQueued DEF Announced, Logged
        <4>2. QED
          BY <3>1, <4>1 DEF Announced, Logged
      <3>3. QED
        BY <1>6, <3>1, <3>2 DEF Rooted
    <2>3. QED
      BY <1>4, <1>5, <2>1, <2>2 DEF Crash
  <1>9. Places(batch', "block") = {} /\ Coming' = {}
    BY <1>2, NothingQueued DEF Coming
  <1>10. BlockFirst' /\ FitsOn'
    BY <1>9 DEF BlockFirst, FitsOn
  <1>11. Recorded'
    <2>1. Len(recent') = 0 /\ 0 \in 0..0
      BY <1>2, EmptySeq
    <2>2. QED
      BY <2>1 DEF Recorded, RecordedAt
  <1>12. AtPosition' /\ StartsOnChain'
    BY <1>2, <1>3 DEF AtPosition, StartsOnChain
  <1>13. QED
    BY <1>8, <1>10, <1>11, <1>12 DEF LinkForks

LEMMA ForwardFork ==
    ASSUME ForkInv, MissInv', Forward
    PROVE  ForkInv'
  <1>1. LogTyped /\ TypeOK /\ WireLeads
    BY DEF ForkInv, MissInv, SeenInv, LogTyped
  <1>2. UNCHANGED <<log, tears, skipped>> /\ batch = <<>> /\ HandleForward
    BY DEF Forward
  <1>3. PICK b \in Block : Head(wire).pt = b /\ pos' = b /\ pos # NoPoint /\ Parent(b) = pos
    BY <1>1, <1>2, HandlerLeads, Zenon
  <1>4. pos' # NoPoint /\ ~owesRollback'
    BY <1>1, <1>2, HandlerLeads
  <1>5. SUFFICES ASSUME ~skipped, tears = 0
                 PROVE  LogForks' /\ LinkForks' /\ \E f \in Block : Rooted(f)'
    BY <1>2 DEF ForkInv
  <1>6. LogForks /\ LinkForks
    BY <1>5 DEF ForkInv
  <1>7. UNCHANGED <<Logged, Present>> /\ LogForks'
    BY <1>2, <1>6, SameLog
  <1>8. /\ Coming' = {b} /\ Going' = {} /\ Announced' = Logged \cup {b} /\ Announced = Logged
        /\ Held = Present /\ Held' = Present \cup {b}
        /\ \A k \in Places(batch', "block") : k = 1 /\ batch'[k].ts = Slot[batch'[k].blk]
    <2>1. /\ Coming' = {b} /\ Going' = {}
          /\ \A k \in Places(batch', "block") : k = 1 /\ batch'[k].ts = Slot[batch'[k].blk]
      BY <1>1, <1>3, ForwardTold DEF Coming, Going
    <2>2. Coming = {} /\ Going = {}
      BY <1>2, NothingQueued DEF Coming, Going
    <2>3. QED
      BY <1>7, <2>1, <2>2 DEF Announced, Logged, Coming, Held
  <1>9. /\ Logged \subseteq Block /\ Present \subseteq Logged
        /\ \A c \in Block : Slot[c] \in Nat
    BY <1>1, ForkTypes
  <1>10. Logged # {} =>
            /\ pos \in Logged /\ pos \in Block /\ Slot[pos] < Slot[b] /\ OnChain(pos, b)
            /\ \A c \in Block : OnChain(c, b) <=> c = b \/ OnChain(c, pos)
            /\ \A x \in Present : x \in Block /\ Slot[x] <= Slot[pos] /\ Slot[x] < Slot[b]
    <2>1. SUFFICES ASSUME Logged # {}
                   PROVE  /\ pos \in Logged /\ pos \in Block /\ Slot[pos] < Slot[b] /\ OnChain(pos, b)
                          /\ \A c \in Block : OnChain(c, b) <=> c = b \/ OnChain(c, pos)
                          /\ \A x \in Present : x \in Block /\ Slot[x] <= Slot[pos] /\ Slot[x] < Slot[b]
      OBVIOUS
    <2>2. pos \in Logged /\ pos \in Block /\ \A x \in Present : Slot[x] <= Slot[pos]
      BY <1>3, <1>6, <1>8, <1>9, <2>1 DEF LinkForks, AtPosition
    <2>3. /\ Slot[pos] < Slot[b] /\ OnChain(pos, b)
          /\ \A c \in Block : OnChain(c, b) <=> c = b \/ OnChain(c, pos)
      BY <1>3, <2>2, ChainOfChild
    <2>4. QED
      BY <1>9, <2>2, <2>3
  <1>11. BlockFirst' /\ FitsOn'
    BY <1>3, <1>7, <1>8, <1>9, <1>10 DEF BlockFirst, FitsOn
  <1>12. Recorded'
    <2> DEFINE m == Len(recent)
    <2>1. PICK d \in 0..m :
             /\ Len(recent') = m - d + 1
             /\ \A i \in 1..(m - d) : recent'[i] = recent[i + d]
             /\ recent'[m - d + 1] = b
      <3>1. recent' = Noted(b)
        BY <1>2, <1>3 DEF HandleForward
      <3>2. QED
        BY <1>1, <3>1, NotedElements
    <2>2. m \in Nat
      BY <1>1, LenProperties DEF TypeOK
    <2> HIDE DEF m
    <2>3. ASSUME NEW x \in Present
          PROVE  \E i \in 0..Len(recent') : RecordedAt(x, i)'
      <3>1. PICK i \in 0..m : /\ i > 0 => recent[i] = x
                              /\ \A j \in (i + 1)..m : Slot[x] < Slot[recent[j]]
        BY <1>6, <1>8 DEF LinkForks, Recorded, RecordedAt, m
      <3>2. PICK k \in 0..(m - d + 1) : k = IF i > d THEN i - d ELSE 0
        <4>1. CASE i > d
          <5>1. i - d \in 0..(m - d + 1)
            BY <2>2, <4>1
          <5>2. QED
            BY <4>1, <5>1
        <4>2. CASE ~(i > d)
          <5>1. 0 \in 0..(m - d + 1)
            BY <2>2
          <5>2. QED
            BY <4>2, <5>1
        <4>3. QED
          BY <4>1, <4>2
      <3>3. k > 0 => recent'[k] = x
        <4>1. k > 0 => k \in 1..(m - d) /\ k + d = i /\ i > 0
          BY <2>1, <2>2, <3>1, <3>2
        <4>2. QED
          BY <2>1, <3>1, <4>1
      <3>4. ASSUME NEW j \in (k + 1)..(m - d + 1)
            PROVE  Slot[x] < Slot[recent'[j]]
        <4>1. CASE j = m - d + 1
          BY <1>9, <1>10, <2>1, <4>1
        <4>2. CASE j # m - d + 1
          <5>1. j \in 1..(m - d) /\ j + d \in (i + 1)..m
            BY <2>1, <2>2, <3>1, <3>2, <4>2
          <5>2. QED
            BY <2>1, <3>1, <5>1
        <4>3. QED
          BY <4>1, <4>2
      <3>5. QED
        BY <2>1, <3>2, <3>3, <3>4 DEF RecordedAt
    <2>4. \E i \in 0..Len(recent') : RecordedAt(b, i)'
      <3>1. PICK k \in 0..Len(recent') : k = m - d + 1
        <4>1. m - d + 1 \in 0..Len(recent')
          BY <2>1, <2>2
        <4>2. QED
          BY <4>1
      <3>2. recent'[k] = b /\ \A j \in (k + 1)..Len(recent') : FALSE
        BY <2>1, <2>2, <3>1
      <3>3. RecordedAt(b, k)'
        BY <3>2 DEF RecordedAt
      <3>4. QED
        BY <3>3
    <2>5. QED
      BY <1>8, <2>3, <2>4 DEF Recorded
  <1>13. AtPosition'
    <2>1. pos' \in Announced' /\ \A x \in Held' : Slot[x] <= Slot[pos']
      BY <1>3, <1>8, <1>9, <1>10
    <2>2. QED
      BY <2>1 DEF AtPosition
  <1>14. StartsOnChain'
    BY <1>4 DEF StartsOnChain
  <1>15. \E f \in Block : Rooted(f)'
    <2>1. CASE Logged = {}
      <3>1. OnChain(b, b)
        BY PathEnd
      <3>2. ASSUME NEW c \in Block, OnChain(c, b), OnChain(b, c)
            PROVE  c = b
        <4>1. Slot[c] <= Slot[b] /\ Slot[b] <= Slot[c] /\ (Slot[c] = Slot[b] => c = b)
          BY <3>2, ChainUp
        <4>2. QED
          BY <1>9, <4>1
      <3>3. Rooted(b)'
        BY <1>8, <2>1, <3>1, <3>2 DEF Rooted
      <3>4. QED
        BY <3>3
    <2>2. CASE Logged # {}
      <3>1. PICK f \in Block : Rooted(f)
        BY <1>5 DEF ForkInv
      <3>2. OnChain(f, pos) /\ OnChain(f, b)
        <4>1. OnChain(f, pos)
          BY <1>8, <1>10, <2>2, <3>1 DEF Rooted
        <4>2. QED
          BY <1>10, <2>2, <4>1
      <3>3. ASSUME NEW c \in Block, OnChain(c, b), OnChain(f, c)
            PROVE  c \in Logged \/ c = b
        <4>1. c = b \/ OnChain(c, pos)
          BY <1>10, <2>2, <3>3
        <4>2. QED
          BY <1>8, <1>10, <2>2, <3>1, <3>3, <4>1 DEF Rooted
      <3>4. Rooted(f)'
        BY <1>7, <1>8, <3>1, <3>2, <3>3 DEF Rooted
      <3>5. QED
        BY <3>4
    <2>3. QED
      BY <2>1, <2>2
  <1>16. QED
    BY <1>7, <1>11, <1>12, <1>13, <1>14, <1>15 DEF LinkForks

LEMMA BehindOne ==
    ASSUME NEW S, NEW x \in S, NEW t \in Seq(S), NEW k \in 1..Len(t)
    PROVE  Len(<<x>> \o t) = Len(t) + 1 /\ (<<x>> \o t)[k + 1] = t[k]
  <1>1. PICK s \in Seq(S) : s = <<x>> /\ Len(s) = 1
    <2>1. <<x>> \in Seq(S) /\ Len(<<x>>) = 1
      OBVIOUS
    <2>2. QED
      BY <2>1
  <1>2. Len(t) \in Nat /\ k + 1 \in 1..(1 + Len(t)) /\ ~(k + 1 <= 1) /\ k + 1 - 1 = k
    OBVIOUS
  <1>3. /\ Len(s \o t) = Len(s) + Len(t)
        /\ \A i \in 1..(Len(s) + Len(t)) :
              (s \o t)[i] = IF i <= Len(s) THEN s[i] ELSE t[i - Len(s)]
    BY <1>1, ConcatProperties
  <1>4. QED
    BY <1>1, <1>2, <1>3

(* A rollback cuts the recorded blocks at its point, and queues a card for  *)
(* each block it takes.                                                     *)
LEMMA RollbackTakes ==
    ASSUME LogTyped, Backward
    PROVE  LET q == Head(wire).pt
               n == Len(recent')
           IN  /\ n \in 0..Len(recent) /\ Len(recent) \in Nat
               /\ \A i \in 1..n : recent'[i] = recent[i]
               /\ q # Origin /\ n > 0 => Slot[recent[n]] <= Slot[q]
               /\ \A j \in (n + 1)..Len(recent) : recent[j] \in Going'
  <1> DEFINE q == Head(wire).pt
             n == Len(recent')
             m == Len(recent)
             cut == SubSeq(recent, n + 1, m)
             lost == Reverse(cut)
             r == Draft("rollback", q, Slot[q])
             o == [i \in 1..Len(lost) |-> Draft("orphaned_block", lost[i], Slot[q])]
  <1>1. recent \in Seq(Block) /\ m \in Nat /\ \A i \in 1..m : recent[i] \in Block
    BY LenProperties, ElementOfSeq DEF LogTyped, TypeOK
  <1>2. /\ n \in 0..m /\ \A i \in 1..n : recent'[i] = recent[i]
        /\ q # Origin /\ n > 0 => Slot[recent[n]] <= Slot[q]
    <2>1. CASE q = Origin
      <3>1. recent' = recent
        BY <2>1 DEF Backward, HandleBackward
      <3>2. QED
        BY <1>1, <2>1, <3>1
    <2>2. CASE q # Origin
      <3>1. PICK k \in 0..m : KeepsFirst(k, Slot[q]) /\ recent' = SubSeq(recent, 1, k)
        BY <2>2 DEF Backward, HandleBackward
      <3>2. Len(recent') = k /\ \A i \in 1..k : recent'[i] = recent[i]
        BY <1>1, <3>1
      <3>3. QED
        BY <3>1, <3>2 DEF KeepsFirst
    <2>3. QED
      BY <2>1, <2>2
  <1>3. batch' = IF lost = <<>> THEN <<>> ELSE <<r>> \o o
    BY DEF Backward
  <1>4. /\ cut \in Seq(Block) /\ Len(cut) = m - n
        /\ \A k \in 1..(m - n) : cut[k] = recent[n + k]
    <2> HIDE DEF n, m
    <2>1. \A i \in (n + 1)..m : i \in 1..m
      BY <1>1, <1>2
    <2>2. /\ cut \in Seq(Block) /\ Len(cut) = IF n + 1 <= m THEN m - (n + 1) + 1 ELSE 0
          /\ \A k \in 1..(m - (n + 1) + 1) : cut[k] = recent[(n + 1) + k - 1]
      BY <1>1, <1>2, <2>1, SubSeqProperties
    <2>3. QED
      BY <1>1, <1>2, <2>2
  <1> HIDE DEF q, n, m, cut, r
  <1>5. /\ Len(lost) = m - n /\ lost \in Seq(Block)
        /\ \A k \in 1..(m - n) : lost[k] = cut[(m - n) - k + 1]
    <2>1. lost = [k \in 1..(m - n) |-> cut[(m - n) - k + 1]] /\ m - n \in Nat
      BY <1>1, <1>2, <1>4 DEF Reverse
    <2>2. lost \in Seq(Block)
      BY <1>4, ReverseType
    <2>3. QED
      BY <1>1, <1>2, <2>1, <2>2
  <1> HIDE DEF lost
  <1>6. ASSUME NEW j \in (n + 1)..m
        PROVE  recent[j] \in Going'
    <2>1. PICK k \in 1..(m - n) : k = m - j + 1
      BY <1>1, <1>2
    <2>2. lost[k] = recent[j]
      <3>1. (m - n) - k + 1 \in 1..(m - n) /\ n + ((m - n) - k + 1) = j
        BY <1>1, <1>2, <2>1
      <3>2. QED
        BY <1>4, <1>5, <3>1
    <2>3. batch' = <<r>> \o o
      <3>1. Len(lost) # 0
        BY <1>1, <1>2, <1>5, <2>1
      <3>2. QED
        BY <1>3, <3>1
    <2>4. k + 1 \in 1..Len(batch') /\ batch'[k + 1] = Draft("orphaned_block", lost[k], Slot[q])
      <3> DEFINE D == {r} \cup {o[i] : i \in 1..Len(lost)}
      <3>1. o = [i \in 1..Len(lost) |-> o[i]] /\ o[k] = Draft("orphaned_block", lost[k], Slot[q])
        BY <1>5
      <3>2. Len(lost) \in Nat /\ k \in 1..Len(lost)
        BY <1>1, <1>2, <1>5
      <3> HIDE DEF o
      <3>3. o \in [1..Len(lost) -> D]
        BY <3>1
      <3>4. o \in Seq(D) /\ Len(o) = Len(lost)
        BY <3>2, <3>3
      <3> HIDE DEF D
      <3>5. Len(batch') = 1 + Len(lost) /\ batch'[k + 1] = o[k]
        <4>1. r \in D /\ k \in 1..Len(o)
          BY <3>2, <3>4 DEF D
        <4>2. Len(<<r>> \o o) = Len(o) + 1 /\ (<<r>> \o o)[k + 1] = o[k]
          BY <3>4, <4>1, BehindOne
        <4>3. QED
          BY <2>3, <3>2, <3>4, <4>2
      <3>6. QED
        BY <3>1, <3>2, <3>5
    <2>5. k + 1 \in Places(batch', "orphaned_block") /\ batch'[k + 1].blk = recent[j]
      BY <2>2, <2>4 DEF Draft, Places
    <2>6. QED
      BY <2>5 DEF Going, Blks
  <1>7. QED
    BY <1>1, <1>2, <1>6 DEF q, n, m

LEMMA BackwardFork ==
    ASSUME ForkInv, MissInv', Backward
    PROVE  ForkInv'
  <1>1. LogTyped /\ TypeOK /\ WireLeads
    BY DEF ForkInv, MissInv, SeenInv, LogTyped
  <1>2. UNCHANGED <<log, tears>> /\ batch = <<>> /\ up /\ HandleBackward
    BY DEF Backward
  <1>3. PICK q \in Point :
           /\ Head(wire).pt = q /\ wire[1].pt = q /\ pos' = q /\ phase = "live" /\ wire # <<>>
           /\ pos # NoPoint => q # Origin /\ OnChain(q, pos)
    <2>1. Head(wire) = wire[1]
      BY <1>1, <1>2, HandlerLeads
    <2>2. wire[1].pt \in Point /\ pos' = wire[1].pt /\ phase = "live" /\ wire # <<>>
          /\ (pos # NoPoint => wire[1].pt # Origin /\ OnChain(wire[1].pt, pos))
      BY <1>1, <1>2, HandlerLeads
    <2>3. QED
      BY <2>1, <2>2
  <1>4. pos' # NoPoint /\ ~owesRollback'
    BY <1>1, <1>2, HandlerLeads
  <1>5. SUFFICES ASSUME ~skipped', tears' = 0
                 PROVE  LogForks' /\ LinkForks' /\ \E f \in Block : Rooted(f)'
    BY DEF ForkInv
  <1>6. ~skipped /\ tears = 0 /\ (recent' = <<>> => recent = <<>>)
    BY <1>2, <1>5, Zenon DEF Backward
  <1>7. LogForks /\ LinkForks
    BY <1>6 DEF ForkInv
  <1>8. PICK f \in Block : Rooted(f)
    BY <1>6 DEF ForkInv
  <1>9. PICK h \in Nat : Unbroken(h)
    BY <1>6 DEF ForkInv, MissInv
  <1>10. UNCHANGED <<Logged, Present>> /\ LogForks'
    BY <1>2, <1>7, SameLog
  <1>11. /\ Coming' = {} /\ Announced' = Logged /\ Announced = Logged
         /\ Held = Present /\ Held' = Present \ Going' /\ Places(batch', "block") = {}
    <2>1. Coming' = {} /\ Places(batch', "block") = {}
      BY <1>1, BackwardTold DEF Coming
    <2>2. Coming = {} /\ Going = {}
      BY <1>2, NothingQueued DEF Coming, Going
    <2>3. QED
      BY <1>10, <2>1, <2>2 DEF Announced, Logged, Coming, Held
  <1>12. /\ Logged \subseteq Block /\ Present \subseteq Logged
         /\ \A c \in Block : Slot[c] \in Nat
    BY <1>1, ForkTypes
  <1>13. PICK n \in 0..Len(recent) :
            /\ n = Len(recent') /\ Len(recent) \in Nat
            /\ \A i \in 1..n : recent'[i] = recent[i]
            /\ q # Origin /\ n > 0 => Slot[recent[n]] <= Slot[q]
            /\ \A j \in (n + 1)..Len(recent) : recent[j] \in Going'
    <2>1. Len(recent') \in 0..Len(recent)
      BY <1>1, RollbackTakes
    <2>2. QED
      BY <1>1, <1>3, <2>1, RollbackTakes
  <1>14. BlockFirst' /\ FitsOn'
    BY <1>11 DEF BlockFirst, FitsOn
  <1>15. ASSUME NEW x \in Held'
         PROVE  \E i \in 0..n : /\ i > 0 => recent[i] = x
                                /\ \A j \in (i + 1)..Len(recent) : Slot[x] < Slot[recent[j]]
    <2>1. x \in Held /\ x \notin Going'
      BY <1>11
    <2>2. PICK i \in 0..Len(recent) : RecordedAt(x, i)
      BY <1>7, <2>1 DEF LinkForks, Recorded
    <2>3. i <= n
      <3>1. SUFFICES ASSUME ~(i <= n) PROVE FALSE
        OBVIOUS
      <3>2. i \in (n + 1)..Len(recent) /\ i > 0
        BY <1>13, <3>1
      <3>3. QED
        BY <1>13, <2>1, <2>2, <3>2 DEF RecordedAt
    <2>4. i \in 0..n
      BY <1>13, <2>3
    <2>5. QED
      BY <2>2, <2>4 DEF RecordedAt
  <1>16. Recorded'
    <2>1. ASSUME NEW x \in Held'
          PROVE  \E i \in 0..Len(recent') : RecordedAt(x, i)'
      <3>1. PICK i \in 0..n : /\ i > 0 => recent[i] = x
                              /\ \A j \in (i + 1)..Len(recent) : Slot[x] < Slot[recent[j]]
        BY <1>15
      <3>2. i > 0 => recent'[i] = x
        BY <1>13, <3>1
      <3>3. ASSUME NEW j \in (i + 1)..n
            PROVE  Slot[x] < Slot[recent'[j]]
        <4>1. j \in 1..n /\ j \in (i + 1)..Len(recent)
          BY <1>13
        <4>2. QED
          BY <1>13, <3>1, <4>1
      <3>4. QED
        BY <1>13, <3>2, <3>3 DEF RecordedAt
    <2>2. QED
      BY <2>1 DEF Recorded
  <1>17. AtPosition'
    <2>1. SUFFICES ASSUME Logged # {}
                   PROVE  q \in Logged /\ \A x \in Held' : Slot[x] <= Slot[q]
      BY <1>3, <1>11 DEF AtPosition
    <2>2. n > 0
      <3>1. recent # <<>>
        BY <1>2, <1>9, <1>11, <2>1 DEF Unbroken
      <3>2. recent' # <<>>
        BY <1>6, <3>1
      <3>3. MissInv' => recent' \in Seq(Block)
        BY DEF MissInv, SeenInv, LogTyped, TypeOK
      <3>4. Len(recent') # 0
        BY <3>2, <3>3, EmptySeq
      <3>5. QED
        BY <1>13, <3>4
    <2>3. PICK a \in Logged : q # Origin /\ OnChain(q, a)
      <3>1. CASE pos = NoPoint
        <4>1. OnAnnounced(wire[1].pt)
          BY <1>3, <1>7, <3>1 DEF LinkForks, StartsOnChain
        <4>2. QED
          BY <1>3, <1>11, <2>1, <4>1 DEF OnAnnounced
      <3>2. CASE pos # NoPoint
        <4>1. pos \in Logged
          BY <1>7, <1>11, <2>1, <3>2 DEF LinkForks, AtPosition
        <4>2. QED
          BY <1>3, <3>2, <4>1
      <3>3. QED
        BY <3>1, <3>2
    <2>4. q \in Block /\ a \in Block
      BY <1>12, <2>3 DEF Point
    <2>5. n \in 1..Len(recent) /\ recent[n] \in Logged /\ recent[n] \in Block
          /\ Slot[recent[n]] <= Slot[q]
      <3>1. n \in 1..Len(recent)
        BY <1>13, <2>2
      <3>2. recent[n] \in Logged
        BY <1>9, <1>11, <3>1 DEF Unbroken
      <3>3. QED
        BY <1>12, <1>13, <2>2, <2>3, <3>1, <3>2
    <2>6. q \in Logged
      <3>1. OnChain(f, recent[n]) /\ OnChain(f, a)
        BY <1>8, <1>11, <2>3, <2>5 DEF Rooted
      <3>2. Slot[f] <= Slot[q]
        <4>1. Slot[f] <= Slot[recent[n]]
          BY <2>5, <3>1, ChainUp
        <4>2. QED
          BY <1>12, <2>4, <2>5, <4>1
      <3>3. OnChain(f, q)
        BY <2>3, <2>4, <3>1, <3>2, ChainLine
      <3>4. QED
        BY <1>8, <1>11, <2>3, <2>4, <3>3 DEF Rooted
    <2>7. ASSUME NEW x \in Held'
          PROVE  Slot[x] <= Slot[q]
      <3>1. PICK i \in 0..n : /\ i > 0 => recent[i] = x
                              /\ \A j \in (i + 1)..Len(recent) : Slot[x] < Slot[recent[j]]
        BY <1>15
      <3>2. x \in Block /\ Slot[x] \in Nat /\ Slot[q] \in Nat /\ Slot[recent[n]] \in Nat
        BY <1>11, <1>12, <2>4, <2>5
      <3>3. CASE i = n
        BY <2>2, <2>5, <3>1, <3>3
      <3>4. CASE i # n
        <4>1. n \in (i + 1)..Len(recent)
          BY <1>13, <3>4
        <4>2. Slot[x] < Slot[recent[n]]
          BY <3>1, <4>1
        <4>3. QED
          BY <2>5, <3>2, <4>2
      <3>5. QED
        BY <3>3, <3>4
    <2>8. QED
      BY <2>6, <2>7
  <1>18. StartsOnChain'
    BY <1>4 DEF StartsOnChain
  <1>19. Rooted(f)'
    BY <1>8, <1>10, <1>11 DEF Rooted
  <1>20. QED
    BY <1>10, <1>14, <1>16, <1>17, <1>18, <1>19 DEF LinkForks

(* What is restored holds a current block above those not above it, or only *)
(* blocks above it: the window is a window of slots.                        *)
Beyond(r, x, i) ==
    /\ i > 0 => r[i] = x
    /\ \A j \in (i + 1)..Len(r) : Slot[x] < Slot[r[j]]

LEMMA LastNPlaces ==
    ASSUME NEW S, NEW s \in Seq(S), NEW n \in Nat \ {0}
    PROVE  \E d \in 0..Len(s) : /\ Len(LastN(s, n)) = Len(s) - d
                                /\ \A i \in 1..(Len(s) - d) : LastN(s, n)[i] = s[i + d]
  <1>1. Len(s) \in Nat
    BY LenProperties
  <1>2. CASE Len(s) <= n
    <2>1. PICK d \in 0..Len(s) : d = 0
      BY <1>1
    <2>2. Len(s) - d = Len(s) /\ \A i \in 1..(Len(s) - d) : i + d = i
      BY <1>1, <2>1
    <2>3. LastN(s, n) = s
      BY <1>2 DEF LastN
    <2>4. QED
      BY <2>2, <2>3, Zenon
  <1>3. CASE ~(Len(s) <= n)
    <2>1. PICK d \in 0..Len(s) : d = Len(s) - n
      <3>1. Len(s) - n \in 0..Len(s)
        BY <1>1, <1>3
      <3>2. QED
        BY <3>1, Zenon
    <2>2. LastN(s, n) = SubSeq(s, d + 1, Len(s))
      BY <1>3, <2>1 DEF LastN
    <2>3. /\ Len(SubSeq(s, d + 1, Len(s))) = Len(s) - d
          /\ \A i \in 1..(Len(s) - d) : SubSeq(s, d + 1, Len(s))[i] = s[i + d]
      BY <1>1, <1>3, <2>1
    <2>4. QED
      BY <2>2, <2>3
  <1>4. QED
    BY <1>2, <1>3

LEMMA BeyondLastN ==
    ASSUME NEW s \in Seq(Block), NEW n \in Nat \ {0}, NEW x, NEW i \in 0..Len(s), Beyond(s, x, i)
    PROVE  \E k \in 0..Len(LastN(s, n)) : Beyond(LastN(s, n), x, k)
  <1> DEFINE r == LastN(s, n)
  <1>1. PICK d \in 0..Len(s) : /\ Len(r) = Len(s) - d
                               /\ \A j \in 1..(Len(s) - d) : r[j] = s[j + d]
    BY LastNPlaces
  <1>2. Len(s) \in Nat
    OBVIOUS
  <1> HIDE DEF r
  <1>3. ASSUME NEW j \in 1..Len(r), j + d > i
        PROVE  Slot[x] < Slot[r[j]]
    <2>1. j + d \in (i + 1)..Len(s)
      BY <1>1, <1>2, <1>3
    <2>2. QED
      BY <1>1, <2>1 DEF Beyond
  <1>4. CASE i > d
    <2>1. i - d \in 1..Len(r) /\ (i - d) + d = i
      BY <1>1, <1>2, <1>4
    <2>2. r[i - d] = x
      BY <1>1, <1>4, <2>1 DEF Beyond
    <2>3. \A j \in (i - d + 1)..Len(r) : Slot[x] < Slot[r[j]]
      <3>1. \A j \in (i - d + 1)..Len(r) : j \in 1..Len(r) /\ j + d > i
        BY <1>1, <1>2, <2>1
      <3>2. QED
        BY <1>3, <3>1
    <2>4. QED
      BY <2>1, <2>2, <2>3 DEF Beyond, r
  <1>5. CASE ~(i > d)
    <2>1. \A j \in 1..Len(r) : Slot[x] < Slot[r[j]]
      BY <1>1, <1>2, <1>3, <1>5
    <2>2. 0 \in 0..Len(r)
      BY <1>1, <1>2
    <2>3. QED
      BY <2>1, <2>2 DEF Beyond, r
  <1>6. QED
    BY <1>4, <1>5

LEMMA RestoredInOrder ==
    ASSUME LogTyped, Whole, LoggedInOrder, NEW x \in Present
    PROVE  \E i \in 0..Len(RestoredBlocks(Kept)) : Beyond(RestoredBlocks(Kept), x, i)
  <1> DEFINE s == [i \in Kept |-> log[i].blk]
             P == InBackfill(Kept)
             sub == Subsequence(s, P)
             B == Places(log, "block")
  <1>1. CASE Backfill = 0
    <2>1. RestoredBlocks(Kept) = <<>> /\ Len(<<>>) = 0 /\ 0 \in 0..0
      BY <1>1, EmptySeq DEF RestoredBlocks
    <2>2. QED
      BY <2>1 DEF Beyond
  <1>2. CASE Backfill # 0
    <2>1. /\ Len(log) \in Nat /\ Kept \in SUBSET (0..Len(log)) /\ Kept \in SUBSET (1..Len(log))
          /\ now \in Nat /\ Backfill \in Nat /\ Retention \in Nat
      BY KeptFacts, LogAssumption DEF LogTyped
    <2>2. \A i \in P : i \in Kept /\ i \in B
      BY <2>1 DEF InBackfill, Places
    <2>3. /\ \A i \in B : log[i].blk \in Block /\ log[i].ts = Slot[log[i].blk] /\ i \in 1..Len(log)
          /\ \A b \in Block : Slot[b] \in Nat
      <3>1. "block" \in Kind
        BY DEF Kind
      <3>2. QED
        BY <3>1, BlksTyped, TreeAssumption DEF Whole
    <2>4. \A i \in B : i \in P <=> Slot[log[i].blk] + Backfill >= now
                                   /\ Slot[log[i].blk] + Retention >= now
      <3>1. ASSUME NEW i \in B
            PROVE  i \in Readable
        <4>1. \A j \in 1..i : j \in 1..Len(log)
          BY <2>1, <2>3
        <4>2. QED
          BY <2>3, <4>1 DEF Whole, Readable, IsTorn
      <3>2. QED
        BY <2>3, <3>1 DEF InBackfill, Kept, InWindow, Places
    <2>5. PICK p \in B : log[p].blk = x /\ \A j \in B : j > p => Slot[x] < Slot[log[j].blk]
      BY DEF LoggedInOrder
    <2>6. P \in SUBSET (0..Len(log)) /\ P \in SUBSET Nat
      <3> HIDE DEF P
      <3>1. P \in SUBSET (0..Len(log))
        BY <2>1, <2>2
      <3>2. QED
        BY <2>1, <3>1
    <2>7. sub \in Seq(Block)
      <3>1. \A i \in P : s[i] \in Block
        BY <2>2, <2>3
      <3> HIDE DEF s, P
      <3>2. QED
        BY <2>1, <2>6, <3>1, SubsequenceFacts
    <2>8. /\ Cardinality(P) \in Nat /\ Len(sub) = Cardinality(P)
          /\ \A k \in 1..Len(sub) : Nth(P, k) \in P /\ sub[k] = log[Nth(P, k)].blk
      <3> HIDE DEF P
      <3>1. Cardinality(P) \in Nat /\ \A k \in 1..Cardinality(P) : Nth(P, k) \in P
        BY <2>1, <2>6, RankGrows, NthFacts
      <3>2. Len(sub) = Cardinality(P)
        BY <3>1 DEF Subsequence
      <3>3. \A k \in 1..Cardinality(P) : sub[k] = s[Nth(P, k)]
        BY DEF Subsequence
      <3>4. QED
        BY <2>2, <3>1, <3>2, <3>3
    <2> HIDE DEF P, sub, s, B
    <2>9. \E i \in 0..Len(sub) : Beyond(sub, x, i)
      <3>1. CASE p \in P
        <4>1. Rank(P, p) \in 1..Len(sub) /\ Nth(P, Rank(P, p)) = p
          BY <2>1, <2>6, <2>8, <3>1, RankGrows, NthFacts
        <4>2. PICK m \in 1..Len(sub) : m = Rank(P, p)
          BY <4>1
        <4>3. sub[m] = x
          BY <2>5, <2>8, <4>1, <4>2
        <4>4. ASSUME NEW k \in (m + 1)..Len(sub)
              PROVE  Slot[x] < Slot[sub[k]]
          <5>1. k \in 1..Len(sub) /\ m < k
            BY <2>8
          <5>2. p < Nth(P, k)
            <6>1. \A i, j \in 1..Cardinality(P) : i < j => Nth(P, i) < Nth(P, j)
              BY <2>1, <2>6, NthFacts
            <6>2. QED
              BY <2>8, <4>1, <4>2, <5>1, <6>1
          <5>3. Nth(P, k) \in B /\ Nth(P, k) > p
            BY <2>2, <2>5, <2>6, <2>8, <3>1, <5>1, <5>2
          <5>4. QED
            BY <2>5, <2>8, <5>1, <5>3
        <4>5. QED
          BY <2>8, <4>3, <4>4 DEF Beyond
      <3>2. CASE p \notin P
        <4>1. ASSUME NEW k \in 1..Len(sub)
              PROVE  Slot[x] < Slot[sub[k]]
          <5>1. /\ Nth(P, k) \in B /\ Nth(P, k) \in P /\ sub[k] = log[Nth(P, k)].blk
            BY <2>2, <2>8
          <5>2. /\ Slot[sub[k]] + Backfill >= now /\ Slot[sub[k]] + Retention >= now
                /\ Slot[sub[k]] \in Nat
            BY <2>3, <2>4, <5>1
          <5>3. ~(Slot[x] + Backfill >= now /\ Slot[x] + Retention >= now) /\ Slot[x] \in Nat
            BY <2>3, <2>4, <2>5, <3>2
          <5>4. QED
            BY <2>1, <5>2, <5>3
        <4>2. 0 \in 0..Len(sub)
          BY <2>8
        <4>3. QED
          BY <4>1, <4>2 DEF Beyond
      <3>3. QED
        BY <3>1, <3>2
    <2>10. RestoredBlocks(Kept) = LastN(sub, RecentCap)
      BY <1>2 DEF RestoredBlocks, sub, s, P
    <2>11. QED
      BY <2>7, <2>9, <2>10, BeyondLastN, CapAssumption
  <1>3. QED
    BY <1>1, <1>2

LEMMA BootFork ==
    ASSUME ForkInv, MissInv', Boot
    PROVE  ForkInv'
  <1>1. LogTyped /\ WireLeads
    BY DEF ForkInv, MissInv, SeenInv
  <1>2. /\ ~up /\ recent' = RestoredBlocks(Kept)
        /\ UNCHANGED <<log, batch, tears>> /\ UNCHANGED <<owesRollback, phase, pos>>
    BY <1>1, BootFacts
  <1>3. phase = "down" /\ batch = <<>> /\ pos = NoPoint /\ ~owesRollback
    BY <1>1, <1>2 DEF ForkInv, MissInv, WireLeads
  <1>4. SUFFICES ASSUME ~skipped', tears' = 0
                 PROVE  LogForks' /\ LinkForks' /\ \E f \in Block : Rooted(f)'
    BY DEF ForkInv
  <1>5. ~skipped /\ tears = 0
    BY <1>2, <1>4 DEF Boot
  <1>6. PICK f \in Block : Rooted(f)
    BY <1>5 DEF ForkInv
  <1>7. LogForks /\ LinkForks
    BY <1>5 DEF ForkInv
  <1>8. LogForks' /\ BlockFirst' /\ FitsOn' /\ Rooted(f)' /\ Held' = Held
    BY <1>2, <1>6, <1>7, NothingNew DEF LinkForks
  <1>9. Held = Present
    BY <1>3, NothingQueued DEF Held, Coming, Going
  <1>10. Recorded'
    <2>1. ASSUME NEW x \in Held'
          PROVE  \E i \in 0..Len(recent') : RecordedAt(x, i)'
      <3>1. \E i \in 0..Len(RestoredBlocks(Kept)) : Beyond(RestoredBlocks(Kept), x, i)
        BY <1>1, <1>7, <1>8, <1>9, RestoredInOrder DEF LogForks
      <3>2. \E i \in 0..Len(recent') : Beyond(recent', x, i)
        BY <1>2, <3>1
      <3>3. QED
        BY <3>2 DEF Beyond, RecordedAt
    <2>2. QED
      BY <2>1 DEF Recorded
  <1>11. AtPosition' /\ StartsOnChain'
    BY <1>2, <1>3 DEF AtPosition, StartsOnChain
  <1>12. QED
    BY <1>8, <1>10, <1>11 DEF LinkForks

LEMMA InitFork == LogInit => ForkInv
  <1> SUFFICES ASSUME LogInit PROVE ForkInv
    OBVIOUS
  <1>1. /\ log = <<>> /\ batch = <<>> /\ recent = <<>> /\ pos = NoPoint /\ wire = <<>>
        /\ nodeTip \in Block
    BY DEF LogInit, Init
  <1>2. ~owesRollback
    BY Zenon DEF LogInit, Init
  <1>3. /\ Logged = {} /\ Coming = {} /\ Going = {} /\ Present = {} /\ Announced = {} /\ Held = {}
        /\ Places(log, "block") = {} /\ Places(batch, "block") = {} /\ Len(log) = 0
    <2>1. Logged = {} /\ Coming = {} /\ Going = {} /\ Announced = {}
      BY <1>1, NothingQueued DEF Logged, Coming, Going, Announced
    <2>2. QED
      BY <1>1, <2>1, NothingQueued, EmptySeq DEF Present, Held
  <1>4. LogForks
    BY <1>3 DEF LogForks, Whole, LoggedInOrder, AllApart
  <1>5. LinkForks
    BY <1>1, <1>2, <1>3
    DEF LinkForks, BlockFirst, Recorded, AtPosition, StartsOnChain, FitsOn
  <1>6. Rooted(nodeTip)
    BY <1>3 DEF Rooted
  <1>7. QED
    BY <1>1, <1>4, <1>5, <1>6, InitMiss DEF ForkInv

LEMMA StepFork == ForkInv /\ [LogNext]_allVars => ForkInv'
  <1> SUFFICES ASSUME ForkInv, [LogNext]_allVars PROVE ForkInv'
    OBVIOUS
  <1>1. MissInv'
    BY StepMiss DEF ForkInv
  <1>2. CASE Boot
    BY <1>1, <1>2, BootFork
  <1>3. CASE Crash
    BY <1>1, <1>3, CrashFork
  <1>4. CASE Publish
    BY <1>1, <1>4, PublishFork
  <1>5. CASE Forward
    BY <1>1, <1>5, ForwardFork
  <1>6. CASE Backward
    BY <1>1, <1>6, BackwardFork
  <1>7. CASE Serve /\ UNCHANGED logVars
    BY <1>1, <1>7, ServeFork
  <1>8. CASE Link
    BY <1>1, <1>8, LinkFork
  <1>9. CASE Tick \/ (\E b \in Block : NodeMoves(b)) \/ UNCHANGED allVars
    BY <1>1, <1>9, IdleFork
  <1>10. QED
    BY <1>2, <1>3, <1>4, <1>5, <1>6, <1>7, <1>8, <1>9 DEF LogNext

(* What the log last said of a logged block. *)
LEMMA LastSaidFacts ==
    ASSUME LogTyped, NEW b \in Logged
    PROVE  /\ LastSaid(b).kind \in {"block", "orphaned_block"}
           /\ LastSaid(b).kind = "block" <=> b \in Present
  <1> DEFINE S == {i \in 1..Len(log) : /\ log[i].kind \in {"block", "orphaned_block"}
                                       /\ log[i].blk = b}
             m == Max(S)
  <1>1. m \in S /\ \A i \in S : i <= m
    <2>1. Len(log) \in Nat
      BY LenProperties DEF LogTyped
    <2>2. PICK i \in Places(log, "block") : log[i].blk = b
      BY DEF Logged, Blks
    <2>3. i \in S
      BY <2>2 DEF Places
    <2>4. S \in SUBSET Nat /\ \A j \in S : j <= Len(log)
      BY <2>1
    <2> HIDE DEF S
    <2>5. QED
      BY <2>1, <2>3, <2>4, MaxIsGreatest
  <1>2. LastSaid(b) = log[m]
    BY DEF LastSaid
  <1> HIDE DEF m
  <1>3. m \in 1..Len(log) /\ log[m].kind \in {"block", "orphaned_block"} /\ log[m].blk = b
    BY <1>1
  <1>4. \A i \in Places(log, "block") \cup Places(log, "orphaned_block") :
           log[i].blk = b => i <= m /\ i \in Nat /\ m \in Nat
    BY <1>1, <1>3 DEF Places
  <1>5. ASSUME log[m].kind = "block"
        PROVE  b \in Present
    <2>1. m \in Places(log, "block")
      BY <1>3, <1>5 DEF Places
    <2>2. ASSUME NEW j \in Places(log, "orphaned_block"), log[j].blk = b
          PROVE  j < m
      <3>1. j # m
        BY <1>5 DEF Places
      <3>2. QED
        BY <1>4, <2>2, <3>1
    <2>3. QED
      BY <1>3, <2>1, <2>2 DEF Present, StandsAt
  <1>6. ASSUME b \in Present
        PROVE  log[m].kind = "block"
    <2>1. PICK i \in Places(log, "block") :
             log[i].blk = b /\ \A j \in Places(log, "orphaned_block") : log[j].blk = b => j < i
      BY <1>6 DEF Present, StandsAt
    <2>2. SUFFICES ASSUME log[m].kind = "orphaned_block" PROVE FALSE
      BY <1>3
    <2>3. m \in Places(log, "orphaned_block")
      BY <1>3, <2>2 DEF Places
    <2>4. m < i
      BY <1>3, <2>1, <2>3
    <2>5. i <= m /\ i \in Nat /\ m \in Nat
      BY <1>4, <2>1
    <2>6. ~(m < i)
      BY <2>5
    <2>7. QED
      BY <2>4, <2>6
  <1>7. QED
    BY <1>2, <1>3, <1>5, <1>6

(* Forks of the time the process was down, or stopped in the middle of,     *)
(* are told after the next start: once caught up, what the log holds for    *)
(* current is on the node's chain, for every block tree, every window, any  *)
(* number of forks, stops and lost connections.                             *)
THEOREM ForksAreBackfilled == LogSpec => []ForksBackfilled
  <1>1. ASSUME ForkInv
        PROVE  ForksBackfilled
    <2>1. SUFFICES ASSUME up, batch = <<>>, phase = "live", wire = <<>>, readPtr = nodeTip,
                          ~owesRollback, ~skipped, tears = 0,
                          NEW x \in LoggedBlocks, LastSaid(x).kind = "block",
                          ~OnChain(x, nodeTip)
                   PROVE  \E b \in LoggedBlocks : /\ LastSaid(b).kind = "orphaned_block"
                                                  /\ OnChain(b, nodeTip)
      BY DEF ForksBackfilled
    <2>2. LogTyped /\ WireLeads
      BY <1>1 DEF ForkInv, MissInv, SeenInv
    <2>3. LoggedBlocks = Logged
      BY DEF LoggedBlocks, Logged, Blks, Places
    <2>4. x \in Present
      BY <2>1, <2>2, <2>3, LastSaidFacts
    <2>5. pos # NoPoint /\ pos = nodeTip
      BY <2>1, <2>2 DEF WireLeads
    <2>6. Coming = {} /\ Held = Present /\ Announced = Logged
      BY <2>1, NothingQueued DEF Coming, Going, Held, Announced, Logged
    <2>7. nodeTip \in Logged /\ Slot[x] <= Slot[nodeTip]
      BY <1>1, <2>1, <2>3, <2>4, <2>5, <2>6 DEF ForkInv, LinkForks, AtPosition
    <2>8. Slot[x] \in Nat /\ Slot[nodeTip] \in Nat
      BY <2>2, <2>4, <2>7, ForkTypes
    <2>9. Overtaken(x, nodeTip)
      BY <1>1, <2>1, <2>4, <2>7, <2>8 DEF ForkInv, LogForks, AllApart, Apart
    <2>10. PICK c \in Gone : OnChain(c, nodeTip)
      BY <2>9 DEF Overtaken
    <2>11. c \in Logged /\ c \notin Present
      BY DEF Gone
    <2>12. LastSaid(c).kind = "orphaned_block"
      BY <2>2, <2>11, LastSaidFacts
    <2>13. QED
      BY <2>3, <2>10, <2>11, <2>12
  <1>2. ForkInv => ForksBackfilled
    BY <1>1
  <1>3. QED
    BY InitFork, StepFork, <1>2, PTL DEF LogSpec
=============================================================================
