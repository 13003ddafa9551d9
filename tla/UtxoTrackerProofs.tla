-------------------------- MODULE UtxoTrackerProofs --------------------------
(***************************************************************************)
(* What the scanners remember of open outputs, for any number of threads   *)
(* and versions, any capacity and retention, and any sequence of blocks,   *)
(* rollbacks and restarts: while there was room an open output is tracked, *)
(* a spent one is forgotten, and a hub output links nothing.               *)
(***************************************************************************)
EXTENDS UtxoTracker, DataLemmas

(* Wayup's queue holds exactly the outputs tracked; another dApp scanner's *)
(* is no longer than what was inserted.                                    *)
QueueFits(s) ==
    /\ scanner = "wayup" =>
         /\ ToSet(s.fifo) = s.map
         /\ \A i, j \in 1..Len(s.fifo) : s.fifo[i] = s.fifo[j] => i = j
    /\ scanner \notin {"dex", "wayup"} => Len(s.fifo) <= s.inserted

(* The states of a tracker. *)
Trackers ==
    {s \in [map : SUBSET Tx, fifo : Seq(Tx), inserted : Nat, peak : Nat] :
        IsFiniteSet(s.map) /\ QueueFits(s)}

Room(s) == IF scanner \in {"dex", "wayup"} THEN s.peak <= TrackerCap ELSE s.inserted <= TrackerCap

TypeOK ==
    /\ scanner \in Scanners
    /\ ledger \in Seq(Seq(Tx))
    /\ hubs \in SUBSET Tx /\ linked \in SUBSET Tx /\ forkSpent \in SUBSET Tx
    /\ DOMAIN txCache \in SUBSET Tx /\ IsFiniteSet(DOMAIN txCache)
    /\ txCache \in [DOMAIN txCache -> Nat]
    /\ rolledBack \in Nat /\ rebooted \in Nat

(* Every transaction of the chain is in one block, after the one it spends. *)
Linear ==
    \A i \in 1..Len(ledger) : \A x \in ToSet(ledger[i]) :
        /\ \A j \in 1..Len(ledger) : x \in ToSet(ledger[j]) => i = j
        /\ \A o \in Spends(x) : \E j \in 1..i : o \in ToSet(ledger[j])

(* Whoever was seen to spend an output still does, or was rolled back. *)
Settled(x) == x \in OnChain(ledger) \/ Spends(x) \subseteq forkSpent

(* The cache has the blocks its transactions are in, and lets go of the    *)
(* oldest first.                                                           *)
CacheFits ==
    /\ \A x \in DOMAIN txCache : Settled(x)
    /\ \A i \in 1..Len(ledger) : \A x \in ToSet(ledger[i]) :
         /\ x \in DOMAIN txCache => txCache[x] = i
         /\ \A j \in 1..i : \A o \in ToSet(ledger[j]) : o \in DOMAIN txCache => x \in DOMAIN txCache

LinkedFits == \A x \in linked : Settled(x)

(* An output that was spent on an abandoned fork, or was not in the cache  *)
(* at a restart.                                                           *)
Excused(o) == o \in forkSpent \/ (rebooted > 0 /\ o \notin DOMAIN txCache)

HubsHeld == scanner \in HasHubs => \A o \in OpenOn(ledger) : o \in hubs \/ Excused(o)

TrackerInv ==
    /\ TypeOK /\ Tracker \in Trackers /\ Linear /\ CacheFits /\ LinkedFits /\ HubsHeld
    /\ OpenIsTracked /\ SpentIsForgotten

-----------------------------------------------------------------------------
(* Transactions. *)

(* An output has one spender, and only an output that exists has one. *)
LEMMA TxFacts ==
    ASSUME NEW x \in Tx
    PROVE  /\ Spends(x) \in SUBSET Tx /\ Creates(x) \in SUBSET {x} /\ x \notin Spends(x)
           /\ IsFiniteSet(Spends(x)) /\ IsFiniteSet(Creates(x))
           /\ \A o \in Spends(x) : /\ Creates(o) = {o} /\ Spends(x) = {o}
                                   /\ x = <<o[1], o[2] + 1>> /\ x # o
           /\ \A y \in Tx : \A o \in Spends(x) : o \in Spends(y) => x = y
           /\ x[2] = 0 => Spends(x) = {}
           /\ x[2] # 0 => Spends(x) = {<<x[1], x[2] - 1>>}
  <1>1. Final \in Nat
    BY TrackerAssumption
  <1>2. /\ x[1] \in Threads /\ x[2] \in 0..Final /\ x = <<x[1], x[2]>>
    BY DEF Tx
  <1>3. Creates(x) \in SUBSET {x} /\ IsFiniteSet(Creates(x))
    BY FS_EmptySet, FS_Singleton DEF Creates
  <1>4. x[2] # 0 => Spends(x) = {<<x[1], x[2] - 1>>}
    BY DEF Spends
  <1>5. x[2] = 0 => Spends(x) = {}
    BY DEF Spends
  <1>6. Spends(x) \in SUBSET Tx
    BY <1>1, <1>2, <1>4, <1>5 DEF Tx
  <1>7. x \notin Spends(x)
    BY <1>1, <1>2, <1>4, <1>5
  <1>8. IsFiniteSet(Spends(x))
    BY <1>4, <1>5, FS_EmptySet, FS_Singleton
  <1>9. ASSUME NEW o \in Spends(x)
        PROVE  /\ Creates(o) = {o} /\ Spends(x) = {o}
               /\ x = <<o[1], o[2] + 1>> /\ x # o
               /\ \A y \in Tx : o \in Spends(y) => x = y
    <2>1. x[2] # 0 /\ o = <<x[1], x[2] - 1>>
      BY <1>4, <1>5, <1>9
    <2>2. o[1] = x[1] /\ o[2] = x[2] - 1 /\ o[2] # Final /\ o[2] + 1 = x[2]
      BY <1>1, <1>2, <2>1
    <2>3. Creates(o) = {o} /\ Spends(x) = {o} /\ x # o
      BY <1>4, <1>7, <2>1, <2>2 DEF Creates
    <2>4. x = <<o[1], o[2] + 1>>
      BY <1>2, <2>2
    <2>5. ASSUME NEW y \in Tx, o \in Spends(y)
          PROVE  x = y
      <3>1. y[2] # 0 /\ o = <<y[1], y[2] - 1>>
        BY <2>5 DEF Spends
      <3>2. y = <<y[1], y[2]>> /\ y[2] \in 0..Final
        BY DEF Tx
      <3>3. o[1] = y[1] /\ o[2] = y[2] - 1
        BY <3>1
      <3>4. y[1] = x[1] /\ y[2] = x[2]
        BY <1>1, <1>2, <2>2, <3>2, <3>3
      <3>5. QED
        BY <1>2, <3>2, <3>4
    <2>6. QED
      BY <2>3, <2>4, <2>5
  <1>10. QED
    BY <1>3, <1>4, <1>5, <1>6, <1>7, <1>8, <1>9

(* The chain and what is spent and open on it. *)
LEMMA ChainMembers ==
    ASSUME NEW c \in Seq(Seq(Tx))
    PROVE  /\ Len(c) \in Nat /\ \A i \in 1..Len(c) : c[i] \in Seq(Tx) /\ ToSet(c[i]) \in SUBSET Tx
           /\ OnChain(c) \in SUBSET Tx
           /\ \A x : x \in OnChain(c) <=> \E i \in 1..Len(c) : x \in ToSet(c[i])
           /\ \A o : o \in SpentIn(c) <=> \E x \in OnChain(c) : o \in Spends(x)
           /\ SpentIn(c) \in SUBSET Tx
           /\ \A o : o \in OpenOn(c) <=> o \in OnChain(c) /\ Creates(o) = {o} /\ o \notin SpentIn(c)
  <1>1. Len(c) \in Nat /\ DOMAIN c = 1..Len(c) /\ \A i \in 1..Len(c) : c[i] \in Seq(Tx)
    OBVIOUS
  <1>2. \A i \in 1..Len(c) : ToSet(c[i]) \in SUBSET Tx
    BY <1>1, ToSetType
  <1>3. \A x : x \in OnChain(c) <=> \E i \in 1..Len(c) : x \in ToSet(c[i])
    BY <1>1 DEF OnChain
  <1>4. OnChain(c) \in SUBSET Tx
    BY <1>2, <1>3
  <1>5. \A o : o \in SpentIn(c) <=> \E x \in OnChain(c) : o \in Spends(x)
    BY DEF SpentIn
  <1>6. SpentIn(c) \in SUBSET Tx
    BY <1>4, <1>5, TxFacts
  <1>7. ASSUME NEW o
        PROVE  o \in OpenOn(c) <=> o \in OnChain(c) /\ Creates(o) = {o} /\ o \notin SpentIn(c)
    <2>1. o \in OpenOn(c) <=> (\E x \in OnChain(c) : o \in Creates(x)) /\ o \notin SpentIn(c)
      BY DEF OpenOn
    <2>2. \A x \in OnChain(c) : o \in Creates(x) => o = x
      BY <1>4, TxFacts
    <2>3. \A x : x \in Creates(x) => Creates(x) = {x}
      BY DEF Creates
    <2>4. QED
      BY <2>1, <2>2, <2>3
  <1>8. QED
    BY <1>1, <1>2, <1>3, <1>4, <1>5, <1>6, <1>7

-----------------------------------------------------------------------------
(* One step of a tracker. *)

LEMMA WithoutFacts ==
    ASSUME NEW q \in Seq(Tx), NEW outs
    PROVE  /\ Without(q, outs) \in Seq(Tx)
           /\ ToSet(Without(q, outs)) = ToSet(q) \ outs
           /\ (\A i, j \in 1..Len(q) : q[i] = q[j] => i = j) =>
                 \A i, j \in 1..Len(Without(q, outs)) :
                    Without(q, outs)[i] = Without(q, outs)[j] => i = j
  <1> DEFINE P == {i \in 1..Len(q) : q[i] \notin outs}
             r == Subsequence(q, P)
  <1>1. Len(q) \in Nat /\ P \in SUBSET (0..Len(q)) /\ \A i \in P : q[i] \in Tx
    OBVIOUS
  <1>2. Without(q, outs) = r
    BY DEF Without
  <1> HIDE DEF P
  <1>3. /\ r \in Seq(Tx) /\ ToSet(r) = {q[i] : i \in P}
        /\ (\A i, j \in P : q[i] = q[j] => i = j) => IsInjective(r)
    <2> DEFINE n == Len(q)
    <2>1. n \in Nat /\ P \in SUBSET (0..n) /\ \A i \in P : q[i] \in Tx
      BY <1>1
    <2> HIDE DEF n
    <2>2. r \in Seq(Tx)
      BY ONLY <2>1, SubsequenceFacts
    <2>3. ToSet(r) = {q[i] : i \in P}
      BY ONLY <2>1, SubsequenceMembers
    <2>4. (\A i, j \in P : q[i] = q[j] => i = j) => IsInjective(r)
      BY ONLY <2>1, SubsequenceFacts
    <2>5. QED
      BY <2>2, <2>3, <2>4
  <1> HIDE DEF r
  <1>4. ASSUME NEW v
        PROVE  v \in ToSet(r) <=> v \in ToSet(q) \ outs
    <2>1. v \in ToSet(r) <=> \E i \in P : v = q[i]
      BY <1>3
    <2>2. v \in ToSet(q) <=> \E i \in 1..Len(q) : q[i] = v
      BY ToSetMember
    <2>3. QED
      BY <2>1, <2>2 DEF P
  <1>5. ASSUME \A i, j \in 1..Len(q) : q[i] = q[j] => i = j
        PROVE  \A i, j \in 1..Len(r) : r[i] = r[j] => i = j
    <2>1. IsInjective(r)
      BY <1>3, <1>5 DEF P
    <2>2. DOMAIN r = 1..Len(r)
      BY <1>3
    <2>3. QED
      BY <2>1, <2>2 DEF IsInjective
  <1>6. QED
    BY <1>2, <1>3, <1>4, <1>5

LEMMA TakenFacts ==
    ASSUME NEW s \in Trackers, NEW outs
    PROVE  /\ Taken(s, outs) \in Trackers /\ Taken(s, outs).map = s.map \ outs
           /\ Taken(s, outs).inserted = s.inserted /\ Taken(s, outs).peak = s.peak
  <1> DEFINE q == IF scanner \in KeepsQueueExact THEN Without(s.fifo, outs) ELSE s.fifo
             m == s.map \ outs
             t == Taken(s, outs)
  <1>1. /\ s \in [map : SUBSET Tx, fifo : Seq(Tx), inserted : Nat, peak : Nat]
        /\ IsFiniteSet(s.map) /\ QueueFits(s)
    BY DEF Trackers
  <1>2. t = [map |-> m, fifo |-> q, inserted |-> s.inserted, peak |-> s.peak]
    <2>1. t = [s EXCEPT !.map = m, !.fifo = q]
      BY DEF Taken
    <2> HIDE DEF m, q, t
    <2>2. QED
      BY <1>1, <2>1
  <1>3. IsFiniteSet(m) /\ m \in SUBSET Tx
    BY <1>1, FS_Subset
  <1>4. q \in Seq(Tx)
    BY <1>1, WithoutFacts
  <1>5. QueueFits(t)
    <2>1. CASE scanner = "wayup"
      <3>1. q = Without(s.fifo, outs)
        BY <2>1 DEF KeepsQueueExact
      <3>2. /\ ToSet(s.fifo) = s.map
            /\ \A i, j \in 1..Len(s.fifo) : s.fifo[i] = s.fifo[j] => i = j
        BY <1>1, <2>1 DEF QueueFits
      <3>3. ToSet(q) = m /\ \A i, j \in 1..Len(q) : q[i] = q[j] => i = j
        BY <1>1, <3>1, <3>2, WithoutFacts
      <3> HIDE DEF q
      <3>4. QED
        BY <1>2, <2>1, <3>3 DEF QueueFits
    <2>2. CASE scanner # "wayup"
      <3>1. q = s.fifo
        BY <2>2 DEF KeepsQueueExact
      <3>2. QED
        BY <1>1, <1>2, <2>2, <3>1 DEF QueueFits
    <2>3. QED
      BY <2>1, <2>2
  <1> HIDE DEF q, m, t
  <1>6. /\ t \in [map : SUBSET Tx, fifo : Seq(Tx), inserted : Nat, peak : Nat]
        /\ t.map = m /\ t.inserted = s.inserted /\ t.peak = s.peak
    BY <1>1, <1>2, <1>3, <1>4
  <1>7. t \in Trackers
    BY <1>2, <1>3, <1>5, <1>6 DEF Trackers
  <1>8. QED
    BY <1>6, <1>7 DEF m, t

(* The larger of two numbers. *)
LEMMA MaxOfTwo ==
    ASSUME NEW m \in Nat, NEW n \in Nat
    PROVE  Max({m, n}) \in Nat /\ Max({m, n}) >= m /\ Max({m, n}) >= n
  <1>1. m + n \in Nat /\ \A k \in {m, n} : k <= m + n
    OBVIOUS
  <1>2. Max({m, n}) \in {m, n} /\ \A k \in {m, n} : Max({m, n}) >= k
    BY <1>1, MaxIsGreatest
  <1>3. QED
    BY <1>2

(* A queue without repetitions is as long as the set of its elements. *)
LEMMA DistinctLength ==
    ASSUME NEW q \in Seq(Tx), \A i, j \in 1..Len(q) : q[i] = q[j] => i = j
    PROVE  Cardinality(ToSet(q)) = Len(q) /\ IsFiniteSet(ToSet(q))
  <1>1. Len(q) \in Nat /\ q \in [1..Len(q) -> ToSet(q)] /\ DOMAIN q = 1..Len(q)
    <2>1. Len(q) \in Nat /\ DOMAIN q = 1..Len(q) /\ q = [i \in 1..Len(q) |-> q[i]]
      OBVIOUS
    <2>2. \A i \in 1..Len(q) : q[i] \in ToSet(q)
      BY ToSetMember
    <2>3. QED
      BY <2>1, <2>2
  <1>2. q \in Bijection(1..Len(q), ToSet(q))
    <2>1. \A e \in ToSet(q) : \E i \in 1..Len(q) : q[i] = e
      BY ToSetMember
    <2>2. q \in Injection(1..Len(q), ToSet(q))
      BY <1>1 DEF Injection, IsInjective
    <2>3. q \in Surjection(1..Len(q), ToSet(q))
      BY <1>1, <2>1 DEF Surjection
    <2>4. QED
      BY <2>2, <2>3 DEF Bijection
  <1>3. IsFiniteSet(1..Len(q)) /\ Cardinality(1..Len(q)) = Len(q)
    BY <1>1, FS_Interval
  <1>4. QED
    BY <1>2, <1>3, FS_Bijection DEF ExistsBijection

(* What an insertion leaves: the outputs before it and the new one, unless *)
(* there was no room.                                                      *)
Grew(s, t, o) ==
    /\ t \in Trackers /\ t.map \subseteq s.map \union {o}
    /\ t.inserted >= s.inserted /\ t.peak >= s.peak
    /\ Room(t) => t.map = s.map \union {o}

LEMMA InsertedFacts ==
    ASSUME NEW s \in Trackers, NEW o \in Tx, scanner # "dex"
    PROVE  Grew(s, Inserted(s, o), o)
  <1> DEFINE t == Inserted(s, o)
             q == Append(s.fifo, o)
             m == s.map \union {o}
             cut == IF Len(q) > TrackerCap THEN {q[1]} ELSE {}
             rest == IF cut = {} THEN q ELSE Tail(q)
             p == Max({s.peak, Cardinality(s.map) + 1})
  <1>1. /\ s.map \in SUBSET Tx /\ s.fifo \in Seq(Tx) /\ s.inserted \in Nat /\ s.peak \in Nat
        /\ IsFiniteSet(s.map) /\ QueueFits(s) /\ TrackerCap \in Nat \ {0}
    BY TrackerAssumption DEF Trackers
  <1>2. CASE o \in s.map
    <2>1. t = s /\ s.map = s.map \union {o}
      BY <1>2 DEF Inserted, InsertedUpTo
    <2>2. QED
      BY <1>1, <2>1 DEF Grew
  <1>3. CASE o \notin s.map
    <2>1. t = [map |-> m \ cut, fifo |-> rest, inserted |-> s.inserted + 1, peak |-> p]
      BY <1>3 DEF Inserted, InsertedUpTo
    <2>2. IsFiniteSet(m) /\ Cardinality(m) = Cardinality(s.map) + 1 /\ Cardinality(s.map) \in Nat
      BY <1>1, <1>3, FS_AddElement, FS_CardinalityType
    <2>3. p \in Nat /\ p >= s.peak /\ p >= Cardinality(m)
      BY <1>1, <2>2, MaxOfTwo
    <2>4. /\ q \in Seq(Tx) /\ Len(q) = Len(s.fifo) + 1 /\ Len(s.fifo) \in Nat
          /\ \A i \in 1..Len(s.fifo) : q[i] = s.fifo[i]
          /\ q[Len(q)] = o /\ q # <<>>
      BY <1>1, AppendProperties
    <2>5. rest \in Seq(Tx) /\ Len(rest) = (IF cut = {} THEN Len(q) ELSE Len(q) - 1)
      BY <2>4, HeadTailProperties
    <2>6. cut # {} => \A i \in 1..Len(rest) : rest[i] = q[i + 1]
      BY <2>4, HeadTailProperties
    <2>7. m \ cut \in SUBSET Tx /\ IsFiniteSet(m \ cut)
      BY <1>1, <2>2, FS_Subset
    <2>8. scanner \notin {"dex", "wayup"} => Len(rest) <= s.inserted + 1
      BY <1>1, <2>4, <2>5 DEF QueueFits
    <2>9. ASSUME scanner = "wayup"
          PROVE  /\ ToSet(rest) = m \ cut
                 /\ \A i, j \in 1..Len(rest) : rest[i] = rest[j] => i = j
                 /\ Len(q) = Cardinality(m)
      <3>1. /\ ToSet(s.fifo) = s.map
            /\ \A i, j \in 1..Len(s.fifo) : s.fifo[i] = s.fifo[j] => i = j
        BY <1>1, <2>9 DEF QueueFits
      <3>2. ToSet(q) = m
        BY <1>1, <3>1, ToSetAppend
      <3>3. \A i \in 1..Len(s.fifo) : q[i] # o
        BY <1>1, <1>3, <2>4, <3>1, ToSetMember
      <3>4. \A i, j \in 1..Len(q) : q[i] = q[j] => i = j
        <4>1. SUFFICES ASSUME NEW i \in 1..Len(q), NEW j \in 1..Len(q), q[i] = q[j]
                       PROVE  i = j
          OBVIOUS
        <4> HIDE DEF q
        <4>2. CASE i = Len(q) \/ j = Len(q)
          BY <2>4, <3>3, <4>1, <4>2
        <4>3. CASE i # Len(q) /\ j # Len(q)
          <5>1. i \in 1..Len(s.fifo) /\ j \in 1..Len(s.fifo)
            BY <2>4, <4>3
          <5>2. QED
            BY <2>4, <3>1, <4>1, <5>1
        <4>4. QED
          BY <4>2, <4>3
      <3>5. Len(q) = Cardinality(m)
        BY <2>4, <3>2, <3>4, DistinctLength
      <3> HIDE DEF q, m
      <3>6. CASE cut = {}
        BY <3>2, <3>4, <3>5, <3>6
      <3>7. CASE cut # {}
        <4>1. cut = {q[1]} /\ Len(q) \in Nat \ {0}
          BY <2>4, <3>7
        <4> HIDE DEF cut
        <4>2. rest = Tail(q)
          BY <3>7
        <4> HIDE DEF rest
        <4>3. Len(rest) = Len(q) - 1 /\ \A i \in 1..Len(rest) : rest[i] = q[i + 1] /\ i + 1 \in 1..Len(q)
          BY <2>4, <2>5, <2>6, <3>7
        <4>4. \A i, j \in 1..Len(rest) : rest[i] = rest[j] => i = j
          BY <3>4, <4>3
        <4>5. ASSUME NEW v
              PROVE  v \in ToSet(rest) <=> v \in m \ cut
          <5>1. v \in ToSet(rest) <=> \E i \in 1..Len(rest) : rest[i] = v
            BY <2>5, ToSetMember
          <5>2. v \in m <=> \E i \in 1..Len(q) : q[i] = v
            BY <2>4, <3>2, ToSetMember
          <5>3. v \in ToSet(rest) => v \in m \ cut
            <6>1. SUFFICES ASSUME NEW i \in 1..Len(rest), rest[i] = v
                           PROVE  v \in m \ cut
              BY <5>1
            <6>2. q[i + 1] = v /\ i + 1 \in 1..Len(q) /\ 1 \in 1..Len(q) /\ i + 1 # 1
              BY <4>1, <4>3, <6>1
            <6>3. QED
              BY <3>4, <4>1, <5>2, <6>2
          <5>4. v \in m \ cut => v \in ToSet(rest)
            <6>1. SUFFICES ASSUME NEW i \in 1..Len(q), q[i] = v, v # q[1]
                           PROVE  v \in ToSet(rest)
              BY <4>1, <5>2
            <6>2. i # 1
              BY <6>1
            <6>3. i - 1 \in 1..Len(rest) /\ i - 1 + 1 = i
              BY <4>1, <4>3, <6>2
            <6>4. rest[i - 1] = v
              BY <4>3, <6>1, <6>3
            <6>5. QED
              BY <5>1, <6>3, <6>4
          <5>5. QED
            BY <5>3, <5>4
        <4>6. QED
          BY <3>5, <4>4, <4>5
      <3>8. QED
        BY <3>6, <3>7
    <2>10. t.map = m \ cut /\ t.fifo = rest /\ t.inserted = s.inserted + 1 /\ t.peak = p
      <3> HIDE DEF m, cut, rest, p, t
      <3>1. QED
        BY <2>1
    <2>11. ASSUME Room(t)
           PROVE  cut = {}
      <3>1. CASE scanner = "wayup"
        <4>1. p <= TrackerCap /\ Len(q) <= p
          BY <2>3, <2>9, <2>10, <2>11, <3>1 DEF Room
        <4>2. QED
          BY <1>1, <2>3, <2>4, <4>1
      <3>2. CASE scanner # "wayup"
        <4>1. s.inserted + 1 <= TrackerCap /\ Len(s.fifo) <= s.inserted
          BY <1>1, <2>10, <2>11, <3>2 DEF Room, QueueFits
        <4>2. QED
          BY <1>1, <2>4, <4>1
      <3>3. QED
        BY <3>1, <3>2
    <2>12. QueueFits(t)
      BY <2>8, <2>9, <2>10 DEF QueueFits
    <2> HIDE DEF cut, rest, p, q, t
    <2>13. t \in [map : SUBSET Tx, fifo : Seq(Tx), inserted : Nat, peak : Nat]
      BY <1>1, <2>1, <2>3, <2>5, <2>7
    <2>14. t \in Trackers
      BY <2>7, <2>10, <2>12, <2>13 DEF Trackers
    <2>15. QED
      BY <1>1, <2>3, <2>10, <2>11, <2>14 DEF Grew, t
  <1>4. QED
    BY <1>2, <1>3

LEMMA RememberedFacts ==
    ASSUME NEW s \in Trackers, NEW o \in Tx, scanner = "dex"
    PROVE  Grew(s, RememberedOutput(s, o), o)
  <1> DEFINE t == RememberedOutput(s, o)
             full == Cardinality(s.map) >= TrackerCap /\ s.fifo # <<>>
             m == (IF full THEN s.map \ {Head(s.fifo)} ELSE s.map) \union {o}
             q == Append(IF full THEN Tail(s.fifo) ELSE s.fifo, o)
             p == Max({s.peak, Cardinality(s.map) + 1})
  <1>1. /\ s.map \in SUBSET Tx /\ s.fifo \in Seq(Tx) /\ s.inserted \in Nat /\ s.peak \in Nat
        /\ IsFiniteSet(s.map) /\ TrackerCap \in Nat \ {0} /\ Cardinality(s.map) \in Nat
    BY TrackerAssumption, FS_CardinalityType DEF Trackers
  <1>2. t = [map |-> m, fifo |-> q, inserted |-> s.inserted + 1, peak |-> p]
    BY DEF RememberedOutput
  <1>3. m \in SUBSET Tx /\ IsFiniteSet(m) /\ m \subseteq s.map \union {o}
    <2>1. s.map \union {o} \in SUBSET Tx /\ IsFiniteSet(s.map \union {o})
      BY <1>1, FS_AddElement
    <2>2. m \subseteq s.map \union {o}
      OBVIOUS
    <2>3. QED
      BY <2>1, <2>2, FS_Subset
  <1>4. p \in Nat /\ p >= s.peak /\ p >= Cardinality(s.map) + 1
    BY <1>1, MaxOfTwo
  <1>5. q \in Seq(Tx)
    BY <1>1, HeadTailProperties, AppendProperties
  <1>6. Room(t) => ~full
    BY <1>1, <1>2, <1>4 DEF Room
  <1>7. ~full => m = s.map \union {o}
    OBVIOUS
  <1> HIDE DEF m, q, p, full, t
  <1>8. t \in [map : SUBSET Tx, fifo : Seq(Tx), inserted : Nat, peak : Nat]
    BY <1>1, <1>2, <1>3, <1>4, <1>5
  <1>9. QueueFits(t)
    BY DEF QueueFits
  <1>10. t \in Trackers
    BY <1>2, <1>3, <1>8, <1>9 DEF Trackers
  <1>11. QED
    BY <1>1, <1>2, <1>3, <1>4, <1>6, <1>7, <1>10 DEF Grew, t

-----------------------------------------------------------------------------
(* Several steps. *)

(* A step that takes some outputs out and, while there is room, others in. *)
Turn(s, t, out, in) ==
    /\ t \in Trackers /\ t.map \subseteq (s.map \ out) \union in
    /\ t.inserted >= s.inserted /\ t.peak >= s.peak
    /\ Room(t) => t.map = (s.map \ out) \union in

LEMMA ScannedTxFacts ==
    ASSUME NEW s \in Trackers, NEW x \in Tx, scanner # "dex"
    PROVE  Turn(s, ScannedTx(s, x), Spends(x), Creates(x))
  <1> DEFINE r == Taken(s, Spends(x))
  <1>1. /\ r \in Trackers /\ r.map = s.map \ Spends(x)
        /\ r.inserted = s.inserted /\ r.peak = s.peak
    BY TakenFacts
  <1>2. s.inserted \in Nat /\ s.peak \in Nat
    BY DEF Trackers
  <1>3. ScannedTx(s, x) = IF Creates(x) = {} THEN r ELSE Inserted(r, x)
    BY DEF ScannedTx
  <1> HIDE DEF r
  <1>4. CASE Creates(x) = {}
    BY <1>1, <1>2, <1>3, <1>4 DEF Turn
  <1>5. CASE Creates(x) # {}
    <2>1. Creates(x) = {x}
      BY <1>5, TxFacts
    <2>2. Grew(r, Inserted(r, x), x)
      BY <1>1, InsertedFacts
    <2>3. QED
      BY <1>1, <1>3, <1>5, <2>1, <2>2 DEF Grew, Turn
  <1>6. QED
    BY <1>4, <1>5

(* Transactions scanned in turn are such steps, *)
LEMMA ScannedAllFacts ==
    ASSUME NEW s \in Trackers, NEW txs \in Seq(Tx), scanner # "dex"
    PROVE  \E f \in [0..Len(txs) -> Trackers] :
              /\ f[0] = s /\ ScannedAll(s, txs) = f[Len(txs)]
              /\ \A n \in 1..Len(txs) : Turn(f[n - 1], f[n], Spends(txs[n]), Creates(txs[n]))
  <1> DEFINE N == Len(txs)
             Is(f) == f = [n \in 0..N |-> IF n = 0 THEN s ELSE ScannedTx(f[n - 1], txs[n])]
             after == CHOOSE f : Is(f)
             step == [p \in (1..N) \X Trackers |-> ScannedTx(p[2], txs[p[1]])]
  <1>1. N \in Nat /\ \A n \in 1..N : txs[n] \in Tx
    OBVIOUS
  <1>2. \A r \in Trackers : \A x \in Tx : ScannedTx(r, x) \in Trackers
    BY ScannedTxFacts DEF Turn
  <1>3. step \in [(1..N) \X Trackers -> Trackers]
    <2>1. \A p \in (1..N) \X Trackers : ScannedTx(p[2], txs[p[1]]) \in Trackers
      BY <1>1, <1>2
    <2>2. QED
      BY <2>1
  <1>4. ScannedAll(s, txs) = after[N]
    BY DEF ScannedAll
  <1> HIDE DEF N
  <1>5. PICK g : Carries(g, N, Trackers, s, step)
    <2> HIDE DEF step
    <2>1. QED
      BY <1>1, <1>3, IterationExists
  <1>6. ASSUME NEW n \in 1..N
        PROVE  g[n] = ScannedTx(g[n - 1], txs[n])
    <2>1. n - 1 \in 0..N /\ <<n, g[n - 1]>> \in (1..N) \X Trackers
      BY <1>1, <1>5 DEF Carries
    <2>2. step[<<n, g[n - 1]>>] = ScannedTx(g[n - 1], txs[n])
      BY <2>1
    <2> HIDE DEF step
    <2>3. QED
      BY <1>5, <2>2 DEF Carries
  <1>7. Is(g)
    <2>1. g \in [0..N -> Trackers] /\ g[0] = s
      BY <1>5 DEF Carries
    <2>2. QED
      BY <1>1, <1>6, <2>1
  <1>8. Is(after)
    BY <1>7
  <1> HIDE DEF after, step
  <1>9. after[0] = s /\ \A n \in 1..N : after[n] = ScannedTx(after[n - 1], txs[n])
    BY <1>1, <1>8
  <1> DEFINE S == {n \in Nat : n <= N => after[n] \in Trackers}
  <1>10. 0 \in S
    BY <1>9
  <1>11. ASSUME NEW n \in Nat, n \in S
         PROVE  n + 1 \in S
    <2>1. SUFFICES ASSUME n + 1 <= N
                   PROVE  after[n + 1] \in Trackers
      OBVIOUS
    <2>2. after[n] \in Trackers /\ n + 1 \in 1..N /\ n + 1 - 1 = n /\ txs[n + 1] \in Tx
      BY <1>1, <1>11, <2>1
    <2>3. after[n + 1] = ScannedTx(after[n], txs[n + 1])
      BY <1>9, <2>2
    <2>4. QED
      BY <1>2, <2>2, <2>3
  <1>12. Nat \subseteq S
    <2> HIDE DEF S
    <2>1. QED
      BY <1>10, <1>11, InductiveSet
  <1>13. after \in [0..N -> Trackers]
    <2>1. \A n \in 0..N : after[n] \in Trackers
      BY <1>1, <1>12
    <2>2. after = [n \in 0..N |-> after[n]]
      BY <1>8
    <2>3. QED
      BY <2>1, <2>2
  <1>14. ASSUME NEW n \in 1..N
         PROVE  Turn(after[n - 1], after[n], Spends(txs[n]), Creates(txs[n]))
    <2>1. after[n - 1] \in Trackers /\ txs[n] \in Tx /\ after[n] = ScannedTx(after[n - 1], txs[n])
      BY <1>1, <1>9, <1>13
    <2>2. QED
      BY <2>1, ScannedTxFacts
  <1>15. QED
    BY <1>4, <1>9, <1>13, <1>14 DEF N

(* and so are orders remembered; *)
LEMMA RememberedAllFacts ==
    ASSUME NEW s \in Trackers, NEW txs \in Seq(Tx), scanner = "dex"
    PROVE  \E f \in [0..Len(txs) -> Trackers] :
              /\ f[0] = s /\ RememberedOutputs(s, txs) = f[Len(txs)]
              /\ \A n \in 1..Len(txs) : Turn(f[n - 1], f[n], {}, {txs[n]})
  <1> DEFINE N == Len(txs)
             Is(f) == f = [n \in 0..N |-> IF n = 0 THEN s ELSE RememberedOutput(f[n - 1], txs[n])]
             after == CHOOSE f : Is(f)
             step == [p \in (1..N) \X Trackers |-> RememberedOutput(p[2], txs[p[1]])]
  <1>1. N \in Nat /\ \A n \in 1..N : txs[n] \in Tx
    OBVIOUS
  <1>2. \A r \in Trackers : \A x \in Tx : RememberedOutput(r, x) \in Trackers
    BY RememberedFacts DEF Grew
  <1>3. step \in [(1..N) \X Trackers -> Trackers]
    <2>1. \A p \in (1..N) \X Trackers : RememberedOutput(p[2], txs[p[1]]) \in Trackers
      BY <1>1, <1>2
    <2>2. QED
      BY <2>1
  <1>4. RememberedOutputs(s, txs) = after[N]
    BY DEF RememberedOutputs
  <1> HIDE DEF N
  <1>5. PICK g : Carries(g, N, Trackers, s, step)
    <2> HIDE DEF step
    <2>1. QED
      BY <1>1, <1>3, IterationExists
  <1>6. ASSUME NEW n \in 1..N
        PROVE  g[n] = RememberedOutput(g[n - 1], txs[n])
    <2>1. n - 1 \in 0..N /\ <<n, g[n - 1]>> \in (1..N) \X Trackers
      BY <1>1, <1>5 DEF Carries
    <2>2. step[<<n, g[n - 1]>>] = RememberedOutput(g[n - 1], txs[n])
      BY <2>1
    <2> HIDE DEF step
    <2>3. QED
      BY <1>5, <2>2 DEF Carries
  <1>7. Is(g)
    <2>1. g \in [0..N -> Trackers] /\ g[0] = s
      BY <1>5 DEF Carries
    <2>2. QED
      BY <1>1, <1>6, <2>1
  <1>8. Is(after)
    BY <1>7
  <1> HIDE DEF after, step
  <1>9. after[0] = s /\ \A n \in 1..N : after[n] = RememberedOutput(after[n - 1], txs[n])
    BY <1>1, <1>8
  <1> DEFINE S == {n \in Nat : n <= N => after[n] \in Trackers}
  <1>10. 0 \in S
    BY <1>9
  <1>11. ASSUME NEW n \in Nat, n \in S
         PROVE  n + 1 \in S
    <2>1. SUFFICES ASSUME n + 1 <= N
                   PROVE  after[n + 1] \in Trackers
      OBVIOUS
    <2>2. after[n] \in Trackers /\ n + 1 \in 1..N /\ n + 1 - 1 = n /\ txs[n + 1] \in Tx
      BY <1>1, <1>11, <2>1
    <2>3. after[n + 1] = RememberedOutput(after[n], txs[n + 1])
      BY <1>9, <2>2
    <2>4. QED
      BY <1>2, <2>2, <2>3
  <1>12. Nat \subseteq S
    <2> HIDE DEF S
    <2>1. QED
      BY <1>10, <1>11, InductiveSet
  <1>13. after \in [0..N -> Trackers]
    <2>1. \A n \in 0..N : after[n] \in Trackers
      BY <1>1, <1>12
    <2>2. after = [n \in 0..N |-> after[n]]
      BY <1>8
    <2>3. QED
      BY <2>1, <2>2
  <1>14. ASSUME NEW n \in 1..N
         PROVE  Turn(after[n - 1], after[n], {}, {txs[n]})
    <2>1. after[n - 1] \in Trackers /\ txs[n] \in Tx /\ after[n] = RememberedOutput(after[n - 1], txs[n])
      BY <1>1, <1>9, <1>13
    <2>2. Grew(after[n - 1], after[n], txs[n])
      BY <2>1, RememberedFacts
    <2>3. QED
      BY <2>2 DEF Grew, Turn
  <1>15. QED
    BY <1>4, <1>9, <1>13, <1>14 DEF N

(* hubs are noted without a limit. *)
LEMMA NotedAllFacts ==
    ASSUME NEW s \in (SUBSET Tx), NEW txs \in Seq(Tx)
    PROVE  \E f \in [0..Len(txs) -> (SUBSET Tx)] :
              /\ f[0] = s /\ NotedAll(s, txs) = f[Len(txs)]
              /\ \A n \in 1..Len(txs) : f[n] = Noted(f[n - 1], txs[n])
  <1> DEFINE N == Len(txs)
             Is(f) == f = [n \in 0..N |-> IF n = 0 THEN s ELSE Noted(f[n - 1], txs[n])]
             after == CHOOSE f : Is(f)
             step == [p \in (1..N) \X (SUBSET Tx) |-> Noted(p[2], txs[p[1]])]
  <1>1. N \in Nat /\ \A n \in 1..N : txs[n] \in Tx
    OBVIOUS
  <1>2. \A r \in (SUBSET Tx) : \A x \in Tx : Noted(r, x) \in (SUBSET Tx)
    BY TxFacts DEF Noted
  <1>3. step \in [(1..N) \X (SUBSET Tx) -> (SUBSET Tx)]
    <2>1. \A p \in (1..N) \X (SUBSET Tx) : Noted(p[2], txs[p[1]]) \in (SUBSET Tx)
      BY <1>1, <1>2
    <2>2. QED
      BY <2>1
  <1>4. NotedAll(s, txs) = after[N]
    BY DEF NotedAll
  <1> HIDE DEF N
  <1>5. PICK g : Carries(g, N, (SUBSET Tx), s, step)
    <2> HIDE DEF step
    <2>1. QED
      BY <1>1, <1>3, IterationExists
  <1>6. ASSUME NEW n \in 1..N
        PROVE  g[n] = Noted(g[n - 1], txs[n])
    <2>1. n - 1 \in 0..N /\ <<n, g[n - 1]>> \in (1..N) \X (SUBSET Tx)
      BY <1>1, <1>5 DEF Carries
    <2>2. step[<<n, g[n - 1]>>] = Noted(g[n - 1], txs[n])
      BY <2>1
    <2> HIDE DEF step
    <2>3. QED
      BY <1>5, <2>2 DEF Carries
  <1>7. Is(g)
    <2>1. g \in [0..N -> (SUBSET Tx)] /\ g[0] = s
      BY <1>5 DEF Carries
    <2>2. QED
      BY <1>1, <1>6, <2>1
  <1>8. Is(after)
    BY <1>7
  <1> HIDE DEF after, step
  <1>9. after[0] = s /\ \A n \in 1..N : after[n] = Noted(after[n - 1], txs[n])
    BY <1>1, <1>8
  <1> DEFINE S == {n \in Nat : n <= N => after[n] \in (SUBSET Tx)}
  <1>10. 0 \in S
    BY <1>9
  <1>11. ASSUME NEW n \in Nat, n \in S
         PROVE  n + 1 \in S
    <2>1. SUFFICES ASSUME n + 1 <= N
                   PROVE  after[n + 1] \in (SUBSET Tx)
      OBVIOUS
    <2>2. after[n] \in (SUBSET Tx) /\ n + 1 \in 1..N /\ n + 1 - 1 = n /\ txs[n + 1] \in Tx
      BY <1>1, <1>11, <2>1
    <2>3. after[n + 1] = Noted(after[n], txs[n + 1])
      BY <1>9, <2>2
    <2>4. QED
      BY <1>2, <2>2, <2>3
  <1>12. Nat \subseteq S
    <2> HIDE DEF S
    <2>1. QED
      BY <1>10, <1>11, InductiveSet
  <1>13. after \in [0..N -> (SUBSET Tx)]
    <2>1. \A n \in 0..N : after[n] \in (SUBSET Tx)
      BY <1>1, <1>12
    <2>2. after = [n \in 0..N |-> after[n]]
      BY <1>8
    <2>3. QED
      BY <2>1, <2>2
  <1>14. ASSUME NEW n \in 1..N
         PROVE  after[n] = Noted(after[n - 1], txs[n])
    <2>1. after[n - 1] \in (SUBSET Tx) /\ txs[n] \in Tx /\ after[n] = Noted(after[n - 1], txs[n])
      BY <1>1, <1>9, <1>13
    <2>2. QED
      BY <2>1
  <1>15. QED
    BY <1>4, <1>9, <1>13, <1>14 DEF N

LEMMA NotedAllType ==
    ASSUME NEW h \in SUBSET Tx, NEW txs \in Seq(Tx)
    PROVE  NotedAll(h, txs) \in SUBSET Tx
  <1>1. PICK f \in [0..Len(txs) -> (SUBSET Tx)] :
               /\ f[0] = h /\ NotedAll(h, txs) = f[Len(txs)]
               /\ \A n \in 1..Len(txs) : f[n] = Noted(f[n - 1], txs[n])
    BY NotedAllFacts
  <1>2. QED
    BY <1>1

(* N turns from f[0] to f[N]. *)
Run(f, N, outs, ins) ==
    /\ N \in Nat /\ f \in [0..N -> Trackers]
    /\ \A n \in 1..N : Turn(f[n - 1], f[n], outs[n], ins[n])

(* Where there is room at the end there was room all along. *)
LEMMA RoomAllAlong ==
    ASSUME NEW f, NEW N, NEW outs, NEW ins, Run(f, N, outs, ins), Room(f[N])
    PROVE  \A n \in 0..N : Room(f[n])
  <1>1. /\ N \in Nat /\ TrackerCap \in Nat
        /\ \A n \in 0..N : f[n] \in Trackers /\ f[n].inserted \in Nat /\ f[n].peak \in Nat
    BY TrackerAssumption DEF Run, Trackers
  <1> DEFINE S == {k \in Nat : k <= N => Room(f[N - k])}
  <1>2. 0 \in S
    BY <1>1
  <1>3. ASSUME NEW k \in Nat, k \in S
        PROVE  k + 1 \in S
    <2>1. SUFFICES ASSUME k + 1 <= N
                   PROVE  Room(f[N - (k + 1)])
      OBVIOUS
    <2>2. N - k \in 1..N /\ (N - k) - 1 = N - (k + 1) /\ N - (k + 1) \in 0..N /\ N - k \in 0..N
      BY <1>1, <2>1
    <2>3. Turn(f[N - (k + 1)], f[N - k], outs[N - k], ins[N - k])
      BY <2>2 DEF Run
    <2>4. Room(f[N - k])
      BY <1>1, <1>3, <2>1
    <2> DEFINE u == f[N - (k + 1)]
               v == f[N - k]
    <2>5. /\ u.inserted \in Nat /\ u.peak \in Nat /\ v.inserted \in Nat /\ v.peak \in Nat
          /\ v.inserted >= u.inserted /\ v.peak >= u.peak /\ Room(v)
      BY <1>1, <2>2, <2>3, <2>4 DEF Turn
    <2> HIDE DEF u, v
    <2>6. Room(u)
      BY <1>1, <2>5 DEF Room
    <2>7. QED
      BY <2>6 DEF u
  <1>4. Nat \subseteq S
    <2> HIDE DEF S
    <2>1. QED
      BY <1>2, <1>3, InductiveSet
  <1>5. ASSUME NEW n \in 0..N
        PROVE  Room(f[n])
    <2>1. N - n \in Nat /\ N - n <= N /\ N - (N - n) = n
      BY <1>1
    <2>2. N - n \in S
      BY <1>4, <2>1
    <2>3. QED
      BY <2>1, <2>2
  <1>6. QED
    BY <1>5

(* What is tracked and not taken out stays, where there is room. *)
LEMMA HoldsOn ==
    ASSUME NEW f, NEW N, NEW outs, NEW ins, Run(f, N, outs, ins), Room(f[N]),
           NEW o, NEW p \in 0..N, o \in f[p].map, \A n \in (p + 1)..N : o \notin outs[n]
    PROVE  o \in f[N].map
  <1>1. N \in Nat /\ p \in Nat /\ p <= N
    BY DEF Run
  <1> DEFINE S == {k \in Nat : p + k <= N => o \in f[p + k].map}
  <1>2. 0 \in S
    BY <1>1
  <1>3. ASSUME NEW k \in Nat, k \in S
        PROVE  k + 1 \in S
    <2>1. SUFFICES ASSUME p + (k + 1) <= N
                   PROVE  o \in f[p + (k + 1)].map
      OBVIOUS
    <2> DEFINE n == p + (k + 1)
    <2>2. n \in 1..N /\ n - 1 = p + k /\ n \in (p + 1)..N /\ n \in 0..N
      BY <1>1, <2>1
    <2>3. o \in f[n - 1].map
      BY <1>1, <1>3, <2>1, <2>2
    <2> HIDE DEF n
    <2>4. Turn(f[n - 1], f[n], outs[n], ins[n]) /\ Room(f[n]) /\ o \notin outs[n]
      BY <2>2, RoomAllAlong DEF Run
    <2>5. o \in f[n].map
      BY <2>3, <2>4 DEF Turn
    <2>6. QED
      BY <2>5 DEF n
  <1>4. Nat \subseteq S
    <2> HIDE DEF S
    <2>1. QED
      BY <1>2, <1>3, InductiveSet
  <1>5. N - p \in Nat /\ p + (N - p) = N
    BY <1>1
  <1>6. N - p \in S
    BY <1>4, <1>5
  <1>7. QED
    BY <1>1, <1>5, <1>6

(* What is not tracked and not put in stays out, room or not. *)
LEMMA StaysOut ==
    ASSUME NEW f, NEW N, NEW outs, NEW ins, Run(f, N, outs, ins),
           NEW o, NEW p \in 0..N, o \notin f[p].map, \A n \in (p + 1)..N : o \notin ins[n]
    PROVE  o \notin f[N].map
  <1>1. N \in Nat /\ p \in Nat /\ p <= N
    BY DEF Run
  <1> DEFINE S == {k \in Nat : p + k <= N => o \notin f[p + k].map}
  <1>2. 0 \in S
    BY <1>1
  <1>3. ASSUME NEW k \in Nat, k \in S
        PROVE  k + 1 \in S
    <2>1. SUFFICES ASSUME p + (k + 1) <= N
                   PROVE  o \notin f[p + (k + 1)].map
      OBVIOUS
    <2> DEFINE n == p + (k + 1)
    <2>2. n \in 1..N /\ n - 1 = p + k /\ n \in (p + 1)..N /\ n \in 0..N
      BY <1>1, <2>1
    <2>3. o \notin f[n - 1].map
      BY <1>1, <1>3, <2>1, <2>2
    <2> HIDE DEF n
    <2>4. Turn(f[n - 1], f[n], outs[n], ins[n]) /\ o \notin ins[n]
      BY <2>2 DEF Run
    <2>5. o \notin f[n].map
      BY <2>3, <2>4 DEF Turn
    <2>6. QED
      BY <2>5 DEF n
  <1>4. Nat \subseteq S
    <2> HIDE DEF S
    <2>1. QED
      BY <1>2, <1>3, InductiveSet
  <1>5. N - p \in Nat /\ p + (N - p) = N
    BY <1>1
  <1>6. N - p \in S
    BY <1>4, <1>5
  <1>7. QED
    BY <1>1, <1>5, <1>6

(* A hub noted and not spent stays a hub. *)
LEMMA StaysHub ==
    ASSUME NEW h \in SUBSET Tx, NEW txs \in Seq(Tx), scanner \in HasHubs,
           NEW o, NEW p \in 0..Len(txs), p = 0 => o \in h, p # 0 => o \in Creates(txs[p]),
           \A n \in (p + 1)..Len(txs) : o \notin Spends(txs[n])
    PROVE  o \in NotedAll(h, txs)
  <1> DEFINE N == Len(txs)
  <1>1. N \in Nat /\ p \in Nat /\ p <= N
    OBVIOUS
  <1>2. PICK f \in [0..N -> SUBSET Tx] :
               /\ f[0] = h /\ NotedAll(h, txs) = f[N]
               /\ \A n \in 1..N : f[n] = (f[n - 1] \ Spends(txs[n])) \union Creates(txs[n])
    <2>1. \E f \in [0..N -> (SUBSET Tx)] :
             /\ f[0] = h /\ NotedAll(h, txs) = f[N]
             /\ \A n \in 1..N : f[n] = Noted(f[n - 1], txs[n])
      BY NotedAllFacts
    <2>2. QED
      BY <2>1 DEF Noted
  <1>3. o \in f[p]
    BY <1>1, <1>2
  <1> DEFINE S == {k \in Nat : p + k <= N => o \in f[p + k]}
  <1>4. 0 \in S
    BY <1>1, <1>3
  <1>5. ASSUME NEW k \in Nat, k \in S
        PROVE  k + 1 \in S
    <2>1. SUFFICES ASSUME p + (k + 1) <= N
                   PROVE  o \in f[p + (k + 1)]
      OBVIOUS
    <2> DEFINE n == p + (k + 1)
    <2>2. n \in 1..N /\ n - 1 = p + k /\ n \in (p + 1)..N
      BY <1>1, <2>1
    <2>3. o \in f[n - 1]
      BY <1>1, <1>5, <2>1, <2>2
    <2> HIDE DEF n
    <2>4. o \in f[n]
      BY <1>2, <2>2, <2>3
    <2>5. QED
      BY <2>4 DEF n
  <1>6. Nat \subseteq S
    <2> HIDE DEF S
    <2>1. QED
      BY <1>4, <1>5, InductiveSet
  <1>7. N - p \in Nat /\ p + (N - p) = N
    BY <1>1
  <1>8. N - p \in S
    BY <1>6, <1>7
  <1>9. QED
    BY <1>1, <1>2, <1>7, <1>8

-----------------------------------------------------------------------------
(* The order of the replay. *)

(* Slots, and hashes within a slot, order the transactions of the cache. *)
LEMMA BeforeOrders ==
    ASSUME TypeOK
    PROVE  /\ \A x \in DOMAIN txCache : ~Before(x, x)
           /\ \A x, y \in DOMAIN txCache : x # y => Before(x, y) \/ Before(y, x)
           /\ \A x, y, z \in DOMAIN txCache : Before(x, y) /\ Before(y, z) => Before(x, z)
  <1>1. \A x \in DOMAIN txCache : x \in Tx /\ txCache[x] \in Nat /\ HashRank[x] \in Nat
    BY TrackerAssumption DEF TypeOK
  <1>2. \A x, y \in DOMAIN txCache : HashRank[x] = HashRank[y] => x = y
    BY <1>1, TrackerAssumption
  <1>3. QED
    BY <1>1, <1>2 DEF Before

(* Each takes a place of its own, by what comes before it. *)
LEMMA PlaceFacts ==
    ASSUME TypeOK, NEW S \in SUBSET DOMAIN txCache
    PROVE  /\ Cardinality(S) \in Nat
           /\ \A x \in S : Place(S, x) \in 1..Cardinality(S)
           /\ \A x, y \in S : Before(x, y) => Place(S, x) < Place(S, y)
           /\ \A x, y \in S : Place(S, x) = Place(S, y) => x = y
           /\ \A n \in 1..Cardinality(S) : \E x \in S : Place(S, x) = n
  <1> DEFINE D(x) == {y \in S : Before(y, x)}
             n == Cardinality(S)
  <1>1. IsFiniteSet(S) /\ n \in Nat
    BY FS_Subset, FS_CardinalityType DEF TypeOK
  <1>2. ASSUME NEW x \in S
        PROVE  /\ IsFiniteSet(D(x)) /\ Cardinality(D(x)) \in Nat /\ Cardinality(D(x)) < n
               /\ Place(S, x) = 1 + Cardinality(D(x))
    <2>1. D(x) \in SUBSET S /\ D(x) # S
      BY BeforeOrders
    <2>2. IsFiniteSet(D(x)) /\ Cardinality(D(x)) <= n /\ Cardinality(D(x)) # n
      BY <1>1, <2>1, FS_Subset
    <2>3. Cardinality(D(x)) \in Nat
      BY <2>2, FS_CardinalityType
    <2>4. QED
      BY <1>1, <2>2, <2>3 DEF Place
  <1>3. ASSUME NEW x \in S, NEW y \in S, Before(x, y)
        PROVE  Place(S, x) < Place(S, y)
    <2>1. D(x) \in SUBSET D(y) /\ D(x) # D(y)
      BY <1>3, BeforeOrders
    <2>2. Cardinality(D(x)) # Cardinality(D(y)) /\ Cardinality(D(x)) <= Cardinality(D(y))
      BY <1>2, <2>1, FS_Subset
    <2>3. /\ Place(S, x) = 1 + Cardinality(D(x)) /\ Cardinality(D(x)) \in Nat
          /\ Place(S, y) = 1 + Cardinality(D(y)) /\ Cardinality(D(y)) \in Nat
      BY <1>2
    <2> HIDE DEF D
    <2>4. QED
      BY ONLY <2>2, <2>3
  <1>4. ASSUME NEW x \in S, NEW y \in S, Place(S, x) = Place(S, y)
        PROVE  x = y
    <2>1. Place(S, x) \in Nat
      <3>1. Place(S, x) = 1 + Cardinality(D(x)) /\ Cardinality(D(x)) \in Nat
        BY <1>2
      <3> HIDE DEF D
      <3>2. QED
        BY <3>1
    <2>2. ~Before(x, y) /\ ~Before(y, x)
      BY <1>3, <1>4, <2>1
    <2>3. QED
      BY <2>2, BeforeOrders
  <1>5. ASSUME NEW x \in S
        PROVE  Place(S, x) \in 1..n
    <2>1. /\ Place(S, x) = 1 + Cardinality(D(x))
          /\ Cardinality(D(x)) \in Nat /\ Cardinality(D(x)) < n
      BY <1>2
    <2> HIDE DEF D, n
    <2>2. QED
      BY ONLY <1>1, <2>1
  <1> DEFINE f == [x \in S |-> Place(S, x)]
  <1>6. f \in Surjection(S, 1..n)
    <2>1. f \in [S -> 1..n] /\ \A x, y \in S : f[x] = f[y] => x = y
      BY <1>4, <1>5
    <2>2. f \in Injection(S, 1..n)
      BY <2>1 DEF Injection, IsInjective
    <2>3. IsFiniteSet(1..n) /\ Cardinality(1..n) = n
      BY <1>1, FS_Interval
    <2>4. QED
      BY <1>1, <2>2, <2>3, FS_Injection
  <1>7. ASSUME NEW k \in 1..n
        PROVE  \E x \in S : Place(S, x) = k
    <2>1. \E x \in S : f[x] = k
      BY <1>6 DEF Surjection
    <2>2. QED
      BY <2>1
  <1>8. QED
    BY <1>1, <1>3, <1>4, <1>5, <1>7

(* So the replay has every transaction of the cache once, in order. *)
LEMMA SortedFacts ==
    ASSUME TypeOK, NEW S \in SUBSET DOMAIN txCache
    PROVE  /\ Sorted(S) \in Seq(Tx)
           /\ \A k \in 1..Len(Sorted(S)) : Sorted(S)[k] \in S
           /\ \A x \in S : \E k \in 1..Len(Sorted(S)) : Sorted(S)[k] = x
           /\ \A k, l \in 1..Len(Sorted(S)) : Sorted(S)[k] = Sorted(S)[l] => k = l
           /\ \A k, l \in 1..Len(Sorted(S)) : k < l => Before(Sorted(S)[k], Sorted(S)[l])
  <1> DEFINE n == Cardinality(S)
             at(k) == CHOOSE x \in S : Place(S, x) = k
             so == Sorted(S)
  <1>1. n \in Nat /\ S \in SUBSET Tx
    BY PlaceFacts DEF TypeOK
  <1>2. ASSUME NEW k \in 1..n
        PROVE  at(k) \in S /\ Place(S, at(k)) = k
    <2>1. \E x \in S : Place(S, x) = k
      BY PlaceFacts
    <2>2. QED
      BY <2>1
  <1>3. so = [k \in 1..n |-> at(k)]
    BY DEF Sorted
  <1> HIDE DEF at, n, so
  <1>4. so \in [1..n -> Tx]
    BY <1>1, <1>2, <1>3
  <1>5. so \in Seq(Tx) /\ Len(so) = n
    BY <1>1, <1>4, SeqDef
  <1>6. \A k \in 1..n : so[k] \in S /\ Place(S, so[k]) = k
    BY <1>2, <1>3
  <1>7. ASSUME NEW x \in S
        PROVE  \E k \in 1..n : so[k] = x
    <2>1. Place(S, x) \in 1..n
      BY PlaceFacts DEF n
    <2>2. so[Place(S, x)] = x
      BY <1>6, <2>1, PlaceFacts
    <2>3. QED
      BY <2>1, <2>2
  <1>8. ASSUME NEW k \in 1..n, NEW l \in 1..n, k < l
        PROVE  Before(so[k], so[l])
    <2>1. so[k] \in S /\ so[l] \in S /\ Place(S, so[k]) = k /\ Place(S, so[l]) = l
      BY <1>6
    <2>2. so[k] # so[l] /\ ~(Place(S, so[l]) < Place(S, so[k]))
      BY <1>1, <1>8, <2>1
    <2>3. ~Before(so[l], so[k])
      BY <2>1, <2>2, PlaceFacts
    <2>4. QED
      BY <2>1, <2>2, <2>3, BeforeOrders
  <1>9. QED
    BY <1>5, <1>6, <1>7, <1>8 DEF so

-----------------------------------------------------------------------------
(* Boot. *)

LEMMA FreshFacts == Unwarmed \in Trackers /\ Unwarmed.map = {}
  <1>1. Unwarmed \in [map : SUBSET Tx, fifo : Seq(Tx), inserted : Nat, peak : Nat] /\ Unwarmed.map = {}
        /\ Unwarmed.fifo = <<>> /\ Unwarmed.inserted = 0
    BY DEF Unwarmed
  <1>2. <<>> \in Seq(Tx) /\ Len(<<>>) = 0 /\ ToSet(<<>>) = {}
    BY DEF ToSet
  <1>3. QueueFits(Unwarmed)
    BY <1>1, <1>2 DEF QueueFits
  <1>4. QED
    BY <1>1, <1>3, FS_EmptySet DEF Trackers

(* After the replay the open outputs of the cache are tracked, if there was *)
(* room; an output that is spent in the cache is left only by a dApp        *)
(* scanner, and only where it came after its spender.                       *)
LEMMA WarmedFacts ==
    ASSUME TypeOK
    PROVE  /\ Warmed \in Trackers
           /\ \A o \in Warmed.map : o \in DOMAIN txCache /\ Creates(o) = {o}
           /\ Room(Warmed) => \A o \in DOMAIN txCache :
                 Creates(o) = {o} /\ (\A x \in DOMAIN txCache : o \notin Spends(x)) => o \in Warmed.map
           /\ \A o \in Warmed.map : \A x \in DOMAIN txCache :
                 o \in Spends(x) => scanner # "dex" /\ Before(x, o)
  <1>1. DOMAIN txCache \in SUBSET Tx
    BY DEF TypeOK
  <1>2. CASE scanner = "dex"
    <2> DEFINE spent == UNION {Spends(x) : x \in DOMAIN txCache}
               open == {x \in DOMAIN txCache : Creates(x) # {} /\ x \notin spent}
               txs == Sorted(open)
               N == Len(txs)
               outs == [n \in 1..N |-> {}]
               ins == [n \in 1..N |-> {txs[n]}]
    <2>1. Warmed = RememberedOutputs(Unwarmed, txs)
      BY <1>2 DEF Warmed
    <2>2. open \in SUBSET DOMAIN txCache
      OBVIOUS
    <2>3. \A o : o \in open <=> o \in DOMAIN txCache /\ Creates(o) = {o} /\ \A x \in DOMAIN txCache : o \notin Spends(x)
      BY DEF Creates
    <2> HIDE DEF open
    <2>4. /\ txs \in Seq(Tx) /\ N \in Nat /\ \A k \in 1..N : txs[k] \in open
          /\ \A x \in open : \E k \in 1..N : txs[k] = x
      BY <2>2, SortedFacts
    <2> HIDE DEF txs
    <2>5. PICK f \in [0..N -> Trackers] :
                 /\ f[0] = Unwarmed /\ RememberedOutputs(Unwarmed, txs) = f[N]
                 /\ \A n \in 1..N : Turn(f[n - 1], f[n], {}, {txs[n]})
      BY <1>2, <2>4, FreshFacts, RememberedAllFacts
    <2>6. Run(f, N, outs, ins)
      BY <2>4, <2>5 DEF Run
    <2>7. \A n \in 1..N : outs[n] = {} /\ ins[n] = {txs[n]}
      OBVIOUS
    <2> HIDE DEF N, outs, ins
    <2>8. Warmed = f[N] /\ Warmed \in Trackers
      BY <2>1, <2>4, <2>5
    <2>9. ASSUME NEW o \in Warmed.map
          PROVE  o \in open
      <3>1. SUFFICES ASSUME o \notin open
                     PROVE  FALSE
        OBVIOUS
      <3>2. 0 \in 0..N /\ o \notin f[0].map /\ \A n \in (0 + 1)..N : o \notin ins[n]
        BY <2>4, <2>5, <2>7, <3>1, FreshFacts
      <3>3. o \notin f[N].map
        BY <2>6, <3>2, StaysOut
      <3>4. QED
        BY <2>8, <2>9, <3>3
    <2>10. ASSUME Room(Warmed), NEW o \in open
           PROVE  o \in Warmed.map
      <3>1. PICK k \in 1..N : txs[k] = o
        BY <2>4
      <3>2. k \in 0..N /\ \A n \in (k + 1)..N : o \notin outs[n]
        BY <2>4, <2>7
      <3>3. Room(f[N]) /\ Room(f[k])
        BY <2>6, <2>8, <2>10, <3>2, RoomAllAlong
      <3>4. Turn(f[k - 1], f[k], {}, {txs[k]})
        BY <2>5
      <3>5. o \in f[k].map
        BY <3>1, <3>3, <3>4 DEF Turn
      <3>6. o \in f[N].map
        BY <2>6, <3>2, <3>3, <3>5, HoldsOn
      <3>7. QED
        BY <2>8, <3>6
    <2>11. QED
      BY <2>3, <2>8, <2>9, <2>10
  <1>3. CASE scanner # "dex"
    <2> DEFINE txs == ReplayOrder
               N == Len(txs)
               outs == [n \in 1..N |-> Spends(txs[n])]
               ins == [n \in 1..N |-> Creates(txs[n])]
    <2>1. Warmed = ScannedAll(Unwarmed, txs)
      BY <1>3 DEF Warmed
    <2>2. /\ txs \in Seq(Tx) /\ N \in Nat /\ \A k \in 1..N : txs[k] \in DOMAIN txCache
          /\ \A x \in DOMAIN txCache : \E k \in 1..N : txs[k] = x
          /\ \A k, l \in 1..N : txs[k] = txs[l] => k = l
          /\ \A k, l \in 1..N : k < l => Before(txs[k], txs[l])
      BY SortedFacts DEF ReplayOrder
    <2> HIDE DEF txs
    <2>3. PICK f \in [0..N -> Trackers] :
                 /\ f[0] = Unwarmed /\ ScannedAll(Unwarmed, txs) = f[N]
                 /\ \A n \in 1..N : Turn(f[n - 1], f[n], Spends(txs[n]), Creates(txs[n]))
      <3>1. Unwarmed \in Trackers /\ txs \in Seq(Tx)
        BY <2>2, FreshFacts
      <3>2. QED
        BY <1>3, <3>1, ScannedAllFacts
    <2>4. Run(f, N, outs, ins)
      BY <2>2, <2>3 DEF Run
    <2>5. \A n \in 1..N : outs[n] = Spends(txs[n]) /\ ins[n] = Creates(txs[n])
      OBVIOUS
    <2> HIDE DEF N, outs, ins
    <2>6. Warmed = f[N] /\ Warmed \in Trackers
      BY <2>1, <2>2, <2>3
    <2>7. ASSUME NEW o \in Warmed.map
          PROVE  o \in DOMAIN txCache /\ Creates(o) = {o}
      <3>1. PICK n \in 1..N : o \in ins[n]
        <4>1. SUFFICES ASSUME \A n \in 1..N : o \notin ins[n]
                       PROVE  FALSE
          OBVIOUS
        <4>2. 0 \in 0..N /\ o \notin f[0].map /\ \A n \in (0 + 1)..N : o \notin ins[n]
          BY <2>2, <2>3, <4>1, FreshFacts
        <4>3. o \notin f[N].map
          BY <2>4, <4>2, StaysOut
        <4>4. QED
          BY <2>6, <2>7, <4>3
      <3>2. o \in Creates(txs[n]) /\ txs[n] \in DOMAIN txCache
        BY <2>2, <2>5, <3>1
      <3>3. QED
        BY <1>1, <3>2 DEF Creates
    <2>8. ASSUME Room(Warmed), NEW o \in DOMAIN txCache, Creates(o) = {o},
                 \A x \in DOMAIN txCache : o \notin Spends(x)
          PROVE  o \in Warmed.map
      <3>1. PICK k \in 1..N : txs[k] = o
        BY <2>2
      <3>2. k \in 0..N /\ \A n \in (k + 1)..N : o \notin outs[n]
        BY <2>2, <2>5, <2>8
      <3>3. Room(f[N]) /\ Room(f[k])
        BY <2>4, <2>6, <2>8, <3>2, RoomAllAlong
      <3>4. Turn(f[k - 1], f[k], Spends(txs[k]), Creates(txs[k]))
        BY <2>3
      <3>5. o \in f[k].map
        BY <2>8, <3>1, <3>3, <3>4 DEF Turn
      <3>6. o \in f[N].map
        BY <2>4, <3>2, <3>3, <3>5, HoldsOn
      <3>7. QED
        BY <2>6, <3>6
    <2>9. ASSUME NEW o \in Warmed.map, NEW x \in DOMAIN txCache, o \in Spends(x)
          PROVE  Before(x, o)
      <3>1. PICK k \in 1..N : txs[k] = o
        BY <2>2, <2>7
      <3>2. PICK l \in 1..N : txs[l] = x
        BY <2>2
      <3>3. o # x /\ k # l
        BY <1>1, <2>9, <3>1, <3>2, TxFacts
      <3>4. CASE l < k
        BY <2>2, <3>1, <3>2, <3>4
      <3>5. CASE k < l
        <4>1. Turn(f[l - 1], f[l], Spends(txs[l]), Creates(txs[l]))
          BY <2>3
        <4>2. o \notin Creates(x)
          BY <3>3 DEF Creates
        <4>3. o \notin f[l].map
          BY <2>9, <3>2, <4>1, <4>2 DEF Turn
        <4>4. ASSUME NEW n \in (l + 1)..N
              PROVE  o \notin ins[n]
          <5>1. n \in 1..N /\ n # k
            BY <2>2, <3>5
          <5>2. txs[n] # o
            BY <2>2, <3>1, <5>1
          <5>3. QED
            BY <2>5, <5>1, <5>2 DEF Creates
        <4>5. l \in 0..N
          BY <2>2
        <4>6. o \notin f[N].map
          BY <2>4, <4>3, <4>4, <4>5, StaysOut
        <4>7. QED
          BY <2>6, <2>9, <4>6
      <3>6. QED
        BY <2>2, <3>3, <3>4, <3>5
    <2>10. QED
      BY <1>3, <2>6, <2>7, <2>8, <2>9
  <1>4. QED
    BY <1>2, <1>3

(* The hubs of the cache that nothing in the cache spends are noted. *)
LEMMA WarmedHubsFacts ==
    ASSUME TypeOK
    PROVE  /\ WarmedHubs \in SUBSET Tx
           /\ scanner \in HasHubs => \A o \in DOMAIN txCache :
                 Creates(o) = {o} /\ (\A x \in DOMAIN txCache : o \notin Spends(x)) => o \in WarmedHubs
  <1> DEFINE txs == ReplayOrder
             N == Len(txs)
  <1>1. /\ txs \in Seq(Tx) /\ N \in Nat /\ \A k \in 1..N : txs[k] \in DOMAIN txCache
        /\ \A x \in DOMAIN txCache : \E k \in 1..N : txs[k] = x
    BY SortedFacts DEF ReplayOrder
  <1> HIDE DEF txs
  <1>2. WarmedHubs = NotedAll({}, txs)
    BY DEF WarmedHubs, txs
  <1>3. WarmedHubs \in SUBSET Tx
    <2>1. {} \in SUBSET Tx
      OBVIOUS
    <2>2. QED
      BY <1>1, <1>2, <2>1, NotedAllType
  <1>4. ASSUME scanner \in HasHubs, NEW o \in DOMAIN txCache, Creates(o) = {o},
               \A x \in DOMAIN txCache : o \notin Spends(x)
        PROVE  o \in WarmedHubs
    <2>1. PICK k \in 1..N : txs[k] = o
      BY <1>1
    <2>2. k \in 0..N /\ k # 0 /\ o \in Creates(txs[k]) /\ \A n \in (k + 1)..N : o \notin Spends(txs[n])
      BY <1>1, <1>4, <2>1
    <2>3. {} \in SUBSET Tx
      OBVIOUS
    <2>4. QED
      BY <1>1, <1>2, <1>4, <2>2, <2>3, StaysHub
  <1>5. QED
    BY <1>3, <1>4

-----------------------------------------------------------------------------
(* A block. *)

(* What may follow a chain: one or two new transactions, each after the one *)
(* it spends.                                                               *)
Follows(block) ==
    /\ block \in Seq(Tx) /\ Len(block) \in 1..2
    /\ \A x \in ToSet(block) : x \notin OnChain(ledger)
    /\ \A i, j \in 1..Len(block) : block[i] = block[j] => i = j
    /\ \A i \in 1..Len(block) : \A o \in Spends(block[i]) :
          o \in OnChain(ledger) \/ (\E j \in 1..Len(block) : j < i /\ block[j] = o)

LEMMA BlockFacts ==
    ASSUME TypeOK, NEW block \in NextBlocks(ledger)
    PROVE  Follows(block)
  <1> DEFINE done == OnChain(ledger)
             one == {x \in Tx : CanFollow(done, x)}
  <1>1. done \in SUBSET Tx
    BY ChainMembers DEF TypeOK
  <1>2. ASSUME NEW d, NEW x \in Tx, CanFollow(d, x)
        PROVE  x \notin d /\ Spends(x) \subseteq d
    BY <1>2, TxFacts DEF CanFollow
  <1>3. CASE \E x \in one : block = <<x>>
    <2>1. PICK x \in one : block = <<x>>
      BY <1>3
    <2>2. block \in Seq(Tx) /\ Len(block) = 1 /\ block[1] = x
      BY <2>1
    <2>3. x \notin done /\ Spends(x) \subseteq done
      BY <1>2
    <2>4. \A y \in ToSet(block) : y = x
      BY <2>2, ToSetMember
    <2>5. QED
      BY <2>2, <2>3, <2>4 DEF Follows
  <1>4. CASE \E b \in one \X Tx : CanFollow(done \union {b[1]}, b[2]) /\ block = b
    <2>1. PICK x \in one, y \in Tx : CanFollow(done \union {x}, y) /\ block = <<x, y>>
      <3>1. PICK b \in one \X Tx : CanFollow(done \union {b[1]}, b[2]) /\ block = b
        BY <1>4
      <3>2. b = <<b[1], b[2]>> /\ b[1] \in one /\ b[2] \in Tx
        BY <3>1
      <3>3. QED
        BY <3>1, <3>2
    <2>2. x \in Tx /\ block \in Seq(Tx) /\ Len(block) = 2 /\ block[1] = x /\ block[2] = y
      BY <2>1
    <2>3. x \notin done /\ Spends(x) \subseteq done
      BY <1>2
    <2>4. y \notin done /\ y # x /\ Spends(y) \subseteq done \union {x}
      BY <1>2, <2>1
    <2>5. \A z \in ToSet(block) : z = x \/ z = y
      BY <2>2, ToSetMember
    <2>6. \A i \in 1..Len(block) : i = 1 \/ i = 2
      BY <2>2
    <2>7. \A i, j \in 1..Len(block) : block[i] = block[j] => i = j
      BY <2>2, <2>4, <2>6
    <2>8. ASSUME NEW i \in 1..Len(block), NEW o \in Spends(block[i])
          PROVE  o \in OnChain(ledger) \/ (\E j \in 1..Len(block) : j < i /\ block[j] = o)
      <3>1. CASE i = 1
        BY <2>2, <2>3, <3>1
      <3>2. CASE i = 2
        <4>1. o \in done \/ o = x
          BY <2>2, <2>4, <3>2
        <4>2. 1 \in 1..Len(block) /\ 1 < i /\ block[1] = x
          BY <2>2, <3>2
        <4>3. QED
          BY <4>1, <4>2
      <3>3. QED
        BY <2>6, <3>1, <3>2
    <2>9. QED
      BY <2>2, <2>3, <2>4, <2>5, <2>7, <2>8 DEF Follows
  <1>5. QED
    BY <1>3, <1>4 DEF NextBlocks

(* A scanned block: what it spends is no longer tracked, and what it leaves *)
(* open is, if there was room.                                              *)
LEMMA ScannedFacts ==
    ASSUME NEW s \in Trackers, NEW block, Follows(block), NEW t \in Scanned(s, block), TypeOK
    PROVE  /\ t \in Trackers
           /\ \A o \in t.map : /\ o \in s.map \/ o \in ToSet(block)
                               /\ \A x \in ToSet(block) : o \notin Spends(x)
           /\ Room(t) => Room(s)
           /\ Room(t) => \A o : /\ o \in s.map \/ \E x \in ToSet(block) : o \in Creates(x)
                                /\ \A x \in ToSet(block) : o \notin Spends(x)
                                => o \in t.map
  <1>1. /\ block \in Seq(Tx) /\ ToSet(block) \in SUBSET Tx
        /\ \A x : x \in ToSet(block) <=> \E i \in 1..Len(block) : block[i] = x
    BY ToSetType, ToSetMember DEF Follows
  <1>2. CASE scanner = "dex"
    <2> DEFINE spent == UNION {Spends(x) : x \in ToSet(block)}
               new == PlacedIn(block)
               m == s.map \ spent
               base == [s EXCEPT !.map = m]
    <2>1. PICK news \in AnyOrder(new) : t = RememberedOutputs(base, news)
      BY <1>2 DEF Scanned, OrderBookAfter
    <2>2. \A o : o \in new <=> /\ \E x \in ToSet(block) : o \in Creates(x)
                               /\ \A x \in ToSet(block) : o \notin Spends(x)
      BY DEF PlacedIn
    <2>3. new \in SUBSET ToSet(block) /\ IsFiniteSet(new) /\ Cardinality(new) \in Nat
      <3>1. new \in SUBSET ToSet(block)
        BY <2>2 DEF Creates
      <3>2. IsFiniteSet(ToSet(block))
        BY <1>1, DistinctLength DEF Follows
      <3>3. QED
        BY <3>1, <3>2, FS_Subset, FS_CardinalityType
    <2>4. m \in SUBSET Tx /\ IsFiniteSet(m)
      BY FS_Subset DEF Trackers
    <2>5. \A o \in m : \A x \in ToSet(block) : o \notin Spends(x)
      OBVIOUS
    <2>6. \A o \in s.map : (\A x \in ToSet(block) : o \notin Spends(x)) => o \in m
      OBVIOUS
    <2>7. m \subseteq s.map
      OBVIOUS
    <2> HIDE DEF new, spent, m
    <2>8. base \in Trackers /\ base.map = m /\ base.peak = s.peak
      <3>1. /\ s \in [map : SUBSET Tx, fifo : Seq(Tx), inserted : Nat, peak : Nat]
            /\ QueueFits(s)
        BY DEF Trackers
      <3>2. /\ base \in [map : SUBSET Tx, fifo : Seq(Tx), inserted : Nat, peak : Nat]
            /\ base.map = m /\ base.peak = s.peak
        BY <2>4, <3>1
      <3> HIDE DEF base
      <3>3. QueueFits(base)
        BY <1>2 DEF QueueFits
      <3>4. QED
        BY <2>4, <3>2, <3>3 DEF Trackers
    <2> HIDE DEF base
    <2> DEFINE N == Len(news)
               outs == [n \in 1..N |-> {}]
               ins == [n \in 1..N |-> {news[n]}]
    <2>9. /\ news \in Seq(Tx) /\ N \in Nat
          /\ \A k \in 1..N : news[k] \in new
          /\ \A o \in new : \E k \in 1..N : news[k] = o
      <3>1. /\ news \in [1..Cardinality(new) -> new]
            /\ \A o \in new : \E k \in 1..Cardinality(new) : news[k] = o
        BY DEF AnyOrder
      <3>2. news \in Seq(new) /\ Len(news) = Cardinality(new)
        BY <2>3, <3>1, SeqDef
      <3>3. news \in Seq(Tx)
        BY <1>1, <2>3, <3>1, <3>2, SeqRetype
      <3>4. QED
        BY <2>3, <3>1, <3>2, <3>3
    <2>10. PICK f \in [0..N -> Trackers] :
                 /\ f[0] = base /\ RememberedOutputs(base, news) = f[N]
                 /\ \A n \in 1..N : Turn(f[n - 1], f[n], {}, {news[n]})
      BY <1>2, <2>8, <2>9, RememberedAllFacts
    <2>11. Run(f, N, outs, ins) /\ \A n \in 1..N : outs[n] = {} /\ ins[n] = {news[n]}
      BY <2>9, <2>10 DEF Run
    <2> HIDE DEF N, outs, ins
    <2>12. t = f[N] /\ t \in Trackers /\ 0 \in 0..N
      BY <2>1, <2>9, <2>10
    <2>13. ASSUME NEW o \in t.map
           PROVE  o \in m \/ o \in new
      <3>1. SUFFICES ASSUME o \notin m, o \notin new
                     PROVE  FALSE
        OBVIOUS
      <3>2. o \notin f[0].map /\ \A n \in (0 + 1)..N : o \notin ins[n]
        BY <2>8, <2>9, <2>10, <2>11, <3>1
      <3>3. o \notin f[N].map
        BY <2>11, <2>12, <3>2, StaysOut
      <3>4. QED
        BY <2>12, <2>13, <3>3
    <2>14. ASSUME Room(t)
           PROVE  Room(s) /\ \A o : o \in m \/ o \in new => o \in t.map
      <3>1. Room(f[N]) /\ Room(f[0])
        BY <2>11, <2>12, <2>14, RoomAllAlong
      <3>2. Room(s)
        BY <1>2, <2>8, <2>10, <3>1 DEF Room
      <3>3. ASSUME NEW o \in m
            PROVE  o \in t.map
        <4>1. o \in f[0].map /\ \A n \in (0 + 1)..N : o \notin outs[n]
          BY <2>8, <2>9, <2>10, <2>11
        <4>2. QED
          BY <2>11, <2>12, <3>1, <4>1, HoldsOn
      <3>4. ASSUME NEW o \in new
            PROVE  o \in t.map
        <4>1. PICK k \in 1..N : news[k] = o
          BY <2>9
        <4>2. k \in 0..N /\ \A n \in (k + 1)..N : o \notin outs[n]
          BY <2>9, <2>11
        <4>3. Turn(f[k - 1], f[k], {}, {news[k]}) /\ Room(f[k])
          BY <2>10, <2>11, <3>1, <4>2, RoomAllAlong
        <4>4. o \in f[k].map
          BY <4>1, <4>3 DEF Turn
        <4>5. QED
          BY <2>11, <2>12, <3>1, <4>2, <4>4, HoldsOn
      <3>5. QED
        BY <3>2, <3>3, <3>4
    <2>15. QED
      BY <2>2, <2>3, <2>5, <2>6, <2>7, <2>12, <2>13, <2>14
  <1>3. CASE scanner # "dex"
    <2> DEFINE N == Len(block)
               outs == [n \in 1..N |-> Spends(block[n])]
               ins == [n \in 1..N |-> Creates(block[n])]
    <2>1. t = ScannedAll(s, block)
      BY <1>3 DEF Scanned
    <2>2. N \in Nat /\ \A n \in 1..N : block[n] \in ToSet(block) /\ block[n] \in Tx
      BY <1>1
    <2>3. PICK f \in [0..N -> Trackers] :
                 /\ f[0] = s /\ ScannedAll(s, block) = f[N]
                 /\ \A n \in 1..N : Turn(f[n - 1], f[n], Spends(block[n]), Creates(block[n]))
      BY <1>1, <1>3, ScannedAllFacts
    <2>4. /\ Run(f, N, outs, ins)
          /\ \A n \in 1..N : outs[n] = Spends(block[n]) /\ ins[n] = Creates(block[n])
      BY <2>2, <2>3 DEF Run
    <2> HIDE DEF outs, ins
    <2>5. t = f[N] /\ t \in Trackers /\ 0 \in 0..N
      BY <2>1, <2>2, <2>3
    <2>6. ASSUME NEW o \in t.map
          PROVE  o \in s.map \/ o \in ToSet(block)
      <3>1. SUFFICES ASSUME o \notin s.map, o \notin ToSet(block)
                     PROVE  FALSE
        OBVIOUS
      <3>2. ASSUME NEW n \in (0 + 1)..N
            PROVE  o \notin ins[n]
        <4>1. n \in 1..N /\ block[n] # o
          BY <2>2, <3>1
        <4>2. QED
          BY <2>4, <4>1 DEF Creates
      <3>3. o \notin f[N].map
        BY <2>3, <2>4, <2>5, <3>1, <3>2, StaysOut
      <3>4. QED
        BY <2>5, <2>6, <3>3
    <2>7. ASSUME NEW o \in t.map, NEW x \in ToSet(block), o \in Spends(x)
          PROVE  FALSE
      <3>1. PICK l \in 1..N : block[l] = x
        BY <1>1
      <3>2. Turn(f[l - 1], f[l], Spends(block[l]), Creates(block[l])) /\ l \in 0..N
        BY <2>2, <2>3
      <3>3. o \notin Creates(x)
        BY <1>1, <2>7, TxFacts DEF Creates
      <3>4. o \notin f[l].map
        BY <2>7, <3>1, <3>2, <3>3 DEF Turn
      <3>5. ASSUME NEW n \in (l + 1)..N
            PROVE  o \notin ins[n]
        <4>1. n \in 1..N /\ n > l
          BY <2>2
        <4>2. o \in OnChain(ledger) \/ (\E j \in 1..N : j < l /\ block[j] = o)
          BY <2>7, <3>1 DEF Follows
        <4>3. block[n] # o
          BY <2>2, <4>1, <4>2 DEF Follows
        <4>4. QED
          BY <2>4, <4>1, <4>3 DEF Creates
      <3>6. o \notin f[N].map
        BY <2>4, <3>2, <3>4, <3>5, StaysOut
      <3>7. QED
        BY <2>5, <2>7, <3>6
    <2>8. ASSUME Room(t)
          PROVE  Room(s)
      BY <2>3, <2>4, <2>5, <2>8, RoomAllAlong
    <2>9. ASSUME Room(t), NEW o, \A x \in ToSet(block) : o \notin Spends(x),
                 o \in s.map \/ \E x \in ToSet(block) : o \in Creates(x)
          PROVE  o \in t.map
      <3>1. \A n \in 1..N : o \notin outs[n]
        BY <2>2, <2>4, <2>9
      <3>2. CASE o \in s.map
        <4>1. o \in f[0].map /\ \A n \in (0 + 1)..N : o \notin outs[n]
          BY <2>2, <2>3, <3>1, <3>2
        <4>2. QED
          BY <2>4, <2>5, <2>9, <4>1, HoldsOn
      <3>3. CASE \E x \in ToSet(block) : o \in Creates(x)
        <4>1. PICK k \in 1..N : o \in Creates(block[k])
          BY <1>1, <3>3
        <4>2. k \in 0..N /\ \A n \in (k + 1)..N : o \notin outs[n]
          BY <2>2, <3>1
        <4>3. Turn(f[k - 1], f[k], Spends(block[k]), Creates(block[k])) /\ Room(f[k])
          BY <2>3, <2>4, <2>5, <2>9, <4>2, RoomAllAlong
        <4>4. o \in f[k].map
          BY <4>1, <4>3 DEF Turn
        <4>5. QED
          BY <2>4, <2>5, <2>9, <4>2, <4>4, HoldsOn
      <3>4. QED
        BY <2>9, <3>2, <3>3
    <2>10. QED
      BY <2>5, <2>6, <2>7, <2>8, <2>9
  <1>4. QED
    BY <1>2, <1>3

-----------------------------------------------------------------------------
(* The chain grows and shrinks at its end. *)

LEMMA ChainGrows ==
    ASSUME TypeOK, Linear, NEW block, Follows(block), ledger' = Append(ledger, block)
    PROVE  /\ ledger' \in Seq(Seq(Tx)) /\ Len(ledger) \in Nat /\ Len(ledger') = Len(ledger) + 1
           /\ \A i \in 1..Len(ledger) : ledger'[i] = ledger[i]
           /\ ledger'[Len(ledger) + 1] = block
           /\ OnChain(ledger') = OnChain(ledger) \union ToSet(block)
           /\ ToSet(block) \in SUBSET Tx
           /\ \A o : o \in SpentIn(ledger') <=>
                 o \in SpentIn(ledger) \/ \E x \in ToSet(block) : o \in Spends(x)
           /\ Linear'
  <1> DEFINE L == Len(ledger) + 1
  <1>1. block \in Seq(Tx) /\ ledger \in Seq(Seq(Tx))
    BY DEF Follows, TypeOK
  <1>2. /\ ledger' \in Seq(Seq(Tx)) /\ Len(ledger) \in Nat /\ Len(ledger') = L
        /\ \A i \in 1..Len(ledger) : ledger'[i] = ledger[i]
        /\ ledger'[L] = block
    BY <1>1, AppendProperties
  <1>3. ToSet(block) \in SUBSET Tx /\ \A x : x \in ToSet(block) <=> \E i \in 1..Len(block) : block[i] = x
    BY <1>1, ToSetType, ToSetMember
  <1>4. \A i \in 1..L : i \in 1..Len(ledger) \/ i = L
    BY <1>2
  <1>5. /\ \A x : x \in OnChain(ledger) <=> \E i \in 1..Len(ledger) : x \in ToSet(ledger[i])
        /\ \A x : x \in OnChain(ledger') <=> \E i \in 1..Len(ledger') : x \in ToSet(ledger'[i])
    BY <1>1, <1>2, ChainMembers
  <1>6. ASSUME NEW x
        PROVE  x \in OnChain(ledger') <=> x \in OnChain(ledger) \/ x \in ToSet(block)
    <2>1. ASSUME NEW i \in 1..L, x \in ToSet(ledger'[i])
          PROVE  x \in OnChain(ledger) \/ x \in ToSet(block)
      BY <1>2, <1>4, <1>5, <2>1
    <2>2. x \in ToSet(block) => x \in OnChain(ledger')
      <3>1. L \in 1..Len(ledger')
        BY <1>2
      <3>2. QED
        BY <1>2, <1>5, <3>1
    <2>3. x \in OnChain(ledger) => x \in OnChain(ledger')
      <3>1. \A i \in 1..Len(ledger) : i \in 1..Len(ledger')
        BY <1>2
      <3>2. QED
        BY <1>2, <1>5, <3>1
    <2>4. QED
      BY <1>2, <1>5, <2>1, <2>2, <2>3
  <1>7. OnChain(ledger') = OnChain(ledger) \union ToSet(block)
    BY <1>6
  <1>8. \A o : o \in SpentIn(ledger') <=>
                 o \in SpentIn(ledger) \/ \E x \in ToSet(block) : o \in Spends(x)
    BY <1>1, <1>2, <1>7, ChainMembers
  <1> HIDE DEF L
  <1>9. ASSUME NEW i \in 1..L, NEW x \in ToSet(ledger'[i])
        PROVE  /\ \A j \in 1..L : x \in ToSet(ledger'[j]) => i = j
               /\ \A o \in Spends(x) : \E j \in 1..i : o \in ToSet(ledger'[j])
    <2>1. CASE i \in 1..Len(ledger)
      <3>1. x \in ToSet(ledger[i]) /\ x \in OnChain(ledger)
        BY <1>2, <1>5, <1>9, <2>1
      <3>2. x \notin ToSet(block)
        BY <3>1 DEF Follows
      <3>3. ASSUME NEW j \in 1..L, x \in ToSet(ledger'[j])
            PROVE  i = j
        BY <1>2, <1>4, <2>1, <3>1, <3>2, <3>3 DEF Linear
      <3>4. ASSUME NEW o \in Spends(x)
            PROVE  \E j \in 1..i : o \in ToSet(ledger'[j])
        <4>1. PICK j \in 1..i : o \in ToSet(ledger[j])
          BY <2>1, <3>1 DEF Linear
        <4>2. j \in 1..Len(ledger)
          BY <1>2, <2>1
        <4>3. QED
          BY <1>2, <4>1, <4>2
      <3>5. QED
        BY <3>3, <3>4
    <2>2. CASE i = L
      <3>1. x \in ToSet(block) /\ x \notin OnChain(ledger)
        BY <1>2, <1>9, <2>2 DEF Follows, L
      <3>2. ASSUME NEW j \in 1..L, x \in ToSet(ledger'[j])
            PROVE  i = j
        <4>1. j \in 1..Len(ledger) => x \in OnChain(ledger)
          BY <1>2, <1>5, <3>2
        <4>2. QED
          BY <1>4, <2>2, <3>1, <4>1
      <3>3. ASSUME NEW o \in Spends(x)
            PROVE  \E j \in 1..i : o \in ToSet(ledger'[j])
        <4>1. PICK k \in 1..Len(block) : block[k] = x
          BY <1>3, <3>1
        <4>2. o \in OnChain(ledger) \/ \E j \in 1..Len(block) : block[j] = o
          BY <3>3, <4>1 DEF Follows
        <4>3. CASE o \in OnChain(ledger)
          <5>1. PICK j \in 1..Len(ledger) : o \in ToSet(ledger[j])
            BY <1>5, <4>3
          <5>2. j \in 1..i
            BY <1>2, <2>2 DEF L
          <5>3. QED
            BY <1>2, <5>1, <5>2
        <4>4. CASE \E j \in 1..Len(block) : block[j] = o
          <5>1. o \in ToSet(block) /\ i \in 1..i /\ ledger'[i] = block
            BY <1>2, <1>3, <2>2, <4>4 DEF L
          <5>2. QED
            BY <5>1
        <4>5. QED
          BY <4>2, <4>3, <4>4
      <3>4. QED
        BY <3>2, <3>3
    <2>3. QED
      BY <1>4, <2>1, <2>2 DEF L
  <1>10. Linear'
    BY <1>2, <1>9 DEF Linear, L
  <1>11. QED
    BY <1>2, <1>3, <1>7, <1>8, <1>10 DEF L

LEMMA ChainShrinks ==
    ASSUME TypeOK, Linear, ledger # <<>>, ledger' = Front(ledger)
    PROVE  /\ ledger' \in Seq(Seq(Tx)) /\ Len(ledger) \in Nat /\ Len(ledger') = Len(ledger) - 1
           /\ \A i \in 1..Len(ledger') : i \in 1..Len(ledger) /\ ledger'[i] = ledger[i]
           /\ Len(ledger) \in 1..Len(ledger) /\ ledger[Len(ledger)] \in Seq(Tx)
           /\ OnChain(ledger) = OnChain(ledger') \union ToSet(ledger[Len(ledger)])
           /\ \A o : o \in SpentIn(<<ledger[Len(ledger)]>>) <=>
                 \E x \in ToSet(ledger[Len(ledger)]) : o \in Spends(x)
           /\ SpentIn(<<ledger[Len(ledger)]>>) \in SUBSET Tx
           /\ SpentIn(ledger) = SpentIn(ledger') \union SpentIn(<<ledger[Len(ledger)]>>)
           /\ Linear'
  <1> DEFINE L == Len(ledger)
             last == ledger[L]
  <1>1. ledger \in Seq(Seq(Tx)) /\ L \in Nat /\ L # 0
    BY DEF TypeOK
  <1>2. /\ ledger' \in Seq(Seq(Tx)) /\ Len(ledger') = L - 1
        /\ \A i \in 1..(L - 1) : i \in 1..L /\ ledger'[i] = ledger[i]
    <2>1. ledger' = SubSeq(ledger, 1, L - 1)
      BY DEF Front
    <2>2. /\ SubSeq(ledger, 1, L - 1) \in Seq(Seq(Tx))
          /\ Len(SubSeq(ledger, 1, L - 1)) = L - 1
          /\ \A i \in 1..(L - 1) : SubSeq(ledger, 1, L - 1)[i] = ledger[i]
      <3> DEFINE S == Seq(Tx)
      <3>1. ledger \in Seq(S) /\ 1 \in 1..(L + 1) /\ L - 1 \in 0..L /\ (L - 1) - 1 + 1 = L - 1
            /\ \A i \in 1..(L - 1) : 1 + i - 1 = i
        BY <1>1
      <3> HIDE DEF S
      <3>2. /\ SubSeq(ledger, 1, L - 1) \in Seq(S)
            /\ Len(SubSeq(ledger, 1, L - 1)) = L - 1
            /\ \A i \in 1..(L - 1) : SubSeq(ledger, 1, L - 1)[i] = ledger[i]
        BY <1>1, <3>1, SubSeqProperties
      <3>3. QED
        BY <3>2 DEF S
    <2>3. QED
      BY <1>1, <2>1, <2>2
  <1>3. L \in 1..L /\ last \in Seq(Tx) /\ \A i \in 1..L : i \in 1..(L - 1) \/ i = L
    BY <1>1
  <1> HIDE DEF L, last
  <1>4. /\ \A x : x \in OnChain(ledger) <=> \E i \in 1..L : x \in ToSet(ledger[i])
        /\ \A x : x \in OnChain(ledger') <=> \E i \in 1..(L - 1) : x \in ToSet(ledger'[i])
    BY <1>1, <1>2, ChainMembers DEF L
  <1>5. OnChain(ledger) = OnChain(ledger') \union ToSet(last)
    <2>1. ASSUME NEW x
          PROVE  x \in OnChain(ledger) <=> x \in OnChain(ledger') \/ x \in ToSet(last)
      BY <1>2, <1>3, <1>4 DEF last
    <2>2. QED
      BY <2>1
  <1>6. <<last>> \in Seq(Seq(Tx)) /\ Len(<<last>>) = 1 /\ <<last>>[1] = last
    BY <1>3
  <1>7. \A x : x \in OnChain(<<last>>) <=> x \in ToSet(last)
    <2>1. \A x : x \in OnChain(<<last>>) <=> \E i \in 1..1 : x \in ToSet(<<last>>[i])
      BY <1>6, ChainMembers
    <2>2. \A i \in 1..1 : i = 1
      OBVIOUS
    <2>3. QED
      BY <1>6, <2>1, <2>2
  <1>8. /\ \A o : o \in SpentIn(<<last>>) <=> \E x \in ToSet(last) : o \in Spends(x)
        /\ SpentIn(<<last>>) \in SUBSET Tx
    BY <1>6, <1>7, ChainMembers
  <1>9. SpentIn(ledger) = SpentIn(ledger') \union SpentIn(<<last>>)
    <2>1. ASSUME NEW o
          PROVE  o \in SpentIn(ledger) <=> o \in SpentIn(ledger') \/ o \in SpentIn(<<last>>)
      BY <1>1, <1>2, <1>5, <1>8, ChainMembers
    <2>2. QED
      BY <2>1
  <1>10. Linear'
    <2>1. ASSUME NEW i \in 1..(L - 1), NEW x \in ToSet(ledger'[i])
          PROVE  /\ \A j \in 1..(L - 1) : x \in ToSet(ledger'[j]) => i = j
                 /\ \A o \in Spends(x) : \E j \in 1..i : o \in ToSet(ledger'[j])
      <3>1. i \in 1..L /\ x \in ToSet(ledger[i])
        BY <1>2, <2>1
      <3>2. \A j \in 1..(L - 1) : x \in ToSet(ledger'[j]) => i = j
        BY <1>2, <3>1 DEF Linear, L
      <3>3. ASSUME NEW o \in Spends(x)
            PROVE  \E j \in 1..i : o \in ToSet(ledger'[j])
        <4>1. PICK j \in 1..i : o \in ToSet(ledger[j])
          BY <3>1 DEF Linear, L
        <4>2. j \in 1..(L - 1)
          BY <1>1
        <4>3. QED
          BY <1>2, <4>1, <4>2
      <3>4. QED
        BY <3>2, <3>3
    <2>2. QED
      BY <1>2, <2>1 DEF Linear
  <1>11. QED
    BY <1>1, <1>2, <1>3, <1>5, <1>8, <1>9, <1>10 DEF L, last

-----------------------------------------------------------------------------
(* A block is adopted. *)

(* What ParseBlock does to  the cache. *)
LEMMA ForwardCache ==
    ASSUME TypeOK, NEW block, Follows(block), ParseBlock(block)
    PROVE  /\ DOMAIN txCache' \in SUBSET (DOMAIN txCache \union ToSet(block))
           /\ IsFiniteSet(DOMAIN txCache') /\ txCache' \in [DOMAIN txCache' -> Nat]
           /\ \A x \in ToSet(block) : x \in DOMAIN txCache' /\ txCache'[x] = Len(ledger) + 1
           /\ \A x \in DOMAIN txCache' : x \notin ToSet(block) => x \in DOMAIN txCache /\ txCache'[x] = txCache[x]
           /\ \A x \in DOMAIN txCache : x \notin ToSet(block) =>
                 (x \in DOMAIN txCache' <=> txCache[x] > (Len(ledger) + 1) - Retention)
  <1> DEFINE slot == Len(ledger) + 1
             known == (DOMAIN txCache) \union ToSet(block)
             at == [x \in known |-> IF x \in ToSet(block) THEN slot ELSE txCache[x]]
             dom == {y \in known : at[y] > slot - Retention}
  <1>1. txCache' = [x \in dom |-> at[x]]
    BY DEF ParseBlock
  <1>2. /\ slot \in Nat /\ Retention \in Nat \ {0} /\ slot > slot - Retention
    <2>1. Len(ledger) \in Nat /\ Retention \in Nat \ {0}
      BY TrackerAssumption DEF TypeOK
    <2>2. QED
      BY <2>1
  <1>3. \A x \in DOMAIN txCache : txCache[x] \in Nat
    BY DEF TypeOK
  <1>4. /\ \A x \in ToSet(block) : x \in known /\ at[x] = slot
        /\ \A x \in known : x \notin ToSet(block) => x \in DOMAIN txCache /\ at[x] = txCache[x]
    OBVIOUS
  <1>5. IsFiniteSet(known)
    <2>1. IsFiniteSet(ToSet(block))
      BY DistinctLength DEF Follows
    <2>2. QED
      BY <2>1, FS_Union DEF TypeOK
  <1>6. \A x : x \in dom <=> x \in known /\ at[x] > slot - Retention
    OBVIOUS
  <1>7. \A x \in known : at[x] \in Nat
    BY <1>2, <1>3, <1>4
  <1>8. known = (DOMAIN txCache) \union ToSet(block)
    OBVIOUS
  <1> HIDE DEF at, dom, known
  <1>9. DOMAIN txCache' = dom /\ \A x \in dom : txCache'[x] = at[x]
    BY <1>1
  <1>10. dom \in SUBSET known /\ IsFiniteSet(dom)
    <2>1. dom \in SUBSET known
      BY <1>6
    <2>2. QED
      BY <1>5, <2>1, FS_Subset
  <1>11. txCache' \in [DOMAIN txCache' -> Nat]
    BY <1>1, <1>7, <1>9, <1>10
  <1>12. \A x \in ToSet(block) : x \in dom /\ txCache'[x] = slot
    BY <1>2, <1>4, <1>6, <1>9
  <1>13. \A x \in dom : x \notin ToSet(block) => x \in DOMAIN txCache /\ txCache'[x] = txCache[x]
    BY <1>4, <1>9, <1>10
  <1>14. \A x \in DOMAIN txCache : x \notin ToSet(block) => (x \in dom <=> txCache[x] > slot - Retention)
    BY <1>4, <1>6, <1>8
  <1>15. QED
    BY <1>8, <1>9, <1>10, <1>11, <1>12, <1>13, <1>14

LEMMA ForwardKept ==
    ASSUME TrackerInv, NEW block, Follows(block), ParseBlock(block)
    PROVE  /\ TypeOK' /\ Linear' /\ CacheFits' /\ LinkedFits'
           /\ \A o \in OnChain(ledger) : Excused(o) => Excused(o)'
  <1>1. TypeOK /\ Linear /\ CacheFits /\ LinkedFits
    BY DEF TrackerInv
  <1>2. ledger' = Append(ledger, block) /\ UNCHANGED <<scanner, forkSpent, rolledBack, rebooted>>
    BY DEF ParseBlock
  <1> DEFINE L == Len(ledger) + 1
  <1>3. /\ ledger' \in Seq(Seq(Tx)) /\ Len(ledger) \in Nat /\ Len(ledger') = L
        /\ \A i \in 1..Len(ledger) : ledger'[i] = ledger[i]
        /\ ledger'[L] = block /\ OnChain(ledger') = OnChain(ledger) \union ToSet(block)
        /\ ToSet(block) \in SUBSET Tx /\ Linear'
    BY <1>1, <1>2, ChainGrows
  <1>4. \A i \in 1..L : i \in 1..Len(ledger) \/ i = L
    BY <1>3
  <1> HIDE DEF L
  <1>5. /\ DOMAIN txCache' \in SUBSET (DOMAIN txCache \union ToSet(block))
        /\ IsFiniteSet(DOMAIN txCache') /\ txCache' \in [DOMAIN txCache' -> Nat]
        /\ \A x \in ToSet(block) : x \in DOMAIN txCache' /\ txCache'[x] = L
        /\ \A x \in DOMAIN txCache' : x \notin ToSet(block) => x \in DOMAIN txCache /\ txCache'[x] = txCache[x]
        /\ \A x \in DOMAIN txCache : x \notin ToSet(block) =>
              (x \in DOMAIN txCache' <=> txCache[x] > L - Retention)
    BY <1>1, ForwardCache DEF L
  <1>6. linked' \in SUBSET (linked \union ToSet(block)) /\ hubs' = NotedAll(hubs, block)
    <2>1. LinkedIn(hubs, block) \in SUBSET ToSet(block)
      <3>1. block \in Seq(Tx) /\ DOMAIN block = 1..Len(block)
        BY DEF Follows
      <3>2. QED
        BY <3>1, ToSetMember DEF LinkedIn
    <2>2. QED
      BY <2>1 DEF ParseBlock
  <1>7. TypeOK'
    <2>1. hubs' \in SUBSET Tx
      BY <1>1, <1>6, NotedAllType DEF TypeOK, Follows
    <2>2. linked' \in SUBSET Tx /\ DOMAIN txCache' \in SUBSET Tx
      BY <1>1, <1>3, <1>5, <1>6 DEF TypeOK
    <2>3. QED
      BY <1>1, <1>2, <1>3, <1>5, <2>1, <2>2 DEF TypeOK
  <1>8. \A x : Settled(x) => Settled(x)'
    BY <1>2, <1>3 DEF Settled
  <1>9. \A x \in ToSet(block) : Settled(x)'
    BY <1>3 DEF Settled
  <1>10. LinkedFits'
    BY <1>1, <1>6, <1>8, <1>9 DEF LinkedFits
  <1>11. \A x \in DOMAIN txCache' : Settled(x)'
    BY <1>1, <1>5, <1>8, <1>9 DEF CacheFits
  <1>12. \A i \in 1..Len(ledger) : \A x \in ToSet(ledger[i]) : x \in OnChain(ledger) /\ x \notin ToSet(block)
    BY <1>1, ChainMembers DEF TypeOK, Follows
  <1>13. ASSUME NEW i \in 1..L, NEW x \in ToSet(ledger'[i])
         PROVE  /\ x \in DOMAIN txCache' => txCache'[x] = i
                /\ \A j \in 1..i : \A o \in ToSet(ledger'[j]) : o \in DOMAIN txCache' => x \in DOMAIN txCache'
    <2>1. CASE i = L
      BY <1>3, <1>5, <1>13, <2>1
    <2>2. CASE i \in 1..Len(ledger)
      <3>1. x \in ToSet(ledger[i]) /\ x \notin ToSet(block)
        BY <1>3, <1>12, <1>13, <2>2
      <3>2. x \in DOMAIN txCache' => txCache'[x] = i
        BY <1>1, <1>5, <2>2, <3>1 DEF CacheFits
      <3>3. ASSUME NEW j \in 1..i, NEW o \in ToSet(ledger'[j]), o \in DOMAIN txCache'
            PROVE  x \in DOMAIN txCache'
        <4>1. j \in 1..Len(ledger) /\ o \in ToSet(ledger[j])
          BY <1>3, <2>2, <3>3
        <4>2. o \notin ToSet(block)
          BY <1>12, <4>1
        <4>3. o \in DOMAIN txCache /\ txCache[o] > L - Retention
          BY <1>5, <3>3, <4>2
        <4>4. txCache[o] = j /\ x \in DOMAIN txCache /\ txCache[x] = i
          <5>1. txCache[o] = j
            BY <1>1, <4>1, <4>3 DEF CacheFits
          <5>2. x \in DOMAIN txCache
            BY <1>1, <2>2, <3>1, <4>1, <4>3 DEF CacheFits
          <5>3. QED
            BY <1>1, <2>2, <3>1, <5>1, <5>2 DEF CacheFits
        <4>5. txCache[x] > L - Retention
          <5>1. Retention \in Nat /\ L \in Nat
            BY <1>3, TrackerAssumption DEF L
          <5>2. QED
            BY <2>2, <4>3, <4>4, <5>1
        <4>6. QED
          BY <1>5, <3>1, <4>4, <4>5
      <3>4. QED
        BY <3>2, <3>3
    <2>3. QED
      BY <1>4, <2>1, <2>2
  <1>14. CacheFits'
    BY <1>3, <1>11, <1>13 DEF CacheFits
  <1>15. ASSUME NEW o \in OnChain(ledger), Excused(o)
         PROVE  Excused(o)'
    <2>1. o \notin ToSet(block)
      BY DEF Follows
    <2>2. QED
      BY <1>2, <1>5, <1>15, <2>1 DEF Excused
  <1>16. QED
    BY <1>3, <1>7, <1>10, <1>14, <1>15

(* The outputs open after a block were open before and are not spent in it, *)
(* or are made in it.                                                       *)
LEMMA OpenAfter ==
    ASSUME TypeOK, Linear, NEW block, Follows(block), ledger' = Append(ledger, block),
           NEW o \in OpenOn(ledger')
    PROVE  /\ Creates(o) = {o} /\ \A x \in ToSet(block) : o \notin Spends(x)
           /\ o \in OpenOn(ledger) \/ o \in ToSet(block)
  <1>1. /\ ledger' \in Seq(Seq(Tx)) /\ OnChain(ledger') = OnChain(ledger) \union ToSet(block)
        /\ \A p : p \in SpentIn(ledger') <=>
              p \in SpentIn(ledger) \/ \E x \in ToSet(block) : p \in Spends(x)
    BY ChainGrows
  <1>2. o \in OnChain(ledger') /\ Creates(o) = {o} /\ o \notin SpentIn(ledger')
    BY <1>1, ChainMembers
  <1>3. o \in OpenOn(ledger) <=> o \in OnChain(ledger) /\ Creates(o) = {o} /\ o \notin SpentIn(ledger)
    BY ChainMembers DEF TypeOK
  <1>4. QED
    BY <1>1, <1>2, <1>3

(* The tracker after a block. *)
LEMMA ForwardOpen ==
    ASSUME TrackerInv, NEW block, Follows(block), ParseBlock(block)
    PROVE  (Tracker \in Trackers)' /\ OpenIsTracked' /\ SpentIsForgotten'
  <1> DEFINE t == Tracker'
  <1>1. /\ TypeOK /\ Linear /\ Tracker \in Trackers
        /\ OpenIsTracked /\ SpentIsForgotten
    BY DEF TrackerInv
  <1>2. /\ ledger' = Append(ledger, block) /\ UNCHANGED <<scanner, forkSpent, rebooted>>
        /\ t \in Scanned(Tracker, block)
    <2>1. PICK s \in Scanned(Tracker, block) : SetMemory(s)
      BY DEF ParseBlock
    <2>2. s \in Trackers
      BY <1>1, <2>1, ScannedFacts
    <2>3. s = [map |-> s.map, fifo |-> s.fifo, inserted |-> s.inserted, peak |-> s.peak]
      BY <2>2 DEF Trackers
    <2>4. t = s
      BY <2>1, <2>3 DEF SetMemory, Tracker
    <2>5. QED
      BY <2>1, <2>4 DEF ParseBlock
  <1>3. /\ t \in Trackers
        /\ \A o \in t.map : /\ o \in map \/ o \in ToSet(block)
                            /\ \A x \in ToSet(block) : o \notin Spends(x)
        /\ Room(t) => Room(Tracker)
        /\ Room(t) => \A o : /\ o \in map \/ \E x \in ToSet(block) : o \in Creates(x)
                             /\ \A x \in ToSet(block) : o \notin Spends(x)
                             => o \in t.map
    <2>1. Tracker.map = map
      BY DEF Tracker
    <2>2. QED
      BY <1>1, <1>2, <2>1, ScannedFacts
  <1>4. t.map = map' /\ t.peak = peak' /\ t.inserted = inserted'
        /\ Tracker.peak = peak /\ Tracker.inserted = inserted
    BY DEF Tracker
  <1>5. (Tracker \in Trackers)'
    BY <1>2, <1>3 DEF Trackers, QueueFits
  <1> HIDE DEF t
  <1>6. HadRoom' => Room(t)
    BY <1>2, <1>4 DEF HadRoom, Room
  <1>7. HadRoom' => HadRoom
    BY <1>3, <1>4, <1>6 DEF HadRoom, Room
  <1>8. \A o \in OnChain(ledger) : Excused(o) => Excused(o)'
    BY ForwardKept
  <1>9. ASSUME HadRoom', NEW o \in OpenOn(ledger')
        PROVE  o \in map' \/ Excused(o)'
    <2>1. /\ Creates(o) = {o} /\ \A x \in ToSet(block) : o \notin Spends(x)
          /\ o \in OpenOn(ledger) \/ o \in ToSet(block)
      BY <1>1, <1>2, OpenAfter
    <2>2. CASE o \in ToSet(block)
      BY <1>3, <1>4, <1>6, <1>9, <2>1, <2>2
    <2>3. CASE o \in OpenOn(ledger) /\ o \in map
      BY <1>3, <1>4, <1>6, <1>9, <2>1, <2>3
    <2>4. CASE o \in OpenOn(ledger) /\ o \notin map
      <3>1. Excused(o)
        BY <1>1, <1>7, <1>9, <2>4 DEF OpenIsTracked, Excused
      <3>2. o \in OnChain(ledger)
        BY <1>1, <2>4, ChainMembers DEF TypeOK
      <3>3. QED
        BY <1>8, <3>1, <3>2
    <2>5. QED
      BY <2>1, <2>2, <2>3, <2>4
  <1>10. OpenIsTracked'
    BY <1>9 DEF OpenIsTracked, Excused
  <1>11. ASSUME NEW o \in map', o \in SpentIn(ledger')
         PROVE  o \in map /\ o \in SpentIn(ledger)
    <2>1. \A p : p \in SpentIn(ledger') <=>
              p \in SpentIn(ledger) \/ \E x \in ToSet(block) : p \in Spends(x)
      BY <1>1, <1>2, ChainGrows
    <2>2. o \in SpentIn(ledger)
      BY <1>3, <1>4, <1>11, <2>1
    <2>3. PICK y \in OnChain(ledger) : o \in Spends(y)
      BY <1>1, <2>2, ChainMembers DEF TypeOK
    <2>4. PICK i \in 1..Len(ledger) : y \in ToSet(ledger[i])
      BY <1>1, ChainMembers DEF TypeOK
    <2>5. PICK j \in 1..i : o \in ToSet(ledger[j])
      BY <1>1, <2>3, <2>4 DEF Linear
    <2>6. j \in 1..Len(ledger)
      BY <1>1, ChainMembers DEF TypeOK
    <2>7. o \in OnChain(ledger)
      BY <1>1, <2>5, <2>6, ChainMembers DEF TypeOK
    <2>8. o \notin ToSet(block)
      BY <2>7 DEF Follows
    <2>9. QED
      BY <1>3, <1>4, <2>2, <2>8
  <1>12. SpentIsForgotten'
    <2>1. \A o \in map \cap SpentIn(ledger) :
             /\ rebooted > 0 /\ scanner # "dex" /\ HashRank[<<o[1], o[2] + 1>>] < HashRank[o]
      BY <1>1 DEF SpentIsForgotten
    <2>2. QED
      BY <1>2, <1>11, <2>1 DEF SpentIsForgotten
  <1>13. QED
    BY <1>5, <1>10, <1>12

(* The hubs after a block. *)
LEMMA ForwardHubs ==
    ASSUME TrackerInv, NEW block, Follows(block), ParseBlock(block)
    PROVE  HubsHeld'
  <1>1. TypeOK /\ Linear /\ HubsHeld
    BY DEF TrackerInv
  <1>2. /\ ledger' = Append(ledger, block) /\ scanner' = scanner /\ hubs' = NotedAll(hubs, block)
    BY DEF ParseBlock
  <1>3. /\ hubs \in SUBSET Tx /\ block \in Seq(Tx)
        /\ \A x : x \in ToSet(block) <=> \E i \in 1..Len(block) : block[i] = x
    BY <1>1, ToSetMember DEF TypeOK, Follows
  <1>4. SUFFICES ASSUME scanner \in HasHubs, NEW o \in OpenOn(ledger')
                 PROVE  o \in hubs' \/ Excused(o)'
    BY <1>2 DEF HubsHeld
  <1>5. /\ Creates(o) = {o} /\ \A x \in ToSet(block) : o \notin Spends(x)
        /\ o \in OpenOn(ledger) \/ o \in ToSet(block)
    BY <1>1, <1>2, OpenAfter
  <1>6. Len(block) \in Nat /\ \A i \in 1..Len(block) : o \notin Spends(block[i])
    BY <1>3, <1>5
  <1>7. CASE o \in ToSet(block)
    <2>1. PICK p \in 1..Len(block) : block[p] = o
      BY <1>3, <1>7
    <2>2. p \in 0..Len(block) /\ p # 0 /\ o \in Creates(block[p])
          /\ \A n \in (p + 1)..Len(block) : o \notin Spends(block[n])
      BY <1>5, <1>6, <2>1
    <2>3. o \in NotedAll(hubs, block)
      BY <1>3, <1>4, <2>2, StaysHub
    <2>4. QED
      BY <1>2, <2>3
  <1>8. CASE o \in OpenOn(ledger)
    <2>1. CASE o \in hubs
      <3>1. 0 \in 0..Len(block) /\ \A n \in (0 + 1)..Len(block) : o \notin Spends(block[n])
        BY <1>6
      <3>2. o \in NotedAll(hubs, block)
        BY <1>3, <1>4, <2>1, <3>1, StaysHub
      <3>3. QED
        BY <1>2, <3>2
    <2>2. CASE Excused(o)
      <3>1. o \in OnChain(ledger)
        BY <1>1, <1>8, ChainMembers DEF TypeOK
      <3>2. QED
        BY <2>2, <3>1, ForwardKept
    <2>3. QED
      BY <1>1, <1>4, <1>8, <2>1, <2>2 DEF HubsHeld
  <1>9. QED
    BY <1>5, <1>7, <1>8

(* The edges drawn while a block is parsed. *)
LEMMA ForwardLinks ==
    ASSUME TrackerInv, HubsDoNotLink, NEW block, Follows(block), ParseBlock(block)
    PROVE  HubsDoNotLink'
  <1>1. TypeOK /\ Linear /\ HubsHeld /\ LinkedFits
    BY DEF TrackerInv
  <1>2. forkSpent' = forkSpent
    BY DEF ParseBlock
  <1>3. /\ hubs \in SUBSET Tx /\ block \in Seq(Tx) /\ Len(block) \in Nat /\ DOMAIN block = 1..Len(block)
        /\ \A i \in 1..Len(block) : block[i] \in Tx /\ block[i] \notin OnChain(ledger)
        /\ OnChain(ledger) \in SUBSET Tx
    <2>1. hubs \in SUBSET Tx /\ block \in Seq(Tx)
      BY <1>1 DEF TypeOK, Follows
    <2>2. \A i \in 1..Len(block) : block[i] \in ToSet(block)
      BY <2>1, ToSetMember
    <2>3. QED
      BY <1>1, <2>1, <2>2, ChainMembers DEF TypeOK, Follows
  <1>4. \A o \in OnChain(ledger) : Excused(o) => Excused(o)'
    BY ForwardKept
  <1>5. ASSUME NEW x \in linked, NEW o \in Spends(x)
        PROVE  Excused(o)'
    <2>1. Excused(o)
      BY <1>5 DEF HubsDoNotLink, Excused
    <2>2. CASE x \in OnChain(ledger)
      <3>1. PICK i \in 1..Len(ledger) : x \in ToSet(ledger[i])
        BY <1>1, <2>2, ChainMembers DEF TypeOK
      <3>2. PICK j \in 1..i : o \in ToSet(ledger[j])
        BY <1>1, <1>5, <3>1 DEF Linear
      <3>3. j \in 1..Len(ledger)
        BY <1>1, ChainMembers DEF TypeOK
      <3>4. o \in OnChain(ledger)
        BY <1>1, <3>2, <3>3, ChainMembers DEF TypeOK
      <3>5. QED
        BY <1>4, <2>1, <3>4
    <2>3. CASE Spends(x) \subseteq forkSpent
      BY <1>2, <1>5, <2>3 DEF Excused
    <2>4. QED
      BY <1>1, <1>5, <2>2, <2>3 DEF LinkedFits, Settled
  <1>6. ASSUME scanner \in HasHubs, NEW i \in 1..Len(block),
               EdgesOf(NotedAll(hubs, SubSeq(block, 1, i - 1)), {}, block[i]) # {},
               NEW o \in Spends(block[i])
        PROVE  Excused(o)'
    <2> DEFINE before == SubSeq(block, 1, i - 1)
    <2>1. o \notin NotedAll(hubs, before)
      <3>1. Spends(block[i]) = {o}
        BY <1>3, <1>6, TxFacts
      <3>2. QED
        BY <1>6, <3>1 DEF EdgesOf
    <2>2. /\ before \in Seq(Tx) /\ Len(before) = i - 1
          /\ \A n \in 1..(i - 1) : n \in 1..Len(block) /\ before[n] = block[n]
      <3> DEFINE m == i - 1
      <3>1. /\ 1 \in 1..(Len(block) + 1) /\ m \in 0..Len(block) /\ m - 1 + 1 = m /\ 1 <= m + 1
            /\ \A n \in 1..m : 1 + n - 1 = n /\ n \in 1..Len(block)
        BY <1>3
      <3> HIDE DEF m
      <3>2. /\ SubSeq(block, 1, m) \in Seq(Tx)
            /\ Len(SubSeq(block, 1, m)) = m
            /\ \A n \in 1..m : SubSeq(block, 1, m)[n] = block[n]
        BY <1>3, <3>1, SubSeqProperties
      <3>3. QED
        BY <3>1, <3>2 DEF m
    <2> HIDE DEF before
    <2>3. \A n \in 1..(i - 1) : o \notin Spends(before[n])
      <3>1. ASSUME NEW n \in 1..(i - 1), o \in Spends(before[n])
            PROVE  FALSE
        <4>1. block[n] = block[i]
          BY <1>3, <1>6, <2>2, <3>1, TxFacts
        <4>2. n = i
          BY <2>2, <4>1 DEF Follows
        <4>3. QED
          BY <1>3, <4>2
      <3>2. QED
        BY <3>1
    <2>4. i - 1 \in Nat
      BY <1>3
    <2>5. CASE \E j \in 1..Len(block) : j < i /\ block[j] = o
      <3>1. PICK j \in 1..(i - 1) : block[j] = o
        BY <1>3, <2>5
      <3>2. /\ j \in 0..Len(before) /\ j # 0 /\ o \in Creates(before[j])
            /\ \A n \in (j + 1)..Len(before) : o \notin Spends(before[n])
        <4>1. Creates(o) = {o}
          BY <1>3, <1>6, TxFacts
        <4>2. QED
          BY <2>2, <2>3, <2>4, <3>1, <4>1
      <3>3. QED
        BY <1>3, <1>6, <2>1, <2>2, <3>2, StaysHub
    <2>6. CASE o \in OnChain(ledger)
      <3>1. o \notin SpentIn(ledger)
        <4>1. \A y \in OnChain(ledger) : o \notin Spends(y)
          BY <1>3, <1>6, TxFacts
        <4>2. QED
          BY <1>1, <4>1, ChainMembers DEF TypeOK
      <3>2. o \in OpenOn(ledger)
        <4>1. Creates(o) = {o}
          BY <1>3, <1>6, TxFacts
        <4>2. QED
          BY <1>1, <2>6, <3>1, <4>1, ChainMembers DEF TypeOK
      <3>3. o \notin hubs
        <4>1. ASSUME o \in hubs
              PROVE  FALSE
          <5>1. 0 \in 0..Len(before) /\ \A n \in (0 + 1)..Len(before) : o \notin Spends(before[n])
            BY <2>2, <2>3, <2>4
          <5>2. QED
            BY <1>3, <1>6, <2>1, <2>2, <4>1, <5>1, StaysHub
        <4>2. QED
          BY <4>1
      <3>4. QED
        BY <1>1, <1>4, <1>6, <2>6, <3>2, <3>3 DEF HubsHeld
    <2>7. QED
      BY <1>6, <2>5, <2>6 DEF Follows
  <1>7. ASSUME NEW x \in linked', x \notin linked
        PROVE  scanner \in HasHubs /\ x \in LinkedIn(hubs, block)
    BY <1>7 DEF ParseBlock
  <1>8. ASSUME NEW x \in linked', NEW o \in Spends(x)
        PROVE  Excused(o)'
    <2>1. CASE x \in linked
      BY <1>5, <1>8, <2>1
    <2>2. CASE x \notin linked
      <3>1. PICK i \in 1..Len(block) :
                 x = block[i] /\ EdgesOf(NotedAll(hubs, SubSeq(block, 1, i - 1)), {}, block[i]) # {}
        BY <1>3, <1>7, <1>8, <2>2 DEF LinkedIn
      <3>2. QED
        BY <1>6, <1>7, <1>8, <2>2, <3>1
    <2>3. QED
      BY <2>1, <2>2
  <1>9. QED
    BY <1>8 DEF HubsDoNotLink, Excused

-----------------------------------------------------------------------------
(* A block is rolled back, and a restart. *)

LEMMA BackKept ==
    ASSUME TrackerInv, HandleRollback
    PROVE  TrackerInv' /\ (HubsDoNotLink => HubsDoNotLink')
  <1>1. /\ TypeOK /\ Linear /\ Tracker \in Trackers /\ CacheFits /\ LinkedFits /\ HubsHeld
        /\ OpenIsTracked /\ SpentIsForgotten
    BY DEF TrackerInv
  <1> DEFINE last == ledger[Len(ledger)]
  <1>2. /\ ledger # <<>> /\ ledger' = Front(ledger) /\ rolledBack' = rolledBack + 1
        /\ forkSpent' = forkSpent \union SpentIn(<<last>>)
        /\ UNCHANGED <<scanner, map, fifo, hubs, txCache, linked, inserted, peak, rebooted>>
    BY DEF HandleRollback, memoryVars
  <1>3. /\ ledger' \in Seq(Seq(Tx)) /\ Len(ledger) \in Nat /\ Len(ledger') = Len(ledger) - 1
        /\ \A i \in 1..Len(ledger') : i \in 1..Len(ledger) /\ ledger'[i] = ledger[i]
        /\ OnChain(ledger) = OnChain(ledger') \union ToSet(last)
        /\ \A o : o \in SpentIn(<<last>>) <=> \E x \in ToSet(last) : o \in Spends(x)
        /\ SpentIn(<<last>>) \in SUBSET Tx
        /\ SpentIn(ledger) = SpentIn(ledger') \union SpentIn(<<last>>)
        /\ Linear'
    BY <1>1, <1>2, ChainShrinks
  <1> HIDE DEF last
  <1>4. TypeOK'
    BY <1>1, <1>2, <1>3 DEF TypeOK
  <1>5. (Tracker \in Trackers)'
    BY <1>1, <1>2 DEF Tracker, Trackers, QueueFits
  <1>6. \A o : Excused(o) => Excused(o)'
    BY <1>2 DEF Excused
  <1>7. ASSUME NEW x, Settled(x)
        PROVE  Settled(x)'
    <2>1. CASE x \in ToSet(last)
      <3>1. Spends(x) \subseteq forkSpent'
        BY <1>2, <1>3, <2>1
      <3>2. QED
        BY <3>1 DEF Settled
    <2>2. CASE x \notin ToSet(last)
      BY <1>2, <1>3, <1>7, <2>2 DEF Settled
    <2>3. QED
      BY <2>1, <2>2
  <1>8. LinkedFits'
    BY <1>1, <1>2, <1>7 DEF LinkedFits
  <1>9. CacheFits'
    <2>1. \A x \in DOMAIN txCache' : Settled(x)'
      BY <1>1, <1>2, <1>7 DEF CacheFits
    <2>2. ASSUME NEW i \in 1..Len(ledger'), NEW x \in ToSet(ledger'[i])
          PROVE  /\ x \in DOMAIN txCache' => txCache'[x] = i
                 /\ \A j \in 1..i : \A o \in ToSet(ledger'[j]) : o \in DOMAIN txCache' => x \in DOMAIN txCache'
      <3>1. i \in 1..Len(ledger) /\ x \in ToSet(ledger[i])
        BY <1>3, <2>2
      <3>2. ASSUME NEW j \in 1..i, NEW o \in ToSet(ledger'[j]), o \in DOMAIN txCache'
            PROVE  x \in DOMAIN txCache'
        <4>1. j \in 1..Len(ledger') /\ o \in ToSet(ledger[j]) /\ o \in DOMAIN txCache
          BY <1>2, <1>3, <2>2, <3>2
        <4>2. QED
          BY <1>1, <1>2, <3>1, <4>1 DEF CacheFits
      <3>3. QED
        BY <1>1, <1>2, <3>1, <3>2 DEF CacheFits
    <2>3. QED
      BY <2>1, <2>2 DEF CacheFits
  <1>10. ASSUME NEW o \in OpenOn(ledger')
         PROVE  o \in OpenOn(ledger) \/ o \in forkSpent'
    <2>1. o \in OnChain(ledger') /\ Creates(o) = {o} /\ o \notin SpentIn(ledger')
      BY <1>3, ChainMembers
    <2>2. QED
      BY <1>1, <1>2, <1>3, <2>1, ChainMembers DEF TypeOK
  <1>11. HubsHeld'
    <2>1. SUFFICES ASSUME scanner \in HasHubs, NEW o \in OpenOn(ledger')
                   PROVE  o \in hubs' \/ Excused(o)'
      BY <1>2 DEF HubsHeld
    <2>2. CASE o \in OpenOn(ledger)
      BY <1>1, <1>2, <1>6, <2>1, <2>2 DEF HubsHeld
    <2>3. CASE o \in forkSpent'
      BY <2>3 DEF Excused
    <2>4. QED
      BY <1>10, <2>1, <2>2, <2>3
  <1>12. OpenIsTracked'
    <2>1. HadRoom' => HadRoom
      BY <1>2 DEF HadRoom
    <2>2. ASSUME HadRoom', NEW o \in OpenOn(ledger')
          PROVE  o \in map' \/ Excused(o)'
      <3>1. CASE o \in OpenOn(ledger)
        <4>1. o \in map \/ Excused(o)
          BY <1>1, <2>1, <2>2, <3>1 DEF OpenIsTracked, Excused
        <4>2. QED
          BY <1>2, <1>6, <4>1
      <3>2. CASE o \in forkSpent'
        BY <3>2 DEF Excused
      <3>3. QED
        BY <1>10, <2>2, <3>1, <3>2
    <2>3. QED
      BY <2>2 DEF OpenIsTracked, Excused
  <1>13. SpentIsForgotten'
    <2>1. SpentIn(ledger') \subseteq SpentIn(ledger)
      BY <1>3
    <2>2. QED
      BY <1>1, <1>2, <2>1 DEF SpentIsForgotten
  <1>14. ASSUME HubsDoNotLink
         PROVE  HubsDoNotLink'
    BY <1>2, <1>14 DEF HubsDoNotLink
  <1>15. QED
    BY <1>3, <1>4, <1>5, <1>8, <1>9, <1>11, <1>12, <1>13, <1>14 DEF TrackerInv

(* An output that is open on the chain and was not spent on an abandoned   *)
(* fork has no spender in the cache.                                       *)
LEMMA OpenInCache ==
    ASSUME TrackerInv, NEW o \in OpenOn(ledger)
    PROVE  /\ Creates(o) = {o} /\ o \in Tx
           /\ o \in forkSpent \/ \A x \in DOMAIN txCache : o \notin Spends(x)
  <1>1. TypeOK /\ CacheFits
    BY DEF TrackerInv
  <1>2. o \in OnChain(ledger) /\ Creates(o) = {o} /\ o \notin SpentIn(ledger)
    BY <1>1, ChainMembers DEF TypeOK
  <1>3. ASSUME NEW x \in DOMAIN txCache, o \in Spends(x)
        PROVE  o \in forkSpent
    <2>1. x \notin OnChain(ledger)
      BY <1>1, <1>2, <1>3, ChainMembers DEF TypeOK
    <2>2. Settled(x)
      BY <1>1 DEF CacheFits
    <2>3. QED
      BY <1>3, <2>1, <2>2 DEF Settled
  <1>4. o \in Tx
    BY <1>1, <1>2, ChainMembers DEF TypeOK
  <1>5. QED
    BY <1>2, <1>3, <1>4

LEMMA RestartKept ==
    ASSUME TrackerInv, Boot
    PROVE  TrackerInv' /\ ("surf" \notin Scanners /\ HubsDoNotLink => HubsDoNotLink')
  <1>1. /\ TypeOK /\ Linear /\ Tracker \in Trackers /\ CacheFits /\ LinkedFits /\ HubsHeld
        /\ OpenIsTracked /\ SpentIsForgotten
    BY DEF TrackerInv
  <1>2. /\ rebooted' = rebooted + 1 /\ SetMemory(Warmed) /\ hubs' = WarmedHubs
        /\ UNCHANGED <<scanner, ledger, txCache, forkSpent, rolledBack>>
    BY DEF Boot
  <1>3. rebooted' \in Nat /\ rebooted' > 0 /\ rebooted \in Nat
    BY <1>1, <1>2 DEF TypeOK
  <1>4. Warmed \in Trackers
    BY <1>1, WarmedFacts
  <1>5. Tracker' = Warmed /\ map' = Warmed.map /\ peak' = Warmed.peak /\ inserted' = Warmed.inserted
    <2>1. Warmed = [map |-> Warmed.map, fifo |-> Warmed.fifo,
                    inserted |-> Warmed.inserted, peak |-> Warmed.peak]
      BY <1>4 DEF Trackers
    <2>2. QED
      BY <1>2, <2>1 DEF SetMemory, Tracker
  <1>6. (Tracker \in Trackers)'
    BY <1>2, <1>4, <1>5 DEF Trackers, QueueFits
  <1>7. linked' \in SUBSET (linked \union DOMAIN txCache)
    BY DEF Boot
  <1>8. TypeOK'
    <2>1. hubs' \in SUBSET Tx
      BY <1>1, <1>2, WarmedHubsFacts
    <2>2. QED
      BY <1>1, <1>2, <1>3, <1>7, <2>1 DEF TypeOK
  <1>9. \A x : Settled(x) => Settled(x)'
    BY <1>2 DEF Settled
  <1>10. LinkedFits'
    BY <1>1, <1>7, <1>9 DEF LinkedFits, CacheFits
  <1>11. CacheFits' /\ Linear'
    <2>1. ledger' = ledger /\ txCache' = txCache
      BY <1>2
    <2>2. Linear'
      BY <1>1, <2>1 DEF Linear
    <2>3. \A x \in DOMAIN txCache' : Settled(x)'
      BY <1>1, <1>9, <2>1 DEF CacheFits
    <2>4. CacheFits'
      BY <1>1, <2>1, <2>3 DEF CacheFits
    <2>5. QED
      BY <2>2, <2>4
  <1>12. \A o : o \notin DOMAIN txCache => Excused(o)'
    BY <1>2, <1>3 DEF Excused
  <1>13. \A o : Excused(o) => Excused(o)'
    BY <1>2, <1>3 DEF Excused
  <1>14. HubsHeld'
    <2>1. SUFFICES ASSUME scanner \in HasHubs, NEW o \in OpenOn(ledger)
                   PROVE  o \in hubs' \/ Excused(o)'
      BY <1>2 DEF HubsHeld
    <2>2. CASE o \in forkSpent
      BY <1>2, <2>2 DEF Excused
    <2>3. CASE o \notin forkSpent
      BY <1>1, <1>2, <1>12, <2>1, <2>3, OpenInCache, WarmedHubsFacts
    <2>4. QED
      BY <2>2, <2>3
  <1>15. OpenIsTracked'
    <2>1. ASSUME HadRoom', NEW o \in OpenOn(ledger)
          PROVE  o \in map' \/ Excused(o)'
      <3>1. Room(Warmed)
        BY <1>2, <1>5, <2>1 DEF HadRoom, Room
      <3>2. CASE o \in forkSpent
        BY <1>2, <3>2 DEF Excused
      <3>3. CASE o \notin forkSpent
        BY <1>1, <1>5, <1>12, <2>1, <3>1, <3>3, OpenInCache, WarmedFacts
      <3>4. QED
        BY <3>2, <3>3
    <2>2. QED
      BY <1>2, <2>1 DEF OpenIsTracked, Excused
  <1>16. ASSUME NEW o \in map', o \in SpentIn(ledger)
         PROVE  scanner # "dex" /\ HashRank[<<o[1], o[2] + 1>>] < HashRank[o]
    <2>1. o \in Warmed.map /\ o \in DOMAIN txCache
      BY <1>1, <1>5, <1>16, WarmedFacts
    <2>2. PICK x \in OnChain(ledger) : o \in Spends(x)
      BY <1>1, <1>16, ChainMembers DEF TypeOK
    <2>3. x \in Tx /\ x = <<o[1], o[2] + 1>>
      BY <1>1, <2>2, TxFacts, ChainMembers DEF TypeOK
    <2>4. PICK i \in 1..Len(ledger) : x \in ToSet(ledger[i])
      BY <1>1, <2>2, ChainMembers DEF TypeOK
    <2>5. PICK j \in 1..i : o \in ToSet(ledger[j])
      BY <1>1, <2>2, <2>4 DEF Linear
    <2>6. j \in 1..Len(ledger) /\ Len(ledger) \in Nat
      BY <1>1, ChainMembers DEF TypeOK
    <2>7. x \in DOMAIN txCache /\ txCache[x] = i /\ txCache[o] = j
      <3>1. x \in DOMAIN txCache
        BY <1>1, <2>1, <2>4, <2>5 DEF CacheFits
      <3>2. QED
        BY <1>1, <2>1, <2>4, <2>5, <2>6, <3>1 DEF CacheFits
    <2>8. scanner # "dex" /\ Before(x, o)
      BY <1>1, <2>1, <2>2, <2>7, WarmedFacts
    <2>9. HashRank[x] < HashRank[o]
      BY <2>5, <2>6, <2>7, <2>8 DEF Before
    <2>10. QED
      BY <2>3, <2>8, <2>9
  <1>17. SpentIsForgotten'
    BY <1>2, <1>3, <1>16 DEF SpentIsForgotten
  <1>18. ASSUME "surf" \notin Scanners, HubsDoNotLink
         PROVE  HubsDoNotLink'
    <2>1. scanner \in HasHubs => scanner \in HubsByAddress
      BY <1>1, <1>18 DEF TypeOK, HasHubs, HubsByAddress
    <2>2. ASSUME NEW x \in linked', NEW o \in Spends(x)
          PROVE  Excused(o)'
      <3>1. CASE x \in linked
        <4>1. Excused(o)
          BY <1>18, <2>2, <3>1 DEF HubsDoNotLink, Excused
        <4>2. QED
          BY <1>13, <4>1
      <3>2. CASE x \notin linked
        <4>1. /\ scanner \in HasHubs /\ x \in DOMAIN txCache
              /\ EdgesOf(WarmedHubs, DOMAIN txCache, x) # {}
          BY <2>2, <3>2 DEF Boot
        <4>2. Spends(x) = {o}
          BY <1>1, <2>2, <4>1, TxFacts DEF TypeOK
        <4>3. o \notin DOMAIN txCache
          BY <2>1, <4>1, <4>2 DEF EdgesOf
        <4>4. QED
          BY <1>12, <4>3
      <3>3. QED
        BY <3>1, <3>2
    <2>3. QED
      BY <2>2 DEF HubsDoNotLink, Excused
  <1>19. QED
    BY <1>6, <1>8, <1>10, <1>11, <1>14, <1>15, <1>17, <1>18 DEF TrackerInv

-----------------------------------------------------------------------------
(* Every behaviour. *)

LEMMA InitKept ==
    ASSUME ThreadsInit
    PROVE  TrackerInv /\ HubsDoNotLink
  <1>1. ledger = <<>> /\ OnChain(ledger) = {} /\ OpenOn(ledger) = {} /\ SpentIn(ledger) = {}
    BY DEF ThreadsInit, OnChain, OpenOn, SpentIn
  <1>2. DOMAIN txCache = {} /\ txCache \in [DOMAIN txCache -> Nat] /\ IsFiniteSet(DOMAIN txCache)
    BY FS_EmptySet DEF ThreadsInit
  <1>3. TypeOK
    BY <1>1, <1>2 DEF ThreadsInit, TypeOK
  <1>4. Tracker = Unwarmed
    BY DEF ThreadsInit, Tracker, Unwarmed
  <1>5. Tracker \in Trackers
    BY <1>4, FreshFacts
  <1>6. 1..Len(ledger) = {}
    BY <1>1
  <1>7. Linear /\ CacheFits /\ LinkedFits
    BY <1>2, <1>6 DEF ThreadsInit, Linear, CacheFits, LinkedFits
  <1>8. HubsHeld /\ OpenIsTracked /\ SpentIsForgotten /\ HubsDoNotLink
    BY <1>1 DEF ThreadsInit, HubsHeld, OpenIsTracked, SpentIsForgotten, HubsDoNotLink
  <1>9. QED
    BY <1>3, <1>5, <1>7, <1>8 DEF TrackerInv

LEMMA StillKept ==
    ASSUME TrackerInv, UNCHANGED threadVars
    PROVE  TrackerInv' /\ (HubsDoNotLink => HubsDoNotLink')
  <1>1. UNCHANGED <<scanner, ledger, map, fifo, hubs, txCache, linked, forkSpent, inserted, peak,
                    rolledBack, rebooted>>
    BY DEF threadVars, memoryVars, noteVars
  <1>2. TypeOK' /\ Linear' /\ CacheFits' /\ LinkedFits' /\ HubsHeld'
    BY <1>1 DEF TrackerInv, TypeOK, Linear, CacheFits, LinkedFits, HubsHeld, Settled, Excused
  <1>3. OpenIsTracked' /\ SpentIsForgotten' /\ (HubsDoNotLink => HubsDoNotLink')
    BY <1>1 DEF TrackerInv, OpenIsTracked, SpentIsForgotten, HubsDoNotLink, HadRoom
  <1>4. (Tracker \in Trackers)'
    BY <1>1 DEF TrackerInv, Tracker, Trackers, QueueFits
  <1>5. QED
    BY <1>2, <1>3, <1>4 DEF TrackerInv

LEMMA ForwardStep ==
    ASSUME TrackerInv, NEW block \in NextBlocks(ledger), ParseBlock(block)
    PROVE  TrackerInv' /\ (HubsDoNotLink => HubsDoNotLink')
  <1>1. Follows(block)
    BY BlockFacts DEF TrackerInv
  <1>2. TypeOK' /\ Linear' /\ CacheFits' /\ LinkedFits'
    BY <1>1, ForwardKept
  <1>3. (Tracker \in Trackers)' /\ OpenIsTracked' /\ SpentIsForgotten'
    BY <1>1, ForwardOpen
  <1>4. HubsHeld'
    BY <1>1, ForwardHubs
  <1>5. HubsDoNotLink => HubsDoNotLink'
    BY <1>1, ForwardLinks
  <1>6. QED
    BY <1>2, <1>3, <1>4, <1>5 DEF TrackerInv

(* What the scanners, the hub registry and the cache keep true together    *)
(* through blocks scanned (`scan_block`, `scan_tx_inner`), rollbacks they  *)
(* are not told of, and the replay of the cache at boot                    *)
(* (`warm_from_tx_entries`).                                               *)
THEOREM TrackerAlways == ThreadsSpec => []TrackerInv
  <1>1. ThreadsInit => TrackerInv
    BY InitKept
  <1>2. TrackerInv /\ [ThreadsNext]_threadVars => TrackerInv'
    BY BackKept, RestartKept, ForwardStep, StillKept DEF ThreadsNext
  <1>3. QED
    BY <1>1, <1>2, PTL DEF ThreadsSpec

(* An output that is open on the chain is in the scanner's map, so the     *)
(* transaction that takes it is told as such, whatever blocks came and     *)
(* went: as long as the tracker had room, the output was not spent on a    *)
(* fork that was rolled back, and no restart found its transaction gone    *)
(* from the cache (dex.rs and the dApp scanners, `scan_block`).            *)
THEOREM OpenAlwaysTracked == ThreadsSpec => []OpenIsTracked
  <1>1. TrackerInv => OpenIsTracked
    BY DEF TrackerInv
  <1>2. QED
    BY <1>1, TrackerAlways, PTL

(* A tracker holds no output spent on the chain: every scanner takes what  *)
(* a block spends, and the replay of the cache at boot, which sorts by     *)
(* slot and hash, leaves one only where a transaction sorts before the one *)
(* it spends in the same block (state.rs, `cached_tx_entries`).            *)
THEOREM SpentAlwaysForgotten == ThreadsSpec => []SpentIsForgotten
  <1>1. TrackerInv => SpentIsForgotten
    BY DEF TrackerInv
  <1>2. QED
    BY <1>1, TrackerAlways, PTL

(* No transaction is linked to the one that made the hub output it spends  *)
(* (`note_spend_graph_hubs`, `collect_input_txs`), for the scanners that   *)
(* also know a hub by its address.  Surf's hubs are known by reference     *)
(* only, and the replay of a block at boot sorted by hash can miss one.    *)
THEOREM HubsNeverLink ==
    ASSUME "surf" \notin Scanners
    PROVE  ThreadsSpec => []HubsDoNotLink
  <1>1. ThreadsInit => HubsDoNotLink
    BY InitKept
  <1>2. TrackerInv /\ HubsDoNotLink /\ [ThreadsNext]_threadVars => HubsDoNotLink'
    BY BackKept, RestartKept, ForwardStep, StillKept DEF ThreadsNext
  <1>3. QED
    BY <1>1, <1>2, TrackerAlways, PTL DEF ThreadsSpec

=============================================================================
