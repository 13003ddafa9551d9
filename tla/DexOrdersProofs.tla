--------------------------- MODULE DexOrdersProofs ---------------------------
(***************************************************************************)
(* Every settlement is told, no order twice by one block, with what the    *)
(* order asks for, and the page shows it: proofs for any orders, venues    *)
(* and datums, a chain of any length, and any number of rollbacks and      *)
(* restarts.                                                               *)
(***************************************************************************)
EXTENDS DexOrders, DataLemmas

(* Transactions and blocks, as far as the proof needs their types. *)
SomeTx == [places : SUBSET Orders, spends : SUBSET Orders,
           truth : {"pending", "filled", "cancelled"},
           wallets : BOOLEAN, change : {"none", "other", "back"}]
SomeBlock == [id : Nat, txs : Seq(SomeTx)]

PlacedIn(txs) == UNION {t.places : t \in ToSet(txs)}
SpentIn(txs) == UNION {t.spends : t \in ToSet(txs)}

-----------------------------------------------------------------------------
(* Chains. *)

(* A chain and a block more. *)
LEMMA TxsOfAppend ==
    ASSUME NEW c \in Seq(SomeBlock), NEW b \in SomeBlock
    PROVE  /\ TxsOf(Append(c, b)) = TxsOf(c) \union ToSet(b.txs)
           /\ PlacedOn(Append(c, b)) = PlacedOn(c) \union PlacedIn(b.txs)
           /\ SpentOn(Append(c, b)) = SpentOn(c) \union SpentIn(b.txs)
  <1> DEFINE d == Append(c, b)
  <1>1. /\ Len(c) \in Nat /\ DOMAIN c = 1..Len(c) /\ DOMAIN d = 1..(Len(c) + 1)
        /\ d[Len(c) + 1] = b /\ \A i \in 1..Len(c) : d[i] = c[i]
    BY AppendProperties
  <1>2. TxsOf(d) = TxsOf(c) \union ToSet(b.txs)
    BY <1>1 DEF TxsOf
  <1>3. QED
    BY <1>2 DEF PlacedOn, SpentOn, PlacedIn, SpentIn

(* A chain is its front and its last block. *)
LEMMA TxsOfFront ==
    ASSUME NEW c \in Seq(SomeBlock), c # <<>>
    PROVE  /\ Front(c) \in Seq(SomeBlock) /\ Last(c) \in SomeBlock
           /\ Len(c) \in Nat \ {0} /\ Len(Front(c)) = Len(c) - 1
           /\ \A i \in DOMAIN Front(c) : i \in DOMAIN c /\ Front(c)[i] = c[i]
           /\ TxsOf(c) = TxsOf(Front(c)) \union ToSet(Last(c).txs)
           /\ PlacedOn(c) = PlacedOn(Front(c)) \union PlacedIn(Last(c).txs)
           /\ SpentOn(c) = SpentOn(Front(c)) \union SpentIn(Last(c).txs)
  <1>1. Len(c) \in Nat \ {0} /\ DOMAIN c = 1..Len(c) /\ \A i \in 1..Len(c) : c[i] \in SomeBlock
    BY EmptySeq, LenProperties, ElementOfSeq
  <1>2. /\ Front(c) \in Seq(SomeBlock) /\ Len(Front(c)) = Len(c) - 1
        /\ \A i \in 1..(Len(c) - 1) : Front(c)[i] = c[i]
    BY <1>1, SubSeqProperties DEF Front
  <1>3. Last(c) \in SomeBlock /\ Last(c) = c[Len(c)]
    BY <1>1 DEF Last
  <1>4. DOMAIN Front(c) = 1..(Len(c) - 1)
    BY <1>2, LenProperties
  <1>5. TxsOf(c) = TxsOf(Front(c)) \union ToSet(Last(c).txs)
    BY <1>1, <1>2, <1>3, <1>4 DEF TxsOf
  <1>6. QED
    BY <1>1, <1>2, <1>3, <1>4, <1>5 DEF PlacedOn, SpentOn, PlacedIn, SpentIn

(* A chain of one block. *)
LEMMA TxsOfOne ==
    ASSUME NEW b \in SomeBlock
    PROVE  PlacedOn(<<b>>) = PlacedIn(b.txs) /\ SpentOn(<<b>>) = SpentIn(b.txs)
  <1>1. DOMAIN <<b>> = {1} /\ <<b>>[1] = b
    OBVIOUS
  <1>2. TxsOf(<<b>>) = ToSet(b.txs)
    BY <1>1 DEF TxsOf
  <1>3. QED
    BY <1>2 DEF PlacedOn, SpentOn, PlacedIn, SpentIn

LEMMA TxTypes ==
    ASSUME NEW t \in Placements \union Settlements
    PROVE  t \in SomeTx
  <1>1. CASE t \in Placements
    <2>1. PICK n \in {shape[o].tx : o \in Orders} :
              t = [places |-> {o \in Orders : shape[o].tx = n}, spends |-> {},
                   truth |-> "pending", wallets |-> TRUE, change |-> "none"]
      BY <1>1, Zenon DEF Placements
    <2>2. QED
      BY <2>1 DEF SomeTx
  <1>2. CASE t \in Settlements
    <2>1. t \in [places : {{}}, spends : (SUBSET Orders) \ {{}}, truth : {"filled", "cancelled"},
                 wallets : BOOLEAN, change : {"none", "other", "back"}]
      BY <1>2 DEF Settlements
    <2>2. QED
      BY <2>1 DEF SomeTx
  <1>3. QED
    BY <1>1, <1>2

(* A block spends what is open on the chain, or what it places. *)
LEMMA BlockFollows ==
    ASSUME chain \in Seq(SomeBlock), NEW txs \in BlocksAfter
    PROVE  /\ txs \in Seq(SomeTx)
           /\ SpentIn(txs) \subseteq (PlacedOn(chain) \ SpentOn(chain)) \union PlacedIn(txs)
  <1> DEFINE ts == Placements \union Settlements
             One(t) == [id |-> 0, txs |-> <<t>>]
  <1>1. CASE \E t \in ts : txs = <<t>> /\ Follows(chain, t)
    <2>1. PICK t \in ts : txs = <<t>> /\ Follows(chain, t)
      BY <1>1
    <2>2. t \in SomeTx
      BY <2>1, TxTypes
    <2>3. ToSet(txs) = {t}
      BY <2>1 DEF ToSet
    <2>4. QED
      BY <2>1, <2>2, <2>3 DEF Follows, SpentIn, PlacedIn
  <1>2. CASE \E t, u \in ts : /\ txs = <<t, u>> /\ Follows(chain, t)
                              /\ Follows(Append(chain, One(t)), u)
    <2>1. PICK t \in ts, u \in ts : /\ txs = <<t, u>> /\ Follows(chain, t)
                                    /\ Follows(Append(chain, One(t)), u)
      BY <1>2
    <2>2. t \in SomeTx /\ u \in SomeTx /\ txs \in Seq(SomeTx)
      BY <2>1, TxTypes
    <2>3. ToSet(txs) = {t, u} /\ ToSet(<<t>>) = {t}
      BY <2>1 DEF ToSet
    <2>4. One(t) \in SomeBlock /\ One(t).txs = <<t>>
      BY <2>2 DEF SomeBlock
    <2>5. /\ PlacedOn(Append(chain, One(t))) = PlacedOn(chain) \union t.places
          /\ SpentOn(Append(chain, One(t))) = SpentOn(chain) \union t.spends
      BY <2>3, <2>4, TxsOfAppend DEF PlacedIn, SpentIn
    <2>6. QED
      BY <2>1, <2>2, <2>3, <2>5 DEF Follows, SpentIn, PlacedIn
  <1>3. \/ \E t \in ts : txs = <<t>> /\ Follows(chain, t)
        \/ \E t, u \in ts : /\ txs = <<t, u>> /\ Follows(chain, t)
                            /\ Follows(Append(chain, One(t)), u)
    BY DEF BlocksAfter
  <1>4. QED
    BY <1>1, <1>2, <1>3

(* The transactions of a block spend different orders, and place orders    *)
(* the chain does not have.                                                *)
LEMMA BlockOnce ==
    ASSUME chain \in Seq(SomeBlock), NEW txs \in BlocksAfter
    PROVE  /\ \A t, u \in ToSet(txs) : t.spends \cap u.spends # {} => t = u
           /\ PlacedIn(txs) \cap PlacedOn(chain) = {}
  <1> DEFINE ts == Placements \union Settlements
             One(t) == [id |-> 0, txs |-> <<t>>]
  <1>1. CASE \E t \in ts : txs = <<t>> /\ Follows(chain, t)
    <2>1. PICK t \in ts : txs = <<t>> /\ Follows(chain, t)
      BY <1>1
    <2>2. ToSet(txs) = {t}
      BY <2>1 DEF ToSet
    <2>3. QED
      BY <2>1, <2>2 DEF Follows, PlacedIn
  <1>2. CASE \E t, u \in ts : /\ txs = <<t, u>> /\ Follows(chain, t)
                              /\ Follows(Append(chain, One(t)), u)
    <2>1. PICK t \in ts, u \in ts : /\ txs = <<t, u>> /\ Follows(chain, t)
                                    /\ Follows(Append(chain, One(t)), u)
      BY <1>2
    <2>2. t \in SomeTx /\ u \in SomeTx
      BY <2>1, TxTypes
    <2>3. ToSet(txs) = {t, u} /\ ToSet(<<t>>) = {t}
      BY <2>1 DEF ToSet
    <2>4. One(t) \in SomeBlock /\ One(t).txs = <<t>>
      BY <2>2 DEF SomeBlock
    <2>5. /\ PlacedOn(Append(chain, One(t))) = PlacedOn(chain) \union t.places
          /\ SpentOn(Append(chain, One(t))) = SpentOn(chain) \union t.spends
      BY <2>3, <2>4, TxsOfAppend DEF PlacedIn, SpentIn
    <2>6. t.spends \cap u.spends = {}
      BY <2>1, <2>5 DEF Follows
    <2>7. QED
      BY <2>1, <2>2, <2>3, <2>5, <2>6 DEF Follows, PlacedIn
  <1>3. \/ \E t \in ts : txs = <<t>> /\ Follows(chain, t)
        \/ \E t, u \in ts : /\ txs = <<t, u>> /\ Follows(chain, t)
                            /\ Follows(Append(chain, One(t)), u)
    BY DEF BlocksAfter
  <1>4. QED
    BY <1>1, <1>2, <1>3

-----------------------------------------------------------------------------
(* Settlements. *)

(* Whatever want it ends with, a settlement the scanner sees is an event.  *)
LEMMA SettlementHasEvent ==
    ASSUME NEW id, NEW txs, NEW events \in Outcomes(id, txs),
           NEW pair \in SameBlock(txs) \union Consumed(txs), HasActor(pair)
    PROVE  \E e \in events : e.block = id /\ e.order = pair[1] /\ e.closes
  <1> DEFINE each == SettlementHits(id, txs)
  <1>1. PICK f \in [each -> UNION each] :
            /\ \A s \in each : f[s] \in s
            /\ events = OrderHits(id, txs) \union {f[s] : s \in each}
    BY DEF Outcomes
  <1>2. PICK same \in BOOLEAN : HitsOf(id, pair, same) \in each
    BY DEF SettlementHits
  <1>3. f[HitsOf(id, pair, same)] \in HitsOf(id, pair, same)
    BY <1>1, <1>2
  <1>4. f[HitsOf(id, pair, same)] \in events
    BY <1>1, <1>2
  <1>5. \A e \in HitsOf(id, pair, same) : e.block = id /\ e.order = pair[1] /\ e.closes
    BY DEF HitsOf, Hit
  <1>6. QED
    BY <1>3, <1>4, <1>5

-----------------------------------------------------------------------------
(* The tracker. *)

Trackers(W) ==
    [map : UNION {[D -> W] : D \in SUBSET Orders}, queue : Seq(Orders), evicted : SUBSET Orders]

(* Tracker t is s with the orders of S remembered, or evicted since.       *)
Became(s, t, S, wants) ==
    /\ s.evicted \subseteq t.evicted
    /\ DOMAIN s.map \union S \subseteq DOMAIN t.map \union t.evicted
    /\ DOMAIN t.map \subseteq DOMAIN s.map \union S
    /\ \A o \in DOMAIN t.map :
          \/ o \in DOMAIN s.map /\ t.map[o] = s.map[o]
          \/ o \in S /\ t.map[o] = wants[o]

(* `remember_orders` for one order. *)
LEMMA RememberedFacts ==
    ASSUME NEW W, NEW s \in Trackers(W), NEW o \in Orders, NEW wants, wants[o] \in W
    PROVE  /\ Remembered(s, o, wants[o]) \in Trackers(W)
           /\ Became(s, Remembered(s, o, wants[o]), {o}, wants)
  <1> DEFINE full == Cardinality(DOMAIN s.map) >= cap /\ s.queue # <<>>
             out == IF full THEN {Head(s.queue)} \cap DOMAIN s.map ELSE {}
             m == [p \in (DOMAIN s.map \ out) \union {o} |-> IF p = o THEN wants[o] ELSE s.map[p]]
             q == Append(IF full THEN Tail(s.queue) ELSE s.queue, o)
             g == s.evicted \union (out \ {o})
  <1>1. Remembered(s, o, wants[o]) = [map |-> m, queue |-> q, evicted |-> g]
    BY DEF Remembered
  <1>2. PICK D \in SUBSET Orders : s.map \in [D -> W]
    BY DEF Trackers
  <1>3. s.queue \in Seq(Orders) /\ s.evicted \in SUBSET Orders
    BY DEF Trackers
  <1>4. DOMAIN s.map = D /\ out \subseteq D
    BY <1>2
  <1>5. q \in Seq(Orders)
    <2>1. s.queue # <<>> => Tail(s.queue) \in Seq(Orders)
      BY <1>3
    <2>2. CASE full
      BY <2>1, <2>2
    <2>3. CASE ~full
      BY <1>3, <2>3
    <2>4. QED
      BY <2>2, <2>3
  <1> HIDE DEF q, out
  <1>6. m \in [(D \ out) \union {o} -> W] /\ (D \ out) \union {o} \in SUBSET Orders
    BY <1>2, <1>4
  <1>7. g \in SUBSET Orders
    BY <1>3, <1>4
  <1>8. /\ DOMAIN m = (D \ out) \union {o}
        /\ \A p \in DOMAIN m : m[p] = IF p = o THEN wants[o] ELSE s.map[p]
    BY <1>4
  <1> HIDE DEF m
  <1>9. [map |-> m, queue |-> q, evicted |-> g] \in Trackers(W)
    BY <1>5, <1>6, <1>7 DEF Trackers
  <1>10. Became(s, [map |-> m, queue |-> q, evicted |-> g], {o}, wants)
    BY <1>4, <1>8 DEF Became
  <1>11. QED
    BY <1>1, <1>9, <1>10

(* and for several. *)
LEMMA RememberedAllFacts ==
    ASSUME NEW W, NEW s \in Trackers(W), NEW news \in Seq(Orders), NEW wants,
           \A k \in 1..Len(news) : wants[news[k]] \in W
    PROVE  /\ RememberedAll(s, news, wants) \in Trackers(W)
           /\ Became(s, RememberedAll(s, news, wants), ToSet(news), wants)
  <1> DEFINE N == Len(news)
             A == Trackers(W)
             Is(f) == f = [n \in 0..N |-> IF n = 0 THEN s ELSE Remembered(f[n - 1], news[n], wants[news[n]])]
             after == CHOOSE f : Is(f)
             step == [p \in (1..N) \X A |-> Remembered(p[2], news[p[1]], wants[news[p[1]]])]
  <1>1. N \in Nat /\ \A n \in 1..N : news[n] \in Orders /\ wants[news[n]] \in W
    OBVIOUS
  <1>2. RememberedAll(s, news, wants) = after[N]
    BY DEF RememberedAll
  <1>3. ToSet(news) = {news[k] : k \in 1..N}
    BY DEF ToSet
  <1> HIDE DEF N
  <1>4. \A n \in 1..N : \A t \in A :
            /\ Remembered(t, news[n], wants[news[n]]) \in A
            /\ Became(t, Remembered(t, news[n], wants[news[n]]), {news[n]}, wants)
    BY <1>1, RememberedFacts
  <1> HIDE DEF A
  <1>5. step \in [(1..N) \X A -> A]
    <2>1. \A p \in (1..N) \X A : Remembered(p[2], news[p[1]], wants[news[p[1]]]) \in A
      BY <1>4
    <2>2. QED
      BY <2>1
  <1>6. s \in A
    BY DEF A
  <1>7. PICK g : Carries(g, N, A, s, step)
    <2> HIDE DEF step
    <2>1. QED
      BY <1>1, <1>5, <1>6, IterationExists
  <1>8. ASSUME NEW n \in 1..N
        PROVE  g[n] = Remembered(g[n - 1], news[n], wants[news[n]])
    <2>1. n - 1 \in 0..N /\ <<n, g[n - 1]>> \in (1..N) \X A
      BY <1>1, <1>7 DEF Carries
    <2>2. step[<<n, g[n - 1]>>] = Remembered(g[n - 1], news[n], wants[news[n]])
      BY <2>1
    <2> HIDE DEF step
    <2>3. QED
      BY <1>7, <2>2 DEF Carries
  <1>9. Is(g)
    <2>1. g \in [0..N -> A] /\ g[0] = s
      BY <1>7 DEF Carries
    <2>2. QED
      BY <1>1, <1>8, <2>1
  <1>10. Is(after)
    BY <1>9
  <1> HIDE DEF after, step
  <1>11. after[0] = s /\ \A n \in 1..N : after[n] = Remembered(after[n - 1], news[n], wants[news[n]])
    BY <1>1, <1>10
  <1> DEFINE First(n) == {news[k] : k \in 1..n}
             S == {n \in Nat : n <= N => after[n] \in A /\ Became(s, after[n], First(n), wants)}
  <1>12. 0 \in S
    BY <1>6, <1>11 DEF Became
  <1>13. ASSUME NEW n \in Nat, n \in S
         PROVE  n + 1 \in S
    <2>1. SUFFICES ASSUME n + 1 <= N
                   PROVE  after[n + 1] \in A /\ Became(s, after[n + 1], First(n + 1), wants)
      OBVIOUS
    <2>2. after[n] \in A /\ Became(s, after[n], First(n), wants) /\ n + 1 \in 1..N /\ n + 1 - 1 = n
      BY <1>1, <1>13, <2>1
    <2>3. after[n + 1] = Remembered(after[n], news[n + 1], wants[news[n + 1]])
      BY <1>11, <2>2
    <2>4. after[n + 1] \in A /\ Became(after[n], after[n + 1], {news[n + 1]}, wants)
      BY <1>4, <2>2, <2>3
    <2>5. First(n + 1) = First(n) \union {news[n + 1]}
      BY <2>2
    <2> HIDE DEF First
    <2>6. Became(s, after[n + 1], First(n + 1), wants)
      BY <2>2, <2>4, <2>5 DEF Became
    <2>7. QED
      BY <2>4, <2>6
  <1>14. Nat \subseteq S
    <2> HIDE DEF S
    <2>1. QED
      BY <1>12, <1>13, InductiveSet
  <1>15. N \in S
    BY <1>1, <1>14
  <1>16. QED
    BY <1>1, <1>2, <1>3, <1>15 DEF A

(* What a HashMap hands out of a set of orders is its elements. *)
LEMMA HashMapOrdersFacts ==
    ASSUME NEW S \in SUBSET Orders, NEW news \in HashMapOrders(S)
    PROVE  news \in Seq(Orders) /\ ToSet(news) = S /\ \A k \in 1..Len(news) : news[k] \in S
  <1>1. Cardinality(S) \in Nat
    BY OrdersAssumption, FS_Subset, FS_CardinalityType
  <1>2. /\ news \in [1..Cardinality(S) -> S]
        /\ \A o \in S : \E k \in 1..Cardinality(S) : news[k] = o
    BY DEF HashMapOrders
  <1>3. news \in Seq(S) /\ Len(news) = Cardinality(S) /\ DOMAIN news = 1..Cardinality(S)
    BY <1>1, <1>2, SeqDef
  <1>4. news \in Seq(Orders)
    BY <1>3
  <1>5. ToSet(news) = S
    BY <1>2, <1>3 DEF ToSet
  <1>6. QED
    BY <1>2, <1>3, <1>4, <1>5

TrackerOK == DOMAIN tracked \subseteq Orders /\ queue \in Seq(Orders) /\ evicted \subseteq Orders

(* A block takes what it spends from the tracker and remembers what it     *)
(* leaves open.                                                            *)
LEMMA TrackBlockFacts ==
    ASSUME TrackerOK, NEW txs \in Seq(SomeTx), TrackBlock(txs)
    PROVE  /\ TrackerOK' /\ evicted \subseteq evicted'
           /\ (DOMAIN tracked \ SpentIn(txs)) \union StillOpen(txs) \subseteq DOMAIN tracked' \union evicted'
           /\ DOMAIN tracked' \subseteq DOMAIN tracked \union StillOpen(txs)
           /\ \A o \in DOMAIN tracked' :
                  \/ o \in DOMAIN tracked /\ tracked'[o] = tracked[o]
                  \/ o \in StillOpen(txs) /\ tracked'[o] = Resolved(o, FirstWant(o, pools))
  <1> DEFINE rest == DOMAIN tracked \ SpentIn(txs)
             open == StillOpen(txs)
             old == [o \in rest |-> tracked[o]]
             taken == [map |-> old, queue |-> queue, evicted |-> evicted]
             wants == [o \in open |-> Resolved(o, FirstWant(o, pools))]
             W == {old[o] : o \in rest} \union {wants[o] : o \in open}
  <1>1. PICK news \in HashMapOrders(open) : SetTracker(RememberedAll(taken, news, wants))
    BY DEF TrackBlock, SpentIn
  <1>2. open \in SUBSET Orders
    <2>1. ToSet(txs) \subseteq SomeTx
      BY LenProperties, ElementOfSeq DEF ToSet
    <2>2. QED
      BY <2>1 DEF StillOpen, Deferred, SomeTx
  <1>3. rest \in SUBSET Orders /\ old \in [rest -> W]
    BY DEF TrackerOK
  <1>4. taken \in Trackers(W)
    BY <1>3, Zenon DEF TrackerOK, Trackers
  <1>5. /\ \A o \in open : wants[o] = Resolved(o, FirstWant(o, pools)) /\ wants[o] \in W
        /\ \A o \in rest : old[o] = tracked[o]
        /\ DOMAIN old = rest
    OBVIOUS
  <1> HIDE DEF open, old, wants, W
  <1>6. /\ news \in Seq(Orders) /\ ToSet(news) = open /\ \A k \in 1..Len(news) : news[k] \in open
    BY <1>1, <1>2, HashMapOrdersFacts
  <1>7. PICK r : /\ r = RememberedAll(taken, news, wants)
                 /\ r \in Trackers(W) /\ Became(taken, r, open, wants)
    <2> HIDE DEF taken
    <2>1. QED
      BY <1>4, <1>5, <1>6, RememberedAllFacts
  <1>8. tracked' = r.map /\ queue' = r.queue /\ evicted' = r.evicted
    BY <1>1, <1>7 DEF SetTracker
  <1>9. TrackerOK'
    <2>1. r.queue \in Seq(Orders) /\ r.evicted \in SUBSET Orders
      BY <1>7 DEF Trackers
    <2>2. DOMAIN r.map \subseteq Orders
      BY <1>2, <1>3, <1>5, <1>7 DEF Became
    <2>3. QED
      BY <1>8, <2>1, <2>2 DEF TrackerOK
  <1>10. /\ evicted \subseteq evicted'
         /\ rest \union open \subseteq DOMAIN tracked' \union evicted'
         /\ DOMAIN tracked' \subseteq rest \union open
         /\ \A o \in DOMAIN tracked' :
               \/ o \in rest /\ tracked'[o] = old[o]
               \/ o \in open /\ tracked'[o] = wants[o]
    BY <1>5, <1>7, <1>8 DEF Became
  <1>11. QED
    BY <1>5, <1>9, <1>10 DEF open

(* What a boot restores from the transactions kept. *)
LEMMA RestoredFacts ==
    ASSUME TrackerOK, NEW kept \in SUBSET SomeTx, NEW s \in Restored(kept), SetTracker(s),
           NEW open, open = {o \in UNION {t.places : t \in kept} : Recognised(o, FALSE)}
                                 \ UNION {t.spends : t \in kept}
    PROVE  /\ TrackerOK' /\ evicted \subseteq evicted'
           /\ open \subseteq DOMAIN tracked' \union evicted'
           /\ DOMAIN tracked' \subseteq open
           /\ \A o \in DOMAIN tracked' : tracked'[o] = FirstWant(o, FALSE)
  <1> DEFINE wants == [o \in open |-> FirstWant(o, FALSE)]
             none == [o \in {} |-> "none"]
             W == {wants[o] : o \in open}
  <1>1. PICK news \in HashMapOrders(open) : s = RememberedAll(Fresh, news, wants)
    BY DEF Restored
  <1>2. open \in SUBSET Orders
    BY DEF SomeTx
  <1>3. none \in [{} -> W] /\ DOMAIN none = {}
    OBVIOUS
  <1>4. Fresh \in Trackers(W) /\ Fresh.evicted = evicted /\ DOMAIN Fresh.map = {}
    <2>1. Fresh = [map |-> none, queue |-> <<>>, evicted |-> evicted]
      BY DEF Fresh
    <2>2. {} \in SUBSET Orders /\ <<>> \in Seq(Orders) /\ evicted \in SUBSET Orders
      BY DEF TrackerOK
    <2> HIDE DEF none, W
    <2>3. QED
      BY <1>3, <2>1, <2>2 DEF Trackers
  <1>5. \A o \in open : wants[o] = FirstWant(o, FALSE) /\ wants[o] \in W
    OBVIOUS
  <1> HIDE DEF wants, W
  <1>6. /\ news \in Seq(Orders) /\ ToSet(news) = open /\ \A k \in 1..Len(news) : news[k] \in open
    BY <1>1, <1>2, HashMapOrdersFacts
  <1>7. s \in Trackers(W) /\ Became(Fresh, s, open, wants)
    <2>1. \A k \in 1..Len(news) : wants[news[k]] \in W
      BY <1>5, <1>6
    <2>2. /\ RememberedAll(Fresh, news, wants) \in Trackers(W)
          /\ Became(Fresh, RememberedAll(Fresh, news, wants), ToSet(news), wants)
      BY <1>4, <1>6, <2>1, RememberedAllFacts
    <2>3. QED
      BY <1>1, <1>6, <2>2
  <1>8. tracked' = s.map /\ queue' = s.queue /\ evicted' = s.evicted
    BY DEF SetTracker
  <1>9. TrackerOK'
    <2>1. s.queue \in Seq(Orders) /\ s.evicted \in SUBSET Orders
      BY <1>7 DEF Trackers
    <2>2. DOMAIN s.map \subseteq Orders
      BY <1>2, <1>4, <1>7 DEF Became
    <2>3. QED
      BY <1>8, <2>1, <2>2 DEF TrackerOK
  <1>10. QED
    BY <1>4, <1>5, <1>7, <1>8, <1>9 DEF Became

-----------------------------------------------------------------------------
(* The inductive invariant.  An order open on the chain is tracked or was  *)
(* lost; what a boot replays holds what the chain placed since the window, *)
(* each under its height, and what it spends in excess of the chain was    *)
(* spent on an abandoned block.                                            *)

OpenOrderTracked == PlacedOn(chain) \ SpentOn(chain) \subseteq DOMAIN tracked \union Lost
CacheCovers ==
    \A i \in DOMAIN chain : \A t \in ToSet(chain[i].txs) : \A o \in t.places :
        (t \in DOMAIN cache /\ cache[t] = i) \/ o \in forgotten
CacheSpends == \A t \in DOMAIN cache : t.spends \subseteq SpentOn(chain) \union orphanSpent

OrdersInv ==
    /\ chain \in Seq(SomeBlock) /\ blocks \in Nat
    /\ TrackerOK /\ DOMAIN cache \subseteq SomeTx
    /\ OpenOrderTracked
    /\ CacheCovers
    /\ CacheSpends
    /\ SettlementIsTold

LEMMA InvInitially == OrdersInit => OrdersInv
  <1> SUFFICES ASSUME OrdersInit PROVE OrdersInv
    OBVIOUS
  <1>1. /\ chain = <<>> /\ DOMAIN cache = {} /\ blocks = 0
        /\ DOMAIN tracked = {} /\ queue = <<>> /\ evicted = {}
    BY DEF OrdersInit
  <1>2. DOMAIN chain = {} /\ TxsOf(chain) = {}
    BY <1>1 DEF TxsOf
  <1>3. TrackerOK
    BY <1>1 DEF TrackerOK
  <1>4. QED
    BY <1>1, <1>2, <1>3
       DEF OrdersInv, OpenOrderTracked, CacheCovers, CacheSpends, SettlementIsTold, PlacedOn

LEMMA RollForwardKeeps ==
    ASSUME OrdersInv, NEW txs \in BlocksAfter, RollForward(txs)
    PROVE  OrdersInv'
  <1> DEFINE b == [id |-> blocks, txs |-> txs]
  <1>1. /\ chain' = Append(chain, b) /\ blocks' = blocks + 1 /\ log \subseteq log'
        /\ cache' = [t \in DOMAIN cache \union ToSet(txs) |->
                        IF t \in ToSet(txs) THEN Len(chain) + 1 ELSE cache[t]]
        /\ TrackBlock(txs)
        /\ UNCHANGED <<shape, orphanSpent, forgotten>>
    BY DEF RollForward, orphanVars
  <1>2. /\ chain \in Seq(SomeBlock) /\ blocks \in Nat /\ txs \in Seq(SomeTx)
        /\ SpentIn(txs) \subseteq (PlacedOn(chain) \ SpentOn(chain)) \union PlacedIn(txs)
        /\ PlacedIn(txs) \cap PlacedOn(chain) = {}
    BY BlockFollows, BlockOnce DEF OrdersInv
  <1>3. b \in SomeBlock /\ b.txs = txs /\ b.id = blocks
    BY <1>2 DEF SomeBlock
  <1>4. /\ TxsOf(chain') = TxsOf(chain) \union ToSet(txs)
        /\ PlacedOn(chain') = PlacedOn(chain) \union PlacedIn(txs)
        /\ SpentOn(chain') = SpentOn(chain) \union SpentIn(txs)
    BY <1>1, <1>2, <1>3, TxsOfAppend
  <1>5. unlearned' = unlearned \union {o \in PlacedIn(txs) : ~Recognised(o, vyfi)}
    BY DEF RollForward, PlacedIn
  <1>6. Deferred(txs) = {o \in PlacedIn(txs) : Recognised(o, vyfi)}
    BY DEF Deferred, PlacedIn
  <1>7. /\ TrackerOK' /\ evicted \subseteq evicted'
        /\ (DOMAIN tracked \ SpentIn(txs)) \union StillOpen(txs) \subseteq DOMAIN tracked' \union evicted'
    BY <1>1, <1>2, TrackBlockFacts DEF OrdersInv
  <1>8. Lost \subseteq Lost' /\ unlearned' \subseteq Lost' /\ evicted' \subseteq Lost'
    BY <1>1, <1>5, <1>7 DEF Lost
  <1>9. OpenOrderTracked'
    <2>1. Deferred(txs) \ SpentIn(txs) \subseteq StillOpen(txs)
      <3>1. \A pair \in SameBlock(txs) : pair[1] \in SpentIn(txs)
        BY DEF SameBlock, SpentIn
      <3>2. QED
        BY <3>1 DEF StillOpen
    <2>2. PlacedOn(chain) \ SpentOn(chain) \subseteq DOMAIN tracked \union Lost
      BY DEF OrdersInv, OpenOrderTracked
    <2>3. PlacedIn(txs) \ SpentIn(txs) \subseteq StillOpen(txs) \union unlearned'
      BY <1>5, <1>6, <2>1
    <2>4. PlacedOn(chain') \ SpentOn(chain') \subseteq DOMAIN tracked' \union Lost'
      BY <1>4, <1>7, <1>8, <2>2, <2>3
    <2>5. QED
      BY <2>4 DEF OpenOrderTracked, PlacedOn, SpentOn, TxsOf
  <1>10. /\ Len(chain) \in Nat /\ DOMAIN chain = 1..Len(chain) /\ DOMAIN chain' = 1..(Len(chain) + 1)
         /\ chain'[Len(chain) + 1] = b /\ \A j \in 1..Len(chain) : chain'[j] = chain[j]
    BY <1>1, <1>2, <1>3, AppendProperties
  <1>11. /\ DOMAIN cache' = DOMAIN cache \union ToSet(txs)
         /\ \A t \in DOMAIN cache' : cache'[t] = IF t \in ToSet(txs) THEN Len(chain) + 1 ELSE cache[t]
         /\ ToSet(txs) \subseteq SomeTx
    <2>1. ToSet(txs) \subseteq SomeTx
      BY <1>2, LenProperties, ElementOfSeq DEF ToSet
    <2>2. QED
      BY <1>1, <2>1
  <1>12. CacheCovers'
    <2> SUFFICES ASSUME NEW i \in DOMAIN chain', NEW t \in ToSet(chain'[i].txs), NEW o \in t.places
                 PROVE  (t \in DOMAIN cache' /\ cache'[t] = i) \/ o \in forgotten'
      BY DEF CacheCovers
    <2>1. CASE i \in DOMAIN chain
      <3>1. t \in ToSet(chain[i].txs)
        BY <1>10, <2>1
      <3>2. t \notin ToSet(txs)
        <4>1. o \in PlacedOn(chain)
          BY <2>1, <3>1 DEF PlacedOn, TxsOf
        <4>2. QED
          BY <1>2, <4>1 DEF PlacedIn
      <3>3. (t \in DOMAIN cache /\ cache[t] = i) \/ o \in forgotten
        BY <2>1, <3>1 DEF OrdersInv, CacheCovers
      <3>4. QED
        BY <1>1, <1>11, <3>2, <3>3
    <2>2. CASE i = Len(chain) + 1
      <3>1. t \in ToSet(txs)
        BY <1>3, <1>10, <2>2
      <3>2. QED
        BY <1>11, <2>2, <3>1
    <2>3. QED
      BY <1>10, <2>1, <2>2
  <1>13. CacheSpends'
    <2> SUFFICES ASSUME NEW t \in DOMAIN cache' PROVE t.spends \subseteq SpentOn(chain') \union orphanSpent
      BY <1>1 DEF CacheSpends, SpentOn, TxsOf
    <2>1. QED
      BY <1>4, <1>11 DEF OrdersInv, CacheSpends, SpentIn
  <1>14. SettlementIsTold'
    <2> SUFFICES ASSUME NEW i \in DOMAIN chain', NEW t \in ToSet(chain'[i].txs), NEW o \in t.spends
                 PROVE  \/ \E e \in log' : e.block = chain'[i].id /\ e.order = o /\ e.closes
                        \/ o \in Lost' \/ ~HasActor(<<o, t>>)
      BY <1>1 DEF SettlementIsTold, HasActor
    <2>1. CASE i \in DOMAIN chain
      <3>1. chain'[i] = chain[i]
        BY <1>10, <2>1
      <3>2. \/ \E e \in log : e.block = chain[i].id /\ e.order = o /\ e.closes
            \/ o \in Lost \/ ~HasActor(<<o, t>>)
        BY <2>1, <3>1 DEF OrdersInv, SettlementIsTold
      <3>3. QED
        BY <1>1, <1>8, <3>1, <3>2
    <2>2. CASE i \notin DOMAIN chain
      <3>1. chain'[i] = b /\ t \in ToSet(txs)
        BY <1>3, <1>10, <2>2
      <3>2. PICK events \in Outcomes(blocks, txs) : log' = log \union events
        BY DEF RollForward
      <3>3. CASE <<o, t>> \in SameBlock(txs) \union Consumed(txs) /\ HasActor(<<o, t>>)
        <4>1. \E e \in events : e.block = blocks /\ e.order = o /\ e.closes
          BY <3>3, SettlementHasEvent
        <4>2. QED
          BY <1>3, <3>1, <3>2, <4>1
      <3>4. CASE <<o, t>> \notin SameBlock(txs) \union Consumed(txs)
        <4>1. o \in SpentIn(txs)
          BY <3>1 DEF SpentIn
        <4>2. o \in Orders
          BY <1>11, <3>1 DEF SomeTx
        <4>3. o \notin Deferred(txs) /\ o \notin DOMAIN tracked
          BY <3>1, <3>4, <4>2 DEF SameBlock, Consumed
        <4>4. CASE o \in PlacedIn(txs)
          BY <1>5, <1>6, <1>8, <4>3, <4>4
        <4>5. CASE o \in PlacedOn(chain) \ SpentOn(chain)
          BY <1>8, <4>3, <4>5 DEF OrdersInv, OpenOrderTracked
        <4>6. QED
          BY <1>2, <4>1, <4>4, <4>5
      <3>5. QED
        BY <3>3, <3>4
    <2>3. QED
      BY <2>1, <2>2
  <1>15. chain' \in Seq(SomeBlock) /\ blocks' \in Nat
    BY <1>1, <1>2, <1>3, AppendProperties
  <1>16. DOMAIN cache' \subseteq SomeTx
    BY <1>11 DEF OrdersInv
  <1>17. QED
    BY <1>7, <1>9, <1>12, <1>13, <1>14, <1>15, <1>16 DEF OrdersInv

LEMMA RollBackKeeps == ASSUME OrdersInv, RollBack PROVE OrdersInv'
  <1>1. /\ chain \in Seq(SomeBlock) /\ chain # <<>> /\ chain' = Front(chain)
        /\ orphanSpent' = orphanSpent \union SpentOn(<<Last(chain)>>)
        /\ UNCHANGED <<shape, tracked, queue, evicted, cache, log, blocks, unlearned, forgotten>>
    BY DEF RollBack, scanVars, trackerVars, OrdersInv
  <1>2. /\ Front(chain) \in Seq(SomeBlock) /\ Last(chain) \in SomeBlock
        /\ \A i \in DOMAIN Front(chain) : i \in DOMAIN chain /\ Front(chain)[i] = chain[i]
        /\ TxsOf(chain) = TxsOf(Front(chain)) \union ToSet(Last(chain).txs)
        /\ PlacedOn(chain) = PlacedOn(Front(chain)) \union PlacedIn(Last(chain).txs)
        /\ SpentOn(chain) = SpentOn(Front(chain)) \union SpentIn(Last(chain).txs)
    BY <1>1, TxsOfFront
  <1>3. orphanSpent' = orphanSpent \union SpentIn(Last(chain).txs)
    BY <1>1, <1>2, TxsOfOne
  <1>4. Lost' = Lost \union SpentIn(Last(chain).txs)
    BY <1>1, <1>3 DEF Lost
  <1>5. OpenOrderTracked' /\ CacheSpends'
    BY <1>1, <1>2, <1>3, <1>4 DEF OrdersInv, OpenOrderTracked, CacheSpends
  <1>6. CacheCovers'
    BY <1>1, <1>2 DEF OrdersInv, CacheCovers
  <1>7. SettlementIsTold'
    <2> SUFFICES ASSUME NEW i \in DOMAIN chain', NEW t \in ToSet(chain'[i].txs), NEW o \in t.spends
                 PROVE  \/ \E e \in log' : e.block = chain'[i].id /\ e.order = o /\ e.closes
                        \/ o \in Lost' \/ ~HasActor(<<o, t>>)
      BY <1>1 DEF SettlementIsTold, HasActor
    <2>1. i \in DOMAIN chain /\ chain'[i] = chain[i]
      BY <1>1, <1>2
    <2>2. QED
      BY <1>1, <1>4, <2>1 DEF OrdersInv, SettlementIsTold
  <1>8. TrackerOK' /\ DOMAIN cache' \subseteq SomeTx
    BY <1>1 DEF OrdersInv, TrackerOK
  <1>9. QED
    BY <1>1, <1>2, <1>5, <1>6, <1>7, <1>8 DEF OrdersInv

LEMMA RestartKeeps == ASSUME OrdersInv, Restart PROVE OrdersInv'
  <1> DEFINE Kept(passed) == {t \in DOMAIN cache : cache[t] > passed}
  <1>1. PICK passed \in 0..Len(chain) :
            /\ cache' = [t \in Kept(passed) |-> cache[t]]
            /\ \E s \in Restored(Kept(passed)) : SetTracker(s)
            /\ forgotten' = forgotten \union PlacedOn(SubSeq(chain, 1, passed))
    BY Zenon DEF Restart
  <1> DEFINE kept == Kept(passed)
  <1>2. /\ kept = {t \in DOMAIN cache : cache[t] > passed}
        /\ cache' = [t \in kept |-> cache[t]]
        /\ \E s \in Restored(kept) : SetTracker(s)
        /\ forgotten' = forgotten \union PlacedOn(SubSeq(chain, 1, passed))
    BY <1>1
  <1> HIDE DEF kept
  <1>3. /\ unlearned' = unlearned \union {o \in PlacedOn(chain) : ~Recognised(o, FALSE)}
        /\ UNCHANGED <<shape, chain, log, blocks, orphanSpent>>
    BY DEF Restart, orphanVars
  <1>4. kept \in SUBSET SomeTx /\ DOMAIN cache' = kept /\ \A t \in kept : cache'[t] = cache[t]
    BY <1>2 DEF OrdersInv
  <1> DEFINE open == {o \in UNION {t.places : t \in kept} : Recognised(o, FALSE)}
                         \ UNION {t.spends : t \in kept}
  <1>5. /\ TrackerOK' /\ evicted \subseteq evicted'
        /\ open \subseteq DOMAIN tracked' \union evicted'
    <2>1. PICK s \in Restored(kept) : SetTracker(s)
      BY <1>2
    <2>2. TrackerOK
      BY DEF OrdersInv
    <2>3. QED
      BY <1>4, <2>1, <2>2, RestoredFacts
  <1>6. Lost \subseteq Lost' /\ forgotten \subseteq forgotten' /\ forgotten' \union evicted' \union unlearned' \subseteq Lost'
    BY <1>2, <1>3, <1>5 DEF Lost
  <1>7. OpenOrderTracked'
    <2>1. PlacedOn(chain)' = PlacedOn(chain) /\ SpentOn(chain)' = SpentOn(chain)
      BY <1>3 DEF PlacedOn, SpentOn, TxsOf
    <2>2. ASSUME NEW o \in PlacedOn(chain) \ SpentOn(chain), o \notin Lost'
          PROVE  o \in DOMAIN tracked'
      <3>1. PICK i \in DOMAIN chain : \E t \in ToSet(chain[i].txs) : o \in t.places
        BY DEF PlacedOn, TxsOf
      <3>2. PICK t \in ToSet(chain[i].txs) : o \in t.places
        BY <3>1
      <3>3. t \in DOMAIN cache /\ cache[t] = i
        BY <1>6, <2>2, <3>2 DEF OrdersInv, CacheCovers
      <3>4. CASE i <= passed
        <4>1. chain \in Seq(SomeBlock) /\ DOMAIN chain = 1..Len(chain)
          BY LenProperties DEF OrdersInv
        <4> DEFINE c == SubSeq(chain, 1, passed)
        <4>2. i \in DOMAIN c /\ c[i] = chain[i]
          BY <3>4, <4>1
        <4> HIDE DEF c
        <4>3. o \in PlacedOn(c)
          BY <3>2, <4>2 DEF PlacedOn, TxsOf
        <4>4. o \in forgotten'
          BY <1>2, <4>3 DEF c
        <4>5. QED
          BY <1>6, <2>2, <4>4
      <3>5. CASE i > passed
        <4>1. t \in kept
          BY <1>2, <3>3, <3>5
        <4>2. Recognised(o, FALSE) /\ o \notin orphanSpent
          BY <1>3, <1>6, <2>2 DEF Lost
        <4>3. o \notin UNION {u.spends : u \in kept}
          BY <1>2, <2>2, <4>2 DEF OrdersInv, CacheSpends
        <4>4. o \in open
          BY <3>2, <4>1, <4>2, <4>3
        <4>5. QED
          BY <1>5, <1>6, <2>2, <4>4
      <3>6. passed \in Nat /\ i \in Nat
        BY LenProperties DEF OrdersInv
      <3>7. QED
        BY <3>4, <3>5, <3>6
    <2>3. QED
      BY <2>1, <2>2 DEF OpenOrderTracked
  <1>8. CacheCovers'
    <2> SUFFICES ASSUME NEW i \in DOMAIN chain, NEW t \in ToSet(chain[i].txs), NEW o \in t.places
                 PROVE  (t \in DOMAIN cache' /\ cache'[t] = i) \/ o \in forgotten'
      BY <1>3 DEF CacheCovers
    <2>1. CASE o \in forgotten
      BY <1>6, <2>1
    <2>2. CASE t \in DOMAIN cache /\ cache[t] = i /\ i > passed
      BY <1>2, <1>4, <2>2
    <2>3. CASE i <= passed
      <3>1. chain \in Seq(SomeBlock) /\ DOMAIN chain = 1..Len(chain)
        BY LenProperties DEF OrdersInv
      <3> DEFINE c == SubSeq(chain, 1, passed)
      <3>2. i \in DOMAIN c /\ c[i] = chain[i]
        BY <2>3, <3>1
      <3> HIDE DEF c
      <3>3. o \in PlacedOn(c)
        BY <3>2 DEF PlacedOn, TxsOf
      <3>4. QED
        BY <1>2, <3>3 DEF c
    <2>4. passed \in Nat /\ i \in Nat
      BY LenProperties DEF OrdersInv
    <2>5. QED
      BY <2>1, <2>2, <2>3, <2>4 DEF OrdersInv, CacheCovers
  <1>9. CacheSpends'
    BY <1>2, <1>3, <1>4 DEF OrdersInv, CacheSpends, SpentOn, TxsOf
  <1>10. SettlementIsTold'
    BY <1>3, <1>6 DEF OrdersInv, SettlementIsTold, HasActor
  <1>11. QED
    BY <1>3, <1>4, <1>5, <1>7, <1>8, <1>9, <1>10 DEF OrdersInv

(* Fetching and indexing leave alone what the invariant is about. *)
LEMMA RestKeeps ==
    ASSUME OrdersInv, UNCHANGED <<shape, chain, trackerVars, cache, log, blocks, orphanSpent,
                                  unlearned, forgotten>>
    PROVE  OrdersInv'
  BY DEF OrdersInv, TrackerOK, trackerVars, OpenOrderTracked, CacheCovers, CacheSpends,
         SettlementIsTold, HasActor, Lost, PlacedOn, SpentOn, TxsOf

(* OrdersInv holds throughout. *)
THEOREM OrdersInvariant == OrdersSpec => []OrdersInv
  <1>1. OrdersInv /\ [OrdersNext]_ordersVars => OrdersInv'
    <2> SUFFICES ASSUME OrdersInv, [OrdersNext]_ordersVars PROVE OrdersInv'
      OBVIOUS
    <2>1. CASE \E txs \in BlocksAfter : RollForward(txs)
      BY <2>1, RollForwardKeeps
    <2>2. CASE RollBack
      BY <2>2, RollBackKeeps
    <2>3. CASE FetchVyfi
      BY <2>3, RestKeeps DEF FetchVyfi, orphanVars
    <2>4. CASE FetchPools
      BY <2>4, RestKeeps DEF FetchPools, orphanVars
    <2>5. CASE Restart
      BY <2>5, RestartKeeps
    <2>6. CASE Receive
      BY <2>6, RestKeeps DEF Receive, scanVars, orphanVars
    <2>7. CASE UNCHANGED ordersVars
      BY <2>7, RestKeeps DEF ordersVars, scanVars, orphanVars
    <2>8. QED
      BY <2>1, <2>2, <2>3, <2>4, <2>5, <2>6, <2>7 DEF OrdersNext
  <1>2. QED
    BY <1>1, InvInitially, PTL DEF OrdersSpec

(* The settlement of every order on the chain is told by the block that    *)
(* settled it (`scan_block`), unless an abandoned block had settled it,    *)
(* its address was not known, the tracker was full, a boot came when the   *)
(* window had passed it, or nobody is named: for any orders, any cap of    *)
(* the tracker and any length of the chain.                                *)
THEOREM SettlementsAreTold == OrdersSpec => []SettlementIsTold
  <1>1. OrdersInv => SettlementIsTold
    BY DEF OrdersInv
  <1>2. QED
    BY <1>1, OrdersInvariant, PTL
-----------------------------------------------------------------------------
(* An order is told of once by a block.  It takes that no two transactions *)
(* of a chain spend one output, that a tracked order was placed on the     *)
(* chain or an abandoned block, and that blocks have names of their own.   *)

TrackedWasPlaced == DOMAIN tracked \subseteq PlacedOn(chain) \union orphanPlaced
CacheWasPlaced == \A t \in DOMAIN cache : t.places \subseteq PlacedOn(chain) \union orphanPlaced
LogIsEarlier == \A e \in log : e.block \in Nat /\ e.block < blocks

OnceInv ==
    /\ chain \in Seq(SomeBlock) /\ blocks \in Nat
    /\ TrackedWasPlaced
    /\ CacheWasPlaced
    /\ LogIsEarlier
    /\ ToldOnce

(* The pair of a settlement is fixed by its order. *)
LEMMA PairIsFixed ==
    ASSUME chain \in Seq(SomeBlock), NEW txs \in BlocksAfter,
           NEW p \in Orders \X ToSet(txs), NEW q \in Orders \X ToSet(txs),
           p[1] = q[1], p[1] \in p[2].spends, q[1] \in q[2].spends
    PROVE  p = q
  <1>1. p[2] \in ToSet(txs) /\ q[2] \in ToSet(txs) /\ p[2].spends \cap q[2].spends # {}
    OBVIOUS
  <1>2. p[2] = q[2]
    BY <1>1, BlockOnce
  <1>3. QED
    BY <1>2

(* An order placed by a block is not tracked, but for an abandoned block. *)
LEMMA PlacedAndTracked ==
    ASSUME chain \in Seq(SomeBlock), NEW txs \in BlocksAfter, TrackedWasPlaced,
           NEW o \in Deferred(txs), o \in DOMAIN tracked
    PROVE  o \in orphanPlaced
  <1>1. o \in PlacedIn(txs)
    BY DEF Deferred, PlacedIn
  <1>2. QED
    BY <1>1, BlockOnce DEF TrackedWasPlaced

(* Two events of one block about one order are one event. *)
LEMMA OneEventEach ==
    ASSUME chain \in Seq(SomeBlock), NEW txs \in BlocksAfter, TrackedWasPlaced,
           NEW id, NEW events \in Outcomes(id, txs),
           NEW e \in events, NEW f \in events, e.order = f.order
    PROVE  e = f \/ e.order \in orphanPlaced
  <1> DEFINE each == SettlementHits(id, txs)
             o == e.order
             ByOrder(x) == x \in OrderHits(id, txs)
  <1>1. PICK pick \in [each -> UNION each] :
            /\ \A s \in each : pick[s] \in s
            /\ events = OrderHits(id, txs) \union {pick[s] : s \in each}
    BY DEF Outcomes
  <1> DEFINE BySame(x) == \E p \in SameBlock(txs) :
                              x = pick[HitsOf(id, p, TRUE)] /\ HitsOf(id, p, TRUE) \in each
             ByPrior(x) == \E p \in Consumed(txs) :
                              x = pick[HitsOf(id, p, FALSE)] /\ HitsOf(id, p, FALSE) \in each
  <1>2. \A x \in events :
            \/ ByOrder(x)
            \/ BySame(x)
            \/ ByPrior(x)
    <2>1. \A s \in each : \/ \E p \in SameBlock(txs) : s = HitsOf(id, p, TRUE)
                          \/ \E p \in Consumed(txs) : s = HitsOf(id, p, FALSE)
      BY DEF SettlementHits
    <2>2. SUFFICES ASSUME NEW x \in events, ~ByOrder(x) PROVE BySame(x) \/ ByPrior(x)
      OBVIOUS
    <2>3. PICK s \in each : x = pick[s]
      BY <1>1, <2>2
    <2>4. QED
      BY <2>1, <2>3
  <1>3. \A p, same : \A x \in HitsOf(id, p, same) : x.order = p[1]
    BY DEF HitsOf, Hit
  <1>4. \A p, same : HitsOf(id, p, same) \in each => pick[HitsOf(id, p, same)].order = p[1]
    BY <1>1, <1>3
  <1>5. \A x \in OrderHits(id, txs) :
            /\ x.order \in StillOpen(txs)
            /\ x = Hit(id, x.order, IF shape[x.order].side = "lp" THEN "dex_lp" ELSE "dex_order",
                       FALSE, FALSE, Resolved(x.order, FirstWant(x.order, pools)))
    BY DEF OrderHits, Hit
  <1>6. \A p \in SameBlock(txs) : /\ p \in Orders \X ToSet(txs) /\ p[1] \in p[2].spends
                                  /\ p[1] \in Deferred(txs) /\ p[1] \notin StillOpen(txs)
    BY DEF SameBlock, StillOpen
  <1>7. \A p \in Consumed(txs) : /\ p \in Orders \X ToSet(txs) /\ p[1] \in p[2].spends
                                 /\ p[1] \in DOMAIN tracked
    BY DEF Consumed
  <1>8. \A x \in StillOpen(txs) : x \in Deferred(txs)
    BY DEF StillOpen
  <1>9. \A x \in events : ByOrder(x) => x.order \in StillOpen(txs) /\ x.order \in Deferred(txs)
    BY <1>5, <1>8
  <1>10. \A x \in events : BySame(x) => x.order \notin StillOpen(txs) /\ x.order \in Deferred(txs)
    BY <1>4, <1>6
  <1>11. \A x \in events : ByPrior(x) => x.order \in DOMAIN tracked
    BY <1>4, <1>7
  <1> HIDE DEF ByOrder, BySame, ByPrior
  <1>12. CASE o \in Deferred(txs) /\ o \in DOMAIN tracked
    BY <1>12, PlacedAndTracked
  <1>13. CASE ~(o \in Deferred(txs) /\ o \in DOMAIN tracked)
    <2>1. CASE ByOrder(e)
      <3>1. ByOrder(f)
        BY <1>2, <1>9, <1>10, <1>11, <1>13, <2>1
      <3>2. QED
        BY <1>5, <2>1, <3>1 DEF ByOrder
    <2>2. CASE BySame(e)
      <3>1. BySame(f)
        BY <1>2, <1>9, <1>10, <1>11, <1>13, <2>2
      <3>2. PICK p \in SameBlock(txs) : e = pick[HitsOf(id, p, TRUE)] /\ HitsOf(id, p, TRUE) \in each
        BY <2>2 DEF BySame
      <3>3. PICK q \in SameBlock(txs) : f = pick[HitsOf(id, q, TRUE)] /\ HitsOf(id, q, TRUE) \in each
        BY <3>1 DEF BySame
      <3>4. q[1] = p[1]
        BY <1>4, <3>2, <3>3
      <3>5. p = q
        BY <1>6, <3>4, PairIsFixed
      <3>6. QED
        BY <3>2, <3>3, <3>5
    <2>3. CASE ByPrior(e)
      <3>1. ByPrior(f)
        BY <1>2, <1>9, <1>10, <1>11, <1>13, <2>3
      <3>2. PICK p \in Consumed(txs) : e = pick[HitsOf(id, p, FALSE)] /\ HitsOf(id, p, FALSE) \in each
        BY <2>3 DEF ByPrior
      <3>3. PICK q \in Consumed(txs) : f = pick[HitsOf(id, q, FALSE)] /\ HitsOf(id, q, FALSE) \in each
        BY <3>1 DEF ByPrior
      <3>4. q[1] = p[1]
        BY <1>4, <3>2, <3>3
      <3>5. p = q
        BY <1>7, <3>4, PairIsFixed
      <3>6. QED
        BY <3>2, <3>3, <3>5
    <2>4. QED
      BY <1>2, <2>1, <2>2, <2>3
  <1>14. QED
    BY <1>12, <1>13

(* Every event carries the number of its block. *)
LEMMA EventsOfBlock ==
    ASSUME NEW id, NEW txs, NEW events \in Outcomes(id, txs)
    PROVE  \A e \in events : e.block = id
  <1> DEFINE each == SettlementHits(id, txs)
  <1>1. PICK f \in [each -> UNION each] :
            /\ \A s \in each : f[s] \in s
            /\ events = OrderHits(id, txs) \union {f[s] : s \in each}
    BY DEF Outcomes
  <1>2. \A e \in OrderHits(id, txs) : e.block = id
    BY DEF OrderHits, Hit
  <1>3. \A s \in each : \A e \in s : e.block = id
    BY DEF SettlementHits, HitsOf, Hit
  <1>4. QED
    BY <1>1, <1>2, <1>3

LEMMA OnceInitially == OrdersInit => OnceInv
  <1> SUFFICES ASSUME OrdersInit PROVE OnceInv
    OBVIOUS
  <1>1. chain = <<>> /\ DOMAIN cache = {} /\ blocks = 0 /\ log = {} /\ DOMAIN tracked = {}
    BY DEF OrdersInit
  <1>2. QED
    BY <1>1 DEF OnceInv, TrackedWasPlaced, CacheWasPlaced, LogIsEarlier, ToldOnce

LEMMA RollForwardOnce ==
    ASSUME OrdersInv, OnceInv, NEW txs \in BlocksAfter, RollForward(txs)
    PROVE  OnceInv'
  <1> DEFINE b == [id |-> blocks, txs |-> txs]
  <1>1. /\ chain' = Append(chain, b) /\ blocks' = blocks + 1 /\ DOMAIN cache' = DOMAIN cache \union ToSet(txs)
        /\ TrackBlock(txs) /\ orphanPlaced' = orphanPlaced
    BY DEF RollForward, orphanVars
  <1>2. chain \in Seq(SomeBlock) /\ blocks \in Nat /\ txs \in Seq(SomeTx)
    BY BlockFollows DEF OnceInv
  <1>3. b \in SomeBlock /\ b.txs = txs
    BY <1>2 DEF SomeBlock
  <1>4. PlacedOn(chain') = PlacedOn(chain) \union PlacedIn(txs)
    BY <1>1, <1>2, <1>3, TxsOfAppend
  <1>5. PICK events \in Outcomes(blocks, txs) : log' = log \union events
    BY DEF RollForward
  <1>6. chain' \in Seq(SomeBlock) /\ blocks' \in Nat
    BY <1>1, <1>2, <1>3, AppendProperties
  <1>7. TrackedWasPlaced'
    <2>1. DOMAIN tracked' \subseteq DOMAIN tracked \union StillOpen(txs)
      BY <1>1, <1>2, TrackBlockFacts DEF OrdersInv
    <2>2. StillOpen(txs) \subseteq PlacedIn(txs)
      BY DEF StillOpen, Deferred, PlacedIn
    <2>3. QED
      BY <1>1, <1>4, <2>1, <2>2 DEF OnceInv, TrackedWasPlaced
  <1>8. CacheWasPlaced'
    BY <1>1, <1>4 DEF OnceInv, CacheWasPlaced, PlacedIn
  <1>9. LogIsEarlier'
    BY <1>1, <1>2, <1>5, EventsOfBlock DEF OnceInv, LogIsEarlier
  <1>10. ToldOnce'
    <2> SUFFICES ASSUME NEW e \in log', NEW f \in log', e.block = f.block, e.order = f.order
                 PROVE  e = f \/ e.order \in orphanPlaced'
      BY DEF ToldOnce
    <2>1. CASE e \in log /\ f \in log
      BY <1>1, <2>1 DEF OnceInv, ToldOnce
    <2>2. CASE e \in events /\ f \in events
      BY <1>1, <1>2, <2>2, OneEventEach DEF OnceInv
    <2>3. CASE e \in log /\ f \in events
      BY <1>2, <2>3, EventsOfBlock DEF OnceInv, LogIsEarlier
    <2>4. CASE e \in events /\ f \in log
      BY <1>2, <2>4, EventsOfBlock DEF OnceInv, LogIsEarlier
    <2>5. QED
      BY <1>5, <2>1, <2>2, <2>3, <2>4
  <1>11. QED
    BY <1>6, <1>7, <1>8, <1>9, <1>10 DEF OnceInv

LEMMA RollBackOnce == ASSUME OnceInv, RollBack PROVE OnceInv'
  <1>1. /\ chain \in Seq(SomeBlock) /\ chain # <<>> /\ chain' = Front(chain)
        /\ orphanPlaced' = orphanPlaced \union PlacedOn(<<Last(chain)>>)
        /\ UNCHANGED <<tracked, cache, log, blocks>>
    BY DEF RollBack, scanVars, trackerVars, OnceInv
  <1>2. /\ Front(chain) \in Seq(SomeBlock) /\ Last(chain) \in SomeBlock
        /\ PlacedOn(chain) = PlacedOn(Front(chain)) \union PlacedIn(Last(chain).txs)
    BY <1>1, TxsOfFront
  <1>3. PlacedOn(<<Last(chain)>>) = PlacedIn(Last(chain).txs)
    BY <1>2, TxsOfOne
  <1>4. PlacedOn(chain) \union orphanPlaced = PlacedOn(chain') \union orphanPlaced'
    BY <1>1, <1>2, <1>3
  <1>5. TrackedWasPlaced' /\ CacheWasPlaced'
    BY <1>1, <1>4 DEF OnceInv, TrackedWasPlaced, CacheWasPlaced
  <1>6. LogIsEarlier' /\ ToldOnce'
    BY <1>1 DEF OnceInv, LogIsEarlier, ToldOnce
  <1>7. QED
    BY <1>1, <1>2, <1>5, <1>6 DEF OnceInv

LEMMA RestartOnce == ASSUME OrdersInv, OnceInv, Restart PROVE OnceInv'
  <1>1. PICK passed \in 0..Len(chain) :
            LET kept == {t \in DOMAIN cache : cache[t] > passed}
            IN  cache' = [t \in kept |-> cache[t]] /\ \E s \in Restored(kept) : SetTracker(s)
    BY DEF Restart
  <1> DEFINE kept == {t \in DOMAIN cache : cache[t] > passed}
             open == {o \in UNION {t.places : t \in kept} : Recognised(o, FALSE)}
                         \ UNION {t.spends : t \in kept}
  <1>2. UNCHANGED <<chain, log, blocks, orphanPlaced>>
    BY DEF Restart, orphanVars
  <1>3. DOMAIN cache' = kept /\ kept \subseteq DOMAIN cache /\ kept \in SUBSET SomeTx
    BY <1>1 DEF OrdersInv
  <1>4. DOMAIN tracked' \subseteq open
    <2>1. PICK s \in Restored(kept) : SetTracker(s)
      BY <1>1
    <2>2. TrackerOK
      BY DEF OrdersInv
    <2> HIDE DEF kept
    <2>3. QED
      BY <1>3, <2>1, <2>2, RestoredFacts
  <1>5. PlacedOn(chain)' = PlacedOn(chain)
    BY <1>2 DEF PlacedOn, TxsOf
  <1>6. open \subseteq UNION {t.places : t \in DOMAIN cache}
    BY <1>3
  <1> HIDE DEF kept, open
  <1>7. TrackedWasPlaced' /\ CacheWasPlaced'
    <2>1. UNION {t.places : t \in DOMAIN cache} \subseteq PlacedOn(chain) \union orphanPlaced
      BY DEF OnceInv, CacheWasPlaced
    <2>2. TrackedWasPlaced'
      BY <1>2, <1>4, <1>5, <1>6, <2>1 DEF TrackedWasPlaced
    <2>3. CacheWasPlaced'
      BY <1>2, <1>3, <1>5 DEF OnceInv, CacheWasPlaced
    <2>4. QED
      BY <2>2, <2>3
  <1>8. QED
    BY <1>2, <1>7 DEF OnceInv, LogIsEarlier, ToldOnce

LEMMA RestOnce ==
    ASSUME OnceInv, UNCHANGED <<chain, tracked, cache, log, blocks, orphanPlaced>>
    PROVE  OnceInv'
  BY DEF OnceInv, TrackedWasPlaced, CacheWasPlaced, LogIsEarlier, ToldOnce, PlacedOn, TxsOf

(* A block tells of an order once (`scan_block`), for any orders and any   *)
(* grouping of transactions in blocks, but for an order that an abandoned  *)
(* block had placed before.                                                *)
THEOREM OrdersAreToldOnce == OrdersSpec => []ToldOnce
  <1>1. OrdersInv /\ OnceInv /\ [OrdersNext]_ordersVars => OnceInv'
    <2> SUFFICES ASSUME OrdersInv, OnceInv, [OrdersNext]_ordersVars PROVE OnceInv'
      OBVIOUS
    <2>1. CASE \E txs \in BlocksAfter : RollForward(txs)
      BY <2>1, RollForwardOnce
    <2>2. CASE RollBack
      BY <2>2, RollBackOnce
    <2>3. CASE FetchVyfi
      BY <2>3, RestOnce DEF FetchVyfi, trackerVars, orphanVars
    <2>4. CASE FetchPools
      BY <2>4, RestOnce DEF FetchPools, trackerVars, orphanVars
    <2>5. CASE Restart
      BY <2>5, RestartOnce
    <2>6. CASE Receive
      BY <2>6, RestOnce DEF Receive, scanVars, trackerVars, orphanVars
    <2>7. CASE UNCHANGED ordersVars
      BY <2>7, RestOnce DEF ordersVars, scanVars, trackerVars, orphanVars
    <2>8. QED
      BY <2>1, <2>2, <2>3, <2>4, <2>5, <2>6, <2>7 DEF OrdersNext
  <1>2. OnceInv => ToldOnce
    BY DEF OnceInv
  <1>3. QED
    BY <1>1, <1>2, OnceInitially, OrdersInvariant, PTL DEF OrdersSpec

-----------------------------------------------------------------------------
(* What events say an order asks for.  It takes that what is tracked of an *)
(* order is its want, or a want its datum left open, and that the cache    *)
(* still holds the transaction an event's want was read from.              *)

WantOf(o, w) ==
    /\ w \in {"none", "unresolved", shape[o].ask}
    /\ shape[o].side # "lp" /\ shape[o].datum = "named" => w = shape[o].ask

(* Want w of an event about o was told by the datum or the pool, or read   *)
(* from a transaction of S that pays more than one thing.                  *)
WantIsKnown(o, w, closes, S) ==
    \/ w \in {"none", shape[o].ask}
    \/ /\ closes /\ shape[o].datum # "named"
       /\ \E t \in S : o \in t.spends /\ (t.change # "none" \/ Cardinality(t.spends) > 1)

WantsInv ==
    /\ shape \in Shapes /\ seen \in SUBSET SomeTx
    /\ \A o \in DOMAIN tracked : o \in Orders /\ WantOf(o, tracked[o])
    /\ \A e \in log : e.order \in Orders /\ WantIsKnown(e.order, e.want, e.closes, seen)

LEMMA ShapeTypes ==
    ASSUME shape \in Shapes, NEW o \in Orders
    PROVE  /\ shape[o].datum \in {"named", "pool", "none"} /\ shape[o].side \in {"sell", "buy", "swap", "lp"}
           /\ shape[o].kind \in {"amm", "book", "vyfi"}
           /\ shape[o].ask \notin {"none", "unresolved"}
  BY OrdersAssumption

(* A set with an element has only that one, or more than one. *)
LEMMA AloneOrMore ==
    ASSUME NEW S \in SUBSET Orders, NEW o \in S
    PROVE  S = {o} \/ Cardinality(S) > 1
  <1>1. IsFiniteSet(S) /\ IsFiniteSet(S \ {o})
    BY OrdersAssumption, FS_Subset
  <1>2. /\ Cardinality(S \ {o}) = Cardinality(S) - 1
        /\ Cardinality(S) \in Nat /\ Cardinality(S \ {o}) \in Nat
    BY <1>1, FS_RemoveElement, FS_CardinalityType
  <1>3. CASE S \ {o} = {}
    BY <1>3
  <1>4. CASE S \ {o} # {}
    <2>1. Cardinality(S \ {o}) # 0
      BY <1>1, <1>4, FS_EmptySet
    <2>2. QED
      BY <1>2, <2>1
  <1>5. QED
    BY <1>3, <1>4

LEMMA FirstWantOf ==
    ASSUME shape \in Shapes, NEW o \in Orders, NEW warm \in BOOLEAN
    PROVE  WantOf(o, FirstWant(o, warm))
  BY ShapeTypes DEF WantOf, FirstWant

LEMMA ResolvedWantOf ==
    ASSUME NEW o \in Orders, NEW w, WantOf(o, w)
    PROVE  WantOf(o, Resolved(o, w))
  BY DEF WantOf, Resolved

(* `enrich_want_from_fill_tx` takes what a wallet is paid for the want: it *)
(* is the want when nothing else is paid.                                  *)
LEMMA FinalWantIsKnown ==
    ASSUME shape \in Shapes, NEW o \in Orders, NEW want, WantOf(o, want),
           NEW t \in SomeTx, o \in t.spends, NEW w \in FinalWants(o, want, t)
    PROVE  WantIsKnown(o, Shown(w), TRUE, {t})
  <1> DEFINE r == Resolved(o, want)
  <1>1. WantOf(o, r)
    BY ResolvedWantOf
  <1>2. shape[o].ask \notin {"none", "unresolved"}
    BY ShapeTypes
  <1>3. CASE w = r
    BY <1>1, <1>3 DEF WantOf, Shown, WantIsKnown
  <1>4. CASE w # r
    <2>1. r \in {"none", "unresolved"} /\ shape[o].side # "lp" /\ w \in PaidIn(t, o)
      BY <1>4 DEF FinalWants
    <2>2. shape[o].datum # "named"
      BY <1>1, <1>2, <2>1 DEF WantOf
    <2>3. CASE t.change # "none" \/ Cardinality(t.spends) > 1
      BY <2>2, <2>3 DEF WantIsKnown
    <2>4. CASE t.change = "none" /\ t.spends = {o}
      <3>1. w = shape[o].ask
        BY <2>1, <2>4 DEF PaidIn, PaidOut
      <3>2. QED
        BY <1>2, <3>1 DEF Shown, WantIsKnown
    <2>5. t.spends = {o} \/ Cardinality(t.spends) > 1
      <3>1. t.spends \in SUBSET Orders
        BY DEF SomeTx
      <3>2. QED
        BY <3>1, AloneOrMore
    <2>6. QED
      BY <2>3, <2>4, <2>5
  <1>5. QED
    BY <1>3, <1>4

LEMMA EventWants ==
    ASSUME WantsInv, pools \in BOOLEAN, NEW txs \in Seq(SomeTx), NEW id, NEW events \in Outcomes(id, txs)
    PROVE  \A e \in events : e.order \in Orders /\ WantIsKnown(e.order, e.want, e.closes, ToSet(txs))
  <1> DEFINE each == SettlementHits(id, txs)
             Known(e) == e.order \in Orders /\ WantIsKnown(e.order, e.want, e.closes, ToSet(txs))
  <1>1. PICK f \in [each -> UNION each] :
            /\ \A s \in each : f[s] \in s
            /\ events = OrderHits(id, txs) \union {f[s] : s \in each}
    BY DEF Outcomes
  <1>2. ToSet(txs) \subseteq SomeTx
    BY LenProperties, ElementOfSeq DEF ToSet
  <1>3. ASSUME NEW e \in OrderHits(id, txs)
        PROVE  Known(e)
    <2>1. PICK o \in StillOpen(txs) :
              e = Hit(id, o, IF shape[o].side = "lp" THEN "dex_lp" ELSE "dex_order", FALSE, FALSE,
                      Resolved(o, FirstWant(o, pools)))
      BY DEF OrderHits
    <2>2. o \in Orders
      BY <1>2 DEF StillOpen, Deferred, SomeTx
    <2>3. WantOf(o, Resolved(o, FirstWant(o, pools)))
      BY <2>2, FirstWantOf, ResolvedWantOf DEF WantsInv
    <2>4. e.order = o /\ e.want = Shown(Resolved(o, FirstWant(o, pools)))
      BY <2>1 DEF Hit
    <2>5. QED
      BY <2>2, <2>3, <2>4 DEF WantOf, Shown, WantIsKnown
  <1>4. ASSUME NEW pair \in SameBlock(txs) \union Consumed(txs), NEW want, WantOf(pair[1], want),
               NEW w \in FinalWants(pair[1], want, pair[2]), NEW same
        PROVE  Known(Hit(id, pair[1], SettledAs(pair[1], pair[2]), same, TRUE, w))
    <2> DEFINE e == Hit(id, pair[1], SettledAs(pair[1], pair[2]), same, TRUE, w)
    <2>1. pair[1] \in Orders /\ pair[2] \in ToSet(txs) /\ pair[1] \in pair[2].spends
      BY DEF SameBlock, Consumed
    <2>2. WantIsKnown(pair[1], Shown(w), TRUE, {pair[2]})
      BY <1>2, <1>4, <2>1, FinalWantIsKnown DEF WantsInv
    <2>3. e.order = pair[1] /\ e.want = Shown(w) /\ e.closes
      BY DEF Hit
    <2>4. QED
      BY <2>1, <2>2, <2>3 DEF WantIsKnown
  <1>5. ASSUME NEW s \in each, NEW e \in s
        PROVE  Known(e)
    <2>1. CASE \E pair \in SameBlock(txs) : s = HitsOf(id, pair, TRUE)
      <3>1. PICK pair \in SameBlock(txs) : s = HitsOf(id, pair, TRUE)
        BY <2>1
      <3>2. PICK w \in FinalWants(pair[1], FirstWant(pair[1], pools), pair[2]) :
                e = Hit(id, pair[1], SettledAs(pair[1], pair[2]), TRUE, TRUE, w)
        BY <1>5, <3>1 DEF HitsOf
      <3>3. pair[1] \in Orders
        BY DEF SameBlock
      <3>4. WantOf(pair[1], FirstWant(pair[1], pools))
        BY <3>3, FirstWantOf DEF WantsInv
      <3>5. QED
        BY <1>4, <3>2, <3>4
    <2>2. CASE \E pair \in Consumed(txs) : s = HitsOf(id, pair, FALSE)
      <3>1. PICK pair \in Consumed(txs) : s = HitsOf(id, pair, FALSE)
        BY <2>2
      <3>2. PICK w \in FinalWants(pair[1], tracked[pair[1]], pair[2]) :
                e = Hit(id, pair[1], SettledAs(pair[1], pair[2]), FALSE, TRUE, w)
        BY <1>5, <3>1 DEF HitsOf
      <3>3. WantOf(pair[1], tracked[pair[1]])
        BY DEF Consumed, WantsInv
      <3>4. QED
        BY <1>4, <3>2, <3>3
    <2>3. QED
      BY <2>1, <2>2 DEF SettlementHits
  <1>6. QED
    <2> SUFFICES ASSUME NEW e \in events PROVE Known(e)
      OBVIOUS
    <2> HIDE DEF Known
    <2>1. QED
      BY <1>1, <1>3, <1>5

LEMMA RollForwardWants ==
    ASSUME OrdersInv, WantsInv, pools \in BOOLEAN, NEW txs \in BlocksAfter, RollForward(txs)
    PROVE  WantsInv'
  <1>1. shape' = shape /\ seen' = seen \union ToSet(txs) /\ TrackBlock(txs)
    BY DEF RollForward
  <1>2. txs \in Seq(SomeTx)
    BY BlockFollows DEF OrdersInv
  <1>3. ToSet(txs) \subseteq SomeTx
    BY <1>2, LenProperties, ElementOfSeq DEF ToSet
  <1>4. PICK events \in Outcomes(blocks, txs) : log' = log \union events
    BY DEF RollForward
  <1>5. \A e \in events : e.order \in Orders /\ WantIsKnown(e.order, e.want, e.closes, ToSet(txs))
    BY <1>2, EventWants
  <1>6. \A e \in log' : e.order \in Orders /\ WantIsKnown(e.order, e.want, e.closes, seen)'
    BY <1>1, <1>4, <1>5 DEF WantIsKnown, WantsInv
  <1>7. ASSUME NEW o \in DOMAIN tracked'
        PROVE  o \in Orders /\ WantOf(o, tracked[o])'
    <2>1. \/ o \in DOMAIN tracked /\ tracked'[o] = tracked[o]
          \/ o \in StillOpen(txs) /\ tracked'[o] = Resolved(o, FirstWant(o, pools))
      BY <1>1, <1>2, TrackBlockFacts DEF OrdersInv
    <2>2. CASE o \in StillOpen(txs) /\ tracked'[o] = Resolved(o, FirstWant(o, pools))
      <3>1. o \in Orders
        BY <1>3, <2>2 DEF StillOpen, Deferred, SomeTx
      <3>2. WantOf(o, Resolved(o, FirstWant(o, pools)))
        BY <3>1, FirstWantOf, ResolvedWantOf DEF WantsInv
      <3>3. QED
        BY <1>1, <2>2, <3>1, <3>2 DEF WantOf
    <2>3. CASE o \in DOMAIN tracked /\ tracked'[o] = tracked[o]
      BY <1>1, <2>3 DEF WantOf, WantsInv
    <2>4. QED
      BY <2>1, <2>2, <2>3
  <1>8. QED
    BY <1>1, <1>3, <1>6, <1>7 DEF WantsInv

LEMMA RestartWants == ASSUME OrdersInv, WantsInv, Restart PROVE WantsInv'
  <1>1. PICK passed \in 0..Len(chain) :
            \E s \in Restored({t \in DOMAIN cache : cache[t] > passed}) : SetTracker(s)
    BY DEF Restart
  <1> DEFINE kept == {t \in DOMAIN cache : cache[t] > passed}
             open == {o \in UNION {t.places : t \in kept} : Recognised(o, FALSE)}
                         \ UNION {t.spends : t \in kept}
  <1>2. UNCHANGED <<shape, seen, log>>
    BY DEF Restart
  <1>3. kept \in SUBSET SomeTx
    BY DEF OrdersInv
  <1>4. DOMAIN tracked' \subseteq Orders /\ \A o \in DOMAIN tracked' : tracked'[o] = FirstWant(o, FALSE)
    <2>1. PICK s \in Restored(kept) : SetTracker(s)
      BY <1>1
    <2>2. TrackerOK
      BY DEF OrdersInv
    <2> HIDE DEF kept
    <2>3. TrackerOK' /\ \A o \in DOMAIN tracked' : tracked'[o] = FirstWant(o, FALSE)
      BY <1>3, <2>1, <2>2, RestoredFacts
    <2>4. QED
      BY <2>3 DEF TrackerOK
  <1>5. \A o \in DOMAIN tracked' : o \in Orders /\ WantOf(o, FirstWant(o, FALSE))
    BY <1>4, FirstWantOf DEF WantsInv
  <1>6. \A o \in DOMAIN tracked' : o \in Orders /\ WantOf(o, tracked[o])'
    BY <1>2, <1>4, <1>5 DEF WantOf
  <1>7. \A e \in log' : e.order \in Orders /\ WantIsKnown(e.order, e.want, e.closes, seen)'
    BY <1>2 DEF WantIsKnown, WantsInv
  <1>8. QED
    BY <1>2, <1>6, <1>7 DEF WantsInv

LEMMA RestWants ==
    ASSUME WantsInv, UNCHANGED <<shape, tracked, seen, log>>
    PROVE  WantsInv'
  BY DEF WantsInv, WantOf, WantIsKnown

(* What an event says an order asks for is what it asks for (`order_want`,  *)
(* `finalize_want`, `attach_want`), whenever the pool is learned, and       *)
(* through forks and restarts, unless neither datum nor pool told and the   *)
(* settling transaction paid something else too: for any orders.            *)
THEOREM WantsAreRight == OrdersSpec => []WantIsRight
  <1> DEFINE Inv == WantsInv /\ pools \in BOOLEAN
  <1>1. OrdersInit => Inv
    <2> SUFFICES ASSUME OrdersInit PROVE Inv
      OBVIOUS
    <2>1. shape \in Shapes /\ seen = {} /\ log = {} /\ DOMAIN tracked = {} /\ pools = FALSE
      BY DEF OrdersInit
    <2>2. QED
      BY <2>1 DEF WantsInv
  <1>2. OrdersInv /\ Inv /\ [OrdersNext]_ordersVars => Inv'
    <2> SUFFICES ASSUME OrdersInv, Inv, [OrdersNext]_ordersVars PROVE Inv'
      OBVIOUS
    <2>1. CASE \E txs \in BlocksAfter : RollForward(txs)
      BY <2>1, RollForwardWants DEF RollForward
    <2>2. CASE RollBack
      BY <2>2, RestWants DEF RollBack, scanVars, trackerVars
    <2>3. CASE FetchVyfi
      BY <2>3, RestWants DEF FetchVyfi, trackerVars
    <2>4. CASE FetchPools
      BY <2>4, RestWants DEF FetchPools, trackerVars
    <2>5. CASE Restart
      BY <2>5, RestartWants DEF Restart
    <2>6. CASE Receive
      BY <2>6, RestWants DEF Receive, scanVars, trackerVars
    <2>7. CASE UNCHANGED ordersVars
      BY <2>7, RestWants DEF ordersVars, scanVars, trackerVars
    <2>8. QED
      BY <2>1, <2>2, <2>3, <2>4, <2>5, <2>6, <2>7 DEF OrdersNext
  <1>3. Inv => WantIsRight
    BY DEF WantsInv, WantIsRight, WantIsKnown
  <1> HIDE DEF Inv
  <1>4. QED
    BY <1>1, <1>2, <1>3, OrdersInvariant, PTL DEF OrdersSpec

-----------------------------------------------------------------------------
(* What a page shows of an order.  It takes that no two transactions of    *)
(* the chain spend one order, that an event that closes an order says how  *)
(* the chain settled it, and that the page's pills are from events it has. *)

Ends(e) == e.kind \in {"dex_fill", "dex_cancel"}
StatusOf(e) == IF e.kind = "dex_fill" THEN "filled" ELSE "cancelled"

SpentOnce == \A t, u \in TxsOf(chain) : t.spends \cap u.spends # {} => t = u
SpendsSettle == \A t \in TxsOf(chain) : t.spends # {} => t.truth \in {"filled", "cancelled"}
SpentWasPlaced ==
    \A i \in DOMAIN chain : \A o \in SpentIn(chain[i].txs) :
        \E j \in DOMAIN chain : j <= i /\ o \in PlacedIn(chain[j].txs)
UnlearnedIsVyfi == \A o \in unlearned : shape[o].kind = "vyfi"

(* Event e is about an order, and if it closes one, says what the chain or *)
(* an abandoned block did to it.                                           *)
SaysHowSettled(e) ==
    /\ e.order \in Orders
    /\ Ends(e) => e.closes
    /\ ~e.closes => ~shape[e.order].anon
    /\ e.closes => \/ e.order \in orphanSpent
                   \/ \E t \in TxsOf(chain) : /\ e.order \in t.spends
                                              /\ e.kind = SettledAs(e.order, t)

PillsFromEvents ==
    /\ got \subseteq log
    /\ \A k \in DOMAIN settled :
          \E e \in got : Ends(e) /\ KeyOf(e.order) = k /\ settled[k] = StatusOf(e)
    /\ \A e \in got : Ends(e) => KeyOf(e.order) \in DOMAIN settled

PillInv ==
    /\ shape \in Shapes
    /\ SpentOnce /\ SpendsSettle /\ SpentWasPlaced /\ UnlearnedIsVyfi
    /\ \A e \in log : SaysHowSettled(e)
    /\ PillsFromEvents

LEMMA BlockKinds ==
    ASSUME NEW txs \in BlocksAfter, NEW t \in ToSet(txs)
    PROVE  t \in Placements \union Settlements
  <1> DEFINE ts == Placements \union Settlements
  <1>1. \/ \E x \in ts : txs = <<x>>
        \/ \E x, y \in ts : txs = <<x, y>>
    BY DEF BlocksAfter
  <1>2. QED
    BY <1>1 DEF ToSet

LEMMA SpendersSettle ==
    ASSUME NEW t \in Placements \union Settlements, t.spends # {}
    PROVE  t.truth \in {"filled", "cancelled"}
  BY DEF Placements, Settlements

(* What is spent on a chain was placed on it. *)
LEMMA PlacedBefore ==
    ASSUME SpentWasPlaced
    PROVE  SpentOn(chain) \subseteq PlacedOn(chain)
  BY DEF SpentWasPlaced, SpentOn, PlacedOn, TxsOf, SpentIn, PlacedIn

LEMMA EventsSayHow ==
    ASSUME chain \in Seq(SomeBlock), NEW txs \in BlocksAfter, NEW id, NEW events \in Outcomes(id, txs)
    PROVE  \A e \in events :
               /\ e.order \in Orders
               /\ Ends(e) => e.closes
               /\ ~e.closes => ~shape[e.order].anon
               /\ e.closes => \E t \in ToSet(txs) : /\ e.order \in t.spends
                                                    /\ e.kind = SettledAs(e.order, t)
  <1> DEFINE each == SettlementHits(id, txs)
             Says(e) == /\ e.order \in Orders
                        /\ Ends(e) => e.closes
                        /\ ~e.closes => ~shape[e.order].anon
                        /\ e.closes => \E t \in ToSet(txs) : /\ e.order \in t.spends
                                                             /\ e.kind = SettledAs(e.order, t)
  <1>1. PICK f \in [each -> UNION each] :
            /\ \A s \in each : f[s] \in s
            /\ events = OrderHits(id, txs) \union {f[s] : s \in each}
    BY DEF Outcomes
  <1>2. \A t \in ToSet(txs) : t \in SomeTx
    BY BlockKinds, TxTypes
  <1>3. ASSUME NEW e \in OrderHits(id, txs)
        PROVE  Says(e)
    <2>1. PICK o \in {p \in StillOpen(txs) : ~shape[p].anon} :
              e = Hit(id, o, IF shape[o].side = "lp" THEN "dex_lp" ELSE "dex_order", FALSE, FALSE,
                      Resolved(o, FirstWant(o, pools)))
      BY DEF OrderHits
    <2>2. o \in Orders
      BY <1>2 DEF StillOpen, Deferred, SomeTx
    <2>3. e.order = o /\ ~e.closes /\ e.kind \in {"dex_lp", "dex_order"}
      BY <2>1 DEF Hit
    <2>4. QED
      BY <2>2, <2>3 DEF Ends
  <1>4. ASSUME NEW s \in each, NEW e \in s
        PROVE  Says(e)
    <2>1. PICK pair \in SameBlock(txs) \union Consumed(txs), same \in BOOLEAN : s = HitsOf(id, pair, same)
      BY DEF SettlementHits
    <2>2. e.order = pair[1] /\ e.closes /\ e.kind = SettledAs(pair[1], pair[2])
      BY <1>4, <2>1 DEF HitsOf, Hit
    <2>3. pair[1] \in Orders /\ pair[2] \in ToSet(txs) /\ pair[1] \in pair[2].spends
      BY DEF SameBlock, Consumed
    <2>4. QED
      BY <2>2, <2>3
  <1>5. QED
    <2> SUFFICES ASSUME NEW e \in events PROVE Says(e)
      OBVIOUS
    <2> HIDE DEF Says
    <2>1. QED
      BY <1>1, <1>3, <1>4

LEMMA PillInitially == OrdersInit => PillInv
  <1> SUFFICES ASSUME OrdersInit PROVE PillInv
    OBVIOUS
  <1>1. /\ shape \in Shapes /\ chain = <<>> /\ log = {} /\ got = {} /\ DOMAIN settled = {}
        /\ unlearned = {}
    BY DEF OrdersInit
  <1>2. DOMAIN chain = {} /\ TxsOf(chain) = {}
    BY <1>1 DEF TxsOf
  <1>3. QED
    BY <1>1, <1>2 DEF PillInv, SpentOnce, SpendsSettle, SpentWasPlaced, UnlearnedIsVyfi, PillsFromEvents

LEMMA RollForwardPills ==
    ASSUME OrdersInv, PillInv, NEW txs \in BlocksAfter, RollForward(txs)
    PROVE  PillInv'
  <1> DEFINE b == [id |-> blocks, txs |-> txs]
  <1>1. /\ chain' = Append(chain, b) /\ orphanSpent' = orphanSpent
        /\ UNCHANGED <<shape, got, settled>>
    BY DEF RollForward, pageVars, orphanVars
  <1>2. /\ chain \in Seq(SomeBlock) /\ blocks \in Nat /\ txs \in Seq(SomeTx)
        /\ SpentIn(txs) \subseteq (PlacedOn(chain) \ SpentOn(chain)) \union PlacedIn(txs)
    BY BlockFollows DEF OrdersInv
  <1>3. b \in SomeBlock /\ b.txs = txs
    BY <1>2 DEF SomeBlock
  <1>4. /\ TxsOf(chain') = TxsOf(chain) \union ToSet(txs)
        /\ Len(chain) \in Nat /\ DOMAIN chain = 1..Len(chain) /\ DOMAIN chain' = 1..(Len(chain) + 1)
        /\ chain'[Len(chain) + 1] = b /\ \A j \in 1..Len(chain) : chain'[j] = chain[j]
    BY <1>1, <1>2, <1>3, TxsOfAppend, AppendProperties
  <1>5. SpentOnce'
    <2>1. SpentIn(txs) \cap SpentOn(chain) = {}
      <3>1. SpentOn(chain) \subseteq PlacedOn(chain)
        BY PlacedBefore DEF PillInv
      <3>2. PlacedIn(txs) \cap PlacedOn(chain) = {}
        BY <1>2, BlockOnce
      <3>3. QED
        BY <1>2, <3>1, <3>2
    <2>2. \A t, u \in ToSet(txs) : t.spends \cap u.spends # {} => t = u
      BY <1>2, BlockOnce
    <2>3. \A t \in ToSet(txs), u \in TxsOf(chain) : t.spends \cap u.spends = {}
      BY <2>1 DEF SpentIn, SpentOn
    <2>4. QED
      BY <1>4, <2>2, <2>3 DEF PillInv, SpentOnce
  <1>6. SpendsSettle'
    <2>1. \A t \in ToSet(txs) : t.spends # {} => t.truth \in {"filled", "cancelled"}
      BY BlockKinds, SpendersSettle
    <2>2. QED
      BY <1>4, <2>1 DEF PillInv, SpendsSettle
  <1>7. SpentWasPlaced'
    <2> SUFFICES ASSUME NEW i \in DOMAIN chain', NEW o \in SpentIn(chain'[i].txs)
                 PROVE  \E j \in DOMAIN chain' : j <= i /\ o \in PlacedIn(chain'[j].txs)
      BY DEF SpentWasPlaced
    <2>1. CASE i \in DOMAIN chain
      <3>1. chain'[i] = chain[i]
        BY <1>4, <2>1
      <3>2. PICK j \in DOMAIN chain : j <= i /\ o \in PlacedIn(chain[j].txs)
        BY <2>1, <3>1 DEF PillInv, SpentWasPlaced
      <3>3. j \in DOMAIN chain' /\ chain'[j] = chain[j]
        BY <1>4
      <3>4. QED
        BY <3>2, <3>3
    <2>2. CASE i = Len(chain) + 1
      <3>1. o \in SpentIn(txs)
        BY <1>3, <1>4, <2>2
      <3>2. CASE o \in PlacedIn(txs)
        BY <1>3, <1>4, <2>2, <3>2
      <3>3. CASE o \in PlacedOn(chain)
        <4>1. PICK j \in DOMAIN chain : o \in PlacedIn(chain[j].txs)
          BY <3>3 DEF PlacedOn, TxsOf, PlacedIn
        <4>2. j \in DOMAIN chain' /\ j <= i /\ chain'[j] = chain[j]
          BY <1>4, <2>2
        <4>3. QED
          BY <4>1, <4>2
      <3>4. QED
        BY <1>2, <3>1, <3>2, <3>3
    <2>3. QED
      BY <1>4, <2>1, <2>2
  <1>8. UnlearnedIsVyfi'
    <2>1. unlearned' = unlearned
            \union {o \in UNION {t.places : t \in ToSet(txs)} : ~Recognised(o, vyfi)}
      BY DEF RollForward
    <2>2. QED
      BY <1>1, <2>1 DEF PillInv, UnlearnedIsVyfi, Recognised
  <1>9. \A e \in log' : SaysHowSettled(e)'
    <2>1. PICK events \in Outcomes(blocks, txs) : log' = log \union events
      BY DEF RollForward
    <2>2. ASSUME NEW e \in events
          PROVE  SaysHowSettled(e)'
      <3>1. /\ e.order \in Orders /\ (Ends(e) => e.closes) /\ (~e.closes => ~shape[e.order].anon)
            /\ e.closes => \E t \in ToSet(txs) : /\ e.order \in t.spends
                                                 /\ e.kind = SettledAs(e.order, t)
        BY <1>2, EventsSayHow
      <3>2. QED
        BY <1>1, <1>4, <3>1 DEF SaysHowSettled, SettledAs
    <2>3. ASSUME NEW e \in log
          PROVE  SaysHowSettled(e)'
      <3>1. SaysHowSettled(e)
        BY DEF PillInv
      <3>2. QED
        BY <1>1, <1>4, <3>1 DEF SaysHowSettled, SettledAs
    <2>4. QED
      BY <2>1, <2>2, <2>3
  <1>10. PillsFromEvents'
    <2>1. log \subseteq log'
      BY DEF RollForward
    <2>2. QED
      BY <1>1, <2>1 DEF PillInv, PillsFromEvents, KeyOf
  <1>11. QED
    BY <1>1, <1>5, <1>6, <1>7, <1>8, <1>9, <1>10 DEF PillInv

LEMMA RollBackPills == ASSUME OrdersInv, PillInv, RollBack PROVE PillInv'
  <1>1. /\ chain \in Seq(SomeBlock) /\ chain # <<>> /\ chain' = Front(chain)
        /\ orphanSpent' = orphanSpent \union SpentOn(<<Last(chain)>>)
        /\ UNCHANGED <<shape, log, got, settled, unlearned>>
    BY DEF RollBack, scanVars, pageVars, OrdersInv
  <1>2. /\ Front(chain) \in Seq(SomeBlock) /\ Last(chain) \in SomeBlock
        /\ Len(chain) \in Nat \ {0} /\ Len(Front(chain)) = Len(chain) - 1
        /\ \A i \in DOMAIN Front(chain) : i \in DOMAIN chain /\ Front(chain)[i] = chain[i]
        /\ TxsOf(chain) = TxsOf(Front(chain)) \union ToSet(Last(chain).txs)
    BY <1>1, TxsOfFront
  <1>3. orphanSpent' = orphanSpent \union SpentIn(Last(chain).txs)
    BY <1>1, <1>2, TxsOfOne
  <1>4. TxsOf(chain') \subseteq TxsOf(chain)
    BY <1>1, <1>2
  <1>5. SpentOnce' /\ SpendsSettle'
    BY <1>4 DEF PillInv, SpentOnce, SpendsSettle
  <1>6. SpentWasPlaced'
    <2> SUFFICES ASSUME NEW i \in DOMAIN chain', NEW o \in SpentIn(chain'[i].txs)
                 PROVE  \E j \in DOMAIN chain' : j <= i /\ o \in PlacedIn(chain'[j].txs)
      BY DEF SpentWasPlaced
    <2>1. i \in DOMAIN chain /\ chain'[i] = chain[i]
      BY <1>1, <1>2
    <2>2. PICK j \in DOMAIN chain : j <= i /\ o \in PlacedIn(chain[j].txs)
      BY <2>1 DEF PillInv, SpentWasPlaced
    <2>3. DOMAIN chain' = 1..(Len(chain) - 1) /\ DOMAIN chain = 1..Len(chain)
      BY <1>1, <1>2, LenProperties
    <2>4. j \in DOMAIN chain' /\ chain'[j] = chain[j]
      BY <1>1, <1>2, <2>2, <2>3
    <2>5. QED
      BY <2>2, <2>4
  <1>7. UnlearnedIsVyfi' /\ PillsFromEvents'
    BY <1>1 DEF PillInv, UnlearnedIsVyfi, PillsFromEvents, KeyOf
  <1>8. \A e \in log' : SaysHowSettled(e)'
    <2> SUFFICES ASSUME NEW e \in log PROVE SaysHowSettled(e)'
      BY <1>1
    <2>1. SaysHowSettled(e)
      BY DEF PillInv
    <2>2. ASSUME NEW t \in TxsOf(chain), e.order \in t.spends, e.kind = SettledAs(e.order, t)
          PROVE  SaysHowSettled(e)'
      <3>1. CASE t \in TxsOf(chain')
        <4>1. TxsOf(chain)' = TxsOf(chain')
          BY DEF TxsOf
        <4>2. SettledAs(e.order, t)' = SettledAs(e.order, t)
          BY <1>1 DEF SettledAs
        <4>3. QED
          BY <1>1, <2>1, <2>2, <3>1, <4>1, <4>2 DEF SaysHowSettled
      <3>2. CASE t \in ToSet(Last(chain).txs)
        <4>1. e.order \in orphanSpent'
          BY <1>3, <2>2, <3>2 DEF SpentIn
        <4>2. QED
          BY <1>1, <2>1, <4>1 DEF SaysHowSettled
      <3>3. QED
        BY <1>1, <1>2, <3>1, <3>2
    <2>3. CASE e.order \in orphanSpent \/ ~e.closes
      BY <1>1, <1>3, <2>1, <2>3 DEF SaysHowSettled
    <2>4. QED
      BY <2>1, <2>2, <2>3 DEF SaysHowSettled
  <1>9. QED
    BY <1>1, <1>5, <1>6, <1>7, <1>8 DEF PillInv

(* `retentionIndex`, `markDexOrderSettled` *)
LEMMA ReceivePills == ASSUME PillInv, Receive PROVE PillInv'
  <1> DEFINE new == {e \in log \ got : e.kind \in {"dex_fill", "dex_cancel"}}
             keys == {KeyOf(e.order) : e \in new}
             status(e) == IF e.kind = "dex_fill" THEN "filled" ELSE "cancelled"
  <1>1. /\ got' = log
        /\ UNCHANGED <<shape, chain, log, orphanSpent, unlearned>>
    BY DEF Receive, scanVars, orphanVars
  <1>2. PICK first \in [keys -> {"filled", "cancelled"}] :
            /\ \A k \in keys : \E e \in new : KeyOf(e.order) = k /\ status(e) = first[k]
            /\ settled' = [k \in DOMAIN settled \union keys |->
                              IF k \in DOMAIN settled THEN settled[k] ELSE first[k]]
    BY DEF Receive
  <1>3. /\ DOMAIN settled' = DOMAIN settled \union keys
        /\ \A k \in DOMAIN settled' : settled'[k] = IF k \in DOMAIN settled THEN settled[k] ELSE first[k]
    BY <1>2
  <1>4. PillsFromEvents
    BY DEF PillInv
  <1>5. \A e \in new : Ends(e) /\ StatusOf(e) = status(e) /\ e \in got'
    BY <1>1 DEF Ends, StatusOf
  <1>6. \A o \in Orders : KeyOf(o)' = KeyOf(o)
    BY <1>1 DEF KeyOf
  <1>7. \A e \in log : e.order \in Orders
    BY DEF PillInv, SaysHowSettled
  <1>8. ASSUME NEW k \in DOMAIN settled'
        PROVE  \E e \in got' : Ends(e) /\ KeyOf(e.order)' = k /\ settled'[k] = StatusOf(e)
    <2>1. CASE k \in DOMAIN settled
      <3>1. PICK e \in got : Ends(e) /\ KeyOf(e.order) = k /\ settled[k] = StatusOf(e)
        BY <1>4, <2>1 DEF PillsFromEvents
      <3>2. e \in log /\ KeyOf(e.order)' = KeyOf(e.order) /\ settled'[k] = settled[k]
        BY <1>3, <1>4, <1>6, <1>7, <2>1 DEF PillsFromEvents
      <3>3. QED
        BY <1>1, <3>1, <3>2
    <2>2. CASE k \notin DOMAIN settled
      <3>1. k \in keys /\ settled'[k] = first[k]
        BY <1>3, <2>2
      <3>2. PICK e \in new : KeyOf(e.order) = k /\ status(e) = first[k]
        BY <1>2, <3>1
      <3>3. KeyOf(e.order)' = KeyOf(e.order)
        BY <1>6, <1>7
      <3>4. QED
        BY <1>5, <3>1, <3>2, <3>3
    <2>3. QED
      BY <2>1, <2>2
  <1>9. ASSUME NEW e \in got', Ends(e)
        PROVE  KeyOf(e.order)' \in DOMAIN settled'
    <2>1. e \in log /\ KeyOf(e.order)' = KeyOf(e.order)
      BY <1>1, <1>6, <1>7
    <2>2. CASE e \in got
      BY <1>3, <1>4, <1>9, <2>1, <2>2 DEF PillsFromEvents
    <2>3. CASE e \notin got
      <3>1. e \in new
        BY <1>9, <2>1, <2>3 DEF Ends
      <3>2. QED
        BY <1>3, <2>1, <3>1
    <2>4. QED
      BY <2>2, <2>3
  <1>10. PillsFromEvents'
    BY <1>1, <1>8, <1>9 DEF PillsFromEvents, Ends, StatusOf
  <1>11. /\ SpentOnce' /\ SpendsSettle' /\ SpentWasPlaced' /\ UnlearnedIsVyfi'
         /\ \A e \in log' : SaysHowSettled(e)'
    BY <1>1 DEF PillInv, SpentOnce, SpendsSettle, SpentWasPlaced, UnlearnedIsVyfi, SaysHowSettled,
                TxsOf, SettledAs
  <1>12. QED
    BY <1>1, <1>10, <1>11 DEF PillInv

LEMMA RestartPills == ASSUME PillInv, Restart PROVE PillInv'
  <1>1. /\ UNCHANGED <<shape, chain, log, orphanSpent>>
        /\ got' = {} /\ DOMAIN settled' = {}
        /\ unlearned' = unlearned \union {o \in PlacedOn(chain) : ~Recognised(o, FALSE)}
    BY DEF Restart, orphanVars
  <1>2. UnlearnedIsVyfi'
    BY <1>1 DEF PillInv, UnlearnedIsVyfi, Recognised
  <1>3. PillsFromEvents'
    BY <1>1 DEF PillsFromEvents
  <1>4. /\ SpentOnce' /\ SpendsSettle' /\ SpentWasPlaced'
        /\ \A e \in log' : SaysHowSettled(e)'
    BY <1>1 DEF PillInv, SpentOnce, SpendsSettle, SpentWasPlaced, SaysHowSettled, TxsOf, SettledAs
  <1>5. QED
    BY <1>1, <1>2, <1>3, <1>4 DEF PillInv

LEMMA RestPills ==
    ASSUME PillInv, UNCHANGED <<shape, chain, log, got, settled, orphanSpent, unlearned>>
    PROVE  PillInv'
  BY DEF PillInv, SpentOnce, SpendsSettle, SpentWasPlaced, UnlearnedIsVyfi, SaysHowSettled,
         PillsFromEvents, TxsOf, SettledAs, KeyOf

LEMMA PillsTellTheTruth == OrdersInv /\ PillInv => PillIsRight
  <1> SUFFICES ASSUME OrdersInv, PillInv, got = log, NEW o \in PlacedOn(chain), Carded(o),
                      Alone(o), shape[o].kind = "amm", shape[o].side # "lp", o \notin Lost
               PROVE  Pill(o) = Truth(o)
    BY DEF PillIsRight
  (* An event that ends o says what the chain did to o. *)
  <1>1. ASSUME NEW e \in log, e.order = o, e.closes
        PROVE  Ends(e) /\ o \in SpentOn(chain) /\ StatusOf(e) = Truth(o)
    <2>1. PICK t \in TxsOf(chain) : o \in t.spends /\ e.kind = SettledAs(o, t)
      BY <1>1 DEF PillInv, SaysHowSettled, Lost
    <2>2. o \in SpentOn(chain)
      BY <2>1 DEF SpentOn
    <2>3. \A u \in TxsOf(chain) : o \in u.spends => u = t
      BY <2>1 DEF PillInv, SpentOnce
    <2>4. Truth(o) = t.truth
      BY <2>1, <2>2, <2>3 DEF Truth
    <2>5. t.truth \in {"filled", "cancelled"}
      BY <2>1 DEF PillInv, SpendsSettle
    <2>6. e.kind = IF t.truth = "filled" THEN "dex_fill" ELSE "dex_cancel"
      BY <2>1 DEF SettledAs
    <2>7. QED
      BY <2>2, <2>4, <2>5, <2>6 DEF Ends, StatusOf
  <1>2. CASE KeyOf(o) \in DOMAIN settled
    <2>1. PICK e \in got : Ends(e) /\ KeyOf(e.order) = KeyOf(o) /\ settled[KeyOf(o)] = StatusOf(e)
      BY <1>2 DEF PillInv, PillsFromEvents
    <2>2. e \in log /\ e.order \in Orders /\ e.closes
      BY <2>1 DEF PillInv, SaysHowSettled
    <2>3. e.order = o
      BY <2>1, <2>2 DEF Alone, KeyOf
    <2>4. QED
      BY <1>1, <1>2, <2>1, <2>2, <2>3 DEF Pill
  <1>3. CASE KeyOf(o) \notin DOMAIN settled
    <2>1. o \notin SpentOn(chain)
      <3> SUFFICES ASSUME o \in SpentOn(chain) PROVE FALSE
        OBVIOUS
      <3>1. PICK i \in DOMAIN chain : \E t \in ToSet(chain[i].txs) : o \in t.spends
        BY DEF SpentOn, TxsOf
      <3>2. \A t : HasActor(<<o, t>>)
        BY DEF Carded, PillInv, PillsFromEvents, SaysHowSettled, HasActor
      <3>3. PICK e \in log : e.order = o /\ e.closes
        BY <3>1, <3>2 DEF OrdersInv, SettlementIsTold
      <3>4. KeyOf(o) \in DOMAIN settled
        BY <1>1, <3>3 DEF PillInv, PillsFromEvents
      <3>5. QED
        BY <1>3, <3>4
    <2>2. QED
      BY <1>3, <2>1 DEF Pill, Truth
  <1>4. QED
    BY <1>2, <1>3

(* A page that has every event shows the pill the chain gives an order     *)
(* (`dexStatusPill`), in whatever order the events came, for an order at a *)
(* pool, alone with its key, not of liquidity, and not lost to a fork, a   *)
(* full tracker or a late boot: for any orders, forks and restarts.        *)
THEOREM PillsAreRight == OrdersSpec => []PillIsRight
  <1>1. OrdersInv /\ PillInv /\ [OrdersNext]_ordersVars => PillInv'
    <2> SUFFICES ASSUME OrdersInv, PillInv, [OrdersNext]_ordersVars PROVE PillInv'
      OBVIOUS
    <2>1. CASE \E txs \in BlocksAfter : RollForward(txs)
      BY <2>1, RollForwardPills
    <2>2. CASE RollBack
      BY <2>2, RollBackPills
    <2>3. CASE FetchVyfi
      BY <2>3, RestPills DEF FetchVyfi, pageVars, orphanVars
    <2>4. CASE FetchPools
      BY <2>4, RestPills DEF FetchPools, pageVars, orphanVars
    <2>5. CASE Restart
      BY <2>5, RestartPills
    <2>6. CASE Receive
      BY <2>6, ReceivePills
    <2>7. CASE UNCHANGED ordersVars
      BY <2>7, RestPills DEF ordersVars, scanVars, pageVars, orphanVars
    <2>8. QED
      BY <2>1, <2>2, <2>3, <2>4, <2>5, <2>6, <2>7 DEF OrdersNext
  <1>2. QED
    BY <1>1, PillInitially, PillsTellTheTruth, OrdersInvariant, PTL DEF OrdersSpec

=============================================================================
