---------------------------- MODULE TxStoreProofs ----------------------------
(***************************************************************************)
(* Transaction bodies survive: proofs for a chain of any length, any       *)
(* retention and cache ceiling, and any number of crashes, failed writes   *)
(* and blocks handled again.                                               *)
(***************************************************************************)
EXTENDS TxStore, DataLemmas

Unit == (Tx \X {1, 2}) \cup {NL}

(* The body of t stands at offset o, unfinished or ended by a newline. *)
Holds(f, o, t) ==
    /\ o + 2 <= Len(f) /\ f[o + 1] = <<t, 1>> /\ f[o + 2] = <<t, 2>>
    /\ o + 2 = Len(f) \/ f[o + 3] = NL

(* The bodies build_tx_index finds. *)
Sound(f) == {t \in Tx : Offsets(f, t) # {}}

TornEnd(f) == f # <<>> /\ f[Len(f)] # NL

-----------------------------------------------------------------------------
(* Lines. *)

LEMMA Numbers ==
    /\ Tip \in Nat \ {0, 1} /\ Retention \in Nat /\ CacheCap \in Nat /\ Margin \in Nat
    /\ MaxCrashes \in Nat /\ MaxMishaps \in Nat
    /\ NoTx = 0 /\ NoTx \notin Tx /\ \A t \in Tx : t \in Nat \ {0}
    /\ IsFiniteSet(Tx)
  <1>1. /\ Tip \in Nat \ {0, 1} /\ Retention \in Nat /\ CacheCap \in Nat /\ Margin \in Nat
        /\ MaxCrashes \in Nat /\ MaxMishaps \in Nat
    BY StoreAssumption
  <1>2. NoTx = 0 /\ NoTx \notin Tx /\ \A t \in Tx : t \in Nat \ {0}
    BY <1>1 DEF NoTx, Tx
  <1>3. IsFiniteSet(Tx)
    BY <1>1, FS_Interval DEF Tx
  <1>4. QED
    BY <1>1, <1>2, <1>3

LEMMA LineFacts ==
    ASSUME NEW t \in Tx
    PROVE  /\ Body(t) \in Seq(Unit) /\ Len(Body(t)) = 2
           /\ Body(t)[1] = <<t, 1>> /\ Body(t)[2] = <<t, 2>>
           /\ Line(t) \in Seq(Unit) /\ Len(Line(t)) = 3
           /\ Line(t)[1] = <<t, 1>> /\ Line(t)[2] = <<t, 2>> /\ Line(t)[3] = NL
           /\ <<t, 1>> # NL /\ <<t, 2>> # NL
  <1>1. <<t, 1>> \in Unit /\ <<t, 2>> \in Unit /\ NL \in Unit
    BY DEF Unit
  <1>2. Body(t) \in Seq(Unit) /\ Len(Body(t)) = 2 /\ Body(t)[1] = <<t, 1>> /\ Body(t)[2] = <<t, 2>>
    BY <1>1 DEF Body
  <1>3. /\ Line(t) \in Seq(Unit) /\ Len(Line(t)) = 3
        /\ Line(t)[1] = <<t, 1>> /\ Line(t)[2] = <<t, 2>> /\ Line(t)[3] = NL
    <2>1. /\ Append(Body(t), NL) \in Seq(Unit) /\ Len(Append(Body(t), NL)) = 2 + 1
          /\ \A i \in 1..2 : Append(Body(t), NL)[i] = Body(t)[i]
          /\ Append(Body(t), NL)[2 + 1] = NL
      <3>1. /\ Append(Body(t), NL) \in Seq(Unit) /\ Len(Append(Body(t), NL)) = Len(Body(t)) + 1
            /\ \A i \in 1..Len(Body(t)) : Append(Body(t), NL)[i] = Body(t)[i]
            /\ Append(Body(t), NL)[Len(Body(t)) + 1] = NL
        <4>1. Body(t) \in Seq(Unit) /\ NL \in Unit
          BY <1>1, <1>2
        <4>2. QED
          BY ONLY <4>1, AppendProperties
      <3>2. QED
        BY <1>2, <3>1
    <2>2. Line(t) = Append(Body(t), NL) /\ 2 + 1 = 3 /\ 1 \in 1..2 /\ 2 \in 1..2
      BY DEF Line
    <2>3. QED
      BY ONLY <1>2, <2>1, <2>2
  <1>4. <<t, 1>> # NL /\ <<t, 2>> # NL
    BY DEF NL
  <1>5. QED
    BY <1>2, <1>3, <1>4

(* Where the line that starts at o ends: before the first newline, or at    *)
(* the end of the file.                                                     *)
LEMMA LineEnd ==
    ASSUME NEW f \in Seq(Unit), NEW o \in 0..Len(f)
    PROVE  \E e \in o..Len(f) :
              /\ LineAt(f, o) \in Seq(Unit) /\ Len(LineAt(f, o)) = e - o
              /\ \A i \in 1..(e - o) : LineAt(f, o)[i] = f[o + i] /\ f[o + i] # NL
              /\ e = Len(f) \/ f[e + 1] = NL
  <1> DEFINE ends == {i \in (o + 1)..Len(f) : f[i] = NL}
             e == IF ends = {} THEN Len(f) ELSE Min(ends) - 1
  <1>1. Len(f) \in Nat /\ o \in Nat /\ o <= Len(f)
    BY LenProperties
  <1>2. ends # {} => Min(ends) \in ends /\ \A i \in ends : Min(ends) <= i
    <2>1. ends \in SUBSET Nat
      BY <1>1
    <2>2. QED
      BY <2>1, MinIsLeast
  <1>3. e \in o..Len(f) /\ (e = Len(f) \/ f[e + 1] = NL)
    <2>1. CASE ends = {}
      BY <1>1, <2>1
    <2>2. CASE ends # {}
      <3>1. Min(ends) \in (o + 1)..Len(f) /\ f[Min(ends)] = NL /\ e = Min(ends) - 1
        BY <1>2, <2>2
      <3> HIDE DEF ends, e
      <3>2. e + 1 = Min(ends)
        BY <1>1, <3>1
      <3>3. QED
        BY <1>1, <3>1, <3>2
    <2>3. QED
      BY <2>1, <2>2
  <1>4. \A i \in (o + 1)..e : f[i] # NL
    <2>1. ASSUME NEW i \in (o + 1)..e, f[i] = NL
          PROVE  FALSE
      <3>1. i \in ends
        BY <1>1, <1>3, <2>1
      <3>2. Min(ends) <= i /\ e = Min(ends) - 1 /\ Min(ends) \in Int
        BY <1>2, <3>1
      <3> HIDE DEF ends, e
      <3>3. QED
        BY <1>1, <1>3, <3>2
    <2>2. QED
      BY <2>1
  <1>5. LineAt(f, o) = SubSeq(f, o + 1, e)
    BY DEF LineAt
  <1> HIDE DEF e, ends
  <1>6. e \in Int /\ o + 1 \in Int /\ \A i \in (o + 1)..e : f[i] \in Unit
    BY <1>1, <1>3, ElementOfSeq
  <1>7. /\ LineAt(f, o) \in Seq(Unit) /\ Len(LineAt(f, o)) = IF o + 1 <= e THEN e - (o + 1) + 1 ELSE 0
        /\ \A i \in 1..(e - (o + 1) + 1) : LineAt(f, o)[i] = f[(o + 1) + i - 1]
    BY <1>5, <1>6, SubSeqProperties
  <1>8. Len(LineAt(f, o)) = e - o
    BY <1>1, <1>3, <1>7
  <1>9. ASSUME NEW i \in 1..(e - o)
        PROVE  LineAt(f, o)[i] = f[o + i] /\ f[o + i] # NL
    <2>1. e - (o + 1) + 1 = e - o /\ (o + 1) + i - 1 = o + i /\ o + i \in (o + 1)..e
      BY <1>1, <1>6
    <2>2. QED
      BY <1>4, <1>7, <2>1
  <1>10. QED
    BY <1>3, <1>7, <1>8, <1>9

(* What parses at an offset. *)
LEMMA LineAtBody ==
    ASSUME NEW f \in Seq(Unit), NEW o \in 0..Len(f), NEW t \in Tx
    PROVE  LineAt(f, o) = Body(t) <=> Holds(f, o, t)
  <1>1. Len(f) \in Nat /\ o \in Nat /\ o <= Len(f)
    BY LenProperties
  <1>2. PICK e \in o..Len(f) :
              /\ LineAt(f, o) \in Seq(Unit) /\ Len(LineAt(f, o)) = e - o
              /\ \A i \in 1..(e - o) : LineAt(f, o)[i] = f[o + i] /\ f[o + i] # NL
              /\ e = Len(f) \/ f[e + 1] = NL
    BY LineEnd
  <1>3. ASSUME LineAt(f, o) = Body(t)
        PROVE  Holds(f, o, t)
    <2>1. e - o = 2
      BY <1>2, <1>3, LineFacts
    <2>2. f[o + 1] = <<t, 1>> /\ f[o + 2] = <<t, 2>>
      BY <1>2, <1>3, <2>1, LineFacts
    <2>3. e = o + 2 /\ e + 1 = o + 3 /\ o + 2 <= Len(f)
      BY <1>1, <1>2, <2>1
    <2>4. QED
      BY <1>2, <2>2, <2>3 DEF Holds
  <1>4. ASSUME Holds(f, o, t)
        PROVE  LineAt(f, o) = Body(t)
    <2>1. /\ o + 2 <= Len(f) /\ f[o + 1] = <<t, 1>> /\ f[o + 2] = <<t, 2>>
          /\ o + 2 = Len(f) \/ f[o + 3] = NL
          /\ f[o + 1] # NL /\ f[o + 2] # NL
      BY <1>4, LineFacts DEF Holds
    <2>2. e = o + 2
      <3>1. e # o
        <4>1. o # Len(f)
          BY <1>1, <2>1
        <4>2. QED
          BY <1>2, <2>1, <4>1
      <3>2. e # o + 1
        <4>1. (o + 1) + 1 = o + 2 /\ o + 1 # Len(f)
          BY <1>1, <2>1
        <4>2. QED
          BY <1>2, <2>1, <4>1
      <3>3. ~(e > o + 2)
        <4>1. ASSUME e > o + 2
              PROVE  FALSE
          <5>1. o + 2 # Len(f) /\ 3 \in 1..(e - o)
            BY <1>1, <1>2, <4>1
          <5>2. QED
            BY <1>2, <2>1, <5>1
        <4>2. QED
          BY <4>1
      <3>4. QED
        BY <1>1, <1>2, <3>1, <3>2, <3>3
    <2>3. /\ Len(LineAt(f, o)) = 2 /\ LineAt(f, o) \in Seq(Unit)
          /\ LineAt(f, o)[1] = <<t, 1>> /\ LineAt(f, o)[2] = <<t, 2>>
      <3>1. e - o = 2
        BY <1>1, <2>2
      <3>2. QED
        BY <1>2, <2>1, <3>1
    <2>4. /\ Body(t) \in Seq(Unit) /\ Len(Body(t)) = 2
          /\ Body(t)[1] = <<t, 1>> /\ Body(t)[2] = <<t, 2>>
      BY LineFacts
    <2>5. \A i \in 1..2 : LineAt(f, o)[i] = Body(t)[i]
      <3>1. \A i \in 1..2 : i = 1 \/ i = 2
        OBVIOUS
      <3>2. QED
        BY <2>3, <2>4, <3>1
    <2>6. QED
      BY <2>3, <2>4, <2>5, SeqEqual
  <1>5. QED
    BY <1>3, <1>4

LEMMA BodyAtIs ==
    ASSUME NEW f \in Seq(Unit), NEW o \in 0..Len(f)
    PROVE  /\ BodyAt(f, o) \in Tx \cup {NoTx}
           /\ \A t \in Tx : BodyAt(f, o) = t <=> Holds(f, o, t)
           /\ BodyAt(f, o) # NoTx => f[o + 1] = <<BodyAt(f, o), 1>>
  <1>1. \A t \in Tx : LineAt(f, o) = Body(t) <=> Holds(f, o, t)
    BY LineAtBody
  <1>2. ASSUME NEW t \in Tx, NEW u \in Tx, Holds(f, o, t), Holds(f, o, u)
        PROVE  t = u
    BY <1>2 DEF Holds
  <1>3. CASE \E t \in Tx : LineAt(f, o) = Body(t)
    <2>1. BodyAt(f, o) \in Tx /\ Holds(f, o, BodyAt(f, o))
      BY <1>1, <1>3 DEF BodyAt
    <2>2. QED
      BY <1>2, <2>1 DEF Holds
  <1>4. CASE ~ \E t \in Tx : LineAt(f, o) = Body(t)
    BY <1>1, <1>4, Numbers DEF BodyAt
  <1>5. QED
    BY <1>3, <1>4

-----------------------------------------------------------------------------
(* A file that grows. *)

LEMMA GrownFile ==
    ASSUME NEW f \in Seq(Unit), NEW g \in Seq(Unit)
    PROVE  /\ f \o g \in Seq(Unit) /\ Len(f \o g) = Len(f) + Len(g)
           /\ Len(f) \in Nat /\ Len(g) \in Nat
           /\ \A i \in 1..Len(f) : (f \o g)[i] = f[i]
           /\ \A i \in 1..Len(g) : (f \o g)[Len(f) + i] = g[i]
  <1>1. /\ f \o g \in Seq(Unit) /\ Len(f \o g) = Len(f) + Len(g)
        /\ Len(f) \in Nat /\ Len(g) \in Nat
        /\ \A i \in 1..(Len(f) + Len(g)) :
              (f \o g)[i] = IF i <= Len(f) THEN f[i] ELSE g[i - Len(f)]
    BY ConcatProperties, LenProperties
  <1>2. ASSUME NEW i \in 1..Len(f)
        PROVE  (f \o g)[i] = f[i]
    <2>1. i \in 1..(Len(f) + Len(g)) /\ i <= Len(f)
      BY <1>1
    <2>2. QED
      BY <1>1, <2>1
  <1>3. ASSUME NEW i \in 1..Len(g)
        PROVE  (f \o g)[Len(f) + i] = g[i]
    <2>1. Len(f) + i \in 1..(Len(f) + Len(g)) /\ ~(Len(f) + i <= Len(f)) /\ Len(f) + i - Len(f) = i
      BY <1>1
    <2>2. QED
      BY <1>1, <2>1
  <1>4. QED
    BY <1>1, <1>2, <1>3

(* Only the unfinished last line can be spoilt by what follows it. *)
LEMMA HoldsKept ==
    ASSUME NEW f \in Seq(Unit), NEW g \in Seq(Unit), NEW o \in 0..Len(f), NEW t \in Tx,
           Holds(f, o, t), TornEnd(f) => f[Len(f)] # <<t, 2>>
    PROVE  Holds(f \o g, o, t)
  <1>1. /\ Len(f \o g) = Len(f) + Len(g) /\ Len(f) \in Nat /\ Len(g) \in Nat
        /\ \A i \in 1..Len(f) : (f \o g)[i] = f[i]
    BY GrownFile
  <1>2. /\ o + 2 <= Len(f) /\ f[o + 1] = <<t, 1>> /\ f[o + 2] = <<t, 2>> /\ o \in Nat
        /\ o + 2 = Len(f) \/ f[o + 3] = NL
    BY <1>1 DEF Holds
  <1>3. o + 2 # Len(f)
    <2>1. ASSUME o + 2 = Len(f)
          PROVE  FALSE
      <3>1. f[Len(f)] = <<t, 2>> /\ f[Len(f)] # NL
        BY <1>2, <2>1, LineFacts
      <3>2. f # <<>>
        BY <1>1, <1>2, <2>1
      <3>3. QED
        BY <3>1, <3>2 DEF TornEnd
    <2>2. QED
      BY <2>1
  <1>4. o + 1 \in 1..Len(f) /\ o + 2 \in 1..Len(f) /\ o + 3 \in 1..Len(f) /\ o + 2 <= Len(f \o g)
    BY <1>1, <1>2, <1>3
  <1>5. /\ (f \o g)[o + 1] = <<t, 1>> /\ (f \o g)[o + 2] = <<t, 2>> /\ (f \o g)[o + 3] = NL
    BY <1>1, <1>2, <1>3, <1>4
  <1>6. QED
    BY <1>4, <1>5 DEF Holds

LEMMA LineStartsFacts ==
    ASSUME NEW f \in Seq(Unit)
    PROVE  /\ LineStarts(f) \subseteq 0..Len(f) /\ LineStarts(f) \in SUBSET Nat
           /\ \A g \in Seq(Unit) : LineStarts(f) \subseteq LineStarts(f \o g)
  <1>1. Len(f) \in Nat
    BY LenProperties
  <1>2. LineStarts(f) \subseteq 0..Len(f) /\ LineStarts(f) \in SUBSET Nat
    BY <1>1 DEF LineStarts
  <1>3. ASSUME NEW g \in Seq(Unit), NEW o \in LineStarts(f)
        PROVE  o \in LineStarts(f \o g)
    <2>1. /\ Len(f \o g) = Len(f) + Len(g) /\ Len(g) \in Nat
          /\ \A i \in 1..Len(f) : (f \o g)[i] = f[i]
      BY GrownFile
    <2>2. o \in 0..(Len(f) - 1) /\ (o = 0 \/ f[o] = NL)
      BY DEF LineStarts
    <2>3. o \in 0..(Len(f \o g) - 1)
      BY <1>1, <2>1, <2>2
    <2>4. o = 0 \/ (f \o g)[o] = NL
      BY <1>1, <2>1, <2>2
    <2>5. QED
      BY <2>3, <2>4 DEF LineStarts
  <1>4. QED
    BY <1>2, <1>3

LEMMA OffsetsFacts ==
    ASSUME NEW f \in Seq(Unit), NEW t \in Tx
    PROVE  /\ Offsets(f, t) = {o \in LineStarts(f) : Holds(f, o, t)}
           /\ Offsets(f, t) \in SUBSET Nat /\ Offsets(f, t) \subseteq 0..Len(f)
           /\ t \in Sound(f) <=> Offsets(f, t) # {}
  <1>1. \A o \in LineStarts(f) : o \in 0..Len(f)
    BY LineStartsFacts
  <1>2. \A o \in LineStarts(f) : BodyAt(f, o) = t <=> Holds(f, o, t)
    BY <1>1, BodyAtIs
  <1>3. QED
    BY <1>2, LineStartsFacts DEF Offsets, Sound

LEMMA SoundKept ==
    ASSUME NEW f \in Seq(Unit), NEW g \in Seq(Unit), NEW t \in Sound(f),
           TornEnd(f) => f[Len(f)] # <<t, 2>>
    PROVE  t \in Sound(f \o g)
  <1>1. t \in Tx
    BY DEF Sound
  <1>2. PICK o \in LineStarts(f) : Holds(f, o, t)
    BY <1>1, OffsetsFacts
  <1>3. o \in 0..Len(f) /\ o \in LineStarts(f \o g)
    BY LineStartsFacts
  <1>4. Holds(f \o g, o, t)
    BY <1>1, <1>2, <1>3, HoldsKept
  <1>5. f \o g \in Seq(Unit)
    BY GrownFile
  <1>6. QED
    BY <1>1, <1>3, <1>4, <1>5, OffsetsFacts

LEMMA NewLine ==
    ASSUME NEW f \in Seq(Unit), NEW t \in Tx
    PROVE  /\ f \o Line(t) \in Seq(Unit) /\ Len(f \o Line(t)) = Len(f) + 3
           /\ Len(f) \in 0..Len(f \o Line(t))
           /\ Holds(f \o Line(t), Len(f), t)
           /\ ~TornEnd(f \o Line(t))
           /\ ~TornEnd(f) => t \in Sound(f \o Line(t))
  <1> DEFINE g == f \o Line(t)
  <1>1. /\ g \in Seq(Unit) /\ Len(g) = Len(f) + 3 /\ Len(f) \in Nat
        /\ \A i \in 1..Len(f) : g[i] = f[i]
        /\ g[Len(f) + 1] = <<t, 1>> /\ g[Len(f) + 2] = <<t, 2>> /\ g[Len(f) + 3] = NL
    <2>1. /\ Line(t) \in Seq(Unit) /\ Len(Line(t)) = 3
          /\ Line(t)[1] = <<t, 1>> /\ Line(t)[2] = <<t, 2>> /\ Line(t)[3] = NL
      BY LineFacts
    <2>2. /\ g \in Seq(Unit) /\ Len(g) = Len(f) + Len(Line(t)) /\ Len(f) \in Nat
          /\ \A i \in 1..Len(f) : g[i] = f[i]
          /\ \A i \in 1..Len(Line(t)) : g[Len(f) + i] = Line(t)[i]
      BY <2>1, GrownFile
    <2>3. 1 \in 1..Len(Line(t)) /\ 2 \in 1..Len(Line(t)) /\ 3 \in 1..Len(Line(t))
      BY <2>1
    <2>4. g[Len(f) + 1] = Line(t)[1] /\ g[Len(f) + 2] = Line(t)[2] /\ g[Len(f) + 3] = Line(t)[3]
      BY <2>2, <2>3
    <2>5. QED
      BY <2>1, <2>2, <2>4
  <1> HIDE DEF g
  <1>2. Holds(g, Len(f), t)
    BY <1>1 DEF Holds
  <1>3. ~TornEnd(g)
    BY <1>1 DEF TornEnd
  <1>4. ASSUME ~TornEnd(f)
        PROVE  t \in Sound(g)
    <2>1. Len(f) \in LineStarts(g)
      <3>1. Len(f) \in 0..(Len(g) - 1)
        BY <1>1
      <3>2. Len(f) = 0 \/ g[Len(f)] = NL
        <4>1. CASE f = <<>>
          BY <4>1
        <4>2. CASE f # <<>>
          <5>1. Len(f) \in 1..Len(f)
            BY <1>1, <4>2, EmptySeq
          <5>2. f[Len(f)] = NL
            BY <1>4, <4>2 DEF TornEnd
          <5>3. QED
            BY <1>1, <5>1, <5>2
        <4>3. QED
          BY <4>1, <4>2
      <3>3. QED
        BY <3>1, <3>2 DEF LineStarts
    <2>2. QED
      BY <1>1, <1>2, <2>1, OffsetsFacts
  <1>5. Len(f) \in 0..Len(g)
    BY <1>1
  <1>6. QED
    BY <1>1, <1>2, <1>3, <1>4, <1>5 DEF g

(* build_tx_index knows the bodies that are sound, at a line of theirs.     *)
LEMMA IndexFacts ==
    ASSUME NEW f \in Seq(Unit)
    PROVE  /\ IndexOf(f) \in [Tx -> Nat \cup {NoOffset}] /\ Known(IndexOf(f)) = Sound(f)
           /\ \A t \in Sound(f) : IndexOf(f)[t] \in 0..Len(f) /\ Holds(f, IndexOf(f)[t], t)
  <1>1. ASSUME NEW t \in Tx, Offsets(f, t) # {}
        PROVE  /\ Max(Offsets(f, t)) \in 0..Len(f) /\ Max(Offsets(f, t)) \in Nat
               /\ Holds(f, Max(Offsets(f, t)), t)
    <2>1. Len(f) \in Nat /\ Offsets(f, t) \in SUBSET Nat /\ \A o \in Offsets(f, t) : o <= Len(f)
      BY OffsetsFacts, LenProperties
    <2>2. Max(Offsets(f, t)) \in Offsets(f, t)
      BY <1>1, <2>1, MaxIsGreatest
    <2>3. QED
      BY <2>2, OffsetsFacts
  <1>2. \A t \in Tx : IndexOf(f)[t] = IF Offsets(f, t) = {} THEN NoOffset ELSE Max(Offsets(f, t))
    BY DEF IndexOf
  <1>3. IndexOf(f) \in [Tx -> Nat \cup {NoOffset}]
    BY <1>1 DEF IndexOf
  <1>4. NoOffset \notin Nat
    BY DEF NoOffset
  <1>5. \A t \in Tx : t \in Known(IndexOf(f)) <=> Offsets(f, t) # {}
    BY <1>1, <1>2, <1>4 DEF Known
  <1>6. Known(IndexOf(f)) = Sound(f)
    BY <1>5 DEF Known, Sound
  <1>7. QED
    BY <1>1, <1>2, <1>3, <1>6 DEF Sound

(* load_since lists each body it finds once. *)
LEMMA LoadedFacts ==
    ASSUME NEW f \in Seq(Unit)
    PROVE  /\ Loaded(f) \in Seq(Tx) /\ IsInjective(Loaded(f)) /\ Range(Loaded(f)) \subseteq Tx
  <1> DEFINE fresh == {u \in Tx : Offsets(f, u) # {} /\ InWindow(u)}
             P == {Min(Offsets(f, t)) : t \in fresh}
             s == [o \in LineStarts(f) |-> BodyAt(f, o)]
  <1>1. Len(f) \in Nat
    BY LenProperties
  <1>2. ASSUME NEW t \in fresh
        PROVE  Min(Offsets(f, t)) \in 0..Len(f) /\ s[Min(Offsets(f, t))] = t
    <2>1. Offsets(f, t) \in SUBSET Nat /\ Offsets(f, t) # {} /\ Offsets(f, t) \subseteq 0..Len(f)
      BY OffsetsFacts
    <2>2. Min(Offsets(f, t)) \in Offsets(f, t)
      BY <2>1, MinIsLeast
    <2>3. Min(Offsets(f, t)) \in LineStarts(f) /\ BodyAt(f, Min(Offsets(f, t))) = t
      BY <2>2 DEF Offsets
    <2>4. QED
      BY <2>1, <2>2, <2>3
  <1>3. P \in SUBSET (0..Len(f)) /\ \A i \in P : s[i] \in Tx
    BY <1>2
  <1>4. \A i, j \in P : s[i] = s[j] => i = j
    BY <1>2
  <1>5. Loaded(f) = Subsequence(s, P)
    BY DEF Loaded
  <1> HIDE DEF s, P
  <1>6. /\ Subsequence(s, P) \in Seq(Tx) /\ IsInjective(Subsequence(s, P))
    <2> DEFINE n == Len(f)
    <2>1. n \in Nat /\ P \in SUBSET (0..n) /\ \A i \in P : s[i] \in Tx
      BY <1>1, <1>3
    <2> HIDE DEF n
    <2>2. Subsequence(s, P) \in Seq(Tx)
      BY ONLY <2>1, SubsequenceFacts
    <2>3. (\A i, j \in P : s[i] = s[j] => i = j) => IsInjective(Subsequence(s, P))
      BY ONLY <2>1, SubsequenceFacts
    <2>4. QED
      BY <1>4, <2>2, <2>3
  <1>7. Range(Loaded(f)) \subseteq Tx
    BY <1>5, <1>6, ElementOfSeq, LenProperties DEF Range
  <1>8. QED
    BY <1>5, <1>6, <1>7

-----------------------------------------------------------------------------
(* Types. *)

Tasks == {"sync", "fill"}
Steps == {"idle", "append", "insert", "trim", "publish", "publish_tx"}
Writers == [Tasks -> [pc : Steps, tx : Tx \cup {NoTx}]]

(* A task in cache_tx has a transaction, and its block event comes before   *)
(* its events.                                                              *)
TaskTyped ==
    /\ writer \in Writers
    /\ \A w \in Tasks : writer[w].pc # "idle" => writer[w].tx \in Tx
    /\ writer["sync"].pc = "publish_tx" => writer["sync"].tx \in blocks

LEMMA GoesOn ==
    ASSUME writer \in Writers, NEW w \in Tasks, NEW pc \in Steps, Goes(w, pc)
    PROVE  /\ writer' \in Writers
           /\ writer'[w].pc = pc /\ writer'[w].tx = writer[w].tx
           /\ \A v \in Tasks : v # w => writer'[v] = writer[v]
  BY DEF Writers, Goes

(* A task goes on to a step before "publish_tx", or has published a block.  *)
LEMMA GoesTyped ==
    ASSUME TaskTyped, NEW w \in Tasks, NEW pc \in Steps \ {"idle"}, Goes(w, pc),
           writer[w].pc # "idle", blocks \subseteq blocks',
           w = "sync" /\ pc = "publish_tx" => writer[w].tx \in blocks'
    PROVE  TaskTyped'
  <1>1. /\ writer \in Writers /\ writer[w].tx \in Tx
        /\ writer["sync"].pc = "publish_tx" => writer["sync"].tx \in blocks
    BY DEF TaskTyped
  <1>2. /\ writer' \in Writers
        /\ writer'[w].pc = pc /\ writer'[w].tx = writer[w].tx
        /\ \A v \in Tasks : v # w => writer'[v] = writer[v]
    BY <1>1, GoesOn
  <1>3. \A v \in Tasks : writer'[v].pc # "idle" => writer'[v].tx \in Tx
    <2>1. \A v \in Tasks : writer[v].pc # "idle" => writer[v].tx \in Tx
      BY DEF TaskTyped
    <2>2. QED
      BY <1>1, <1>2, <2>1
  <1>4. writer'["sync"].pc = "publish_tx" => writer'["sync"].tx \in blocks'
    <2>1. CASE w = "sync"
      BY <1>2, <2>1
    <2>2. CASE w # "sync"
      BY <1>1, <1>2, <2>2 DEF Tasks
    <2>3. QED
      BY <2>1, <2>2
  <1>5. QED
    BY <1>2, <1>3, <1>4 DEF TaskTyped

LEMMA TaskSet ==
    ASSUME TaskTyped, NEW w \in Tasks, NEW r, writer' = [writer EXCEPT ![w] = r],
           blocks \subseteq blocks',
           \/ r = Idle
           \/ r \in [pc : {"append"}, tx : Tx]
    PROVE  /\ TaskTyped'
           /\ writer'[w] = r /\ \A v \in Tasks : v # w => writer'[v] = writer[v]
  <1>1. /\ writer \in Writers
        /\ \A v \in Tasks : writer[v].pc # "idle" => writer[v].tx \in Tx
        /\ writer["sync"].pc = "publish_tx" => writer["sync"].tx \in blocks
    BY DEF TaskTyped
  <1>2. /\ r \in [pc : Steps, tx : Tx \cup {NoTx}] /\ (r.pc # "idle" => r.tx \in Tx)
        /\ r.pc # "publish_tx"
    BY DEF Idle, Steps
  <1>3. /\ writer' \in Writers /\ writer'[w] = r
        /\ \A v \in Tasks : v # w => writer'[v] = writer[v]
    BY <1>1, <1>2 DEF Writers
  <1>4. \A v \in Tasks : writer'[v].pc # "idle" => writer'[v].tx \in Tx
    BY <1>1, <1>2, <1>3
  <1>5. writer'["sync"].pc = "publish_tx" => writer'["sync"].tx \in blocks'
    BY <1>1, <1>2, <1>3 DEF Tasks
  <1>6. QED
    BY <1>3, <1>4, <1>5 DEF TaskTyped

LEMMA MaxOfTxs ==
    ASSUME NEW S \in SUBSET (0..Tip), S # {}
    PROVE  Max(S) \in S /\ \A m \in S : m <= Max(S)
  <1>1. S \in SUBSET Nat /\ Tip \in Nat /\ \A m \in S : m <= Tip
    BY Numbers
  <1>2. QED
    BY <1>1, MaxIsGreatest

(* The queue lists every cached hash once, and nothing else. *)
CacheTyped ==
    /\ order \in Seq(Tx) /\ IsInjective(order) /\ Range(order) = DOMAIN hot
    /\ DOMAIN hot \subseteq Tx /\ \A h \in DOMAIN hot : hot[h] \in Tx

LEMMA CacheGrows ==
    ASSUME CacheTyped, NEW h \in Tx, h \notin DOMAIN hot, order' = Append(order, h),
           NEW b \in Tx, hot' = [k \in DOMAIN hot \cup {h} |-> IF k = h THEN b ELSE hot[k]]
    PROVE  CacheTyped'
  <1>1. order \in Seq(Tx) /\ IsInjective(order) /\ Range(order) = DOMAIN hot
    BY DEF CacheTyped
  <1>2. /\ order' \in Seq(Tx) /\ Len(order') = Len(order) + 1 /\ Len(order) \in Nat
        /\ \A i \in 1..Len(order) : order'[i] = order[i]
        /\ order'[Len(order) + 1] = h
        /\ DOMAIN order = 1..Len(order) /\ DOMAIN order' = 1..Len(order')
    BY <1>1, AppendProperties, LenProperties
  <1>3. DOMAIN hot' = DOMAIN hot \cup {h}
    OBVIOUS
  <1>4. \A i \in DOMAIN order' : i \in DOMAIN order \/ i = Len(order) + 1
    BY <1>2
  <1>5. \A i \in DOMAIN order : i # Len(order) + 1 /\ order'[i] = order[i] /\ order[i] \in DOMAIN hot
    BY <1>1, <1>2 DEF Range
  <1>6. IsInjective(order')
    BY <1>1, <1>2, <1>4, <1>5 DEF IsInjective
  <1>7. Range(order') = DOMAIN hot'
    <2>1. Range(order') \subseteq DOMAIN hot'
      BY <1>2, <1>3, <1>4, <1>5 DEF Range
    <2>2. ASSUME NEW k \in DOMAIN hot'
          PROVE  k \in Range(order')
      <3>1. CASE k = h
        <4>1. Len(order) + 1 \in DOMAIN order'
          BY <1>2
        <4>2. QED
          BY <1>2, <3>1, <4>1 DEF Range
      <3>2. CASE k \in DOMAIN hot
        <4>1. PICK i \in DOMAIN order : order[i] = k
          BY <1>1, <3>2 DEF Range
        <4>2. i \in DOMAIN order'
          BY <1>2, <4>1
        <4>3. QED
          BY <1>5, <4>1, <4>2 DEF Range
      <3>3. QED
        BY <1>3, <3>1, <3>2
    <2>3. QED
      BY <2>1, <2>2
  <1>8. DOMAIN hot' \subseteq Tx /\ \A k \in DOMAIN hot' : hot'[k] \in Tx
    BY <1>3 DEF CacheTyped
  <1>9. QED
    BY <1>2, <1>6, <1>7, <1>8 DEF CacheTyped

(* Trimming leaves some of the cached bodies, each under its hash. *)
LEMMA CacheTrimmed ==
    ASSUME CacheTyped, TrimHot
    PROVE  /\ CacheTyped' /\ DOMAIN hot' \subseteq DOMAIN hot
           /\ \A h \in DOMAIN hot' : hot'[h] = hot[h]
  <1> DEFINE fresh == {i \in 1..Len(order) : InWindow(hot[order[i]])}
             kept == {i \in fresh : CacheCap = 0 \/ Cardinality({j \in fresh : j > i}) < CacheCap}
             n == Len(order)
             H == DOMAIN hot
  <1>1. /\ order \in Seq(Tx) /\ n \in Nat /\ DOMAIN order = 1..n
        /\ IsInjective(order) /\ Range(order) = H /\ H \subseteq Tx
    BY LenProperties DEF CacheTyped
  <1>2. kept \subseteq 1..n
    OBVIOUS
  <1>3. order' = Subsequence(order, kept)
    BY DEF TrimHot, Trimmed
  <1>4. hot' = [h \in Range(order') |-> hot[h]]
    BY DEF TrimHot
  <1> HIDE DEF kept, fresh, n
  <1>5. kept \in SUBSET (0..n)
    BY <1>1, <1>2
  <1>6. \A i \in kept : order[i] \in H
    BY <1>1, <1>2 DEF Range
  <1> HIDE DEF H
  <1>7. \A i, j \in kept : order[i] = order[j] => i = j
    BY <1>1, <1>2 DEF IsInjective
  <1>8. order' \in Seq(H)
    BY ONLY <1>1, <1>3, <1>5, <1>6, SubsequenceFacts
  <1>9. IsInjective(order')
    <2>1. (\A i, j \in kept : order[i] = order[j] => i = j) => IsInjective(Subsequence(order, kept))
      BY ONLY <1>1, <1>5, <1>6, SubsequenceFacts
    <2>2. QED
      BY <1>3, <1>7, <2>1
  <1>10. Range(order') \subseteq H
    BY <1>8, ElementOfSeq, LenProperties DEF Range
  <1>11. DOMAIN hot' = Range(order') /\ \A h \in Range(order') : hot'[h] = hot[h]
    BY <1>4
  <1>12. order' \in Seq(Tx)
    BY <1>1, <1>8, ElementOfSeq, SeqRetype
  <1>13. \A h \in H : hot[h] \in Tx
    BY DEF CacheTyped, H
  <1>14. CacheTyped'
    BY <1>1, <1>9, <1>10, <1>11, <1>12, <1>13 DEF CacheTyped
  <1>15. QED
    BY <1>10, <1>11, <1>14 DEF H

DiskTyped ==
    /\ file \in Seq(Unit) /\ buf \in Seq(Unit) /\ nextOffset \in Nat
    /\ index \in [Tx -> Nat \cup {NoOffset}]
    /\ blocks \subseteq Tx /\ events \subseteq blocks

PlanTyped ==
    /\ plan \in {"start", "known", "fetch", "done", "failed"}
    /\ known \subseteq Tx /\ gap \subseteq Tx /\ missing \subseteq gap /\ filledTo \in 0..Tip

RestTyped ==
    /\ up \in BOOLEAN /\ at \in 0..Tip /\ now \in Tx
    /\ reader \in [hash : Tx, body : Tx] \cup {NoLookup} /\ indexed \subseteq Tx

Typed == DiskTyped /\ CacheTyped /\ TaskTyped /\ PlanTyped /\ RestTyped

LEMMA TypedIsTypeOK == Typed => TypeOK
  BY DEF Typed, DiskTyped, CacheTyped, TaskTyped, PlanTyped, RestTyped, TypeOK, Unit, Writers,
         Tasks, Steps

LEMMA InitTyped == Init => Typed
  <1> SUFFICES ASSUME Init
               PROVE  Typed
    OBVIOUS
  <1>1. PICK last \in 1..(Tip - 1) : \E first \in 1..(last + 1) :
          /\ blocks = 1..last /\ events = 1..last /\ at = last /\ now = last
          /\ file = Lines(first, last)
    BY DEF Init
  <1>2. PICK first \in 1..(last + 1) : file = Lines(first, last)
    BY <1>1
  <1>3. /\ last \in Nat /\ last >= 1 /\ last < Tip /\ first \in Nat /\ first >= 1 /\ first <= last + 1
        /\ Tip \in Nat
    BY Numbers
  <1>4. file \in Seq(Unit)
    <2> DEFINE len == 3 * (last + 1 - first)
    <2>1. len \in Nat
      BY <1>3
    <2>2. ASSUME NEW n \in 1..len
          PROVE  Line(first + (n - 1) \div 3)[1 + ((n - 1) % 3)] \in Unit
      <3> DEFINE q == (n - 1) \div 3
                 r == (n - 1) % 3
      <3>1. n - 1 \in 0..(len - 1) /\ n - 1 \in Nat
        BY <2>1
      <3>2. q \in Int /\ r \in 0..2 /\ n - 1 = 3 * q + r
        BY <3>1
      <3>3. q >= 0 /\ q < last + 1 - first
        BY <1>3, <3>1, <3>2
      <3> HIDE DEF q, r
      <3>4. first + q \in Tx /\ 1 + r \in 1..3
        BY <1>3, <3>2, <3>3 DEF Tx
      <3>5. Line(first + q) \in Seq(Unit) /\ Len(Line(first + q)) = 3
        BY <3>4, LineFacts
      <3>6. Line(first + q)[1 + r] \in Unit
        BY <3>4, <3>5, ElementOfSeq
      <3>7. QED
        BY <3>6 DEF q, r
    <2>3. file \in [1..len -> Unit]
      BY <1>2, <2>2 DEF Lines
    <2>4. QED
      BY <2>1, <2>3, SeqDef
  <1>5. buf \in Seq(Unit) /\ nextOffset \in Nat /\ index \in [Tx -> Nat \cup {NoOffset}]
    BY DEF Init
  <1>6. blocks \subseteq Tx /\ events \subseteq blocks /\ at \in 0..Tip /\ now \in Tx
    BY <1>1, <1>3 DEF Tx
  <1>7. order = <<>> /\ hot = <<>> /\ indexed = {} /\ reader = NoLookup
    BY DEF Init
  <1>8. CacheTyped
    <2>1. Len(order) = 0 /\ DOMAIN order = {} /\ order \in Seq(Tx) /\ DOMAIN hot = {}
      BY <1>7
    <2>2. QED
      BY <2>1 DEF CacheTyped, IsInjective, Range
  <1>9. TaskTyped
    BY DEF Init, TaskTyped, Writers, Tasks, Steps, Idle
  <1>10. PlanTyped
    BY <1>3 DEF Init, PlanTyped
  <1>11. up \in BOOLEAN
    BY Zenon DEF Init
  <1>12. QED
    BY <1>4, <1>5, <1>6, <1>7, <1>8, <1>9, <1>10, <1>11 DEF Typed, DiskTyped, RestTyped

LEMMA PartOf ==
    ASSUME NEW s \in Seq(Unit), NEW a \in Nat \ {0}, NEW k \in Int, k <= Len(s)
    PROVE  /\ SubSeq(s, a, k) \in Seq(Unit)
           /\ Len(SubSeq(s, a, k)) = IF a <= k THEN k - a + 1 ELSE 0
           /\ \A i \in 1..(k - a + 1) : SubSeq(s, a, k)[i] = s[a + i - 1]
  <1>1. \A i \in a..k : s[i] \in Unit
    <2>1. a..k \subseteq 1..Len(s)
      BY LenProperties
    <2>2. QED
      BY <2>1, ElementOfSeq
  <1>2. QED
    BY <1>1, SubSeqProperties

(* What a task is about to write is a sequence of units that ends a line. *)
LEMMA PendingLine ==
    ASSUME Typed, NEW w \in Tasks, writer[w].pc = "append"
    PROVE  /\ writer[w].tx \in Tx
           /\ buf \o Line(writer[w].tx) \in Seq(Unit)
           /\ Len(buf \o Line(writer[w].tx)) = Len(buf) + 3 /\ Len(buf) \in Nat
           /\ (buf \o Line(writer[w].tx))[Len(buf) + 3] = NL
           /\ \A i \in 1..Len(buf) : (buf \o Line(writer[w].tx))[i] = buf[i]
  <1> DEFINE t == writer[w].tx
  <1>1. t \in Tx /\ buf \in Seq(Unit)
    BY DEF Typed, TaskTyped, DiskTyped
  <1>2. Line(t) \in Seq(Unit) /\ Len(Line(t)) = 3 /\ Line(t)[3] = NL /\ 3 \in 1..3
    BY <1>1, LineFacts
  <1> HIDE DEF t
  <1>3. /\ buf \o Line(t) \in Seq(Unit) /\ Len(buf \o Line(t)) = Len(buf) + Len(Line(t))
        /\ Len(buf) \in Nat
        /\ \A i \in 1..Len(buf) : (buf \o Line(t))[i] = buf[i]
        /\ \A i \in 1..Len(Line(t)) : (buf \o Line(t))[Len(buf) + i] = Line(t)[i]
    BY <1>1, <1>2, GrownFile
  <1>4. QED
    BY <1>1, <1>2, <1>3 DEF t

LEMMA DiskStep ==
    ASSUME Typed, [Next]_vars
    PROVE  DiskTyped' /\ blocks \subseteq blocks'
  <1>1. /\ file \in Seq(Unit) /\ buf \in Seq(Unit) /\ nextOffset \in Nat
        /\ index \in [Tx -> Nat \cup {NoOffset}]
        /\ blocks \subseteq Tx /\ events \subseteq blocks
    BY DEF Typed, DiskTyped
  <1>2. CASE Boot
    <2>1. /\ buf' = <<>> /\ nextOffset' = Len(file) /\ index' = IndexOf(file)
          /\ UNCHANGED diskVars
      BY <1>2 DEF Boot
    <2>2. nextOffset' \in Nat /\ index' \in [Tx -> Nat \cup {NoOffset}]
      BY <1>1, <2>1, IndexFacts, LenProperties
    <2>3. QED
      BY <1>1, <2>1, <2>2 DEF DiskTyped, diskVars
  <1>3. CASE Crash
    <2>1. /\ buf' = <<>> /\ nextOffset' = 0 /\ index' = [t \in Tx |-> NoOffset]
          /\ UNCHANGED <<blocks, events>>
      BY <1>3 DEF Crash
    <2>2. file' \in Seq(Unit)
      <3>1. CASE file' = file
        BY <1>1, <3>1
      <3>2. CASE file' # file
        <4>1. PICK w \in Tasks : /\ writer[w].pc = "append"
                                 /\ \E k \in 1..(Len(buf \o Line(writer[w].tx)) - 1) :
                                       file' = file \o SubSeq(buf \o Line(writer[w].tx), 1, k)
          BY <1>3, <3>2 DEF Crash, Tasks
        <4> DEFINE line == buf \o Line(writer[w].tx)
        <4>2. PICK k \in 1..(Len(line) - 1) : file' = file \o SubSeq(line, 1, k)
          BY <4>1
        <4>3. line \in Seq(Unit) /\ Len(line) \in Nat
          BY <4>1, PendingLine, LenProperties
        <4> HIDE DEF line
        <4>4. SubSeq(line, 1, k) \in Seq(Unit)
          BY <4>3, PartOf
        <4>5. QED
          BY <1>1, <4>2, <4>4, GrownFile
      <3>3. QED
        BY <3>1, <3>2
    <2>3. QED
      BY <1>1, <2>1, <2>2 DEF DiskTyped
  <1>4. ASSUME NEW w \in Tasks, AppendTx(w)
        PROVE  DiskTyped' /\ UNCHANGED <<blocks, events>>
    <2> DEFINE t == writer[w].tx
    <2>1. /\ writer[w].pc = "append" /\ file' = file \o buf \o Line(t) /\ buf' = <<>>
          /\ index' = [index EXCEPT ![t] = nextOffset]
          /\ nextOffset' = nextOffset + Len(Line(t)) /\ UNCHANGED <<blocks, events>>
      BY <1>4 DEF AppendTx, OffsetAfter
    <2>2. t \in Tx
      BY <2>1, PendingLine
    <2> HIDE DEF t
    <2>3. Len(Line(t)) = 3 /\ file \o buf \in Seq(Unit)
      BY <1>1, <2>2, LineFacts, GrownFile
    <2>4. file' \in Seq(Unit)
      BY <2>1, <2>2, <2>3, NewLine
    <2>5. nextOffset' \in Nat
      BY <1>1, <2>1, <2>3
    <2>6. index' \in [Tx -> Nat \cup {NoOffset}]
      BY <1>1, <2>1, <2>2
    <2>7. QED
      BY <1>1, <2>1, <2>4, <2>5, <2>6 DEF DiskTyped
  <1>5. ASSUME NEW w \in Tasks, AppendFails(w)
        PROVE  DiskTyped' /\ UNCHANGED <<blocks, events>>
    <2> DEFINE line == buf \o Line(writer[w].tx)
    <2>1. /\ writer[w].pc = "append" /\ UNCHANGED <<blocks, events, nextOffset, index>>
      BY <1>5 DEF AppendFails
    <2>2. PICK k \in 0..(Len(line) - 1) :
              /\ file' = file \o SubSeq(line, 1, k)
              /\ \/ buf' = SubSeq(line, k + 1, Len(line))
                 \/ buf' = SubSeq(buf, k + 1, Len(buf))
      BY <1>5 DEF AppendFails
    <2>3. line \in Seq(Unit) /\ Len(line) \in Nat /\ Len(buf) \in Nat
      BY <2>1, PendingLine, LenProperties
    <2> HIDE DEF line
    <2>4. SubSeq(line, 1, k) \in Seq(Unit)
      BY <2>3, PartOf
    <2>5. buf' \in Seq(Unit)
      <3>1. k + 1 \in Nat \ {0}
        BY <2>3
      <3>2. /\ SubSeq(line, k + 1, Len(line)) \in Seq(Unit)
            /\ SubSeq(buf, k + 1, Len(buf)) \in Seq(Unit)
        BY <1>1, <2>3, <3>1, PartOf
      <3>3. QED
        BY <2>2, <3>2
    <2>6. file' \in Seq(Unit)
      BY <1>1, <2>2, <2>4, GrownFile
    <2>7. QED
      BY <1>1, <2>1, <2>5, <2>6 DEF DiskTyped
  <1>6. CASE PublishBlock
    <2>1. /\ blocks' = blocks \cup {writer["sync"].tx} /\ writer["sync"].pc = "publish"
          /\ UNCHANGED <<file, events, storeVars>>
      BY <1>6 DEF PublishBlock
    <2>2. writer["sync"].tx \in Tx
      BY <2>1 DEF Typed, TaskTyped, Tasks
    <2>3. QED
      BY <1>1, <2>1, <2>2 DEF DiskTyped, storeVars
  <1>7. CASE PublishTx
    <2>1. /\ events' = events \cup {writer["sync"].tx} /\ writer["sync"].pc = "publish_tx"
          /\ UNCHANGED <<file, blocks, storeVars>>
      BY <1>7 DEF PublishTx
    <2>2. writer["sync"].tx \in blocks
      BY <2>1 DEF Typed, TaskTyped
    <2>3. QED
      BY <1>1, <2>1, <2>2 DEF DiskTyped, storeVars
  <1>8. CASE UNCHANGED <<diskVars, storeVars>>
    BY <1>1, <1>8 DEF DiskTyped, diskVars, storeVars
  <1>9. QED
    <2>1. \/ Boot \/ Crash \/ (\E w \in Tasks : AppendTx(w) \/ AppendFails(w))
          \/ PublishBlock \/ PublishTx \/ UNCHANGED <<diskVars, storeVars>>
      BY DEF Next, vars, CacheTx, Sync, Fill, InsertTx, SyncNext, SyncTrim, Rollback, PlanKnown,
             PlanGap, FillNext, FillTrim, FillFails, FindTx, WarmCache, Tasks
    <2>2. CASE Boot \/ Crash
      BY <1>2, <1>3, <2>2 DEF Boot, Crash, diskVars
    <2>3. CASE PublishBlock \/ PublishTx
      BY <1>6, <1>7, <2>3 DEF PublishBlock, PublishTx
    <2>4. QED
      BY <1>4, <1>5, <1>8, <2>1, <2>2, <2>3 DEF diskVars

LEMMA CacheStep ==
    ASSUME Typed, [Next]_vars
    PROVE  CacheTyped'
  <1>1. CacheTyped
    BY DEF Typed
  <1>2. CASE Boot
    <2>1. order' = Loaded(file) /\ hot' = [t \in Range(order') |-> t]
      BY <1>2 DEF Boot
    <2>2. Loaded(file) \in Seq(Tx) /\ IsInjective(Loaded(file)) /\ Range(Loaded(file)) \subseteq Tx
      BY LoadedFacts DEF Typed, DiskTyped
    <2>3. QED
      BY <2>1, <2>2 DEF CacheTyped
  <1>3. CASE Crash
    <2>1. order' = <<>> /\ hot' = <<>>
      BY <1>3 DEF Crash
    <2>2. Len(order') = 0 /\ DOMAIN order' = {} /\ order' \in Seq(Tx) /\ DOMAIN hot' = {}
      BY <2>1
    <2>3. QED
      BY <2>2 DEF CacheTyped, IsInjective, Range
  <1>4. ASSUME NEW w \in Tasks, InsertTx(w)
        PROVE  CacheTyped'
    <2> DEFINE t == writer[w].tx
    <2>1. /\ writer[w].pc = "insert"
          /\ order' = IF t \in DOMAIN hot THEN order ELSE Append(order, t)
          /\ hot' = [h \in DOMAIN hot \cup {t} |-> IF h = t THEN t ELSE hot[h]]
      BY <1>4 DEF InsertTx
    <2>2. t \in Tx
      BY <2>1 DEF Typed, TaskTyped
    <2> HIDE DEF t
    <2>3. CASE t \in DOMAIN hot
      <3>1. order' = order /\ DOMAIN hot' = DOMAIN hot
        BY <2>1, <2>3
      <3>2. \A h \in DOMAIN hot' : hot'[h] \in Tx
        BY <1>1, <2>1, <2>2, <3>1 DEF CacheTyped
      <3>3. QED
        BY <1>1, <3>1, <3>2 DEF CacheTyped
    <2>4. CASE t \notin DOMAIN hot
      BY <1>1, <2>1, <2>2, <2>4, CacheGrows
    <2>5. QED
      BY <2>3, <2>4
  <1>5. CASE SyncTrim \/ FillTrim
    BY <1>1, <1>5, CacheTrimmed DEF SyncTrim, FillTrim
  <1>6. CASE WarmCache
    <2>1. reader # NoLookup /\ ((InWindow(reader.body) /\ Warm) \/ UNCHANGED cacheVars)
      BY <1>6 DEF WarmCache
    <2>2. reader.hash \in Tx /\ reader.body \in Tx
      BY <2>1 DEF Typed, RestTyped
    <2>3. CASE UNCHANGED cacheVars
      BY <1>1, <2>3 DEF CacheTyped, cacheVars
    <2>4. CASE Warm
      BY <1>1, <2>2, <2>3, <2>4, CacheGrows DEF Warm
    <2>5. QED
      BY <2>1, <2>3, <2>4
  <1>7. CASE UNCHANGED cacheVars
    BY <1>1, <1>7 DEF CacheTyped, cacheVars
  <1>8. QED
    <2>1. \/ Boot \/ Crash \/ (\E w \in Tasks : InsertTx(w)) \/ SyncTrim \/ FillTrim \/ WarmCache
          \/ UNCHANGED cacheVars
      BY DEF Next, vars, CacheTx, Sync, Fill, AppendTx, AppendFails, SyncNext, PublishBlock,
             PublishTx, Rollback, PlanKnown, PlanGap, FillNext, FillFails, FindTx, Tasks
    <2>2. QED
      BY <1>2, <1>3, <1>4, <1>5, <1>6, <1>7, <2>1

LEMMA TaskStep ==
    ASSUME Typed, [Next]_vars
    PROVE  TaskTyped'
  <1>1. TaskTyped /\ blocks \subseteq blocks'
    BY DiskStep DEF Typed
  <1>2. CASE Crash
    BY <1>2 DEF Crash, TaskTyped, Writers, Tasks, Steps, Idle
  <1>3. ASSUME NEW w \in Tasks, AppendTx(w) \/ AppendFails(w) \/ InsertTx(w)
        PROVE  TaskTyped'
    <2>1. PICK pc \in {"insert", "trim"} : Goes(w, pc)
      BY <1>3 DEF AppendTx, AppendFails, InsertTx
    <2>2. writer[w].pc # "idle" /\ pc \in Steps \ {"idle"} /\ pc # "publish_tx"
      BY <1>3, <2>1 DEF AppendTx, AppendFails, InsertTx, Steps
    <2>3. QED
      BY <1>1, <2>1, <2>2, GoesTyped
  <1>4. CASE SyncTrim
    <2>1. writer["sync"].pc # "idle" /\ Goes("sync", "publish")
      BY <1>4 DEF SyncTrim
    <2>2. "publish" \in Steps \ {"idle"} /\ "sync" \in Tasks
      BY DEF Steps, Tasks
    <2>3. QED
      BY <1>1, <2>1, <2>2, GoesTyped
  <1>5. CASE PublishBlock
    <2>1. /\ writer["sync"].pc # "idle" /\ Goes("sync", "publish_tx")
          /\ writer["sync"].tx \in blocks'
      BY <1>5 DEF PublishBlock
    <2>2. "publish_tx" \in Steps \ {"idle"} /\ "sync" \in Tasks
      BY DEF Steps, Tasks
    <2>3. QED
      BY <1>1, <2>1, <2>2, GoesTyped
  <1>6. CASE SyncNext
    <2> DEFINE r == [pc |-> "append", tx |-> at + 1]
    <2>1. writer' = [writer EXCEPT !["sync"] = r] /\ at < Tip
      BY <1>6 DEF SyncNext
    <2>2. at + 1 \in Tx
      BY <2>1, Numbers DEF Typed, RestTyped, Tx
    <2>3. r \in [pc : {"append"}, tx : Tx] /\ "sync" \in Tasks
      BY <2>2 DEF Tasks
    <2> HIDE DEF r
    <2>4. QED
      BY <1>1, <2>1, <2>3, TaskSet
  <1>7. CASE FillNext
    <2> DEFINE r == [pc |-> "append", tx |-> filledTo + 1]
    <2>1. filledTo < Tip /\ (writer' = [writer EXCEPT !["fill"] = r] \/ UNCHANGED writer)
      BY <1>7 DEF FillNext
    <2>2. filledTo + 1 \in Tx
      BY <2>1, Numbers DEF Typed, PlanTyped, Tx
    <2>3. r \in [pc : {"append"}, tx : Tx] /\ "fill" \in Tasks
      BY <2>2 DEF Tasks
    <2> HIDE DEF r
    <2>4. CASE UNCHANGED writer
      BY <1>1, <2>4 DEF TaskTyped
    <2>5. QED
      BY <1>1, <2>1, <2>3, <2>4, TaskSet
  <1>8. CASE PublishTx
    <2>1. writer' = [writer EXCEPT !["sync"] = Idle] /\ "sync" \in Tasks
      BY <1>8 DEF PublishTx, Tasks
    <2>2. QED
      BY <1>1, <2>1, TaskSet
  <1>9. CASE FillTrim
    <2>1. writer' = [writer EXCEPT !["fill"] = Idle] /\ "fill" \in Tasks
      BY <1>9 DEF FillTrim, Tasks
    <2>2. QED
      BY <1>1, <2>1, TaskSet
  <1>10. CASE UNCHANGED writer
    BY <1>1, <1>10 DEF TaskTyped
  <1>11. QED
    <2>1. \/ Crash \/ (\E w \in Tasks : AppendTx(w) \/ AppendFails(w) \/ InsertTx(w)) \/ SyncTrim
          \/ PublishBlock \/ SyncNext \/ FillNext \/ PublishTx \/ FillTrim \/ UNCHANGED writer
      BY DEF Next, vars, CacheTx, Sync, Fill, Boot, Rollback, PlanKnown, PlanGap, FillFails, FindTx,
             WarmCache, Tasks
    <2>2. QED
      BY <1>2, <1>3, <1>4, <1>5, <1>6, <1>7, <1>8, <1>9, <1>10, <2>1

LEMMA PlanStep ==
    ASSUME Typed, [Next]_vars
    PROVE  PlanTyped'
  <1>1. PlanTyped
    BY DEF Typed
  <1>2. CASE Boot
    BY <1>1, <1>2 DEF Boot, PlanTyped
  <1>3. CASE Crash
    BY <1>3, Numbers DEF Crash, PlanTyped
  <1>4. CASE PlanKnown
    BY <1>1, <1>4 DEF PlanKnown, PlanTyped, Known
  <1>5. CASE PlanGap
    <2>1. /\ gap' = Gap /\ missing' = Gap /\ known' = {}
          /\ \/ plan' = "done" /\ filledTo' = filledTo
             \/ Gap # {} /\ plan' = "fetch" /\ filledTo' = ResumeBlock(Gap)
      BY <1>5 DEF PlanGap
    <2>2. Gap \subseteq events /\ events \subseteq blocks /\ blocks \subseteq Tx
      BY DEF Gap, Typed, DiskTyped
    <2>3. ASSUME Gap # {}
          PROVE  ResumeBlock(Gap) \in 0..Tip
      <3> DEFINE below == {b \in blocks : b <= Min(Gap)}
                 S == IF below = {} THEN blocks ELSE below
      <3>1. blocks # {} /\ S # {} /\ S \subseteq blocks
        BY <2>2, <2>3
      <3>2. S \in SUBSET (0..Tip)
        <4>1. Tx \subseteq 0..Tip
          BY Numbers DEF Tx
        <4>2. QED
          BY <2>2, <3>1, <4>1
      <3>3. ResumeBlock(Gap) = Max(S)
        BY DEF ResumeBlock
      <3> HIDE DEF S
      <3>4. Max(S) \in S
        BY <3>1, <3>2, MaxOfTxs
      <3>5. QED
        BY <3>2, <3>3, <3>4
    <2>4. QED
      BY <1>1, <2>1, <2>2, <2>3 DEF PlanTyped
  <1>6. ASSUME NEW t, Filled(t), known' = known, gap' = gap, filledTo' \in 0..Tip
        PROVE  PlanTyped'
    BY <1>1, <1>6 DEF Filled, PlanTyped
  <1>7. CASE FillNext
    <2>1. filledTo < Tip /\ filledTo' = filledTo + 1 /\ known' = known /\ gap' = gap
      BY <1>7 DEF FillNext
    <2>2. filledTo' \in 0..Tip
      BY <1>1, <2>1, Numbers DEF PlanTyped
    <2>3. Filled(filledTo + 1) \/ UNCHANGED <<missing, plan>>
      BY <1>7 DEF FillNext
    <2>4. QED
      BY <1>1, <1>6, <2>1, <2>2, <2>3 DEF PlanTyped
  <1>8. CASE FillTrim
    BY <1>1, <1>6, <1>8 DEF FillTrim, PlanTyped
  <1>9. CASE FillFails
    BY <1>1, <1>9 DEF FillFails, PlanTyped
  <1>10. CASE UNCHANGED planVars
    BY <1>1, <1>10 DEF PlanTyped, planVars
  <1>11. QED
    <2>1. \/ Boot \/ Crash \/ PlanKnown \/ PlanGap \/ FillNext \/ FillTrim \/ FillFails
          \/ UNCHANGED planVars
      BY DEF Next, vars, CacheTx, Sync, Fill, AppendTx, AppendFails, InsertTx, SyncNext, SyncTrim,
             PublishBlock, PublishTx, Rollback, FindTx, WarmCache
    <2>2. QED
      BY <1>2, <1>3, <1>4, <1>5, <1>7, <1>8, <1>9, <1>10, <2>1

LEMMA RestStep ==
    ASSUME Typed, [Next]_vars
    PROVE  RestTyped'
  <1>1. /\ up \in BOOLEAN /\ at \in 0..Tip /\ now \in Tx
        /\ reader \in [hash : Tx, body : Tx] \cup {NoLookup} /\ indexed \subseteq Tx
    BY DEF Typed, RestTyped
  <1>2. up' \in BOOLEAN
    <2>1. up' = TRUE \/ up' = FALSE \/ up' = up
      BY Zenon DEF Next, vars, CacheTx, Sync, Fill, Boot, Crash, AppendTx, AppendFails, InsertTx,
             SyncNext, SyncTrim, PublishBlock, PublishTx, Rollback, PlanKnown, PlanGap, FillNext,
             FillTrim, FillFails, FindTx, WarmCache
    <2>2. QED
      BY <1>1, <2>1, Zenon
  <1>3. at' \in 0..Tip
    <2>1. CASE Boot
      <3>1. at' = Max(blocks \cup {0}) /\ blocks \cup {0} \in SUBSET (0..Tip)
        BY <2>1, Numbers DEF Boot, Typed, DiskTyped, Tx
      <3>2. Max(blocks \cup {0}) \in blocks \cup {0}
        BY <3>1, MaxOfTxs
      <3>3. QED
        BY <3>1, <3>2
    <2>2. CASE PublishTx
      <3>1. at' = writer["sync"].tx /\ writer["sync"].tx \in Tx
        BY <2>2 DEF PublishTx, Typed, TaskTyped, Tasks
      <3>2. QED
        BY <3>1, Numbers DEF Tx
    <2>3. CASE Rollback
      BY <1>1, <2>3, Numbers DEF Rollback
    <2>4. Boot \/ PublishTx \/ Rollback \/ at' = at
      BY Zenon DEF Next, vars, CacheTx, Sync, Fill, Crash, AppendTx, AppendFails, InsertTx,
             SyncNext, SyncTrim, PublishBlock, PlanKnown, PlanGap, FillNext,
             FillTrim, FillFails, FindTx, WarmCache
    <2>5. QED
      BY <1>1, <2>1, <2>2, <2>3, <2>4
  <1>4. now' \in Tx
    <2>1. CASE SyncNext
      <3>1. now' = Max({now, at + 1}) /\ at < Tip
        BY <2>1 DEF SyncNext
      <3>2. {now, at + 1} \in SUBSET (0..Tip) /\ at + 1 \in Tx
        BY <1>1, <3>1, Numbers DEF Tx
      <3>3. Max({now, at + 1}) \in {now, at + 1}
        BY <3>2, MaxOfTxs
      <3>4. QED
        BY <1>1, <3>1, <3>2, <3>3
    <2>2. SyncNext \/ now' = now
      BY Zenon DEF Next, vars, CacheTx, Sync, Fill, Boot, Crash, AppendTx, AppendFails, InsertTx,
             SyncTrim, PublishBlock, PublishTx, Rollback, PlanKnown, PlanGap, FillNext,
             FillTrim, FillFails, FindTx, WarmCache
    <2>3. QED
      BY <1>1, <2>1, <2>2
  <1>5. reader' \in [hash : Tx, body : Tx] \cup {NoLookup}
    <2>1. ASSUME NEW h \in Tx, FindTx(h)
          PROVE  reader' \in [hash : Tx, body : Tx] \cup {NoLookup}
      <3>1. reader' = [hash |-> h, body |-> BodyAt(file, index[h])] /\ BodyAt(file, index[h]) # NoTx
        BY <2>1 DEF FindTx
      <3>2. BodyAt(file, index[h]) \in Tx
        BY <3>1 DEF BodyAt
      <3>3. QED
        BY <3>1, <3>2
    <2>2. (\E h \in Tx : FindTx(h)) \/ reader' = NoLookup \/ reader' = reader
      BY Zenon DEF Next, vars, CacheTx, Sync, Fill, Boot, Crash, AppendTx, AppendFails, InsertTx,
             SyncNext, SyncTrim, PublishBlock, PublishTx, Rollback, PlanKnown, PlanGap, FillNext,
             FillTrim, FillFails, WarmCache
    <2>3. QED
      BY <1>1, <2>1, <2>2
  <1>6. indexed' \subseteq Tx
    <2>1. CASE Boot
      BY <1>1, <2>1 DEF Boot, Known
    <2>2. ASSUME NEW w \in Tasks, AppendTx(w)
          PROVE  indexed' \subseteq Tx
      BY <1>1, <2>2, PendingLine DEF AppendTx
    <2>3. Boot \/ (\E w \in Tasks : AppendTx(w)) \/ indexed' = indexed
      BY Zenon DEF Next, vars, historyVars, CacheTx, Sync, Fill, Crash, AppendFails, InsertTx,
             SyncNext, SyncTrim, PublishBlock, PublishTx, Rollback, PlanKnown, PlanGap, FillNext,
             FillTrim, FillFails, FindTx, WarmCache, Tasks
    <2>4. QED
      BY <1>1, <2>1, <2>2, <2>3
  <1>7. QED
    BY <1>2, <1>3, <1>4, <1>5, <1>6 DEF RestTyped

LEMMA StepTyped == Typed /\ [Next]_vars => Typed'
  BY DiskStep, CacheStep, TaskStep, PlanStep, RestStep DEF Typed

(* Types; and the queue of the hot cache lists each cached hash once, while *)
(* two tasks and the lookups fill and trim it, each under its own lock      *)
(* (cache_tx, get_tx).                                                      *)
THEOREM TypeCorrect == Spec => []TypeOK
  BY InitTyped, StepTyped, TypedIsTypeOK, PTL DEF Spec

-----------------------------------------------------------------------------
(* While the file is open and no write has failed, the store knows its      *)
(* length and every index entry points at the start of its own body.        *)

Cached == {"insert", "trim", "publish", "publish_tx"}

EntryIsRight(t) ==
    /\ index[t] \in Nat /\ index[t] + 2 <= Len(file)
    /\ file[index[t] + 1] = <<t, 1>> /\ file[index[t] + 2] = <<t, 2>>

StoreIsOpen ==
    /\ buf = <<>> /\ nextOffset = Len(file)
    /\ \A t \in Known(index) : EntryIsRight(t)

CacheIsRight ==
    /\ \A h \in DOMAIN hot : hot[h] = h
    /\ reader.body = reader.hash

(* What a task has cached is indexed, and so is what the plan takes for     *)
(* known; later, what is neither indexed nor missing has no event.          *)
NothingForgotten ==
    /\ \A w \in Tasks : writer[w].pc \in Cached => writer[w].tx \in Known(index)
    /\ plan = "known" => known \subseteq Known(index)
    /\ plan \in {"fetch", "done", "failed"} => events \subseteq Known(index) \cup missing

Idles == reader = NoLookup /\ \A w \in Tasks : writer[w] = Idle

(* The backfill writes only while it fetches. *)
FillFetches == writer["fill"] # Idle => plan = "fetch"

OpenInv ==
    /\ up /\ ~dirty => StoreIsOpen /\ CacheIsRight /\ NothingForgotten
    /\ ~up => Idles
    /\ FillFetches

(* The file is open and sound after a step only if it was before, or has    *)
(* just been opened.                                                        *)
LEMMA StillOpen ==
    ASSUME [Next]_vars, up', ~dirty'
    PROVE  \/ Boot
           \/ up /\ ~dirty /\ ~Boot /\ ~Crash /\ ~\E w \in Tasks : AppendFails(w)
  <1>1. ~Crash
    BY Zenon DEF Crash
  <1>2. ~\E w \in Tasks : AppendFails(w)
    BY Zenon DEF AppendFails
  <1>3. Boot \/ up
    BY <1>1, <1>2, Zenon DEF Next, vars, CacheTx, Sync, Fill, AppendTx, AppendFails, InsertTx,
           SyncNext, SyncTrim, PublishBlock, PublishTx, Rollback, PlanKnown, PlanGap, FillNext,
           FillTrim, FillFails, FindTx, WarmCache, Tasks
  <1>4. Boot \/ dirty' = dirty
    BY <1>1, <1>2, Zenon DEF Next, vars, historyVars, CacheTx, Sync, Fill, AppendTx, AppendFails,
           InsertTx, SyncNext, SyncTrim, PublishBlock, PublishTx, Rollback, PlanKnown, PlanGap,
           FillNext, FillTrim, FillFails, FindTx, WarmCache, Tasks
  <1>5. QED
    BY <1>1, <1>2, <1>3, <1>4, Zenon

(* An entry stays right when the file grows. *)
LEMMA EntryStays ==
    ASSUME Typed, NEW t \in Known(index), EntryIsRight(t), NEW g \in Seq(Unit),
           file' = file \o g, index'[t] = index[t]
    PROVE  EntryIsRight(t)'
  <1>1. /\ Len(file') = Len(file) + Len(g) /\ Len(file) \in Nat /\ Len(g) \in Nat
        /\ \A i \in 1..Len(file) : file'[i] = file[i]
    BY GrownFile DEF Typed, DiskTyped
  <1>2. /\ index[t] \in Nat /\ index[t] + 2 <= Len(file)
        /\ file[index[t] + 1] = <<t, 1>> /\ file[index[t] + 2] = <<t, 2>>
    BY DEF EntryIsRight
  <1>3. index[t] + 1 \in 1..Len(file) /\ index[t] + 2 \in 1..Len(file) /\ index[t] + 2 <= Len(file')
    BY <1>1, <1>2
  <1>4. QED
    BY <1>1, <1>2, <1>3 DEF EntryIsRight

LEMMA AppendKeepsOpen ==
    ASSUME Typed, StoreIsOpen, NEW w \in Tasks, AppendTx(w), NEW t, t = writer[w].tx
    PROVE  /\ StoreIsOpen' /\ Known(index') = Known(index) \cup {t}
           /\ file' = file \o Line(t) /\ index'[t] = Len(file)
           /\ \A u \in Tx \ {t} : index'[u] = index[u]
  <1>1. /\ writer[w].pc = "append" /\ file' = file \o buf \o Line(t) /\ buf' = <<>>
        /\ index' = [index EXCEPT ![t] = nextOffset]
        /\ nextOffset' = nextOffset + Len(Line(t))
    BY DEF AppendTx, OffsetAfter
  <1>2. t \in Tx /\ file \in Seq(Unit) /\ index \in [Tx -> Nat \cup {NoOffset}]
    BY <1>1, PendingLine DEF Typed, DiskTyped
  <1>3. buf = <<>> /\ nextOffset = Len(file) /\ \A u \in Known(index) : EntryIsRight(u)
    BY DEF StoreIsOpen
  <1>4. file \o buf = file
    BY <1>2, <1>3, ConcatEmptySeq
  <1>5. file' = file \o Line(t)
    BY <1>1, <1>4
  <1>6. /\ Line(t) \in Seq(Unit) /\ Len(Line(t)) = 3
        /\ Line(t)[1] = <<t, 1>> /\ Line(t)[2] = <<t, 2>>
    BY <1>2, LineFacts
  <1>7. Len(file) \in Nat /\ Len(file') = Len(file) + 3
    <2>1. Len(file \o Line(t)) = Len(file) + Len(Line(t)) /\ Len(file) \in Nat
      BY <1>2, <1>6, GrownFile
    <2>2. QED
      BY <1>5, <1>6, <2>1
  <1>8. index'[t] = Len(file) /\ \A u \in Tx \ {t} : index'[u] = index[u]
    BY <1>1, <1>2, <1>3
  <1>9. Known(index') = Known(index) \cup {t}
    <2>1. NoOffset \notin Nat
      BY DEF NoOffset
    <2>2. \A u \in Tx : u \in Known(index') <=> u \in Known(index) \/ u = t
      BY <1>2, <1>7, <1>8, <2>1 DEF Known
    <2>3. QED
      BY <1>2, <2>2 DEF Known
  <1>10. EntryIsRight(t)'
    <2>1. Holds(file', Len(file), t)
      BY <1>2, <1>5, NewLine
    <2>2. QED
      BY <1>7, <1>8, <2>1 DEF EntryIsRight, Holds
  <1>11. ASSUME NEW u \in Known(index), u # t
         PROVE  EntryIsRight(u)'
    <2>1. index'[u] = index[u] /\ EntryIsRight(u)
      BY <1>3, <1>8, <1>11 DEF Known
    <2>2. QED
      BY <1>5, <1>6, <2>1, EntryStays
  <1>12. buf' = <<>> /\ nextOffset' = Len(file')
    BY <1>1, <1>3, <1>6, <1>7
  <1>13. StoreIsOpen'
    BY <1>9, <1>10, <1>11, <1>12 DEF StoreIsOpen
  <1>14. QED
    BY <1>5, <1>8, <1>9, <1>13

(* find_tx never returns the body of another transaction. *)
LEMMA EntryFindsOwn ==
    ASSUME Typed, NEW t \in Known(index), EntryIsRight(t)
    PROVE  BodyAt(file, index[t]) \in {t, NoTx}
  <1>1. file \in Seq(Unit) /\ Len(file) \in Nat
    BY LenProperties DEF Typed, DiskTyped
  <1>2. index[t] \in 0..Len(file) /\ file[index[t] + 1] = <<t, 1>>
    BY <1>1 DEF EntryIsRight
  <1>3. BodyAt(file, index[t]) # NoTx => file[index[t] + 1] = <<BodyAt(file, index[t]), 1>>
    BY <1>1, <1>2, BodyAtIs
  <1>4. QED
    BY <1>2, <1>3

LEMMA StepStoreIsOpen ==
    ASSUME Typed, OpenInv, [Next]_vars, up', ~dirty'
    PROVE  StoreIsOpen' /\ (Boot \/ Known(index) \subseteq Known(index'))
  <1>1. CASE Boot
    <2>1. buf' = <<>> /\ nextOffset' = Len(file') /\ index' = IndexOf(file) /\ file' = file
      BY <1>1 DEF Boot, diskVars
    <2>2. ASSUME NEW t \in Known(index')
          PROVE  EntryIsRight(t)'
      <3>1. file \in Seq(Unit) /\ Len(file) \in Nat
        BY LenProperties DEF Typed, DiskTyped
      <3>2. t \in Sound(file)
        BY <2>1, <3>1, IndexFacts
      <3>3. index'[t] \in 0..Len(file) /\ Holds(file, index'[t], t)
        BY <2>1, <3>1, <3>2, IndexFacts
      <3>4. QED
        BY <2>1, <3>1, <3>3 DEF EntryIsRight, Holds
    <2>3. QED
      BY <1>1, <2>1, <2>2 DEF StoreIsOpen
  <1>2. CASE ~Boot
    <2>1. up /\ ~dirty /\ ~Crash /\ ~\E w \in Tasks : AppendFails(w)
      BY <1>2, StillOpen
    <2>2. StoreIsOpen
      BY <2>1, Zenon DEF OpenInv
    <2>3. ASSUME NEW w \in Tasks, AppendTx(w)
          PROVE  StoreIsOpen' /\ Known(index) \subseteq Known(index')
      <3>1. PICK t : t = writer[w].tx
        OBVIOUS
      <3>2. QED
        BY <2>2, <2>3, <3>1, AppendKeepsOpen
    <2>4. CASE UNCHANGED <<file, storeVars>>
      BY <2>2, <2>4 DEF StoreIsOpen, EntryIsRight, storeVars
    <2>5. (\E w \in Tasks : AppendTx(w)) \/ UNCHANGED <<file, storeVars>>
      BY <1>2, <2>1 DEF Next, vars, diskVars, CacheTx, Sync, Fill, InsertTx, SyncNext, SyncTrim,
             PublishBlock, PublishTx, Rollback, PlanKnown, PlanGap, FillNext, FillTrim, FillFails,
             FindTx, WarmCache, Tasks
    <2>6. QED
      BY <2>3, <2>4, <2>5 DEF storeVars
  <1>3. QED
    BY <1>1, <1>2

LEMMA StepCacheIsRight ==
    ASSUME Typed, OpenInv, [Next]_vars, up', ~dirty'
    PROVE  CacheIsRight'
  <1>1. CASE Boot
    <2>1. hot' = [t \in Range(order') |-> t] /\ reader' = reader /\ ~up
      BY <1>1, Zenon DEF Boot
    <2>2. reader = NoLookup
      BY <2>1, Zenon DEF OpenInv, Idles
    <2>3. QED
      BY <2>1, <2>2 DEF CacheIsRight, NoLookup
  <1>2. CASE ~Boot
    <2>1. up /\ ~dirty /\ ~Crash
      BY <1>2, StillOpen
    <2>2. StoreIsOpen /\ CacheIsRight
      BY <2>1, Zenon DEF OpenInv
    <2>3. ASSUME NEW w \in Tasks, InsertTx(w)
          PROVE  CacheIsRight'
      <3>1. PICK t : t = writer[w].tx
        OBVIOUS
      <3>2. /\ hot' = [h \in DOMAIN hot \cup {t} |-> IF h = t THEN t ELSE hot[h]]
            /\ reader' = reader
        BY <2>3, <3>1 DEF InsertTx
      <3>3. QED
        BY <2>2, <3>2 DEF CacheIsRight
    <2>4. CASE SyncTrim \/ FillTrim
      <3>1. TrimHot /\ reader' = reader /\ CacheTyped
        BY <2>4 DEF SyncTrim, FillTrim, Typed
      <3>2. DOMAIN hot' \subseteq DOMAIN hot /\ \A h \in DOMAIN hot' : hot'[h] = hot[h]
        BY <3>1, CacheTrimmed
      <3>3. QED
        BY <2>2, <3>1, <3>2 DEF CacheIsRight
    <2>5. ASSUME NEW h \in Tx, FindTx(h)
          PROVE  CacheIsRight'
      <3>1. /\ h \in Known(index) /\ BodyAt(file, index[h]) # NoTx /\ UNCHANGED cacheVars
            /\ reader' = [hash |-> h, body |-> BodyAt(file, index[h])]
        BY <2>5 DEF FindTx
      <3>2. BodyAt(file, index[h]) = h
        BY <2>2, <3>1, EntryFindsOwn DEF StoreIsOpen
      <3>3. QED
        BY <2>2, <3>1, <3>2 DEF CacheIsRight, cacheVars
    <2>6. CASE WarmCache
      <3>1. /\ reader' = NoLookup
            /\ \/ UNCHANGED cacheVars
               \/ hot' = [h \in DOMAIN hot \cup {reader.hash} |->
                              IF h = reader.hash THEN reader.body ELSE hot[h]]
        BY <2>6 DEF WarmCache, Warm
      <3>2. \A h \in DOMAIN hot' : hot'[h] = h
        BY <2>2, <3>1 DEF CacheIsRight, cacheVars
      <3>3. QED
        BY <3>1, <3>2 DEF CacheIsRight, NoLookup
    <2>7. CASE UNCHANGED <<cacheVars, reader>>
      BY <2>2, <2>7 DEF CacheIsRight, cacheVars
    <2>8. \/ \E w \in Tasks : InsertTx(w)
          \/ SyncTrim \/ FillTrim \/ WarmCache
          \/ \E h \in Tx : FindTx(h)
          \/ \E w \in Tasks : AppendFails(w)
          \/ UNCHANGED <<cacheVars, reader>>
      BY <1>2, <2>1 DEF Next, vars, CacheTx, Sync, Fill, AppendTx, SyncNext,
             PublishBlock, PublishTx, Rollback, PlanKnown, PlanGap, FillNext, FillFails, Tasks
    <2>9. ~\E w \in Tasks : AppendFails(w)
      BY <1>2, StillOpen
    <2>10. QED
      BY <2>3, <2>4, <2>5, <2>6, <2>7, <2>8, <2>9
  <1>3. QED
    BY <1>1, <1>2

(* What is indexed stays so, and the plan forgets a body only once it is    *)
(* indexed or was not on its list.                                          *)
LEMMA StepNothingForgotten ==
    ASSUME Typed, OpenInv, [Next]_vars, up', ~dirty'
    PROVE  NothingForgotten'
  <1>1. CASE Boot
    <2>1. plan' = "start" /\ writer' = writer /\ ~up
      BY <1>1, Zenon DEF Boot
    <2>2. \A w \in Tasks : writer[w] = Idle
      BY <2>1, Zenon DEF OpenInv, Idles
    <2>3. QED
      BY <2>1, <2>2 DEF NothingForgotten, Idle, Cached
  <1>2. CASE ~Boot
    <2>1. up /\ ~dirty /\ ~Crash /\ ~\E w \in Tasks : AppendFails(w)
      BY <1>2, StillOpen
    <2>2. StoreIsOpen /\ NothingForgotten
      BY <2>1, Zenon DEF OpenInv
    <2>3. Known(index) \subseteq Known(index')
      BY <1>2, StepStoreIsOpen
    <2>4. \A w \in Tasks : writer'[w].pc \in Cached => writer'[w].tx \in Known(index')
      <3>1. writer \in Writers /\ \A w \in Tasks : writer[w].pc \in Cached => writer[w].tx \in Known(index)
        BY <2>2 DEF NothingForgotten, Typed, TaskTyped
      <3>2. ASSUME NEW w \in Tasks, AppendTx(w)
            PROVE  \A v \in Tasks : writer'[v].pc \in Cached => writer'[v].tx \in Known(index')
        <4>1. PICK t : t = writer[w].tx
          OBVIOUS
        <4>2. t \in Known(index')
          BY <2>2, <3>2, <4>1, AppendKeepsOpen
        <4>3. Goes(w, "insert") /\ "insert" \in Steps
          BY <3>2 DEF AppendTx, Steps
        <4>4. writer'[w].tx = writer[w].tx /\ \A v \in Tasks : v # w => writer'[v] = writer[v]
          BY <3>1, <4>3, GoesOn
        <4>5. QED
          BY <2>3, <3>1, <4>1, <4>2, <4>4
      <3>3. ASSUME NEW w \in Tasks, NEW pc \in Steps, Goes(w, pc), writer[w].pc \in Cached
            PROVE  \A v \in Tasks : writer'[v].pc \in Cached => writer'[v].tx \in Known(index')
        <4>1. writer'[w].tx = writer[w].tx /\ \A v \in Tasks : v # w => writer'[v] = writer[v]
          BY <3>1, <3>3, GoesOn
        <4>2. QED
          BY <2>3, <3>1, <3>3, <4>1
      <3>4. ASSUME NEW w \in Tasks, NEW r, writer' = [writer EXCEPT ![w] = r], r.pc \notin Cached
            PROVE  \A v \in Tasks : writer'[v].pc \in Cached => writer'[v].tx \in Known(index')
        <4>1. writer'[w] = r /\ \A v \in Tasks : v # w => writer'[v] = writer[v]
          BY <3>1, <3>4 DEF Writers
        <4>2. QED
          BY <2>3, <3>1, <3>4, <4>1
      <3>5. ASSUME NEW w \in Tasks, InsertTx(w)
            PROVE  \A v \in Tasks : writer'[v].pc \in Cached => writer'[v].tx \in Known(index')
        <4>1. Goes(w, "trim") /\ "trim" \in Steps /\ writer[w].pc \in Cached
          BY <3>5 DEF InsertTx, Steps, Cached
        <4>2. QED
          BY <3>3, <4>1
      <3>6. CASE SyncTrim
        <4>1. Goes("sync", "publish") /\ "publish" \in Steps /\ writer["sync"].pc \in Cached /\ "sync" \in Tasks
          BY <3>6 DEF SyncTrim, Steps, Cached, Tasks
        <4>2. QED
          BY <3>3, <4>1
      <3>7. CASE PublishBlock
        <4>1. Goes("sync", "publish_tx") /\ "publish_tx" \in Steps /\ writer["sync"].pc \in Cached /\ "sync" \in Tasks
          BY <3>7 DEF PublishBlock, Steps, Cached, Tasks
        <4>2. QED
          BY <3>3, <4>1
      <3>8. CASE PublishTx \/ FillTrim
        <4>1. \E w \in Tasks : writer' = [writer EXCEPT ![w] = Idle]
          BY <3>8 DEF PublishTx, FillTrim, Tasks
        <4>2. Idle.pc \notin Cached
          BY DEF Idle, Cached
        <4>3. QED
          BY <3>4, <4>1, <4>2
      <3>9. CASE SyncNext \/ FillNext
        <4>1. \/ \E w \in Tasks : \E t : writer' = [writer EXCEPT ![w] = [pc |-> "append", tx |-> t]]
              \/ writer' = writer
          BY <3>9 DEF SyncNext, FillNext, Tasks
        <4>2. \A t : [pc |-> "append", tx |-> t].pc \notin Cached
          BY DEF Cached
        <4>3. QED
          BY <2>3, <3>1, <3>4, <4>1, <4>2
      <3>10. CASE writer' = writer
        BY <2>3, <3>1, <3>10
      <3>11. \/ \E w \in Tasks : AppendTx(w) \/ InsertTx(w)
             \/ SyncTrim \/ PublishBlock \/ PublishTx \/ FillTrim \/ SyncNext \/ FillNext
             \/ writer' = writer
        BY <1>2, <2>1 DEF Next, vars, CacheTx, Sync, Fill, Rollback, PlanKnown, PlanGap, FillFails,
               FindTx, WarmCache, Tasks
      <3>12. QED
        BY <3>2, <3>5, <3>6, <3>7, <3>8, <3>9, <3>10, <3>11
    <2>5. plan' = "known" => known' \subseteq Known(index')
      <3>1. CASE PlanKnown
        BY <2>3, <3>1 DEF PlanKnown
      <3>2. plan' = "known" => PlanKnown \/ (plan = "known" /\ known' = known)
        BY <1>2, <2>1 DEF Next, vars, planVars, CacheTx, Sync, Fill, AppendTx, InsertTx, SyncNext,
               SyncTrim, PublishBlock, PublishTx, Rollback, PlanGap, FillNext, FillTrim, FillFails,
               FindTx, WarmCache, Tasks, Filled
      <3>3. QED
        BY <2>2, <2>3, <3>1, <3>2 DEF NothingForgotten
    <2>6. plan' \in {"fetch", "done", "failed"} => events' \subseteq Known(index') \cup missing'
      <3>1. CASE PlanGap
        <4>1. missing' = events \ known /\ events' = events /\ plan = "known"
          BY <3>1 DEF PlanGap, Gap, diskVars
        <4>2. QED
          BY <2>2, <2>3, <4>1 DEF NothingForgotten
      <3>2. ASSUME NEW t \in Known(index) \cup (Tx \ missing), Filled(t), events' = events,
                   plan = "fetch" \/ plan' = plan
            PROVE  plan' \in {"fetch", "done", "failed"} => events' \subseteq Known(index') \cup missing'
        <4>1. missing' = missing \ {t}
          BY <3>2 DEF Filled
        <4>2. plan' \in {"fetch", "done", "failed"} => plan \in {"fetch", "done", "failed"}
          BY <3>2
        <4>3. QED
          BY <2>2, <2>3, <3>2, <4>1, <4>2 DEF NothingForgotten
      <3>3. CASE FillNext
        <4>1. PICK t : t = filledTo + 1
          OBVIOUS
        <4>2. /\ plan = "fetch" /\ events' = events
              /\ \/ Filled(t) /\ ~(t \in missing /\ t \notin Known(index))
                 \/ UNCHANGED <<missing, plan>>
          BY <3>3, <4>1 DEF FillNext, diskVars
        <4>3. t \in Tx
          <5>1. filledTo < Tip /\ filledTo \in 0..Tip
            BY <3>3 DEF FillNext, Typed, PlanTyped
          <5>2. QED
            BY <4>1, <5>1, Numbers DEF Tx
        <4>4. QED
          BY <2>2, <2>3, <3>2, <4>2, <4>3 DEF NothingForgotten
      <3>4. CASE FillTrim
        <4>1. PICK t : t = writer["fill"].tx
          OBVIOUS
        <4>2. /\ writer["fill"].pc \in Cached /\ events' = events /\ Filled(t)
          BY <3>4, <4>1 DEF FillTrim, diskVars, Cached
        <4>3. t \in Known(index)
          BY <2>2, <4>1, <4>2 DEF NothingForgotten, Tasks
        <4>4. missing' = missing \ {t}
          BY <4>2 DEF Filled
        <4>5. plan = "fetch"
          <5>1. writer["fill"] # Idle
            BY <4>2, SMT DEF Idle, Cached
          <5>2. QED
            BY <5>1, Zenon DEF OpenInv, FillFetches
        <4>6. QED
          BY <2>2, <2>3, <4>2, <4>3, <4>4, <4>5 DEF NothingForgotten
      <3>5. CASE FillFails
        <4>1. plan = "fetch" /\ events' = events /\ missing' = missing
          BY <3>5 DEF FillFails, diskVars
        <4>2. QED
          BY <2>2, <2>3, <4>1 DEF NothingForgotten
      <3>6. CASE PublishTx
        <4>1. /\ events' = events \cup {writer["sync"].tx} /\ writer["sync"].pc \in Cached
              /\ plan' = plan /\ missing' = missing
          BY <3>6 DEF PublishTx, planVars, Cached
        <4>2. writer["sync"].tx \in Known(index)
          BY <2>2, <4>1 DEF NothingForgotten, Tasks
        <4>3. QED
          BY <2>2, <2>3, <4>1, <4>2 DEF NothingForgotten
      <3>7. CASE UNCHANGED <<events, plan, missing>>
        BY <2>2, <2>3, <3>7 DEF NothingForgotten
      <3>8. PlanKnown => plan' \notin {"fetch", "done", "failed"}
        BY DEF PlanKnown
      <3>9. \/ PlanGap \/ PlanKnown \/ FillNext \/ FillTrim \/ FillFails \/ PublishTx
            \/ UNCHANGED <<events, plan, missing>>
        BY <1>2, <2>1 DEF Next, vars, diskVars, planVars, CacheTx, Sync, Fill, AppendTx, InsertTx,
               SyncNext, SyncTrim, PublishBlock, Rollback, FindTx, WarmCache, Tasks
      <3>10. QED
        BY <3>1, <3>3, <3>4, <3>5, <3>6, <3>7, <3>8, <3>9
    <2>7. QED
      BY <2>4, <2>5, <2>6 DEF NothingForgotten
  <1>3. QED
    BY <1>1, <1>2

(* A process that is down has no task under way. *)
LEMMA StepIdles ==
    ASSUME Typed, OpenInv, [Next]_vars, ~up'
    PROVE  Idles'
  <1>1. CASE Crash
    BY <1>1 DEF Crash, Idles, Tasks
  <1>2. CASE ~Crash
    <2>1. UNCHANGED vars
      <3>1. CASE Boot
        BY <3>1 DEF Boot
      <3>2. CASE CacheTx
        BY <3>2 DEF CacheTx, AppendTx, AppendFails, InsertTx
      <3>3. CASE Sync \/ Rollback
        BY <3>3 DEF Sync, SyncNext, SyncTrim, PublishBlock, PublishTx, Rollback
      <3>4. CASE Fill \/ FillFails
        BY <3>4 DEF Fill, PlanKnown, PlanGap, FillNext, FillTrim, FillFails
      <3>5. CASE (\E h \in Tx : FindTx(h)) \/ WarmCache
        BY <3>5 DEF FindTx, WarmCache
      <3>6. QED
        BY <1>2, <3>1, <3>2, <3>3, <3>4, <3>5, Zenon DEF Next
    <2>2. up' = up /\ reader' = reader /\ writer' = writer
      BY <2>1, Zenon DEF vars
    <2>3. Idles
      BY <2>2, Zenon DEF OpenInv
    <2>4. QED
      BY <2>2, <2>3, Zenon DEF Idles
  <1>3. QED
    BY <1>1, <1>2

LEMMA StepFillFetches ==
    ASSUME Typed, OpenInv, [Next]_vars
    PROVE  FillFetches'
  <1>1. /\ writer \in Writers /\ "fill" \in Tasks /\ "sync" \in Tasks /\ Idle.pc = "idle"
        /\ writer["fill"] # Idle => plan = "fetch"
    BY DEF OpenInv, FillFetches, Typed, TaskTyped, Tasks, Idle
  <1>2. CASE Boot
    <2>1. writer["fill"] = Idle /\ writer' = writer
      BY <1>1, <1>2, Zenon DEF Boot, OpenInv, Idles
    <2>2. QED
      BY <2>1 DEF FillFetches
  <1>3. CASE Crash
    BY <1>3 DEF Crash, FillFetches
  <1>4. CASE PlanKnown \/ PlanGap \/ FillFails
    BY <1>1, <1>4 DEF PlanKnown, PlanGap, FillFails, FillFetches
  <1>5. CASE FillNext
    BY <1>1, <1>5 DEF FillNext, FillFetches
  <1>6. CASE FillTrim
    <2>1. writer'["fill"] = Idle
      BY <1>1, <1>6 DEF FillTrim, Writers
    <2>2. QED
      BY <2>1 DEF FillFetches
  <1>7. ASSUME NEW w \in Tasks, AppendTx(w) \/ AppendFails(w) \/ InsertTx(w)
        PROVE  FillFetches'
    <2>1. /\ plan' = plan /\ writer[w].pc # "idle"
          /\ writer' = [writer EXCEPT ![w].pc = "insert"] \/ writer' = [writer EXCEPT ![w].pc = "trim"]
      BY <1>7 DEF AppendTx, AppendFails, InsertTx, Goes, planVars
    <2>2. CASE w = "fill"
      BY <1>1, <2>1, <2>2 DEF FillFetches
    <2>3. CASE w # "fill"
      <3>1. writer'["fill"] = writer["fill"]
        BY <1>1, <2>1, <2>3 DEF Writers
      <3>2. QED
        BY <1>1, <2>1, <3>1 DEF FillFetches
    <2>4. QED
      BY <2>2, <2>3
  <1>8. CASE Sync
    <2>1. plan' = plan
      BY <1>8 DEF Sync, SyncNext, SyncTrim, PublishBlock, PublishTx, planVars
    <2>2. \/ \E v : writer' = [writer EXCEPT !["sync"] = v]
          \/ \E v : writer' = [writer EXCEPT !["sync"].pc = v]
      BY <1>8 DEF Sync, SyncNext, SyncTrim, PublishBlock, PublishTx, Goes
    <2>3. writer'["fill"] = writer["fill"]
      BY <1>1, <2>2 DEF Writers
    <2>4. QED
      BY <1>1, <2>1, <2>3 DEF FillFetches
  <1>9. CASE UNCHANGED <<plan, writer>>
    BY <1>1, <1>9 DEF FillFetches
  <1>10. \/ Boot \/ Crash \/ (\E w \in Tasks : AppendTx(w) \/ AppendFails(w) \/ InsertTx(w))
         \/ Sync \/ PlanKnown \/ PlanGap \/ FillNext \/ FillTrim \/ FillFails
         \/ UNCHANGED <<plan, writer>>
    BY DEF Next, CacheTx, Fill, Rollback, FindTx, WarmCache, vars, planVars, Tasks
  <1>11. QED
    BY <1>2, <1>3, <1>4, <1>5, <1>6, <1>7, <1>8, <1>9, <1>10

LEMMA InitOpenInv == Init => OpenInv
  <1> SUFFICES ASSUME Init
               PROVE  OpenInv
    OBVIOUS
  <1>1. ~up
    BY Zenon DEF Init
  <1>2. Idles /\ "fill" \in Tasks
    BY DEF Init, Idles, Tasks
  <1>3. FillFetches
    BY <1>2, Zenon DEF FillFetches, Idles
  <1>4. QED
    BY <1>1, <1>2, <1>3, Zenon DEF OpenInv

LEMMA StepOpenInv == Typed /\ OpenInv /\ [Next]_vars => OpenInv'
  <1> SUFFICES ASSUME Typed, OpenInv, [Next]_vars
               PROVE  OpenInv'
    OBVIOUS
  <1>1. up' /\ ~dirty' => StoreIsOpen' /\ CacheIsRight' /\ NothingForgotten'
    BY StepStoreIsOpen, StepCacheIsRight, StepNothingForgotten
  <1>2. ~up' => Idles'
    BY StepIdles
  <1>3. FillFetches'
    BY StepFillFetches
  <1>4. QED
    BY <1>1, <1>2, <1>3, Zenon DEF OpenInv

LEMMA OpenInvIsRight == Typed /\ OpenInv => FindIsRight /\ NoBodyForgotten
  <1> SUFFICES ASSUME Typed, OpenInv, up, ~dirty
               PROVE  /\ \A t \in Known(index) : BodyAt(file, index[t]) \in {t, NoTx}
                      /\ \A h \in DOMAIN hot : hot[h] = h
                      /\ reader.body = reader.hash
                      /\ plan \in {"fetch", "done", "failed"} =>
                            events \subseteq Known(index) \cup missing
    BY Zenon DEF FindIsRight, NoBodyForgotten
  <1>1. StoreIsOpen /\ CacheIsRight /\ NothingForgotten
    BY Zenon DEF OpenInv
  <1>2. \A t \in Known(index) : BodyAt(file, index[t]) \in {t, NoTx}
    BY <1>1, EntryFindsOwn DEF StoreIsOpen
  <1>3. QED
    BY <1>1, <1>2 DEF CacheIsRight, NothingForgotten

LEMMA InvOpen == Spec => [](Typed /\ OpenInv)
  <1>1. Typed /\ OpenInv /\ [Next]_vars => (Typed /\ OpenInv)'
    BY StepTyped, StepOpenInv
  <1>2. QED
    BY InitTyped, InitOpenInv, <1>1, PTL DEF Spec

(* A lookup never shows another transaction's body, from the file or from   *)
(* the cache, although read_tx_at does not compare the hash: the offset of  *)
(* an entry is where its own line begins, as long as no write has failed    *)
(* since the file was opened (TxStore::append, build_tx_index, get_tx).     *)
THEOREM LookupsAreRight == Spec => []FindIsRight
  BY InvOpen, OpenInvIsRight, PTL

(* Once backfill_missing_txs has its plan, no event lacks its body without  *)
(* being on the list, whatever the client publishes between the reading of  *)
(* the index and that of events.jsonl (tx_gap_plan).                        *)
THEOREM PlanForgetsNothing == Spec => []NoBodyForgotten
  BY InvOpen, OpenInvIsRight, PTL

-----------------------------------------------------------------------------
(* How much an unfinished line can cost.  What the file holds is lost only  *)
(* when the next line is glued to an unfinished one: its own body and the   *)
(* unfinished one's.  An unfinished end therefore counts two in advance.    *)

Retained == IF up /\ ~dirty THEN Findable \cap Sound(file) ELSE Sound(file)
Lost == indexed \ Retained
Penalty(f) == IF TornEnd(f) THEN 2 ELSE 0

BodiesInv ==
    /\ tears \in Nat /\ Cardinality(Lost) + Penalty(file) <= 2 * tears
    /\ buf = <<>> \/ buf[Len(buf)] = NL

(* The body that the next line would spoil. *)
Exposed(f) == {t \in Tx : TornEnd(f) /\ f[Len(f)] = <<t, 2>>}

LEMMA AtMost ==
    ASSUME NEW L, IsFiniteSet(L), NEW X, IsFiniteSet(X), NEW M, M \subseteq L \cup X
    PROVE  /\ IsFiniteSet(M) /\ Cardinality(M) \in Nat /\ Cardinality(L) \in Nat
           /\ Cardinality(X) \in Nat /\ Cardinality(M) <= Cardinality(L) + Cardinality(X)
  <1>1. /\ IsFiniteSet(L \cup X) /\ IsFiniteSet(L \cap X)
        /\ Cardinality(L \cup X) = Cardinality(L) + Cardinality(X) - Cardinality(L \cap X)
    <2>1. IsFiniteSet(L \cap X)
      BY FS_Subset
    <2>2. QED
      BY <2>1, FS_Union
  <1>2. IsFiniteSet(M) /\ Cardinality(M) <= Cardinality(L \cup X)
    BY <1>1, FS_Subset
  <1>3. /\ Cardinality(M) \in Nat /\ Cardinality(L) \in Nat /\ Cardinality(X) \in Nat
        /\ Cardinality(L \cap X) \in Nat
    BY <1>1, <1>2, FS_CardinalityType
  <1>4. QED
    BY <1>1, <1>2, <1>3

LEMMA OneExposed ==
    ASSUME NEW f
    PROVE  /\ IsFiniteSet(Exposed(f)) /\ Cardinality(Exposed(f)) \in {0, 1}
           /\ ~TornEnd(f) => Exposed(f) = {}
  <1>1. ~TornEnd(f) => Exposed(f) = {}
    BY DEF Exposed
  <1>2. CASE Exposed(f) = {}
    BY <1>1, <1>2, FS_EmptySet
  <1>3. CASE Exposed(f) # {}
    <2>1. PICK t : t \in Exposed(f)
      BY <1>3
    <2>2. \A u \in Exposed(f) : u = t
      BY <2>1 DEF Exposed
    <2>3. Exposed(f) = {t}
      BY <2>1, <2>2
    <2>4. QED
      BY <1>1, <2>3, FS_Singleton
  <1>4. QED
    BY <1>2, <1>3

LEMMA LostFinite ==
    ASSUME Typed
    PROVE  IsFiniteSet(Lost) /\ Cardinality(Lost) \in Nat
  <1>1. Lost \subseteq Tx
    BY DEF Lost, Typed, RestTyped
  <1>2. QED
    BY <1>1, Numbers, FS_Subset, FS_CardinalityType

(* Only the exposed body does not outlive what is written after it. *)
LEMMA SoundGrows ==
    ASSUME NEW f \in Seq(Unit), NEW g \in Seq(Unit)
    PROVE  Sound(f) \subseteq Sound(f \o g) \cup Exposed(f)
  <1>1. ASSUME NEW t \in Sound(f), t \notin Exposed(f)
        PROVE  t \in Sound(f \o g)
    <2>1. t \in Tx
      BY DEF Sound
    <2>2. TornEnd(f) => f[Len(f)] # <<t, 2>>
      BY <1>1, <2>1 DEF Exposed
    <2>3. QED
      BY <2>2, SoundKept
  <1>2. QED
    BY <1>1

LEMMA InitBodiesInv == Init => BodiesInv
  <1> SUFFICES ASSUME Init
               PROVE  BodiesInv
    OBVIOUS
  <1>1. tears = 0 /\ indexed = {} /\ buf = <<>>
    BY DEF Init
  <1>2. Cardinality(Lost) = 0
    BY <1>1, FS_EmptySet DEF Lost
  <1>3. PICK last \in 1..(Tip - 1) : \E first \in 1..(last + 1) : file = Lines(first, last)
    BY DEF Init
  <1>4. PICK first \in 1..(last + 1) : file = Lines(first, last)
    BY <1>3
  <1> DEFINE m == last + 1 - first
  <1>5. /\ last \in Nat /\ first \in Nat /\ m \in Nat /\ last < Tip /\ first >= 1 /\ Tip \in Nat
    BY Numbers
  <1>6. /\ file = [n \in 1..(3 * m) |-> Line(first + (n - 1) \div 3)[1 + ((n - 1) % 3)]]
    BY <1>4 DEF Lines
  <1>7. Len(file) = 3 * m
    <2>1. 3 * m \in Nat
      BY <1>5
    <2> HIDE DEF m
    <2>2. DOMAIN file = 1..(3 * m)
      BY <1>6
    <2>3. file \in Seq(Unit)
      BY InitTyped DEF Typed, DiskTyped
    <2>4. QED
      BY <2>1, <2>2, <2>3, LenProperties
  <1>8. ~TornEnd(file)
    <2>1. CASE m = 0
      <3>1. Len(file) = 0 /\ file \in Seq(Unit)
        BY <1>7, <2>1, InitTyped DEF Typed, DiskTyped
      <3>2. QED
        BY <3>1, EmptySeq DEF TornEnd
    <2>2. CASE m # 0
      <3> DEFINE n == 3 * m
      <3>1. n \in 1..(3 * m) /\ (n - 1) \div 3 = m - 1 /\ (n - 1) % 3 = 2
        BY <1>5, <2>2
      <3>2. first + (m - 1) \in Tx
        BY <1>5, <2>2 DEF Tx
      <3> HIDE DEF m
      <3>3. file[n] = Line(first + (m - 1))[1 + 2]
        BY <1>6, <3>1
      <3>4. file[n] = NL
        BY <3>2, <3>3, LineFacts
      <3>5. QED
        BY <1>7, <3>4 DEF TornEnd
    <2>3. QED
      BY <2>1, <2>2
  <1>9. QED
    BY <1>1, <1>2, <1>8 DEF BodiesInv, Penalty

(* A write that leaves a line unfinished. *)
LEMMA TornStep ==
    ASSUME Typed, BodiesInv, NEW g \in Seq(Unit), file' = file \o g, indexed' = indexed,
           tears' = tears + 1, ~(up' /\ ~dirty')
    PROVE  tears' \in Nat /\ Cardinality(Lost') + Penalty(file') <= 2 * tears'
  <1>1. file \in Seq(Unit)
    BY DEF Typed, DiskTyped
  <1>2. Retained' = Sound(file')
    BY Zenon DEF Retained
  <1>3. Retained \subseteq Sound(file)
    BY DEF Retained
  <1>4. Sound(file) \subseteq Sound(file') \cup Exposed(file)
    BY <1>1, SoundGrows
  <1>5. Lost' \subseteq Lost \cup Exposed(file)
    BY <1>2, <1>3, <1>4 DEF Lost
  <1>6. /\ IsFiniteSet(Exposed(file)) /\ Cardinality(Exposed(file)) \in {0, 1}
        /\ ~TornEnd(file) => Exposed(file) = {}
    BY OneExposed
  <1>7. /\ Cardinality(Lost') \in Nat /\ Cardinality(Lost) \in Nat
        /\ Cardinality(Lost') <= Cardinality(Lost) + Cardinality(Exposed(file))
    BY <1>5, <1>6, LostFinite, AtMost
  <1>8. Penalty(file') \in {0, 2}
    BY DEF Penalty
  <1>9. tears \in Nat /\ Cardinality(Lost) + Penalty(file) <= 2 * tears
    BY DEF BodiesInv
  <1>10. CASE TornEnd(file)
    <2>1. Penalty(file) = 2
      BY <1>10 DEF Penalty
    <2>2. QED
      BY <1>6, <1>7, <1>8, <1>9, <2>1
  <1>11. CASE ~TornEnd(file)
    <2>1. Penalty(file) = 0 /\ Cardinality(Exposed(file)) = 0
      BY <1>6, <1>11, FS_EmptySet DEF Penalty
    <2>2. QED
      BY <1>7, <1>8, <1>9, <2>1
  <1>12. QED
    BY <1>10, <1>11

(* A whole line costs two bodies when the file ended unfinished, and none   *)
(* otherwise.                                                               *)
LEMMA WholeLineStep ==
    ASSUME Typed, BodiesInv, NEW t \in Tx, indexed' = indexed \cup {t}, tears' = tears,
           Retained \subseteq Retained' \cup Exposed(file), ~TornEnd(file'),
           ~TornEnd(file) => t \in Retained'
    PROVE  tears' \in Nat /\ Cardinality(Lost') + Penalty(file') <= 2 * tears'
  <1>1. /\ IsFiniteSet(Exposed(file)) /\ Cardinality(Exposed(file)) \in {0, 1}
        /\ ~TornEnd(file) => Exposed(file) = {}
    BY OneExposed
  <1>2. IsFiniteSet(Lost) /\ Cardinality(Lost) \in Nat
    BY LostFinite
  <1>3. tears \in Nat /\ Cardinality(Lost) + Penalty(file) <= 2 * tears
    BY DEF BodiesInv
  <1>4. Penalty(file') = 0
    BY DEF Penalty
  <1>5. CASE ~TornEnd(file)
    <2>1. Lost' \subseteq Lost \cup {}
      BY <1>1, <1>5 DEF Lost
    <2>2. IsFiniteSet({}) /\ Cardinality({}) = 0
      BY FS_EmptySet
    <2>3. Cardinality(Lost') \in Nat /\ Cardinality(Lost') <= Cardinality(Lost) + 0
      BY <1>2, <2>1, <2>2, AtMost
    <2>4. Penalty(file) = 0
      BY <1>5 DEF Penalty
    <2>5. QED
      BY <1>2, <1>3, <1>4, <2>3, <2>4
  <1>6. CASE TornEnd(file)
    <2>1. Lost' \subseteq (Lost \cup Exposed(file)) \cup {t}
      BY DEF Lost
    <2>2. /\ IsFiniteSet(Lost \cup Exposed(file))
          /\ Cardinality(Lost \cup Exposed(file)) \in Nat
          /\ Cardinality(Lost \cup Exposed(file)) <= Cardinality(Lost) + Cardinality(Exposed(file))
      BY <1>1, <1>2, AtMost
    <2>3. IsFiniteSet({t}) /\ Cardinality({t}) = 1
      BY FS_Singleton
    <2>4. /\ Cardinality(Lost') \in Nat
          /\ Cardinality(Lost') <= Cardinality(Lost \cup Exposed(file)) + 1
      BY <2>1, <2>2, <2>3, AtMost
    <2>5. Penalty(file) = 2
      BY <1>6 DEF Penalty
    <2>6. QED
      BY <1>1, <1>2, <1>3, <1>4, <2>2, <2>4, <2>5
  <1>7. QED
    BY <1>5, <1>6

LEMMA FoundByOffset ==
    ASSUME NEW f \in Seq(Unit), NEW ix, NEW t \in Tx, t \in Known(ix) => ix[t] \in 0..Len(f)
    PROVE  t \in {u \in Known(ix) : BodyAt(f, ix[u]) = u} <=>
              t \in Known(ix) /\ ix[t] \in 0..Len(f) /\ Holds(f, ix[t], t)
  <1>1. ix[t] \in 0..Len(f) => (BodyAt(f, ix[t]) = t <=> Holds(f, ix[t], t))
    BY BodyAtIs
  <1>2. QED
    BY <1>1

LEMMA FindableHolds ==
    ASSUME Typed, StoreIsOpen, NEW t \in Tx
    PROVE  t \in Findable <=> t \in Known(index) /\ index[t] \in 0..Len(file) /\ Holds(file, index[t], t)
  <1>1. file \in Seq(Unit) /\ Len(file) \in Nat
    BY LenProperties DEF Typed, DiskTyped
  <1>2. t \in Known(index) => index[t] \in 0..Len(file)
    BY <1>1 DEF StoreIsOpen, EntryIsRight
  <1>3. QED
    BY <1>1, <1>2, FoundByOffset DEF Findable

LEMMA FindableHoldsThen ==
    ASSUME Typed', StoreIsOpen', NEW t \in Tx
    PROVE  t \in Findable' <=>
              t \in Known(index') /\ index'[t] \in 0..Len(file') /\ Holds(file', index'[t], t)
  <1>1. file' \in Seq(Unit) /\ Len(file') \in Nat
    BY LenProperties DEF Typed, DiskTyped
  <1>2. t \in Known(index') => index'[t] \in 0..Len(file')
    BY <1>1 DEF StoreIsOpen, EntryIsRight
  <1>3. QED
    BY <1>1, <1>2, FoundByOffset DEF Findable

LEMMA AppendRetains ==
    ASSUME Typed, Typed', OpenInv, BodiesInv, [Next]_vars, NEW w \in Tasks, AppendTx(w),
           NEW t, t = writer[w].tx
    PROVE  /\ t \in Tx /\ ~TornEnd(file')
           /\ Retained \subseteq Retained' \cup Exposed(file)
           /\ ~TornEnd(file) => t \in Retained'
  <1>1. /\ writer[w].pc = "append" /\ file' = file \o buf \o Line(t)
        /\ up = TRUE /\ up' = up /\ dirty' = dirty
    BY Zenon DEF AppendTx
  <1>2. /\ t \in Tx /\ file \in Seq(Unit) /\ buf \in Seq(Unit) /\ file \o buf \in Seq(Unit)
        /\ Line(t) \in Seq(Unit)
    BY <1>1, PendingLine, LineFacts, GrownFile DEF Typed, DiskTyped
  <1>3. ~TornEnd(file') /\ (~TornEnd(file \o buf) => t \in Sound(file'))
    BY <1>1, <1>2, NewLine
  <1>4. ~TornEnd(file) => ~TornEnd(file \o buf)
    <2>1. CASE buf = <<>>
      BY <1>2, <2>1, ConcatEmptySeq
    <2>2. CASE buf # <<>>
      <3>1. buf[Len(buf)] = NL
        BY <2>2 DEF BodiesInv
      <3>2. Len(buf) \in 1..Len(buf)
        BY <1>2, <2>2, EmptySeq, LenProperties
      <3>3. (file \o buf)[Len(file) + Len(buf)] = NL /\ Len(file \o buf) = Len(file) + Len(buf)
        BY <1>2, <3>1, <3>2, GrownFile
      <3>4. QED
        BY <3>3 DEF TornEnd
    <2>3. QED
      BY <2>1, <2>2
  <1>5. Sound(file) \subseteq Sound(file') \cup Exposed(file)
    <2>1. buf \o Line(t) \in Seq(Unit) /\ file' = file \o (buf \o Line(t))
      BY <1>1, <1>2, GrownFile, ConcatAssociative
    <2>2. QED
      BY <1>2, <2>1, SoundGrows
  <1>6. CASE dirty
    <2>1. Retained = Sound(file) /\ Retained' = Sound(file')
      BY <1>1, <1>6, Zenon DEF Retained
    <2>2. QED
      BY <1>2, <1>3, <1>4, <1>5, <2>1
  <1>7. CASE ~dirty
    <2>1. Retained = Findable \cap Sound(file)
      BY <1>1, <1>7, Zenon DEF Retained
    <2>2. Retained' = Findable' \cap Sound(file')
      BY <1>1, <1>7, Zenon DEF Retained
    <2>3. StoreIsOpen
      BY <1>1, <1>7, Zenon DEF OpenInv
    <2>4. /\ StoreIsOpen' /\ Known(index') = Known(index) \cup {t}
          /\ file' = file \o Line(t) /\ index'[t] = Len(file)
          /\ \A v \in Tx \ {t} : index'[v] = index[v]
      BY <2>3, AppendKeepsOpen
    <2>5. t \in Findable'
      <3>1. Holds(file', Len(file), t) /\ Len(file) \in 0..Len(file')
        BY <1>2, <2>4, NewLine
      <3>2. t \in Findable' <=> t \in Known(index') /\ index'[t] \in 0..Len(file') /\ Holds(file', index'[t], t)
        BY <1>2, <2>4, FindableHoldsThen
      <3>3. QED
        BY <2>4, <3>1, <3>2
    <2>6. ASSUME NEW v \in Findable \cap Sound(file), v \notin Exposed(file)
          PROVE  v \in Findable' /\ v \in Sound(file')
      <3>1. v \in Tx /\ v \in Sound(file')
        BY <1>5, <2>6 DEF Sound
      <3>2. CASE v = t
        BY <2>5, <3>1, <3>2
      <3>3. CASE v # t
        <4>1. v \in Known(index) /\ index[v] \in 0..Len(file) /\ Holds(file, index[v], v)
          BY <2>3, <3>1, FindableHolds
        <4>2. TornEnd(file) => file[Len(file)] # <<v, 2>>
          BY <2>6, <3>1 DEF Exposed
        <4>3. Holds(file \o Line(t), index[v], v)
          BY <1>2, <3>1, <4>1, <4>2, HoldsKept
        <4>4. index'[v] \in 0..Len(file')
          <5>1. Len(file') = Len(file) + 3 /\ Len(file) \in Nat
            BY <1>2, <2>4, NewLine, LenProperties
          <5>2. QED
            BY <2>4, <3>1, <3>3, <4>1, <5>1
        <4>5. v \in Findable' <=> v \in Known(index') /\ index'[v] \in 0..Len(file') /\ Holds(file', index'[v], v)
          BY <2>4, <3>1, FindableHoldsThen
        <4>6. QED
          BY <2>4, <3>1, <3>3, <4>1, <4>3, <4>4, <4>5
      <3>4. QED
        BY <3>2, <3>3
    <2>7. QED
      BY <1>2, <1>3, <1>4, <2>1, <2>2, <2>5, <2>6
  <1>8. QED
    BY <1>6, <1>7, Zenon

LEMMA StepBodiesInv ==
    ASSUME Typed, Typed', OpenInv, BodiesInv, [Next]_vars
    PROVE  BodiesInv'
  <1>1. /\ tears \in Nat /\ Cardinality(Lost) + Penalty(file) <= 2 * tears
        /\ buf = <<>> \/ buf[Len(buf)] = NL
        /\ file \in Seq(Unit) /\ buf \in Seq(Unit)
    BY DEF BodiesInv, Typed, DiskTyped
  <1>2. Penalty(file) \in Nat /\ IsFiniteSet(Lost) /\ Cardinality(Lost) \in Nat
    BY LostFinite DEF Penalty
  <1>3. ASSUME Lost' \subseteq Lost, file' = file, tears' = tears
        PROVE  tears' \in Nat /\ Cardinality(Lost') + Penalty(file') <= 2 * tears'
    <2>1. Cardinality(Lost') <= Cardinality(Lost) /\ Cardinality(Lost') \in Nat
      BY <1>2, <1>3, FS_Subset, FS_CardinalityType
    <2>2. Penalty(file') = Penalty(file)
      BY <1>3
    <2>3. QED
      BY <1>1, <1>2, <1>3, <2>1, <2>2
  <1>4. CASE Boot
    <2>1. /\ ~up /\ up' /\ ~dirty' /\ file' = file /\ tears' = tears
          /\ buf' = <<>> /\ index' = IndexOf(file) /\ indexed' = indexed \cup Known(index')
      BY <1>4, Zenon DEF Boot, diskVars
    <2>2. Retained = Sound(file)
      BY <2>1, Zenon DEF Retained
    <2>3. Retained' = Findable' \cap Sound(file')
      BY <2>1, Zenon DEF Retained
    <2>4. StoreIsOpen'
      BY <2>1, StepStoreIsOpen, Zenon
    <2>5. ASSUME NEW t \in Sound(file)
          PROVE  t \in Findable'
      <3>1. t \in Known(index') /\ index'[t] \in 0..Len(file') /\ Holds(file', index'[t], t) /\ t \in Tx
        BY <1>1, <2>1, IndexFacts DEF Sound
      <3>2. t \in Findable' <=> t \in Known(index') /\ index'[t] \in 0..Len(file') /\ Holds(file', index'[t], t)
        BY <2>4, <3>1, FindableHoldsThen
      <3>3. QED
        BY <3>1, <3>2
    <2>6. Known(index') = Sound(file)
      BY <1>1, <2>1, IndexFacts
    <2>7. Lost' \subseteq Lost
      BY <2>1, <2>2, <2>3, <2>5, <2>6 DEF Lost
    <2>8. QED
      BY <1>3, <2>1, <2>7 DEF BodiesInv
  <1>5. CASE Crash
    <2>1. up' = FALSE /\ buf' = <<>> /\ indexed' = indexed
      BY <1>5, Zenon DEF Crash
    <2>2. Retained' = Sound(file')
      BY <2>1, Zenon DEF Retained
    <2>3. CASE UNCHANGED <<file, tears>>
      <3>1. Retained \subseteq Sound(file)
        BY DEF Retained
      <3>2. Lost' \subseteq Lost
        BY <2>1, <2>2, <2>3, <3>1 DEF Lost
      <3>3. QED
        BY <1>3, <2>1, <2>3, <3>2 DEF BodiesInv
    <2>4. ASSUME NEW w \in Tasks, writer[w].pc = "append", tears' = tears + 1,
                 \E k \in 1..(Len(buf \o Line(writer[w].tx)) - 1) :
                    file' = file \o SubSeq(buf \o Line(writer[w].tx), 1, k)
          PROVE  BodiesInv'
      <3> DEFINE line == buf \o Line(writer[w].tx)
      <3>1. PICK k \in 1..(Len(line) - 1) : file' = file \o SubSeq(line, 1, k)
        BY <2>4
      <3>2. line \in Seq(Unit) /\ Len(line) \in Nat
        BY <2>4, PendingLine, LenProperties
      <3> HIDE DEF line
      <3>3. PICK g \in Seq(Unit) : g = SubSeq(line, 1, k)
        <4>1. k \in Int /\ k <= Len(line) /\ 1 \in Nat \ {0}
          BY <3>2
        <4>2. SubSeq(line, 1, k) \in Seq(Unit)
          BY <3>2, <4>1, PartOf
        <4>3. QED
          BY <4>2, Zenon
      <3>4. ~(up' /\ ~dirty')
        BY <2>1, Zenon
      <3>5. tears' \in Nat /\ Cardinality(Lost') + Penalty(file') <= 2 * tears'
        BY <2>1, <2>4, <3>1, <3>3, <3>4, TornStep
      <3>6. QED
        BY <2>1, <3>5 DEF BodiesInv
    <2>5. \/ UNCHANGED <<file, tears>>
          \/ \E w \in Tasks : /\ writer[w].pc = "append" /\ tears' = tears + 1
                              /\ \E k \in 1..(Len(buf \o Line(writer[w].tx)) - 1) :
                                    file' = file \o SubSeq(buf \o Line(writer[w].tx), 1, k)
      BY <1>5 DEF Crash, Tasks
    <2>6. QED
      BY <2>3, <2>4, <2>5
  <1>6. ASSUME NEW w \in Tasks, AppendTx(w)
        PROVE  BodiesInv'
    <2>1. PICK t : t = writer[w].tx
      OBVIOUS
    <2>2. indexed' = indexed \cup {t} /\ tears' = tears /\ buf' = <<>>
      BY <1>6, <2>1 DEF AppendTx
    <2>3. /\ t \in Tx /\ ~TornEnd(file')
          /\ Retained \subseteq Retained' \cup Exposed(file)
          /\ ~TornEnd(file) => t \in Retained'
      BY <1>6, <2>1, AppendRetains
    <2>4. tears' \in Nat /\ Cardinality(Lost') + Penalty(file') <= 2 * tears'
      BY <2>2, <2>3, WholeLineStep
    <2>5. QED
      BY <2>2, <2>4 DEF BodiesInv
  <1>7. ASSUME NEW w \in Tasks, AppendFails(w)
        PROVE  BodiesInv'
    <2> DEFINE line == buf \o Line(writer[w].tx)
    <2>1. writer[w].pc = "append" /\ tears' = tears + 1 /\ indexed' = indexed
      BY <1>7 DEF AppendFails
    <2>2. PICK k \in 0..(Len(line) - 1) :
              /\ file' = file \o SubSeq(line, 1, k)
              /\ \/ buf' = SubSeq(line, k + 1, Len(line))
                 \/ buf' = SubSeq(buf, k + 1, Len(buf))
      BY <1>7 DEF AppendFails
    <2>3. /\ line \in Seq(Unit) /\ Len(line) = Len(buf) + 3 /\ Len(buf) \in Nat
          /\ line[Len(buf) + 3] = NL
      BY <2>1, PendingLine
    <2>4. dirty' = TRUE
      BY <1>7, Zenon DEF AppendFails
    <2> HIDE DEF line
    <2>5. PICK g \in Seq(Unit) : g = SubSeq(line, 1, k)
      <3>1. k \in Int /\ k <= Len(line) /\ 1 \in Nat \ {0}
        BY <2>3
      <3>2. SubSeq(line, 1, k) \in Seq(Unit)
        BY <2>3, <3>1, PartOf
      <3>3. QED
        BY <3>2, Zenon
    <2>6. ~(up' /\ ~dirty')
      BY <2>4, Zenon
    <2>7. tears' \in Nat /\ Cardinality(Lost') + Penalty(file') <= 2 * tears'
      BY <2>1, <2>2, <2>5, <2>6, TornStep
    <2>8. ASSUME NEW s \in Seq(Unit), buf' = SubSeq(s, k + 1, Len(s)), s # <<>> => s[Len(s)] = NL
          PROVE  buf' = <<>> \/ buf'[Len(buf')] = NL
      <3>1. /\ Len(s) \in Nat /\ k + 1 \in Nat \ {0} /\ buf' \in Seq(Unit)
            /\ Len(buf') = IF k + 1 <= Len(s) THEN Len(s) - (k + 1) + 1 ELSE 0
            /\ \A i \in 1..(Len(s) - (k + 1) + 1) : buf'[i] = s[k + 1 + i - 1]
        <4>1. Len(s) \in Nat /\ Len(s) \in Int /\ k + 1 \in Nat \ {0} /\ Len(s) <= Len(s)
          BY <2>3, LenProperties
        <4>2. /\ SubSeq(s, k + 1, Len(s)) \in Seq(Unit)
              /\ Len(SubSeq(s, k + 1, Len(s))) =
                    IF k + 1 <= Len(s) THEN Len(s) - (k + 1) + 1 ELSE 0
              /\ \A i \in 1..(Len(s) - (k + 1) + 1) :
                    SubSeq(s, k + 1, Len(s))[i] = s[k + 1 + i - 1]
          BY <4>1, PartOf
        <4>3. QED
          BY <2>8, <4>1, <4>2
      <3>2. CASE k + 1 <= Len(s)
        <4>1. Len(buf') \in 1..(Len(s) - (k + 1) + 1) /\ k + 1 + Len(buf') - 1 = Len(s) /\ Len(s) # 0
          BY <3>1, <3>2
        <4>2. s # <<>>
          BY <4>1, EmptySeq
        <4>3. QED
          BY <2>8, <3>1, <4>1, <4>2
      <3>3. CASE ~(k + 1 <= Len(s))
        BY <3>1, <3>3, EmptySeq
      <3>4. QED
        BY <3>2, <3>3
    <2>9. buf' = <<>> \/ buf'[Len(buf')] = NL
      BY <1>1, <2>2, <2>3, <2>8
    <2>10. QED
      BY <2>7, <2>9 DEF BodiesInv
  <1>8. CASE UNCHANGED <<file, storeVars, up, historyVars>>
    <2>1. /\ file' = file /\ index' = index /\ buf' = buf /\ tears' = tears /\ indexed' = indexed
      BY <1>8 DEF storeVars, historyVars
    <2>2. up' = up /\ dirty' = dirty
      BY <1>8, Zenon DEF historyVars
    <2>3. Findable' = Findable
      BY <2>1 DEF Findable
    <2>4. Retained' = Retained
      BY <2>1, <2>2, <2>3, Zenon DEF Retained
    <2>5. Lost' \subseteq Lost
      BY <2>1, <2>4 DEF Lost
    <2>6. QED
      BY <1>1, <1>3, <2>1, <2>5 DEF BodiesInv
  <1>9. QED
    <2>1. \/ Boot \/ Crash \/ (\E w \in Tasks : AppendTx(w) \/ AppendFails(w))
          \/ UNCHANGED <<file, storeVars, up, historyVars>>
      BY DEF Next, vars, diskVars, CacheTx, Sync, Fill, InsertTx, SyncNext, SyncTrim, Rollback,
             PublishBlock, PublishTx, PlanKnown, PlanGap, FillNext, FillTrim, FillFails, FindTx,
             WarmCache, Tasks
    <2>2. QED
      BY <1>4, <1>5, <1>6, <1>7, <1>8, <2>1

LEMMA BodiesInvIsKept == Typed /\ BodiesInv => BodiesKept
  <1> SUFFICES ASSUME Typed, BodiesInv, up, ~dirty
               PROVE  Cardinality(indexed \ Findable) <= 2 * tears
    BY Zenon DEF BodiesKept
  <1>1. Retained = Findable \cap Sound(file)
    BY Zenon DEF Retained
  <1>2. indexed \ Findable \subseteq Lost
    BY <1>1 DEF Lost
  <1>3. /\ Cardinality(indexed \ Findable) <= Cardinality(Lost) /\ Cardinality(Lost) \in Nat
        /\ Cardinality(indexed \ Findable) \in Nat
    BY <1>2, LostFinite, FS_Subset, FS_CardinalityType
  <1>4. Penalty(file) \in Nat /\ tears \in Nat /\ Cardinality(Lost) + Penalty(file) <= 2 * tears
    BY DEF BodiesInv, Penalty
  <1>5. QED
    BY <1>3, <1>4

(* "Crash-tolerant": each unfinished line costs at most two bodies, its own *)
(* and the one glued to it, and every other body that was ever findable is  *)
(* found again after any number of crashes, failed writes and restarts      *)
(* (TxStore::open, append, build_tx_index).                                 *)
THEOREM TearsCostTwo == Spec => []BodiesKept
  <1>1. Typed /\ OpenInv /\ BodiesInv /\ [Next]_vars => (Typed /\ OpenInv /\ BodiesInv)'
    BY StepTyped, StepOpenInv, StepBodiesInv
  <1>2. QED
    BY InitTyped, InitOpenInv, InitBodiesInv, BodiesInvIsKept, <1>1, PTL DEF Spec

=============================================================================
