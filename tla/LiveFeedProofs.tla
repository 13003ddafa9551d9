--------------------------- MODULE LiveFeedProofs ---------------------------
(***************************************************************************)
(* Nothing falls between the stream, the snapshot and the preload: proofs  *)
(* for any restored ring, any capacities of the channel, the socket,       *)
(* snapshots and pages, and any number of faults.                          *)
(***************************************************************************)
EXTENDS LiveFeed, DataLemmas

(* The events put off while the reader is elsewhere never reach their cap. *)
ParkHasRoom == Len(parked) < ParkCap

(* What NothingFallsBetween needs to be inductive: but for the displaced    *)
(* events the ring stays in order, and all of it is behind the next id, so  *)
(* a page's events are newer than those left out                            *)
RingInOrder ==
    /\ \A i, j \in 1..Len(ring) : i < j => ring[i] \in Displaced \/ ring[i] <= ring[j]
    /\ \A i \in 1..Len(ring) : ring[i] < nextId

(* an answer that leaves some out has events to go on from, and a finished  *)
(* preload is not waiting for one.                                          *)
PagesGoOn ==
    /\ preload = "answered" /\ ~page.exhausted => page.ids # {}
    /\ ready => preload = "none"

EventsAreSingle ==
    \A i \in 1..Len(socket) : socket[i].type = "event" => Len(socket[i].ids) = 1

Held(e) == e \in cache \/ OnItsWay(e) \/ InSocket(e) \/ PutOff(e) \/ ToBeLoaded(e)

-----------------------------------------------------------------------------
(* The newest elements: at most n of them, and all while there is room. *)
LEMMA NewestFacts ==
    ASSUME NEW S, NEW s \in Seq(S), NEW n \in Nat \ {0}
    PROVE  /\ Newest(s, n) \in Seq(S) /\ Len(Newest(s, n)) <= n
           /\ Len(Newest(s, n)) < n => Newest(s, n) = s
  <1> DEFINE from == (IF Len(s) <= n THEN 0 ELSE Len(s) - n) + 1
  <1>1. Len(s) \in Nat
    OBVIOUS
  <1>2. CASE Len(s) <= n
    <2>1. Newest(s, n) = SubSeq(s, 1, Len(s))
      BY <1>2 DEF Newest
    <2>2. SubSeq(s, 1, Len(s)) = s
      BY SubSeqFull
    <2>3. QED
      BY <1>2, <2>1, <2>2
  <1>3. CASE ~(Len(s) <= n)
    <2>1. Newest(s, n) = SubSeq(s, Len(s) - n + 1, Len(s)) /\ Len(s) - n + 1 \in 1..Len(s)
      BY <1>1, <1>3 DEF Newest
    <2>2. /\ SubSeq(s, Len(s) - n + 1, Len(s)) \in Seq(S)
          /\ Len(SubSeq(s, Len(s) - n + 1, Len(s))) = n
      BY <1>1, <2>1, SubSeqProperties
    <2>3. QED
      BY <2>1, <2>2
  <1>4. QED
    BY <1>2, <1>3

-----------------------------------------------------------------------------
(* The positions a page takes from those below the cursor. *)

LEMMA LastPageFacts ==
    ASSUME NEW n \in Nat, NEW P \in SUBSET (1..n)
    PROVE  /\ Cardinality(P) <= PageSize => LastPage(P) = P
           /\ P # {} => LastPage(P) # {}
           /\ \A i \in P \ LastPage(P), k \in LastPage(P) : i < k
  <1> DEFINE Above(i) == {j \in P : j > i}
  <1>1. IsFiniteSet(P) /\ PageSize \in Nat /\ PageSize > 0
    <2>1. IsFiniteSet(1..n)
      BY FS_Interval
    <2>2. PageSize \in Nat \ {0}
      BY FeedAssumption
    <2>3. IsFiniteSet(P)
      BY <2>1, FS_Subset
    <2>4. QED
      BY <2>2, <2>3
  <1>2. ASSUME NEW i \in Nat
        PROVE  /\ IsFiniteSet(Above(i)) /\ Cardinality(Above(i)) \in Nat
               /\ Cardinality(Above(i)) <= Cardinality(P)
               /\ Cardinality(Above(i)) = Cardinality(P) => Above(i) = P
    <2>1. Above(i) \subseteq P
      OBVIOUS
    <2>2. QED
      BY <1>1, <2>1, FS_Subset, FS_CardinalityType
  <1>3. \A i \in P : i \in LastPage(P) <=> Cardinality(Above(i)) < PageSize
    BY DEF LastPage
  <1>4. LastPage(P) \subseteq P
    BY DEF LastPage
  <1>5. Cardinality(P) \in Nat /\ \A i \in P : i \in Nat
    BY <1>1, FS_CardinalityType
  <1>6. ASSUME Cardinality(P) <= PageSize, NEW i \in P
        PROVE  i \in LastPage(P)
    <2>1. i \notin Above(i) /\ i \in Nat
      BY <1>5
    <2>2. Cardinality(Above(i)) < Cardinality(P)
      BY <1>2, <1>5, <2>1
    <2>3. Cardinality(Above(i)) < PageSize
      BY <1>1, <1>2, <1>5, <1>6, <2>1, <2>2
    <2>4. QED
      BY <1>3, <2>3
  <1>7. ASSUME P # {}
        PROVE  LastPage(P) # {}
    <2>1. PICK i \in P : \A j \in P : j <= i
      <3>1. P \in SUBSET Nat /\ \A j \in P : j <= n
        OBVIOUS
      <3>2. QED
        BY <1>7, <3>1, GreatestNumber
    <2>2. Above(i) = {}
      <3>1. \A j \in P : ~(j > i)
        BY <1>5, <2>1
      <3>2. QED
        BY <3>1
    <2>3. Cardinality(Above(i)) < PageSize
      BY <1>1, <2>2, FS_EmptySet
    <2>4. QED
      BY <1>3, <2>3
  <1>8. ASSUME NEW i \in P \ LastPage(P), NEW k \in LastPage(P), ~(i < k)
        PROVE  FALSE
    <2>1. k \in P /\ i \in P
      BY <1>4
    <2>2. k \in Nat /\ i \in Nat
      BY <1>5, <2>1
    <2>3. k <= i
      BY <1>8, <2>2
    <2>4. Above(i) \subseteq Above(k)
      <3>1. ASSUME NEW j \in P, j > i
            PROVE  j > k
        BY <1>5, <2>2, <2>3, <3>1
      <3>2. QED
        BY <3>1
    <2>5. Cardinality(Above(i)) <= Cardinality(Above(k))
      BY <1>2, <2>2, <2>4, FS_Subset
    <2>6. Cardinality(Above(k)) < PageSize
      BY <1>3, <2>1
    <2>7. Cardinality(Above(i)) \in Nat /\ Cardinality(Above(k)) \in Nat
      BY <1>2, <2>2
    <2>8. Cardinality(Above(i)) < PageSize
      BY <1>1, <2>5, <2>6, <2>7
    <2>9. QED
      BY <1>3, <2>1, <2>8
  <1>9. QED
    BY <1>4, <1>6, <1>7, <1>8

-----------------------------------------------------------------------------
(* Types and capacities. *)

LEMMA InitTypeOK == Init => TypeOK
  <1> SUFFICES ASSUME Init
               PROVE  TypeOK
    OBVIOUS
  <1>1. /\ {MaxId, MaxTrim, MaxDrops, MaxFailures, MaxScrolls} \subseteq Nat
        /\ {ChannelCap, SnapshotSize, PageSize, SocketCap, ParkCap} \subseteq Nat \ {0}
    BY FeedAssumption
  <1>2. Restored \in Seq(1..MaxId)
    <2>1. Restored \in Seq(Nat \ {0}) /\ \A i \in 1..Len(Restored) : Restored[i] <= MaxId
      BY FeedAssumption
    <2>2. \A i \in 1..Len(Restored) : Restored[i] \in 1..MaxId
      BY <1>1, <2>1, ElementOfSeq, SMTT(30)
    <2>3. QED
      BY <2>1, <2>2, SeqRetype
  <1>3. nextId \in 1..(MaxId + 1)
    <2> DEFINE S == {0} \cup ToSet(Restored)
    <2>1. S \in SUBSET Nat /\ S # {} /\ \A m \in S : m <= MaxId
      BY <1>1, <1>2, ToSetType, SMTT(30)
    <2>2. Max(S) \in S
      BY <1>1, <2>1, MaxIsGreatest
    <2>3. Max(S) \in 0..MaxId
      BY <1>1, <2>1, <2>2
    <2>4. QED
      BY <1>1, <2>3, SMTT(30) DEF Init
  <1>4. MaxId + 1 \in 1..(MaxId + 1) /\ NoPage \in [ids : SUBSET (1..MaxId), exhausted : BOOLEAN]
    BY <1>1 DEF NoPage
  <1>5. /\ ring = Restored /\ sending = 0 /\ sent = <<>> /\ socket = <<>>
        /\ tipBatch = <<>> /\ parked = <<>> /\ page = NoPage /\ before = MaxId + 1
    BY DEF Init
  <1>6. ParkCap \in Nat /\ SocketCap \in Nat
    BY <1>1
  <1>7. Len(sent) = 0 /\ Len(socket) = 0 /\ Len(parked) = 0
    BY <1>5
  <1>8. socket \in Seq([type : {"snapshot", "event"}, ids : Seq(1..MaxId)])
    BY <1>5
  <1>9. /\ ring \in Seq(1..MaxId) /\ sending \in 0..MaxId /\ sent \in Seq(1..MaxId)
        /\ tipBatch \in Seq(1..MaxId) /\ parked \in Seq(1..MaxId)
        /\ rx \in 0..Len(sent) /\ conn \in {"closed", "subscribed", "live"}
    BY <1>1, <1>2, <1>5, <1>7 DEF Init
  <1>10. /\ \A i \in 1..Len(socket) : Len(socket[i].ids) <= SnapshotSize
         /\ Len(socket) <= SocketCap /\ drops \in 0..MaxDrops
         /\ cache \subseteq 1..MaxId /\ Len(parked) <= ParkCap
    BY <1>1, <1>6, <1>7 DEF Init
  <1>11. /\ scrolls \in 0..MaxScrolls /\ failures \in 0..MaxFailures
         /\ paused \in BOOLEAN /\ ready \in BOOLEAN /\ failed \in BOOLEAN
         /\ preload \in {"none", "asked", "answered"}
    <2>1. scrolls \in 0..MaxScrolls /\ failures \in 0..MaxFailures
      BY <1>1 DEF Init
    <2>2. /\ paused \in BOOLEAN /\ ready \in BOOLEAN /\ failed \in BOOLEAN
          /\ preload \in {"none", "asked", "answered"}
      BY Zenon DEF Init
    <2>3. QED
      BY <2>1, <2>2
  <1>12. before \in 1..(MaxId + 1) /\ page \in [ids : SUBSET (1..MaxId), exhausted : BOOLEAN]
    BY <1>4, <1>5
  <1>13. QED
    BY <1>3, <1>8, <1>9, <1>10, <1>11, <1>12 DEF TypeOK

(* A ring with an event pushed and k trimmed from its front. *)
LEMMA PushedRing ==
    ASSUME NEW S, NEW s \in Seq(S), NEW x \in S, NEW k \in 0..Len(s),
           NEW t, t = SubSeq(Append(s, x), k + 1, Len(s) + 1)
    PROVE  /\ t \in Seq(S) /\ Len(t) = Len(s) + 1 - k /\ Len(s) \in Nat
           /\ \A i \in 1..(Len(s) - k) : t[i] = s[i + k]
           /\ t[Len(s) + 1 - k] = x
  <1>1. /\ Append(s, x) \in Seq(S) /\ Len(Append(s, x)) = Len(s) + 1 /\ Len(s) \in Nat
        /\ \A i \in 1..Len(s) : Append(s, x)[i] = s[i]
        /\ Append(s, x)[Len(s) + 1] = x
    BY AppendProperties
  <1>2. k \in Nat /\ k <= Len(s)
    BY <1>1
  <1>3. k + 1 \in 1..(Len(s) + 1) /\ Len(s) + 1 \in k..(Len(s) + 1)
    BY <1>1, <1>2
  <1>4. /\ t \in Seq(S)
        /\ Len(t) = Len(s) + 1 - k
        /\ \A i \in 1..(Len(s) + 1 - k) : t[i] = Append(s, x)[k + i]
    BY <1>1, <1>2, <1>3, SubSeqProperties
  <1>5. ASSUME NEW i \in 1..(Len(s) - k)
        PROVE  t[i] = s[i + k]
    <2>1. i \in 1..(Len(s) + 1 - k) /\ i + k \in 1..Len(s) /\ k + i = i + k
      BY <1>1, <1>2
    <2>2. QED
      BY <1>1, <1>4, <2>1
  <1>6. t[Len(s) + 1 - k] = x
    <2>1. Len(s) + 1 - k \in 1..(Len(s) + 1 - k) /\ k + (Len(s) + 1 - k) = Len(s) + 1
      BY <1>1, <1>2
    <2>2. QED
      BY <1>1, <1>4, <2>1
  <1>7. QED
    BY <1>1, <1>4, <1>5, <1>6

LEMMA PublisherTypeOK ==
    ASSUME TypeOK, Push \/ Broadcast
    PROVE  TypeOK'
  <1>1. CASE Push
    <2>1. PICK k \in 0..MaxTrim : /\ k <= Len(ring)
                                  /\ ring' = SubSeq(Append(ring, nextId), k + 1, Len(ring) + 1)
      BY <1>1 DEF Push
    <2>2. MaxTrim \in Nat /\ MaxId \in Nat
      BY FeedAssumption
    <2>3. nextId \in 1..MaxId /\ nextId' \in 1..(MaxId + 1) /\ sending' \in 0..MaxId
      BY <1>1, <2>2 DEF TypeOK, Push
    <2>4. ring \in Seq(1..MaxId) /\ Len(ring) \in Nat
      BY DEF TypeOK
    <2>5. k \in 0..Len(ring)
      BY <2>1, <2>2, <2>4
    <2>6. ring' \in Seq(1..MaxId)
      BY <2>1, <2>3, <2>4, <2>5, PushedRing
    <2>7. UNCHANGED <<sent, linkVars, cache, readerVars, preloadVars>>
      BY <1>1 DEF Push
    <2>8. QED
      BY <2>3, <2>6, <2>7 DEF TypeOK, linkVars, readerVars, preloadVars
  <1>2. CASE Broadcast
    <2>1. /\ sending \in 1..MaxId /\ sending' = 0 /\ sent' = Append(sent, sending)
          /\ UNCHANGED <<ring, nextId, linkVars, cache, readerVars, preloadVars>>
      BY <1>2, FeedAssumption DEF TypeOK, Broadcast
    <2>2. sent \in Seq(1..MaxId) /\ rx \in 0..Len(sent) /\ MaxId \in Nat
      BY FeedAssumption DEF TypeOK
    <2>3. sent' \in Seq(1..MaxId) /\ Len(sent') = Len(sent) + 1 /\ Len(sent) \in Nat
      BY <2>1, <2>2, AppendProperties
    <2>4. rx' \in 0..Len(sent') /\ sending' \in 0..MaxId
      BY <2>1, <2>2, <2>3 DEF linkVars
    <2>5. QED
      BY <2>1, <2>3, <2>4 DEF TypeOK, linkVars, readerVars, preloadVars
  <1>3. QED
    BY <1>1, <1>2

(* What travels to the browser. *)
FeedMessage == [type : {"snapshot", "event"}, ids : Seq(1..MaxId)]

LEMMA CapsAreNumbers ==
    /\ MaxId \in Nat /\ MaxDrops \in Nat /\ MaxFailures \in Nat /\ MaxScrolls \in Nat
    /\ ChannelCap \in Nat \ {0} /\ SnapshotSize \in Nat \ {0} /\ PageSize \in Nat \ {0}
    /\ SocketCap \in Nat \ {0} /\ ParkCap \in Nat \ {0}
  BY FeedAssumption

(* One more message, as small as a snapshot, within the socket's capacity. *)
LEMMA SocketGrows ==
    ASSUME TypeOK, NEW m \in FeedMessage, Len(m.ids) <= SnapshotSize,
           Len(socket) < SocketCap, socket' = Append(socket, m)
    PROVE  /\ socket' \in Seq(FeedMessage)
           /\ \A i \in 1..Len(socket') : Len(socket'[i].ids) <= SnapshotSize
           /\ Len(socket') <= SocketCap
           /\ Len(socket') = Len(socket) + 1 /\ Len(socket) \in Nat
           /\ \A i \in 1..Len(socket) : socket'[i] = socket[i]
           /\ socket'[Len(socket) + 1] = m
  <1>1. /\ socket \in Seq(FeedMessage) /\ Len(socket) \in Nat
        /\ \A i \in 1..Len(socket) : Len(socket[i].ids) <= SnapshotSize
    BY DEF TypeOK, FeedMessage
  <1>2. /\ socket' \in Seq(FeedMessage)
        /\ Len(socket') = Len(socket) + 1
        /\ \A i \in 1..Len(socket) : socket'[i] = socket[i]
        /\ socket'[Len(socket) + 1] = m
    BY <1>1, AppendProperties
  <1>3. ASSUME NEW i \in 1..Len(socket')
        PROVE  Len(socket'[i].ids) <= SnapshotSize
    <2>1. i \in 1..Len(socket) \/ i = Len(socket) + 1
      BY <1>1, <1>2
    <2>2. QED
      BY <1>1, <1>2, <2>1
  <1>4. Len(socket') <= SocketCap
    BY <1>1, <1>2, CapsAreNumbers
  <1>5. QED
    BY <1>1, <1>2, <1>3, <1>4

(* The first message is handled. *)
LEMMA SocketShrinks ==
    ASSUME TypeOK, socket # <<>>, socket' = Tail(socket)
    PROVE  /\ socket' \in Seq(FeedMessage)
           /\ \A i \in 1..Len(socket') : Len(socket'[i].ids) <= SnapshotSize
           /\ Len(socket') <= SocketCap
           /\ Len(socket) \in Nat \ {0} /\ Len(socket') = Len(socket) - 1
           /\ \A i \in 1..Len(socket') : socket'[i] = socket[i + 1]
           /\ Head(socket) = socket[1] /\ socket[1] \in FeedMessage
  <1>1. /\ socket \in Seq(FeedMessage) /\ Len(socket) <= SocketCap
        /\ \A i \in 1..Len(socket) : Len(socket[i].ids) <= SnapshotSize
    BY DEF TypeOK, FeedMessage
  <1>2. Len(socket) \in Nat \ {0}
    BY <1>1, EmptySeq
  <1>3. /\ socket' \in Seq(FeedMessage) /\ Len(socket') = Len(socket) - 1
        /\ \A i \in 1..Len(socket') : socket'[i] = socket[i + 1]
        /\ Head(socket) = socket[1] /\ socket[1] \in FeedMessage
    BY <1>1, <1>2, HeadTailProperties, ElementOfSeq
  <1>4. \A i \in 1..Len(socket') : Len(socket'[i].ids) <= SnapshotSize
    BY <1>1, <1>2, <1>3
  <1>5. QED
    BY <1>1, <1>2, <1>3, <1>4, CapsAreNumbers

LEMMA MessageTypes ==
    ASSUME TypeOK
    PROVE  /\ SnapshotMsg \in FeedMessage /\ Len(SnapshotMsg.ids) <= SnapshotSize
           /\ SnapshotMsg.type = "snapshot"
           /\ \A e \in 1..MaxId : /\ EventMsg(e) \in FeedMessage
                                  /\ EventMsg(e).type = "event"
                                  /\ EventMsg(e).ids = <<e>>
                                  /\ Len(EventMsg(e).ids) = 1
  <1>1. Newest(ring, SnapshotSize) \in Seq(1..MaxId) /\ Len(Newest(ring, SnapshotSize)) <= SnapshotSize
    BY CapsAreNumbers, NewestFacts DEF TypeOK
  <1>2. QED
    BY <1>1 DEF SnapshotMsg, EventMsg, FeedMessage

LEMMA LinkTypeOK ==
    ASSUME TypeOK, Subscribe \/ Disconnect \/ SendSnapshot \/ Relay \/ Lagged
    PROVE  TypeOK'
  <1>1. UNCHANGED <<serverVars, cache, readerVars, preloadVars>>
    BY DEF Subscribe, Disconnect, SendSnapshot, Relay, Lagged
  <1>2. Len(sent) \in Nat /\ rx \in 0..Len(sent)
    BY DEF TypeOK
  <1>3. /\ conn' \in {"closed", "subscribed", "live"} /\ rx' \in 0..Len(sent)
        /\ drops' \in 0..MaxDrops
    <2>1. conn' \in {"closed", "subscribed", "live"}
      BY DEF TypeOK, Subscribe, Disconnect, SendSnapshot, Relay, Lagged
    <2>2. rx' \in 0..Len(sent)
      <3>1. \/ rx' = rx \/ rx' = Len(sent)
            \/ rx < Len(sent) /\ rx' = rx + 1
        BY DEF Subscribe, Disconnect, SendSnapshot, Relay, Lagged
      <3>2. QED
        BY <1>2, <3>1
    <2>3. drops' \in 0..MaxDrops
      <3>1. drops \in 0..MaxDrops /\ MaxDrops \in Nat
        BY CapsAreNumbers DEF TypeOK
      <3>2. drops' = drops \/ (drops < MaxDrops /\ drops' = drops + 1)
        BY DEF Subscribe, Disconnect, SendSnapshot, Relay, Lagged
      <3>3. QED
        BY <3>1, <3>2
    <2>4. QED
      BY <2>1, <2>2, <2>3
  <1>4. /\ socket' \in Seq(FeedMessage) /\ Len(socket') <= SocketCap
        /\ \A i \in 1..Len(socket') : Len(socket'[i].ids) <= SnapshotSize
    <2>1. CASE SendSnapshot
      BY <2>1, MessageTypes, SocketGrows DEF SendSnapshot
    <2>2. CASE Relay
      <3>1. rx + 1 \in 1..Len(sent) /\ sent \in Seq(1..MaxId)
        BY <1>2, <2>2 DEF TypeOK, Relay
      <3>2. sent[rx + 1] \in 1..MaxId
        BY <3>1, ElementOfSeq
      <3>3. EventMsg(sent[rx + 1]) \in FeedMessage /\ Len(EventMsg(sent[rx + 1]).ids) <= SnapshotSize
        <4>1. EventMsg(sent[rx + 1]) \in FeedMessage /\ Len(EventMsg(sent[rx + 1]).ids) = 1
          BY ONLY TypeOK, <3>2, MessageTypes
        <4>2. 1 <= SnapshotSize
          BY CapsAreNumbers
        <4>3. QED
          BY <4>1, <4>2
      <3>4. QED
        BY <2>2, <3>3, SocketGrows DEF Relay
    <2>3. CASE Subscribe \/ Disconnect
      <3>1. socket' = <<>> /\ Len(<<>>) = 0
        BY <2>3 DEF Subscribe, Disconnect
      <3>2. socket' \in Seq(FeedMessage) /\ Len(socket') = 0
        BY <3>1
      <3>3. QED
        BY <3>2, CapsAreNumbers
    <2>4. CASE Lagged
      BY <2>4 DEF TypeOK, FeedMessage, Lagged
    <2>5. QED
      BY <2>1, <2>2, <2>3, <2>4
  <1>5. QED
    BY <1>1, <1>3, <1>4 DEF TypeOK, FeedMessage, serverVars, readerVars, preloadVars

(* What the page holds: events of a message, and ever smaller cursors. *)
LEMMA PageTypeOK ==
    ASSUME TypeOK, EventsAreSingle,
           OnSnapshot \/ OnEvent \/ Frame \/ FlushParked \/ ScrollAway \/ ScrollBack
    PROVE  TypeOK'
  <1> DEFINE Ids == 1..MaxId
  <1>1. CASE OnSnapshot
    <2>1. /\ socket # <<>> /\ socket' = Tail(socket) /\ cache' = ToSet(Head(socket).ids)
          /\ preload' = "asked" /\ before' = MaxId + 1 /\ page' = NoPage
          /\ ready' = FALSE /\ failed' = FALSE
          /\ UNCHANGED <<serverVars, conn, rx, drops, readerVars, failures>>
      BY <1>1 DEF OnSnapshot
    <2>2. /\ socket' \in Seq(FeedMessage) /\ Len(socket') <= SocketCap
          /\ \A i \in 1..Len(socket') : Len(socket'[i].ids) <= SnapshotSize
          /\ Head(socket) \in FeedMessage
      BY <2>1, SocketShrinks
    <2>3. cache' \subseteq Ids
      <3>1. Head(socket).ids \in Seq(Ids)
        BY <2>2 DEF FeedMessage
      <3>2. QED
        BY <2>1, <3>1, ToSetType
    <2>4. before' \in 1..(MaxId + 1) /\ preload' \in {"none", "asked", "answered"}
      BY <2>1, CapsAreNumbers
    <2>5. page' \in [ids : SUBSET Ids, exhausted : BOOLEAN]
      BY <2>1 DEF NoPage
    <2>6. ready' \in BOOLEAN /\ failed' \in BOOLEAN
      BY <2>1
    <2>7. QED
      BY <2>1, <2>2, <2>3, <2>4, <2>5, <2>6 DEF TypeOK, FeedMessage, serverVars, readerVars
  <1>2. CASE OnEvent
    <2> DEFINE e == Head(socket).ids[1]
    <2>1. /\ socket # <<>> /\ socket' = Tail(socket) /\ Head(socket).type = "event"
          /\ \/ parked' = Newest(Append(parked, e), ParkCap) /\ tipBatch' = tipBatch
             \/ tipBatch' = Append(tipBatch, e) /\ parked' = parked
          /\ UNCHANGED <<serverVars, conn, rx, drops, cache, paused, scrolls, preloadVars>>
      BY <1>2 DEF OnEvent
    <2>2. /\ socket' \in Seq(FeedMessage) /\ Len(socket') <= SocketCap
          /\ \A i \in 1..Len(socket') : Len(socket'[i].ids) <= SnapshotSize
          /\ Head(socket) = socket[1] /\ socket[1] \in FeedMessage /\ 1 \in 1..Len(socket)
      BY <2>1, SocketShrinks
    <2>3. e \in Ids
      <3> DEFINE ids == Head(socket).ids
      <3>1. ids \in Seq(Ids) /\ 1 \in 1..Len(ids)
        BY <2>1, <2>2 DEF FeedMessage, EventsAreSingle
      <3> HIDE DEF ids
      <3>2. ids[1] \in Ids
        BY <3>1, ElementOfSeq
      <3>3. QED
        BY <3>2 DEF ids
    <2>4. parked \in Seq(Ids) /\ tipBatch \in Seq(Ids) /\ Len(parked) <= ParkCap
      BY DEF TypeOK
    <2>5. Append(parked, e) \in Seq(Ids) /\ Append(tipBatch, e) \in Seq(Ids)
      BY <2>3, <2>4, AppendProperties
    <2>6. parked' \in Seq(Ids) /\ Len(parked') <= ParkCap /\ tipBatch' \in Seq(Ids)
      <3>1. /\ Newest(Append(parked, e), ParkCap) \in Seq(Ids)
            /\ Len(Newest(Append(parked, e), ParkCap)) <= ParkCap
        BY <2>5, CapsAreNumbers, NewestFacts
      <3>2. QED
        BY <2>1, <2>4, <2>5, <3>1
    <2>7. QED
      BY <2>1, <2>2, <2>6 DEF TypeOK, FeedMessage, serverVars, preloadVars
  <1>3. CASE Frame
    <2>1. /\ \/ parked' = Newest(parked \o tipBatch, ParkCap) /\ cache' = cache
             \/ cache' = cache \cup ToSet(tipBatch) /\ parked' = parked
          /\ tipBatch' = <<>>
          /\ UNCHANGED <<serverVars, linkVars, paused, scrolls, preloadVars>>
      BY <1>3 DEF Frame
    <2>2. parked \in Seq(Ids) /\ tipBatch \in Seq(Ids) /\ Len(parked) <= ParkCap /\ cache \subseteq Ids
      BY DEF TypeOK
    <2>3. parked \o tipBatch \in Seq(Ids) /\ ToSet(tipBatch) \subseteq Ids
      BY <2>2, ConcatProperties, ToSetType
    <2>4. /\ Newest(parked \o tipBatch, ParkCap) \in Seq(Ids)
          /\ Len(Newest(parked \o tipBatch, ParkCap)) <= ParkCap
      BY <2>3, CapsAreNumbers, NewestFacts
    <2>5. parked' \in Seq(Ids) /\ Len(parked') <= ParkCap /\ cache' \subseteq Ids /\ tipBatch' \in Seq(Ids)
      <3>1. tipBatch' \in Seq(Ids)
        BY <2>1
      <3>2. parked' \in Seq(Ids) /\ Len(parked') <= ParkCap
        BY <2>1, <2>2, <2>4
      <3>3. cache' \subseteq Ids
        BY <2>1, <2>2, <2>3
      <3>4. QED
        BY <3>1, <3>2, <3>3
    <2>6. QED
      BY <2>1, <2>5 DEF TypeOK, serverVars, linkVars, preloadVars
  <1>4. CASE FlushParked
    <2>1. /\ cache' = cache \cup ToSet(parked) /\ parked' = <<>>
          /\ UNCHANGED <<serverVars, linkVars, tipBatch, paused, scrolls, preloadVars>>
      BY <1>4 DEF FlushParked
    <2>2. cache' \subseteq Ids
      <3>1. parked \in Seq(Ids) /\ cache \subseteq Ids
        BY DEF TypeOK
      <3>2. QED
        BY <2>1, <3>1, ToSetType
    <2>3. parked' \in Seq(Ids) /\ Len(parked') = 0
      BY <2>1
    <2>4. Len(parked') <= ParkCap
      BY <2>3, CapsAreNumbers
    <2>5. QED
      BY <2>1, <2>2, <2>3, <2>4 DEF TypeOK, serverVars, linkVars, preloadVars
  <1>5. CASE ScrollAway \/ ScrollBack
    <2>1. paused' \in BOOLEAN /\ UNCHANGED <<serverVars, linkVars, cache, tipBatch, parked, preloadVars>>
      BY <1>5, Zenon DEF ScrollAway, ScrollBack
    <2>2. scrolls' \in 0..MaxScrolls
      <3>1. scrolls \in 0..MaxScrolls /\ MaxScrolls \in Nat
        BY CapsAreNumbers DEF TypeOK
      <3>2. scrolls' = scrolls \/ (scrolls < MaxScrolls /\ scrolls' = scrolls + 1)
        BY <1>5 DEF ScrollAway, ScrollBack
      <3>3. QED
        BY <3>1, <3>2
    <2>3. QED
      BY <2>1, <2>2 DEF TypeOK, serverVars, linkVars, preloadVars
  <1>6. QED
    BY <1>1, <1>2, <1>3, <1>4, <1>5

LEMMA PreloadTypeOK ==
    ASSUME TypeOK, ServePage \/ OnPage \/ PageFails
    PROVE  TypeOK'
  <1> DEFINE Ids == 1..MaxId
  <1>1. CASE ServePage
    <2> DEFINE older == Older(before)
    <2>1. /\ page' = [ids |-> {ring[i] : i \in LastPage(older)},
                      exhausted |-> Cardinality(older) <= PageSize]
          /\ preload' = "answered"
          /\ UNCHANGED <<serverVars, linkVars, cache, readerVars, before, ready, failed, failures>>
      BY <1>1 DEF ServePage
    <2>2. {ring[i] : i \in LastPage(older)} \subseteq Ids
      <3>1. ring \in Seq(Ids) /\ LastPage(older) \subseteq 1..Len(ring)
        BY DEF TypeOK, LastPage, Older
      <3>2. QED
        BY <3>1, ElementOfSeq
    <2>3. (Cardinality(older) <= PageSize) \in BOOLEAN
      OBVIOUS
    <2>4. page' \in [ids : SUBSET Ids, exhausted : BOOLEAN]
      BY <2>1, <2>2, <2>3
    <2>5. QED
      BY <2>1, <2>4 DEF TypeOK, serverVars, linkVars, readerVars
  <1>2. CASE OnPage
    <2>1. /\ cache' = cache \cup page.ids /\ page' = NoPage
          /\ preload' \in {"asked", "none"} /\ ready' \in {ready, TRUE}
          /\ before' = before \/ (page.ids # {} /\ before' = NextCursor)
          /\ UNCHANGED <<serverVars, linkVars, readerVars, failed, failures>>
      BY <1>2, Zenon DEF OnPage
    <2>2. page.ids \subseteq Ids /\ cache \subseteq Ids /\ before \in 1..(MaxId + 1)
      BY DEF TypeOK
    <2>3. before' \in 1..(MaxId + 1)
      <3>1. CASE page.ids # {}
        <4>1. page.ids \in SUBSET Nat
          BY <2>2, CapsAreNumbers
        <4>2. Min(page.ids) \in Ids
          BY <2>2, <3>1, <4>1, MinIsLeast
        <4>3. QED
          BY <2>1, <2>2, <4>2, CapsAreNumbers DEF NextCursor
      <3>2. QED
        BY <2>1, <2>2, <3>1
    <2>4. page' \in [ids : SUBSET Ids, exhausted : BOOLEAN] /\ cache' \subseteq Ids
      BY <2>1, <2>2 DEF NoPage
    <2>5. ready' \in BOOLEAN /\ preload' \in {"none", "asked", "answered"}
      BY <2>1, Zenon DEF TypeOK
    <2>6. QED
      BY <2>1, <2>3, <2>4, <2>5 DEF TypeOK, serverVars, linkVars, readerVars
  <1>3. CASE PageFails
    <2>1. /\ preload' = "none" /\ ready' = TRUE /\ failed' = TRUE /\ page' = NoPage
          /\ failures < MaxFailures /\ failures' = failures + 1
          /\ UNCHANGED <<serverVars, linkVars, cache, readerVars, before>>
      BY <1>3 DEF PageFails
    <2>2. failures' \in 0..MaxFailures
      BY <2>1, CapsAreNumbers DEF TypeOK
    <2>3. page' \in [ids : SUBSET Ids, exhausted : BOOLEAN]
      BY <2>1 DEF NoPage
    <2>4. ready' \in BOOLEAN /\ failed' \in BOOLEAN /\ preload' \in {"none", "asked", "answered"}
      BY <2>1, Zenon
    <2>5. QED
      BY <2>1, <2>2, <2>3, <2>4 DEF TypeOK, serverVars, linkVars, readerVars
  <1>4. QED
    BY <1>1, <1>2, <1>3

(* What arrives is what was put in: an event message has one event. *)
LEMMA EventsStaySingle ==
    ASSUME TypeOK, EventsAreSingle, [Next]_vars
    PROVE  EventsAreSingle'
  <1>1. CASE UNCHANGED socket
    BY <1>1 DEF EventsAreSingle
  <1>2. CASE socket' = <<>>
    <2>1. Len(socket') = 0
      BY <1>2
    <2>2. QED
      BY <2>1 DEF EventsAreSingle
  <1>3. CASE socket # <<>> /\ socket' = Tail(socket)
    <2>1. /\ Len(socket) \in Nat \ {0} /\ Len(socket') = Len(socket) - 1
          /\ \A i \in 1..Len(socket') : socket'[i] = socket[i + 1]
      BY <1>3, SocketShrinks
    <2>2. QED
      BY <2>1 DEF EventsAreSingle
  <1>4. CASE SendSnapshot \/ Relay
    <2>1. PICK m \in FeedMessage : /\ Len(m.ids) <= SnapshotSize
                                   /\ m.type = "event" => Len(m.ids) = 1
                                   /\ Len(socket) < SocketCap /\ socket' = Append(socket, m)
      <3>1. CASE SendSnapshot
        BY <3>1, MessageTypes DEF SendSnapshot
      <3>2. CASE Relay
        <4>1. sent[rx + 1] \in 1..MaxId
          <5>1. rx + 1 \in 1..Len(sent) /\ sent \in Seq(1..MaxId)
            BY <3>2 DEF TypeOK, Relay
          <5>2. QED
            BY <5>1, ElementOfSeq
        <4>2. /\ EventMsg(sent[rx + 1]) \in FeedMessage /\ Len(EventMsg(sent[rx + 1]).ids) = 1
          BY ONLY TypeOK, <4>1, MessageTypes
        <4>3. 1 <= SnapshotSize
          BY CapsAreNumbers
        <4>4. Len(EventMsg(sent[rx + 1]).ids) <= SnapshotSize
          BY <4>2, <4>3
        <4>5. QED
          BY <3>2, <4>2, <4>4 DEF Relay
      <3>3. QED
        BY <1>4, <3>1, <3>2
    <2>2. /\ Len(socket') = Len(socket) + 1 /\ Len(socket) \in Nat
          /\ \A i \in 1..Len(socket) : socket'[i] = socket[i]
          /\ socket'[Len(socket) + 1] = m
      BY <2>1, SocketGrows
    <2>3. ASSUME NEW i \in 1..Len(socket'), socket'[i].type = "event"
          PROVE  Len(socket'[i].ids) = 1
      <3>1. i \in 1..Len(socket) \/ i = Len(socket) + 1
        BY <2>2
      <3>2. QED
        BY <2>1, <2>2, <2>3, <3>1 DEF EventsAreSingle
    <2>4. QED
      BY <2>3 DEF EventsAreSingle
  <1>5. QED
    <2>1. \/ UNCHANGED socket \/ socket' = <<>> \/ (socket # <<>> /\ socket' = Tail(socket))
          \/ SendSnapshot \/ Relay
      BY DEF Next, vars, Deliver, Load, serverVars, linkVars, readerVars, preloadVars,
             Push, Broadcast, Subscribe, Disconnect, Lagged, OnSnapshot, OnEvent, Frame,
             FlushParked, ScrollAway, ScrollBack, ServePage, OnPage, PageFails
    <2>2. QED
      BY <1>1, <1>2, <1>3, <1>4, <2>1

Typed == TypeOK /\ EventsAreSingle

LEMMA InitTyped == Init => Typed
  <1> SUFFICES ASSUME Init
               PROVE  Typed
    OBVIOUS
  <1>1. TypeOK
    BY InitTypeOK
  <1>2. Len(socket) = 0
    BY DEF Init
  <1>3. QED
    BY <1>1, <1>2 DEF Typed, EventsAreSingle

LEMMA StepTyped == Typed /\ [Next]_vars => Typed'
  <1> SUFFICES ASSUME Typed, [Next]_vars
               PROVE  Typed'
    OBVIOUS
  <1>1. TypeOK /\ EventsAreSingle
    BY DEF Typed
  <1>2. TypeOK'
    <2>1. CASE Next
      BY <1>1, <2>1, PublisherTypeOK, LinkTypeOK, PageTypeOK, PreloadTypeOK DEF Next, Deliver, Load
    <2>2. CASE UNCHANGED vars
      BY <1>1, <2>2 DEF TypeOK, vars, serverVars, linkVars, readerVars, preloadVars
    <2>3. QED
      BY <2>1, <2>2
  <1>3. QED
    BY <1>1, <1>2, EventsStaySingle DEF Typed

(* The snapshot, the socket and the parked events never exceed their caps,  *)
(* whatever the publisher, ws_client and the page do (state.rs, server.rs,  *)
(* app.js).                                                                 *)
THEOREM TypeCorrect == Spec => []TypeOK
  <1>1. Spec => []Typed
    BY InitTyped, StepTyped, PTL DEF Spec
  <1>2. Typed => TypeOK
    BY DEF Typed
  <1>3. QED
    BY <1>1, <1>2, PTL

-----------------------------------------------------------------------------
(* The order of the ring and the course of the preload. *)

LEMMA StepRingInOrder ==
    ASSUME Typed, RingInOrder, [Next]_vars
    PROVE  RingInOrder'
  <1>1. CASE UNCHANGED <<ring, nextId>>
    BY <1>1 DEF RingInOrder
  <1>2. CASE Push
    <2>1. PICK k \in 0..MaxTrim : /\ k <= Len(ring)
                                  /\ ring' = SubSeq(Append(ring, nextId), k + 1, Len(ring) + 1)
      BY <1>2 DEF Push
    <2>2. nextId \in Nat \ {0} /\ nextId' = nextId + 1 /\ ring \in Seq(Nat \ {0}) /\ k \in 0..Len(ring)
      <3>1. ring \in Seq(1..MaxId) /\ nextId \in 1..(MaxId + 1) /\ Len(ring) \in Nat
        BY DEF Typed, TypeOK
      <3>2. nextId \in Nat \ {0} /\ nextId' = nextId + 1
        BY <1>2, <3>1, CapsAreNumbers DEF Push
      <3>3. ring \in Seq(Nat \ {0})
        <4>1. \A i \in 1..Len(ring) : ring[i] \in Nat \ {0}
          BY <3>1, ElementOfSeq, CapsAreNumbers
        <4>2. QED
          BY <3>1, <4>1, SeqRetype
      <3>4. k \in 0..Len(ring)
        BY <2>1, <3>1, FeedAssumption
      <3>5. QED
        BY <3>2, <3>3, <3>4
    <2>3. /\ Len(ring) \in Nat /\ Len(ring') = Len(ring) + 1 - k
          /\ \A i \in 1..(Len(ring) - k) : ring'[i] = ring[i + k]
          /\ ring'[Len(ring) + 1 - k] = nextId
      BY <2>1, <2>2, PushedRing
    <2>4. \A i \in 1..Len(ring) : ring[i] \in Nat /\ ring[i] < nextId
      BY <2>2, ElementOfSeq DEF RingInOrder
    <2>5. ASSUME NEW i \in 1..Len(ring')
          PROVE  ring'[i] < nextId' /\ (i < Len(ring') => ring'[i] < nextId)
      <3>1. i \in 1..(Len(ring) - k) \/ i = Len(ring) + 1 - k
        BY <2>2, <2>3
      <3>2. CASE i \in 1..(Len(ring) - k)
        <4>1. i + k \in 1..Len(ring) /\ ring'[i] = ring[i + k]
          BY <2>2, <2>3, <3>2
        <4>2. QED
          BY <2>2, <2>4, <4>1
      <3>3. CASE i = Len(ring) + 1 - k
        BY <2>2, <2>3, <3>3
      <3>4. QED
        BY <3>1, <3>2, <3>3
    <2>6. ASSUME NEW i \in 1..Len(ring'), NEW j \in 1..Len(ring'), i < j
          PROVE  ring'[i] \in Displaced \/ ring'[i] <= ring'[j]
      <3>1. CASE j = Len(ring) + 1 - k
        <4>1. ring'[i] \in Nat /\ ring'[i] < nextId /\ ring'[j] = nextId
          <5>1. i \in 1..(Len(ring) - k) /\ i + k \in 1..Len(ring)
            BY <2>2, <2>3, <2>6, <3>1
          <5>2. QED
            BY <2>3, <2>4, <3>1, <5>1
        <4>2. QED
          BY <2>2, <4>1
      <3>2. CASE j \in 1..(Len(ring) - k)
        <4>0. i \in 1..(Len(ring) - k)
          BY <2>2, <2>3, <2>6, <3>2
        <4>1. i + k \in 1..Len(ring) /\ j + k \in 1..Len(ring) /\ i + k < j + k
          BY <2>2, <2>3, <2>6, <3>2, <4>0
        <4>2. ring'[i] = ring[i + k] /\ ring'[j] = ring[j + k]
          BY <2>3, <3>2, <4>0
        <4>3. QED
          BY <4>1, <4>2 DEF RingInOrder
      <3>3. j \in 1..(Len(ring) - k) \/ j = Len(ring) + 1 - k
        BY <2>2, <2>3
      <3>4. QED
        BY <3>1, <3>2, <3>3
    <2>7. QED
      BY <2>5, <2>6 DEF RingInOrder
  <1>3. QED
    <2>1. Push \/ UNCHANGED <<ring, nextId>>
      BY DEF Next, vars, Deliver, Load, serverVars, linkVars, readerVars, preloadVars,
             Broadcast, Subscribe, Disconnect, SendSnapshot, Relay, Lagged, OnSnapshot, OnEvent,
             Frame, FlushParked, ScrollAway, ScrollBack, ServePage, OnPage, PageFails
    <2>2. QED
      BY <1>1, <1>2, <2>1

(* What a page holds of the ring below the cursor: everything, or an upper  *)
(* part whose least event is newer than all that is left out.               *)
LEMMA PageFacts ==
    ASSUME Typed, RingInOrder, ServePage
    PROVE  /\ ~page'.exhausted => page'.ids # {}
           /\ \A e \in ToSet(ring) \ Displaced : e < before =>
                 e \in page'.ids \/ (~page'.exhausted /\ e < Min(page'.ids))
  <1> DEFINE older == Older(before)
             last == LastPage(older)
  <1>1. /\ page' = [ids |-> {ring[i] : i \in last}, exhausted |-> Cardinality(older) <= PageSize]
        /\ page'.ids = {ring[i] : i \in last}
        /\ page'.exhausted = (Cardinality(older) <= PageSize)
    BY DEF ServePage
  <1>2. Len(ring) \in Nat /\ older \in SUBSET (1..Len(ring)) /\ last \subseteq older
    BY DEF Typed, TypeOK, Older, LastPage
  <1>3. /\ Cardinality(older) <= PageSize => last = older
        /\ older # {} => last # {}
        /\ \A i \in older \ last, k \in last : i < k
    BY <1>2, LastPageFacts
  <1>4. ASSUME ~page'.exhausted
        PROVE  page'.ids # {}
    <2>1. older # {}
      <3>1. ~(0 <= PageSize) \/ older # {}
        BY <1>1, <1>4, FS_EmptySet
      <3>2. QED
        BY <3>1, CapsAreNumbers
    <2>2. QED
      BY <1>1, <1>3, <2>1
  <1>5. ASSUME NEW e \in ToSet(ring) \ Displaced, e < before, e \notin page'.ids
        PROVE  ~page'.exhausted /\ e < Min(page'.ids)
    <2>1. PICK i \in 1..Len(ring) : ring[i] = e
      BY <1>5 DEF ToSet
    <2>2. i \in older /\ i \notin last
      BY <1>1, <1>5, <2>1 DEF Older
    <2>3. ~page'.exhausted
      BY <1>1, <1>3, <2>2
    <2>4. page'.ids \in SUBSET Nat /\ page'.ids # {}
      <3>1. ring \in Seq(1..MaxId)
        BY DEF Typed, TypeOK
      <3>2. \A j \in 1..Len(ring) : ring[j] \in Nat
        BY <3>1, ElementOfSeq, CapsAreNumbers
      <3>3. QED
        BY <1>1, <1>2, <1>4, <2>3, <3>2
    <2>5. Min(page'.ids) \in page'.ids
      BY <2>4, MinIsLeast
    <2>6. PICK j \in last : ring[j] = Min(page'.ids)
      BY <1>1, <2>5
    <2>7. ring[i] <= ring[j] /\ ring[i] # ring[j]
      <3>1. i \in 1..Len(ring) /\ j \in 1..Len(ring) /\ i < j
        BY <1>2, <1>3, <2>2, <2>6
      <3>2. ring[j] \in page'.ids
        BY <2>5, <2>6
      <3>3. QED
        BY <1>5, <2>1, <3>1, <3>2 DEF RingInOrder
    <2>8. ring[i] \in Nat /\ ring[j] \in Nat
      <3>1. i \in 1..Len(ring) /\ j \in 1..Len(ring) /\ ring \in Seq(1..MaxId)
        BY <1>2, <2>2, <2>6 DEF Typed, TypeOK
      <3>2. QED
        BY <3>1, ElementOfSeq, CapsAreNumbers
    <2>9. QED
      BY <2>1, <2>3, <2>6, <2>7, <2>8
  <1>6. QED
    BY <1>4, <1>5

LEMMA StepPagesGoOn ==
    ASSUME Typed, RingInOrder, PagesGoOn, [Next]_vars
    PROVE  PagesGoOn'
  <1>1. CASE UNCHANGED preloadVars
    BY <1>1 DEF PagesGoOn, preloadVars
  <1>2. CASE OnSnapshot
    BY <1>2 DEF OnSnapshot, PagesGoOn
  <1>3. CASE ServePage
    <2>1. preload = "asked" /\ UNCHANGED ready
      BY <1>3 DEF ServePage
    <2>2. ~page'.exhausted => page'.ids # {}
      BY <1>3, PageFacts
    <2>3. QED
      BY <2>1, <2>2 DEF PagesGoOn
  <1>4. CASE OnPage
    BY <1>4 DEF OnPage, PagesGoOn
  <1>5. CASE PageFails
    BY <1>5 DEF PageFails, PagesGoOn
  <1>6. QED
    <2>1. UNCHANGED preloadVars \/ OnSnapshot \/ ServePage \/ OnPage \/ PageFails
      BY DEF Next, vars, Deliver, Load, Push, Broadcast, Subscribe, Disconnect, SendSnapshot,
             Relay, Lagged, OnEvent, Frame, FlushParked, ScrollAway, ScrollBack
    <2>2. QED
      BY <1>1, <1>2, <1>3, <1>4, <1>5, <2>1

-----------------------------------------------------------------------------
(* No event of the ring is lost on the way to the page. *)

(* A snapshot that is due stays due until the page has it, unless the       *)
(* connection is made anew.                                                 *)
LEMMA DueStays ==
    ASSUME Typed, [Next]_vars, SnapshotDue, ~SnapshotDue'
    PROVE  OnSnapshot
  <1>1. \/ UNCHANGED <<conn, socket>> \/ conn' # "live" \/ SendSnapshot \/ Relay
        \/ OnSnapshot \/ OnEvent
    BY DEF Next, vars, Deliver, Load, serverVars, linkVars, readerVars, preloadVars,
           Push, Broadcast, Subscribe, Disconnect, Lagged, Frame,
           FlushParked, ScrollAway, ScrollBack, ServePage, OnPage, PageFails
  <1>2. ~UNCHANGED <<conn, socket>> /\ conn' = "live"
    BY DEF SnapshotDue
  <1>3. TypeOK
    BY DEF Typed
  <1>4. CASE SendSnapshot
    <2>1. Len(socket') = Len(socket) + 1 /\ Len(socket) \in Nat /\ socket'[Len(socket) + 1] = SnapshotMsg
      BY <1>3, <1>4, MessageTypes, SocketGrows DEF SendSnapshot
    <2>2. socket'[Len(socket) + 1].type = "snapshot" /\ Len(socket) + 1 \in 1..Len(socket')
      BY <1>3, <2>1, MessageTypes
    <2>3. QED
      BY <2>2 DEF SnapshotDue
  <1>5. CASE Relay
    <2>1. PICK i \in 1..Len(socket) : socket[i].type = "snapshot"
      BY <1>5 DEF Relay, SnapshotDue
    <2>2. i \in 1..Len(socket') /\ socket'[i] = socket[i]
      <3>1. socket \in Seq(FeedMessage)
        BY <1>3 DEF TypeOK, FeedMessage
      <3>2. socket' = Append(socket, EventMsg(sent[rx + 1]))
        BY <1>5 DEF Relay
      <3>3. QED
        BY <3>1, <3>2, AppendProperties
    <2>3. QED
      BY <2>1, <2>2 DEF SnapshotDue
  <1>6. CASE OnEvent
    <2>1. /\ socket # <<>> /\ socket' = Tail(socket) /\ Head(socket).type = "event"
          /\ conn' = conn
      BY <1>6 DEF OnEvent
    <2>2. PICK i \in 1..Len(socket) : socket[i].type = "snapshot"
      BY <1>2, <2>1 DEF SnapshotDue
    <2>3. /\ Len(socket) \in Nat \ {0} /\ Len(socket') = Len(socket) - 1
          /\ \A j \in 1..Len(socket') : socket'[j] = socket[j + 1]
          /\ Head(socket) = socket[1]
      BY <1>3, <2>1, SocketShrinks
    <2>4. i # 1
      BY <2>1, <2>2, <2>3
    <2>5. i - 1 \in 1..Len(socket') /\ (i - 1) + 1 = i
      BY <2>3, <2>4
    <2>6. socket'[i - 1].type = "snapshot"
      BY <2>2, <2>3, <2>5
    <2>7. QED
      BY <2>5, <2>6 DEF SnapshotDue
  <1>7. QED
    BY <1>1, <1>2, <1>4, <1>5, <1>6

(* An event that was held before a step of the publisher or of ws_client,   *)
(* or is pushed by it, is held after it.                                    *)
LEMMA ServerKeepsHeld ==
    ASSUME Typed, Push \/ Broadcast \/ Relay,
           \A e \in ToSet(ring) \ Displaced : Held(e)
    PROVE  \A e \in ToSet(ring') \ Displaced : Held(e)'
  <1> TypeOK
    BY DEF Typed
  <1>0. MaxId \in Nat /\ rx \in 0..Len(sent) /\ Len(sent) \in Nat /\ sent \in Seq(1..MaxId)
    BY CapsAreNumbers DEF TypeOK
  <1>1. CASE Push
    <2>1. PICK k \in 0..MaxTrim : /\ k <= Len(ring)
                                  /\ ring' = SubSeq(Append(ring, nextId), k + 1, Len(ring) + 1)
      BY <1>1 DEF Push
    <2>2. ring \in Seq(1..MaxId) /\ nextId \in 1..MaxId /\ Len(ring) \in Nat /\ k \in 0..Len(ring)
      <3>1. ring \in Seq(1..MaxId) /\ nextId \in 1..(MaxId + 1) /\ nextId <= MaxId
        BY <1>1 DEF TypeOK, Push
      <3>2. k \in Nat
        BY FeedAssumption
      <3>3. QED
        BY <1>0, <2>1, <3>1, <3>2
    <2>3. /\ Len(ring') = Len(ring) + 1 - k
          /\ \A i \in 1..(Len(ring) - k) : ring'[i] = ring[i + k]
          /\ ring'[Len(ring) + 1 - k] = nextId
      <3>1. ring' = SubSeq(Append(ring, nextId), k + 1, Len(ring) + 1)
        BY <2>1
      <3>2. QED
        BY ONLY <2>2, <3>1, PushedRing
    <2>4. sending = 0 /\ sending' = nextId
          /\ UNCHANGED <<sent, linkVars, cache, readerVars, preloadVars>>
      BY <1>1 DEF Push
    <2>5. ASSUME NEW e \in ToSet(ring') \ Displaced
          PROVE  e = nextId \/ e \in ToSet(ring) \ Displaced
      <3>1. PICK i \in 1..Len(ring') : ring'[i] = e
        BY DEF ToSet
      <3>2. i \in 1..(Len(ring) - k) \/ i = Len(ring) + 1 - k
        BY <2>2, <2>3
      <3>3. CASE i \in 1..(Len(ring) - k)
        <4>1. i + k \in 1..Len(ring) /\ ring[i + k] = e
          BY <2>2, <2>3, <3>1, <3>3
        <4>2. QED
          BY <4>1 DEF ToSet
      <3>4. QED
        BY <2>3, <3>1, <3>2, <3>3
    <2>6. ASSUME NEW e \in ToSet(ring) \ Displaced
          PROVE  Held(e)'
      <3>1. e # sending
        <4>1. e \in 1..MaxId
          BY <2>2, ToSetType
        <4>2. QED
          BY <2>4, <4>1
      <3>2. Held(e)
        OBVIOUS
      <3>3. QED
        BY <2>4, <3>1, <3>2 DEF Held, OnItsWay, InSocket, PutOff, ToBeLoaded, linkVars,
                                readerVars, preloadVars
    <2>7. ASSUME NEW e, e = nextId
          PROVE  Held(e)'
      BY <2>4, <2>7 DEF Held, OnItsWay
    <2>8. QED
      BY <2>5, <2>6, <2>7
  <1>2. CASE Broadcast
    <2>1. /\ sending \in 1..MaxId /\ sent' = Append(sent, sending)
          /\ UNCHANGED <<ring, nextId, linkVars, cache, readerVars, preloadVars>>
      BY <1>0, <1>2 DEF TypeOK, Broadcast
    <2>2. /\ Len(sent') = Len(sent) + 1 /\ \A i \in 1..Len(sent) : sent'[i] = sent[i]
          /\ sent'[Len(sent) + 1] = sending /\ rx' = rx
      BY <1>0, <2>1, AppendProperties DEF linkVars
    <2>3. ASSUME NEW e, OnItsWay(e)
          PROVE  OnItsWay(e)'
      <3>1. CASE e = sending
        <4>1. Len(sent) + 1 \in (rx' + 1)..Len(sent')
          BY <1>0, <2>2
        <4>2. QED
          BY <2>2, <3>1, <4>1 DEF OnItsWay
      <3>2. CASE \E i \in (rx + 1)..Len(sent) : sent[i] = e
        <4>1. PICK i \in (rx + 1)..Len(sent) : sent[i] = e
          BY <3>2
        <4>2. i \in (rx' + 1)..Len(sent') /\ sent'[i] = e
          BY <1>0, <2>2, <4>1
        <4>3. QED
          BY <4>2 DEF OnItsWay
      <3>3. QED
        BY <2>3, <3>1, <3>2 DEF OnItsWay
    <2>4. ASSUME NEW e \in ToSet(ring') \ Displaced
          PROVE  Held(e)'
      <3>1. Held(e)
        BY <2>1
      <3>2. QED
        BY <2>1, <2>3, <3>1 DEF Held, InSocket, PutOff, ToBeLoaded, linkVars, readerVars, preloadVars
    <2>5. QED
      BY <2>4
  <1>3. CASE Relay
    <2> DEFINE m == EventMsg(sent[rx + 1])
    <2>1. /\ rx < Len(sent) /\ rx' = rx + 1 /\ socket' = Append(socket, m)
          /\ UNCHANGED <<serverVars, conn, drops, cache, readerVars, preloadVars>>
      BY <1>3 DEF Relay
    <2>2. socket \in Seq(FeedMessage)
      BY DEF TypeOK, FeedMessage
    <2>3. /\ Len(socket') = Len(socket) + 1 /\ Len(socket) \in Nat
          /\ \A i \in 1..Len(socket) : socket'[i] = socket[i]
          /\ socket'[Len(socket) + 1] = m
      BY <2>1, <2>2, AppendProperties
    <2>4. sent[rx + 1] \in ToSet(m.ids)
      <3>1. m.ids = <<sent[rx + 1]>>
        BY DEF EventMsg
      <3>2. QED
        BY <3>1 DEF ToSet
    <2> HIDE DEF m
    <2>5. ASSUME NEW e, InSocket(e)
          PROVE  InSocket(e)'
      <3>1. PICK i \in 1..Len(socket) : e \in ToSet(socket[i].ids)
        BY <2>5 DEF InSocket
      <3>2. i \in 1..Len(socket') /\ socket'[i] = socket[i]
        BY <2>3
      <3>3. QED
        BY <3>1, <3>2 DEF InSocket
    <2>6. ASSUME NEW e, OnItsWay(e)
          PROVE  OnItsWay(e)' \/ InSocket(e)'
      <3>1. CASE e = sending
        BY <2>1, <3>1 DEF OnItsWay, serverVars
      <3>2. CASE \E i \in (rx + 1)..Len(sent) : sent[i] = e
        <4>1. PICK i \in (rx + 1)..Len(sent) : sent[i] = e
          BY <3>2
        <4>2. CASE i = rx + 1
          <5>1. Len(socket) + 1 \in 1..Len(socket')
            BY <2>3
          <5>2. QED
            BY <2>3, <2>4, <4>1, <4>2, <5>1 DEF InSocket
        <4>3. CASE i # rx + 1
          <5>1. i \in (rx' + 1)..Len(sent') /\ sent'[i] = e
            BY <1>0, <2>1, <4>1, <4>3 DEF serverVars
          <5>2. QED
            BY <5>1 DEF OnItsWay
        <4>4. QED
          BY <4>2, <4>3
      <3>3. QED
        BY <2>6, <3>1, <3>2 DEF OnItsWay
    <2>7. ASSUME NEW e \in ToSet(ring') \ Displaced
          PROVE  Held(e)'
      <3>1. Held(e)
        BY <2>1 DEF serverVars
      <3>2. QED
        BY <2>1, <2>5, <2>6, <3>1 DEF Held, PutOff, ToBeLoaded, serverVars, readerVars, preloadVars
    <2>8. QED
      BY <2>7
  <1>4. QED
    BY <1>1, <1>2, <1>3

(* An event the socket, the batch or the parked list holds is handed on.    *)
LEMMA PageKeepsHeld ==
    ASSUME Typed, OnEvent \/ Frame \/ FlushParked \/ ScrollAway \/ ScrollBack, ParkHasRoom',
           NEW e, Held(e)
    PROVE  Held(e)'
  <1> DEFINE Ids == 1..MaxId
  <1>0. /\ TypeOK /\ EventsAreSingle /\ ParkCap \in Nat \ {0}
        /\ parked \in Seq(Ids) /\ tipBatch \in Seq(Ids)
    BY CapsAreNumbers DEF Typed, TypeOK
  <1>1. CASE OnEvent
    <2> DEFINE new == Head(socket).ids[1]
    <2>1. /\ socket # <<>> /\ socket' = Tail(socket) /\ Head(socket).type = "event"
          /\ \/ parked' = Newest(Append(parked, new), ParkCap) /\ tipBatch' = tipBatch
             \/ tipBatch' = Append(tipBatch, new) /\ parked' = parked
          /\ UNCHANGED <<serverVars, conn, rx, drops, cache, paused, scrolls, preloadVars>>
      BY <1>1 DEF OnEvent
    <2>2. /\ Len(socket) \in Nat \ {0} /\ Len(socket') = Len(socket) - 1
          /\ \A i \in 1..Len(socket') : socket'[i] = socket[i + 1]
          /\ Head(socket) = socket[1] /\ socket[1] \in FeedMessage
      BY <1>0, <2>1, SocketShrinks
    <2>3. socket[1].ids \in Seq(Ids) /\ Len(socket[1].ids) = 1 /\ new = socket[1].ids[1]
      BY <1>0, <2>1, <2>2 DEF FeedMessage, EventsAreSingle
    <2>4. new \in Ids
      <3> DEFINE ids == socket[1].ids
      <3>1. ids \in Seq(Ids) /\ 1 \in 1..Len(ids) /\ new = ids[1]
        BY <2>3
      <3> HIDE DEF ids, new
      <3>2. QED
        BY <3>1, ElementOfSeq
    <2> HIDE DEF new
    <2>5. ToSet(parked') \cup ToSet(tipBatch') = ToSet(parked) \cup ToSet(tipBatch) \cup {new}
      <3>1. CASE parked' = Newest(Append(parked, new), ParkCap) /\ tipBatch' = tipBatch
        <4>1. Append(parked, new) \in Seq(Ids)
          BY <1>0, <2>4, AppendProperties
        <4>2. parked' = Append(parked, new)
          BY <1>0, <3>1, <4>1, NewestFacts DEF ParkHasRoom
        <4>3. ToSet(Append(parked, new)) = ToSet(parked) \cup {new}
          <5>1. parked \in Seq(Ids) /\ new \in Ids
            BY <1>0, <2>4
          <5> HIDE DEF Ids
          <5>2. QED
            BY ONLY <5>1, ToSetAppend
        <4>4. QED
          BY <3>1, <4>2, <4>3
      <3>2. CASE tipBatch' = Append(tipBatch, new) /\ parked' = parked
        <4>1. ToSet(Append(tipBatch, new)) = ToSet(tipBatch) \cup {new}
          <5>1. tipBatch \in Seq(Ids) /\ new \in Ids
            BY <1>0, <2>4
          <5> HIDE DEF Ids
          <5>2. QED
            BY ONLY <5>1, ToSetAppend
        <4>2. QED
          BY <3>2, <4>1
      <3>3. QED
        BY <2>1, <3>1, <3>2
    <2>6. ASSUME InSocket(e)
          PROVE  InSocket(e)' \/ e = new
      <3>1. PICK i \in 1..Len(socket) : e \in ToSet(socket[i].ids)
        BY <2>6 DEF InSocket
      <3>2. CASE i = 1
        BY <2>3, <3>1, <3>2 DEF ToSet
      <3>3. CASE i # 1
        <4>1. i - 1 \in 1..Len(socket') /\ (i - 1) + 1 = i
          BY <2>2, <3>3
        <4>2. e \in ToSet(socket'[i - 1].ids)
          BY <2>2, <3>1, <4>1
        <4>3. QED
          BY <4>1, <4>2 DEF InSocket
      <3>4. QED
        BY <3>2, <3>3
    <2>7. UNCHANGED <<cache, sending, sent, rx, preload, before, page>>
      BY <2>1 DEF serverVars, preloadVars
    <2>8. OnItsWay(e) => OnItsWay(e)'
      BY <2>7 DEF OnItsWay
    <2>9. ToBeLoaded(e) => ToBeLoaded(e)'
      BY <2>7 DEF ToBeLoaded
    <2>10. PutOff(e) \/ e = new => PutOff(e)'
      BY <2>5 DEF PutOff
    <2>11. QED
      BY <2>6, <2>7, <2>8, <2>9, <2>10 DEF Held
  <1>2. CASE Frame
    <2>1. /\ \/ parked' = Newest(parked \o tipBatch, ParkCap) /\ cache' = cache
             \/ cache' = cache \cup ToSet(tipBatch) /\ parked' = parked
          /\ UNCHANGED <<serverVars, linkVars, paused, scrolls, preloadVars>>
      BY <1>2 DEF Frame
    <2>2. cache \cup ToSet(parked) \cup ToSet(tipBatch) \subseteq cache' \cup ToSet(parked')
      <3>1. CASE parked' = Newest(parked \o tipBatch, ParkCap) /\ cache' = cache
        <4>1. parked \o tipBatch \in Seq(Ids)
          BY <1>0, ConcatProperties
        <4>2. parked' = parked \o tipBatch
          BY <1>0, <3>1, <4>1, NewestFacts DEF ParkHasRoom
        <4>3. QED
          BY <1>0, <3>1, <4>2, ToSetConcat
      <3>2. QED
        BY <2>1, <3>1
    <2>3. QED
      BY <2>1, <2>2 DEF Held, OnItsWay, InSocket, PutOff, ToBeLoaded, serverVars, linkVars, preloadVars
  <1>3. CASE FlushParked
    <2>1. /\ cache' = cache \cup ToSet(parked)
          /\ UNCHANGED <<serverVars, linkVars, tipBatch, paused, scrolls, preloadVars>>
      BY <1>3 DEF FlushParked
    <2>2. QED
      BY <2>1 DEF Held, OnItsWay, InSocket, PutOff, ToBeLoaded, serverVars, linkVars, preloadVars
  <1>4. CASE ScrollAway \/ ScrollBack
    BY <1>4 DEF ScrollAway, ScrollBack, Held, OnItsWay, InSocket, PutOff, ToBeLoaded,
                serverVars, linkVars, preloadVars
  <1>5. QED
    BY <1>1, <1>2, <1>3, <1>4

(* The preload hands an event on from page to page.                         *)
LEMMA PreloadKeepsHeld ==
    ASSUME Typed, RingInOrder, PagesGoOn, OnSnapshot \/ ServePage \/ OnPage,
           \A e \in ToSet(ring) \ Displaced : Held(e) \/ OnSnapshot
    PROVE  \A e \in ToSet(ring') \ Displaced : Held(e)'
  <1>0. TypeOK /\ MaxId \in Nat /\ ToSet(ring) \subseteq 1..MaxId
    BY CapsAreNumbers, ToSetType DEF Typed, TypeOK
  <1>1. CASE OnSnapshot
    <2>1. preload' = "asked" /\ before' = MaxId + 1 /\ ring' = ring
      BY <1>1 DEF OnSnapshot, serverVars
    <2>2. \A e \in ToSet(ring') : e < before'
      BY <1>0, <2>1
    <2>3. QED
      BY <2>1, <2>2 DEF Held, ToBeLoaded
  <1>2. CASE ServePage
    <2>1. /\ preload = "asked" /\ preload' = "answered"
          /\ UNCHANGED <<serverVars, linkVars, cache, readerVars, before, ready, failed, failures>>
      BY <1>2 DEF ServePage
    <2>2. \A e \in ToSet(ring) \ Displaced : e < before =>
              e \in page'.ids \/ (~page'.exhausted /\ e < Min(page'.ids))
      BY <1>2, PageFacts
    <2>3. ASSUME NEW e \in ToSet(ring') \ Displaced
          PROVE  Held(e)'
      <3>1. e \in ToSet(ring) \ Displaced /\ (Held(e) \/ OnSnapshot)
        BY <2>1 DEF serverVars
      <3>2. Held(e)
        BY <1>2, <3>1 DEF OnSnapshot, ServePage
      <3>3. ToBeLoaded(e) => ToBeLoaded(e)'
        BY <2>1, <2>2, <3>1 DEF ToBeLoaded
      <3>4. QED
        BY <2>1, <3>2, <3>3 DEF Held, OnItsWay, InSocket, PutOff, serverVars, linkVars, readerVars
    <2>4. QED
      BY <2>3
  <1>3. CASE OnPage /\ ~OnSnapshot
    <2>1. /\ preload = "answered" /\ cache' = cache \cup page.ids
          /\ ~page.exhausted /\ page.ids # {} => preload' = "asked" /\ before' = Min(page.ids)
          /\ UNCHANGED <<serverVars, linkVars, readerVars, failed, failures>>
      BY <1>3, Zenon DEF OnPage, NextCursor
    <2>2. ~page.exhausted => page.ids # {}
      BY <2>1 DEF PagesGoOn
    <2>3. ASSUME NEW e \in ToSet(ring') \ Displaced
          PROVE  Held(e)'
      <3>1. e \in ToSet(ring) \ Displaced /\ Held(e)
        BY <1>3, <2>1 DEF serverVars
      <3>2. ToBeLoaded(e) => ToBeLoaded(e)' \/ e \in cache'
        BY <2>1, <2>2, Zenon DEF ToBeLoaded
      <3>3. QED
        BY <2>1, <3>1, <3>2 DEF Held, OnItsWay, InSocket, PutOff, serverVars, linkVars, readerVars
    <2>4. QED
      BY <2>3
  <1>4. QED
    BY <1>1, <1>2, <1>3

LEMMA HeldIsTheProperty ==
    NothingFallsBetween <=> (~SnapshotDue /\ ~failed => \A e \in ToSet(ring) \ Displaced : Held(e))
  BY DEF NothingFallsBetween, Held

FeedInv == Typed /\ RingInOrder /\ PagesGoOn /\ NothingFallsBetween

LEMMA InitFeedInv ==
    ASSUME Init
    PROVE  FeedInv
  <1>1. Typed
    BY InitTyped
  <1>2. RingInOrder
    <2>1. ring = Restored /\ ring \in Seq(Nat)
      <3>1. ring \in Seq(1..MaxId) /\ MaxId \in Nat
        BY <1>1, CapsAreNumbers DEF Typed, TypeOK
      <3>2. \A i \in 1..Len(ring) : ring[i] \in Nat
        BY <3>1, ElementOfSeq
      <3>3. QED
        BY <3>1, <3>2, SeqRetype DEF Init
    <2>2. ASSUME NEW i \in 1..Len(ring)
          PROVE  ring[i] < nextId
      <3> DEFINE S == {0} \cup ToSet(ring)
      <3>1. S \in SUBSET Nat /\ S # {} /\ \A m \in S : m <= MaxId
        <4>1. ring \in Seq(1..MaxId) /\ MaxId \in Nat
          BY <1>1, CapsAreNumbers DEF Typed, TypeOK
        <4>2. QED
          BY <4>1, ToSetType
      <3>2. \A m \in S : m <= Max(S)
        BY <3>1, CapsAreNumbers, MaxIsGreatest
      <3>3. ring[i] \in S
        BY DEF ToSet
      <3>4. Max(S) \in S
        BY <3>1, CapsAreNumbers, MaxIsGreatest
      <3>5. nextId = 1 + Max(S)
        BY <2>1 DEF Init
      <3> HIDE DEF S
      <3>6. ring[i] \in Nat /\ Max(S) \in Nat /\ ring[i] <= Max(S)
        BY <3>1, <3>2, <3>3, <3>4
      <3>7. QED
        BY <3>5, <3>6
    <2>3. ASSUME NEW i \in 1..Len(ring), NEW j \in 1..Len(ring), i < j
          PROVE  ring[i] \in Displaced \/ ring[i] <= ring[j]
      <3>1. ring \in Seq(1..MaxId) /\ MaxId \in Nat
        BY <1>1, CapsAreNumbers DEF Typed, TypeOK
      <3>2. CASE ring[j] < ring[i]
        <4>1. i \in 1..Len(Restored) /\ j \in (i + 1)..Len(Restored)
          BY <2>1, <2>3, <3>1
        <4>2. ring[i] = Restored[i] /\ ring[j] = Restored[j]
          BY <2>1
        <4>3. QED
          BY <3>2, <4>1, <4>2 DEF Displaced
      <3>3. CASE ~(ring[j] < ring[i])
        BY <3>1, <3>3
      <3>4. QED
        BY <3>2, <3>3
    <2>4. QED
      BY <2>2, <2>3 DEF RingInOrder
  <1>3. PagesGoOn
    BY Zenon DEF Init, PagesGoOn
  <1>4. NothingFallsBetween
    BY DEF Init, NothingFallsBetween, SnapshotDue
  <1>5. QED
    BY <1>1, <1>2, <1>3, <1>4 DEF FeedInv

LEMMA StepFeedInv ==
    ASSUME FeedInv, [Next]_vars, ParkHasRoom'
    PROVE  FeedInv'
  <1>1. Typed /\ RingInOrder /\ PagesGoOn /\ NothingFallsBetween
    BY DEF FeedInv
  <1>2. Typed' /\ RingInOrder' /\ PagesGoOn'
    BY <1>1, StepTyped, StepRingInOrder, StepPagesGoOn
  <1>3. ASSUME ~SnapshotDue', ~failed'
        PROVE  \A e \in ToSet(ring') \ Displaced : Held(e)'
    <2>1. ~SnapshotDue \/ OnSnapshot
      BY <1>1, <1>3, DueStays
    <2>2. ~failed \/ OnSnapshot
      <3>1. \/ UNCHANGED failed \/ OnSnapshot \/ PageFails
        BY DEF Next, vars, Deliver, Load, preloadVars, Push, Broadcast, Subscribe, Disconnect,
               SendSnapshot, Relay, Lagged, OnEvent, Frame, FlushParked, ScrollAway,
               ScrollBack, ServePage, OnPage
      <3>2. ~PageFails
        BY <1>3, Zenon DEF PageFails
      <3>3. QED
        BY <1>3, <3>1, <3>2, Zenon
    <2>3. \A e \in ToSet(ring) \ Displaced : Held(e) \/ OnSnapshot
      BY <1>1, <2>1, <2>2, HeldIsTheProperty
    <2>4. CASE OnSnapshot \/ ServePage \/ OnPage
      BY <1>1, <2>3, <2>4, PreloadKeepsHeld
    <2>5. CASE (Push \/ Broadcast \/ Relay) /\ ~OnSnapshot
      BY <1>1, <2>3, <2>5, ServerKeepsHeld
    <2>6. CASE (OnEvent \/ Frame \/ FlushParked \/ ScrollAway \/ ScrollBack) /\ ~OnSnapshot
      <3>1. ring' = ring
        BY <2>6 DEF OnEvent, Frame, FlushParked, ScrollAway, ScrollBack, serverVars
      <3>2. QED
        BY <1>1, <2>3, <2>6, <3>1, PageKeepsHeld
    <2>7. CASE UNCHANGED vars /\ ~OnSnapshot
      BY <2>3, <2>7 DEF vars, serverVars, linkVars, readerVars, preloadVars,
                        Held, OnItsWay, InSocket, PutOff, ToBeLoaded
    <2>8. ~Subscribe /\ ~Disconnect /\ ~Lagged
      BY <1>3 DEF SnapshotDue, Subscribe, Disconnect, Lagged
    <2>9. ~SendSnapshot
      <3>1. ASSUME SendSnapshot
            PROVE  FALSE
        <4>1. Len(socket) + 1 \in 1..Len(socket') /\ socket'[Len(socket) + 1] = SnapshotMsg
          BY <1>1, <3>1, MessageTypes, SocketGrows DEF Typed, SendSnapshot
        <4>2. socket'[Len(socket) + 1].type = "snapshot"
          BY <1>1, <4>1, MessageTypes DEF Typed
        <4>3. QED
          BY <1>3, <4>1, <4>2 DEF SnapshotDue
      <3>2. QED
        BY <3>1
    <2>10. ~PageFails
      BY <1>3, Zenon DEF PageFails
    <2>11. QED
      BY <2>4, <2>5, <2>6, <2>7, <2>8, <2>9, <2>10 DEF Next, Deliver, Load
  <1>4. NothingFallsBetween'
    BY <1>3 DEF NothingFallsBetween, Held
  <1>5. QED
    BY <1>2, <1>4 DEF FeedInv

(* Nothing falls between: unless a page fetch fails or the put-off list     *)
(* overflows, every event of the ring that boot did not put before an older *)
(* one is indexed by the page, in flight to it, put off, or ahead of its    *)
(* preload, however publish, ws_client and the page interleave, lag or      *)
(* reconnect, and in whatever order the ring was restored.                  *)
THEOREM FeedHasNoGap == Spec /\ []ParkHasRoom => []NothingFallsBetween
  <1>1. Init => FeedInv
    BY InitFeedInv
  <1>2. FeedInv /\ [Next]_vars /\ ParkHasRoom' => FeedInv'
    BY StepFeedInv
  <1>3. FeedInv => NothingFallsBetween
    BY DEF FeedInv
  <1>4. QED
    BY <1>1, <1>2, <1>3, PTL DEF Spec

LEMMA GapFreeCovers == FeedInv => WindowIsCovered
  <1> SUFFICES ASSUME FeedInv, conn = "live", rx = Len(sent), sending = 0, socket = <<>>,
                      tipBatch = <<>>, parked = <<>>, ready, ~failed
               PROVE  ToSet(ring) \ Displaced \subseteq cache
    BY DEF WindowIsCovered, DoneLoading
  <1>1. Typed /\ PagesGoOn /\ NothingFallsBetween
    BY DEF FeedInv
  <1>2. Len(socket) = 0 /\ Len(tipBatch) = 0 /\ Len(parked) = 0
    OBVIOUS
  <1>3. ~SnapshotDue
    BY <1>2 DEF SnapshotDue
  <1>4. preload = "none"
    BY <1>1 DEF PagesGoOn
  <1>5. ASSUME NEW e \in ToSet(ring) \ Displaced
        PROVE  e \in cache
    <2>1. Held(e)
      BY <1>1, <1>3 DEF NothingFallsBetween, Held
    <2>2. e \in Nat \ {0}
      <3>1. ring \in Seq(1..MaxId) /\ MaxId \in Nat
        BY <1>1, CapsAreNumbers DEF Typed, TypeOK
      <3>2. QED
        BY <3>1, ToSetType
    <2>3. ~OnItsWay(e)
      <3>1. Len(sent) \in Nat
        BY <1>1 DEF Typed, TypeOK
      <3>2. (rx + 1)..Len(sent) = {}
        BY <3>1
      <3>3. QED
        BY <2>2, <3>2 DEF OnItsWay
    <2>4. ~InSocket(e) /\ ~PutOff(e)
      BY <1>2 DEF InSocket, PutOff, ToSet
    <2>5. ~ToBeLoaded(e)
      BY <1>4 DEF ToBeLoaded
    <2>6. QED
      BY <2>1, <2>3, <2>4, <2>5 DEF Held
  <1>6. QED
    BY <1>5

(* A page that is live, done loading and has nothing left to handle has     *)
(* every event of the ring but those that boot put before an older one,     *)
(* which is all that is missing when /api/buffer says "exhausted".          *)
THEOREM LoadedWindowIsWhole == Spec /\ []ParkHasRoom => []WindowIsCovered
  <1>1. Init => FeedInv
    BY InitFeedInv
  <1>2. FeedInv /\ [Next]_vars /\ ParkHasRoom' => FeedInv'
    BY StepFeedInv
  <1>3. QED
    BY <1>1, <1>2, GapFreeCovers, PTL DEF Spec

=============================================================================
