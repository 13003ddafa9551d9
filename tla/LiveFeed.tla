------------------------------ MODULE LiveFeed ------------------------------
(***************************************************************************)
(* One browser following the server: publish (src/state.rs) pushes an      *)
(* event onto the ring and then broadcasts it; ws_client (src/server.rs)   *)
(* subscribes, sends a snapshot of the newest events and relays the        *)
(* broadcast; the page (static/app.js) indexes what the socket brings      *)
(* while it loads the rest of the retention window over /api/buffer.       *)
(*                                                                         *)
(* Publisher, ws_client, the page's message handler and its preload run    *)
(* concurrently, so each lock-protected or await-separated part is a step. *)
(* An event is its id.                                                     *)
(***************************************************************************)
EXTENDS Naturals, Sequences, SequencesExt

CONSTANTS
    Restored,      \* ids in the ring after boot, in ring order
    ChannelCap,    \* messages the broadcast channel keeps (4096)
    SnapshotSize,  \* events in a snapshot (25)
    PageSize,      \* events in a page of /api/buffer
    SocketCap,     \* messages in flight to the browser
    ParkCap,       \* events parked while the reader has scrolled away (800)
    MaxId,         \* bound: ids assigned
    MaxTrim,       \* bound: events one publish trims from the ring
    MaxDrops,      \* bound: lost sockets
    MaxFailures,   \* bound: failed page fetches
    MaxScrolls     \* bound: times the reader scrolls away

ASSUME FeedAssumption ==
    /\ Restored \in Seq(Nat \ {0})
    /\ \A i \in 1..Len(Restored) : Restored[i] <= MaxId
    /\ {ChannelCap, SnapshotSize, PageSize, SocketCap, ParkCap} \subseteq Nat \ {0}
    /\ {MaxId, MaxTrim, MaxDrops, MaxFailures, MaxScrolls} \subseteq Nat

VARIABLES
    ring,     \* AppState.events
    nextId,   \* AppState.next_id
    sending,  \* id pushed but not broadcast yet, 0 if none
    sent,     \* all ids broadcast so far, in order
    conn,     \* ws_client: "closed", "subscribed" (snapshot due), "live"
    rx,       \* its receiver: how many of sent are behind it
    socket,   \* messages on their way to the browser
    cache,    \* retentionCache of the page
    tipBatch, \* live events the next frame inserts
    parked,   \* live events put off while the reader is elsewhere (pending)
    paused,   \* the reader has scrolled away from the tip (isPaused)
    scrolls,
    preload,  \* "none", or where startRetentionPreload waits
    before,   \* its cursor
    page,     \* the answer it waits for
    ready,    \* retentionReady
    failed,   \* history: the current preload gave up
    drops, failures

serverVars == <<ring, nextId, sending, sent>>
linkVars == <<conn, rx, socket, drops>>
preloadVars == <<preload, before, page, ready, failed, failures>>
readerVars == <<tipBatch, parked, paused, scrolls>>
vars == <<serverVars, linkVars, cache, readerVars, preloadVars>>

NewestUncapped(s, n) == s                                \* fault: no capacity

(* The last n elements, or all when there are fewer. *)
Newest(s, n) == SubSeq(s, (IF Len(s) <= n THEN 0 ELSE Len(s) - n) + 1, Len(s))

NoPage == [ids |-> {}, exhausted |-> TRUE]

Init ==
    /\ ring = Restored /\ nextId = 1 + Max({0} \cup ToSet(Restored))
    /\ sending = 0 /\ sent = <<>>
    /\ conn = "closed" /\ rx = 0 /\ socket = <<>> /\ drops = 0
    /\ cache = {} /\ tipBatch = <<>> /\ parked = <<>> /\ paused = FALSE /\ scrolls = 0
    /\ preload = "none" /\ before = MaxId + 1 /\ page = NoPage
    /\ ready = FALSE /\ failed = FALSE /\ failures = 0

-----------------------------------------------------------------------------
(* The publisher. *)

(* publish, first half: push, and trim what left the retention window. *)
Push ==
    /\ sending = 0 /\ nextId <= MaxId
    /\ \E k \in 0..MaxTrim :
          /\ k <= Len(ring)
          /\ ring' = SubSeq(Append(ring, nextId), k + 1, Len(ring) + 1)
    /\ sending' = nextId /\ nextId' = nextId + 1
    /\ UNCHANGED <<sent, linkVars, cache, readerVars, preloadVars>>

(* publish, second half: sender.send. *)
Broadcast ==
    /\ sending # 0
    /\ sent' = Append(sent, sending) /\ sending' = 0
    /\ UNCHANGED <<ring, nextId, linkVars, cache, readerVars, preloadVars>>

-----------------------------------------------------------------------------
(* ws_client. *)

SnapshotMsg == [type |-> "snapshot", ids |-> Newest(ring, SnapshotSize)]
EventMsg(e) == [type |-> "event", ids |-> <<e>>]

(* Subscribe before the snapshot is taken. *)
Subscribe ==
    /\ conn = "closed"
    /\ conn' = "subscribed" /\ rx' = Len(sent) /\ socket' = <<>>
    /\ UNCHANGED <<serverVars, drops, cache, readerVars, preloadVars>>

SendSnapshot ==
    /\ conn = "subscribed" /\ Len(socket) < SocketCap
    /\ socket' = Append(socket, SnapshotMsg)
    /\ conn' = "live"
    /\ UNCHANGED <<serverVars, rx, drops, cache, readerVars, preloadVars>>

Relay ==
    /\ conn = "live" /\ rx < Len(sent) /\ rx + ChannelCap >= Len(sent)
    /\ Len(socket) < SocketCap
    /\ socket' = Append(socket, EventMsg(sent[rx + 1])) /\ rx' = rx + 1
    /\ UNCHANGED <<serverVars, conn, drops, cache, readerVars, preloadVars>>

(* Fault: go on with what the channel still holds. *)
LaggedContinues ==
    /\ conn = "live" /\ rx + ChannelCap < Len(sent)
    /\ rx' = Len(sent) - ChannelCap
    /\ UNCHANGED <<serverVars, conn, socket, drops, cache, readerVars, preloadVars>>

(* RecvError::Lagged: resubscribe at the end and send a fresh snapshot. *)
Lagged ==
    /\ conn = "live" /\ rx + ChannelCap < Len(sent)
    /\ conn' = "subscribed" /\ rx' = Len(sent)
    /\ UNCHANGED <<serverVars, socket, drops, cache, readerVars, preloadVars>>

(* The socket closes; the page keeps what it shows and reconnects later. *)
Disconnect ==
    /\ conn # "closed" /\ drops < MaxDrops
    /\ conn' = "closed" /\ socket' = <<>> /\ drops' = drops + 1
    /\ UNCHANGED <<serverVars, rx, cache, readerVars, preloadVars>>

-----------------------------------------------------------------------------
(* The page. *)

(* "snapshot": forget everything, index the tip, start the preload afresh  *)
(* (a new generation: what an older preload still waits for is dropped).   *)
OnSnapshot ==
    /\ socket # <<>> /\ Head(socket).type = "snapshot"
    /\ cache' = ToSet(Head(socket).ids) /\ socket' = Tail(socket)
    /\ preload' = "asked" /\ before' = MaxId + 1 /\ page' = NoPage
    /\ ready' = FALSE /\ failed' = FALSE
    /\ UNCHANGED <<serverVars, conn, rx, drops, readerVars, failures>>

(* onEvent: parked while the reader is elsewhere, else due next frame.      *)
OnEvent ==
    /\ socket # <<>> /\ Head(socket).type = "event"
    /\ LET e == Head(socket).ids[1]
       IN  IF paused
           THEN parked' = Newest(Append(parked, e), ParkCap) /\ UNCHANGED tipBatch
           ELSE tipBatch' = Append(tipBatch, e) /\ UNCHANGED parked
    /\ socket' = Tail(socket)
    /\ UNCHANGED <<serverVars, conn, rx, drops, cache, paused, scrolls, preloadVars>>

(* The animation frame: index the batch, or park it if the reader left.     *)
Frame ==
    /\ tipBatch # <<>>
    /\ IF paused
       THEN parked' = Newest(parked \o tipBatch, ParkCap) /\ UNCHANGED cache
       ELSE cache' = cache \cup ToSet(tipBatch) /\ UNCHANGED parked
    /\ tipBatch' = <<>>
    /\ UNCHANGED <<serverVars, linkVars, paused, scrolls, preloadVars>>

(* The reader scrolls away from the tip and back; back at the tip, a timer  *)
(* indexes what was parked.                                                 *)
ScrollAway ==
    /\ ~paused /\ scrolls < MaxScrolls
    /\ paused' = TRUE /\ scrolls' = scrolls + 1
    /\ UNCHANGED <<serverVars, linkVars, cache, tipBatch, parked, preloadVars>>

ScrollBack ==
    /\ paused /\ paused' = FALSE
    /\ UNCHANGED <<serverVars, linkVars, cache, tipBatch, parked, scrolls, preloadVars>>

(* Fault: the parked events are counted but not indexed. *)
FlushForgets ==
    /\ ~paused /\ parked # <<>>
    /\ parked' = <<>>
    /\ UNCHANGED <<serverVars, linkVars, cache, tipBatch, paused, scrolls, preloadVars>>

FlushParked ==
    /\ ~paused /\ parked # <<>>
    /\ cache' = cache \cup ToSet(parked) /\ parked' = <<>>
    /\ UNCHANGED <<serverVars, linkVars, tipBatch, paused, scrolls, preloadVars>>

(* retention_buffer_page(before, PageSize) on the server: of the positions  *)
(* in the ring below the cursor, the last ones.                             *)
Older(b) == {i \in 1..Len(ring) : ring[i] < b}
LastPage(P) == {i \in P : Cardinality({j \in P : j > i}) < PageSize}

ServePage ==
    /\ preload = "asked"
    /\ LET older == Older(before)
       IN  page' = [ids |-> {ring[i] : i \in LastPage(older)},
                    exhausted |-> Cardinality(older) <= PageSize]
    /\ preload' = "answered"
    /\ UNCHANGED <<serverVars, linkVars, cache, readerVars, before, ready, failed, failures>>

CursorSkipsOne == Min(page.ids) - 1                   \* fault
NextCursor == Min(page.ids)

(* Index the page; ask for the next one or declare the window loaded. *)
OnPage ==
    /\ preload = "answered"
    /\ cache' = cache \cup page.ids
    /\ IF ~page.exhausted /\ page.ids # {}
       THEN preload' = "asked" /\ before' = NextCursor /\ UNCHANGED ready
       ELSE preload' = "none" /\ ready' = TRUE /\ UNCHANGED before
    /\ page' = NoPage
    /\ UNCHANGED <<serverVars, linkVars, readerVars, failed, failures>>

(* A fetch fails: the preload ends and is still declared ready. *)
PageFails ==
    /\ preload # "none" /\ failures < MaxFailures
    /\ preload' = "none" /\ ready' = TRUE /\ failed' = TRUE /\ failures' = failures + 1
    /\ page' = NoPage
    /\ UNCHANGED <<serverVars, linkVars, cache, readerVars, before>>

-----------------------------------------------------------------------------
Deliver == SendSnapshot \/ Relay \/ Lagged \/ OnSnapshot \/ OnEvent
Load == ServePage \/ OnPage

Next ==
    \/ Push \/ Broadcast
    \/ Subscribe \/ Disconnect \/ Deliver
    \/ Frame \/ FlushParked \/ ScrollAway \/ ScrollBack
    \/ Load \/ PageFails

Spec == Init /\ [][Next]_vars

(* The publisher finishes what it began, ws_client and the page never stop, *)
(* the page reconnects, draws frames and runs timers; nothing makes events, *)
(* failures or scrolling happen.                                            *)
FairSpec ==
    /\ Spec
    /\ WF_vars(Broadcast) /\ WF_vars(Subscribe) /\ WF_vars(Deliver) /\ WF_vars(Load)
    /\ WF_vars(Frame) /\ WF_vars(FlushParked)

-----------------------------------------------------------------------------
(* Properties. *)

(* Types, and what each of the bounded buffers on the way may hold: the     *)
(* snapshot, the socket and the parked events never exceed their caps.      *)
TypeOK ==
    /\ ring \in Seq(1..MaxId) /\ nextId \in 1..(MaxId + 1) /\ sending \in 0..MaxId
    /\ sent \in Seq(1..MaxId)
    /\ conn \in {"closed", "subscribed", "live"} /\ rx \in 0..Len(sent)
    /\ socket \in Seq([type : {"snapshot", "event"}, ids : Seq(1..MaxId)])
    /\ \A i \in 1..Len(socket) : Len(socket[i].ids) <= SnapshotSize
    /\ Len(socket) <= SocketCap /\ drops \in 0..MaxDrops
    /\ cache \subseteq 1..MaxId
    /\ tipBatch \in Seq(1..MaxId) /\ parked \in Seq(1..MaxId) /\ Len(parked) <= ParkCap
    /\ paused \in BOOLEAN /\ scrolls \in 0..MaxScrolls
    /\ preload \in {"none", "asked", "answered"} /\ before \in 1..(MaxId + 1)
    /\ page \in [ids : SUBSET (1..MaxId), exhausted : BOOLEAN]
    /\ ready \in BOOLEAN /\ failed \in BOOLEAN /\ failures \in 0..MaxFailures

(* An event of the window reaches the page's cache in one of these ways. *)
OnItsWay(e) == e = sending \/ \E i \in (rx + 1)..Len(sent) : sent[i] = e
InSocket(e) == \E i \in 1..Len(socket) : e \in ToSet(socket[i].ids)
PutOff(e) == e \in ToSet(tipBatch) \cup ToSet(parked)
ToBeLoaded(e) ==
    \/ preload = "asked" /\ e < before
    \/ preload = "answered" /\ (e \in page.ids \/ (~page.exhausted /\ e < Min(page.ids)))

SnapshotDue == conn # "live" \/ \E i \in 1..Len(socket) : socket[i].type = "snapshot"

(* Events that boot, which sorts by slot, put before an event with a        *)
(* smaller id: those of a fork that was replaced from an earlier slot on.   *)
(* A page takes positions, its cursor goes by ids.                          *)
Displaced == {Restored[i] : i \in {k \in 1..Len(Restored) :
                 \E j \in (k + 1)..Len(Restored) : Restored[j] < Restored[k]}}

(* Nothing falls between stream, snapshot and preload: at every moment an   *)
(* event of the ring is indexed already, or in flight, put off, or ahead of *)
(* the preload's cursor, however the activities interleave, lag or          *)
(* reconnect.  Excepted are failed page fetches, and the displaced events,  *)
(* which the cursor may jump over.                                          *)
NothingFallsBetween ==
    ~SnapshotDue /\ ~failed =>
        \A e \in ToSet(ring) \ Displaced :
            e \in cache \/ OnItsWay(e) \/ InSocket(e) \/ PutOff(e) \/ ToBeLoaded(e)

(* A page that is done loading, with nothing put off or in flight: its last *)
(* answer from /api/buffer said "exhausted".                                *)
DoneLoading ==
    /\ conn = "live" /\ rx = Len(sent) /\ sending = 0 /\ socket = <<>>
    /\ tipBatch = <<>> /\ parked = <<>> /\ ready /\ ~failed

(* Such a page has every event of the ring but the displaced ones.          *)
WindowIsCovered == DoneLoading => ToSet(ring) \ Displaced \subseteq cache

(* "`exhausted` means the retention window is fully covered" (state.rs:     *)
(* retention_buffer_page): such a page has the whole ring.                  *)
ExhaustedCoversWindow == DoneLoading => ToSet(ring) \subseteq cache

(* When events stop, the page ends up with the whole window for good, but   *)
(* for displaced events, however often it lagged or reconnected before,     *)
(* unless the reader stays away from the tip.                               *)
CatchesUp == <>[](failed \/ paused \/ ToSet(ring) \ Displaced \subseteq cache)

=============================================================================
