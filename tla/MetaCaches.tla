----------------------------- MODULE MetaCaches -----------------------------
(***************************************************************************)
(* The caches of names the enricher keeps in memory and on disk: pool      *)
(* tickers (pools.rs), DRep names (dreps.rs) and governance-action titles  *)
(* (gov_actions.rs), with the lookups and scrapes that fill them           *)
(* (enrich.rs).  A name is a version number, 0 where the backend has none. *)
(*                                                                         *)
(* Lookups run one task per web request and are not joined; the scrapes of *)
(* boot and of the daily loop run beside them, and, for pools, beside each *)
(* other.  Every change of a cache rewrites its file, so a restart reads   *)
(* back what memory held.                                                  *)
(***************************************************************************)
EXTENDS Naturals, Sequences, FiniteSets, SequencesExt

CONSTANTS
    Listing,      \* the ids in the order the backend lists them
    PAGE,         \* rows of one page
    Actions,      \* governance actions, tx#index
    MaxName, MaxScrapes, MaxAsking, \* bounds
    MaxLookups,   \* bound: lookups in flight on each cache
    Idle

Ids == ToSet(Listing)
ASSUME MetaCachesAssumption == PAGE \in Nat \ {0} /\ Listing \in Seq(Ids)

Caches == {"pools", "dreps"}

(* The tasks that scrape: pools at boot and daily, each on its own; DReps one *)
(* at a time, whoever asks (scrape_lock).                                   *)
Scrapers == {"boot", "daily", "dreps"}

VARIABLES
    name,     \* the backend's current name of each id
    cache,    \* by_id of either cache: id |-> name, for the ids it knows
    alias,    \* by_id of DReps under the spelling the backend does not list
    scrape,   \* the scrape of each task, or Idle
    booted,   \* whether boot's scrape of the pools has begun
    lookups,  \* lookups in flight: [of, id, listed, answer]
    floor,    \* note: the newest names a completed scrape began with
    excused,  \* note: the ids a completed scrape or a later answer failed
    scrapes,  \* number of scrapes begun
    titles,   \* gov-action by_key: action |-> [title, url] as Booleans
    asking,   \* resolutions in flight: [action, anchor, answer]
    confirmed, titled, \* note: actions somebody answered for, and once titled
    cutOff    \* note: actions with an anchor whose body could not be read

cacheVars == <<name, cache, alias, scrape, booted, lookups, floor, excused, scrapes>>
titleVars == <<titles, asking, confirmed, titled, cutOff>>

Nothing == [i \in {} |-> 0]
CacheInit ==
    /\ name \in [Ids -> 0..1]
    /\ cache = [c \in Caches |-> Nothing] /\ alias = Nothing
    /\ scrape = [w \in Scrapers |-> Idle] /\ booted = FALSE
    /\ lookups = {} /\ scrapes = 0
    /\ floor = [c \in Caches |-> [i \in Ids |-> 0]] /\ excused = [c \in Caches |-> {}]

TitleInit == titles = Nothing /\ asking = {} /\ confirmed = {} /\ titled = {} /\ cutOff = {}

-----------------------------------------------------------------------------
(* The maps.                                                               *)

\* Mutant: entry(..).or_insert(..), the name first learned is kept.
RememberedFirst(map, id, n) == IF n = 0 \/ id \in DOMAIN map THEN map ELSE map @@ (id :> n)

\* remember: an entry without a label is not kept, any other replaces.
Remembered(map, id, n) ==
    IF n = 0 THEN map ELSE [i \in DOMAIN map \cup {id} |-> IF i = id THEN n ELSE map[i]]

\* remember_many over the rows of a list.
RememberMany(map, rows) ==
    LET labelled == {i \in ToSet(rows) : name[i] # 0}
    IN  [i \in DOMAIN map \cup labelled |-> IF i \in labelled THEN name[i] ELSE map[i]]

PageRows(page) == SubSeq(Listing, (page - 1) * PAGE + 1,
                     IF page * PAGE < Len(Listing) THEN page * PAGE ELSE Len(Listing))

-----------------------------------------------------------------------------
(* The backend and the lookups.                                            *)

Rename ==
    /\ \E i \in Ids : name[i] < MaxName /\ name' = [name EXCEPT ![i] = @ + 1]
    /\ UNCHANGED <<cache, alias, scrape, booted, lookups, floor, excused, scrapes>>

Asks(c, i, listed, answer) ==
    /\ Cardinality(lookups) < MaxLookups[c]
    /\ lookups' = lookups \cup {[of |-> c, id |-> i, listed |-> listed, answer |-> answer]}
    /\ UNCHANGED <<name, cache, alias, scrape, booted, floor, excused, scrapes>>

\* Enricher::pool: what is known is never asked again; a miss is asked and
\* answered now, or the request fails.
LookUpPool == \E i \in Ids \ DOMAIN cache["pools"] : Asks("pools", i, TRUE, name[i])

\* Enricher::drep, warm_from_events: a name under either spelling is a hit.
\* The anchor of an old registration gives the name of its time.
LookUpDrep ==
    \E i \in Ids \ (DOMAIN cache["dreps"] \cup DOMAIN alias), listed \in BOOLEAN :
      \E n \in 0..name[i] : Asks("dreps", i, listed, n)

\* The answer is remembered whenever it arrives, over whatever a scrape wrote
\* in the meantime, and under the spelling that was asked for.
LookedUp ==
    \E l \in lookups :
      LET stale(names) == l.listed /\ l.answer < names[l.id]
      IN  /\ lookups' = lookups \ {l}
          /\ IF l.listed
             THEN cache' = [cache EXCEPT ![l.of] = Remembered(@, l.id, l.answer)] /\ UNCHANGED alias
             ELSE alias' = Remembered(alias, l.id, l.answer) /\ UNCHANGED cache
          /\ excused' = IF stale(floor[l.of])
                        THEN [excused EXCEPT ![l.of] = @ \cup {l.id}] ELSE excused
          /\ scrape' = IF l.of = "dreps" /\ scrape["dreps"] # Idle /\ stale(scrape["dreps"].began)
                       THEN [scrape EXCEPT !["dreps"].failed = @ \cup {l.id}] ELSE scrape
          /\ UNCHANGED <<name, booted, floor, scrapes>>

-----------------------------------------------------------------------------
(* Scrapes.  by is "list" while pages with embedded metadata are read and  *)
(* "ids" once each id's /metadata is asked; map is what pools.rs collects. *)

Begin(by) == [by |-> by, page |-> 1, todo |-> IF by = "ids" THEN Ids ELSE {},
              map |-> Nothing, began |-> name, failed |-> {}]
Cached(w) == IF w = "dreps" THEN "dreps" ELSE "pools"

\* refresh.  Boot scrapes the pools once, when none are cached or it is told
\* to; the daily loop scrapes them in a task of its own, and nothing keeps the
\* two apart.  scrape_lock.try_lock keeps a second DRep scrape out.
StartScrape(w) ==
    /\ scrape[w] = Idle /\ scrapes < MaxScrapes
    /\ w = "boot" => ~booted
    /\ scrape' = [scrape EXCEPT ![w] = Begin("list")]
    /\ booted' = (booted \/ w = "boot")
    /\ scrapes' = scrapes + 1
    /\ UNCHANGED <<name, cache, alias, lookups, floor, excused>>

\* The end of a scrape that wrote `map` into its cache.  One that began before
\* another that is done already may bring an older name back.
Finish(w, map) ==
    LET c == Cached(w)
        overtaken == {i \in Ids : scrape[w].began[i] < floor[c][i]}
    IN  /\ scrape' = [scrape EXCEPT ![w] = Idle]
        /\ cache' = [cache EXCEPT ![c] = map]
        /\ floor' = [floor EXCEPT ![c] = [i \in Ids |-> IF i \in overtaken THEN @[i]
                                                       ELSE scrape[w].began[i]]]
        /\ excused' = [excused EXCEPT ![c] = scrape[w].failed \cup overtaken]
        /\ UNCHANGED <<name, alias, booted, lookups, scrapes>>

\* A step in the middle of one.
Goes(w, s) ==
    /\ scrape' = [scrape EXCEPT ![w] = s]
    /\ UNCHANGED <<name, alias, booted, lookups, floor, excused, scrapes>>

GivesUp(w) == Goes(w, Idle) /\ UNCHANGED cache

\* PoolCache::refresh: the map is replaced, unless nothing was collected.
ReplacePools(w, map) == IF DOMAIN map = {} THEN GivesUp(w) ELSE Finish(w, map)

\* scrape_extended: pages until a short one; a failed page, or a list without
\* a single ticker, falls back to the ids.
PoolPage(w) ==
    LET s == scrape[w]
    IN  /\ s # Idle /\ s.by = "list"
        /\ \/ LET map == RememberMany(s.map, PageRows(s.page))
              IN  IF Len(PageRows(s.page)) = PAGE
                  THEN Goes(w, [s EXCEPT !.map = map, !.page = @ + 1]) /\ UNCHANGED cache
                  ELSE IF DOMAIN map # {} THEN ReplacePools(w, map)
                  ELSE Goes(w, [Begin("ids") EXCEPT !.began = s.began]) /\ UNCHANGED cache
           \/ Goes(w, [Begin("ids") EXCEPT !.began = s.began]) /\ UNCHANGED cache

\* scrape_list_and_metadata: the ids are asked in any order; one that does not
\* answer in time is left out.  A list that cannot be read fails the scrape.
PoolMetadata(w) ==
    LET s == scrape[w]
    IN  /\ s # Idle /\ s.by = "ids"
        /\ \/ s.todo = Ids /\ GivesUp(w)
           \/ \E i \in s.todo : \E answers \in BOOLEAN :
                LET map  == IF answers THEN Remembered(s.map, i, name[i]) ELSE s.map
                    fail == IF answers THEN s.failed ELSE s.failed \cup {i}
                    next == [s EXCEPT !.map = map, !.todo = @ \ {i}, !.failed = fail]
                IN  Goes(w, next) /\ UNCHANGED cache
           \/ s.todo = {} /\ ReplacePools(w, s.map)

\* scrape_list_unpaged: one request for the whole list, every request retried
\* until it succeeds.  A backend that ignores the header returns one page, and
\* is recognised by a second page that is not empty.
DrepUnpaged ==
    LET s == scrape["dreps"]
    IN  /\ s # Idle /\ s.by = "list" /\ s.page = 1
        /\ \/ Listing # <<>> /\ Finish("dreps", RememberMany(cache["dreps"], Listing))
           \/ Goes("dreps", [s EXCEPT !.by = "ids", !.todo = Ids]) /\ UNCHANGED cache
           \/ /\ Len(Listing) > PAGE
              /\ Goes("dreps", [s EXCEPT !.by = "pages"]) /\ UNCHANGED cache

\* scrape_list_embedded: each page is merged as it comes; a first page without
\* a metadata field turns to the ids.
DrepPage ==
    LET s == scrape["dreps"]
        merged == RememberMany(cache["dreps"], PageRows(s.page))
    IN  /\ s # Idle /\ s.by = "pages"
        /\ \/ s.page = 1 /\ Goes("dreps", [s EXCEPT !.by = "ids", !.todo = Ids]) /\ UNCHANGED cache
           \/ IF Len(PageRows(s.page)) < PAGE THEN Finish("dreps", merged)
              ELSE /\ Goes("dreps", [s EXCEPT !.page = @ + 1])
                   /\ cache' = [cache EXCEPT !["dreps"] = merged]

\* fetch_drep_metadata_retry for each id, remembered one by one.
DrepMetadata ==
    LET s == scrape["dreps"]
    IN  /\ s # Idle /\ s.by = "ids"
        /\ \/ \E i \in s.todo :
                /\ Goes("dreps", [s EXCEPT !.todo = @ \ {i}])
                /\ cache' = [cache EXCEPT !["dreps"] = Remembered(@, i, name[i])]
           \/ s.todo = {} /\ Finish("dreps", cache["dreps"])

\* A restart reads the files back; scrapes and lookups in flight are lost.
RestartCaches ==
    /\ scrape' = [w \in Scrapers |-> Idle] /\ booted' = FALSE /\ lookups' = {}
    /\ UNCHANGED <<name, cache, alias, floor, excused, scrapes>>

PoolNext == \/ Rename \/ LookUpPool \/ LookedUp \/ RestartCaches
            \/ \E w \in {"boot", "daily"} : StartScrape(w) \/ PoolPage(w) \/ PoolMetadata(w)
DrepNext == Rename \/ LookUpDrep \/ LookedUp \/ StartScrape("dreps")
            \/ DrepUnpaged \/ DrepPage \/ DrepMetadata \/ RestartCaches

CacheSpec == CacheInit /\ [][PoolNext \/ DrepNext]_cacheVars

-----------------------------------------------------------------------------
(* Governance-action titles.                                               *)

Entry(title, url) == [title |-> title, url |-> url]
AnchorAnswers  == {"ok", "miss", "cut", "error"}
BackendAnswers == {"titled", "untitled", "url", "miss", "error", "none"}

\* Mutant: a lookup that failed is recorded as an empty entry, as older
\* versions did.
ResolveOneHollow(anchor, first, backend, second) ==
    CASE anchor /\ first = "ok"      -> Entry(TRUE, TRUE)
      [] ~anchor /\ backend = "titled" -> Entry(TRUE, FALSE)
      [] OTHER                       -> Entry(FALSE, FALSE)

\* resolve_one: the anchor of the event or of Ogmios first; where it cannot be
\* fetched the backend, and where that has no title, the anchor it or the
\* event names.  Idle: nothing definite, to be retried.  A body cut off on the
\* way is a miss to fetch_anchor_title, like one without a title.
ResolveOne(anchor, first, backend, second) ==
    CASE anchor /\ first = "ok"             -> Entry(TRUE, TRUE)
      [] anchor /\ first \in {"miss", "cut"} -> Entry(FALSE, TRUE)
      [] OTHER ->
         CASE backend = "titled"             -> Entry(TRUE, FALSE)
           [] backend = "miss"               -> Entry(FALSE, FALSE)
           [] backend \in {"none", "error"}  -> Idle
           [] backend = "untitled" /\ ~anchor -> Entry(FALSE, FALSE)
           [] OTHER -> CASE second = "ok"    -> Entry(TRUE, TRUE)
                         [] second \in {"miss", "cut"} -> Entry(FALSE, TRUE)
                         [] second = "error" -> Idle

\* remember: a title is never replaced by none.
Better(old, new) == ~old.title /\ (new.title \/ (new.url /\ ~old.url))

\* The last one asked answered: the anchor's host, or the backend where it has
\* a title, knows of no action, or nobody names an anchor.
Spoke(anchor, first, backend, second) ==
    \/ anchor /\ first \in {"ok", "miss"}
    \/ /\ ~anchor \/ first = "error"
       /\ \/ backend \in {"titled", "miss"}
          \/ backend = "untitled" /\ ~anchor
          \/ backend \in {"url", "untitled"} /\ second \in {"ok", "miss"}

\* collect_refs: an action not yet resolved is asked for, by the block task or
\* by a web request; the two are not joined.
Ask(a, answer, spoke, wasCut) ==
    /\ Cardinality(asking) < MaxAsking
    /\ asking' = asking \cup {[action |-> a, answer |-> answer]}
    /\ confirmed' = IF spoke THEN confirmed \cup {a} ELSE confirmed
    /\ cutOff' = IF wasCut THEN cutOff \cup {a} ELSE cutOff
    /\ UNCHANGED <<titles, titled>>

AskTitle ==
    \E a \in Actions \ DOMAIN titles, anchor \in BOOLEAN, backend \in BackendAnswers,
       first \in AnchorAnswers, second \in AnchorAnswers :
        Ask(a, ResolveOne(anchor, first, backend, second), Spoke(anchor, first, backend, second),
            "cut" \in {first, second})

\* The answer of a resolution: a failure leaves the action unresolved.
TitleAnswered ==
    \E q \in asking :
      /\ asking' = asking \ {q}
      /\ IF q.answer = Idle \/ (q.action \in DOMAIN titles /\ ~Better(titles[q.action], q.answer))
         THEN UNCHANGED <<titles, titled>>
         ELSE /\ titles' = [a \in DOMAIN titles \cup {q.action} |->
                               IF a = q.action THEN q.answer ELSE titles[a]]
              /\ titled' = IF q.answer.title THEN titled \cup {q.action} ELSE titled
      /\ UNCHANGED <<confirmed, cutOff>>

\* load: entries with neither title nor url are dropped, and asked again.
RestartTitles ==
    /\ titles' = Restrict(titles, {a \in DOMAIN titles : titles[a].title \/ titles[a].url})
    /\ asking' = {}
    /\ UNCHANGED <<confirmed, titled, cutOff>>

TitleNext == AskTitle \/ TitleAnswered \/ RestartTitles
TitleSpec == TitleInit /\ [][TitleNext]_titleVars

-----------------------------------------------------------------------------
(* Properties.                                                             *)

\* What get returns: the spelling asked for before the other.
NameShown(c, i, listed) ==
    IF c = "dreps" /\ i \in DOMAIN alias /\ (~listed \/ i \notin DOMAIN cache[c])
    THEN alias[i] ELSE IF i \in DOMAIN cache[c] THEN cache[c][i] ELSE 0

\* After completed scrapes either cache shows every id that had a name when the
\* newest of them began by that name or a later one, through later lookups and
\* restarts.  The exceptions are named: a pool whose own /metadata request
\* failed (pools.rs:309 drops it from the map); a pool renamed between the
\* starts of two scrapes that overlapped, the older ending last; an id a lookup
\* asked about before the scrape and answered after it (enrich.rs:558); and a
\* DRep remembered under a spelling no scrape writes, asked for by that one.
NamesAreRecent ==
    \A c \in Caches, listed \in BOOLEAN : \A i \in Ids \ excused[c] :
        \/ floor[c][i] > 0 => NameShown(c, i, listed) >= floor[c][i]
        \/ c = "dreps" /\ ~listed /\ i \in DOMAIN alias

\* Only a confirmed answer resolves an action: a failed request never does, so
\* it is asked again (gov_actions.rs:296), but for an anchor whose body could
\* not be read; and a title once learned is kept, whatever other resolutions
\* answer later and across restarts.
TitlesAreConfirmed ==
    /\ DOMAIN titles \subseteq confirmed \cup cutOff
    /\ \A a \in titled : a \in DOMAIN titles /\ titles[a].title

\* "Only confirmed results are written ... Network failures are not cached so
\* we retry later" (gov_actions.rs).
FailuresAreNotCached == DOMAIN titles \subseteq confirmed
=============================================================================
