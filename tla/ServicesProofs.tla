---------------------------- MODULE ServicesProofs ----------------------------
(***************************************************************************)
(* The services beside the block feed, each for itself.                    *)
(*                                                                         *)
(* The caches of names, for any ids, any page size and any number of       *)
(* lookups and scrapes at once: a scrape leaves no name older than it      *)
(* found.  The titles of governance actions: no failed request resolves an *)
(* action, and no later answer and no restart takes a title away.  The     *)
(* token-transfer card, for any transactions, owners and assets: what it   *)
(* says moved, and when it warns.  The past of a certificate's key, for    *)
(* any chain, any rollbacks, any restarts and any answers of the backend:  *)
(* every change is told, and an event's `from` is what the key had.        *)
(***************************************************************************)
EXTENDS CertHistory, Transfers, MetaCaches, DataLemmas

Entries == [title : BOOLEAN, url : BOOLEAN]

(* An answer in flight that says something was given by somebody, or stands *)
(* for a body cut off, which is what TitlesAreConfirmed does not say and an *)
(* answer's arrival needs.                                                  *)
AnswersAreConfirmed ==
    \A q \in asking : /\ q.answer # Idle => q.answer \in Entries /\ q.action \in confirmed \cup cutOff
                      /\ DOMAIN q = {"action", "answer"}

TitlesInv ==
    /\ titles \in [DOMAIN titles -> Entries]
    /\ AnswersAreConfirmed
    /\ TitlesAreConfirmed

-----------------------------------------------------------------------------
(* What resolve_one settles on, somebody answered, the anchor or the       *)
(* backend, or an anchor's body was cut off.                               *)
LEMMA OnlyAnswersResolve ==
    ASSUME NEW anchor \in BOOLEAN, NEW first \in AnchorAnswers,
           NEW backend \in BackendAnswers, NEW second \in AnchorAnswers,
           ResolveOne(anchor, first, backend, second) # Idle
    PROVE  /\ ResolveOne(anchor, first, backend, second) \in Entries
           /\ Spoke(anchor, first, backend, second) \/ "cut" \in {first, second}
  BY DEF ResolveOne, Spoke, Entry, Entries, AnchorAnswers, BackendAnswers

LEMMA TitlesInitially == TitleInit => TitlesInv
  BY DEF TitleInit, TitlesInv, AnswersAreConfirmed, TitlesAreConfirmed, Nothing

LEMMA AskKeeps == ASSUME TitlesInv, AskTitle PROVE TitlesInv'
  <1>1. PICK a \in Actions \ DOMAIN titles, anchor \in BOOLEAN, backend \in BackendAnswers,
             first \in AnchorAnswers, second \in AnchorAnswers :
          Ask(a, ResolveOne(anchor, first, backend, second), Spoke(anchor, first, backend, second),
              "cut" \in {first, second})
    BY DEF AskTitle
  <1>2. titles' = titles /\ titled' = titled
    BY <1>1 DEF Ask
  <1>3. confirmed \subseteq confirmed' /\ cutOff \subseteq cutOff'
    BY <1>1 DEF Ask
  <1>4. AnswersAreConfirmed'
    BY <1>1, <1>3, OnlyAnswersResolve DEF Ask, AnswersAreConfirmed, TitlesInv
  <1>5. TitlesAreConfirmed'
    BY <1>2, <1>3 DEF TitlesAreConfirmed, TitlesInv
  <1>6. QED
    BY <1>2, <1>4, <1>5 DEF TitlesInv

LEMMA AnswerKeeps == ASSUME TitlesInv, TitleAnswered PROVE TitlesInv'
  <1>1. PICK q \in asking :
          /\ asking' = asking \ {q}
          /\ IF q.answer = Idle \/ (q.action \in DOMAIN titles /\ ~Better(titles[q.action], q.answer))
             THEN UNCHANGED <<titles, titled>>
             ELSE /\ titles' = [a \in DOMAIN titles \cup {q.action} |->
                                   IF a = q.action THEN q.answer ELSE titles[a]]
                  /\ titled' = IF q.answer.title THEN titled \cup {q.action} ELSE titled
    BY DEF TitleAnswered
  <1>2. confirmed' = confirmed /\ cutOff' = cutOff
    BY DEF TitleAnswered
  <1>3. AnswersAreConfirmed'
    BY <1>1, <1>2 DEF AnswersAreConfirmed, TitlesInv
  <1>4. CASE q.answer = Idle \/ (q.action \in DOMAIN titles /\ ~Better(titles[q.action], q.answer))
    BY <1>1, <1>2, <1>3, <1>4 DEF TitlesInv, TitlesAreConfirmed
  <1>5. CASE ~(q.answer = Idle \/ (q.action \in DOMAIN titles /\ ~Better(titles[q.action], q.answer)))
    <2>1. q.answer \in Entries /\ q.action \in confirmed \cup cutOff
      BY <1>5 DEF TitlesInv, AnswersAreConfirmed
    <2>2. /\ titles' = [a \in DOMAIN titles \cup {q.action} |->
                          IF a = q.action THEN q.answer ELSE titles[a]]
          /\ titled' = IF q.answer.title THEN titled \cup {q.action} ELSE titled
      BY <1>1, <1>5
    <2>3. titles' \in [DOMAIN titles' -> Entries]
      BY <2>1, <2>2 DEF TitlesInv
    (* A title is replaced only by a title: Better asks that the old entry has none. *)
    <2>4. q.action \in titled => FALSE
      BY <1>5 DEF TitlesInv, TitlesAreConfirmed, Better
    <2>5. TitlesAreConfirmed'
      BY <1>2, <2>1, <2>2, <2>4 DEF TitlesInv, TitlesAreConfirmed
    <2>6. QED
      BY <1>3, <2>3, <2>5 DEF TitlesInv
  <1>6. QED
    BY <1>4, <1>5

LEMMA RestartKeepsTitles == ASSUME TitlesInv, RestartTitles PROVE TitlesInv'
  <1> DEFINE kept == {a \in DOMAIN titles : titles[a].title \/ titles[a].url}
  <1>1. titles' = [a \in kept |-> titles[a]]
    BY DEF RestartTitles, Restrict
  <1>2. asking' = {} /\ confirmed' = confirmed /\ titled' = titled /\ cutOff' = cutOff
    BY DEF RestartTitles
  <1>3. QED
    BY <1>1, <1>2 DEF TitlesInv, AnswersAreConfirmed, TitlesAreConfirmed

-----------------------------------------------------------------------------
(* Only a confirmed answer, or an anchor's body cut off on the way,        *)
(* resolves an action, and a title once learned stays, whatever answers    *)
(* late and across restarts (gov_actions.rs).                              *)
THEOREM TitlesStayConfirmed == TitleSpec => []TitlesAreConfirmed
  <1>1. TitlesInv /\ [TitleNext]_titleVars => TitlesInv'
    <2> SUFFICES ASSUME TitlesInv, [TitleNext]_titleVars PROVE TitlesInv'
      OBVIOUS
    <2>1. CASE AskTitle
      BY <2>1, AskKeeps
    <2>2. CASE TitleAnswered
      BY <2>2, AnswerKeeps
    <2>3. CASE RestartTitles
      BY <2>3, RestartKeepsTitles
    <2>4. CASE UNCHANGED titleVars
      BY <2>4 DEF titleVars, TitlesInv, AnswersAreConfirmed, TitlesAreConfirmed
    <2>5. QED
      BY <2>1, <2>2, <2>3, <2>4 DEF TitleNext
  <1>2. TitlesInv => TitlesAreConfirmed
    BY DEF TitlesInv
  <1>3. QED
    BY <1>1, <1>2, TitlesInitially, PTL DEF TitleSpec

-----------------------------------------------------------------------------
(* Names.  That either cache knows the names a completed scrape began with *)
(* takes that a scrape in progress has got the names of what it has read:  *)
(* the pool scrape in the map it collects, the DRep scrape in the cache it *)
(* merges into, where a late lookup may take a name back.                  *)

MapOk(m) == \A i \in DOMAIN m : m[i] \in Nat
Knows(m, i, n) == n > 0 => i \in DOMAIN m /\ m[i] >= n

(* The ids on the pages before this one, and those a scrape has read. *)
CacheRows(page) == {Listing[k] : k \in {j \in 1..Len(Listing) : j <= (page - 1) * PAGE}}
Covered(s) == IF s.by = "ids" THEN Ids \ s.todo ELSE CacheRows(s.page)

ScrapeOk(s) ==
    /\ DOMAIN s = {"by", "page", "todo", "map", "began", "failed"}
    /\ s.page \in Nat \ {0} /\ (s.page - 1) * PAGE <= Len(Listing)
    /\ MapOk(s.map) /\ s.todo \subseteq Ids
    /\ s.began \in [Ids -> Nat] /\ \A i \in Ids : s.began[i] <= name[i]

HasRead(s, m) == \A i \in Covered(s) \ s.failed : Knows(m, i, s.began[i])
ReadInto(w) == IF w = "dreps" THEN cache["dreps"] ELSE scrape[w].map

NamesTyped ==
    /\ name \in [Ids -> Nat]
    /\ DOMAIN cache = Caches /\ DOMAIN scrape = Scrapers /\ DOMAIN floor = Caches
    /\ DOMAIN excused = Caches
    /\ cache = [c \in Caches |-> cache[c]] /\ scrape = [w \in Scrapers |-> scrape[w]]
    /\ floor = [c \in Caches |-> floor[c]] /\ excused = [c \in Caches |-> excused[c]]
    /\ \A c \in Caches : MapOk(cache[c]) /\ floor[c] \in [Ids -> Nat]
    /\ \A l \in lookups : /\ l.of \in Caches /\ l.id \in Ids /\ l.answer \in Nat
                          /\ l.listed \in BOOLEAN

FloorIsOld == \A c \in Caches : \A i \in Ids : floor[c][i] <= name[i]
ScrapesRead ==
    \A w \in Scrapers : scrape[w] # Idle => ScrapeOk(scrape[w]) /\ HasRead(scrape[w], ReadInto(w))

(* What the spelling of the backend's list has, which is all a scrape writes. *)
ListedAreRecent == \A c \in Caches : \A i \in Ids \ excused[c] : Knows(cache[c], i, floor[c][i])

NamesInv == NamesTyped /\ FloorIsOld /\ ScrapesRead /\ ListedAreRecent

LEMMA CachedFacts ==
    /\ "dreps" \in Scrapers /\ "dreps" \in Caches /\ "pools" \in Caches
    /\ Cached("dreps") = "dreps"
    /\ \A w \in Scrapers : Cached(w) \in Caches /\ (w # "dreps" => Cached(w) = "pools")
  BY DEF Scrapers, Caches, Cached

-----------------------------------------------------------------------------
(* The rows of a page follow those of the pages before it, and a page that *)
(* is short is the last.                                                   *)
LEMMA PageFacts ==
    ASSUME NEW page \in Nat \ {0}, (page - 1) * PAGE <= Len(Listing)
    PROVE  /\ Len(PageRows(page)) = PAGE =>
                 /\ (page + 1 - 1) * PAGE <= Len(Listing)
                 /\ CacheRows(page + 1) = CacheRows(page) \cup ToSet(PageRows(page))
           /\ Len(PageRows(page)) # PAGE => Ids = CacheRows(page) \cup ToSet(PageRows(page))
           /\ Len(PageRows(page)) \in Nat /\ Len(PageRows(page)) <= PAGE
           /\ ToSet(PageRows(page)) \subseteq Ids
           /\ CacheRows(1) = {}
  <1> DEFINE n == (page - 1) * PAGE
             top == page * PAGE
             last == IF top < Len(Listing) THEN top ELSE Len(Listing)
             rows == PageRows(page)
             size == Len(Listing)
  <1>1. PAGE \in Nat \ {0} /\ Listing \in Seq(Ids) /\ size \in Nat /\ DOMAIN Listing = 1..size
    BY MetaCachesAssumption, LenProperties
  <1>2. n \in Nat /\ page * PAGE = n + PAGE /\ (page + 1 - 1) * PAGE = n + PAGE
    BY <1>1
  <1>3. (1 - 1) * PAGE = 0
    BY <1>1
  <1>4. rows = SubSeq(Listing, n + 1, last)
    BY DEF PageRows
  <1>5. CacheRows(page) = {Listing[k] : k \in {j \in 1..size : j <= n}}
    BY DEF CacheRows
  <1>6. CacheRows(page + 1) = {Listing[k] : k \in {j \in 1..size : j <= n + PAGE}}
    BY <1>2 DEF CacheRows
  <1>7. Ids = {Listing[k] : k \in 1..size}
    BY <1>1 DEF Ids, ToSet
  <1>8. n <= size /\ top = n + PAGE
    BY <1>2
  <1> HIDE DEF n, size, top
  <1>9. last \in Nat /\ last <= size /\ n <= last /\ (last = n + PAGE \/ (last = size /\ size <= n + PAGE))
    <2>1. last = IF top < size THEN top ELSE size
      BY DEF size
    <2>2. QED
      BY ONLY <1>1, <1>2, <1>8, <2>1
  <1> HIDE DEF last
  <1>10. /\ rows \in Seq(Ids) /\ Len(rows) = last - n
         /\ \A i \in 1..(last - n) : rows[i] = Listing[n + i]
    <2>1. \A i \in (n + 1)..last : i \in 1..size
      BY <1>1, <1>2, <1>9
    <2>2. \A i \in (n + 1)..last : Listing[i] \in Ids
      BY <1>1, <2>1, ElementOfSeq DEF size
    <2>3. n + 1 <= last + 1 /\ n + 1 \in Int /\ last \in Int
      BY <1>2, <1>9
    <2>4. /\ SubSeq(Listing, n + 1, last) \in Seq(Ids)
          /\ Len(SubSeq(Listing, n + 1, last)) = IF n + 1 <= last THEN last - (n + 1) + 1 ELSE 0
          /\ \A i \in 1..(last - (n + 1) + 1) : SubSeq(Listing, n + 1, last)[i] = Listing[n + 1 + i - 1]
      BY ONLY <1>1, <2>2, <2>3, SubSeqProperties
    <2>5. /\ last - (n + 1) + 1 = last - n /\ (~(n + 1 <= last) => last - n = 0)
          /\ \A i \in 1..(last - n) : n + 1 + i - 1 = n + i
      BY <1>2, <1>9
    <2>6. QED
      BY <1>4, <2>4, <2>5
  <1>11. ToSet(rows) = {Listing[k] : k \in (n + 1)..last}
    <2>1. DOMAIN rows = 1..(last - n)
      BY <1>10, LenProperties
    <2>2. \A i \in 1..(last - n) : n + i \in (n + 1)..last
      BY <1>2, <1>9
    <2>3. \A k \in (n + 1)..last : k - n \in 1..(last - n) /\ n + (k - n) = k
      BY <1>2, <1>9
    <2>4. QED
      BY <1>10, <2>1, <2>2, <2>3 DEF ToSet
  <1>12. ToSet(rows) \subseteq Ids
    <2>1. \A k \in (n + 1)..last : k \in 1..size
      BY <1>1, <1>2, <1>9
    <2>2. QED
      BY <1>7, <1>11, <2>1
  <1>13. ASSUME Len(rows) = PAGE
         PROVE  /\ (page + 1 - 1) * PAGE <= Len(Listing)
                /\ CacheRows(page + 1) = CacheRows(page) \cup ToSet(rows)
    <2>1. last = n + PAGE /\ n + PAGE <= size
      BY <1>1, <1>2, <1>9, <1>10, <1>13
    <2>2. {j \in 1..size : j <= n + PAGE} = {j \in 1..size : j <= n} \cup ((n + 1)..last)
      BY <1>1, <1>2, <1>9, <2>1
    <2>3. QED
      BY <1>2, <1>5, <1>6, <1>11, <2>1, <2>2 DEF size
  <1>14. ASSUME Len(rows) # PAGE
         PROVE  Ids = CacheRows(page) \cup ToSet(rows)
    <2>1. last = size
      BY <1>1, <1>2, <1>9, <1>10, <1>14
    <2>2. 1..size = {j \in 1..size : j <= n} \cup ((n + 1)..last)
      BY <1>1, <1>2, <1>9, <2>1
    <2>3. QED
      BY <1>5, <1>7, <1>11, <2>1, <2>2
  <1>15. CacheRows(1) = {}
    <2>1. {j \in 1..Len(Listing) : j <= 0} = {}
      OBVIOUS
    <2>2. CacheRows(1) = {Listing[k] : k \in {j \in 1..Len(Listing) : j <= 0}}
      BY <1>3 DEF CacheRows
    <2>3. QED
      BY <2>1, <2>2
  <1>16. Len(rows) \in Nat /\ Len(rows) <= PAGE
    BY <1>1, <1>2, <1>9, <1>10
  <1>17. QED
    BY <1>12, <1>13, <1>14, <1>15, <1>16

-----------------------------------------------------------------------------
(* Maps that change to current names know no older ones. *)
Renewed(m, r) == MapOk(r) /\ \A i \in DOMAIN m : i \in DOMAIN r /\ (i \in Ids => r[i] \in {m[i], name[i]})

LEMMA RenewedKnows ==
    ASSUME name \in [Ids -> Nat], NEW m, MapOk(m), NEW r, Renewed(m, r),
           NEW i \in Ids, NEW n \in Nat, n <= name[i], Knows(m, i, n)
    PROVE  Knows(r, i, n)
  BY DEF Renewed, Knows, MapOk

LEMMA ManyFacts ==
    ASSUME name \in [Ids -> Nat], NEW m, MapOk(m), NEW rows, ToSet(rows) \subseteq Ids
    PROVE  /\ Renewed(m, RememberMany(m, rows))
           /\ \A i \in ToSet(rows), n \in Nat : n <= name[i] => Knows(RememberMany(m, rows), i, n)
  <1> DEFINE labelled == {i \in ToSet(rows) : name[i] # 0}
             r == RememberMany(m, rows)
  <1>1. r = [i \in DOMAIN m \cup labelled |-> IF i \in labelled THEN name[i] ELSE m[i]]
    BY DEF RememberMany
  <1>2. Renewed(m, r)
    BY <1>1 DEF Renewed, MapOk
  <1>3. ASSUME NEW i \in ToSet(rows), NEW n \in Nat, n <= name[i], n > 0
        PROVE  i \in DOMAIN r /\ r[i] >= n
    <2>1. name[i] \in Nat /\ name[i] # 0
      BY <1>3
    <2>2. QED
      BY <1>1, <1>3, <2>1
  <1>4. QED
    BY <1>2, <1>3 DEF Knows

LEMMA OneFacts ==
    ASSUME name \in [Ids -> Nat], NEW m, MapOk(m), NEW id \in Ids
    PROVE  /\ Renewed(m, Remembered(m, id, name[id]))
           /\ \A n \in Nat : n <= name[id] => Knows(Remembered(m, id, name[id]), id, n)
  <1>1. name[id] \in Nat
    OBVIOUS
  <1>2. Renewed(m, Remembered(m, id, name[id]))
    BY <1>1 DEF Renewed, Remembered, MapOk
  <1>3. ASSUME NEW n \in Nat, n <= name[id], n > 0
        PROVE  id \in DOMAIN Remembered(m, id, name[id]) /\ Remembered(m, id, name[id])[id] >= n
    <2>1. Remembered(m, id, name[id]) =
              [i \in DOMAIN m \cup {id} |-> IF i = id THEN name[id] ELSE m[i]]
      BY <1>1, <1>3 DEF Remembered
    <2>2. QED
      BY <1>3, <2>1
  <1>4. QED
    BY <1>2, <1>3 DEF Knows

-----------------------------------------------------------------------------
(* A step in the middle of a scrape, which may also write the cache. *)
LEMMA GoingOn ==
    ASSUME NamesInv, NEW w \in Scrapers, NEW s, Goes(w, s),
           NEW m, Renewed(cache[Cached(w)], m), cache' = [cache EXCEPT ![Cached(w)] = m],
           s # Idle => ScrapeOk(s) /\ HasRead(s, IF w = "dreps" THEN m ELSE s.map)
    PROVE  NamesInv'
  <1> DEFINE c == Cached(w)
  <1>0. c \in Caches /\ (w = "dreps" => c = "dreps") /\ (w # "dreps" => c = "pools")
    BY CachedFacts
  <1> HIDE DEF c
  <1>1. NamesTyped /\ FloorIsOld /\ ScrapesRead /\ ListedAreRecent
    BY DEF NamesInv
  <1>2. /\ scrape' = [scrape EXCEPT ![w] = s] /\ UNCHANGED <<name, lookups, floor, excused, scrapes>>
        /\ cache' = [cache EXCEPT ![c] = m] /\ Renewed(cache[c], m)
    BY DEF Goes, c
  <1>3. /\ cache'[c] = m /\ scrape'[w] = s
        /\ \A d \in Caches : d # c => cache'[d] = cache[d]
        /\ \A v \in Scrapers : v # w => scrape'[v] = scrape[v]
    BY <1>0, <1>1, <1>2 DEF NamesTyped
  <1>4. /\ DOMAIN cache' = Caches /\ cache' = [d \in Caches |-> cache'[d]]
        /\ DOMAIN scrape' = Scrapers /\ scrape' = [v \in Scrapers |-> scrape'[v]]
    <2>1. DOMAIN cache' = Caches /\ cache' = [d \in Caches |-> cache'[d]]
      BY <1>1, <1>2 DEF NamesTyped
    <2>2. DOMAIN scrape' = Scrapers /\ scrape' = [v \in Scrapers |-> scrape'[v]]
      <3>1. scrape = [v \in Scrapers |-> scrape[v]]
        BY <1>1 DEF NamesTyped
      <3>2. scrape' = [scrape EXCEPT ![w] = s]
        BY <1>2
      <3>3. QED
        BY ONLY <3>1, <3>2
    <2>3. QED
      BY <2>1, <2>2
  <1>5. \A d \in Caches : MapOk(cache'[d])
    BY <1>1, <1>2, <1>3 DEF NamesTyped, Renewed
  <1>6. NamesTyped'
    BY <1>1, <1>2, <1>4, <1>5 DEF NamesTyped, MapOk
  <1>7. FloorIsOld'
    BY <1>1, <1>2 DEF FloorIsOld
  <1>8. ScrapesRead'
    <2> SUFFICES ASSUME NEW v \in Scrapers, scrape'[v] # Idle
                 PROVE  ScrapeOk(scrape[v])' /\ HasRead(scrape[v], ReadInto(v))'
      BY DEF ScrapesRead
    <2>1. CASE v = w
      <3>1. ScrapeOk(s) /\ HasRead(s, ReadInto(w)')
        BY <1>0, <1>3, <2>1 DEF ReadInto
      <3>2. QED
        BY <1>2, <1>3, <2>1, <3>1 DEF ScrapeOk, HasRead, MapOk, Covered, Knows
    <2>2. CASE v # w
      <3>1. scrape'[v] = scrape[v] /\ (v = "dreps" => cache'["dreps"] = cache["dreps"])
        BY <1>0, <1>3, <2>2, CachedFacts
      <3>2. ScrapeOk(scrape[v]) /\ HasRead(scrape[v], ReadInto(v))
        BY <1>1, <3>1 DEF ScrapesRead
      <3>3. ReadInto(v)' = ReadInto(v)
        BY <3>1 DEF ReadInto
      <3>4. QED
        BY <1>2, <3>1, <3>2, <3>3 DEF ScrapeOk, HasRead, MapOk, Covered, Knows
    <2>3. QED
      BY <2>1, <2>2
  <1>9. ListedAreRecent'
    <2> SUFFICES ASSUME NEW d \in Caches, NEW i \in Ids \ excused[d]
                 PROVE  Knows(cache'[d], i, floor[d][i])
      BY <1>2 DEF ListedAreRecent, Knows
    <2>1. Knows(cache[d], i, floor[d][i])
      BY <1>1 DEF ListedAreRecent
    <2>2. CASE d = c
      <3>1. name \in [Ids -> Nat] /\ MapOk(cache[c]) /\ floor[c][i] \in Nat /\ floor[c][i] <= name[i]
        BY <1>0, <1>1, <2>2 DEF NamesTyped, FloorIsOld
      <3>2. QED
        BY <1>2, <1>3, <2>1, <2>2, <3>1, RenewedKnows
    <2>3. CASE d # c
      BY <1>3, <2>1, <2>3
    <2>4. QED
      BY <2>2, <2>3
  <1>10. QED
    BY <1>6, <1>7, <1>8, <1>9 DEF NamesInv

(* The end of a scrape that has read every id: what an older one brings    *)
(* back is excused.                                                        *)
LEMMA Finishing ==
    ASSUME NamesInv, NEW w \in Scrapers, scrape[w] # Idle, NEW m, MapOk(m), Finish(w, m),
           \A i \in Ids \ scrape[w].failed : Knows(m, i, scrape[w].began[i])
    PROVE  NamesInv'
  <1> DEFINE c == Cached(w)
             overtaken == {i \in Ids : scrape[w].began[i] < floor[c][i]}
             higher == [i \in Ids |-> IF i \in overtaken THEN floor[c][i] ELSE scrape[w].began[i]]
  <1>0. c \in Caches /\ (w = "dreps" => c = "dreps") /\ (w # "dreps" => c = "pools")
    BY CachedFacts
  <1>1. NamesTyped /\ FloorIsOld /\ ScrapesRead /\ ListedAreRecent /\ ScrapeOk(scrape[w])
    BY DEF NamesInv, ScrapesRead
  <1>2. /\ scrape' = [scrape EXCEPT ![w] = Idle] /\ cache' = [cache EXCEPT ![c] = m]
        /\ floor' = [floor EXCEPT ![c] = higher]
        /\ excused' = [excused EXCEPT ![c] = scrape[w].failed \cup overtaken]
        /\ UNCHANGED <<name, lookups, scrapes>>
    <2>1. floor' = [floor EXCEPT ![c] = [i \in Ids |-> IF i \in overtaken THEN floor[c][i]
                                                     ELSE scrape[w].began[i]]]
      BY <1>0, <1>1 DEF Finish, NamesTyped
    <2>2. QED
      BY <2>1 DEF Finish
  <1>3. /\ higher \in [Ids -> Nat]
        /\ \A i \in Ids : /\ higher[i] <= name[i]
                          /\ i \notin overtaken => higher[i] = scrape[w].began[i]
    BY <1>0, <1>1 DEF NamesTyped, ScrapeOk, FloorIsOld
  <1> HIDE DEF higher, overtaken, c
  <1>4. /\ cache'[c] = m /\ scrape'[w] = Idle /\ floor'[c] = higher
        /\ excused'[c] = scrape[w].failed \cup overtaken
        /\ \A d \in Caches : d # c => /\ cache'[d] = cache[d]
                                      /\ floor'[d] = floor[d] /\ excused'[d] = excused[d]
        /\ \A v \in Scrapers : v # w => scrape'[v] = scrape[v]
    BY <1>0, <1>1, <1>2 DEF NamesTyped
  <1>5. /\ DOMAIN cache' = Caches /\ cache' = [d \in Caches |-> cache'[d]]
        /\ DOMAIN scrape' = Scrapers /\ scrape' = [v \in Scrapers |-> scrape'[v]]
        /\ DOMAIN floor' = Caches /\ floor' = [d \in Caches |-> floor'[d]]
        /\ DOMAIN excused' = Caches /\ excused' = [d \in Caches |-> excused'[d]]
    BY <1>0, <1>1, <1>2 DEF NamesTyped
  <1>6. \A d \in Caches : MapOk(cache'[d]) /\ floor'[d] \in [Ids -> Nat]
    BY <1>1, <1>3, <1>4 DEF NamesTyped
  <1>7. NamesTyped'
    BY <1>1, <1>2, <1>5, <1>6 DEF NamesTyped, MapOk
  <1>8. FloorIsOld'
    BY <1>1, <1>2, <1>3, <1>4 DEF FloorIsOld
  <1>9. ScrapesRead'
    <2> SUFFICES ASSUME NEW v \in Scrapers, scrape'[v] # Idle
                 PROVE  ScrapeOk(scrape[v])' /\ HasRead(scrape[v], ReadInto(v))'
      BY DEF ScrapesRead
    <2>1. scrape'[v] = scrape[v] /\ (v = "dreps" => cache'["dreps"] = cache["dreps"])
      BY <1>0, <1>4, CachedFacts
    <2>2. ScrapeOk(scrape[v]) /\ HasRead(scrape[v], ReadInto(v))
      BY <1>1, <2>1 DEF ScrapesRead
    <2>3. ReadInto(v)' = ReadInto(v)
      BY <2>1 DEF ReadInto
    <2>4. QED
      BY <1>2, <2>1, <2>2, <2>3 DEF ScrapeOk, HasRead, MapOk, Covered, Knows
  <1>10. ListedAreRecent'
    <2> SUFFICES ASSUME NEW d \in Caches, NEW i \in Ids \ excused'[d]
                 PROVE  Knows(cache'[d], i, floor'[d][i])
      BY DEF ListedAreRecent, Knows
    <2>1. CASE d = c
      BY <1>3, <1>4, <2>1
    <2>2. CASE d # c
      BY <1>1, <1>4, <2>2 DEF ListedAreRecent
    <2>3. QED
      BY <2>1, <2>2
  <1>11. QED
    BY <1>7, <1>8, <1>9, <1>10 DEF NamesInv

(* Nothing is known of a map that is empty, and nothing is to be. *)
LEMMA BeginFacts ==
    ASSUME NamesInv, NEW by \in {"list", "ids"},
           NEW began \in [Ids -> Nat], \A i \in Ids : began[i] <= name[i]
    PROVE  LET s == [Begin(by) EXCEPT !.began = began]
           IN  ScrapeOk(s) /\ \A m : HasRead(s, m)
  <1> DEFINE s == [Begin(by) EXCEPT !.began = began]
  <1>1. s = [by |-> by, page |-> 1, todo |-> IF by = "ids" THEN Ids ELSE {},
             map |-> Nothing, began |-> began, failed |-> {}]
    BY DEF Begin
  <1>2. PAGE \in Nat /\ Len(Listing) \in Nat
    BY MetaCachesAssumption, LenProperties
  <1>3. (1 - 1) * PAGE <= Len(Listing)
    BY <1>2
  <1>4. MapOk(Nothing)
    BY DEF MapOk, Nothing
  <1>5. ScrapeOk(s)
    BY <1>1, <1>3, <1>4 DEF ScrapeOk
  <1>6. CacheRows(1) = {}
    BY <1>3, PageFacts
  <1>7. Covered(s) = {}
    BY <1>1, <1>6 DEF Covered
  <1>8. QED
    BY <1>5, <1>7 DEF HasRead

LEMMA CachesOf ==
    ASSUME NamesInv, NEW w \in Scrapers
    PROVE  /\ cache = [cache EXCEPT ![Cached(w)] = cache[Cached(w)]]
           /\ Renewed(cache[Cached(w)], cache[Cached(w)]) /\ MapOk(cache[Cached(w)])
  BY CachedFacts DEF NamesInv, NamesTyped, Renewed, MapOk

(* `scrape_extended` *)
LEMMA PoolPageNames ==
    ASSUME NamesInv, NEW w \in {"boot", "daily"}, PoolPage(w)
    PROVE  NamesInv'
  <1> DEFINE s == scrape[w]
             rows == PageRows(s.page)
             map == RememberMany(s.map, rows)
             again == [Begin("ids") EXCEPT !.began = s.began]
  <1>1. w \in Scrapers /\ w # "dreps" /\ s # Idle /\ s.by = "list"
    BY DEF PoolPage, Scrapers
  <1>2. ScrapeOk(s) /\ HasRead(s, s.map) /\ name \in [Ids -> Nat]
    BY <1>1 DEF NamesInv, NamesTyped, ScrapesRead, ReadInto
  <1>3. MapOk(s.map) /\ s.page \in Nat \ {0} /\ (s.page - 1) * PAGE <= Len(Listing)
    BY <1>2 DEF ScrapeOk
  <1>4. /\ Len(rows) = PAGE => /\ (s.page + 1 - 1) * PAGE <= Len(Listing)
                               /\ CacheRows(s.page + 1) = CacheRows(s.page) \cup ToSet(rows)
        /\ Len(rows) # PAGE => Ids = CacheRows(s.page) \cup ToSet(rows)
        /\ ToSet(rows) \subseteq Ids
    BY <1>3, PageFacts
  <1>5. /\ Renewed(s.map, map)
        /\ \A i \in ToSet(rows), n \in Nat : n <= name[i] => Knows(map, i, n)
    BY <1>2, <1>3, <1>4, ManyFacts
  <1> HIDE DEF map, rows
  <1>6. ASSUME NEW i \in (CacheRows(s.page) \cup ToSet(rows)) \ s.failed, i \in Ids
        PROVE  Knows(map, i, s.began[i])
    <2>1. s.began[i] \in Nat /\ s.began[i] <= name[i]
      BY <1>2, <1>6 DEF ScrapeOk
    <2>2. CASE i \in ToSet(rows)
      BY <1>5, <2>1, <2>2
    <2>3. CASE i \in CacheRows(s.page)
      <3>1. Knows(s.map, i, s.began[i])
        BY <1>1, <1>2, <1>6, <2>3 DEF HasRead, Covered
      <3>2. QED
        BY <1>2, <1>3, <1>5, <1>6, <2>1, <3>1, RenewedKnows
    <2>4. QED
      BY <1>6, <2>2, <2>3
  <1>7. CacheRows(s.page) \subseteq Ids
    BY MetaCachesAssumption, ElementOfSeq DEF CacheRows
  <1>8. ASSUME Goes(w, [s EXCEPT !.map = map, !.page = @ + 1]), UNCHANGED cache, Len(rows) = PAGE
        PROVE  NamesInv'
    <2> DEFINE t == [s EXCEPT !.map = map, !.page = @ + 1]
    <2>1. /\ DOMAIN t = DOMAIN s /\ t.map = map /\ t.page = s.page + 1 /\ t.by = s.by
          /\ t.began = s.began /\ t.failed = s.failed
      BY <1>2 DEF ScrapeOk
    <2>2. ScrapeOk(t)
      BY <1>2, <1>3, <1>4, <1>5, <1>8, <2>1 DEF ScrapeOk, Renewed
    <2>3. HasRead(t, t.map)
      BY <1>1, <1>4, <1>6, <1>7, <1>8, <2>1 DEF HasRead, Covered
    <2> HIDE DEF t
    <2>4. Goes(w, t)
      BY <1>8 DEF t
    <2>5. QED
      BY <1>1, <1>8, <2>2, <2>3, <2>4, CachesOf, GoingOn
  <1>9. ASSUME Len(rows) # PAGE, ReplacePools(w, map)
        PROVE  NamesInv'
    <2>1. CASE Finish(w, map)
      <3>1. \A i \in Ids \ s.failed : Knows(map, i, s.began[i])
        BY <1>4, <1>6, <1>9
      <3>2. MapOk(map)
        BY <1>5 DEF Renewed
      <3>3. QED
        BY <1>1, <2>1, <3>1, <3>2, Finishing
    <2>2. CASE GivesUp(w)
      BY <1>1, <2>2, CachesOf, GoingOn DEF GivesUp
    <2>3. QED
      BY <1>9, <2>1, <2>2 DEF ReplacePools
  <1>10. ASSUME Goes(w, again), UNCHANGED cache
         PROVE  NamesInv'
    <2>1. s.began \in [Ids -> Nat] /\ \A i \in Ids : s.began[i] <= name[i]
      BY <1>2 DEF ScrapeOk
    <2>2. ScrapeOk(again) /\ HasRead(again, again.map)
      BY <1>1, <2>1, BeginFacts
    <2> HIDE DEF again
    <2>3. QED
      BY <1>1, <1>10, <2>2, CachesOf, GoingOn
  <1>11. \/ /\ Goes(w, [s EXCEPT !.map = map, !.page = @ + 1]) /\ UNCHANGED cache
            /\ Len(rows) = PAGE
         \/ Len(rows) # PAGE /\ ReplacePools(w, map)
         \/ Goes(w, again) /\ UNCHANGED cache
    BY DEF PoolPage, map, rows
  <1>12. QED
    BY <1>8, <1>9, <1>10, <1>11

(* `scrape_list_and_metadata` *)
LEMMA PoolMetadataNames ==
    ASSUME NamesInv, NEW w \in {"boot", "daily"}, PoolMetadata(w)
    PROVE  NamesInv'
  <1> DEFINE s == scrape[w]
  <1>1. w \in Scrapers /\ w # "dreps" /\ s # Idle /\ s.by = "ids"
    BY DEF PoolMetadata, Scrapers
  <1>2. ScrapeOk(s) /\ HasRead(s, s.map) /\ name \in [Ids -> Nat]
    BY <1>1 DEF NamesInv, NamesTyped, ScrapesRead, ReadInto
  <1>3. MapOk(s.map) /\ \A i \in Ids : s.began[i] \in Nat /\ s.began[i] <= name[i]
    BY <1>2 DEF ScrapeOk
  <1>4. ASSUME GivesUp(w)
        PROVE  NamesInv'
    BY <1>1, <1>4, CachesOf, GoingOn DEF GivesUp
  <1>5. ASSUME s.todo = {}, Finish(w, s.map)
        PROVE  NamesInv'
    <2>1. \A i \in Ids \ s.failed : Knows(s.map, i, s.began[i])
      BY <1>1, <1>2, <1>5 DEF HasRead, Covered
    <2>2. QED
      BY <1>1, <1>3, <1>5, <2>1, Finishing
  <1>6. ASSUME NEW i \in s.todo, NEW answers \in BOOLEAN, UNCHANGED cache,
               Goes(w, [s EXCEPT !.map = IF answers THEN Remembered(s.map, i, name[i]) ELSE s.map,
                                       !.todo = @ \ {i},
                                       !.failed = IF answers THEN s.failed ELSE s.failed \cup {i}])
        PROVE  NamesInv'
    <2> DEFINE map == IF answers THEN Remembered(s.map, i, name[i]) ELSE s.map
               fail == IF answers THEN s.failed ELSE s.failed \cup {i}
               t == [s EXCEPT !.map = map, !.todo = @ \ {i}, !.failed = fail]
    <2>0. i \in Ids
      BY <1>2, <1>6 DEF ScrapeOk
    <2>1. /\ DOMAIN t = DOMAIN s /\ t.map = map /\ t.page = s.page /\ t.by = s.by
          /\ t.began = s.began /\ t.failed = fail /\ t.todo = s.todo \ {i}
      BY <1>2 DEF ScrapeOk
    <2>2. /\ Renewed(s.map, map)
          /\ i \notin fail => \A n \in Nat : n <= name[i] => Knows(map, i, n)
          /\ s.failed \subseteq fail
      <3>1. CASE answers
        BY <1>2, <1>3, <2>0, <3>1, OneFacts
      <3>2. CASE ~answers
        BY <1>3, <3>2 DEF Renewed
      <3>3. QED
        BY <1>6, <3>1, <3>2
    <2> HIDE DEF map, fail
    <2>3. ScrapeOk(t)
      BY <1>2, <1>6, <2>1, <2>2 DEF ScrapeOk, Renewed
    <2>4. ASSUME NEW j \in Covered(t) \ t.failed
          PROVE  Knows(map, j, s.began[j])
      <3>1. j \in Ids /\ j \notin s.failed /\ j \notin fail /\ (j = i \/ j \in Covered(s))
        BY <1>1, <2>1, <2>2, <2>4 DEF Covered
      <3>2. CASE j = i
        BY <1>3, <2>2, <3>1, <3>2
      <3>3. CASE j \in Covered(s)
        <4>1. Knows(s.map, j, s.began[j])
          BY <1>2, <3>1, <3>3 DEF HasRead
        <4>2. QED
          BY <1>2, <1>3, <2>2, <3>1, <4>1, RenewedKnows
      <3>4. QED
        BY <3>1, <3>2, <3>3
    <2>5. HasRead(t, t.map)
      BY <2>1, <2>4 DEF HasRead
    <2> HIDE DEF t
    <2>6. Goes(w, t)
      BY <1>6 DEF t, map, fail
    <2>7. QED
      BY <1>1, <1>6, <2>3, <2>5, <2>6, CachesOf, GoingOn
  <1>7. \/ GivesUp(w)
        \/ \E i \in s.todo : \E answers \in BOOLEAN :
              /\ Goes(w, [s EXCEPT !.map = IF answers THEN Remembered(s.map, i, name[i]) ELSE s.map,
                                         !.todo = @ \ {i},
                                         !.failed = IF answers THEN s.failed ELSE s.failed \cup {i}])
              /\ UNCHANGED cache
        \/ s.todo = {} /\ Finish(w, s.map)
    BY DEF PoolMetadata, ReplacePools
  <1>8. QED
    BY <1>4, <1>5, <1>6, <1>7

(* The scrapes of DReps write the cache as they go. *)
LEMMA DrepStepFacts ==
    ASSUME NamesInv, scrape["dreps"] # Idle
    PROVE  /\ "dreps" \in Scrapers /\ Cached("dreps") = "dreps" /\ ScrapeOk(scrape["dreps"])
           /\ HasRead(scrape["dreps"], cache["dreps"])
           /\ name \in [Ids -> Nat] /\ MapOk(cache["dreps"])
           /\ \A i \in Ids : /\ scrape["dreps"].began[i] \in Nat
                             /\ scrape["dreps"].began[i] <= name[i]
  BY CachedFacts DEF NamesInv, NamesTyped, ScrapesRead, ReadInto, ScrapeOk

(* What the cache knew of what was read, it knows when it is renewed. *)
LEMMA StillRead ==
    ASSUME NamesInv, scrape["dreps"] # Idle, NEW m, Renewed(cache["dreps"], m),
           NEW i \in (Ids \cap Covered(scrape["dreps"])) \ scrape["dreps"].failed
    PROVE  Knows(m, i, scrape["dreps"].began[i])
  <1>1. Knows(cache["dreps"], i, scrape["dreps"].began[i])
    BY DrepStepFacts DEF HasRead
  <1>2. QED
    BY <1>1, DrepStepFacts, RenewedKnows

(* `scrape_list_unpaged` *)
LEMMA DrepUnpagedNames == ASSUME NamesInv, DrepUnpaged PROVE NamesInv'
  <1> DEFINE s == scrape["dreps"]
             all == RememberMany(cache["dreps"], Listing)
  <1>1. s # Idle /\ s.by = "list" /\ s.page = 1
    BY DEF DrepUnpaged
  <1>2. /\ "dreps" \in Scrapers /\ Cached("dreps") = "dreps" /\ ScrapeOk(s) /\ HasRead(s, cache["dreps"])
        /\ name \in [Ids -> Nat] /\ MapOk(cache["dreps"])
        /\ \A i \in Ids : s.began[i] \in Nat /\ s.began[i] <= name[i]
    BY <1>1, DrepStepFacts
  <1>3. ASSUME Finish("dreps", all)
        PROVE  NamesInv'
    <2>1. ToSet(Listing) = Ids
      BY DEF Ids
    <2>2. Renewed(cache["dreps"], all) /\ \A i \in Ids, n \in Nat : n <= name[i] => Knows(all, i, n)
      BY <1>2, <2>1, ManyFacts
    <2>3. MapOk(all) /\ \A i \in Ids \ s.failed : Knows(all, i, s.began[i])
      BY <1>2, <2>2 DEF Renewed
    <2> HIDE DEF all
    <2>4. QED
      BY <1>1, <1>2, <1>3, <2>3, Finishing
  <1>4. ASSUME NEW t, t = [s EXCEPT !.by = "ids", !.todo = Ids], Goes("dreps", t), UNCHANGED cache
        PROVE  NamesInv'
    <2>1. ScrapeOk(t) /\ Covered(t) = {}
      BY <1>2, <1>4 DEF ScrapeOk, Covered
    <2>2. HasRead(t, cache["dreps"])
      BY <2>1 DEF HasRead
    <2>3. QED
      BY <1>2, <1>4, <2>1, <2>2, CachesOf, GoingOn
  <1>5. ASSUME NEW t, t = [s EXCEPT !.by = "pages"], Goes("dreps", t), UNCHANGED cache
        PROVE  NamesInv'
    <2>1. ScrapeOk(t) /\ Covered(t) = Covered(s) /\ t.began = s.began /\ t.failed = s.failed
      BY <1>1, <1>2, <1>5 DEF ScrapeOk, Covered
    <2>2. HasRead(t, cache["dreps"])
      BY <1>2, <2>1 DEF HasRead
    <2>3. QED
      BY <1>2, <1>5, <2>1, <2>2, CachesOf, GoingOn
  <1>6. QED
    BY <1>3, <1>4, <1>5 DEF DrepUnpaged

(* `scrape_list_embedded` *)
LEMMA DrepPageNames == ASSUME NamesInv, DrepPage PROVE NamesInv'
  <1> DEFINE s == scrape["dreps"]
             rows == PageRows(s.page)
             merged == RememberMany(cache["dreps"], rows)
  <1>1. s # Idle /\ s.by = "pages"
    BY DEF DrepPage
  <1>2. /\ "dreps" \in Scrapers /\ Cached("dreps") = "dreps" /\ ScrapeOk(s) /\ HasRead(s, cache["dreps"])
        /\ name \in [Ids -> Nat] /\ MapOk(cache["dreps"])
        /\ \A i \in Ids : s.began[i] \in Nat /\ s.began[i] <= name[i]
    BY <1>1, DrepStepFacts
  <1>3. s.page \in Nat \ {0} /\ (s.page - 1) * PAGE <= Len(Listing) /\ Covered(s) = CacheRows(s.page)
    BY <1>1, <1>2 DEF ScrapeOk, Covered
  <1>4. /\ Len(rows) = PAGE => /\ (s.page + 1 - 1) * PAGE <= Len(Listing)
                               /\ CacheRows(s.page + 1) = CacheRows(s.page) \cup ToSet(rows)
        /\ Len(rows) # PAGE => Ids = CacheRows(s.page) \cup ToSet(rows)
        /\ ToSet(rows) \subseteq Ids /\ Len(rows) \in Nat /\ PAGE \in Nat /\ Len(rows) <= PAGE
    BY <1>3, PageFacts, MetaCachesAssumption
  <1>5. /\ Renewed(cache["dreps"], merged)
        /\ \A i \in ToSet(rows), n \in Nat : n <= name[i] => Knows(merged, i, n)
    BY <1>2, <1>4, ManyFacts
  <1> HIDE DEF merged
  <1>6. ASSUME NEW i \in (CacheRows(s.page) \cup ToSet(rows)) \ s.failed, i \in Ids
        PROVE  Knows(merged, i, s.began[i])
    <2>1. CASE i \in ToSet(rows)
      BY <1>2, <1>5, <1>6, <2>1
    <2>2. CASE i \in CacheRows(s.page)
      BY <1>1, <1>3, <1>5, <1>6, <2>2, StillRead
    <2>3. QED
      BY <1>6, <2>1, <2>2
  <1>7. ASSUME NEW t, t = [s EXCEPT !.by = "ids", !.todo = Ids], Goes("dreps", t), UNCHANGED cache
        PROVE  NamesInv'
    <2>1. ScrapeOk(t) /\ Covered(t) = {}
      BY <1>2, <1>7 DEF ScrapeOk, Covered
    <2>2. HasRead(t, cache["dreps"])
      BY <2>1 DEF HasRead
    <2>3. QED
      BY <1>2, <1>7, <2>1, <2>2, CachesOf, GoingOn
  <1>8. ASSUME Finish("dreps", merged), Len(rows) < PAGE
        PROVE  NamesInv'
    <2>1. MapOk(merged) /\ \A i \in Ids \ s.failed : Knows(merged, i, s.began[i])
      BY <1>4, <1>5, <1>6, <1>8 DEF Renewed
    <2>2. QED
      BY <1>1, <1>2, <1>8, <2>1, Finishing
  <1>9. ASSUME NEW t, t = [s EXCEPT !.page = @ + 1], Goes("dreps", t), ~(Len(rows) < PAGE),
               cache' = [cache EXCEPT !["dreps"] = merged]
        PROVE  NamesInv'
    <2>1. DOMAIN t = DOMAIN s /\ t.page = s.page + 1 /\ t.by = s.by /\ t.map = s.map /\ t.todo = s.todo
          /\ t.began = s.began /\ t.failed = s.failed
      BY <1>2, <1>9 DEF ScrapeOk
    <2>2. CacheRows(s.page + 1) \subseteq CacheRows(s.page) \cup ToSet(rows) /\ (s.page + 1 - 1) * PAGE <= Len(Listing)
      BY <1>4, <1>9
    <2>3. ScrapeOk(t)
      BY <1>2, <1>3, <2>1, <2>2 DEF ScrapeOk
    <2>4. CacheRows(s.page) \subseteq Ids
      BY MetaCachesAssumption, ElementOfSeq DEF CacheRows
    <2>5. HasRead(t, merged)
      BY <1>1, <1>4, <1>6, <2>1, <2>2, <2>4 DEF HasRead, Covered
    <2>6. QED
      BY <1>2, <1>5, <1>9, <2>3, <2>5, GoingOn
  <1>10. QED
    BY <1>7, <1>8, <1>9 DEF DrepPage, merged

(* `fetch_drep_metadata_retry` *)
LEMMA DrepMetadataNames == ASSUME NamesInv, DrepMetadata PROVE NamesInv'
  <1> DEFINE s == scrape["dreps"]
  <1>1. s # Idle /\ s.by = "ids"
    BY DEF DrepMetadata
  <1>2. /\ "dreps" \in Scrapers /\ Cached("dreps") = "dreps" /\ ScrapeOk(s) /\ HasRead(s, cache["dreps"])
        /\ name \in [Ids -> Nat] /\ MapOk(cache["dreps"])
        /\ \A i \in Ids : s.began[i] \in Nat /\ s.began[i] <= name[i]
    BY <1>1, DrepStepFacts
  <1>3. ASSUME NEW i \in s.todo, NEW t, t = [s EXCEPT !.todo = @ \ {i}], Goes("dreps", t),
               NEW m, m = Remembered(cache["dreps"], i, name[i]), cache' = [cache EXCEPT !["dreps"] = m]
        PROVE  NamesInv'
    <2>1. i \in Ids
      BY <1>2 DEF ScrapeOk
    <2>2. Renewed(cache["dreps"], m) /\ \A n \in Nat : n <= name[i] => Knows(m, i, n)
      BY <1>2, <1>3, <2>1, OneFacts
    <2>3. ScrapeOk(t) /\ t.began = s.began /\ t.failed = s.failed /\ t.by = "ids" /\ t.todo = s.todo \ {i}
      BY <1>1, <1>2, <1>3 DEF ScrapeOk
    <2>4. ASSUME NEW j \in Covered(t) \ t.failed
          PROVE  Knows(m, j, t.began[j])
      <3>1. j \in Ids /\ j \notin s.failed /\ (j = i \/ j \in Covered(s))
        BY <1>1, <2>3, <2>4 DEF Covered
      <3>2. QED
        BY <1>1, <1>2, <2>2, <2>3, <3>1, StillRead
    <2>5. HasRead(t, m)
      BY <2>4 DEF HasRead
    <2>6. QED
      BY <1>2, <1>3, <2>2, <2>3, <2>5, GoingOn
  <1>4. ASSUME s.todo = {}, Finish("dreps", cache["dreps"])
        PROVE  NamesInv'
    <2>1. \A i \in Ids \ s.failed : Knows(cache["dreps"], i, s.began[i])
      BY <1>1, <1>2, <1>4 DEF HasRead, Covered
    <2>2. QED
      BY <1>1, <1>2, <1>4, <2>1, Finishing
  <1>5. QED
    BY <1>3, <1>4 DEF DrepMetadata

-----------------------------------------------------------------------------
(* The backend renames, and answers arrive when they do. *)

LEMMA NamesInitially == CacheInit => NamesInv
  <1> SUFFICES ASSUME CacheInit PROVE NamesInv
    OBVIOUS
  <1>1. /\ name \in [Ids -> 0..1] /\ lookups = {}
        /\ cache = [c \in Caches |-> Nothing] /\ scrape = [w \in Scrapers |-> Idle]
        /\ floor = [c \in Caches |-> [i \in Ids |-> 0]] /\ excused = [c \in Caches |-> {}]
    BY DEF CacheInit
  <1>2. MapOk(Nothing)
    BY DEF MapOk, Nothing
  <1>3. NamesTyped
    BY <1>1, <1>2 DEF NamesTyped
  <1>4. FloorIsOld /\ ScrapesRead /\ ListedAreRecent
    BY <1>1 DEF FloorIsOld, ScrapesRead, ListedAreRecent, Knows
  <1>5. QED
    BY <1>3, <1>4 DEF NamesInv

LEMMA RenameNames == ASSUME NamesInv, Rename PROVE NamesInv'
  <1>1. NamesTyped /\ FloorIsOld /\ ScrapesRead /\ ListedAreRecent
    BY DEF NamesInv
  <1>2. PICK i \in Ids : name' = [name EXCEPT ![i] = @ + 1]
    BY DEF Rename
  <1>3. UNCHANGED <<cache, scrape, lookups, floor, excused, scrapes>>
    BY DEF Rename
  <1>4. name' \in [Ids -> Nat] /\ \A j \in Ids : name[j] \in Nat /\ name'[j] \in Nat /\ name[j] <= name'[j]
    BY <1>1, <1>2 DEF NamesTyped
  <1>5. NamesTyped' /\ ListedAreRecent'
    BY <1>1, <1>3, <1>4 DEF NamesTyped, ListedAreRecent, MapOk, Knows
  <1>6. FloorIsOld'
    <2> SUFFICES ASSUME NEW c \in Caches, NEW j \in Ids PROVE floor[c][j] <= name'[j]
      BY <1>3 DEF FloorIsOld
    <2>1. floor[c][j] \in Nat /\ floor[c][j] <= name[j]
      BY <1>1 DEF NamesTyped, FloorIsOld
    <2>2. QED
      BY <1>4, <2>1
  <1>7. ASSUME NEW c \in Scrapers, scrape[c] # Idle
        PROVE  ScrapeOk(scrape[c])' /\ HasRead(scrape[c], ReadInto(c))'
    <2>1. ScrapeOk(scrape[c]) /\ HasRead(scrape[c], ReadInto(c))
      BY <1>1, <1>7 DEF ScrapesRead
    <2>2. \A j \in Ids : scrape[c].began[j] \in Nat /\ scrape[c].began[j] <= name[j]
      BY <2>1 DEF ScrapeOk
    <2>3. \A j \in Ids : scrape[c].began[j] <= name'[j]
      BY <1>4, <2>2
    <2>4. QED
      BY <1>3, <2>1, <2>3 DEF ScrapeOk, HasRead, ReadInto, MapOk, Covered, Knows
  <1>8. ScrapesRead'
    BY <1>3, <1>7 DEF ScrapesRead
  <1>9. QED
    BY <1>5, <1>6, <1>8 DEF NamesInv

LEMMA AsksNames ==
    ASSUME NamesInv, NEW c \in Caches, NEW i \in Ids, NEW listed \in BOOLEAN, NEW n \in Nat,
           Asks(c, i, listed, n)
    PROVE  NamesInv'
  <1>1. lookups' = lookups \cup {[of |-> c, id |-> i, listed |-> listed, answer |-> n]}
    BY DEF Asks
  <1>2. UNCHANGED <<name, cache, scrape, floor, excused, scrapes>>
    BY DEF Asks
  <1>3. NamesTyped'
    BY <1>1, <1>2 DEF NamesInv, NamesTyped, MapOk
  <1>4. FloorIsOld' /\ ListedAreRecent'
    BY <1>2 DEF NamesInv, FloorIsOld, ListedAreRecent, Knows
  <1>5. ScrapesRead'
    BY <1>2 DEF NamesInv, ScrapesRead, ScrapeOk, HasRead, ReadInto, MapOk, Covered, Knows
  <1>6. QED
    BY <1>3, <1>4, <1>5 DEF NamesInv

LEMMA LookUpNames == ASSUME NamesInv, LookUpPool \/ LookUpDrep PROVE NamesInv'
  <1>1. name \in [Ids -> Nat]
    BY DEF NamesInv, NamesTyped
  <1>2. CASE LookUpPool
    BY <1>1, <1>2, AsksNames, CachedFacts DEF LookUpPool
  <1>3. CASE LookUpDrep
    <2>1. PICK i \in Ids, listed \in BOOLEAN : \E n \in 0..name[i] : Asks("dreps", i, listed, n)
      BY <1>3 DEF LookUpDrep
    <2>2. QED
      BY <1>1, <2>1, AsksNames, CachedFacts
  <1>4. QED
    BY <1>2, <1>3

(* An answer younger than a name takes no knowledge of it; an older one is *)
(* excused.                                                                *)
LEMMA AnswerFacts ==
    ASSUME NEW m, MapOk(m), NEW id \in Ids, NEW a \in Nat
    PROVE  /\ MapOk(Remembered(m, id, a))
           /\ \A i \in Ids, n \in Nat : Knows(m, i, n) /\ (i = id => a >= n \/ a = 0) =>
                  Knows(Remembered(m, id, a), i, n)
  BY DEF MapOk, Remembered, Knows

LEMMA LookedUpNames == ASSUME NamesInv, LookedUp PROVE NamesInv'
  <1>1. PICK l \in lookups :
            /\ lookups' = lookups \ {l}
            /\ IF l.listed
               THEN cache' = [cache EXCEPT ![l.of] = Remembered(@, l.id, l.answer)]
               ELSE UNCHANGED cache
            /\ excused' = IF l.listed /\ l.answer < floor[l.of][l.id]
                          THEN [excused EXCEPT ![l.of] = @ \cup {l.id}] ELSE excused
            /\ scrape' = IF /\ l.of = "dreps" /\ scrape["dreps"] # Idle
                            /\ l.listed /\ l.answer < scrape["dreps"].began[l.id]
                         THEN [scrape EXCEPT !["dreps"].failed = @ \cup {l.id}] ELSE scrape
            /\ UNCHANGED <<name, floor, scrapes>>
    BY Zenon DEF LookedUp
  <1> DEFINE c == l.of
             m == IF l.listed THEN Remembered(cache[c], l.id, l.answer) ELSE cache[c]
             late == /\ c = "dreps" /\ scrape["dreps"] # Idle
                     /\ l.listed /\ l.answer < scrape["dreps"].began[l.id]
  <1>2. /\ NamesTyped /\ FloorIsOld /\ ScrapesRead /\ ListedAreRecent
        /\ c \in Caches /\ l.id \in Ids /\ l.answer \in Nat /\ MapOk(cache[c])
        /\ l.listed \in BOOLEAN
    BY DEF NamesInv, NamesTyped
  <1>3. /\ MapOk(m)
        /\ \A i \in Ids, n \in Nat :
               Knows(cache[c], i, n) /\ (i = l.id /\ l.listed => l.answer >= n \/ l.answer = 0) =>
                   Knows(m, i, n)
    <2>1. CASE l.listed
      BY <1>2, <2>1, AnswerFacts
    <2>2. CASE ~l.listed
      BY <1>2, <2>2
    <2>3. QED
      BY <2>1, <2>2
  <1>4. /\ cache'[c] = m /\ \A d \in Caches : d # c => cache'[d] = cache[d]
        /\ DOMAIN cache' = Caches /\ cache' = [d \in Caches |-> cache'[d]]
    <2>1. CASE l.listed
      BY <1>1, <1>2, <2>1 DEF NamesTyped
    <2>2. CASE ~l.listed
      BY <1>1, <1>2, <2>2 DEF NamesTyped
    <2>3. QED
      BY <2>1, <2>2
  <1> HIDE DEF m, c
  <1>5. /\ DOMAIN excused' = Caches /\ excused' = [d \in Caches |-> excused'[d]]
        /\ \A d \in Caches : excused[d] \subseteq excused'[d]
        /\ l.listed /\ l.answer < floor[c][l.id] => l.id \in excused'[c]
    BY <1>1, <1>2 DEF NamesTyped, c
  <1>6. /\ DOMAIN scrape' = Scrapers /\ scrape' = [d \in Scrapers |-> scrape'[d]]
        /\ \A d \in Scrapers : ~(d = "dreps" /\ late) => scrape'[d] = scrape[d]
        /\ late => scrape'["dreps"] = [scrape["dreps"] EXCEPT !.failed = @ \cup {l.id}]
    BY <1>1, <1>2, CachedFacts DEF NamesTyped, c
  <1> HIDE DEF late
  <1>7. NamesTyped'
    <2>1. \A d \in Caches : MapOk(cache'[d]) /\ floor'[d] \in [Ids -> Nat]
      BY <1>1, <1>2, <1>3, <1>4 DEF NamesTyped
    <2>2. \A k \in lookups' : /\ k.of \in Caches /\ k.id \in Ids /\ k.answer \in Nat
                              /\ k.listed \in BOOLEAN
      BY <1>1, <1>2 DEF NamesTyped
    <2>3. /\ name' \in [Ids -> Nat] /\ DOMAIN floor' = Caches
          /\ floor' = [d \in Caches |-> floor'[d]]
      BY <1>1, <1>2 DEF NamesTyped
    <2>4. QED
      BY <1>4, <1>5, <1>6, <2>1, <2>2, <2>3 DEF NamesTyped, MapOk
  <1>8. FloorIsOld'
    BY <1>1, <1>2 DEF FloorIsOld
  <1>9. ListedAreRecent'
    <2> SUFFICES ASSUME NEW d \in Caches, NEW i \in Ids \ excused'[d]
                 PROVE  Knows(cache'[d], i, floor[d][i])
      BY <1>1 DEF ListedAreRecent, Knows
    <2>1. Knows(cache[d], i, floor[d][i]) /\ floor[d][i] \in Nat
      BY <1>2, <1>5 DEF ListedAreRecent, Knows, NamesTyped
    <2>2. CASE d = c
      <3>1. i = l.id /\ l.listed => l.answer >= floor[c][i]
        BY <1>2, <1>5, <2>1, <2>2
      <3>2. cache'[d] = m /\ Knows(cache[c], i, floor[d][i]) /\ i \in Ids
        BY <1>4, <2>1, <2>2
      <3>3. Knows(m, i, floor[d][i])
        BY ONLY <1>3, <2>1, <2>2, <3>1, <3>2
      <3>4. QED
        BY <3>2, <3>3
    <2>3. CASE d # c
      BY <1>4, <2>1, <2>3
    <2>4. QED
      BY <2>2, <2>3
  <1>10. ScrapesRead'
    <2> SUFFICES ASSUME NEW d \in Scrapers, scrape'[d] # Idle
                 PROVE  ScrapeOk(scrape[d])' /\ HasRead(scrape[d], ReadInto(d))'
      BY DEF ScrapesRead
    <2> DEFINE s == scrape[d]
               t == scrape'[d]
    <2>1. s # Idle
      BY <1>6 DEF late, c
    <2>2. ScrapeOk(s) /\ HasRead(s, ReadInto(d))
      BY <1>2, <2>1 DEF ScrapesRead
    <2>3. /\ DOMAIN t = DOMAIN s /\ t.by = s.by /\ t.page = s.page /\ t.todo = s.todo /\ t.map = s.map
          /\ t.began = s.began /\ s.failed \subseteq t.failed
          /\ d = "dreps" /\ late => l.id \in t.failed
      <3>1. CASE d = "dreps" /\ late
        BY <1>6, <2>2, <3>1 DEF ScrapeOk
      <3>2. CASE ~(d = "dreps" /\ late)
        BY <1>6, <3>2
      <3>3. QED
        BY <3>1, <3>2
    <2> HIDE DEF t
    <2>4. ScrapeOk(t)
      BY <2>2, <2>3 DEF ScrapeOk
    <2>5. Covered(t) = Covered(s) /\ Covered(s) \subseteq Ids
      <3>1. CacheRows(s.page) \subseteq Ids
        BY MetaCachesAssumption, ElementOfSeq DEF CacheRows
      <3>2. QED
        BY <2>3, <3>1 DEF Covered
    <2>6. ASSUME NEW i \in Covered(s) \ t.failed
          PROVE  Knows(IF d = "dreps" THEN cache'["dreps"] ELSE t.map, i, s.began[i])
      <3>1. i \in Ids /\ Knows(ReadInto(d), i, s.began[i]) /\ s.began[i] \in Nat
        BY <2>2, <2>3, <2>5, <2>6 DEF HasRead, ScrapeOk
      <3>2. CASE d # "dreps"
        BY <2>3, <3>1, <3>2 DEF ReadInto
      <3>3. CASE d = "dreps" /\ c = "dreps"
        <4>1. i = l.id /\ l.listed => l.answer >= s.began[i]
          BY <1>2, <2>1, <2>3, <2>6, <3>1, <3>3 DEF late
        <4>2. QED
          BY <1>3, <1>4, <3>1, <3>3, <4>1 DEF ReadInto
      <3>4. CASE d = "dreps" /\ c # "dreps"
        BY <1>4, <3>1, <3>4, CachedFacts DEF ReadInto
      <3>5. QED
        BY <3>2, <3>3, <3>4
    <2>7. HasRead(t, IF d = "dreps" THEN cache'["dreps"] ELSE t.map)
      BY <2>3, <2>5, <2>6 DEF HasRead
    <2>8. QED
      BY <1>1, <2>4, <2>7 DEF ScrapeOk, HasRead, ReadInto, MapOk, Covered, Knows, t
  <1>11. QED
    BY <1>7, <1>8, <1>9, <1>10 DEF NamesInv

LEMMA StartScrapeNames == ASSUME NamesInv, NEW w \in Scrapers, StartScrape(w) PROVE NamesInv'
  <1> DEFINE s == Begin("list")
  <1>1. /\ scrape' = [scrape EXCEPT ![w] = s] /\ UNCHANGED <<name, cache, lookups, floor, excused>>
    BY DEF StartScrape
  <1>2. name \in [Ids -> Nat] /\ \A i \in Ids : name[i] <= name[i]
    BY DEF NamesInv, NamesTyped
  <1>3. s = [s EXCEPT !.began = name]
    BY DEF Begin
  <1>4. ScrapeOk(s) /\ \A m : HasRead(s, m)
    BY <1>2, <1>3, BeginFacts
  <1> HIDE DEF s
  <1>5. /\ DOMAIN scrape' = Scrapers /\ scrape' = [d \in Scrapers |-> scrape'[d]]
        /\ \A d \in Scrapers : scrape'[d] = s \/ scrape'[d] = scrape[d]
    BY <1>1 DEF NamesInv, NamesTyped
  <1>6. NamesTyped' /\ FloorIsOld' /\ ListedAreRecent'
    BY <1>1, <1>5 DEF NamesInv, NamesTyped, FloorIsOld, ListedAreRecent, MapOk, Knows
  <1>7. ASSUME NEW d \in Scrapers, scrape'[d] # Idle
        PROVE  ScrapeOk(scrape'[d]) /\ HasRead(scrape'[d], ReadInto(d)')
    BY <1>1, <1>4, <1>5, <1>7 DEF NamesInv, ScrapesRead, ReadInto
  <1>8. ScrapesRead'
    BY <1>1, <1>7 DEF ScrapesRead, ScrapeOk, HasRead, MapOk, Covered, Knows
  <1>9. QED
    BY <1>6, <1>8 DEF NamesInv

LEMMA RestartNames == ASSUME NamesInv, RestartCaches PROVE NamesInv'
  <1>1. /\ scrape' = [w \in Scrapers |-> Idle] /\ lookups' = {}
        /\ UNCHANGED <<name, cache, floor, excused, scrapes>>
    BY DEF RestartCaches
  <1>2. QED
    BY <1>1 DEF NamesInv, NamesTyped, FloorIsOld, ScrapesRead, ListedAreRecent, MapOk, Knows

(* After completed scrapes either cache shows every id that had a name     *)
(* when the newest of them began, by that name or a later one              *)
(* (`PoolCache::refresh` replaces its map, the scrapes of DReps merge into *)
(* theirs), whatever is renamed, asked and answered beside it, but for an  *)
(* id whose own request failed, whose lookup was asked before the scrape   *)
(* and answered after it, or that an older scrape ending last brought back,*)
(* and a DRep asked for by a spelling it was remembered under.             *)
THEOREM NamesStayRecent == CacheSpec => []NamesAreRecent
  <1>1. NamesInv /\ [PoolNext \/ DrepNext]_cacheVars => NamesInv'
    <2> SUFFICES ASSUME NamesInv, [PoolNext \/ DrepNext]_cacheVars PROVE NamesInv'
      OBVIOUS
    <2>1. CASE Rename
      BY <2>1, RenameNames
    <2>2. CASE LookUpPool \/ LookUpDrep
      BY <2>2, LookUpNames
    <2>3. CASE LookedUp
      BY <2>3, LookedUpNames
    <2>4. ASSUME NEW w \in {"boot", "daily"}, StartScrape(w) \/ PoolPage(w) \/ PoolMetadata(w)
          PROVE  NamesInv'
      <3>1. w \in Scrapers
        BY DEF Scrapers
      <3>2. QED
        BY <2>4, <3>1, StartScrapeNames, PoolPageNames, PoolMetadataNames
    <2>5. CASE StartScrape("dreps")
      BY <2>5, StartScrapeNames, CachedFacts
    <2>6. CASE DrepUnpaged
      BY <2>6, DrepUnpagedNames
    <2>7. CASE DrepPage
      BY <2>7, DrepPageNames
    <2>8. CASE DrepMetadata
      BY <2>8, DrepMetadataNames
    <2>9. CASE RestartCaches
      BY <2>9, RestartNames
    <2>10. CASE UNCHANGED cacheVars
      <3>1. UNCHANGED <<name, cache, scrape, lookups, floor, excused>>
        BY <2>10 DEF cacheVars
      <3>2. NamesTyped' /\ FloorIsOld' /\ ListedAreRecent'
        BY <3>1 DEF NamesInv, NamesTyped, FloorIsOld, ListedAreRecent, MapOk, Knows
      <3>3. ScrapesRead'
        BY <3>1 DEF NamesInv, ScrapesRead, ScrapeOk, HasRead, ReadInto, MapOk, Covered, Knows
      <3>4. QED
        BY <3>2, <3>3 DEF NamesInv
    <2>11. QED
      BY <2>1, <2>2, <2>3, <2>4, <2>5, <2>6, <2>7, <2>8, <2>9, <2>10 DEF PoolNext, DrepNext
  <1>2. NamesInv => NamesAreRecent
    <2> SUFFICES ASSUME NamesInv, NEW c \in Caches, NEW listed \in BOOLEAN, NEW i \in Ids \ excused[c],
                        floor[c][i] > 0, ~(c = "dreps" /\ ~listed /\ i \in DOMAIN alias)
                 PROVE  NameShown(c, i, listed) >= floor[c][i]
      BY DEF NamesAreRecent
    <2>1. i \in DOMAIN cache[c] /\ cache[c][i] >= floor[c][i]
      BY DEF NamesInv, ListedAreRecent, Knows
    <2>2. NameShown(c, i, listed) = cache[c][i]
      BY <2>1 DEF NameShown
    <2>3. QED
      BY <2>1, <2>2
  <1>3. QED
    BY <1>1, <1>2, NamesInitially, PTL DEF CacheSpec

-----------------------------------------------------------------------------
(* Sums of coins. *)

(* f is the running total of an asset over the coins at some places. *)
Sums(f, coins, places, a) ==
    /\ f \in [0..Len(coins) -> Nat]
    /\ f[0] = 0 /\ TotalAt(coins, places, a) = f[Len(coins)]
    /\ \A n \in 1..Len(coins) :
          f[n] = f[n - 1] + (IF n \in places THEN coins[n].holds[a] ELSE 0)

LEMMA TotalAtFacts ==
    ASSUME NEW coins \in Seq(Coin), NEW places, NEW a \in Assets
    PROVE  \E f : Sums(f, coins, places, a)
  <1> DEFINE N == Len(coins)
             add(n) == IF n \in places THEN coins[n].holds[a] ELSE 0
             Is(f) == f = [n \in 0..N |-> IF n = 0 THEN 0 ELSE f[n - 1] + add(n)]
             after == CHOOSE f : Is(f)
             step == [p \in (1..N) \X Nat |-> p[2] + add(p[1])]
  <1>1. N \in Nat /\ \A n \in 1..N : add(n) \in Nat
    <2>1. \A n \in 1..N : coins[n] \in Coin
      OBVIOUS
    <2>2. \A c \in Coin : c.holds[a] \in Nat
      BY DEF Coin
    <2>3. QED
      BY <2>1, <2>2
  <1>2. TotalAt(coins, places, a) = after[N]
    BY DEF TotalAt
  <1> HIDE DEF N, add
  <1>3. step \in [(1..N) \X Nat -> Nat]
    <2>1. \A p \in (1..N) \X Nat : p[2] + add(p[1]) \in Nat
      BY <1>1
    <2>2. QED
      BY <2>1
  <1>4. PICK g : Carries(g, N, Nat, 0, step)
    <2> HIDE DEF step
    <2>1. QED
      BY <1>1, <1>3, IterationExists
  <1>5. ASSUME NEW n \in 1..N
        PROVE  g[n] = g[n - 1] + add(n)
    <2>1. n - 1 \in 0..N /\ <<n, g[n - 1]>> \in (1..N) \X Nat
      BY <1>1, <1>4 DEF Carries
    <2>2. step[<<n, g[n - 1]>>] = g[n - 1] + add(n)
      BY <2>1
    <2> HIDE DEF step
    <2>3. QED
      BY <1>4, <2>2 DEF Carries
  <1>6. Is(g)
    <2>1. g \in [0..N -> Nat] /\ g[0] = 0
      BY <1>4 DEF Carries
    <2>2. QED
      BY <1>1, <1>5, <2>1
  <1>7. Is(after)
    BY <1>6
  <1> HIDE DEF after, step
  <1>8. after[0] = 0 /\ \A n \in 1..N : after[n] = after[n - 1] + add(n)
    BY <1>1, <1>7
  <1> DEFINE S == {n \in Nat : n <= N => after[n] \in Nat}
  <1>9. 0 \in S
    BY <1>8
  <1>10. ASSUME NEW n \in Nat, n \in S
         PROVE  n + 1 \in S
    <2>1. SUFFICES ASSUME n + 1 <= N
                   PROVE  after[n + 1] \in Nat
      OBVIOUS
    <2>2. after[n] \in Nat /\ n + 1 \in 1..N /\ n + 1 - 1 = n /\ add(n + 1) \in Nat
      BY <1>1, <1>10, <2>1
    <2>3. after[n + 1] = after[n] + add(n + 1)
      BY <1>8, <2>2
    <2>4. QED
      BY <2>2, <2>3
  <1>11. Nat \subseteq S
    <2> HIDE DEF S
    <2>1. QED
      BY <1>9, <1>10, InductiveSet
  <1>12. after \in [0..N -> Nat]
    <2>1. \A n \in 0..N : after[n] \in Nat
      BY <1>1, <1>11
    <2>2. after = [n \in 0..N |-> after[n]]
      BY <1>7
    <2>3. QED
      BY <2>1, <2>2
  <1>13. QED
    BY <1>2, <1>8, <1>12 DEF N, add, Sums

(* What lies at more places is no less. *)
LEMMA TotalGrows ==
    ASSUME NEW coins \in Seq(Coin), NEW P, NEW Q, NEW a \in Assets,
           \A n \in 1..Len(coins) : n \in P => n \in Q
    PROVE  /\ TotalAt(coins, P, a) \in Nat /\ TotalAt(coins, Q, a) \in Nat
           /\ TotalAt(coins, P, a) <= TotalAt(coins, Q, a)
  <1> DEFINE N == Len(coins)
  <1>1. N \in Nat /\ \A n \in 1..N : coins[n].holds[a] \in Nat
    <2>1. \A n \in 1..N : coins[n] \in Coin
      OBVIOUS
    <2>2. QED
      BY <2>1 DEF Coin
  <1>2. PICK f \in [0..N -> Nat] :
              /\ f[0] = 0 /\ TotalAt(coins, P, a) = f[N]
              /\ \A n \in 1..N : f[n] = f[n - 1] + (IF n \in P THEN coins[n].holds[a] ELSE 0)
    <2>1. \E s : Sums(s, coins, P, a)
      BY TotalAtFacts
    <2>2. QED
      BY <2>1 DEF Sums
  <1>3. PICK g \in [0..N -> Nat] :
              /\ g[0] = 0 /\ TotalAt(coins, Q, a) = g[N]
              /\ \A n \in 1..N : g[n] = g[n - 1] + (IF n \in Q THEN coins[n].holds[a] ELSE 0)
    <2>1. \E s : Sums(s, coins, Q, a)
      BY TotalAtFacts
    <2>2. QED
      BY <2>1 DEF Sums
  <1> HIDE DEF N
  <1> DEFINE S == {n \in Nat : n <= N => f[n] <= g[n]}
  <1>4. 0 \in S
    BY <1>2, <1>3
  <1>5. ASSUME NEW n \in Nat, n \in S
        PROVE  n + 1 \in S
    <2>1. SUFFICES ASSUME n + 1 <= N
                   PROVE  f[n + 1] <= g[n + 1]
      OBVIOUS
    <2>2. n + 1 \in 1..N /\ n + 1 - 1 = n /\ n \in 0..N /\ f[n] \in Nat /\ g[n] \in Nat /\ f[n] <= g[n]
      BY <1>1, <1>5, <2>1
    <2>3. n + 1 \in P => n + 1 \in Q
      BY <2>2 DEF N
    <2>4. /\ f[n + 1] = f[n] + (IF n + 1 \in P THEN coins[n + 1].holds[a] ELSE 0)
          /\ g[n + 1] = g[n] + (IF n + 1 \in Q THEN coins[n + 1].holds[a] ELSE 0)
      BY <1>2, <1>3, <2>2
    <2> DEFINE x == coins[n + 1].holds[a]
    <2>5. x \in Nat
      BY <1>1, <2>2
    <2>6. /\ f[n + 1] = f[n] + (IF n + 1 \in P THEN x ELSE 0)
          /\ g[n + 1] = g[n] + (IF n + 1 \in Q THEN x ELSE 0)
      BY <2>4
    <2> HIDE DEF x
    <2>7. QED
      BY <2>2, <2>3, <2>5, <2>6
  <1>6. N \in S
    <2> HIDE DEF S
    <2>1. QED
      BY <1>1, <1>4, <1>5, InductiveSet
  <1>7. N \in 0..N
    BY <1>1
  <1>8. QED
    BY <1>1, <1>2, <1>3, <1>6, <1>7

(* What lies at some places and what lies at the others is everything. *)
LEMMA TotalSplits ==
    ASSUME NEW coins \in Seq(Coin), NEW P, NEW Q, NEW a \in Assets,
           \A n \in 1..Len(coins) : n \in P <=> n \notin Q
    PROVE  TotalAt(coins, P, a) + TotalAt(coins, Q, a) = Total(coins, a)
  <1> DEFINE N == Len(coins)
  <1>1. N \in Nat /\ DOMAIN coins = 1..N /\ \A n \in 1..N : coins[n].holds[a] \in Nat
    <2>1. \A n \in 1..N : coins[n] \in Coin
      OBVIOUS
    <2>2. QED
      BY <2>1 DEF Coin
  <1>2. PICK f \in [0..N -> Nat] :
              /\ f[0] = 0 /\ TotalAt(coins, P, a) = f[N]
              /\ \A n \in 1..N : f[n] = f[n - 1] + (IF n \in P THEN coins[n].holds[a] ELSE 0)
    <2>1. \E s : Sums(s, coins, P, a)
      BY TotalAtFacts
    <2>2. QED
      BY <2>1 DEF Sums
  <1>3. PICK g \in [0..N -> Nat] :
              /\ g[0] = 0 /\ TotalAt(coins, Q, a) = g[N]
              /\ \A n \in 1..N : g[n] = g[n - 1] + (IF n \in Q THEN coins[n].holds[a] ELSE 0)
    <2>1. \E s : Sums(s, coins, Q, a)
      BY TotalAtFacts
    <2>2. QED
      BY <2>1 DEF Sums
  <1>4. PICK h \in [0..N -> Nat] :
              /\ h[0] = 0 /\ TotalAt(coins, DOMAIN coins, a) = h[N]
              /\ \A n \in 1..N : h[n] = h[n - 1] + (IF n \in DOMAIN coins THEN coins[n].holds[a] ELSE 0)
    <2>1. \E s : Sums(s, coins, DOMAIN coins, a)
      BY TotalAtFacts
    <2>2. QED
      BY <2>1 DEF Sums
  <1> HIDE DEF N
  <1> DEFINE S == {n \in Nat : n <= N => f[n] + g[n] = h[n]}
  <1>5. 0 \in S
    BY <1>2, <1>3, <1>4
  <1>6. ASSUME NEW n \in Nat, n \in S
        PROVE  n + 1 \in S
    <2>1. SUFFICES ASSUME n + 1 <= N
                   PROVE  f[n + 1] + g[n + 1] = h[n + 1]
      OBVIOUS
    <2>2. /\ n + 1 \in 1..N /\ n + 1 - 1 = n /\ n \in 0..N
          /\ f[n] \in Nat /\ g[n] \in Nat /\ h[n] \in Nat /\ f[n] + g[n] = h[n]
      BY <1>1, <1>6, <2>1
    <2>3. n + 1 \in P <=> n + 1 \notin Q
      BY <2>2 DEF N
    <2> DEFINE x == coins[n + 1].holds[a]
    <2>4. x \in Nat
      BY <1>1, <2>2
    <2>5. /\ f[n + 1] = f[n] + (IF n + 1 \in P THEN x ELSE 0)
          /\ g[n + 1] = g[n] + (IF n + 1 \in Q THEN x ELSE 0)
      BY <1>2, <1>3, <2>2
    <2> HIDE DEF x
    <2>6. h[n + 1] = h[n] + x
      <3>1. h[n + 1] = h[n] + (IF n + 1 \in DOMAIN coins THEN coins[n + 1].holds[a] ELSE 0)
        BY <1>4, <2>2
      <3>2. n + 1 \in DOMAIN coins
        BY <1>1, <2>2
      <3>3. QED
        BY <3>1, <3>2 DEF x
    <2>7. QED
      BY <2>2, <2>3, <2>4, <2>5, <2>6
  <1>7. N \in S
    <2> HIDE DEF S
    <2>1. QED
      BY <1>1, <1>5, <1>6, InductiveSet
  <1>8. QED
    BY <1>1, <1>2, <1>3, <1>4, <1>7 DEF Total

-----------------------------------------------------------------------------
(* The transfer card. *)

LEMMA OfferFacts ==
    ASSUME NEW t \in Offers
    PROVE  /\ t.ins \in Seq(Coin) /\ Len(t.ins) \in Nat \ {0} /\ t.outs \in Seq(Coin) /\ t.mint \in [Assets -> Int]
           /\ DOMAIN t.ins = 1..Len(t.ins) /\ DOMAIN t.outs = 1..Len(t.outs) /\ Len(t.outs) \in Nat
           /\ \A i \in 1..Len(t.ins) : t.ins[i] \in Coin
           /\ \A i \in 1..Len(t.outs) : t.outs[i] \in Coin
           /\ \A c : c \in ToSet(t.ins) <=> \E i \in 1..Len(t.ins) : t.ins[i] = c
           /\ \A c : c \in ToSet(t.outs) <=> \E i \in 1..Len(t.outs) : t.outs[i] = c
           /\ \A a \in Assets : Total(t.ins, a) \in Nat /\ Total(t.outs, a) \in Nat
           /\ \A a \in Transferred(t) : a \in Assets /\ Total(t.ins, a) = Total(t.outs, a) /\ t.mint[a] = 0
           /\ t # Gone
  <1>1. /\ t.ins \in Seq(Coin) /\ t.ins # <<>> /\ t.outs \in Seq(Coin) /\ t.mint \in [Assets -> Int]
        /\ \A a \in Assets : Total(t.ins, a) + t.mint[a] = Total(t.outs, a)
        /\ Gone \notin Offers
    BY TransfersAssumption
  <1>2. \A a \in Assets : Total(t.ins, a) \in Nat /\ Total(t.outs, a) \in Nat
    BY <1>1, TotalGrows DEF Total
  <1>3. ASSUME NEW a \in Transferred(t)
        PROVE  a \in Assets /\ Total(t.ins, a) = Total(t.outs, a) /\ t.mint[a] = 0
    <2>1. a \in Assets /\ t.mint[a] = 0
      BY DEF Transferred
    <2>2. QED
      BY <1>1, <1>2, <2>1
  <1>4. /\ \A c : c \in ToSet(t.ins) <=> \E i \in 1..Len(t.ins) : t.ins[i] = c
        /\ \A c : c \in ToSet(t.outs) <=> \E i \in 1..Len(t.outs) : t.outs[i] = c
    BY <1>1, ToSetMember
  <1>5. Len(t.ins) \in Nat \ {0} /\ Len(t.outs) \in Nat
        /\ DOMAIN t.ins = 1..Len(t.ins) /\ DOMAIN t.outs = 1..Len(t.outs)
        /\ (\A i \in 1..Len(t.ins) : t.ins[i] \in Coin) /\ (\A i \in 1..Len(t.outs) : t.outs[i] \in Coin)
    BY <1>1
  <1>6. QED
    BY <1>1, <1>2, <1>3, <1>4, <1>5

(* How much of a the amounts show. *)
Shown(amounts, a) == IF a \in DOMAIN amounts THEN amounts[a] ELSE 0

(* The outputs that pay somebody who spent nothing. *)
Elsewhere(t) == {i \in DOMAIN t.outs : t.outs[i].owner \notin {c.owner : c \in ToSet(t.ins)}}

LEMMA GivenUpFacts ==
    ASSUME NEW t \in Offers, NEW a \in Transferred(t)
    PROVE  GivenUp(t, a) = TotalAt(t.outs, Elsewhere(t), a)
  <1> DEFINE spenders == {c.owner : c \in ToSet(t.ins)}
             back == {i \in DOMAIN t.outs : t.outs[i].owner \in spenders}
  <1>1. a \in Assets /\ Total(t.ins, a) = Total(t.outs, a) /\ t.outs \in Seq(Coin)
        /\ DOMAIN t.outs = 1..Len(t.outs) /\ Total(t.outs, a) \in Nat
    BY OfferFacts
  <1>2. \A n \in 1..Len(t.outs) : n \in Elsewhere(t) <=> n \notin back
    BY <1>1 DEF Elsewhere
  <1>3. GivenUp(t, a) = Total(t.ins, a) - TotalAt(t.outs, back, a)
    BY DEF GivenUp
  <1> HIDE DEF back
  <1>4. TotalAt(t.outs, Elsewhere(t), a) + TotalAt(t.outs, back, a) = Total(t.outs, a)
    BY <1>1, <1>2, TotalSplits
  <1>5. TotalAt(t.outs, Elsewhere(t), a) \in Nat /\ TotalAt(t.outs, back, a) \in Nat
    BY <1>1, TotalGrows
  <1>6. QED
    BY <1>1, <1>3, <1>4, <1>5

(* What keep_token_transfer leaves on the card. *)
LEMMA KeptFacts ==
    ASSUME NEW t \in Offers, NEW found \in SUBSET (0..Len(t.ins)), Transferred(t) # {}
    PROVE  /\ DOMAIN Kept(t, found) \in SUBSET Assets
           /\ Kept(t, found) \in [DOMAIN Kept(t, found) -> Nat]
           /\ \A a \in Transferred(t) :
                /\ \/ Shown(Kept(t, found), a) >= GivenUp(t, a)
                   \/ /\ found = {0}
                      /\ Cardinality(KeyWallets(t)) <= 1 \/ Holders(ToSet(t.outs), a) = {}
                /\ found = 0..Len(t.ins) /\ AllShelley(t) => Shown(Kept(t, found), a) = GivenUp(t, a)
  <1> DEFINE known == found \ {0}
             own == {c.owner : c \in Resolved(t, known)}
             outside == {i \in DOMAIN t.outs :
                            ~(HasCredential(t.outs[i].owner) /\ t.outs[i].owner \in own)}
  <1>1. /\ t.outs \in Seq(Coin) /\ DOMAIN t.outs = 1..Len(t.outs)
        /\ \A a \in Assets : Total(t.outs, a) \in Nat
        /\ Transferred(t) \in SUBSET Assets
    BY OfferFacts
  <1>2. \A a \in Assets : TotalAt(t.outs, outside, a) \in Nat /\ TotalAt(t.outs, Elsewhere(t), a) \in Nat
    BY <1>1, TotalGrows
  <1>3. \A a \in Transferred(t) : GivenUp(t, a) = TotalAt(t.outs, Elsewhere(t), a)
    BY GivenUpFacts
  <1>4. /\ DOMAIN ParsedAmounts(t) = Transferred(t)
        /\ \A a \in Transferred(t) : ParsedAmounts(t)[a] = Total(t.outs, a)
        /\ ParsedAmounts(t) \in [Transferred(t) -> Nat]
    BY <1>1 DEF ParsedAmounts
  <1>5. \A a \in Transferred(t) : Total(t.outs, a) >= GivenUp(t, a)
    <2>1. SUFFICES ASSUME NEW a \in Transferred(t)
                   PROVE  TotalAt(t.outs, Elsewhere(t), a) <= TotalAt(t.outs, DOMAIN t.outs, a)
      BY <1>1, <1>2, <1>3 DEF Total
    <2>2. a \in Assets /\ \A n \in 1..Len(t.outs) : n \in Elsewhere(t) => n \in DOMAIN t.outs
      BY <1>1
    <2>3. QED
      BY <1>1, <2>2, TotalGrows
  <1>6. CASE 0 \notin found
    <2>1. Kept(t, found) = ParsedAmounts(t)
      BY <1>6 DEF Kept
    <2>2. found # 0..Len(t.ins)
      BY <1>6, OfferFacts
    <2>3. \A a \in Transferred(t) : Shown(Kept(t, found), a) = Total(t.outs, a)
      BY <1>4, <2>1 DEF Shown
    <2>4. DOMAIN Kept(t, found) = Transferred(t) /\ Kept(t, found) \in [Transferred(t) -> Nat]
      BY <1>4, <2>1
    <2>5. QED
      BY <1>1, <1>5, <2>2, <2>3, <2>4
  <1>7. CASE 0 \in found /\ known = {}
    <2> DEFINE moved == {b \in Transferred(t) : ChangesHands(t, b, {})}
    <2>1. Kept(t, found) = [a \in moved |-> ParsedAmounts(t)[a]]
      BY <1>7 DEF Kept, ExternalAmounts
    <2>2. found = {0} /\ found # 0..Len(t.ins)
      <3>1. found = {0}
        BY <1>7
      <3>2. 1 \in 0..Len(t.ins)
        BY OfferFacts
      <3>3. QED
        BY <3>1, <3>2
    <2>3. DOMAIN Kept(t, found) = moved /\ Kept(t, found) \in [moved -> Nat]
          /\ \A a \in moved : Kept(t, found)[a] = Total(t.outs, a)
      BY <1>4, <2>1
    <2>4. ASSUME NEW a \in Transferred(t), ~(Cardinality(KeyWallets(t)) <= 1), Holders(ToSet(t.outs), a) # {}
          PROVE  Shown(Kept(t, found), a) >= GivenUp(t, a)
      <3>1. Cardinality(KeyWallets(t)) > 1
        <4>1. IsFiniteSet(KeyWallets(t))
          <5> DEFINE S == 1..Len(t.outs)
                     T == {t.outs[i].owner : i \in S}
                     f == [i \in S |-> t.outs[i].owner]
          <5>1. IsFiniteSet(S)
            BY OfferFacts, FS_Interval
          <5>2. f \in Surjection(S, T)
            BY DEF Surjection
          <5> HIDE DEF S, T, f
          <5>3. IsFiniteSet(T)
            BY <5>1, <5>2, FS_Surjection
          <5>4. KeyWallets(t) \in SUBSET T
            <6>1. ASSUME NEW o \in KeyWallets(t)
                  PROVE  o \in T
              <7>1. PICK c \in ToSet(t.outs) : o = c.owner
                BY <6>1 DEF KeyWallets
              <7>2. PICK i \in S : t.outs[i] = c
                BY OfferFacts DEF S
              <7>3. QED
                BY <7>1, <7>2 DEF T
            <6>2. QED
              BY <6>1
          <5>5. QED
            BY <5>3, <5>4, FS_Subset
        <4>2. Cardinality(KeyWallets(t)) \in Nat
          BY <4>1, FS_CardinalityType
        <4>3. QED
          BY <2>4, <4>2
      <3>2. a \in moved
        BY <2>4, <3>1 DEF ChangesHands
      <3>3. QED
        BY <1>5, <2>3, <3>2 DEF Shown
    <2>5. QED
      BY <1>1, <2>2, <2>3, <2>4
  <1>8. CASE 0 \in found /\ known # {}
    <2> DEFINE moved == {b \in Assets : TotalAt(t.outs, outside, b) > 0 /\ t.mint[b] = 0}
    <2>1. Kept(t, found) = [a \in moved |-> TotalAt(t.outs, outside, a)]
      BY <1>8 DEF Kept, ExternalAmounts
    <2>2. DOMAIN Kept(t, found) = moved
      BY <2>1
    <2>3. \A a \in moved : Kept(t, found)[a] = TotalAt(t.outs, outside, a)
      BY <2>1
    <2>4. Kept(t, found) \in [moved -> Nat]
      BY <1>2, <2>1
    <2>5. known \in SUBSET (1..Len(t.ins))
      BY OfferFacts
    <2>6. \A o \in own : \E i \in known : o = t.ins[i].owner
      BY DEF Resolved
    <2>7. \A i \in known : t.ins[i].owner \in own
      BY DEF Resolved
    <2>8. \A i \in 1..Len(t.ins) : t.ins[i] \in ToSet(t.ins)
      BY OfferFacts
    <2> HIDE DEF own, known
    <2>9. \A n \in 1..Len(t.outs) : n \in Elsewhere(t) => n \in outside
      BY <1>1, <2>5, <2>6, <2>8 DEF Elsewhere
    <2>10. ASSUME found = 0..Len(t.ins), AllShelley(t)
           PROVE  \A n \in 1..Len(t.outs) : n \in outside => n \in Elsewhere(t)
      <3>1. ASSUME NEW n \in 1..Len(t.outs), n \notin Elsewhere(t)
            PROVE  n \notin outside
        <4>1. PICK c \in ToSet(t.ins) : t.outs[n].owner = c.owner
          BY <1>1, <3>1 DEF Elsewhere
        <4>2. PICK i \in 1..Len(t.ins) : t.ins[i] = c
          BY OfferFacts
        <4>3. i \in known
          BY <2>10, <4>2, OfferFacts DEF known
        <4>4. t.outs[n].owner \in own
          BY <2>7, <4>1, <4>2, <4>3
        <4>5. HasCredential(t.outs[n].owner)
          <5>1. c \in ToSet(t.ins \o t.outs)
            <6>1. t.ins \in Seq(Coin) /\ t.outs \in Seq(Coin)
              BY OfferFacts
            <6>2. QED
              BY <4>1, <6>1, ToSetConcat
          <5>2. QED
            BY <2>10, <4>1, <5>1 DEF AllShelley
        <4>6. QED
          BY <4>4, <4>5
      <3>2. QED
        BY <3>1
    <2> HIDE DEF outside
    <2>11. ASSUME NEW a \in Transferred(t)
           PROVE  /\ Shown(Kept(t, found), a) = TotalAt(t.outs, outside, a)
                  /\ Shown(Kept(t, found), a) >= GivenUp(t, a)
      <3>1. a \in Assets /\ t.mint[a] = 0
        BY OfferFacts
      <3>2. TotalAt(t.outs, outside, a) \in Nat
        BY <1>2, <3>1
      <3>3. Shown(Kept(t, found), a) = TotalAt(t.outs, outside, a)
        BY <2>2, <2>3, <3>1, <3>2 DEF Shown
      <3>4. TotalAt(t.outs, Elsewhere(t), a) <= TotalAt(t.outs, outside, a)
        BY <1>1, <2>9, <3>1, TotalGrows
      <3>5. QED
        BY <1>2, <1>3, <3>1, <3>3, <3>4
    <2>12. ASSUME found = 0..Len(t.ins), AllShelley(t), NEW a \in Transferred(t)
           PROVE  Shown(Kept(t, found), a) = GivenUp(t, a)
      <3>1. a \in Assets
        BY <1>1
      <3>2. TotalAt(t.outs, outside, a) <= TotalAt(t.outs, Elsewhere(t), a)
        BY <1>1, <2>10, <2>12, <3>1, TotalGrows
      <3>3. QED
        BY <1>2, <1>3, <2>11, <3>1, <3>2
    <2>13. QED
      BY <2>2, <2>4, <2>11, <2>12
  <1>9. QED
    BY <1>6, <1>7, <1>8

(* The amounts on a card, and what it is made of. *)
Cards == [amounts : UNION {[moved -> Nat] : moved \in SUBSET Assets}, seen : SUBSET Nat]

TransferInv ==
    /\ tx \in Offers \cup {Gone} /\ stamps \in Nat
    /\ tx = Gone => card = Gone
    /\ tx # Gone /\ card = Gone /\ stamps = 0 =>
         bodies \in SUBSET (0..Len(tx.ins)) /\ DOMAIN Kept(tx, bodies) = {}
    /\ tx # Gone => Transferred(tx) # {}
    /\ card # Gone =>
         /\ \E found \in SUBSET (0..Len(tx.ins)) :
               card = [amounts |-> Kept(tx, found), seen |-> found]
         /\ flags = Stamped(tx, card.amounts, flags.bodies, flags.scams)
         /\ flags.bodies \in SUBSET (0..Len(tx.ins))

LEMMA CardFacts ==
    ASSUME NEW t \in Offers, NEW found \in SUBSET (0..Len(t.ins)), Transferred(t) # {}
    PROVE  [amounts |-> Kept(t, found), seen |-> found] # Gone
  <1>1. DOMAIN Kept(t, found) \in SUBSET Assets /\ Kept(t, found) \in [DOMAIN Kept(t, found) -> Nat]
    BY KeptFacts
  <1>2. found \in SUBSET Nat
    BY OfferFacts
  <1>3. Kept(t, found) \in UNION {[moved -> Nat] : moved \in SUBSET Assets}
    BY <1>1
  <1>4. [amounts |-> Kept(t, found), seen |-> found] \in Cards
    BY <1>2, <1>3 DEF Cards
  <1>5. QED
    BY <1>4, TransfersAssumption DEF Cards

LEMMA TransferInitially == TransferInit => TransferInv
  BY DEF TransferInit, TransferInv

LEMMA IngestKeeps == ASSUME TransferInv, Ingest PROVE TransferInv'
  <1>1. PICK t \in Offers : \E found \in SUBSET (0..Len(t.ins)) :
               /\ Transferred(t) # {} /\ tx' = t /\ bodies' = found /\ stamps' = stamps
               /\ IF DOMAIN Kept(t, found) = {}
                  THEN card' = Gone /\ flags' = NoFlags
                  ELSE /\ card' = [amounts |-> Kept(t, found), seen |-> found]
                       /\ flags' = Stamped(t, Kept(t, found), found, scams)
    BY DEF Ingest
  <1> DEFINE found == bodies'
  <1>2. /\ found \in SUBSET (0..Len(t.ins)) /\ Transferred(t) # {} /\ tx' = t /\ stamps' = stamps
        /\ IF DOMAIN Kept(t, found) = {}
           THEN card' = Gone /\ flags' = NoFlags
           ELSE /\ card' = [amounts |-> Kept(t, found), seen |-> found]
                /\ flags' = Stamped(t, Kept(t, found), found, scams)
    BY <1>1
  <1>3. t # Gone /\ stamps \in Nat
    BY OfferFacts DEF TransferInv
  <1>4. CASE DOMAIN Kept(t, found) = {}
    BY <1>2, <1>3, <1>4 DEF TransferInv
  <1>5. CASE DOMAIN Kept(t, found) # {}
    <2> HIDE DEF found
    <2>1. card' = [amounts |-> Kept(t, found), seen |-> found] /\ flags' = Stamped(t, Kept(t, found), found, scams)
      BY <1>2, <1>5
    <2>2. card' # Gone
      BY <1>2, <2>1, CardFacts
    <2>3. flags'.bodies = found /\ flags'.scams = scams /\ card'.amounts = Kept(t, found)
      BY <2>1 DEF Stamped
    <2>4. QED
      BY <1>2, <1>3, <2>1, <2>2, <2>3 DEF TransferInv
  <1>6. QED
    BY <1>4, <1>5

LEMMA RefreshKeeps == ASSUME TransferInv, RefreshScams PROVE TransferInv'
  <1>1. /\ stamps \in Nat /\ stamps' = stamps + 1
        /\ tx' = tx /\ bodies' = bodies /\ card' = card /\ flags' = flags
    BY DEF RefreshScams, TransferInv
  <1>2. stamps' \in Nat /\ stamps' # 0
    BY <1>1
  <1>3. QED
    BY <1>1, <1>2 DEF TransferInv

LEMMA RestampKeeps == ASSUME TransferInv, RestartStamps PROVE TransferInv'
  <1>1. PICK found \in SUBSET (0..Len(tx.ins)) :
               /\ flags' = IF card = Gone THEN NoFlags ELSE Stamped(tx, card.amounts, found, scams)
               /\ stamps \in Nat /\ stamps' = stamps + 1 /\ tx' = tx /\ card' = card
    BY DEF RestartStamps, TransferInv
  <1>2. stamps' \in Nat /\ stamps' # 0
    BY <1>1
  <1>3. CASE card # Gone
    <2>1. flags' = Stamped(tx, card.amounts, found, scams)
      BY <1>1, <1>3
    <2>2. flags'.bodies = found /\ flags'.scams = scams
      BY <2>1 DEF Stamped
    <2>3. QED
      BY <1>1, <1>2, <1>3, <2>1, <2>2 DEF TransferInv
  <1>4. CASE card = Gone
    BY <1>1, <1>2, <1>4 DEF TransferInv
  <1>5. QED
    BY <1>3, <1>4

LEMMA TransferReported == ASSUME TransferInv PROVE TransferIsReported
  <1>1. SUFFICES ASSUME tx # Gone, NEW a \in Transferred(tx)
                 PROVE  LET seen == IF card = Gone THEN bodies ELSE card.seen
                        IN  /\ (card # Gone \/ stamps = 0) =>
                                 \/ Told(a) >= GivenUp(tx, a)
                                 \/ /\ seen = {0}
                                    /\ Cardinality(KeyWallets(tx)) <= 1 \/ Holders(ToSet(tx.outs), a) = {}
                            /\ (card # Gone /\ seen = 0..Len(tx.ins) /\ AllShelley(tx)) =>
                                 Told(a) = GivenUp(tx, a)
    BY DEF TransferIsReported
  <1>2. tx \in Offers /\ Transferred(tx) # {}
    BY <1>1 DEF TransferInv
  <1>3. CASE card # Gone
    <2>1. PICK found \in SUBSET (0..Len(tx.ins)) : card = [amounts |-> Kept(tx, found), seen |-> found]
      BY <1>3 DEF TransferInv
    <2>2. Told(a) = Shown(Kept(tx, found), a) /\ card.seen = found
      BY <1>3, <2>1 DEF Told, Shown
    <2>3. /\ \/ Shown(Kept(tx, found), a) >= GivenUp(tx, a)
             \/ /\ found = {0}
                /\ Cardinality(KeyWallets(tx)) <= 1 \/ Holders(ToSet(tx.outs), a) = {}
          /\ found = 0..Len(tx.ins) /\ AllShelley(tx) => Shown(Kept(tx, found), a) = GivenUp(tx, a)
      BY <1>2, KeptFacts
    <2>4. QED
      BY <1>3, <2>2, <2>3
  <1>4. CASE card = Gone /\ stamps = 0
    <2>1. bodies \in SUBSET (0..Len(tx.ins)) /\ DOMAIN Kept(tx, bodies) = {}
      BY <1>1, <1>4 DEF TransferInv
    <2>2. Told(a) = 0 /\ Shown(Kept(tx, bodies), a) = 0
      BY <1>4, <2>1 DEF Told, Shown
    <2>3. \/ Shown(Kept(tx, bodies), a) >= GivenUp(tx, a)
          \/ /\ bodies = {0}
             /\ Cardinality(KeyWallets(tx)) <= 1 \/ Holders(ToSet(tx.outs), a) = {}
      BY <1>2, <2>1, KeptFacts
    <2>4. QED
      BY <1>4, <2>2, <2>3
  <1>5. QED
    BY <1>3, <1>4

LEMMA WarningRight == ASSUME TransferInv PROVE WarningIsRight
  <1>1. SUFFICES ASSUME card # Gone
                 PROVE  /\ 0 \notin flags.bodies => flags.on = {}
                        /\ (flags.bodies = 0..Len(tx.ins) /\ AllShelley(tx)) =>
                             flags.on = {a \in Items(card.amounts) \cap flags.scams :
                                           \E c \in ToSet(tx.outs) :
                                              /\ c.holds[a] > 0
                                              /\ \A d \in ToSet(tx.ins) : d.owner = c.owner => d.holds[a] = 0}
    BY DEF WarningIsRight
  <1> DEFINE found == flags.bodies
             list == flags.scams
  <1>2. flags.on = {a \in Items(card.amounts) :
                      a \in list /\ 0 \in found /\ ChangesHands(tx, a, found \ {0})}
    <2>1. flags = Stamped(tx, card.amounts, found, list)
      BY <1>1 DEF TransferInv
    <2> HIDE DEF found, list
    <2>2. QED
      BY <2>1 DEF Stamped
  <1>3. tx \in Offers /\ Transferred(tx) # {}
    BY <1>1, TransfersAssumption DEF TransferInv
  <1>4. Items(card.amounts) \in SUBSET Assets
    <2>1. PICK f \in SUBSET (0..Len(tx.ins)) : card = [amounts |-> Kept(tx, f), seen |-> f]
      BY <1>1 DEF TransferInv
    <2>2. DOMAIN Kept(tx, f) \in SUBSET Assets
      BY <1>3, KeptFacts
    <2>3. QED
      BY <2>1, <2>2 DEF Items
  <1>5. ASSUME found = 0..Len(tx.ins), AllShelley(tx), NEW a \in Assets
        PROVE  ChangesHands(tx, a, found \ {0}) <=>
                 \E c \in ToSet(tx.outs) :
                    /\ c.holds[a] > 0
                    /\ \A d \in ToSet(tx.ins) : d.owner = c.owner => d.holds[a] = 0
    <2> DEFINE known == found \ {0}
               out == Holders(ToSet(tx.outs), a)
               in == Holders(Resolved(tx, known), a)
    <2>1. /\ \A c \in ToSet(tx.ins) : c \in Coin /\ HasCredential(c.owner)
          /\ \A c \in ToSet(tx.outs) : c \in Coin /\ HasCredential(c.owner)
      <3>1. tx.ins \in Seq(Coin) /\ tx.outs \in Seq(Coin)
        BY <1>3, OfferFacts
      <3>2. ToSet(tx.ins \o tx.outs) = ToSet(tx.ins) \cup ToSet(tx.outs)
        BY <3>1, ToSetConcat
      <3>3. (\A c \in ToSet(tx.ins) : c \in Coin) /\ (\A c \in ToSet(tx.outs) : c \in Coin)
        BY <3>1, ToSetType
      <3>4. \A c \in ToSet(tx.ins) \cup ToSet(tx.outs) : HasCredential(c.owner)
        BY <1>5, <3>2 DEF AllShelley
      <3>5. QED
        BY <3>3, <3>4
    <2>2. \A c \in Coin : c.holds[a] \in Nat
      BY DEF Coin
    <2>3. known = 1..Len(tx.ins) /\ known # {}
      BY <1>3, <1>5, OfferFacts
    <2>4. Resolved(tx, known) = ToSet(tx.ins)
      <3>1. \A c : c \in Resolved(tx, known) <=> \E i \in known : c = tx.ins[i]
        BY DEF Resolved
      <3>2. \A c : c \in ToSet(tx.ins) <=> \E i \in 1..Len(tx.ins) : tx.ins[i] = c
        BY <1>3, OfferFacts
      <3> HIDE DEF known
      <3>3. \A c : c \in Resolved(tx, known) <=> c \in ToSet(tx.ins)
        BY <2>3, <3>1, <3>2
      <3>4. QED
        BY <3>3
    <2> HIDE DEF known, found
    <2>5. \A o : o \in out <=> \E c \in ToSet(tx.outs) : o = c.owner /\ c.holds[a] > 0
      BY <2>1 DEF Holders
    <2>6. \A o : o \in in <=> \E d \in ToSet(tx.ins) : o = d.owner /\ d.holds[a] > 0
      BY <2>1, <2>4 DEF Holders
    <2>7. ChangesHands(tx, a, known) <=> \E o \in out : o \notin in
      BY <2>3 DEF ChangesHands
    <2> HIDE DEF out, in
    <2>8. \A d \in ToSet(tx.ins) : ~(d.holds[a] > 0) <=> d.holds[a] = 0
      BY <2>1, <2>2
    <2>9. (\E o \in out : o \notin in) <=>
            \E c \in ToSet(tx.outs) :
               /\ c.holds[a] > 0
               /\ \A d \in ToSet(tx.ins) : d.owner = c.owner => d.holds[a] = 0
      BY <2>5, <2>6, <2>8
    <2>10. QED
      BY <2>7, <2>9 DEF known
  <1>6. found = 0..Len(tx.ins) => 0 \in found
    BY <1>3, OfferFacts
  <1> HIDE DEF found, list
  <1>7. QED
    BY <1>2, <1>4, <1>5, <1>6 DEF found, list

(* However many transactions' parents are unknown, whichever bodies the    *)
(* store gave up since, and whatever was restored: the card shows at least *)
(* what the spenders of an asset gave away, and exactly that where every   *)
(* spent output's owner was known (parse.rs, `external_transfer_amounts`;  *)
(* state.rs, `keep_token_transfer`); TransferIsReported names what is      *)
(* dropped when no parent is known.                                        *)
THEOREM TransfersAlwaysReported == TransferSpec => []TransferIsReported
  <1>1. TransferInit => TransferInv
    BY TransferInitially
  <1>2. TransferInv /\ [TransferNext]_transferVars => TransferInv'
    <2>1. ASSUME TransferInv, UNCHANGED transferVars
          PROVE  TransferInv'
      BY <2>1 DEF transferVars, TransferInv
    <2>2. QED
      BY <2>1, IngestKeeps, RefreshKeeps, RestampKeeps DEF TransferNext
  <1>3. TransferInv => TransferIsReported
    BY TransferReported
  <1>4. QED
    BY <1>1, <1>2, <1>3, PTL DEF TransferSpec

(* The warning is on the listed assets somebody received who had spent     *)
(* none, as far as the bodies at hand when the card was stamped tell, and  *)
(* on none without the transaction's own (`stamp_event_scam`,              *)
(* `asset_changes_hands`).                                                 *)
THEOREM WarningsAlwaysRight == TransferSpec => []WarningIsRight
  <1>1. TransferInit => TransferInv
    BY TransferInitially
  <1>2. TransferInv /\ [TransferNext]_transferVars => TransferInv'
    <2>1. ASSUME TransferInv, UNCHANGED transferVars
          PROVE  TransferInv'
      BY <2>1 DEF transferVars, TransferInv
    <2>2. QED
      BY <2>1, IngestKeeps, RefreshKeeps, RestampKeeps DEF TransferNext
  <1>3. TransferInv => WarningIsRight
    BY WarningRight
  <1>4. QED
    BY <1>1, <1>2, <1>3, PTL DEF TransferSpec

-----------------------------------------------------------------------------
(* The past of a certificate's key: chains of assignments.                 *)

Txs == [does : TxKinds, n : Nat]
MaybeValue == Values \cup {NoValue}

(* An assignment of a transaction on the chain; a pool is spelt one way.   *)
SpeltOnce(a) == a.what = "pool" => \A v \in DOMAIN Served : Meaning[v] = Meaning[a.to] => v = a.to
Assigned ==
    {a \in [tx : Txs, block : Nat \ {0}, what : What, key : Keys, to : DOMAIN Served] : SpeltOnce(a)}

(* The operators of CertHistory, of any chain. *)
TopOf(c) == IF c = <<>> THEN 0 ELSE c[Len(c)].block
UptoOf(c, n) == {k \in DOMAIN c : c[k].block <= n}
EndOf(c, n) == Max({0} \cup UptoOf(c, n))
LatestOf(c, places) == IF places = {} THEN NoValue ELSE c[Max(places)].to

(* A chain: its assignments come block by block, no block between is       *)
(* empty, and a transaction is in one block.                               *)
GoodChain(c) ==
    /\ c \in Seq(Assigned)
    /\ \A k, m \in 1..Len(c) : k <= m => c[k].block <= c[m].block
    /\ \A k, m \in 1..Len(c) : c[k].tx = c[m].tx => c[k].block = c[m].block
    /\ \A b \in 1..TopOf(c) : \E k \in 1..Len(c) : c[k].block = b

LEMMA ChainFacts ==
    ASSUME NEW c, GoodChain(c)
    PROVE  /\ Len(c) \in Nat /\ DOMAIN c = 1..Len(c) /\ TopOf(c) \in Nat
           /\ \A k \in 1..Len(c) : c[k] \in Assigned /\ c[k].block \in 1..TopOf(c)
           /\ c = <<>> <=> Len(c) = 0
  <1>1. /\ Len(c) \in Nat /\ DOMAIN c = 1..Len(c) /\ \A k \in 1..Len(c) : c[k] \in Assigned
        /\ c = <<>> <=> Len(c) = 0
    BY DEF GoodChain
  <1>2. \A k \in 1..Len(c) : c[k].block \in Nat \ {0}
    BY <1>1 DEF Assigned
  <1>3. CASE c = <<>>
    BY <1>1, <1>3 DEF TopOf
  <1>4. CASE c # <<>>
    <2>1. Len(c) \in 1..Len(c) /\ TopOf(c) = c[Len(c)].block
      BY <1>1, <1>4 DEF TopOf
    <2>2. \A k \in 1..Len(c) : k <= Len(c) /\ c[k].block <= c[Len(c)].block
      BY <1>1, <2>1 DEF GoodChain
    <2>3. QED
      BY <1>1, <1>2, <2>1, <2>2
  <1>5. QED
    BY <1>3, <1>4

(* The blocks up to a height are the places up to an end. *)
LEMMA CutFacts ==
    ASSUME NEW c, GoodChain(c), NEW n \in Nat
    PROVE  /\ EndOf(c, n) \in 0..Len(c) /\ UptoOf(c, n) = 1..EndOf(c, n)
           /\ \A k \in 1..Len(c) : k <= EndOf(c, n) <=> c[k].block <= n
  <1> DEFINE U == UptoOf(c, n)
             E == EndOf(c, n)
  <1>1. /\ Len(c) \in Nat /\ DOMAIN c = 1..Len(c)
        /\ \A k \in 1..Len(c) : c[k].block \in Nat
    BY ChainFacts
  <1>2. U \subseteq 1..Len(c) /\ \A k \in 1..Len(c) : k \in U <=> c[k].block <= n
    BY <1>1 DEF UptoOf
  <1>3. /\ {0} \cup U \in SUBSET Nat /\ {0} \cup U # {} /\ \A k \in {0} \cup U : k <= Len(c)
        /\ E = Max({0} \cup U)
    BY <1>1, <1>2 DEF EndOf
  <1> HIDE DEF U, E
  <1>4. E \in {0} \cup U /\ \A k \in {0} \cup U : k <= E
    BY <1>1, <1>3, MaxIsGreatest
  <1>5. E \in 0..Len(c)
    BY <1>1, <1>3, <1>4
  <1>6. ASSUME NEW k \in 1..Len(c), k <= E
        PROVE  k \in U
    <2>1. E \in U
      BY <1>1, <1>4, <1>6
    <2>2. c[k].block <= c[E].block /\ c[E].block <= n /\ E \in 1..Len(c)
      BY <1>2, <1>6, <2>1 DEF GoodChain
    <2>3. QED
      BY <1>1, <1>2, <2>2
  <1>7. \A k \in 1..Len(c) : k \in U <=> k <= E
    BY <1>1, <1>4, <1>6
  <1>8. U = 1..E
    <2>1. \A k : k \in 1..E <=> k \in 1..Len(c) /\ k <= E
      BY <1>1, <1>5
    <2>2. \A k : k \in U <=> k \in 1..E
      BY <1>2, <1>7, <2>1
    <2>3. QED
      BY <2>2, Zenon
  <1>9. QED
    BY <1>2, <1>5, <1>7, <1>8 DEF U, E

(* A chain cut at a height ends at that height. *)
LEMMA CutChain ==
    ASSUME NEW c, GoodChain(c), NEW n \in 0..TopOf(c)
    PROVE  LET d == SubSeq(c, 1, EndOf(c, n))
           IN  /\ GoodChain(d) /\ TopOf(d) = n /\ Len(d) = EndOf(c, n)
               /\ \A k \in 1..Len(d) : d[k] = c[k]
               /\ \A m \in 0..n : UptoOf(d, m) = UptoOf(c, m)
  <1> DEFINE E == EndOf(c, n)
             d == SubSeq(c, 1, E)
  <1>1. /\ Len(c) \in Nat /\ DOMAIN c = 1..Len(c) /\ TopOf(c) \in Nat /\ n \in Nat
        /\ \A k \in 1..Len(c) : c[k] \in Assigned /\ c[k].block \in 1..TopOf(c)
    BY ChainFacts
  <1>2. /\ E \in 0..Len(c) /\ \A k \in 1..Len(c) : k <= E <=> c[k].block <= n
    BY <1>1, CutFacts
  <1> HIDE DEF E
  <1>3. /\ d \in Seq(Assigned) /\ Len(d) = E /\ DOMAIN d = 1..E
        /\ \A k \in 1..E : d[k] = c[k] /\ k \in 1..Len(c)
    <2>1. c \in Seq(Assigned)
      BY DEF GoodChain
    <2>2. QED
      BY <1>1, <1>2, <2>1
  <1> HIDE DEF d
  <1>4. TopOf(d) = n
    <2>1. CASE n = 0
      <3>1. E = 0
        BY <1>1, <1>2, <2>1
      <3>2. QED
        BY <1>3, <2>1, <3>1 DEF TopOf
    <2>2. CASE n # 0
      <3>1. PICK k \in 1..Len(c) : c[k].block = n
        <4>1. n \in 1..TopOf(c)
          BY <1>1, <2>2
        <4>2. QED
          BY <4>1 DEF GoodChain
      <3>2. k <= E /\ E \in 1..Len(c) /\ E \in 1..E
        BY <1>1, <1>2, <3>1
      <3>3. c[k].block <= c[E].block
        BY <3>2 DEF GoodChain
      <3>4. c[E].block <= n /\ c[E].block \in Nat
        BY <1>1, <1>2, <3>2
      <3>5. d # <<>> /\ d[Len(d)].block = c[E].block
        BY <1>3, <3>2
      <3>6. QED
        BY <1>1, <3>1, <3>3, <3>4, <3>5 DEF TopOf
    <2>3. QED
      BY <2>1, <2>2
  <1>5. GoodChain(d)
    <2>1. \A k, m \in 1..E : k <= m => d[k].block <= d[m].block
      BY <1>3 DEF GoodChain
    <2>2. \A k, m \in 1..E : d[k].tx = d[m].tx => d[k].block = d[m].block
      BY <1>3 DEF GoodChain
    <2>3. ASSUME NEW b \in 1..n
          PROVE  \E k \in 1..E : d[k].block = b
      <3>1. b \in 1..TopOf(c)
        BY <1>1
      <3>2. PICK k \in 1..Len(c) : c[k].block = b
        BY <3>1 DEF GoodChain
      <3>3. k \in 1..E
        BY <1>1, <1>2, <3>2
      <3>4. QED
        BY <1>3, <3>2, <3>3
    <2>4. QED
      BY <1>3, <1>4, <2>1, <2>2, <2>3 DEF GoodChain
  <1>6. ASSUME NEW m \in 0..n
        PROVE  UptoOf(d, m) = UptoOf(c, m)
    <2>1. \A k \in 1..Len(c) : c[k].block <= m => k \in 1..E
      BY <1>1, <1>2
    <2>2. QED
      BY <1>1, <1>3, <2>1 DEF UptoOf
  <1>7. QED
    BY <1>3, <1>4, <1>5, <1>6 DEF d, E

(* A chain grows by a transaction in its newest block, or in the next. *)
LEMMA ExtendChain ==
    ASSUME NEW c, GoodChain(c), NEW s \in Seq(Assigned), s # <<>>, NEW b \in Nat \ {0},
           b = TopOf(c) \/ b = TopOf(c) + 1,
           \A i \in 1..Len(s) : s[i].block = b /\ \A k \in 1..Len(c) : c[k].tx # s[i].tx
    PROVE  /\ GoodChain(c \o s) /\ TopOf(c \o s) = b /\ Len(c \o s) = Len(c) + Len(s) /\ Len(s) \in Nat \ {0}
           /\ \A k \in 1..Len(c) : (c \o s)[k] = c[k]
           /\ \A i \in 1..Len(s) : (c \o s)[Len(c) + i] = s[i]
           /\ \A m \in 0..(b - 1) : UptoOf(c \o s, m) = UptoOf(c, m)
  <1> DEFINE d == c \o s
             L == Len(c)
             M == Len(s)
  <1>1. /\ L \in Nat /\ DOMAIN c = 1..L /\ TopOf(c) \in Nat
        /\ \A k \in 1..L : c[k] \in Assigned /\ c[k].block \in 1..TopOf(c)
        /\ c = <<>> <=> L = 0
    BY ChainFacts
  <1>2. M \in Nat \ {0} /\ DOMAIN s = 1..M
    OBVIOUS
  <1>3. /\ d \in Seq(Assigned) /\ Len(d) = L + M /\ DOMAIN d = 1..(L + M)
        /\ \A k \in 1..L : d[k] = c[k]
        /\ \A i \in 1..M : d[L + i] = s[i]
    <2>1. c \in Seq(Assigned)
      BY DEF GoodChain
    <2>2. d \in Seq(Assigned) /\ Len(d) = L + M /\ \A k \in 1..L : d[k] = c[k]
      BY <2>1, ConcatProperties
    <2>3. \A i \in 1..M : d[L + i] = s[i]
      BY <2>1, ConcatProperties
    <2>4. QED
      BY <1>1, <1>2, <2>2, <2>3
  <1> HIDE DEF d
  <1>4. ASSUME NEW k \in (L + 1)..(L + M)
        PROVE  d[k].block = b /\ \A m \in 1..L : c[m].tx # d[k].tx
    <2>1. k - L \in 1..M /\ L + (k - L) = k
      BY <1>1, <1>2
    <2>2. d[k] = s[k - L]
      BY <1>3, <2>1
    <2>3. QED
      BY <2>1, <2>2
  <1> HIDE DEF L, M
  <1>5. \A k \in 1..(L + M) : k \in 1..L \/ k \in (L + 1)..(L + M)
    BY <1>1, <1>2
  <1>6. \A k \in 1..L : d[k] = c[k] /\ d[k].block \in 1..TopOf(c) /\ d[k].block <= b
    BY <1>1, <1>3
  <1>7. TopOf(d) = b
    <2>1. L + M \in (L + 1)..(L + M) /\ d # <<>>
      BY <1>1, <1>2, <1>3
    <2>2. QED
      BY <1>3, <1>4, <2>1 DEF TopOf
  <1>8. GoodChain(d)
    <2>1. ASSUME NEW k \in 1..(L + M), NEW m \in 1..(L + M), k <= m
          PROVE  d[k].block <= d[m].block
      <3>1. CASE m \in 1..L
        <4>1. k \in 1..L
          BY <1>1, <1>2, <2>1, <3>1
        <4>2. c[k].block <= c[m].block
          BY <2>1, <3>1, <4>1 DEF GoodChain, L
        <4>3. QED
          BY <1>6, <3>1, <4>1, <4>2
      <3>2. CASE m \in (L + 1)..(L + M)
        <4>1. d[m].block = b
          BY <1>4, <3>2
        <4>2. QED
          BY <1>4, <1>5, <1>6, <4>1
      <3>3. QED
        BY <1>5, <3>1, <3>2
    <2>2. ASSUME NEW k \in 1..(L + M), NEW m \in 1..(L + M), d[k].tx = d[m].tx
          PROVE  d[k].block = d[m].block
      <3>1. CASE k \in 1..L /\ m \in 1..L
        <4>1. c[k].tx = c[m].tx
          BY <1>6, <2>2, <3>1
        <4>2. c[k].block = c[m].block
          BY <3>1, <4>1 DEF GoodChain, L
        <4>3. QED
          BY <1>6, <3>1, <4>2
      <3>2. CASE k \in (L + 1)..(L + M) /\ m \in (L + 1)..(L + M)
        BY <1>4, <3>2
      <3>3. CASE k \in 1..L /\ m \in (L + 1)..(L + M)
        BY <1>4, <1>6, <2>2, <3>3
      <3>4. CASE m \in 1..L /\ k \in (L + 1)..(L + M)
        BY <1>4, <1>6, <2>2, <3>4
      <3>5. QED
        BY <1>5, <3>1, <3>2, <3>3, <3>4
    <2>3. ASSUME NEW x \in 1..b
          PROVE  \E k \in 1..(L + M) : d[k].block = x
      <3>1. CASE x = b
        <4>1. L + M \in (L + 1)..(L + M) /\ L + M \in 1..(L + M)
          BY <1>1, <1>2
        <4>2. QED
          BY <1>4, <3>1, <4>1
      <3>2. CASE x # b
        <4>1. x \in 1..TopOf(c)
          BY <1>1, <3>2
        <4>2. PICK k \in 1..L : c[k].block = x
          BY <4>1 DEF GoodChain, L
        <4>3. k \in 1..(L + M)
          BY <1>1, <1>2
        <4>4. QED
          BY <1>6, <4>2, <4>3
      <3>3. QED
        BY <3>1, <3>2
    <2>4. QED
      BY <1>3, <1>7, <2>1, <2>2, <2>3 DEF GoodChain
  <1>9. ASSUME NEW m \in 0..(b - 1)
        PROVE  UptoOf(d, m) = UptoOf(c, m)
    <2>1. \A k \in (L + 1)..(L + M) : ~(d[k].block <= m)
      BY <1>4
    <2>2. \A k \in 1..L : k \in 1..(L + M)
      BY <1>1, <1>2
    <2>3. QED
      BY <1>1, <1>3, <1>5, <1>6, <2>1, <2>2 DEF UptoOf
  <1>10. QED
    BY <1>2, <1>3, <1>7, <1>8, <1>9 DEF d, L, M

(* The newest of some places. *)
LEMMA LatestFacts ==
    ASSUME NEW c, GoodChain(c), NEW P, P \subseteq 1..Len(c)
    PROVE  /\ P = {} => LatestOf(c, P) = NoValue
           /\ P # {} => /\ Max(P) \in P /\ \A k \in P : k <= Max(P)
                        /\ LatestOf(c, P) = c[Max(P)].to /\ LatestOf(c, P) \in DOMAIN Served
                        /\ LatestOf(c, P) # NoValue
           /\ \A m \in P : (\A k \in P : k <= m) => LatestOf(c, P) = c[m].to
           /\ LatestOf(c, P) \in MaybeValue
  <1>1. Len(c) \in Nat /\ \A k \in 1..Len(c) : c[k] \in Assigned
    BY ChainFacts
  <1>2. \A k \in 1..Len(c) : c[k].to \in DOMAIN Served
    BY <1>1 DEF Assigned
  <1>3. DOMAIN Served \subseteq Values /\ NoValue \notin Values
    BY CertHistoryAssumption
  <1>4. CASE P = {}
    BY <1>4 DEF LatestOf, MaybeValue
  <1>5. CASE P # {}
    <2>1. P \in SUBSET Nat /\ \A k \in P : k <= Len(c)
      BY <1>1
    <2>2. Max(P) \in P /\ \A k \in P : k <= Max(P)
      BY <1>1, <1>5, <2>1, MaxIsGreatest
    <2>3. LatestOf(c, P) = c[Max(P)].to
      BY <1>5 DEF LatestOf
    <2>4. ASSUME NEW m \in P, \A k \in P : k <= m
          PROVE  m = Max(P)
      <3>1. m \in Nat /\ Max(P) \in Nat /\ m <= Max(P) /\ Max(P) <= m
        BY <2>1, <2>2, <2>4
      <3>2. QED
        BY <3>1
    <2>5. QED
      BY <1>2, <1>3, <1>5, <2>2, <2>3, <2>4 DEF MaybeValue
  <1>6. QED
    BY <1>4, <1>5

(* It hangs on the entries at those places only. *)
LEMMA LatestAgrees ==
    ASSUME NEW c, GoodChain(c), NEW d, NEW P, P \subseteq 1..Len(c), \A k \in P : d[k] = c[k]
    PROVE  LatestOf(d, P) = LatestOf(c, P)
  <1>1. P # {} => Max(P) \in P
    BY LatestFacts
  <1>2. QED
    BY <1>1 DEF LatestOf

(* A transaction's assignments. *)
LEMMA AssignmentsFacts ==
    ASSUME NEW t \in Txs, Height \in Nat
    PROVE  /\ Assignments(t) \in Seq(Assigned) /\ Assignments(t) # <<>>
           /\ \A i \in 1..Len(Assignments(t)) : Assignments(t)[i].block = Height + 1 /\ Assignments(t)[i].tx = t
  <1> DEFINE d == t.does
  <1>1. d \in TxKinds /\ d \in Seq([what : What, key : Keys, to : DOMAIN Served]) /\ d # <<>>
        /\ \A i \in DOMAIN d : d[i].what = "pool" =>
              \A v \in DOMAIN Served : Meaning[v] = Meaning[d[i].to] => v = d[i].to
    BY CertHistoryAssumption DEF Txs
  <1> HIDE DEF d
  <1>2. Len(d) \in Nat \ {0} /\ DOMAIN d = 1..Len(d)
    BY <1>1
  <1>3. \A i \in 1..Len(d) : d[i] \in [what : What, key : Keys, to : DOMAIN Served]
    <2> DEFINE R == [what : What, key : Keys, to : DOMAIN Served]
    <2>1. d \in Seq(R)
      BY <1>1
    <2> HIDE DEF R
    <2>2. \A i \in 1..Len(d) : d[i] \in R
      BY <2>1, ElementOfSeq
    <2>3. QED
      BY <2>2 DEF R
  <1> DEFINE a(i) == [tx |-> t, block |-> Height + 1, what |-> d[i].what, key |-> d[i].key, to |-> d[i].to]
  <1>4. ASSUME NEW i \in 1..Len(d)
        PROVE  a(i) \in Assigned /\ a(i).block = Height + 1 /\ a(i).tx = t
    <2>1. d[i].what \in What /\ d[i].key \in Keys /\ d[i].to \in DOMAIN Served
      BY <1>3
    <2>2. a(i) \in [tx : Txs, block : Nat \ {0}, what : What, key : Keys, to : DOMAIN Served]
      BY <2>1
    <2>3. SpeltOnce(a(i))
      BY <1>1, <1>2 DEF SpeltOnce
    <2>4. QED
      BY <2>2, <2>3 DEF Assigned
  <1>5. Assignments(t) = [i \in 1..Len(d) |-> a(i)]
    BY <1>2 DEF Assignments, d
  <1> HIDE DEF a
  <1>6. QED
    BY <1>2, <1>4, <1>5

-----------------------------------------------------------------------------
(* The tracker.                                                            *)

Trackers == UNION {[K -> [Delegating -> MaybeValue]] : K \in SUBSET Keys}

(* What a key has of a kind after the first n assignments of as, if it had *)
(* init before.                                                            *)
LastTo(as, n, what, key, init) ==
    IF About(as, 1..n, what, key) = {} THEN init
    ELSE as[Max(About(as, 1..n, what, key))].to

(* Assignments as parse_certificate and seed_from_events meet them. *)
Swappable(as) == \A i \in 1..Len(as) : as[i].what \in What /\ as[i].key \in Keys /\ as[i].to \in Values

LEMMA KnownFacts ==
    ASSUME NEW tr \in Trackers, NEW key \in Keys, NEW w \in Delegating
    PROVE  Known(tr, key)[w] \in MaybeValue /\ Known(tr, key) \in [Delegating -> MaybeValue]
  <1>1. PICK K \in SUBSET Keys : tr \in [K -> [Delegating -> MaybeValue]]
    BY DEF Trackers
  <1>2. Unknown \in [Delegating -> MaybeValue]
    BY DEF Unknown, Delegating, MaybeValue
  <1>3. Known(tr, key) \in [Delegating -> MaybeValue]
    BY <1>1, <1>2 DEF Known
  <1>4. QED
    BY <1>3

(* An eviction only forgets. *)
LEMMA EvictFacts ==
    ASSUME NEW tr \in Trackers, NEW t \in EvictIfNeeded(tr)
    PROVE  /\ t \in Trackers
           /\ \A key \in Keys : \A w \in Delegating : Known(t, key)[w] \in {NoValue, Known(tr, key)[w]}
  <1>1. PICK K \in SUBSET Keys : tr \in [K -> [Delegating -> MaybeValue]]
    BY DEF Trackers
  <1>2. CASE t = tr
    BY <1>2
  <1>3. CASE t # tr
    <2>1. PICK gone \in SUBSET K : t = [k \in K \ gone |-> tr[k]]
      BY <1>1, <1>3 DEF EvictIfNeeded
    <2>2. t \in [K \ gone -> [Delegating -> MaybeValue]] /\ K \ gone \in SUBSET Keys
      BY <1>1, <2>1
    <2>3. t \in Trackers
      BY <2>2 DEF Trackers
    <2>4. ASSUME NEW key \in Keys, NEW w \in Delegating
          PROVE  Known(t, key)[w] \in {NoValue, Known(tr, key)[w]}
      <3>1. CASE key \in K \ gone
        BY <1>1, <2>1, <3>1 DEF Known
      <3>2. CASE key \notin K \ gone
        <4>1. Known(t, key) = Unknown
          BY <2>1, <3>2 DEF Known
        <4>2. QED
          BY <4>1 DEF Unknown, Delegating
      <3>3. QED
        BY <3>1, <3>2
    <2>5. QED
      BY <2>3, <2>4
  <1>4. QED
    BY <1>2, <1>3

(* set_pool and set_drep set one kind of one key. *)
LEMMA RecordedFacts ==
    ASSUME NEW tr \in Trackers, NEW a, a.key \in Keys, a.what \in Delegating, a.to \in Values
    PROVE  /\ Recorded(tr, a) \in Trackers
           /\ \A key \in Keys : \A w \in Delegating :
                Known(Recorded(tr, a), key)[w] = IF key = a.key /\ w = a.what THEN a.to ELSE Known(tr, key)[w]
  <1> DEFINE x == a.key
             v == a.what
             to == a.to
             t == Recorded(tr, a)
  <1>1. PICK K \in SUBSET Keys : tr \in [K -> [Delegating -> MaybeValue]]
    BY DEF Trackers
  <1>2. x \in Keys /\ v \in Delegating /\ to \in MaybeValue
    BY DEF MaybeValue
  <1>3. t = [k \in K \cup {x} |-> IF k = x THEN [Known(tr, k) EXCEPT ![v] = to] ELSE tr[k]]
    BY <1>1 DEF Recorded
  <1> HIDE DEF x, v, to, t
  <1>4. Known(tr, x) \in [Delegating -> MaybeValue]
    BY <1>2, KnownFacts
  <1>5. \A k \in K : tr[k] \in [Delegating -> MaybeValue]
    BY <1>1
  <1>6. [Known(tr, x) EXCEPT ![v] = to] \in [Delegating -> MaybeValue]
    BY <1>2, <1>4
  <1>7. t \in [K \cup {x} -> [Delegating -> MaybeValue]]
    <2>1. \A k \in K \cup {x} : (IF k = x THEN [Known(tr, k) EXCEPT ![v] = to] ELSE tr[k]) \in [Delegating -> MaybeValue]
      BY <1>5, <1>6
    <2>2. QED
      BY <1>3, <2>1
  <1>8. t \in Trackers
    <2>1. K \cup {x} \in SUBSET Keys
      BY <1>2
    <2>2. QED
      BY <1>7, <2>1 DEF Trackers
  <1>9. ASSUME NEW key \in Keys, NEW w \in Delegating
        PROVE  Known(t, key)[w] = IF key = x /\ w = v THEN to ELSE Known(tr, key)[w]
    <2>1. CASE key = x
      <3>1. Known(t, key) = [Known(tr, x) EXCEPT ![v] = to]
        BY <1>3, <2>1 DEF Known
      <3>2. QED
        BY <1>4, <2>1, <3>1
    <2>2. CASE key # x
      <3>1. Known(t, key) = Known(tr, key)
        BY <1>1, <1>3, <2>2 DEF Known
      <3>2. QED
        BY <2>2, <3>1
    <2>3. QED
      BY <2>1, <2>2
  <1>10. QED
    BY <1>8, <1>9 DEF t, x, v, to

(* One assignment: what it leaves known, and the `from` it found, which is *)
(* never another spelling of the new target.                               *)
LEMMA SwappedFacts ==
    ASSUME NEW tr \in Trackers, NEW a, a.key \in Keys, a.what \in What, a.to \in Values,
           NEW s \in Swapped(tr, a)
    PROVE  /\ s.tracker \in Trackers /\ s.from \in MaybeValue
           /\ \A key \in Keys : \A w \in Delegating :
                Known(s.tracker, key)[w] \in
                  {NoValue, IF key = a.key /\ w = a.what THEN a.to ELSE Known(tr, key)[w]}
           /\ s.from # NoValue =>
                a.what \in Delegating /\ s.from = Known(tr, a.key)[a.what] /\ ~Same(s.from, a.to)
  <1>1. CASE a.what \notin Delegating
    <2>1. s = [tracker |-> tr, from |-> NoValue]
      BY <1>1 DEF Swapped
    <2>2. QED
      BY <1>1, <2>1 DEF MaybeValue
  <1>2. CASE a.what \in Delegating
    <2>1. a.what \in Delegating
      BY <1>2
    <2>2. PICK t \in EvictIfNeeded(tr) : s = [tracker |-> Recorded(t, a), from |-> Previous(t, a)]
      BY <1>2 DEF Swapped
    <2>3. /\ t \in Trackers
          /\ \A key \in Keys : \A w \in Delegating : Known(t, key)[w] \in {NoValue, Known(tr, key)[w]}
      BY EvictFacts
    <2>4. s.tracker = Recorded(t, a) /\ s.from = Previous(t, a)
      BY <2>2
    <2>5. /\ s.tracker \in Trackers
          /\ \A key \in Keys : \A w \in Delegating :
               Known(s.tracker, key)[w] = IF key = a.key /\ w = a.what THEN a.to ELSE Known(t, key)[w]
      BY <2>1, <2>3, <2>4, RecordedFacts
    <2>6. \A key \in Keys : \A w \in Delegating :
               Known(s.tracker, key)[w] \in
                 {NoValue, IF key = a.key /\ w = a.what THEN a.to ELSE Known(tr, key)[w]}
      BY <2>3, <2>5
    <2> DEFINE prev == Known(t, a.key)[a.what]
    <2>7. prev \in MaybeValue /\ prev \in {NoValue, Known(tr, a.key)[a.what]}
      BY <2>1, <2>3, KnownFacts
    <2>8. s.from = IF prev # NoValue /\ Same(prev, a.to) THEN NoValue ELSE prev
      BY <2>4 DEF Previous
    <2> HIDE DEF prev
    <2>9. s.from \in MaybeValue
      BY <2>7, <2>8 DEF MaybeValue
    <2>10. s.from # NoValue => s.from = prev /\ ~Same(prev, a.to) /\ prev = Known(tr, a.key)[a.what]
      BY <2>7, <2>8
    <2>11. QED
      BY <2>1, <2>5, <2>6, <2>9, <2>10
  <1>3. QED
    BY <1>1, <1>2

LEMMA LastToStarts ==
    ASSUME NEW as, NEW w \in What, NEW key \in Keys, NEW init \in MaybeValue
    PROVE  LastTo(as, 0, w, key, init) = init
  BY DEF LastTo, About

LEMMA LastToStep ==
    ASSUME NEW as, NEW n \in Nat \ {0}, NEW w \in What, NEW key \in Keys,
           NEW init \in MaybeValue
    PROVE  LastTo(as, n, w, key, init) =
             IF as[n].what = w /\ as[n].key = key THEN as[n].to ELSE LastTo(as, n - 1, w, key, init)
  <1> DEFINE U == About(as, 1..n, w, key)
             V == About(as, 1..(n - 1), w, key)
  <1>1. \A k : k \in 1..n <=> k \in 1..(n - 1) \/ k = n
    OBVIOUS
  <1>2. CASE as[n].what = w /\ as[n].key = key
    <2>1. n \in U /\ U \in SUBSET Nat /\ \A k \in U : k <= n
      <3>1. n \in 1..n /\ \A k \in 1..n : k \in Nat /\ k <= n
        OBVIOUS
      <3>2. U = {k \in 1..n : as[k].what = w /\ as[k].key = key}
        BY DEF About
      <3> HIDE DEF U
      <3>3. QED
        BY <1>2, <3>1, <3>2
    <2> HIDE DEF U
    <2>2. Max(U) = n
      <3>1. U # {} /\ Max(U) \in U /\ \A k \in U : k <= Max(U)
        BY <2>1, MaxIsGreatest
      <3>2. Max(U) \in Nat /\ Max(U) <= n /\ n <= Max(U)
        BY <2>1, <3>1
      <3>3. QED
        BY <3>2
    <2>3. QED
      BY <1>2, <2>1, <2>2 DEF LastTo, U
  <1>3. CASE ~(as[n].what = w /\ as[n].key = key)
    <2>1. U = V
      BY <1>1, <1>3 DEF About
    <2> HIDE DEF U, V
    <2>2. QED
      BY <1>3, <2>1 DEF LastTo, U, V
  <1>4. QED
    BY <1>2, <1>3

(* What the i-th assignment may have found. *)
FromOk(tr, as, i, f) ==
    /\ f \in MaybeValue
    /\ f # NoValue =>
         /\ as[i].what \in Delegating /\ ~Same(f, as[i].to)
         /\ f = LastTo(as, i - 1, as[i].what, as[i].key, Known(tr, as[i].key)[as[i].what])

SwapStates == [tracker : Trackers, froms : Seq(MaybeValue)]

(* Where the tracker may stand after n assignments. *)
Reached(tr, as, n, q) ==
    /\ q \in SwapStates /\ Len(q.froms) = n
    /\ \A key \in Keys : \A w \in Delegating :
         Known(q.tracker, key)[w] \in {NoValue, LastTo(as, n, w, key, Known(tr, key)[w])}
    /\ \A i \in 1..n : FromOk(tr, as, i, q.froms[i])

SwapOne(P, a) ==
    UNION {{[tracker |-> s.tracker, froms |-> Append(p.froms, s.from)] :
              s \in Swapped(p.tracker, a)} : p \in P}

LEMMA SwapOneType ==
    ASSUME NEW P \in SUBSET SwapStates, NEW a, a.key \in Keys, a.what \in What, a.to \in Values
    PROVE  SwapOne(P, a) \in SUBSET SwapStates
  <1>1. SUFFICES ASSUME NEW p \in P, NEW s \in Swapped(p.tracker, a)
                 PROVE  [tracker |-> s.tracker, froms |-> Append(p.froms, s.from)] \in SwapStates
    BY DEF SwapOne
  <1>2. p.tracker \in Trackers /\ p.froms \in Seq(MaybeValue)
    BY DEF SwapStates
  <1>3. s.tracker \in Trackers /\ s.from \in MaybeValue
    BY <1>2, SwappedFacts
  <1>4. Append(p.froms, s.from) \in Seq(MaybeValue)
    BY <1>2, <1>3, AppendProperties
  <1>5. QED
    BY <1>3, <1>4 DEF SwapStates

LEMMA ReachedStep ==
    ASSUME NEW tr \in Trackers, NEW as, NEW n \in Nat \ {0},
           as[n].key \in Keys, as[n].what \in What, as[n].to \in Values,
           NEW p, Reached(tr, as, n - 1, p), NEW s \in Swapped(p.tracker, as[n])
    PROVE  Reached(tr, as, n, [tracker |-> s.tracker, froms |-> Append(p.froms, s.from)])
  <1> DEFINE q == [tracker |-> s.tracker, froms |-> Append(p.froms, s.from)]
             a == as[n]
  <1>1. /\ p.tracker \in Trackers /\ p.froms \in Seq(MaybeValue) /\ Len(p.froms) = n - 1
        /\ \A key \in Keys : \A w \in Delegating :
             Known(p.tracker, key)[w] \in {NoValue, LastTo(as, n - 1, w, key, Known(tr, key)[w])}
        /\ \A i \in 1..(n - 1) : FromOk(tr, as, i, p.froms[i])
    BY DEF Reached, SwapStates
  <1>2. /\ s.tracker \in Trackers /\ s.from \in MaybeValue
        /\ \A key \in Keys : \A w \in Delegating :
             Known(s.tracker, key)[w] \in
               {NoValue, IF key = a.key /\ w = a.what THEN a.to ELSE Known(p.tracker, key)[w]}
        /\ s.from # NoValue =>
             a.what \in Delegating /\ s.from = Known(p.tracker, a.key)[a.what] /\ ~Same(s.from, a.to)
    BY <1>1, SwappedFacts
  <1>3. /\ Append(p.froms, s.from) \in Seq(MaybeValue) /\ Len(Append(p.froms, s.from)) = n
        /\ \A i \in 1..(n - 1) : Append(p.froms, s.from)[i] = p.froms[i]
        /\ Append(p.froms, s.from)[n] = s.from
    BY <1>1, <1>2, AppendProperties
  <1>4. q \in SwapStates /\ q.tracker = s.tracker /\ q.froms = Append(p.froms, s.from)
    BY <1>2, <1>3 DEF SwapStates
  <1> HIDE DEF q
  <1>5. ASSUME NEW key \in Keys, NEW w \in Delegating
        PROVE  Known(q.tracker, key)[w] \in {NoValue, LastTo(as, n, w, key, Known(tr, key)[w])}
    <2> DEFINE init == Known(tr, key)[w]
               now == Known(s.tracker, key)[w]
               then == Known(p.tracker, key)[w]
    <2>1. init \in MaybeValue /\ w \in What
      BY KnownFacts DEF Delegating, What
    <2>2. now \in {NoValue, IF key = a.key /\ w = a.what THEN a.to ELSE then}
      BY <1>2
    <2>3. then \in {NoValue, LastTo(as, n - 1, w, key, init)}
      BY <1>1
    <2>4. Known(q.tracker, key)[w] = now
      BY <1>4
    <2> HIDE DEF init, now, then
    <2>5. LastTo(as, n, w, key, init) =
            IF a.what = w /\ a.key = key THEN a.to ELSE LastTo(as, n - 1, w, key, init)
      BY <2>1, LastToStep
    <2> HIDE DEF a
    <2>6. now \in {NoValue, LastTo(as, n, w, key, init)}
      BY <2>2, <2>3, <2>5
    <2>7. QED
      BY <2>4, <2>6 DEF init
  <1>6. ASSUME NEW i \in 1..n
        PROVE  FromOk(tr, as, i, q.froms[i])
    <2>1. CASE i \in 1..(n - 1)
      BY <1>1, <1>3, <1>4, <2>1
    <2>2. CASE i = n
      <3>1. q.froms[n] = s.from
        BY <1>3, <1>4
      <3>2. FromOk(tr, as, n, s.from)
        <4>1. SUFFICES ASSUME s.from # NoValue
                       PROVE  /\ a.what \in Delegating /\ ~Same(s.from, a.to)
                              /\ s.from = LastTo(as, n - 1, a.what, a.key, Known(tr, a.key)[a.what])
          BY <1>2 DEF FromOk
        <4> DEFINE x == a.key
                   v == a.what
                   then == Known(p.tracker, x)[v]
                   was == LastTo(as, n - 1, v, x, Known(tr, x)[v])
        <4>2. v \in Delegating /\ s.from = then /\ ~Same(s.from, a.to) /\ x \in Keys
          BY <1>2, <4>1
        <4>3. then \in {NoValue, was}
          <5> HIDE DEF x, v
          <5>1. QED
            BY <1>1, <4>2
        <4> HIDE DEF then, was
        <4>4. s.from = was
          BY <4>1, <4>2, <4>3
        <4>5. QED
          BY <4>2, <4>4 DEF was
      <3>3. QED
        BY <2>2, <3>1, <3>2
    <2>3. i \in 1..(n - 1) \/ i = n
      OBVIOUS
    <2>4. QED
      BY <2>1, <2>2, <2>3
  <1>7. QED
    BY <1>3, <1>4, <1>5, <1>6 DEF Reached, q

(* Assignments in order: the tracker knows nothing of a key, or its latest *)
(* target; and so did each `from` when it was found.                       *)
LEMMA SwapsFacts ==
    ASSUME NEW tr \in Trackers, NEW S, NEW as \in Seq(S), Swappable(as), NEW p \in Swaps(tr, as)
    PROVE  Reached(tr, as, Len(as), p)
  <1> DEFINE N == Len(as)
             A == SUBSET SwapStates
             base == {[tracker |-> tr, froms |-> <<>>]}
             Is(f) == f = [n \in 0..N |-> IF n = 0 THEN base ELSE SwapOne(f[n - 1], as[n])]
             after == CHOOSE f : Is(f)
             step == [x \in (1..N) \X A |-> SwapOne(x[2], as[x[1]])]
  <1>1. N \in Nat /\ \A n \in 1..N : as[n].key \in Keys /\ as[n].what \in What /\ as[n].to \in Values
    <2>1. N \in Nat
      BY LenProperties
    <2>2. QED
      BY <2>1, Zenon DEF Swappable
  <1>2. Swaps(tr, as) = after[N]
    BY DEF Swaps, SwapOne
  <1> HIDE DEF N
  <1>3. base \in A
    BY EmptySeq DEF SwapStates
  <1>4. step \in [(1..N) \X A -> A]
    <2>1. \A x \in (1..N) \X A : SwapOne(x[2], as[x[1]]) \in A
      BY <1>1, SwapOneType
    <2> HIDE DEF A
    <2>2. QED
      BY <2>1
  <1>5. PICK g : Carries(g, N, A, base, step)
    <2> HIDE DEF step, A, base
    <2>1. QED
      BY <1>1, <1>3, <1>4, IterationExists
  <1>6. ASSUME NEW n \in 1..N
        PROVE  g[n] = SwapOne(g[n - 1], as[n])
    <2> HIDE DEF A, base
    <2>1. n - 1 \in 0..N /\ <<n, g[n - 1]>> \in (1..N) \X A
      BY <1>1, <1>5 DEF Carries
    <2>2. step[<<n, g[n - 1]>>] = SwapOne(g[n - 1], as[n])
      BY <2>1
    <2> HIDE DEF step
    <2>3. QED
      BY <1>5, <2>2 DEF Carries
  <1>7. Is(g)
    <2> HIDE DEF A, base, step
    <2>1. g \in [0..N -> A] /\ g[0] = base
      BY <1>5 DEF Carries
    <2>2. \A n \in 0..N : g[n] = IF n = 0 THEN base ELSE SwapOne(g[n - 1], as[n])
      BY <1>1, <1>6, <2>1
    <2>3. QED
      BY <2>1, <2>2
  <1>8. Is(after)
    <2> HIDE DEF Is
    <2>1. QED
      BY <1>7
  <1> HIDE DEF after, step, A
  <1> DEFINE R == {n \in Nat : n <= N => \A q \in after[n] : Reached(tr, as, n, q)}
  <1>9. 0 \in R
    <2>1. after[0] = base
      BY <1>1, <1>8
    <2>2. Reached(tr, as, 0, [tracker |-> tr, froms |-> <<>>])
      <3>1. [tracker |-> tr, froms |-> <<>>] \in SwapStates
        BY EmptySeq DEF SwapStates
      <3>2. Len(<<>>) = 0
        OBVIOUS
      <3> DEFINE q == [tracker |-> tr, froms |-> <<>>]
      <3>3. q.tracker = tr /\ q.froms = <<>>
        OBVIOUS
      <3> HIDE DEF q
      <3>4. ASSUME NEW key \in Keys, NEW w \in Delegating
            PROVE  Known(q.tracker, key)[w] \in {NoValue, LastTo(as, 0, w, key, Known(tr, key)[w])}
        <4> DEFINE init == Known(tr, key)[w]
        <4>1. init \in MaybeValue /\ w \in What
          BY KnownFacts DEF Delegating, What
        <4>2. Known(q.tracker, key)[w] = init
          BY <3>3
        <4> HIDE DEF init
        <4>3. LastTo(as, 0, w, key, init) = init
          BY <4>1, LastToStarts
        <4>4. QED
          BY <4>2, <4>3 DEF init
      <3>5. \A i \in 1..0 : FALSE
        OBVIOUS
      <3>6. Reached(tr, as, 0, q)
        BY <3>1, <3>2, <3>3, <3>4, <3>5 DEF Reached, q
      <3>7. QED
        BY <3>6 DEF q
    <2>3. QED
      BY <2>1, <2>2
  <1>10. ASSUME NEW n \in Nat, n \in R
         PROVE  n + 1 \in R
    <2>1. SUFFICES ASSUME n + 1 <= N, NEW q \in after[n + 1]
                   PROVE  Reached(tr, as, n + 1, q)
      <3>1. n + 1 \in Nat
        OBVIOUS
      <3>2. QED
        BY <3>1
    <2>2. n + 1 \in 1..N /\ n + 1 - 1 = n /\ n + 1 \in 0..N /\ n + 1 # 0 /\ n + 1 \in Nat \ {0}
      BY <1>1, <2>1
    <2>3. after[n + 1] = SwapOne(after[n], as[n + 1])
      <3> DEFINE k == n + 1
      <3>1. k \in 0..N /\ k # 0 /\ k - 1 = n
        BY <2>2
      <3> HIDE DEF k, base
      <3>2. after[k] = SwapOne(after[k - 1], as[k])
        BY <1>8, <3>1
      <3>3. QED
        BY <3>1, <3>2 DEF k
    <2>4. PICK r \in after[n] : \E s \in Swapped(r.tracker, as[n + 1]) :
                q = [tracker |-> s.tracker, froms |-> Append(r.froms, s.from)]
      BY <2>1, <2>3 DEF SwapOne
    <2>5. PICK s \in Swapped(r.tracker, as[n + 1]) :
                q = [tracker |-> s.tracker, froms |-> Append(r.froms, s.from)]
      BY <2>4
    <2>6. Reached(tr, as, n, r)
      <3>1. n <= N
        BY <1>1, <2>1
      <3>2. \A z \in after[n] : Reached(tr, as, n, z)
        BY <1>10, <3>1
      <3>3. QED
        BY <2>4, <3>2
    <2> DEFINE k == n + 1
    <2>7. k \in Nat \ {0} /\ as[k].key \in Keys /\ as[k].what \in What /\ as[k].to \in Values
      BY <1>1, <2>2
    <2>8. Reached(tr, as, k - 1, r) /\ s \in Swapped(r.tracker, as[k])
      <3>1. k - 1 = n
        BY <2>2
      <3> HIDE DEF k
      <3>2. Reached(tr, as, k - 1, r)
        BY <2>6, <3>1
      <3>3. QED
        BY <3>2 DEF k
    <2> HIDE DEF k
    <2>9. Reached(tr, as, k, [tracker |-> s.tracker, froms |-> Append(r.froms, s.from)])
      BY <2>7, <2>8, ReachedStep
    <2>10. QED
      BY <2>5, <2>9 DEF k
  <1>11. N \in R
    <2> HIDE DEF R
    <2>1. QED
      BY <1>1, <1>9, <1>10, InductiveSet
  <1>12. p \in after[N]
    BY <1>2
  <1>13. QED
    <2>1. \A q \in after[N] : Reached(tr, as, N, q)
      <3>1. N <= N
        BY <1>1
      <3>2. N <= N => \A q \in after[N] : Reached(tr, as, N, q)
        BY <1>11, Zenon
      <3>3. QED
        BY <3>1, <3>2
    <2>2. QED
      BY <1>12, <2>1 DEF N

LEMMA LastToType ==
    ASSUME NEW as, NEW n \in Nat, NEW w \in What, NEW key \in Keys, NEW init \in MaybeValue,
           \A i \in 1..n : as[i].to \in MaybeValue
    PROVE  LastTo(as, n, w, key, init) \in MaybeValue
  <1> DEFINE U == About(as, 1..n, w, key)
  <1>1. U \subseteq 1..n
    BY DEF About
  <1> HIDE DEF U
  <1>2. CASE U = {}
    BY <1>2 DEF LastTo, U
  <1>3. CASE U # {}
    <2>1. U \in SUBSET Nat /\ \A k \in U : k <= n
      BY <1>1
    <2>2. Max(U) \in 1..n
      BY <1>1, <1>3, <2>1, MaxIsGreatest
    <2>3. LastTo(as, n, w, key, init) = as[Max(U)].to
      BY <1>3 DEF LastTo, U
    <2>4. QED
      BY <2>2, <2>3
  <1>4. QED
    BY <1>2, <1>3

(* Assignments read from place E on leave what all of them leave, where    *)
(* what was known at E is right, and else what was known or that.          *)
LEMMA LastToAfter ==
    ASSUME NEW as, NEW c, NEW E \in Nat, NEW M \in Nat,
           NEW w \in What, NEW key \in Keys, NEW init \in MaybeValue, NEW x \in MaybeValue,
           \A i \in 1..(E + M) : c[i].to \in MaybeValue,
           \A i \in 1..M : as[i].what = c[E + i].what /\ as[i].key = c[E + i].key /\ as[i].to = c[E + i].to
    PROVE  \A i \in 0..M :
             /\ x = LastTo(c, E, w, key, init) => LastTo(as, i, w, key, x) = LastTo(c, E + i, w, key, init)
             /\ LastTo(as, i, w, key, x) \in {x, LastTo(c, E + i, w, key, init)}
  <1> DEFINE A(i) == LastTo(as, i, w, key, x)
             C(i) == LastTo(c, E + i, w, key, init)
             Ok(i) == (x = LastTo(c, E, w, key, init) => A(i) = C(i)) /\ A(i) \in {x, C(i)}
             R == {i \in Nat : i <= M => Ok(i)}
  <1>1. 0 \in R
    <2>1. A(0) = x
      BY LastToStarts
    <2>2. C(0) = LastTo(c, E, w, key, init)
      <3>1. E + 0 = E
        OBVIOUS
      <3>2. QED
        BY <3>1
    <2> HIDE DEF A, C
    <2>3. QED
      BY <2>1, <2>2
  <1>2. ASSUME NEW i \in Nat, i \in R
        PROVE  i + 1 \in R
    <2>1. SUFFICES ASSUME i + 1 <= M
                   PROVE  Ok(i + 1)
      <3> HIDE DEF Ok
      <3>1. i + 1 \in Nat
        OBVIOUS
      <3>2. QED
        BY <3>1
    <2>2. Ok(i)
      <3>1. i <= M
        BY <2>1
      <3> HIDE DEF Ok
      <3>2. QED
        BY <1>2, <3>1
    <2> DEFINE k == i + 1
               m == E + k
               here == c[m].what = w /\ c[m].key = key
    <2>3. k \in Nat \ {0} /\ m \in Nat \ {0} /\ k - 1 = i /\ m - 1 = E + i /\ k \in 1..M /\ k \in 0..M
      BY <2>1
    <2>4. as[k].what = c[m].what /\ as[k].key = c[m].key /\ as[k].to = c[m].to
      <3> HIDE DEF k
      <3>1. QED
        BY <2>3
    <2> HIDE DEF k, m
    <2>5. k \in Nat \ {0}
      BY <2>3
    <2>6. LastTo(as, k, w, key, x) = IF as[k].what = w /\ as[k].key = key THEN as[k].to ELSE LastTo(as, k - 1, w, key, x)
      BY ONLY <2>5, w \in What, key \in Keys, x \in MaybeValue, LastToStep
    <2>7. LastTo(c, m, w, key, init) = IF c[m].what = w /\ c[m].key = key THEN c[m].to ELSE LastTo(c, m - 1, w, key, init)
      BY ONLY <2>3, w \in What, key \in Keys, init \in MaybeValue, LastToStep
    <2>8. A(k) = IF here THEN c[m].to ELSE A(i)
      BY <2>3, <2>4, <2>6
    <2>9. C(k) = IF here THEN c[m].to ELSE C(i)
      <3>1. C(k) = LastTo(c, m, w, key, init)
        BY DEF m
      <3>2. LastTo(c, m - 1, w, key, init) = C(i)
        BY <2>3
      <3>3. QED
        BY <2>7, <3>1, <3>2
    <2>10. Ok(k)
      <3> HIDE DEF A, C, here
      <3>1. QED
        BY <2>2, <2>8, <2>9
    <2>11. QED
      BY <2>10 DEF k
  <1>3. Nat \subseteq R
    <2> HIDE DEF R
    <2>1. QED
      BY <1>1, <1>2, InductiveSet
  <1>4. ASSUME NEW i \in 0..M
        PROVE  Ok(i)
    <2> HIDE DEF Ok
    <2>1. i \in Nat /\ i <= M
      OBVIOUS
    <2>2. QED
      BY <1>3, <2>1
  <1>5. QED
    BY <1>4

(* Equal entries leave the same. *)
Agree(as, c, n) ==
    \A i \in 1..n :
        as[i].what = c[i].what /\ as[i].key = c[i].key /\ as[i].to = c[i].to /\ c[i].to \in MaybeValue

LEMMA LastToAgrees ==
    ASSUME NEW as, NEW c, NEW n \in Nat, Agree(as, c, n)
    PROVE  \A w \in What : \A key \in Keys : \A init \in MaybeValue :
              LastTo(as, n, w, key, init) = LastTo(c, n, w, key, init)
  <1>1. SUFFICES ASSUME NEW w \in What, NEW key \in Keys, NEW init \in MaybeValue
                 PROVE  LastTo(as, n, w, key, init) = LastTo(c, n, w, key, init)
    OBVIOUS
  <1>2. \A i \in 1..n :
           as[i].what = c[i].what /\ as[i].key = c[i].key /\ as[i].to = c[i].to /\ c[i].to \in MaybeValue
    BY DEF Agree
  <1>3. \A i \in 1..n : as[i].what = c[0 + i].what /\ as[i].key = c[0 + i].key /\ as[i].to = c[0 + i].to
    <2>1. \A i \in 1..n : 0 + i = i
      OBVIOUS
    <2>2. QED
      BY <1>2, <2>1
  <1>4. \A i \in 1..(0 + n) : c[i].to \in MaybeValue
    <2>1. 0 + n = n
      OBVIOUS
    <2>2. QED
      BY <1>2, <2>1
  <1>5. \A i \in 0..n :
             /\ init = LastTo(c, 0, w, key, init) => LastTo(as, i, w, key, init) = LastTo(c, 0 + i, w, key, init)
             /\ LastTo(as, i, w, key, init) \in {init, LastTo(c, 0 + i, w, key, init)}
    <2>1. 0 \in Nat
      OBVIOUS
    <2>2. QED
      BY <1>3, <1>4, <2>1, LastToAfter
  <1>6. LastTo(c, 0, w, key, init) = init
    BY LastToStarts
  <1>7. n \in 0..n /\ 0 + n = n
    OBVIOUS
  <1>8. QED
    BY <1>5, <1>6, <1>7

(* Entries about other keys and kinds change nothing. *)
LEMMA LastToIdle ==
    ASSUME NEW c, NEW E \in Nat, NEW n \in Nat, E <= n,
           NEW w \in What, NEW key \in Keys, NEW init \in MaybeValue,
           \A i \in (E + 1)..n : ~(c[i].what = w /\ c[i].key = key)
    PROVE  LastTo(c, n, w, key, init) = LastTo(c, E, w, key, init)
  <1>1. About(c, 1..n, w, key) = About(c, 1..E, w, key)
    <2>1. \A k \in 1..n : k \in 1..E \/ k \in (E + 1)..n
      OBVIOUS
    <2>2. \A k \in 1..E : k \in 1..n
      OBVIOUS
    <2>3. QED
      BY <2>1, <2>2 DEF About
  <1>2. QED
    BY <1>1 DEF LastTo

-----------------------------------------------------------------------------
(* What holds of the chain, the tracker and the events.                    *)

Events ==
    [tx : Txs, what : What, key : Keys, to : DOMAIN Served, from : MaybeValue,
     by : {"nobody", "tracker", "account", "history", "registry"}, stale : BOOLEAN, changed : BOOLEAN,
     note : [place : Nat, was : MaybeValue, ended : BOOLEAN, taken : BOOLEAN, again : BOOLEAN]]

(* The target of a key in the blocks handled, and by the events told. *)
Now(w, key) == LastTo(node, EndOf(node, at), w, key, NoValue)
LastTold(w, key) == LastTo(told, Len(told), w, key, NoValue)

(* What the tracker knows, and what a restart would tell it, is right but  *)
(* for what a rollback took back.                                          *)
MemoryIsRight ==
    \A key \in Keys : \A w \in Delegating :
        <<key, w>> \notin forks.taken =>
          /\ Known(tracker, key)[w] \in {NoValue, Now(w, key)}
          /\ LastTold(w, key) \in {NoValue, Now(w, key)}

(* Every assignment in the blocks handled has its event. *)
EverythingTold ==
    \A k \in UptoOf(node, at) : \E j \in 1..Len(told) :
        told[j].tx = node[k].tx /\ told[j].what = node[k].what /\ told[j].key = node[k].key

PastTyped ==
    /\ GoodChain(node) /\ at \in 0..TopOf(node) /\ TopOf(node) <= at + MaxAhead
    /\ IsFiniteSet(made) /\ made \subseteq Txs
    /\ tracker \in Trackers /\ told \in Seq(Events)

PastInv == PastTyped /\ MemoryIsRight /\ EverythingTold

LEMMA NowFacts ==
    ASSUME GoodChain(node), at \in Nat
    PROVE  /\ Height = TopOf(node) /\ \A n : Upto(n) = UptoOf(node, n) /\ End(n) = EndOf(node, n)
           /\ \A P : Latest(P) = LatestOf(node, P)
           /\ \A k \in 1..Len(node) : node[k].to \in MaybeValue
  <1>1. \A k \in 1..Len(node) : node[k].to \in MaybeValue
    <2>1. \A k \in 1..Len(node) : node[k] \in Assigned
      BY ChainFacts
    <2>2. DOMAIN Served \subseteq Values
      BY CertHistoryAssumption
    <2>3. QED
      BY <2>1, <2>2 DEF Assigned, MaybeValue
  <1>2. QED
    BY <1>1 DEF Height, TopOf, Upto, UptoOf, End, EndOf, Latest, LatestOf

LEMMA PastInitially == HistoryInit => PastInv
  <1>1. SUFFICES ASSUME HistoryInit
                 PROVE  PastInv
    OBVIOUS
  <1>2. node = <<>> /\ at = 0 /\ made = {} /\ told = <<>> /\ tracker = Nobody
    BY <1>1 DEF HistoryInit
  <1>3. TopOf(node) = 0 /\ Len(node) = 0
    BY <1>2 DEF TopOf
  <1>4. GoodChain(node)
    BY <1>2, <1>3, EmptySeq DEF GoodChain
  <1>5. UptoOf(node, at) = {} /\ EndOf(node, at) \in 0..0
    BY <1>2, <1>3, <1>4, CutFacts, ChainFacts DEF UptoOf
  <1>6. tracker \in Trackers
    <2>1. Nobody \in [{} -> [Delegating -> MaybeValue]] /\ {} \in SUBSET Keys
      BY DEF Nobody
    <2>2. QED
      BY <1>2, <2>1 DEF Trackers
  <1>7. PastTyped
    <2>1. IsFiniteSet(made)
      BY <1>2, FS_EmptySet
    <2>2. told \in Seq(Events)
      BY <1>2, EmptySeq
    <2>3. MaxAhead \in Nat
      BY CertHistoryAssumption
    <2>4. QED
      BY <1>2, <1>3, <1>4, <1>6, <2>1, <2>2, <2>3 DEF PastTyped
  <1>8. MemoryIsRight
    <2>1. SUFFICES ASSUME NEW key \in Keys, NEW w \in Delegating
                   PROVE  Known(tracker, key)[w] = NoValue /\ LastTold(w, key) = NoValue
      BY DEF MemoryIsRight
    <2>2. w \in What /\ NoValue \in MaybeValue
      BY DEF What, Delegating, MaybeValue
    <2>3. Known(tracker, key)[w] = NoValue
      BY <1>2 DEF Known, Nobody, Unknown, Delegating
    <2>4. Len(told) = 0
      BY <1>2
    <2>5. LastTo(told, 0, w, key, NoValue) = NoValue
      BY <2>2, LastToStarts
    <2>6. QED
      BY <2>3, <2>4, <2>5 DEF LastTold
  <1>9. EverythingTold
    BY <1>5 DEF EverythingTold
  <1>10. QED
    BY <1>7, <1>8, <1>9 DEF PastInv

(* Whatever leaves the blocks handled as they were, and what is known and  *)
(* told of them, keeps the invariant.                                      *)
LEMMA SameHandled ==
    ASSUME PastInv, PastTyped', tracker' = tracker, told' = told, forks.taken \subseteq forks.taken',
           EndOf(node', at') <= EndOf(node, at),
           \A k \in 1..EndOf(node', at') : node'[k] = node[k],
           \A k \in (EndOf(node', at') + 1)..EndOf(node, at) : <<node[k].key, node[k].what>> \in forks.taken'
    PROVE  PastInv'
  <1> DEFINE E == EndOf(node, at)
             F == EndOf(node', at')
  <1>1. GoodChain(node) /\ at \in Nat /\ GoodChain(node') /\ at' \in Nat
    <2>1. GoodChain(node) /\ at \in 0..TopOf(node)
      BY DEF PastInv, PastTyped
    <2>2. GoodChain(node') /\ at' \in 0..TopOf(node')
      BY DEF PastTyped
    <2>3. TopOf(node) \in Nat /\ TopOf(node') \in Nat
      BY <2>1, <2>2, ChainFacts
    <2>4. QED
      BY <2>1, <2>2, <2>3
  <1>2. E \in 0..Len(node) /\ UptoOf(node, at) = 1..E /\ Len(node) \in Nat
    BY <1>1, CutFacts, ChainFacts
  <1>3. F \in 0..Len(node') /\ UptoOf(node', at') = 1..F /\ Len(node') \in Nat
    BY <1>1, CutFacts, ChainFacts
  <1>4. F <= E /\ F \in Nat /\ E \in Nat
    BY <1>2, <1>3
  <1>5. \A k \in 1..Len(node) : node[k].to \in MaybeValue
    BY <1>1, NowFacts
  <1> HIDE DEF E, F
  <1>6. MemoryIsRight'
    <2>1. SUFFICES ASSUME NEW key \in Keys, NEW w \in Delegating, <<key, w>> \notin forks.taken'
                   PROVE  /\ Known(tracker, key)[w] \in {NoValue, Now(w, key)'}
                          /\ LastTold(w, key)' \in {NoValue, Now(w, key)'}
      <3>1. \A key \in Keys : Known(tracker', key) = Known(tracker, key)
        OBVIOUS
      <3>2. QED
        BY <3>1 DEF MemoryIsRight
    <2>2. LastTold(w, key)' = LastTold(w, key)
      BY DEF LastTold
    <2>3. w \in What /\ NoValue \in MaybeValue
      BY DEF What, Delegating, MaybeValue
    <2>4. LastTo(node', F, w, key, NoValue) = LastTo(node, F, w, key, NoValue)
      <3>1. /\ \A i \in 1..F : node[i].to \in MaybeValue
            /\ \A i \in 1..F : node'[i].what = node[i].what /\ node'[i].key = node[i].key /\ node'[i].to = node[i].to
        BY <1>2, <1>4, <1>5 DEF F
      <3> DEFINE new == node'
      <3>2. F \in Nat /\ Agree(new, node, F)
        BY <1>4, <3>1 DEF Agree
      <3> HIDE DEF new
      <3>3. LastTo(new, F, w, key, NoValue) = LastTo(node, F, w, key, NoValue)
        BY <2>3, <3>2, LastToAgrees
      <3>4. QED
        BY <3>3 DEF new
    <2>5. LastTo(node, E, w, key, NoValue) = LastTo(node, F, w, key, NoValue)
      <3>1. \A k \in (F + 1)..E : ~(node[k].what = w /\ node[k].key = key)
        BY <2>1 DEF E, F
      <3>2. QED
        BY <1>4, <2>3, <3>1, LastToIdle
    <2>6. Now(w, key) = LastTo(node, E, w, key, NoValue) /\ Now(w, key)' = LastTo(node', F, w, key, NoValue)
      BY DEF Now, E, F
    <2>7. <<key, w>> \notin forks.taken
      BY <2>1
    <2>8. /\ Known(tracker, key)[w] \in {NoValue, Now(w, key)}
          /\ LastTold(w, key) \in {NoValue, Now(w, key)}
      BY <2>7 DEF PastInv, MemoryIsRight
    <2>9. QED
      BY <2>2, <2>4, <2>5, <2>6, <2>8
  <1>7. EverythingTold'
    <2>1. \A k \in 1..F : node'[k] = node[k] /\ k \in 1..E
      BY <1>4 DEF F
    <2>2. QED
      BY <1>2, <1>3, <2>1 DEF PastInv, EverythingTold
  <1>8. QED
    BY <1>6, <1>7 DEF PastInv

(* A new transaction is one. *)
LEMMA FreshFacts ==
    ASSUME IsFiniteSet(made), NEW d \in TxKinds
    PROVE  Fresh(d) \in Txs
  <1>1. IsFiniteSet({t \in made : t.does = d})
    BY FS_Subset
  <1>2. Cardinality({t \in made : t.does = d}) \in Nat
    BY <1>1, FS_CardinalityType
  <1>3. QED
    BY <1>2 DEF Fresh, Txs

LEMMA AdoptKeeps == PastInv /\ Adopt => PastInv'
  <1>1. SUFFICES ASSUME PastInv, Adopt
                 PROVE  PastInv'
    OBVIOUS
  <1>2. /\ GoodChain(node) /\ at \in 0..TopOf(node) /\ TopOf(node) <= at + MaxAhead
        /\ IsFiniteSet(made) /\ made \subseteq Txs /\ tracker \in Trackers /\ told \in Seq(Events)
    BY <1>1 DEF PastInv, PastTyped
  <1>3. /\ TopOf(node) \in Nat /\ at \in Nat /\ Len(node) \in Nat /\ DOMAIN node = 1..Len(node)
        /\ MaxAhead \in Nat
    BY <1>2, ChainFacts, CertHistoryAssumption
  <1>4. Height = TopOf(node)
    BY <1>2, <1>3, NowFacts
  <1> DEFINE b == TopOf(node) + 1
  <1>5. PICK a \in {Fresh(d) : d \in TxKinds} \cup made :
          \E rest \in {{}} \cup {{Fresh(d)} : d \in TxKinds} :
           /\ a \notin OnChain \cup rest /\ rest \cap OnChain = {}
           /\ node' = node \o Assignments(a)
                      \o (IF rest = {} THEN <<>> ELSE Assignments(CHOOSE x \in rest : TRUE))
           /\ made' = made \cup {a} \cup rest
    BY <1>1 DEF Adopt
  <1>6. PICK rest \in {{}} \cup {{Fresh(d)} : d \in TxKinds} :
           /\ a \notin OnChain \cup rest /\ rest \cap OnChain = {}
           /\ node' = node \o Assignments(a)
                      \o (IF rest = {} THEN <<>> ELSE Assignments(CHOOSE x \in rest : TRUE))
           /\ made' = made \cup {a} \cup rest
    BY <1>5
  <1>7. a \in Txs /\ rest \subseteq Txs
    BY <1>2, FreshFacts
  <1>8. IsFiniteSet(made') /\ made' \subseteq Txs
    <2>1. IsFiniteSet(rest)
      <3>1. IsFiniteSet({})
        BY FS_EmptySet
      <3>2. \A x : IsFiniteSet({x})
        BY FS_Singleton
      <3>3. QED
        BY <3>1, <3>2
    <2>2. IsFiniteSet({a})
      BY FS_Singleton
    <2>3. IsFiniteSet(made \cup {a})
      BY <1>2, <2>2, FS_Union
    <2>4. IsFiniteSet(made \cup {a} \cup rest)
      BY <2>1, <2>3, FS_Union
    <2>5. QED
      BY <1>2, <1>6, <1>7, <2>4
  <1>9. at' = at /\ tracker' = tracker /\ told' = told /\ forks' = forks /\ Height - at < MaxAhead
    BY <1>1 DEF Adopt
  <1> DEFINE A == Assignments(a)
             c == node \o A
  <1>10. /\ A \in Seq(Assigned) /\ A # <<>>
         /\ \A i \in 1..Len(A) : A[i].block = b /\ A[i].tx = a
    BY <1>3, <1>4, <1>7, AssignmentsFacts
  <1> HIDE DEF A
  <1>11. \A k \in 1..Len(node) : node[k].tx # a
    BY <1>3, <1>6 DEF OnChain
  <1>12. /\ GoodChain(c) /\ TopOf(c) = b /\ Len(c) = Len(node) + Len(A) /\ Len(A) \in Nat \ {0}
         /\ \A k \in 1..Len(node) : c[k] = node[k]
         /\ \A i \in 1..Len(A) : c[Len(node) + i] = A[i]
         /\ \A m \in 0..(b - 1) : UptoOf(c, m) = UptoOf(node, m)
    <2>1. b \in Nat \ {0} /\ b = TopOf(node) + 1
      BY <1>3
    <2> HIDE DEF b
    <2>2. \A i \in 1..Len(A) : A[i].block = b /\ \A k \in 1..Len(node) : node[k].tx # A[i].tx
      BY <1>10, <1>11
    <2>3. QED
      BY <1>2, <1>10, <2>1, <2>2, ExtendChain
  <1>13. /\ GoodChain(node') /\ TopOf(node') = b
         /\ \A k \in 1..Len(node) : node'[k] = node[k]
         /\ \A m \in 0..TopOf(node) : UptoOf(node', m) = UptoOf(node, m)
    <2>1. b \in Nat \ {0} /\ b = TopOf(c) /\ \A m \in 0..TopOf(node) : m \in 0..(b - 1)
      BY <1>3, <1>12
    <2>2. CASE rest = {}
      <3>1. node' = c \o <<>>
        BY <1>6, <2>2 DEF A
      <3>2. c \in Seq(Assigned)
        BY <1>12 DEF GoodChain
      <3>3. node' = c
        BY <3>1, <3>2, ConcatEmptySeq
      <3>4. QED
        BY <1>12, <2>1, <3>3
    <2>3. CASE rest # {}
      <3> DEFINE t == CHOOSE x \in rest : TRUE
                 B == Assignments(t)
      <3>1. t \in rest
        BY <2>3
      <3>2. t \in Txs /\ t # a /\ t \notin OnChain
        BY <1>6, <1>7, <3>1
      <3>3. node' = c \o B
        BY <1>6, <2>3 DEF A
      <3> HIDE DEF t
      <3>4. /\ B \in Seq(Assigned) /\ B # <<>>
            /\ \A i \in 1..Len(B) : B[i].block = b /\ B[i].tx = t
        BY <1>3, <1>4, <3>2, AssignmentsFacts
      <3> HIDE DEF B
      <3>5. \A k \in 1..Len(c) : c[k].tx # t
        <4>1. \A k \in 1..Len(node) : node[k].tx # t
          BY <1>3, <3>2 DEF OnChain
        <4>2. ASSUME NEW k \in 1..Len(c)
              PROVE  k \in 1..Len(node) \/ (k - Len(node) \in 1..Len(A) /\ k = Len(node) + (k - Len(node)))
          BY <1>3, <1>12
        <4>3. \A i \in 1..Len(A) : c[Len(node) + i].tx # t
          BY <1>10, <1>12, <3>2
        <4> HIDE DEF c
        <4>4. QED
          BY <1>12, <4>1, <4>2, <4>3
      <3> HIDE DEF c, b
      <3>6. /\ GoodChain(c \o B) /\ TopOf(c \o B) = b
            /\ \A k \in 1..Len(c) : (c \o B)[k] = c[k]
            /\ \A m \in 0..(b - 1) : UptoOf(c \o B, m) = UptoOf(c, m)
        <4>1. \A i \in 1..Len(B) : B[i].block = b /\ \A k \in 1..Len(c) : c[k].tx # B[i].tx
          BY <3>4, <3>5
        <4>2. /\ GoodChain(c) /\ B \in Seq(Assigned) /\ B # <<>> /\ b \in Nat \ {0}
              /\ b = TopOf(c) \/ b = TopOf(c) + 1
          BY <1>12, <2>1, <3>4
        <4>3. QED
          BY ONLY <4>1, <4>2, ExtendChain
      <3>7. \A k \in 1..Len(node) : k \in 1..Len(c)
        BY <1>3, <1>12
      <3>8. QED
        BY <1>12, <2>1, <3>3, <3>6, <3>7
    <2>4. QED
      BY <2>2, <2>3
  <1> HIDE DEF b
  <1>14. PastTyped'
    <2>1. b = TopOf(node) + 1
      BY DEF b
    <2>2. at' \in 0..TopOf(node') /\ TopOf(node') <= at' + MaxAhead
      BY <1>2, <1>3, <1>4, <1>9, <1>13, <2>1
    <2>3. QED
      BY <1>2, <1>8, <1>9, <1>13, <2>2 DEF PastTyped
  <1>15. EndOf(node', at') = EndOf(node, at) /\ EndOf(node, at) \in 0..Len(node)
    BY <1>2, <1>3, <1>9, <1>13, CutFacts DEF EndOf
  <1>16. QED
    <2>1. \A k \in 1..EndOf(node', at') : node'[k] = node[k]
      BY <1>3, <1>13, <1>15
    <2>2. \A k \in (EndOf(node', at') + 1)..EndOf(node, at) : FALSE
      BY <1>3, <1>15
    <2>3. forks.taken \subseteq forks.taken' /\ EndOf(node', at') <= EndOf(node, at)
      BY <1>3, <1>9, <1>15
    <2>4. QED
      BY <1>1, <1>9, <1>14, <2>1, <2>2, <2>3, SameHandled

LEMMA RollBackKeeps == PastInv /\ RollBack => PastInv'
  <1>1. SUFFICES ASSUME PastInv, RollBack
                 PROVE  PastInv'
    OBVIOUS
  <1>2. /\ GoodChain(node) /\ at \in 0..TopOf(node) /\ TopOf(node) <= at + MaxAhead
        /\ IsFiniteSet(made) /\ made \subseteq Txs /\ tracker \in Trackers /\ told \in Seq(Events)
    BY <1>1 DEF PastInv, PastTyped
  <1>3. /\ TopOf(node) \in Nat /\ at \in Nat /\ Len(node) \in Nat /\ DOMAIN node = 1..Len(node)
        /\ MaxAhead \in Nat
    BY <1>2, ChainFacts, CertHistoryAssumption
  <1>4. Height = TopOf(node) /\ \A n : Upto(n) = UptoOf(node, n) /\ End(n) = EndOf(node, n)
    BY <1>2, <1>3, NowFacts
  <1>5. PICK n \in 0..Height :
          /\ node' = SubSeq(node, 1, End(n))
          /\ at' = IF at < n THEN at ELSE n
          /\ forks' = [count |-> forks.count + 1,
                       taken |-> forks.taken \cup {<<node[k].key, node[k].what>> : k \in Upto(at) \ Upto(n)}]
    BY <1>1 DEF RollBack
  <1>6. made' = made /\ tracker' = tracker /\ told' = told
    BY <1>1 DEF RollBack
  <1>7. n \in 0..TopOf(node) /\ n \in Nat /\ at' \in 0..n /\ at' <= at /\ at' \in Nat /\ (at' = at \/ at' = n)
    BY <1>3, <1>4, <1>5
  <1>8. /\ GoodChain(node') /\ TopOf(node') = n /\ Len(node') = EndOf(node, n)
        /\ \A k \in 1..Len(node') : node'[k] = node[k]
        /\ \A m \in 0..n : UptoOf(node', m) = UptoOf(node, m)
    <2>1. node' = SubSeq(node, 1, EndOf(node, n))
      BY <1>4, <1>5
    <2>2. QED
      BY <1>2, <1>7, <2>1, CutChain
  <1>9. PastTyped'
    <2>1. TopOf(node') <= at' + MaxAhead
      BY <1>2, <1>3, <1>5, <1>7, <1>8
    <2>2. QED
      BY <1>2, <1>6, <1>7, <1>8, <2>1 DEF PastTyped
  <1>10. /\ EndOf(node', at') = EndOf(node, at') /\ EndOf(node', at') \in 0..Len(node')
         /\ EndOf(node, at) \in 0..Len(node) /\ UptoOf(node, at) = 1..EndOf(node, at)
         /\ UptoOf(node, at') = 1..EndOf(node, at')
         /\ EndOf(node, at') \in 0..Len(node)
    <2>1. EndOf(node', at') = EndOf(node, at')
      BY <1>7, <1>8 DEF EndOf
    <2>2. EndOf(node', at') \in 0..Len(node')
      BY <1>7, <1>8, CutFacts
    <2>3. QED
      BY <1>2, <1>3, <1>7, <2>1, <2>2, CutFacts
  <1>11. UptoOf(node, at') \subseteq UptoOf(node, at)
    <2>1. \A k \in DOMAIN node : node[k].block \in Nat
      BY <1>2, <1>3, ChainFacts
    <2>2. QED
      BY <1>3, <1>7, <2>1 DEF UptoOf
  <1>12. EndOf(node', at') <= EndOf(node, at)
    <2>1. EndOf(node, at') \in Nat /\ EndOf(node, at) \in Nat
      BY <1>3, <1>10
    <2>2. EndOf(node, at') # 0 => EndOf(node, at') \in 1..EndOf(node, at')
      BY <2>1
    <2>3. QED
      BY <1>10, <1>11, <2>1, <2>2
  <1>13. ASSUME NEW k \in (EndOf(node', at') + 1)..EndOf(node, at)
         PROVE  <<node[k].key, node[k].what>> \in forks.taken'
    <2>1. k \in UptoOf(node, at) /\ k \notin UptoOf(node, at')
      <3>1. EndOf(node, at') \in Nat /\ EndOf(node, at) \in Nat
        BY <1>3, <1>10
      <3>2. k \in 1..EndOf(node, at) /\ k \notin 1..EndOf(node, at')
        BY <1>10, <3>1
      <3>3. QED
        BY <1>10, <3>2
    <2>2. at' = n
      BY <1>7, <2>1
    <2>3. k \in Upto(at) \ Upto(n)
      BY <1>4, <2>1, <2>2
    <2>4. QED
      BY <1>5, <2>3
  <1>14. QED
    <2>1. \A k \in 1..EndOf(node', at') : node'[k] = node[k]
      <3>1. Len(node') \in Nat
        BY <1>8, ChainFacts
      <3>2. QED
        BY <1>8, <1>10, <3>1
    <2>2. forks.taken \subseteq forks.taken'
      BY <1>5
    <2>3. QED
      BY <1>1, <1>6, <1>9, <1>12, <1>13, <2>1, <2>2, SameHandled

LEMMA EventsFacts ==
    ASSUME NEW s \in Seq(Events)
    PROVE  /\ Len(s) \in Nat /\ DOMAIN s = 1..Len(s) /\ Swappable(s)
           /\ \A i \in 1..Len(s) : s[i] \in Events /\ s[i].to \in MaybeValue
  <1>1. Len(s) \in Nat /\ DOMAIN s = 1..Len(s) /\ \A i \in 1..Len(s) : s[i] \in Events
    <2>1. QED
      BY ElementOfSeq
  <1>2. DOMAIN Served \subseteq Values
    BY CertHistoryAssumption
  <1>3. ASSUME NEW i \in 1..Len(s)
        PROVE  s[i].what \in What /\ s[i].key \in Keys /\ s[i].to \in Values
    <2>1. s[i] \in Events
      BY <1>1
    <2> DEFINE e == s[i]
    <2>2. e \in Events
      BY <2>1
    <2> HIDE DEF e
    <2>3. e.what \in What /\ e.key \in Keys /\ e.to \in DOMAIN Served
      BY <2>2 DEF Events
    <2>4. QED
      BY <1>2, <2>3 DEF e
  <1>4. QED
    BY <1>1, <1>3 DEF Swappable, MaybeValue

LEMMA RestartKeeps == PastInv /\ Restart => PastInv'
  <1>1. SUFFICES ASSUME PastInv, Restart
                 PROVE  PastInv'
    OBVIOUS
  <1>2. told \in Seq(Events)
    BY <1>1 DEF PastInv, PastTyped
  <1> DEFINE N == Len(told)
             first == IF N > SEED THEN N - SEED + 1 ELSE 1
             as == SubSeq(told, first, Len(told))
             E == first - 1
             M == Len(as)
  <1>3. told # <<>> /\ \E p \in Swaps(Nobody, as) : tracker' = p.tracker
    BY <1>1 DEF Restart
  <1>4. PICK p \in Swaps(Nobody, as) : tracker' = p.tracker
    BY <1>3
  <1>5. node' = node /\ at' = at /\ made' = made /\ told' = told /\ forks' = forks
    BY <1>1 DEF Restart
  <1>6. /\ N \in Nat \ {0} /\ \A i \in 1..N : told[i].to \in MaybeValue
        /\ Swappable(told)
    BY <1>2, <1>3, EventsFacts
  <1>7. first \in 1..(N + 1)
    <2>1. SEED \in Nat
      BY CertHistoryAssumption
    <2>2. N \in Nat \ {0}
      BY <1>6
    <2> HIDE DEF N
    <2>3. CASE N > SEED
      <3>1. first = N - SEED + 1
        BY <2>3
      <3> HIDE DEF first
      <3>2. QED
        BY <2>1, <2>2, <2>3, <3>1
    <2>4. CASE ~(N > SEED)
      <3>1. first = 1
        BY <2>4
      <3> HIDE DEF first
      <3>2. QED
        BY <2>2, <3>1
    <2>5. QED
      BY <2>3, <2>4
  <1>8. /\ as \in Seq(Events) /\ M = N - E /\ E \in Nat /\ M \in Nat /\ E + M = N
        /\ \A i \in 1..M : as[i] = told[E + i] /\ E + i \in 1..N
    <2> HIDE DEF first
    <2>1. as \in Seq(Events) /\ Len(as) = N - first + 1 /\ \A i \in 1..(N - first + 1) : as[i] = told[first + i - 1]
      BY <1>2, <1>6, <1>7, SubSeqProperties
    <2>2. \A i \in 1..(N - first + 1) : first + i - 1 = E + i /\ E + i \in 1..N
      BY <1>6, <1>7
    <2>3. M = N - E /\ E \in Nat /\ M \in Nat /\ E + M = N /\ N - first + 1 = M
      BY <1>6, <1>7, <2>1
    <2> HIDE DEF as
    <2>4. \A i \in 1..M : as[i] = told[first + i - 1] /\ first + i - 1 = E + i /\ E + i \in 1..N
      BY <2>1, <2>2, <2>3
    <2>5. QED
      BY <2>1, <2>3, <2>4
  <1>9. Nobody \in Trackers
    <2>1. Nobody \in [{} -> [Delegating -> MaybeValue]] /\ {} \in SUBSET Keys
      BY DEF Nobody
    <2>2. QED
      BY <2>1 DEF Trackers
  <1> HIDE DEF first, as, E, M
  <1>10. Reached(Nobody, as, M, p)
    <2>1. Swappable(as)
      BY <1>8, EventsFacts
    <2>2. as \in Seq(Events)
      BY <1>8
    <2>3. QED
      BY <1>4, <1>9, <2>1, <2>2, SwapsFacts DEF M
  <1>11. tracker' \in Trackers
    BY <1>4, <1>10 DEF Reached, SwapStates
  <1>12. MemoryIsRight'
    <2>1. SUFFICES ASSUME NEW key \in Keys, NEW w \in Delegating, <<key, w>> \notin forks.taken
                   PROVE  /\ Known(tracker', key)[w] \in {NoValue, Now(w, key)}
                          /\ LastTold(w, key) \in {NoValue, Now(w, key)}
      <3>1. \A key \in Keys : \A w \in Delegating : Now(w, key)' = Now(w, key) /\ LastTold(w, key)' = LastTold(w, key)
        BY <1>5 DEF Now, LastTold
      <3>2. QED
        BY <1>5, <3>1 DEF MemoryIsRight
    <2>2. LastTold(w, key) \in {NoValue, Now(w, key)}
      BY <1>1, <2>1 DEF PastInv, MemoryIsRight
    <2>3. w \in What /\ NoValue \in MaybeValue
      BY DEF What, Delegating, MaybeValue
    <2>4. Known(Nobody, key)[w] = NoValue
      BY DEF Known, Nobody, Unknown, Delegating
    <2>5. Known(p.tracker, key)[w] \in {NoValue, LastTo(as, M, w, key, NoValue)}
      BY <1>10, <2>4 DEF Reached
    <2>6. LastTo(as, M, w, key, NoValue) \in {NoValue, LastTo(told, E + M, w, key, NoValue)}
      <3>1. /\ \A i \in 1..(E + M) : told[i].to \in MaybeValue
            /\ \A i \in 1..M : as[i].what = told[E + i].what /\ as[i].key = told[E + i].key /\ as[i].to = told[E + i].to
        BY <1>6, <1>8
      <3>2. E \in Nat /\ M \in Nat /\ M \in 0..M
        BY <1>8
      <3>3. \A i \in 0..M :
             /\ NoValue = LastTo(told, E, w, key, NoValue) => LastTo(as, i, w, key, NoValue) = LastTo(told, E + i, w, key, NoValue)
             /\ LastTo(as, i, w, key, NoValue) \in {NoValue, LastTo(told, E + i, w, key, NoValue)}
        BY ONLY <2>3, <3>1, <3>2, key \in Keys, LastToAfter
      <3>4. QED
        BY <3>2, <3>3
    <2>7. LastTold(w, key) = LastTo(told, E + M, w, key, NoValue)
      BY <1>8 DEF LastTold
    <2>8. QED
      BY <1>4, <2>2, <2>5, <2>6, <2>7
  <1>13. EverythingTold' /\ PastTyped'
    BY <1>1, <1>5, <1>11 DEF PastInv, PastTyped, EverythingTold
  <1>14. QED
    BY <1>12, <1>13 DEF PastInv

-----------------------------------------------------------------------------
(* The events of a block.                                                  *)

(* What a key has: its newest target, or nothing. *)
LEMMA TargetFacts ==
    ASSUME NEW P, NEW w, NEW key
    PROVE  LET L == LatestOf(node, About(node, P, w, key))
           IN  /\ Target(P, w, key) \in {NoValue, L}
               /\ Target(P, w, key) = L \/ (Target(P, w, key) = NoValue /\ About(node, P, w, key) # {})
               /\ w \notin Delegating => Target(P, w, key) = L
  <1> DEFINE G == About(node, P, w, key)
             ended == w \in Delegating /\ \E e \in About(node, P, "end", key) : \A k \in G : k < e
  <1>1. Target(P, w, key) = IF ended THEN NoValue ELSE LatestOf(node, G)
    BY DEF Target, Latest, LatestOf
  <1>2. G = {} => LatestOf(node, G) = NoValue
    BY DEF LatestOf
  <1>3. ended => w \in Delegating
    OBVIOUS
  <1> HIDE DEF G, ended
  <1>4. QED
    BY <1>1, <1>2, <1>3 DEF G

(* The notes on the event of the assignment at place k. *)
Noted(ev, k) ==
    LET last == LastTo(node, k - 1, node[k].what, node[k].key, NoValue)
    IN  /\ ev.note.place = k
        /\ ev.note.was = Target(1..(k - 1), node[k].what, node[k].key)
        /\ ev.note.was = last \/ ev.note.ended
        /\ node[k].what \notin Delegating => ev.note.was = last
        /\ ev.note.taken = (<<node[k].key, node[k].what>> \in forks.taken)
        /\ ev.note.again =
             (\E m \in About(node, DOMAIN node, node[k].what, node[k].key) : m # k /\ node[m].tx = node[k].tx)

LEMMA ParsedFacts ==
    ASSUME PastTyped, NEW k \in 1..Len(node), NEW f \in MaybeValue
    PROVE  /\ Parsed(k, f) \in Events
           /\ Parsed(k, f).tx = node[k].tx /\ Parsed(k, f).what = node[k].what
           /\ Parsed(k, f).key = node[k].key /\ Parsed(k, f).to = node[k].to
           /\ Parsed(k, f).from = f /\ (f # NoValue => Parsed(k, f).by = "tracker")
           /\ Parsed(k, f).changed = FALSE /\ Parsed(k, f).stale = FALSE
           /\ Noted(Parsed(k, f), k)
           /\ SpeltOnce(Parsed(k, f))
  <1> DEFINE a == node[k]
             was == Target(1..(k - 1), a.what, a.key)
             last == LastTo(node, k - 1, a.what, a.key, NoValue)
             ended == was = NoValue /\ About(node, 1..(k - 1), a.what, a.key) # {}
             taken == <<a.key, a.what>> \in forks.taken
             again == \E m \in About(node, DOMAIN node, a.what, a.key) : m # k /\ node[m].tx = a.tx
             by == IF f = NoValue THEN "nobody" ELSE "tracker"
             r == [tx |-> a.tx, what |-> a.what, key |-> a.key, to |-> a.to, from |-> f,
                   by |-> by, stale |-> FALSE, changed |-> FALSE,
                   note |-> [place |-> k, was |-> was, ended |-> ended, taken |-> taken, again |-> again]]
  <1>1. GoodChain(node) /\ at \in Nat /\ Len(node) \in Nat
    <2>1. GoodChain(node) /\ at \in 0..TopOf(node)
      BY DEF PastTyped
    <2>2. QED
      BY <2>1, ChainFacts
  <1>2. a \in Assigned
    BY <1>1, ChainFacts
  <1>3. a.tx \in Txs /\ a.what \in What /\ a.key \in Keys /\ a.to \in DOMAIN Served /\ SpeltOnce(a)
    BY <1>2 DEF Assigned
  <1>4. Parsed(k, f) = r
    BY DEF Parsed
  <1>5. last \in MaybeValue
    <2>1. k - 1 \in Nat /\ \A i \in 1..(k - 1) : i \in 1..Len(node)
      BY <1>1
    <2>2. \A i \in 1..(k - 1) : node[i].to \in MaybeValue
      BY <1>1, <2>1, NowFacts
    <2>3. NoValue \in MaybeValue
      BY DEF MaybeValue
    <2> HIDE DEF a
    <2>4. QED
      BY <1>3, <2>1, <2>2, <2>3, LastToType
  <1>6. was \in {NoValue, last} /\ (was = last \/ ended) /\ (a.what \notin Delegating => was = last)
    <2>1. last = LatestOf(node, About(node, 1..(k - 1), a.what, a.key))
      BY DEF LastTo, LatestOf
    <2>2. QED
      BY <2>1, TargetFacts
  <1>7. was \in MaybeValue
    BY <1>5, <1>6 DEF MaybeValue
  <1>8. taken \in BOOLEAN /\ again \in BOOLEAN /\ ended \in BOOLEAN /\ k \in Nat
    BY <1>1
  <1>9. by \in {"nobody", "tracker"} /\ (f # NoValue => by = "tracker")
    OBVIOUS
  <1> HIDE DEF was, last, ended, taken, again, by
  <1>10. r \in Events
    BY <1>3, <1>7, <1>8, <1>9 DEF Events
  <1>11. SpeltOnce(r)
    BY <1>3 DEF SpeltOnce
  <1>12. /\ r.tx = a.tx /\ r.what = a.what /\ r.key = a.key /\ r.to = a.to /\ r.from = f
         /\ r.by = by /\ r.changed = FALSE /\ r.stale = FALSE /\ r.note.place = k
         /\ r.note.was = was /\ r.note.ended = ended /\ r.note.taken = taken /\ r.note.again = again
    OBVIOUS
  <1> HIDE DEF r
  <1>13. Noted(r, k)
    BY <1>6, <1>12 DEF Noted, was, last, taken, again
  <1>14. QED
    BY <1>4, <1>9, <1>10, <1>11, <1>12, <1>13

(* What the backend answers is a value, of the chain. *)
LEMMA ViewFacts ==
    ASSUME PastTyped, NEW view \in Views
    PROVE  view \subseteq 1..Len(node)
  <1>1. GoodChain(node)
    BY DEF PastTyped
  <1>2. DOMAIN node = 1..Len(node)
    BY <1>1, ChainFacts
  <1>3. QED
    BY <1>2 DEF Views, Upto

LEMMA AnswerSays ==
    ASSUME PastTyped, NEW ev, NEW P, P \subseteq 1..Len(node)
    PROVE  /\ Account(P, ev) \in MaybeValue /\ PreviousPoolFromHistory(P, ev) \in MaybeValue
           /\ FetchPrevious(P, ev) \in MaybeValue
           /\ Account(P, ev) # NoValue =>
                /\ Target(P, ev.what, ev.key) # NoValue
                /\ Meaning[Account(P, ev)] = Meaning[Target(P, ev.what, ev.key)]
           /\ PreviousPoolFromHistory(P, ev) # NoValue =>
                PreviousPoolFromHistory(P, ev) # ev.to /\ PreviousPoolFromHistory(P, ev) \in DOMAIN Served
           /\ PreviousPoolFromHistory(P, ev) =
                LatestOf(node, {k \in Newest(5, About(node, P, "pool", ev.key)) : node[k].tx # ev.tx /\ node[k].to # ev.to})
           /\ FetchPrevious(P, ev) # NoValue =>
                LET Q == {k \in Newest(2, About(node, P, "reg", ev.key)) : node[k].tx # ev.tx}
                IN  LatestOf(node, Q) # NoValue /\ Meaning[FetchPrevious(P, ev)] = Meaning[LatestOf(node, Q)]
  <1> DEFINE A == About(node, P, ev.what, ev.key)
             to == Target(P, ev.what, ev.key)
             H == {k \in Newest(5, About(node, P, "pool", ev.key)) : node[k].tx # ev.tx /\ node[k].to # ev.to}
             Q == {k \in Newest(2, About(node, P, "reg", ev.key)) : node[k].tx # ev.tx}
  <1>1. GoodChain(node)
    BY DEF PastTyped
  <1>2. /\ A \subseteq 1..Len(node) /\ H \subseteq 1..Len(node) /\ Q \subseteq 1..Len(node)
        /\ \A k \in H : node[k].to # ev.to
    BY DEF About, Newest
  <1>3. \A R : Latest(R) = LatestOf(node, R)
    BY DEF Latest, LatestOf
  <1>4. /\ Account(P, ev) = IF to = NoValue THEN NoValue ELSE Served[to]
        /\ to \in {NoValue, LatestOf(node, A)}
        /\ PreviousPoolFromHistory(P, ev) = LatestOf(node, H)
        /\ FetchPrevious(P, ev) = IF LatestOf(node, Q) = NoValue THEN NoValue ELSE Served[LatestOf(node, Q)]
    BY <1>3, TargetFacts DEF Account, PreviousPoolFromHistory, FetchPrevious
  <1> HIDE DEF A, H, Q, to
  <1>5. ASSUME NEW R, R \subseteq 1..Len(node)
        PROVE  /\ LatestOf(node, R) \in MaybeValue
               /\ LatestOf(node, R) # NoValue =>
                     R # {} /\ Max(R) \in R /\ LatestOf(node, R) = node[Max(R)].to /\ LatestOf(node, R) \in DOMAIN Served
    <2>1. /\ R = {} => LatestOf(node, R) = NoValue
          /\ R # {} => /\ Max(R) \in R /\ \A k \in R : k <= Max(R)
                       /\ LatestOf(node, R) = node[Max(R)].to /\ LatestOf(node, R) \in DOMAIN Served
                       /\ LatestOf(node, R) # NoValue
          /\ \A m \in R : (\A k \in R : k <= m) => LatestOf(node, R) = node[m].to
          /\ LatestOf(node, R) \in MaybeValue
      BY ONLY <1>1, <1>5, LatestFacts
    <2>2. QED
      BY ONLY <2>1
  <1>6. \A v \in DOMAIN Served : Served[v] \in Values /\ Meaning[Served[v]] = Meaning[v] /\ Served[v] \in MaybeValue
    BY CertHistoryAssumption DEF MaybeValue
  <1>7. NoValue \in MaybeValue
    BY DEF MaybeValue
  <1>8. Account(P, ev) \in MaybeValue /\ FetchPrevious(P, ev) \in MaybeValue /\ PreviousPoolFromHistory(P, ev) \in MaybeValue
    BY <1>2, <1>4, <1>5, <1>6, <1>7
  <1>9. Account(P, ev) # NoValue => to # NoValue /\ Meaning[Account(P, ev)] = Meaning[to]
    BY <1>2, <1>4, <1>5, <1>6
  <1>10. FetchPrevious(P, ev) # NoValue =>
          LatestOf(node, Q) # NoValue /\ Meaning[FetchPrevious(P, ev)] = Meaning[LatestOf(node, Q)]
    BY <1>2, <1>4, <1>5, <1>6
  <1>11. PreviousPoolFromHistory(P, ev) # NoValue =>
           PreviousPoolFromHistory(P, ev) # ev.to /\ PreviousPoolFromHistory(P, ev) \in DOMAIN Served
    BY <1>2, <1>4, <1>5
  <1>12. QED
    BY <1>4, <1>8, <1>9, <1>10, <1>11 DEF A, H, Q, to

(* An event asked about is filled in, or left as it was, and never a no-op. *)
FilledFrom(ev, e, value, by, view) ==
    value # NoValue /\ e = [ev EXCEPT !.from = value, !.by = by, !.stale = Stale(view, ev)]

LEMMA FilledFromFacts ==
    ASSUME NEW ev \in Events, NEW e, NEW value, NEW by, NEW view, FilledFrom(ev, e, value, by, view)
    PROVE  /\ e.tx = ev.tx /\ e.what = ev.what /\ e.key = ev.key /\ e.to = ev.to /\ e.note = ev.note
           /\ e.changed = ev.changed /\ e.from = value /\ e.by = by /\ e.stale = Stale(view, ev) /\ value # NoValue
  BY DEF FilledFrom, Events

LEMMA FilledFacts ==
    ASSUME PastTyped, NEW ev \in Events, SpeltOnce(ev), NEW account, NEW history, history \subseteq 1..Len(node),
           ev.from = NoValue /\ ev.what \in Delegating => account[ev.key] \subseteq 1..Len(node),
           ev.from # NoValue => ~Same(ev.from, ev.to)
    PROVE  LET e == FillMissingFrom(ev, account, history)
           IN  /\ e \in Events /\ ~Noop(e)
               /\ \/ e = ev
                  \/ /\ ev.from = NoValue /\ ev.what \in Delegating /\ ~Same(Account(account[ev.key], ev), ev.to)
                     /\ FilledFrom(ev, e, Account(account[ev.key], ev), "account", account[ev.key])
                  \/ /\ ev.from = NoValue /\ ev.what = "pool"
                     /\ FilledFrom(ev, e, PreviousPoolFromHistory(history, ev), "history", history)
  <1> DEFINE e == FillMissingFrom(ev, account, history)
             tip == Account(account[ev.key], ev)
             prev == PreviousPoolFromHistory(history, ev)
  <1>1. CASE ev.from # NoValue \/ ev.what \notin Delegating
    <2>1. e = ev
      BY <1>1 DEF FillMissingFrom
    <2>2. ~Noop(ev)
      BY <1>1 DEF Noop
    <2>3. QED
      BY <2>1, <2>2
  <1>2. CASE ev.from = NoValue /\ ev.what \in Delegating
    <2>1. /\ tip \in MaybeValue /\ prev \in MaybeValue
          /\ prev # NoValue => prev # ev.to /\ prev \in DOMAIN Served
      BY <1>2, AnswerSays
    <2>2. e = IF tip # NoValue /\ ~Same(tip, ev.to) THEN From(ev, tip, "account", account[ev.key])
              ELSE IF ev.what = "pool" THEN From(ev, prev, "history", history) ELSE ev
      BY <1>2 DEF FillMissingFrom
    <2> HIDE DEF tip, prev, e
    <2>3. ASSUME NEW v \in MaybeValue, NEW by \in {"account", "history"}, NEW view
          PROVE  [ev EXCEPT !.from = v, !.by = by, !.stale = Stale(view, ev)] \in Events
      <3> DEFINE stale == Stale(view, ev)
      <3>1. stale \in BOOLEAN
        BY DEF Stale
      <3> HIDE DEF stale
      <3>2. [ev EXCEPT !.from = v, !.by = by, !.stale = stale] \in Events
        BY <3>1 DEF Events
      <3>3. QED
        BY <3>2 DEF stale
    <2>4. CASE tip # NoValue /\ ~Same(tip, ev.to)
      <3>1. e = [ev EXCEPT !.from = tip, !.by = "account", !.stale = Stale(account[ev.key], ev)]
        BY <2>2, <2>4 DEF From
      <3>2. e \in Events
        BY <2>1, <2>3, <3>1
      <3>3. ~Noop(e)
        <4>1. e.from = tip /\ e.to = ev.to
          BY <3>1 DEF Events
        <4>2. QED
          BY <2>4, <4>1 DEF Noop
      <3>4. QED
        BY <1>2, <2>4, <3>1, <3>2, <3>3 DEF FilledFrom, tip, e
    <2>5. CASE ~(tip # NoValue /\ ~Same(tip, ev.to)) /\ ev.what = "pool" /\ prev # NoValue
      <3>1. e = [ev EXCEPT !.from = prev, !.by = "history", !.stale = Stale(history, ev)]
        BY <2>2, <2>5 DEF From
      <3>2. e \in Events
        BY <2>1, <2>3, <3>1
      <3>3. ~Noop(e)
        <4>1. e.from = prev /\ e.to = ev.to
          BY <3>1 DEF Events
        <4>2. ~Same(prev, ev.to)
          BY <2>1, <2>5 DEF SpeltOnce, Same
        <4>3. QED
          BY <4>1, <4>2 DEF Noop
      <3>4. QED
        BY <1>2, <2>5, <3>1, <3>2, <3>3 DEF FilledFrom, prev, e
    <2>6. CASE ~(tip # NoValue /\ ~Same(tip, ev.to)) /\ ~(ev.what = "pool" /\ prev # NoValue)
      <3>1. e = ev
        BY <2>2, <2>6 DEF From
      <3>2. ~Noop(ev)
        BY <1>2 DEF Noop
      <3>3. QED
        BY <3>1, <3>2 DEF e
    <2>7. QED
      BY <2>4, <2>5, <2>6
  <1>3. QED
    BY <1>1, <1>2

(* Only a registration is stamped. *)
LEMMA StampedFacts ==
    ASSUME PastTyped, NEW e \in Events, NEW view, view \subseteq 1..Len(node)
    PROVE  LET s == StampRegistrationUpdate(e, view)
           IN  /\ s \in Events
               /\ s.tx = e.tx /\ s.what = e.what /\ s.key = e.key /\ s.to = e.to /\ s.note = e.note
               /\ e.what # "reg" => s = e
               /\ e.what = "reg" =>
                    /\ s.changed <=> s.from # NoValue /\ ~Same(s.from, s.to)
                    /\ \/ s.from = e.from
                       \/ /\ s.by = "registry" /\ s.from # NoValue /\ s.from = FetchPrevious(view, e)
                          /\ s.stale = Stale(view, e)
  <1> DEFINE s == StampRegistrationUpdate(e, view)
             v == FetchPrevious(view, e)
             m == From(e, v, "registry", view)
             stale == Stale(view, e)
             yes == Differs(m)
  <1>1. CASE e.what # "reg"
    <2>1. s = e
      BY <1>1 DEF StampRegistrationUpdate
    <2>2. QED
      BY <1>1, <2>1
  <1>2. CASE e.what = "reg"
    <2>1. v \in MaybeValue
      BY AnswerSays
    <2>2. s = [m EXCEPT !.changed = yes]
      BY <1>2 DEF StampRegistrationUpdate
    <2>3. m = IF v = NoValue THEN e ELSE [e EXCEPT !.from = v, !.by = "registry", !.stale = stale]
      BY DEF From
    <2>4. yes \in BOOLEAN /\ (yes <=> m.from # NoValue /\ ~Same(m.from, m.to))
      BY DEF Differs
    <2> DEFINE read == m.by = "registry" /\ m.from = v /\ v # NoValue /\ m.stale = stale
    <2>8. stale \in BOOLEAN
      BY DEF Stale
    <2> HIDE DEF v, m, yes, s, stale
    <2>5. /\ m \in Events /\ m.tx = e.tx /\ m.what = e.what /\ m.key = e.key /\ m.to = e.to /\ m.note = e.note
          /\ m.from = e.from \/ read
      <3>1. CASE v = NoValue
        BY <2>3, <3>1
      <3>2. CASE v # NoValue
        BY <2>1, <2>3, <2>8, <3>2 DEF Events
      <3>3. QED
        BY <3>1, <3>2
    <2>6. /\ s \in Events /\ s.tx = m.tx /\ s.what = m.what /\ s.key = m.key /\ s.to = m.to /\ s.note = m.note
          /\ s.from = m.from /\ s.by = m.by /\ s.stale = m.stale /\ s.changed = yes
      BY <2>2, <2>4, <2>5 DEF Events
    <2>7. QED
      BY <1>2, <2>4, <2>5, <2>6 DEF s, v, stale
  <1>3. QED
    BY <1>1, <1>2

(* The block to handle. *)
Next1 == SubSeq(node, EndOf(node, at) + 1, EndOf(node, at + 1))

LEMMA BlockFacts ==
    ASSUME PastTyped, at < TopOf(node)
    PROVE  /\ GoodChain(node) /\ at \in Nat /\ at + 1 \in 0..TopOf(node) /\ Len(node) \in Nat
           /\ EndOf(node, at) \in Nat /\ Len(Next1) \in Nat /\ DOMAIN Next1 = 1..Len(Next1)
           /\ EndOf(node, at) + Len(Next1) = EndOf(node, at + 1) /\ EndOf(node, at + 1) \in 0..Len(node)
           /\ UptoOf(node, at) = 1..EndOf(node, at) /\ UptoOf(node, at + 1) = 1..EndOf(node, at + 1)
           /\ Next1 \in Seq(Assigned) /\ Swappable(Next1)
           /\ \A i \in 1..Len(Next1) :
                /\ Next1[i] = node[EndOf(node, at) + i] /\ EndOf(node, at) + i \in 1..Len(node)
                /\ node[EndOf(node, at) + i].block = at + 1
  <1> DEFINE E == EndOf(node, at)
             F == EndOf(node, at + 1)
  <1>1. GoodChain(node) /\ at \in 0..TopOf(node)
    BY DEF PastTyped
  <1>2. TopOf(node) \in Nat /\ Len(node) \in Nat
    BY <1>1, ChainFacts
  <1>3. at \in Nat /\ at + 1 \in 0..TopOf(node) /\ at + 1 \in Nat
    BY <1>1, <1>2
  <1>4. /\ E \in 0..Len(node) /\ UptoOf(node, at) = 1..E
        /\ \A k \in 1..Len(node) : k <= E <=> node[k].block <= at
    BY <1>1, <1>3, CutFacts
  <1>5. /\ F \in 0..Len(node) /\ UptoOf(node, at + 1) = 1..F
        /\ \A k \in 1..Len(node) : k <= F <=> node[k].block <= at + 1
    BY <1>1, <1>3, CutFacts
  <1> HIDE DEF E, F
  <1>6. \A k \in 1..Len(node) : node[k] \in Assigned /\ node[k].block \in Nat
    BY <1>1, ChainFacts
  <1>7. E <= F
    <2>1. CASE E = 0
      BY <1>2, <1>5, <2>1
    <2>2. CASE E # 0
      <3>1. E \in 1..Len(node) /\ node[E].block <= at
        BY <1>2, <1>4, <2>2
      <3>2. node[E].block <= at + 1
        BY <1>3, <1>6, <3>1
      <3>3. QED
        BY <1>5, <3>1, <3>2
    <2>3. QED
      BY <2>1, <2>2
  <1> DEFINE block == SubSeq(node, E + 1, F)
             M == F - E
  <1>8. M \in Nat /\ E \in Nat /\ F \in Nat /\ E + M = F
    BY <1>2, <1>4, <1>5, <1>7
  <1>9. /\ block \in Seq(Assigned) /\ Len(block) = M /\ DOMAIN block = 1..M
        /\ \A i \in 1..M : block[i] = node[E + i] /\ E + i \in 1..Len(node)
    <2>1. node \in Seq(Assigned)
      BY <1>1 DEF GoodChain
    <2> HIDE DEF Assigned
    <2>2. \A i \in (E + 1)..F : node[i] \in Assigned
      BY <1>2, <1>5, <1>6, <1>8
    <2>3. /\ block \in Seq(Assigned)
          /\ Len(block) = IF E + 1 <= F THEN F - (E + 1) + 1 ELSE 0
          /\ \A i \in 1..(F - (E + 1) + 1) : block[i] = node[E + 1 + i - 1]
      BY <1>8, <2>2, SubSeqProperties
    <2> HIDE DEF block
    <2>4. Len(block) = M /\ F - (E + 1) + 1 = M
      BY <1>7, <1>8, <2>3
    <2>5. \A i \in 1..M : E + 1 + i - 1 = E + i /\ E + i \in 1..Len(node)
      BY <1>2, <1>5, <1>8
    <2>6. DOMAIN block = 1..M
      BY <2>3, <2>4
    <2>7. QED
      BY <2>3, <2>4, <2>5, <2>6
  <1> HIDE DEF block, M
  <1>10. \A i \in 1..M : node[E + i].block = at + 1
    <2>1. ASSUME NEW i \in 1..M
          PROVE  node[E + i].block = at + 1
      <3>1. E + i \in 1..Len(node) /\ ~(E + i <= E) /\ E + i <= F
        BY <1>8, <1>9
      <3> DEFINE k == E + i
      <3>2. k \in 1..Len(node) /\ ~(k <= E) /\ k <= F
        BY <3>1
      <3> HIDE DEF k
      <3>3. ~(node[k].block <= at) /\ node[k].block <= at + 1 /\ node[k].block \in Nat
        BY <1>4, <1>5, <1>6, <3>2
      <3>4. QED
        BY <1>3, <3>3 DEF k
    <2>2. QED
      BY <2>1
  <1>11. Swappable(block)
    <2>1. DOMAIN Served \subseteq Values
      BY CertHistoryAssumption
    <2>2. \A i \in 1..M : block[i] \in Assigned
      BY <1>6, <1>9
    <2>3. QED
      BY <1>9, <2>1, <2>2 DEF Swappable, Assigned
  <1>12. Next1 = block
    BY DEF Next1, block, E, F
  <1>13. QED
    BY <1>1, <1>2, <1>3, <1>4, <1>5, <1>8, <1>9, <1>10, <1>11, <1>12 DEF E, F

(* Keeping every place keeps the sequence. *)
LEMMA WholeSubsequence ==
    ASSUME NEW n \in Nat, NEW s
    PROVE  Subsequence(s, 1..n) = [k \in 1..n |-> s[k]]
  <1>1. \A k \in 1..n : Rank(1..n, k) = k
    <2>1. ASSUME NEW k \in 1..n
          PROVE  Rank(1..n, k) = k
      <3>1. {j \in 1..n : j <= k} = 1..k
        OBVIOUS
      <3>2. Cardinality(1..k) = k
        BY FS_Interval
      <3>3. QED
        BY <3>1, <3>2 DEF Rank
    <2>2. QED
      BY <2>1
  <1>2. Cardinality(1..n) = n
    BY FS_Interval
  <1>3. \A k \in 1..n : Nth(1..n, k) = k
    BY <1>1 DEF Nth
  <1>4. QED
    BY <1>2, <1>3 DEF Subsequence

(* The event of the assignment at place k, of which the tracker found f. *)
FilledEvent(k, f, account, history) == FillMissingFrom(Parsed(k, f), account, history)
News(k, f, account, history) == StampRegistrationUpdate(FilledEvent(k, f, account, history), history)

(* Whether the answers are the backend's. *)
Answered(k, f, account, history) ==
    /\ history \in Views
    /\ f = NoValue /\ node[k].what \in Delegating => account[node[k].key] \in Views

LEMMA NewsFacts ==
    ASSUME PastTyped, at < TopOf(node), NEW p, Reached(tracker, Next1, Len(Next1), p),
           NEW i \in 1..Len(Next1), NEW account, NEW history,
           Answered(EndOf(node, at) + i, p.froms[i], account, history)
    PROVE  LET k == EndOf(node, at) + i
               e == FilledEvent(k, p.froms[i], account, history)
               s == News(k, p.froms[i], account, history)
           IN  /\ Parsed(k, p.froms[i]) \in Events /\ e \in Events /\ ~Noop(e) /\ s \in Events
               /\ s.tx = node[k].tx /\ s.what = node[k].what /\ s.key = node[k].key /\ s.to = node[k].to
               /\ s.note = Parsed(k, p.froms[i]).note
  <1> DEFINE k == EndOf(node, at) + i
             f == p.froms[i]
             q == Parsed(k, f)
             e == FillMissingFrom(q, account, history)
  <1>1. k \in 1..Len(node) /\ Next1[i] = node[k]
    BY BlockFacts
  <1>2. FromOk(tracker, Next1, i, f)
    BY DEF Reached
  <1>3. f \in MaybeValue /\ (f # NoValue => node[k].what \in Delegating /\ ~Same(f, node[k].to))
    BY <1>1, <1>2 DEF FromOk
  <1> HIDE DEF k, f
  <1>4. /\ q \in Events /\ q.tx = node[k].tx /\ q.what = node[k].what /\ q.key = node[k].key /\ q.to = node[k].to
        /\ q.from = f /\ SpeltOnce(q)
    BY <1>1, <1>3, ParsedFacts
  <1>5. history \in Views /\ (f = NoValue /\ node[k].what \in Delegating => account[node[k].key] \in Views)
    BY DEF Answered, k, f
  <1>6. history \subseteq 1..Len(node) /\ (q.from = NoValue /\ q.what \in Delegating => account[q.key] \subseteq 1..Len(node))
    BY <1>4, <1>5, ViewFacts
  <1>7. q.from # NoValue => ~Same(q.from, q.to)
    BY <1>3, <1>4
  <1> HIDE DEF q
  <1>8. /\ e \in Events /\ ~Noop(e)
        /\ \/ e = q
           \/ FilledFrom(q, e, Account(account[q.key], q), "account", account[q.key])
           \/ FilledFrom(q, e, PreviousPoolFromHistory(history, q), "history", history)
    BY <1>4, <1>6, <1>7, FilledFacts
  <1>9. e.tx = q.tx /\ e.what = q.what /\ e.key = q.key /\ e.to = q.to /\ e.note = q.note
    <2> HIDE DEF e
    <2>1. QED
      BY <1>4, <1>8, FilledFromFacts
  <1> HIDE DEF e
  <1> DEFINE s == StampRegistrationUpdate(e, history)
  <1>10. s \in Events /\ s.tx = e.tx /\ s.what = e.what /\ s.key = e.key /\ s.to = e.to /\ s.note = e.note
    BY <1>6, <1>8, StampedFacts
  <1> HIDE DEF s
  <1>11. e = FilledEvent(k, f, account, history) /\ s = News(k, f, account, history)
    BY DEF FilledEvent, News, e, s, q
  <1>12. QED
    BY <1>4, <1>8, <1>9, <1>10, <1>11 DEF k, f, q

LEMMA ConcatFacts ==
    ASSUME NEW S, NEW s \in Seq(S), NEW t \in Seq(S), NEW c, c = s \o t
    PROVE  /\ c \in Seq(S) /\ Len(c) = Len(s) + Len(t)
           /\ \A i \in 1..Len(s) : c[i] = s[i]
           /\ \A i \in 1..Len(t) : c[Len(s) + i] = t[i]
  BY ConcatProperties

(* What handling the block does: no event is dropped as a no-op. *)
ForwardedBy(p, account, history) ==
    /\ Reached(tracker, Next1, Len(Next1), p) /\ tracker' = p.tracker
    /\ \A i \in 1..Len(Next1) : Answered(EndOf(node, at) + i, p.froms[i], account, history)
    /\ told' \in Seq(Events) /\ Len(told') = Len(told) + Len(Next1)
    /\ \A i \in 1..Len(told) : told'[i] = told[i]
    /\ \A i \in 1..Len(Next1) :
         told'[Len(told) + i] = News(EndOf(node, at) + i, p.froms[i], account, history)

LEMMA ForwardFacts ==
    ASSUME PastTyped, Forward
    PROVE  /\ at < TopOf(node) /\ at' = at + 1 /\ node' = node /\ made' = made /\ forks' = forks
           /\ \E p, account, history : ForwardedBy(p, account, history)
  <1>1. GoodChain(node) /\ at \in Nat
    <2>1. GoodChain(node) /\ at \in 0..TopOf(node)
      BY DEF PastTyped
    <2>2. TopOf(node) \in Nat
      BY <2>1, ChainFacts
    <2>3. at \in Nat
      BY ONLY <2>1, <2>2
    <2>4. QED
      BY <2>1, <2>3
  <1>2. tracker \in Trackers /\ told \in Seq(Events)
    BY DEF PastTyped
  <1>3. Height = TopOf(node) /\ \A n : End(n) = EndOf(node, n)
    BY ONLY <1>1, NowFacts
  <1>4. at < TopOf(node) /\ at' = at + 1 /\ node' = node /\ made' = made /\ forks' = forks
    BY <1>3 DEF Forward
  <1> DEFINE E == End(at)
             B == SubSeq(node, End(at) + 1, End(at + 1))
             M == Len(B)
             parsed(p) == [i \in DOMAIN B |-> Parsed(E + i, p.froms[i])]
             filled(p, account, history) ==
                [i \in DOMAIN B |-> FillMissingFrom(parsed(p)[i], account, history)]
             kept(p, account, history) ==
                Subsequence(filled(p, account, history), {i \in DOMAIN B : ~Noop(filled(p, account, history)[i])})
             news(p, account, history) ==
                [i \in DOMAIN kept(p, account, history) |-> StampRegistrationUpdate(kept(p, account, history)[i], history)]
  <1>5. \E p \in Swaps(tracker, B) : \E account \in [Asked(parsed(p)) -> Views], history \in Views :
           tracker' = p.tracker /\ told' = told \o news(p, account, history)
    BY DEF Forward
  <1> HIDE DEF news
  <1>6. PICK p \in Swaps(tracker, B) : \E account \in [Asked(parsed(p)) -> Views], history \in Views :
           tracker' = p.tracker /\ told' = told \o news(p, account, history)
    BY <1>5, Zenon
  <1>7. PICK account \in [Asked(parsed(p)) -> Views], history \in Views :
           tracker' = p.tracker /\ told' = told \o news(p, account, history)
    BY <1>6, Zenon
  <1> USE DEF news
  <1> HIDE DEF B, E
  <1>8. B = Next1 /\ E = EndOf(node, at)
    BY <1>3 DEF B, E, Next1
  <1>9. /\ M \in Nat /\ DOMAIN B = 1..M /\ B \in Seq(Assigned) /\ Swappable(B)
        /\ \A i \in 1..M : B[i] = node[E + i] /\ E + i \in 1..Len(node)
    BY <1>4, <1>8, BlockFacts
  <1> HIDE DEF M
  <1>10. Reached(tracker, B, M, p)
    <2> HIDE DEF Assigned
    <2>1. p \in Swaps(tracker, B)
      OBVIOUS
    <2>2. QED
      BY ONLY <1>2, <1>9, <2>1, SwapsFacts DEF M
  <1>11. \A i \in 1..M : p.froms[i] \in MaybeValue
    BY <1>10 DEF Reached, FromOk
  <1> DEFINE q == parsed(p)
             F == filled(p, account, history)
             kp == kept(p, account, history)
             nw == news(p, account, history)
  <1>12. \A i \in 1..M : q[i] = Parsed(E + i, p.froms[i])
    BY <1>9
  <1>13. ASSUME NEW i \in 1..M
         PROVE  Answered(E + i, p.froms[i], account, history)
    <2>1. SUFFICES ASSUME p.froms[i] = NoValue, node[E + i].what \in Delegating
                   PROVE  account[node[E + i].key] \in Views
      BY DEF Answered
    <2>2. E + i \in 1..Len(node)
      BY <1>9
    <2> DEFINE k == E + i
               f == p.froms[i]
               ev == Parsed(k, f)
    <2>3. ev.from = f /\ ev.what = node[k].what /\ ev.key = node[k].key
      <3> HIDE DEF k, f
      <3>1. k \in 1..Len(node) /\ f \in MaybeValue
        BY <1>11, <2>2 DEF k, f
      <3>2. QED
        BY <3>1, ParsedFacts
    <2>4. ev \in ToSet(q)
      BY <1>9, <1>12 DEF ToSet
    <2> HIDE DEF q, ev
    <2>5. node[k].key \in Asked(q)
      BY <2>1, <2>3, <2>4 DEF Asked
    <2>6. account \in [Asked(q) -> Views]
      BY <1>7 DEF q
    <2>7. QED
      BY <2>5, <2>6
  <1>14. \A i \in 1..M : F[i] = FilledEvent(E + i, p.froms[i], account, history)
    <2> HIDE DEF q
    <2>1. F = [i \in 1..M |-> FillMissingFrom(q[i], account, history)]
      BY <1>9 DEF q
    <2> HIDE DEF F
    <2>2. QED
      BY <1>12, <2>1 DEF FilledEvent
  <1>15. \A i \in 1..M : ~Noop(F[i]) /\ News(E + i, p.froms[i], account, history) \in Events
    <2> HIDE DEF F
    <2>1. ASSUME NEW i \in 1..M
          PROVE  ~Noop(FilledEvent(E + i, p.froms[i], account, history)) /\ News(E + i, p.froms[i], account, history) \in Events
      <3>1. Answered(E + i, p.froms[i], account, history)
        BY <1>13
      <3>2. QED
        BY <1>4, <1>10, <1>8, <3>1, NewsFacts DEF M
    <2>2. QED
      BY <1>14, <2>1
  <1> HIDE DEF q
  <1>16. kp = [i \in 1..M |-> F[i]]
    <2>1. kp = Subsequence(F, {i \in DOMAIN B : ~Noop(F[i])})
      OBVIOUS
    <2> HIDE DEF F, kp
    <2>2. M \in Nat /\ DOMAIN B = 1..M /\ \A i \in 1..M : ~Noop(F[i])
      BY <1>9, <1>15
    <2>3. {i \in DOMAIN B : ~Noop(F[i])} = 1..M
      BY ONLY <2>2
    <2>4. QED
      BY ONLY <2>1, <2>2, <2>3, WholeSubsequence
  <1>17. nw = [i \in 1..M |-> News(E + i, p.froms[i], account, history)]
    <2>1. nw = [i \in DOMAIN kp |-> StampRegistrationUpdate(kp[i], history)]
      OBVIOUS
    <2> HIDE DEF F, kp, nw
    <2>2. DOMAIN kp = 1..M /\ \A i \in 1..M : kp[i] = FilledEvent(E + i, p.froms[i], account, history)
      BY <1>14, <1>16
    <2>3. QED
      BY <2>1, <2>2 DEF News
  <1>18. told' = told \o nw
    BY <1>7
  <1> HIDE DEF nw
  <1>19. nw \in Seq(Events) /\ Len(nw) = M
    <2>1. QED
      BY <1>9, <1>15, <1>17
  <1>20. /\ told' \in Seq(Events) /\ Len(told') = Len(told) + M
         /\ \A i \in 1..Len(told) : told'[i] = told[i]
         /\ \A i \in 1..M : told'[Len(told) + i] = nw[i]
    <2> DEFINE c == told'
    <2>1. told \in Seq(Events) /\ nw \in Seq(Events) /\ c = told \o nw
      BY <1>2, <1>18, <1>19
    <2> HIDE DEF c
    <2>2. /\ c \in Seq(Events) /\ Len(c) = Len(told) + Len(nw)
          /\ \A i \in 1..Len(told) : c[i] = told[i]
          /\ \A i \in 1..Len(nw) : c[Len(told) + i] = nw[i]
      BY ONLY <2>1, ConcatFacts
    <2>3. Len(nw) = M
      BY <1>19
    <2>4. QED
      BY ONLY <2>2, <2>3 DEF c
  <1>21. \A i \in 1..M : told'[Len(told) + i] = News(E + i, p.froms[i], account, history)
    BY <1>17, <1>20
  <1>22. tracker' = p.tracker
    BY <1>7
  <1>23. ForwardedBy(p, account, history)
    BY <1>10, <1>13, <1>20, <1>21, <1>22, <1>8 DEF ForwardedBy, M
  <1>24. QED
    BY <1>4, <1>23

LEMMA ForwardKeeps == PastInv /\ Forward => PastInv'
  <1>1. SUFFICES ASSUME PastInv, Forward
                 PROVE  PastInv'
    OBVIOUS
  <1>2. PastTyped
    BY <1>1 DEF PastInv
  <1> DEFINE E == EndOf(node, at)
             F == EndOf(node, at + 1)
             M == Len(Next1)
             T == Len(told)
  <1>3. at < TopOf(node) /\ at' = at + 1 /\ node' = node /\ made' = made /\ forks' = forks
    BY <1>1, <1>2, ForwardFacts
  <1>4. PICK p, account, history : ForwardedBy(p, account, history)
    BY <1>1, <1>2, ForwardFacts
  <1>5. /\ Reached(tracker, Next1, M, p) /\ tracker' = p.tracker
        /\ \A i \in 1..M : Answered(E + i, p.froms[i], account, history)
        /\ told' \in Seq(Events) /\ Len(told') = T + M
        /\ \A i \in 1..T : told'[i] = told[i]
        /\ \A i \in 1..M : told'[T + i] = News(E + i, p.froms[i], account, history)
    BY <1>4 DEF ForwardedBy
  <1>6. /\ GoodChain(node) /\ at \in Nat /\ at + 1 \in 0..TopOf(node) /\ Len(node) \in Nat
        /\ E \in Nat /\ M \in Nat /\ E + M = F /\ F \in 0..Len(node)
        /\ UptoOf(node, at) = 1..E /\ UptoOf(node, at + 1) = 1..F
        /\ \A i \in 1..M : Next1[i] = node[E + i] /\ E + i \in 1..Len(node)
    BY <1>2, <1>3, BlockFacts
  <1>7. ASSUME NEW i \in 1..M
        PROVE  /\ told'[T + i].tx = node[E + i].tx /\ told'[T + i].what = node[E + i].what
               /\ told'[T + i].key = node[E + i].key /\ told'[T + i].to = node[E + i].to
    <2>1. Answered(E + i, p.froms[i], account, history) /\ told'[T + i] = News(E + i, p.froms[i], account, history)
      BY <1>5
    <2>2. Reached(tracker, Next1, M, p)
      BY <1>5
    <2>3. QED
      BY <1>2, <1>3, <2>1, <2>2, NewsFacts
  <1>8. T \in Nat /\ told' \in Seq(Events) /\ Len(told') = T + M /\ \A i \in 1..T : told'[i] = told[i]
    <2>1. told \in Seq(Events)
      BY <1>2 DEF PastTyped
    <2>2. QED
      BY <1>5, <2>1, EventsFacts
  <1>9. tracker' \in Trackers
    BY <1>5 DEF Reached, SwapStates
  <1>10. PastTyped'
    <2>1. TopOf(node) \in Nat /\ MaxAhead \in Nat
      BY <1>6, ChainFacts, CertHistoryAssumption
    <2>2. TopOf(node) <= at + 1 + MaxAhead
      BY <1>2, <1>6, <2>1 DEF PastTyped
    <2>3. QED
      BY <1>2, <1>3, <1>6, <1>8, <1>9, <2>2 DEF PastTyped
  <1> HIDE DEF M, T, E, F
  <1>11. MemoryIsRight'
    <2>1. SUFFICES ASSUME NEW key \in Keys, NEW w \in Delegating, <<key, w>> \notin forks.taken
                   PROVE  /\ Known(tracker', key)[w] \in {NoValue, LastTo(node, F, w, key, NoValue)}
                          /\ LastTo(told', T + M, w, key, NoValue) \in {NoValue, LastTo(node, F, w, key, NoValue)}
      <3>1. \A key \in Keys : \A w \in Delegating :
               Now(w, key)' = LastTo(node, F, w, key, NoValue) /\ LastTold(w, key)' = LastTo(told', T + M, w, key, NoValue)
        BY <1>3, <1>8 DEF Now, LastTold, F
      <3>2. QED
        BY <1>3, <3>1 DEF MemoryIsRight
    <2> DEFINE x == Known(tracker, key)[w]
               y == LastTo(told, T, w, key, NoValue)
               was == LastTo(node, E, w, key, NoValue)
               is == LastTo(node, F, w, key, NoValue)
    <2>2. x \in {NoValue, was} /\ y \in {NoValue, was}
      BY <1>1, <2>1 DEF PastInv, MemoryIsRight, Now, LastTold, E, T
    <2>3. w \in What /\ NoValue \in MaybeValue
      BY DEF What, Delegating, MaybeValue
    <2>4. \A i \in 1..F : node[i].to \in MaybeValue
      <3>1. \A i \in 1..F : i \in 1..Len(node)
        BY <1>6
      <3>2. QED
        BY <1>6, <3>1, NowFacts
    <2>5. was \in MaybeValue
      <3>1. \A i \in 1..E : i \in 1..F
        BY <1>6
      <3>2. \A i \in 1..E : node[i].to \in MaybeValue
        BY <2>4, <3>1
      <3>3. QED
        BY <1>6, <2>3, <3>2, LastToType
    <2>6. x \in MaybeValue /\ y \in MaybeValue
      BY <2>2, <2>3, <2>5
    <2>7. ASSUME NEW z \in MaybeValue, z \in {NoValue, was}
          PROVE  LastTo(Next1, M, w, key, z) \in {NoValue, is}
      <3>1. /\ \A i \in 1..(E + M) : node[i].to \in MaybeValue
            /\ \A i \in 1..M : Next1[i].what = node[E + i].what /\ Next1[i].key = node[E + i].key /\ Next1[i].to = node[E + i].to
        BY <1>6, <2>4
      <3>2. E \in Nat /\ M \in Nat /\ M \in 0..M
        BY <1>6
      <3>3. \A i \in 0..M :
             /\ z = LastTo(node, E, w, key, NoValue) => LastTo(Next1, i, w, key, z) = LastTo(node, E + i, w, key, NoValue)
             /\ LastTo(Next1, i, w, key, z) \in {z, LastTo(node, E + i, w, key, NoValue)}
        BY ONLY <2>3, <3>1, <3>2, key \in Keys, z \in MaybeValue, LastToAfter
      <3>4. /\ z = was => LastTo(Next1, M, w, key, z) = is
            /\ LastTo(Next1, M, w, key, z) \in {z, is}
        BY <1>6, <3>2, <3>3
      <3> HIDE DEF was, is
      <3>5. QED
        BY <2>7, <3>4
    <2>8. Known(tracker', key)[w] \in {NoValue, is}
      <3>1. Known(p.tracker, key)[w] \in {NoValue, LastTo(Next1, M, w, key, x)}
        BY <1>5 DEF Reached, M
      <3>2. LastTo(Next1, M, w, key, x) \in {NoValue, is}
        BY <2>2, <2>6, <2>7
      <3>3. QED
        BY <1>5, <3>1, <3>2
    <2>9. LastTo(told', T + M, w, key, NoValue) = LastTo(Next1, M, w, key, y)
      <3>1. \A i \in 1..(T + M) : told'[i].to \in MaybeValue
        <4>1. QED
          BY <1>8, EventsFacts
      <3>2. \A i \in 1..M : Next1[i].what = told'[T + i].what /\ Next1[i].key = told'[T + i].key /\ Next1[i].to = told'[T + i].to
        BY <1>6, <1>7
      <3>3. T \in Nat /\ M \in Nat /\ M \in 0..M
        BY <1>6, <1>8
      <3> DEFINE new == told'
      <3>4. /\ \A i \in 1..(T + M) : new[i].to \in MaybeValue
            /\ \A i \in 1..M : Next1[i].what = new[T + i].what /\ Next1[i].key = new[T + i].key /\ Next1[i].to = new[T + i].to
        BY <3>1, <3>2
      <3>5. LastTo(new, T, w, key, NoValue) = y
        <4>1. \A i \in 1..T : told[i].to \in MaybeValue
          BY <1>8, <1>2, EventsFacts DEF PastTyped, T
        <4>2. \A i \in 1..T : new[i].what = told[i].what /\ new[i].key = told[i].key /\ new[i].to = told[i].to
          BY <1>8
        <4>3. Agree(new, told, T)
          BY <4>1, <4>2 DEF Agree
        <4> HIDE DEF new
        <4>4. QED
          BY <2>3, <3>3, <4>3, LastToAgrees
      <3> HIDE DEF new
      <3>6. \A i \in 0..M :
             /\ y = LastTo(new, T, w, key, NoValue) => LastTo(Next1, i, w, key, y) = LastTo(new, T + i, w, key, NoValue)
             /\ LastTo(Next1, i, w, key, y) \in {y, LastTo(new, T + i, w, key, NoValue)}
        BY ONLY <2>3, <2>6, <3>3, <3>4, key \in Keys, LastToAfter
      <3>7. LastTo(new, T + M, w, key, NoValue) = LastTo(Next1, M, w, key, y)
        BY <3>3, <3>5, <3>6
      <3>8. QED
        BY <3>7 DEF new
    <2>10. LastTo(Next1, M, w, key, y) \in {NoValue, is}
      BY <2>2, <2>6, <2>7
    <2>11. QED
      BY <2>8, <2>9, <2>10
  <1>12. EverythingTold'
    <2>1. ASSUME NEW k \in 1..F
          PROVE  \E j \in 1..(T + M) : told'[j].tx = node[k].tx /\ told'[j].what = node[k].what /\ told'[j].key = node[k].key
      <3>1. CASE k \in 1..E
        <4>1. PICK j \in 1..T : told[j].tx = node[k].tx /\ told[j].what = node[k].what /\ told[j].key = node[k].key
          BY <1>1, <1>6, <3>1 DEF PastInv, EverythingTold, T
        <4>2. j \in 1..(T + M)
          BY <1>6, <1>8
        <4>3. told'[j] = told[j]
          BY <1>8
        <4>4. QED
          BY <4>1, <4>2, <4>3
      <3>2. CASE k \notin 1..E
        <4> DEFINE i == k - E
        <4>1. i \in 1..M /\ E + i = k
          BY <1>6, <3>2
        <4> HIDE DEF i
        <4>2. T + i \in 1..(T + M)
          BY <1>6, <1>8, <4>1
        <4>3. told'[T + i].tx = node[k].tx /\ told'[T + i].what = node[k].what /\ told'[T + i].key = node[k].key
          BY <1>7, <4>1
        <4>4. QED
          BY <4>2, <4>3
      <3>3. QED
        BY <3>1, <3>2
    <2>2. UptoOf(node', at') = 1..F
      BY <1>3, <1>6
    <2>3. QED
      BY <1>3, <1>8, <2>1, <2>2 DEF EverythingTold
  <1>13. QED
    BY <1>10, <1>11, <1>12 DEF PastInv

(* The chain as the node may have it, what the tracker and the events file *)
(* know of every key no rollback touched, and an event for every           *)
(* certificate in the blocks handled: kept by handle_forward,              *)
(* handle_rollback, seed_from_events and the node.                         *)
THEOREM PastInvariant == HistorySpec => []PastInv
  <1>1. PastInv /\ [HistoryNext]_historyVars => PastInv'
    <2>1. SUFFICES ASSUME PastInv, [HistoryNext]_historyVars
                   PROVE  PastInv'
      OBVIOUS
    <2>2. CASE Adopt
      BY <2>1, <2>2, AdoptKeeps
    <2>3. CASE Forward
      BY <2>1, <2>3, ForwardKeeps
    <2>4. CASE RollBack
      BY <2>1, <2>4, RollBackKeeps
    <2>5. CASE Restart
      BY <2>1, <2>5, RestartKeeps
    <2>6. CASE UNCHANGED historyVars
      <3>1. node' = node /\ at' = at /\ made' = made /\ tracker' = tracker /\ told' = told /\ forks' = forks
        BY <2>6 DEF historyVars
      <3>2. PastTyped' /\ MemoryIsRight' /\ EverythingTold'
        BY <2>1, <3>1 DEF PastInv, PastTyped, MemoryIsRight, EverythingTold, Now, LastTold
      <3>3. QED
        BY <3>2 DEF PastInv
    <2>7. QED
      BY <2>1, <2>2, <2>3, <2>4, <2>5, <2>6 DEF HistoryNext
  <1>2. QED
    BY <1>1, PastInitially, PTL DEF HistorySpec

(* Whatever the tracker held and the backend answered, dropping no-op      *)
(* redelegations (is_noop_redelegation, deleg.rs) never drops a            *)
(* certificate that changes its key: each one handled has its event.  In   *)
(* fact none is dropped at all, as ForwardFacts says: every `from` the     *)
(* code fills in was already compared with the target.                     *)
THEOREM ChangesAlwaysTold == HistorySpec => []ChangeIsTold
  <1>1. PastInv => ChangeIsTold
    <2>1. SUFFICES ASSUME PastInv
                   PROVE  ChangeIsTold
      OBVIOUS
    <2>2. GoodChain(node) /\ at \in Nat /\ told \in Seq(Events)
      <3>1. GoodChain(node) /\ at \in 0..TopOf(node) /\ told \in Seq(Events)
        BY <2>1 DEF PastInv, PastTyped
      <3>2. QED
        BY <3>1, ChainFacts
    <2>3. Upto(at) = UptoOf(node, at)
      BY <2>2, NowFacts
    <2>4. DOMAIN told = 1..Len(told)
      BY <2>2, EventsFacts
    <2>5. EverythingTold
      BY <2>1 DEF PastInv
    <2>6. QED
      BY <2>3, <2>4, <2>5 DEF EverythingTold, ChangeIsTold
  <1>2. QED
    BY <1>1, PastInvariant, PTL

(* Of the certificates before an event's, a view that is not stale lacks   *)
(* none, and of the later ones it has none.                                *)
RowsBefore(view, k, ev) ==
    \A w \in {ev.what, "end"} : About(node, view, w, ev.key) \ {k} = About(node, 1..(k - 1), w, ev.key)

LEMMA FreshRows ==
    ASSUME PastTyped, NEW view, view \subseteq 1..Len(node), NEW k \in 1..Len(node),
           NEW ev, ev.note.place = k, ~Stale(view, ev)
    PROVE  RowsBefore(view, k, ev)
  <1> SUFFICES ASSUME NEW w \in {ev.what, "end"}
               PROVE  About(node, view, w, ev.key) \ {k} = About(node, 1..(k - 1), w, ev.key)
    BY DEF RowsBefore
  <1> DEFINE certs == {m \in DOMAIN node : node[m].key = ev.key /\ node[m].what \in {ev.what, "end"}}
  <1>1. Len(node) \in Nat /\ DOMAIN node = 1..Len(node)
    <2>1. GoodChain(node)
      BY DEF PastTyped
    <2>2. QED
      BY <2>1, ChainFacts
  <1>2. (view \cap certs) \ {k} = certs \cap 1..(k - 1)
    BY DEF Stale
  <1>3. 1..(k - 1) \subseteq 1..Len(node)
    BY <1>1
  <1>4. \A m \in 1..Len(node) : node[m].key = ev.key /\ node[m].what = w => m \in certs
    BY <1>1
  <1> HIDE DEF certs
  <1>5. \A m \in 1..Len(node) :
           node[m].key = ev.key /\ node[m].what = w => (m \in view \ {k} <=> m \in 1..(k - 1))
    BY <1>2, <1>4
  <1>6. QED
    BY <1>3, <1>5 DEF About

(* What the newest rows of other transactions tell of the one before k. *)
OtherRows(k, A, P, count, H) ==
    /\ k \in 1..Len(node) /\ A \subseteq 1..Len(node) /\ \A m \in A : m < k
    /\ P \in {A, A \cup {k}} /\ count \in {2, 5}
    /\ H \subseteq {m \in Newest(count, P) : node[m].tx # node[k].tx} /\ LatestOf(node, H) # NoValue

TellTheLast(k, A, P, count, H) ==
    /\ LatestOf(node, A) = node[Max(A)].to /\ node[Max(A)].to # NoValue
    /\ Max(A) \in A /\ Max(A) \in Newest(count, P)
    /\ Max(A) \in H => LatestOf(node, H) = node[Max(A)].to
    /\ count = 2 /\ k \in P => Max(A) \in H

LEMMA NewestSays ==
    ASSUME PastTyped, NEW k, NEW A, NEW P, NEW count, NEW H, OtherRows(k, A, P, count, H)
    PROVE  TellTheLast(k, A, P, count, H)
  <1>0. /\ k \in 1..Len(node) /\ A \subseteq 1..Len(node) /\ \A m \in A : m < k
        /\ P \in {A, A \cup {k}} /\ count \in {2, 5}
        /\ H \subseteq {m \in Newest(count, P) : node[m].tx # node[k].tx} /\ LatestOf(node, H) # NoValue
    BY DEF OtherRows
  <1> USE <1>0
  <1> DEFINE M == Max(A)
  <1>1. GoodChain(node) /\ Len(node) \in Nat /\ k \in Nat
    <2>1. GoodChain(node)
      BY DEF PastTyped
    <2>2. QED
      BY <2>1, ChainFacts
  <1>2. H # {} /\ H \subseteq P /\ k \notin H
    BY DEF LatestOf, Newest
  <1>3. A # {} /\ H \subseteq A
    BY <1>2
  <1>4. /\ M \in A /\ \A m \in A : m <= M
        /\ LatestOf(node, A) = node[M].to /\ node[M].to # NoValue
    BY ONLY <1>1, <1>3, A \subseteq 1..Len(node), LatestFacts
  <1> HIDE DEF M
  <1>5. M \in Nat /\ M < k /\ \A m \in A : m \in Nat /\ m <= M
    BY <1>1, <1>4
  <1>6. M \in Newest(count, P)
    <2>1. {x \in P : x > M} \in {{}, {k}}
      <3>1. \A m \in A : ~(m > M)
        BY <1>5
      <3>2. QED
        BY <3>1
    <2>2. Cardinality({}) = 0 /\ Cardinality({k}) = 1
      BY FS_EmptySet, FS_Singleton
    <2> DEFINE n == Cardinality({x \in P : x > M})
    <2>3. n = 0 \/ n = 1
      BY <2>1, <2>2
    <2> HIDE DEF n
    <2>4. n < count
      BY <2>3
    <2>5. M \in P
      BY <1>4
    <2>6. QED
      BY <2>4, <2>5 DEF Newest, n
  <1>7. M \in H => LatestOf(node, H) = node[M].to
    <2>1. H \subseteq 1..Len(node) /\ \A m \in H : m <= M
      BY <1>3, <1>4
    <2>2. \A m \in H : (\A x \in H : x <= m) => LatestOf(node, H) = node[m].to
      BY ONLY <1>1, <2>1, LatestFacts
    <2>3. QED
      BY <2>1, <2>2
  <1>8. ASSUME count = 2, k \in P
        PROVE  M \in H
    <2>1. PICK m \in H : TRUE
      BY <1>2
    <2>2. SUFFICES ASSUME m # M
                   PROVE  FALSE
      BY <2>1
    <2>3. m \in A /\ m \in Newest(count, P)
      BY <1>3, <2>1
    <2>4. m \in Nat /\ m < M /\ m < k
      BY <1>5, <2>2, <2>3
    <2> DEFINE R == {x \in P : x > m}
    <2>5. R \subseteq 1..Len(node) /\ {M, k} \subseteq R
      BY <1>1, <1>4, <1>5, <1>8, <2>4
    <2>6. Cardinality(R) < 2
      BY <1>8, <2>3 DEF Newest
    <2> HIDE DEF R
    <2>7. IsFiniteSet(R)
      <3>1. IsFiniteSet(1..Len(node))
        BY <1>1, FS_Interval
      <3>2. QED
        BY <2>5, <3>1, FS_Subset
    <2>8. Cardinality({M, k}) = 2
      <3> DEFINE S == {M}
      <3>1. IsFiniteSet(S) /\ Cardinality(S) = 1
        BY FS_Singleton, Zenon
      <3>2. k \notin S
        BY <1>5
      <3>3. {M, k} = S \cup {k}
        OBVIOUS
      <3> HIDE DEF S
      <3>4. Cardinality(S \cup {k}) = Cardinality(S) + 1
        BY ONLY <3>1, <3>2, FS_AddElement
      <3>5. Cardinality({M, k}) = Cardinality(S) + 1
        BY ONLY <3>3, <3>4, Zenon
      <3>6. QED
        BY ONLY <3>1, <3>5
    <2>9. Cardinality({M, k}) <= Cardinality(R) /\ Cardinality(R) \in Nat
      BY <2>5, <2>7, FS_Subset, FS_CardinalityType
    <2>10. QED
      BY <2>6, <2>8, <2>9
  <1>9. QED
    BY <1>4, <1>6, <1>7, <1>8 DEF M, TellTheLast

(* A view holds whole transactions. *)
LEMMA ViewIsWhole ==
    ASSUME PastTyped, NEW view \in Views, NEW k \in 1..Len(node), NEW m \in view, node[m].tx = node[k].tx
    PROVE  k \in view
  <1>1. GoodChain(node) /\ DOMAIN node = 1..Len(node)
    <2>1. GoodChain(node)
      BY DEF PastTyped
    <2>2. QED
      BY <2>1, ChainFacts
  <1>2. m \in 1..Len(node)
    BY ViewFacts
  <1>3. node[m].block = node[k].block
    BY <1>1, <1>2 DEF GoodChain
  <1>4. PICK n : view = Upto(n)
    BY DEF Views
  <1>5. QED
    BY <1>1, <1>2, <1>3, <1>4 DEF Upto

(* What the tracker found is what the key had. *)
LEMMA TrackerRight ==
    ASSUME PastInv, at < TopOf(node), NEW p, Reached(tracker, Next1, Len(Next1), p),
           NEW i \in 1..Len(Next1), p.froms[i] # NoValue,
           NEW k, k = EndOf(node, at) + i, <<node[k].key, node[k].what>> \notin forks.taken
    PROVE  /\ p.froms[i] = LastTo(node, k - 1, node[k].what, node[k].key, NoValue)
           /\ node[k].what \in Delegating
  <1> DEFINE E == EndOf(node, at)
             M == Len(Next1)
             w == node[k].what
             key == node[k].key
             f == p.froms[i]
             x == Known(tracker, key)[w]
             j == i - 1
  <1>1. PastTyped
    BY DEF PastInv
  <1>2. /\ GoodChain(node) /\ at \in Nat /\ Len(node) \in Nat /\ E \in Nat /\ M \in Nat
        /\ E + M = EndOf(node, at + 1) /\ EndOf(node, at + 1) \in 0..Len(node)
        /\ \A n \in 1..M : Next1[n] = node[E + n] /\ E + n \in 1..Len(node)
    BY <1>1, BlockFacts
  <1>3. k \in 1..Len(node) /\ Next1[i] = node[k]
    BY <1>2
  <1>4. FromOk(tracker, Next1, i, f)
    BY DEF Reached
  <1>5. w \in Delegating /\ f = LastTo(Next1, i - 1, w, key, x) /\ f \in MaybeValue
    BY <1>3, <1>4 DEF FromOk
  <1>6. w \in What /\ key \in Keys /\ NoValue \in MaybeValue
    <2>1. node[k] \in Assigned
      BY <1>2, <1>3, ChainFacts
    <2>2. QED
      BY <2>1 DEF Assigned, MaybeValue
  <1>7. tracker \in Trackers
    BY <1>1 DEF PastTyped
  <1>8. x \in MaybeValue
    <2> HIDE DEF w, key
    <2>1. QED
      BY <1>5, <1>6, <1>7, KnownFacts
  <1>9. x \in {NoValue, LastTo(node, E, w, key, NoValue)}
    <2>1. MemoryIsRight /\ <<key, w>> \notin forks.taken
      BY DEF PastInv
    <2> HIDE DEF w, key
    <2>2. QED
      BY <1>5, <1>6, <2>1 DEF MemoryIsRight, Now
  <1> HIDE DEF M, E, w, key, x, f
  <1>10. \A n \in 1..(E + M) : node[n].to \in MaybeValue
    <2>1. \A n \in 1..(E + M) : n \in 1..Len(node)
      BY <1>2 DEF E, M
    <2>2. QED
      BY <1>2, <2>1, NowFacts
  <1>11. \A n \in 1..M : Next1[n].what = node[E + n].what /\ Next1[n].key = node[E + n].key /\ Next1[n].to = node[E + n].to
    BY <1>2
  <1>12. E \in Nat /\ M \in Nat /\ j \in 0..M /\ E + j = k - 1
    BY <1>2 DEF M, E
  <1>13. \A n \in 0..M :
           /\ x = LastTo(node, E, w, key, NoValue) => LastTo(Next1, n, w, key, x) = LastTo(node, E + n, w, key, NoValue)
           /\ LastTo(Next1, n, w, key, x) \in {x, LastTo(node, E + n, w, key, NoValue)}
    BY ONLY <1>6, <1>8, <1>10, <1>11, <1>12, LastToAfter
  <1> DEFINE was == LastTo(node, E + j, w, key, NoValue)
             found == LastTo(Next1, j, w, key, x)
  <1>14. (x = LastTo(node, E, w, key, NoValue) => found = was) /\ found \in {x, was}
    BY <1>12, <1>13
  <1>15. f = found /\ f # NoValue
    BY <1>5 DEF f
  <1> HIDE DEF was, found
  <1>16. f = was
    BY <1>9, <1>14, <1>15
  <1>17. w \in Delegating
    BY <1>5
  <1>18. QED
    BY <1>12, <1>16, <1>17 DEF was, f, w, key

(* What the backend answers of the event at place k, where the view is not *)
(* stale.  tgt is what the key had, last its last certificate of the kind. *)
Asking(view, k, ev) ==
    /\ view \in Views /\ k \in 1..Len(node) /\ ~Stale(view, ev) /\ ev.note.place = k
    /\ ev.tx = node[k].tx /\ ev.what = node[k].what /\ ev.key = node[k].key /\ ev.to = node[k].to

LEMMA AccountRight ==
    ASSUME PastTyped, NEW view, NEW k, NEW ev, Asking(view, k, ev), ev.what \in Delegating,
           Account(view, ev) # NoValue, ~Same(Account(view, ev), ev.to)
    PROVE  LET tgt == Target(1..(k - 1), node[k].what, node[k].key)
           IN  tgt # NoValue /\ Same(Account(view, ev), tgt)
  <1> DEFINE W == ev.what
             K == ev.key
             A == About(node, 1..(k - 1), W, K)
             P == About(node, view, W, K)
             EA == About(node, 1..(k - 1), "end", K)
             EP == About(node, view, "end", K)
             L == Target(view, W, K)
             tgt == Target(1..(k - 1), W, K)
  <1>1. /\ view \in Views /\ k \in 1..Len(node) /\ W = node[k].what /\ K = node[k].key /\ ev.to = node[k].to
        /\ ev.note.place = k /\ ~Stale(view, ev)
    BY DEF Asking
  <1>2. GoodChain(node) /\ Len(node) \in Nat
    <2>1. GoodChain(node)
      BY DEF PastTyped
    <2>2. QED
      BY <2>1, ChainFacts
  <1>3. view \subseteq 1..Len(node)
    BY <1>1, ViewFacts
  <1>4. W \in {ev.what, "end"} /\ "end" \in {ev.what, "end"} /\ W # "end"
    BY DEF Delegating
  <1>5. P \ {k} = A /\ EP \ {k} = EA
    <2>1. RowsBefore(view, k, ev)
      BY <1>1, <1>3, FreshRows
    <2>2. QED
      BY <1>4, <2>1 DEF RowsBefore
  <1>6. k \notin EP
    BY <1>1, <1>4 DEF About
  <1>7. L # NoValue /\ Meaning[Account(view, ev)] = Meaning[L]
    BY <1>3, AnswerSays
  <1>8. /\ L = IF \E e \in EP : \A m \in P : m < e THEN NoValue ELSE LatestOf(node, P)
        /\ tgt = IF \E e \in EA : \A m \in A : m < e THEN NoValue ELSE LatestOf(node, A)
    BY DEF Target, Latest, LatestOf
  <1>9. P \subseteq 1..Len(node) /\ A \subseteq 1..Len(node) /\ \A m \in A : m < k
    <2>1. \A m \in 1..(k - 1) : m < k /\ m \in 1..Len(node)
      BY <1>1, <1>2
    <2>2. QED
      BY <1>3, <2>1 DEF About
  <1> HIDE DEF L, tgt, A, P, EA, EP
  <1>10. CASE k \in P
    <2>1. \A m \in P : m <= k
      BY <1>1, <1>2, <1>5, <1>9
    <2>2. LatestOf(node, P) = node[k].to
      BY ONLY <1>2, <1>9, <1>10, <2>1, LatestFacts
    <2>3. L = ev.to
      BY <1>1, <1>7, <1>8, <2>2
    <2>4. QED
      BY <1>7, <2>3 DEF Same
  <1>11. CASE k \notin P
    <2>1. P = A /\ EP = EA
      BY <1>5, <1>6, <1>11
    <2>2. L = tgt
      BY <1>8, <2>1
    <2>3. QED
      BY <1>1, <1>7, <2>2 DEF Same, tgt
  <1>12. QED
    BY <1>10, <1>11

LEMMA HistoryRight ==
    ASSUME PastTyped, NEW view, NEW k, NEW ev, Asking(view, k, ev), ev.what = "pool",
           PreviousPoolFromHistory(view, ev) # NoValue,
           ~(\E m \in About(node, DOMAIN node, node[k].what, node[k].key) : m # k /\ node[m].tx = node[k].tx)
    PROVE  LET last == LastTo(node, k - 1, node[k].what, node[k].key, NoValue)
           IN  last # NoValue /\ (PreviousPoolFromHistory(view, ev) = last \/ last = ev.to)
  <1> DEFINE W == node[k].what
             K == node[k].key
             A == About(node, 1..(k - 1), W, K)
             P == About(node, view, W, K)
             H == {m \in Newest(5, P) : node[m].tx # ev.tx /\ node[m].to # ev.to}
  <1>1. /\ view \in Views /\ k \in 1..Len(node) /\ ev.what = W /\ ev.key = K /\ ev.to = node[k].to
        /\ ev.tx = node[k].tx /\ ev.note.place = k /\ ~Stale(view, ev)
    BY DEF Asking
  <1>2. GoodChain(node) /\ Len(node) \in Nat /\ DOMAIN node = 1..Len(node)
    <2>1. GoodChain(node)
      BY DEF PastTyped
    <2>2. QED
      BY <2>1, ChainFacts
  <1>3. view \subseteq 1..Len(node)
    BY <1>1, ViewFacts
  <1>4. P \ {k} = A
    <2>1. RowsBefore(view, k, ev)
      BY <1>1, <1>3, FreshRows
    <2>2. QED
      BY <1>1, <2>1 DEF RowsBefore
  <1>5. PreviousPoolFromHistory(view, ev) = LatestOf(node, H) /\ LatestOf(node, H) # NoValue
    <2> DEFINE R == {m \in Newest(5, About(node, view, "pool", ev.key)) : node[m].tx # ev.tx /\ node[m].to # ev.to}
    <2>1. PreviousPoolFromHistory(view, ev) = LatestOf(node, R)
      BY <1>3, AnswerSays
    <2>2. R = H
      BY <1>1
    <2> HIDE DEF R, H
    <2>3. QED
      BY <2>1, <2>2
  <1>6. A \subseteq 1..Len(node) /\ \A m \in A : m < k /\ node[m].tx # node[k].tx
    <2>1. \A m \in 1..(k - 1) : m < k /\ m # k /\ m \in 1..Len(node)
      BY <1>1, <1>2
    <2>2. QED
      BY <1>2, <2>1 DEF About
  <1>7. LastTo(node, k - 1, W, K, NoValue) = LatestOf(node, A)
    BY DEF LastTo, LatestOf
  <1>8. P \in {A, A \cup {k}}
    BY <1>4
  <1>9. H \subseteq {m \in Newest(5, P) : node[m].tx # node[k].tx}
    BY <1>1
  <1>10. \A m : m \in H <=> m \in Newest(5, P) /\ node[m].tx # node[k].tx /\ node[m].to # ev.to
    BY <1>1 DEF Newest
  <1> HIDE DEF A, P, H, W, K
  <1>11. /\ LatestOf(node, A) = node[Max(A)].to /\ node[Max(A)].to # NoValue
         /\ Max(A) \in A /\ Max(A) \in Newest(5, P)
         /\ Max(A) \in H => LatestOf(node, H) = node[Max(A)].to
    <2> DEFINE count == 5
    <2>1. OtherRows(k, A, P, count, H)
      BY <1>1, <1>5, <1>6, <1>8, <1>9 DEF OtherRows
    <2> HIDE DEF count
    <2>2. TellTheLast(k, A, P, count, H)
      BY <2>1, NewestSays
    <2>3. QED
      BY <2>2 DEF TellTheLast, count
  <1>12. Max(A) \in H \/ node[Max(A)].to = ev.to
    BY <1>6, <1>10, <1>11
  <1>13. QED
    BY <1>5, <1>7, <1>11, <1>12 DEF W, K

LEMMA RegistryRight ==
    ASSUME PastTyped, NEW view, NEW k, NEW ev, Asking(view, k, ev), ev.what = "reg",
           FetchPrevious(view, ev) # NoValue
    PROVE  LET last == LastTo(node, k - 1, node[k].what, node[k].key, NoValue)
           IN  last # NoValue /\ Same(FetchPrevious(view, ev), last)
  <1> DEFINE W == node[k].what
             K == node[k].key
             A == About(node, 1..(k - 1), W, K)
             P == About(node, view, W, K)
             Q == {m \in Newest(2, P) : node[m].tx # ev.tx}
  <1>1. /\ view \in Views /\ k \in 1..Len(node) /\ ev.what = W /\ ev.key = K
        /\ ev.tx = node[k].tx /\ ev.note.place = k /\ ~Stale(view, ev)
    BY DEF Asking
  <1>2. GoodChain(node) /\ Len(node) \in Nat
    <2>1. GoodChain(node)
      BY DEF PastTyped
    <2>2. QED
      BY <2>1, ChainFacts
  <1>3. view \subseteq 1..Len(node)
    BY <1>1, ViewFacts
  <1>4. P \ {k} = A
    <2>1. RowsBefore(view, k, ev)
      BY <1>1, <1>3, FreshRows
    <2>2. QED
      BY <1>1, <2>1 DEF RowsBefore
  <1>5. LatestOf(node, Q) # NoValue /\ Meaning[FetchPrevious(view, ev)] = Meaning[LatestOf(node, Q)]
    <2> DEFINE R == {m \in Newest(2, About(node, view, "reg", ev.key)) : node[m].tx # ev.tx}
    <2>1. LatestOf(node, R) # NoValue /\ Meaning[FetchPrevious(view, ev)] = Meaning[LatestOf(node, R)]
      BY <1>3, AnswerSays
    <2>2. R = Q
      BY <1>1
    <2> HIDE DEF R, Q
    <2>3. QED
      BY <2>1, <2>2
  <1>6. A \subseteq 1..Len(node) /\ \A m \in A : m < k
    <2>1. \A m \in 1..(k - 1) : m < k /\ m \in 1..Len(node)
      BY <1>1, <1>2
    <2>2. QED
      BY <2>1 DEF About
  <1>7. LastTo(node, k - 1, W, K, NoValue) = LatestOf(node, A)
    BY DEF LastTo, LatestOf
  <1>8. P \in {A, A \cup {k}} /\ P \subseteq view /\ (k \in view => k \in P)
    BY <1>1, <1>4 DEF About
  <1>9. \A m : m \in Q <=> m \in Newest(2, P) /\ node[m].tx # node[k].tx
    BY <1>1
  <1> HIDE DEF A, P, Q, W, K
  <1>10. Q \subseteq {m \in Newest(2, P) : node[m].tx # node[k].tx}
    BY <1>9
  <1>11. /\ LatestOf(node, A) = node[Max(A)].to /\ node[Max(A)].to # NoValue
         /\ Max(A) \in A /\ Max(A) \in Newest(2, P)
         /\ Max(A) \in Q => LatestOf(node, Q) = node[Max(A)].to
         /\ k \in P => Max(A) \in Q
    <2> DEFINE count == 2
    <2>1. OtherRows(k, A, P, count, Q)
      BY <1>1, <1>5, <1>6, <1>8, <1>10 DEF OtherRows
    <2> HIDE DEF count
    <2>2. TellTheLast(k, A, P, count, Q)
      BY <2>1, NewestSays
    <2>3. QED
      BY <2>2 DEF TellTheLast, count
  <1>12. Max(A) \in Q
    <2>1. CASE k \in P
      BY <1>11, <2>1
    <2>2. CASE k \notin P
      <3>1. k \notin view /\ Max(A) \in view
        BY <1>8, <1>11, <2>2
      <3>2. node[Max(A)].tx # node[k].tx
        <4> DEFINE m == Max(A)
        <4>1. m \in view
          BY <3>1
        <4> HIDE DEF m
        <4>2. node[m].tx # node[k].tx
          BY <1>1, <3>1, <4>1, ViewIsWhole
        <4>3. QED
          BY <4>2 DEF m
      <3>3. QED
        BY <1>9, <1>11, <3>2
    <2>3. QED
      BY <2>1, <2>2
  <1>13. QED
    BY <1>5, <1>7, <1>11, <1>12 DEF Same, W, K

(* One event's from. *)
EventRight(ev) ==
    /\ (ev.changed /\ ~ev.stale) =>
         ev.note.was # NoValue /\ ~Same(ev.to, ev.note.was)
    /\ ev.from # NoValue =>
      \/ ev.note.was # NoValue /\ Same(ev.from, ev.note.was)
      \/ ev.stale
      \/ ev.by \in {"tracker", "history"} /\ ev.note.ended
      \/ ev.by = "tracker" /\ ev.note.taken
      \/ ev.by = "history" /\ ev.note.again
      \/ ev.by = "history" /\ ev.note.was # NoValue /\ Same(ev.to, ev.note.was)

LEMMA NewsRight ==
    ASSUME PastInv, at < TopOf(node),
           NEW p, Reached(tracker, Next1, Len(Next1), p),
           NEW i \in 1..Len(Next1), NEW account, NEW history,
           Answered(EndOf(node, at) + i, p.froms[i], account, history)
    PROVE  EventRight(News(EndOf(node, at) + i, p.froms[i], account, history))
  <1> DEFINE E == EndOf(node, at)
             k == E + i
             f == p.froms[i]
             q == Parsed(k, f)
             W == node[k].what
             K == node[k].key
             to == node[k].to
             last == LastTo(node, k - 1, W, K, NoValue)
             tgt == Target(1..(k - 1), W, K)
  <1>1. PastTyped
    BY DEF PastInv
  <1>2. k \in 1..Len(node) /\ Next1[i] = node[k]
    BY <1>1, BlockFacts
  <1>3. FromOk(tracker, Next1, i, f)
    BY DEF Reached
  <1>4. f \in MaybeValue /\ (f # NoValue => W \in Delegating /\ ~Same(f, to))
    BY <1>2, <1>3 DEF FromOk
  <1>5. f # NoValue /\ <<K, W>> \notin forks.taken => f = last
    <2>1. SUFFICES ASSUME f # NoValue, <<K, W>> \notin forks.taken
                   PROVE  f = last
      OBVIOUS
    <2>2. k = EndOf(node, at) + i
      OBVIOUS
    <2> HIDE DEF k
    <2>3. QED
      BY <1>1, <2>1, <2>2, TrackerRight
  <1> HIDE DEF k, f
  <1>6. /\ q \in Events /\ q.tx = node[k].tx /\ q.what = W /\ q.key = K /\ q.to = to
        /\ q.from = f /\ (f # NoValue => q.by = "tracker") /\ q.changed = FALSE /\ q.stale = FALSE
        /\ Noted(q, k) /\ SpeltOnce(q)
    BY ONLY <1>1, <1>2, <1>4, ParsedFacts
  <1>7. /\ q.note.place = k /\ q.note.was = tgt /\ (tgt = last \/ q.note.ended)
        /\ W \notin Delegating => tgt = last
        /\ q.note.taken = (<<K, W>> \in forks.taken)
        /\ ~q.note.again => ~(\E m \in About(node, DOMAIN node, node[k].what, node[k].key) : m # k /\ node[m].tx = node[k].tx)
    BY <1>6 DEF Noted
  <1>8. history \in Views /\ (f = NoValue /\ W \in Delegating => account[K] \in Views)
    BY DEF Answered, k, f
  <1> DEFINE e == FillMissingFrom(q, account, history)
             s == StampRegistrationUpdate(e, history)
  <1>9. s = News(k, f, account, history)
    BY DEF News, FilledEvent
  <1>10. ASSUME NEW view \in Views, ~Stale(view, q)
         PROVE  Asking(view, k, q)
    <2> HIDE DEF q
    <2>1. QED
      BY <1>2, <1>6, <1>7, <1>10 DEF Asking
  <1> HIDE DEF q
  <1>11. /\ e \in Events
         /\ \/ e = q
            \/ /\ q.from = NoValue /\ q.what \in Delegating /\ ~Same(Account(account[q.key], q), q.to)
               /\ FilledFrom(q, e, Account(account[q.key], q), "account", account[q.key])
            \/ /\ q.from = NoValue /\ q.what = "pool"
               /\ FilledFrom(q, e, PreviousPoolFromHistory(history, q), "history", history)
    <2>1. history \subseteq 1..Len(node) /\ (q.from = NoValue /\ q.what \in Delegating => account[q.key] \subseteq 1..Len(node))
      BY <1>1, <1>6, <1>8, ViewFacts
    <2>2. q.from # NoValue => ~Same(q.from, q.to)
      BY <1>4, <1>6
    <2>3. q \in Events /\ SpeltOnce(q)
      BY <1>6
    <2>4. QED
      BY ONLY <1>1, <2>1, <2>2, <2>3, FilledFacts
  <1> HIDE DEF e
  <1>12. /\ s \in Events /\ s.to = e.to /\ s.note = e.note
         /\ e.what # "reg" => s = e
         /\ e.what = "reg" =>
              /\ s.changed <=> s.from # NoValue /\ ~Same(s.from, s.to)
              /\ \/ s.from = e.from
                 \/ s.by = "registry" /\ s.from # NoValue /\ s.from = FetchPrevious(history, e)
                    /\ s.stale = Stale(history, e)
    <2>1. PastTyped /\ e \in Events /\ history \subseteq 1..Len(node)
      BY <1>1, <1>8, <1>11, ViewFacts
    <2>2. QED
      BY ONLY <2>1, StampedFacts
  <1> HIDE DEF s
  <1> HIDE DEF W, K, to, last, tgt
  <1>13. "reg" \notin Delegating /\ "pool" \in Delegating
    BY DEF Delegating
  <1>14. ASSUME e = q, f # NoValue
         PROVE  EventRight(s)
    <2>1. s = q /\ q.from = f /\ q.by = "tracker" /\ q.changed = FALSE
      BY <1>4, <1>6, <1>12, <1>13, <1>14
    <2>2. q.note.was = tgt /\ (f = last \/ q.note.taken) /\ (tgt = last \/ q.note.ended)
      BY <1>5, <1>7, <1>14
    <2>3. QED
      BY <1>14, <2>1, <2>2 DEF EventRight, Same
  <1>15. ASSUME e = q, f = NoValue, W # "reg"
         PROVE  EventRight(s)
    <2>1. s = q /\ q.from = NoValue /\ q.changed = FALSE
      BY <1>6, <1>12, <1>15
    <2>2. QED
      BY <2>1 DEF EventRight
  <1>16. ASSUME e = q, f = NoValue, W = "reg"
         PROVE  EventRight(s)
    <2>1. s.to = q.to /\ s.note = q.note /\ q.what = "reg" /\ q.from = NoValue /\ q.note.was = tgt /\ tgt = last
      BY <1>6, <1>7, <1>12, <1>13, <1>16
    <2>2. /\ s.changed <=> s.from # NoValue /\ ~Same(s.from, s.to)
          /\ \/ s.from = NoValue
             \/ s.from # NoValue /\ s.from = FetchPrevious(history, q) /\ s.stale = Stale(history, q)
      BY <1>12, <1>16, <2>1
    <2>3. ASSUME s.from # NoValue, ~s.stale
          PROVE  last # NoValue /\ Same(s.from, last)
      <3>1. FetchPrevious(history, q) = s.from /\ ~Stale(history, q)
        BY <2>2, <2>3
      <3>2. Asking(history, k, q)
        BY <1>8, <1>10, <3>1
      <3>3. LET past == LastTo(node, k - 1, node[k].what, node[k].key, NoValue)
            IN  past # NoValue /\ Same(FetchPrevious(history, q), past)
        BY <1>1, <2>1, <2>3, <3>1, <3>2, RegistryRight
      <3>4. QED
        BY <3>1, <3>3 DEF last, W, K
    <2>4. QED
      BY <2>1, <2>2, <2>3 DEF EventRight, Same
  <1>17. ASSUME q.from = NoValue, q.what \in Delegating, ~Same(Account(account[q.key], q), q.to),
                FilledFrom(q, e, Account(account[q.key], q), "account", account[q.key])
         PROVE  EventRight(s)
    <2> DEFINE v == Account(account[q.key], q)
    <2>1. /\ v # NoValue /\ e.what = q.what /\ e.from = v /\ e.changed = q.changed /\ e.note = q.note
          /\ e.stale = Stale(account[q.key], q)
      BY <1>6, <1>17, FilledFromFacts
    <2>2. account[q.key] \in Views
      BY <1>6, <1>8, <1>17
    <2>3. ~e.stale => tgt # NoValue /\ Same(v, tgt)
      <3>1. SUFFICES ASSUME ~Stale(account[q.key], q)
                     PROVE  tgt # NoValue /\ Same(v, tgt)
        BY <2>1
      <3>2. Asking(account[q.key], k, q)
        BY <1>10, <2>2, <3>1
      <3>3. LET past == Target(1..(k - 1), node[k].what, node[k].key)
            IN  past # NoValue /\ Same(Account(account[q.key], q), past)
        BY <1>1, <1>17, <2>1, <3>2, AccountRight
      <3>4. QED
        BY <3>3 DEF tgt, W, K
    <2> HIDE DEF v
    <2>4. s = e
      BY <1>12, <1>13, <1>17, <2>1
    <2>5. s.from = v /\ s.changed = FALSE /\ s.note.was = tgt
      BY <1>6, <1>7, <2>1, <2>4
    <2>6. QED
      BY <2>3, <2>4, <2>5 DEF EventRight
  <1>18. ASSUME q.from = NoValue, q.what = "pool",
                FilledFrom(q, e, PreviousPoolFromHistory(history, q), "history", history)
         PROVE  EventRight(s)
    <2> DEFINE v == PreviousPoolFromHistory(history, q)
    <2>1. /\ v # NoValue /\ e.what = q.what /\ e.to = q.to /\ e.from = v /\ e.by = "history"
          /\ e.changed = q.changed /\ e.note = q.note /\ e.stale = Stale(history, q)
      BY <1>6, <1>18, FilledFromFacts
    <2>2. ~e.stale /\ ~q.note.again => last # NoValue /\ (v = last \/ last = q.to)
      <3>1. SUFFICES ASSUME ~Stale(history, q), ~q.note.again
                     PROVE  last # NoValue /\ (v = last \/ last = q.to)
        BY <2>1
      <3>2. Asking(history, k, q)
        BY <1>8, <1>10, <3>1
      <3>3. ~(\E m \in About(node, DOMAIN node, node[k].what, node[k].key) : m # k /\ node[m].tx = node[k].tx)
        BY <1>7, <3>1
      <3>4. LET past == LastTo(node, k - 1, node[k].what, node[k].key, NoValue)
            IN  past # NoValue /\ (PreviousPoolFromHistory(history, q) = past \/ past = q.to)
        BY ONLY <1>1, <1>18, <2>1, <3>2, <3>3, HistoryRight
      <3>5. QED
        BY <3>4 DEF last, W, K
    <2> HIDE DEF v
    <2>3. s = e
      BY <1>12, <1>18, <2>1
    <2>4. /\ s.from = v /\ s.by = "history" /\ s.changed = FALSE /\ s.note = q.note /\ s.to = q.to
          /\ q.note.was = tgt /\ (tgt = last \/ q.note.ended)
      BY <1>6, <1>7, <2>1, <2>3
    <2>5. QED
      BY <2>2, <2>3, <2>4 DEF EventRight, Same
  <1>19. EventRight(s)
    <2>1. f = NoValue => q.from = NoValue
      BY <1>6
    <2>2. QED
      BY <1>11, <1>14, <1>15, <1>16, <1>17, <1>18
  <1>20. QED
    BY <1>9, <1>19 DEF k, f

(* An event's `from`, from the tracker (deleg.rs), the account, the        *)
(* history (enrich.rs) or the registrations (pool_history.rs), is what the *)
(* key had before that certificate, and a registration lists changes only  *)
(* where there are some, but for the exceptions FromIsRight names, however *)
(* far behind the backend is and however far ahead the node.               *)
THEOREM FromAlwaysRight == HistorySpec => []FromIsRight
  <1>1. HistoryInit => FromIsRight
    BY DEF HistoryInit, FromIsRight
  <1>2. PastInv /\ FromIsRight /\ [HistoryNext]_historyVars => FromIsRight'
    <2>1. SUFFICES ASSUME PastInv, FromIsRight, [HistoryNext]_historyVars
                   PROVE  FromIsRight'
      OBVIOUS
    <2>2. PastTyped /\ told \in Seq(Events)
      BY <2>1 DEF PastInv, PastTyped
    <2>3. CASE told' = told
      BY <2>1, <2>3 DEF FromIsRight
    <2>4. CASE Forward
      <3> DEFINE T == Len(told)
                 M == Len(Next1)
                 new == told'
      <3>1. at < TopOf(node)
        BY <2>2, <2>4, ForwardFacts
      <3>2. PICK p, account, history : ForwardedBy(p, account, history)
        BY <2>2, <2>4, ForwardFacts
      <3>3. /\ Reached(tracker, Next1, M, p)
            /\ \A i \in 1..M : Answered(EndOf(node, at) + i, p.froms[i], account, history)
            /\ new \in Seq(Events) /\ Len(new) = T + M
            /\ \A i \in 1..T : new[i] = told[i]
            /\ \A i \in 1..M : new[T + i] = News(EndOf(node, at) + i, p.froms[i], account, history)
        BY <3>2 DEF ForwardedBy
      <3>4. /\ T \in Nat /\ M \in Nat /\ DOMAIN told = 1..T /\ DOMAIN new = 1..(T + M)
        BY <2>2, <3>1, <3>3, EventsFacts, BlockFacts
      <3>5. \A i \in 1..T : EventRight(told[i])
        BY <2>1, <3>4 DEF FromIsRight, EventRight
      <3>6. ASSUME NEW i \in 1..M
            PROVE  EventRight(new[T + i])
        <4>1. /\ Answered(EndOf(node, at) + i, p.froms[i], account, history)
              /\ new[T + i] = News(EndOf(node, at) + i, p.froms[i], account, history)
          BY <3>3
        <4> HIDE DEF new
        <4>2. QED
          BY <2>1, <3>1, <3>3, <4>1, NewsRight
      <3> HIDE DEF new, T, M
      <3>7. ASSUME NEW j \in 1..(T + M)
            PROVE  EventRight(new[j])
        <4>1. CASE j \in 1..T
          BY <3>3, <3>5, <4>1
        <4>2. CASE j \notin 1..T
          <5>1. j - T \in 1..M /\ T + (j - T) = j
            BY <3>4, <4>2
          <5>2. QED
            BY <3>6, <5>1
        <4>3. QED
          BY <4>1, <4>2
      <3>8. QED
        BY <3>4, <3>7 DEF FromIsRight, EventRight, new
    <2>5. QED
      BY <2>1, <2>3, <2>4 DEF HistoryNext, Adopt, RollBack, Restart, historyVars
  <1>3. QED
    BY <1>1, <1>2, PastInvariant, PTL DEF HistorySpec

=============================================================================
