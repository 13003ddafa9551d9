----------------------------- MODULE CertHistory -----------------------------
(***************************************************************************)
(* What a certificate's event says about the past of its key (parse.rs,    *)
(* deleg.rs, enrich.rs, pool_history.rs): the pool or DRep a stake key     *)
(* delegates FROM, and the registration a pool's new registration updates. *)
(*                                                                         *)
(* A certificate assigns a value `to` to a key: what = "pool" (stake key   *)
(* to pool), "drep" (stake key to DRep) or "reg" (pool to its declared     *)
(* parameters), or it deregisters a stake key (what = "end", whose `to` is *)
(* not looked at), which ends both delegations.  One transaction may hold  *)
(* several; a Conway certificate that delegates to both kinds is two       *)
(* assignments of one transaction.                                         *)
(*                                                                         *)
(* Two sources tell the past: the tracker, an in-memory map written while  *)
(* blocks are parsed, and the backend, whose index follows the same node   *)
(* but stands somewhere between Lag blocks behind the parent of the block  *)
(* being handled and the node's tip.  The node is far ahead while this     *)
(* process catches up after a stop.                                        *)
(*                                                                         *)
(* A chain is the sequence of its assignments, in ledger order, each with  *)
(* the number of its block; part of it is a set of places.                 *)
(***************************************************************************)
EXTENDS Naturals, Sequences, FiniteSets, SequencesExt, Subsequences

CONSTANTS
    TxKinds,          \* the contents a transaction may have: sequences of assignments
    Meaning,          \* spelling |-> the thing it spells (CIP-105 / CIP-129, labels)
    Served,           \* the backend's spelling of a value
    NoValue,
    TRACKER_CAP, EVICTED,  \* 50_000 and 5_000
    SEED,             \* events in the restored retention window
    Lag, MaxAhead,    \* how far the backend, and the node, stand from this process
    MaxTxs, MaxBlocks, MaxForks \* bounds

Delegating == {"pool", "drep"}
What == Delegating \cup {"reg", "end"}
Keys == UNION {{d[i].key : i \in DOMAIN d} : d \in TxKinds}
Values == DOMAIN Meaning

\* A DRep and a registration are spelt in several ways, a pool in one.
ASSUME CertHistoryAssumption ==
    /\ EVICTED \in 1..TRACKER_CAP /\ {TRACKER_CAP, SEED, Lag, MaxTxs, MaxBlocks, MaxForks} \subseteq Nat
    /\ MaxAhead \in Nat \ {0}
    /\ \A d \in TxKinds :
         /\ d # <<>> /\ d \in Seq([what : What, key : Keys, to : DOMAIN Served])
         /\ \A i \in DOMAIN d : d[i].what = "pool" =>
              \A v \in DOMAIN Served : Meaning[v] = Meaning[d[i].to] => v = d[i].to
    /\ DOMAIN Served \subseteq Values /\ NoValue \notin Values
    /\ \A v \in DOMAIN Served : Served[v] \in Values /\ Meaning[Served[v]] = Meaning[v]

VARIABLES
    node,     \* the node's chain
    at,       \* how many of its blocks this process has handled
    made,     \* every transaction made so far (a fork may include one again)
    tracker,  \* DelegationTracker: stake key |-> pool and drep
    told,     \* the events, in the order published: what the events file holds
    forks     \* <<key, what>> whose assignment a rollback took back, and the number of rollbacks

historyVars == <<node, at, made, tracker, told, forks>>

Nobody == [k \in {} |-> NoValue]

HistoryInit ==
    /\ node = <<>> /\ at = 0 /\ made = {} /\ told = <<>>
    /\ tracker = Nobody
    /\ forks = [taken |-> {}, count |-> 0]

-----------------------------------------------------------------------------
(* The chain, and the backend's rows over a prefix.                        *)

Height == IF node = <<>> THEN 0 ELSE node[Len(node)].block
Upto(n) == {k \in DOMAIN node : node[k].block <= n}
End(n) == Max({0} \cup Upto(n))

About(entries, places, what, key) ==
    {k \in places : entries[k].what = what /\ entries[k].key = key}
Latest(places) == IF places = {} THEN NoValue ELSE node[Max(places)].to

\* What a key has after the certificates at some places: its newest target,
\* unless it was deregistered since.
Target(places, what, key) ==
    LET given == About(node, places, what, key)
    IN  IF what \in Delegating /\ \E e \in About(node, places, "end", key) : \A k \in given : k < e
        THEN NoValue ELSE Latest(given)

\* drep_ids_equal, and equality of normalised parameters in pool_history.rs.
Same(a, b) == Meaning[a] = Meaning[b]

\* What the backend has indexed when it is asked; no answer counts as no rows.
Views == {Upto(n) : n \in (IF at > Lag THEN at - Lag ELSE 0)..Height} \cup {{}}

\* ?count=..&order=desc
Newest(count, places) == {k \in places : Cardinality({m \in places : m > k}) < count}

-----------------------------------------------------------------------------
(* The tracker.                                                            *)

Unknown == [w \in Delegating |-> NoValue]
Known(tr, key) == IF key \in DOMAIN tr THEN tr[key] ELSE Unknown

\* evict_if_needed: at the cap some ten percent go, whichever the map yields
\* first, and the key about to be written may be among them.
EvictIfNeeded(tr) ==
    IF Cardinality(DOMAIN tr) < TRACKER_CAP THEN {tr}
    ELSE {[k \in DOMAIN tr \ gone |-> tr[k]] :
             gone \in {g \in SUBSET DOMAIN tr : Cardinality(g) = EVICTED}}

\* Mutant: entry(..).or_insert(..): the first target seen is kept.
RecordedFirst(tr, a) == [k \in DOMAIN tr \cup {a.key} |->
    IF k = a.key /\ Known(tr, k)[a.what] = NoValue
    THEN [Known(tr, k) EXCEPT ![a.what] = a.to] ELSE Known(tr, k)]

\* set_pool / set_drep.
Recorded(tr, a) == [k \in DOMAIN tr \cup {a.key} |->
                      IF k = a.key THEN [Known(tr, k) EXCEPT ![a.what] = a.to] ELSE tr[k]]

\* swap_pool / swap_drep return the previous target, unless it is the new one.
Previous(tr, a) ==
    LET prev == Known(tr, a.key)[a.what]
    IN  IF prev # NoValue /\ Same(prev, a.to) THEN NoValue ELSE prev

\* parse_certificate for one assignment: the trackers it may leave, each with
\* the `from` it found.  Registrations of pools and deregistrations of stake
\* keys do not touch the tracker.
Swapped(tr, a) ==
    IF a.what \notin Delegating THEN {[tracker |-> tr, from |-> NoValue]}
    ELSE {[tracker |-> Recorded(t, a), from |-> Previous(t, a)] : t \in EvictIfNeeded(tr)}

\* Assignments in order: where the tracker may stand, and what each found.
Swaps(tr, as) ==
    LET after[n \in 0..Len(as)] ==
          IF n = 0 THEN {[tracker |-> tr, froms |-> <<>>]}
          ELSE UNION {{[tracker |-> s.tracker, froms |-> Append(p.froms, s.from)] :
                          s \in Swapped(p.tracker, as[n])} : p \in after[n - 1]}
    IN  after[Len(as)]

-----------------------------------------------------------------------------
(* The questions put to the backend while a block is handled.              *)

\* accounts_from_backend: the account's current target, in the backend's spelling.
Account(view, a) == LET to == Target(view, a.what, a.key)
                    IN  IF to = NoValue THEN NoValue ELSE Served[to]

\* previous_pool_from_history: of the five newest rows the first of another
\* transaction that names another pool.
PreviousPoolFromHistory(view, a) ==
    Latest({k \in Newest(5, About(node, view, "pool", a.key)) : node[k].tx # a.tx /\ node[k].to # a.to})

\* fetch_previous: of the two newest registrations the first of another transaction.
FetchPrevious(view, a) ==
    LET to == Latest({k \in Newest(2, About(node, view, "reg", a.key)) : node[k].tx # a.tx})
    IN  IF to = NoValue THEN NoValue ELSE Served[to]

\* For the properties: of the key's certificates, the view lacks one before the
\* event's, or already holds a later one.
Stale(view, ev) ==
    LET certs == {k \in DOMAIN node : node[k].key = ev.key /\ node[k].what \in {ev.what, "end"}}
    IN  (view \cap certs) \ {ev.note.place} # certs \cap 1..(ev.note.place - 1)

From(ev, value, by, view) ==
    IF value = NoValue THEN ev
    ELSE [ev EXCEPT !.from = value, !.by = by, !.stale = Stale(view, ev)]

\* Mutant: the account's tip is taken even where it already is the new target.
FillMissingFromTip(ev, account, history) ==
    IF ev.from # NoValue \/ ev.what \notin Delegating THEN ev
    ELSE From(ev, Account(account[ev.key], ev), "account", account[ev.key])

\* fill_missing_froms: one account row per stake key answers all its events,
\* and is used only where it names another target; pools get a second question.
FillMissingFrom(ev, account, history) ==
    LET tip == Account(account[ev.key], ev)
        use == tip # NoValue /\ ~Same(tip, ev.to)
    IN  CASE ev.from # NoValue \/ ev.what \notin Delegating -> ev
          [] OTHER -> IF use THEN From(ev, tip, "account", account[ev.key])
                      ELSE IF ev.what = "pool"
                           THEN From(ev, PreviousPoolFromHistory(history, ev), "history", history)
                           ELSE ev

\* The keys whose account is asked for.
Asked(events) == {ev.key : ev \in {e \in ToSet(events) : e.from = NoValue /\ e.what \in Delegating}}

\* is_noop_redelegation.
Noop(ev) == ev.what \in Delegating /\ ev.from # NoValue /\ Same(ev.from, ev.to)

\* diff: whether any declared parameter differs from the earlier registration,
\* whose row spells owners, relays and margin another way.
Differs(ev) == ev.from # NoValue /\ ~Same(ev.from, ev.to)

\* stamp_registration_updates: an earlier registration makes the event an
\* update, which lists what differs from it.
StampRegistrationUpdate(ev, view) ==
    LET stamped == From(ev, FetchPrevious(view, ev), "registry", view)
    IN  IF ev.what = "reg" THEN [stamped EXCEPT !.changed = Differs(stamped)] ELSE ev

\* parse_tx's event for the assignment at place k.  stale and the notes are for
\* the properties: the place, the key's value before this certificate, whether a
\* deregistration had ended it, whether a rollback ever took back one of the
\* key's assignments, and whether the transaction assigns the key twice.
Parsed(k, from) ==
    LET a == node[k]
        was == Target(1..(k - 1), a.what, a.key)
    IN  [tx |-> a.tx, what |-> a.what, key |-> a.key, to |-> a.to, from |-> from,
         by |-> IF from = NoValue THEN "nobody" ELSE "tracker", stale |-> FALSE, changed |-> FALSE,
         note |-> [place |-> k, was |-> was,
                   ended |-> was = NoValue /\ About(node, 1..(k - 1), a.what, a.key) # {},
                   taken |-> <<a.key, a.what>> \in forks.taken,
                   again |-> \E m \in About(node, DOMAIN node, a.what, a.key) : m # k /\ node[m].tx = a.tx]]

-----------------------------------------------------------------------------
(* Steps.                                                                  *)

Fresh(does) == [does |-> does, n |-> Cardinality({t \in made : t.does = does}) + 1]
Assignments(tx) == [i \in DOMAIN tx.does |->
                        [tx |-> tx, block |-> Height + 1, what |-> tx.does[i].what,
                         key |-> tx.does[i].key, to |-> tx.does[i].to]]
OnChain == {node[k].tx : k \in DOMAIN node}

\* The node adopts a block: new transactions, or ones a rollback took back.
Adopt ==
    /\ Height < MaxBlocks /\ Height - at < MaxAhead
    /\ \E a \in {Fresh(d) : d \in TxKinds} \cup made :
         \E rest \in {{}} \cup {{Fresh(d)} : d \in TxKinds} :
           /\ a \notin OnChain \cup rest /\ rest \cap OnChain = {}
           /\ node' = node \o Assignments(a)
                      \o (IF rest = {} THEN <<>> ELSE Assignments(CHOOSE b \in rest : TRUE))
           /\ made' = made \cup {a} \cup rest
           /\ Cardinality(made') <= MaxTxs
    /\ UNCHANGED <<at, tracker, told, forks>>

\* handle_forward, up to publishing: parse, ask for the missing froms, drop
\* no-op redelegations, ask for earlier registrations.
Forward ==
    /\ at < Height
    /\ LET first == End(at) + 1
           block == SubSeq(node, first, End(at + 1))
       IN  \E p \in Swaps(tracker, block) :
             LET parsed == [i \in DOMAIN block |-> Parsed(End(at) + i, p.froms[i])]
             IN  \E account \in [Asked(parsed) -> Views], history \in Views :
                   LET filled == [i \in DOMAIN block |-> FillMissingFrom(parsed[i], account, history)]
                       kept == Subsequence(filled, {i \in DOMAIN block : ~Noop(filled[i])})
                   IN  /\ tracker' = p.tracker
                       /\ told' = told \o [i \in DOMAIN kept |-> StampRegistrationUpdate(kept[i], history)]
    /\ at' = at + 1
    /\ UNCHANGED <<node, made, forks>>

\* The node switches to a fork: handle_rollback does not touch the tracker,
\* and the events already published stay in the file.
RollBack ==
    /\ forks.count < MaxForks
    /\ \E n \in 0..Height :
         /\ n # Height
         /\ node' = SubSeq(node, 1, End(n))
         /\ at' = IF at < n THEN at ELSE n
         /\ forks' = [count |-> forks.count + 1,
                      taken |-> forks.taken \cup {<<node[k].key, node[k].what>> : k \in Upto(at) \ Upto(n)}]
    /\ UNCHANGED <<made, tracker, told>>

\* A restart: seed_from_events replays the restored events, oldest first.
Restart ==
    /\ told # <<>>
    /\ LET first == IF Len(told) > SEED THEN Len(told) - SEED + 1 ELSE 1
       IN  \E p \in Swaps(Nobody, SubSeq(told, first, Len(told))) : tracker' = p.tracker
    /\ UNCHANGED <<node, at, made, told, forks>>

HistoryNext == Adopt \/ Forward \/ RollBack \/ Restart

HistorySpec == HistoryInit /\ [][HistoryNext]_historyVars

-----------------------------------------------------------------------------
(* Properties.                                                             *)

\* An event's `from` is the value its key really had before that certificate,
\* and a registration lists changes only where a parameter changed
\* (deleg.rs:102 fill_missing_froms, pool_history.rs:97 fetch_previous).
\* The exceptions are named: the backend's index lacked an earlier certificate
\* of the key or already held a later one; the key was deregistered, which the
\* tracker and the backend's delegation rows do not show; the tracker still held
\* what a rollback took back; the delegation rows of the event's own transaction
\* are skipped, though it delegates the key twice; a redelegation to the same
\* pool is told as a change from the pool before.
FromIsRight ==
    \A i \in DOMAIN told :
        LET ev == told[i]
            note == ev.note
        IN  /\ (ev.changed /\ ~ev.stale) =>
                 note.was # NoValue /\ ~Same(ev.to, note.was)
            /\ ev.from # NoValue =>
              \/ note.was # NoValue /\ Same(ev.from, note.was)
              \/ ev.stale
              \/ ev.by \in {"tracker", "history"} /\ note.ended
              \/ ev.by = "tracker" /\ note.taken
              \/ ev.by = "history" /\ note.again
              \/ ev.by = "history" /\ note.was # NoValue /\ Same(ev.to, note.was)

\* What a pool's new registration is compared with is the registration before
\* it, wherever the backend stands: "A lagging backend is harmless here" and
\* "Two rows is always enough" (pool_history.rs:93, :107).
EarlierRegistrationIsRead ==
    \A i \in DOMAIN told :
        LET ev == told[i]
        IN  (ev.what = "reg" /\ ev.from # NoValue) =>
              ev.note.was # NoValue /\ Same(ev.from, ev.note.was)

\* A certificate that changes something is told: dropping no-op redelegations
\* takes no real one with it, whatever the tracker and the backend answered
\* (deleg.rs:203 is_noop_redelegation).
ChangeIsTold ==
    \A k \in Upto(at) :
        LET a == node[k]
            was == Target(1..(k - 1), a.what, a.key)
        IN  (was = NoValue \/ ~Same(was, a.to)) =>
              \E j \in DOMAIN told : told[j].tx = a.tx /\ told[j].what = a.what /\ told[j].key = a.key
=============================================================================
