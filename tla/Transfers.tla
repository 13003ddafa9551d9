------------------------------ MODULE Transfers ------------------------------
(***************************************************************************)
(* The token-transfer card of one transaction (parse.rs, state.rs,         *)
(* enrich.rs, scam_tokens.rs): which native assets it says moved, how much *)
(* of each, whether it is dropped as a reshuffle within one wallet, and    *)
(* whether it warns of a listed scam token.                                *)
(*                                                                         *)
(* Ogmios names the outputs a transaction spends but not their owners:     *)
(* those are read from the parents' bodies, as far as the tx store has     *)
(* them.  The body of the transaction itself may be gone too, later.       *)
(***************************************************************************)
EXTENDS Integers, Sequences, FiniteSets, SequencesExt

CONSTANTS
    Assets, AssetOrder,     \* the place of each of Assets in the order outputs list them
    KeyOwners, ScriptOwners, ByronOwners, \* whom a payment credential names, or none
    Offers,                 \* the transactions
    MAX_ITEMS,              \* asset_list shows 12
    Gone, MaxStamps         \* no card; bound on restarts and refreshes

Coin == [owner : KeyOwners \cup ScriptOwners \cup ByronOwners, holds : [Assets -> Nat]]

\* collect_assets over the coins at some places.
TotalAt(coins, places, a) ==
    LET sum[n \in 0..Len(coins)] ==
          IF n = 0 THEN 0 ELSE sum[n - 1] + (IF n \in places THEN coins[n].holds[a] ELSE 0)
    IN  sum[Len(coins)]
Total(coins, a) == TotalAt(coins, DOMAIN coins, a)

\* A transaction of the ledger: every input has a different parent's output,
\* and what goes in and is minted comes out.
ASSUME TransfersAssumption ==
    /\ AssetOrder \in [Assets -> Nat] /\ MAX_ITEMS \in Nat
    /\ \A t \in Offers :
         /\ t.ins \in Seq(Coin) /\ t.ins # <<>> /\ t.outs \in Seq(Coin) /\ t.mint \in [Assets -> Int]
         /\ \A a \in Assets : Total(t.ins, a) + t.mint[a] = Total(t.outs, a)
    /\ Gone \notin Offers
    /\ Gone \notin [amounts : UNION {[moved -> Nat] : moved \in SUBSET Assets}, seen : SUBSET Nat]

VARIABLES
    tx,      \* the transaction, or Gone before there is one
    bodies,  \* the inputs whose parent's body can be found, and 0 for the tx's own
    card,    \* [amounts, seen]: the published card and the bodies it was made from, or Gone
    flags,   \* the assets with scam: true, and what they were stamped from
    scams,   \* the scam-token list
    stamps   \* number of refreshes and restarts

transferVars == <<tx, bodies, card, flags, scams, stamps>>

NoFlags == [on |-> {}, bodies |-> {}, scams |-> {}]

TransferInit ==
    /\ tx = Gone /\ card = Gone /\ bodies = {} /\ flags = NoFlags /\ stamps = 0
    /\ scams \in SUBSET Assets

-----------------------------------------------------------------------------
(* The parser.                                                             *)

\* payment_credential: Byron addresses have none.
HasCredential(o) == o \notin ByronOwners

\* transferred_assets: what the outputs hold and the transaction neither mints nor burns.
Transferred(t) == {a \in Assets : Total(t.outs, a) > 0 /\ t.mint[a] = 0}

\* The card parse_tx makes; minted and burned assets have cards of their own.
ParsedAmounts(t) == [a \in Transferred(t) |-> Total(t.outs, a)]

\* output_creds_holding_asset, and those of resolved inputs.
Holders(coins, a) == {c.owner : c \in {d \in coins : d.holds[a] > 0 /\ HasCredential(d.owner)}}
\* output_key_payment_creds.
KeyWallets(t) == {c.owner : c \in ToSet(t.outs)} \cap KeyOwners

Resolved(t, known) == {t.ins[i] : i \in known}

\* Mutant: the set of holders differs, as a consolidation's does.
ChangesHandsLoose(t, a, known) ==
    Holders(ToSet(t.outs), a) # Holders(Resolved(t, known), a)

\* asset_changes_hands.
ChangesHands(t, a, known) ==
    LET out == Holders(ToSet(t.outs), a)
    IN  /\ out # {}
        /\ IF known # {} THEN ~(out \subseteq Holders(Resolved(t, known), a))
           ELSE Cardinality(KeyWallets(t)) > 1 \/ ~(out \subseteq KeyWallets(t))

\* Mutant: change back to the sender is counted.
ExternalAmountsWhole(t, known) == ParsedAmounts(t)

\* external_transfer_amounts: what lands outside the credentials spent from;
\* with no input resolved, all of it, for the assets taken to change hands.
ExternalAmounts(t, known) ==
    LET own == {c.owner : c \in Resolved(t, known)}
        outside == {i \in DOMAIN t.outs :
                       ~(HasCredential(t.outs[i].owner) /\ t.outs[i].owner \in own)}
    IN  IF Transferred(t) = {} THEN ParsedAmounts(t)
        ELSE IF known = {}
        THEN [a \in {b \in Transferred(t) : ChangesHands(t, b, {})} |-> ParsedAmounts(t)[a]]
        ELSE [a \in {b \in Assets : TotalAt(t.outs, outside, b) > 0 /\ t.mint[b] = 0}
                |-> TotalAt(t.outs, outside, a)]

\* asset_list: the first items, in order; the rest is only counted.
Items(amounts) ==
    {a \in DOMAIN amounts :
        Cardinality({b \in DOMAIN amounts : AssetOrder[b] < AssetOrder[a]}) < MAX_ITEMS}

-----------------------------------------------------------------------------
(* Application state: keeping the card, stamping it.                       *)

\* keep_token_transfer: without the body the parsed card stays.
Kept(t, found) ==
    IF 0 \notin found \/ Transferred(t) = {} THEN ParsedAmounts(t)
    ELSE ExternalAmounts(t, found \ {0})

\* stamp_event_scam: flags are rewritten from the list and the bodies at hand.
Stamped(t, amounts, found, list) ==
    [on |-> {a \in Items(amounts) : a \in list /\ 0 \in found /\ ChangesHands(t, a, found \ {0})},
     bodies |-> found, scams |-> list]

\* handle_forward and publish: the block's bodies are cached, the card is
\* narrowed or dropped, and stamped.
Ingest ==
    /\ tx = Gone
    /\ \E t \in Offers : \E found \in SUBSET (0..Len(t.ins)) :
         /\ Transferred(t) # {}
         /\ tx' = t /\ bodies' = found
         /\ LET amounts == Kept(t, found)
            IN  IF DOMAIN amounts = {}
                THEN card' = Gone /\ flags' = NoFlags
                ELSE /\ card' = [amounts |-> amounts, seen |-> found]
                     /\ flags' = Stamped(t, amounts, found, scams)
    /\ UNCHANGED <<scams, stamps>>

\* The daily refresh replaces the list, or keeps it if the answer parses
\* empty; buffered cards are not stamped again.
RefreshScams ==
    /\ stamps < MaxStamps
    /\ \E answer \in SUBSET Assets : scams' = IF answer = {} THEN scams ELSE answer
    /\ stamps' = stamps + 1
    /\ UNCHANGED <<tx, bodies, card, flags>>

\* A restart: the list is read back from its file, and stamp_buffered_scam
\* stamps the restored cards from whatever bodies the store finds now.
RestartStamps ==
    /\ tx # Gone /\ stamps < MaxStamps
    /\ \E found \in SUBSET (0..Len(tx.ins)) :
         /\ bodies' = found
         /\ flags' = IF card = Gone THEN NoFlags ELSE Stamped(tx, card.amounts, found, scams)
    /\ stamps' = stamps + 1
    /\ UNCHANGED <<tx, card, scams>>

TransferNext == Ingest \/ RefreshScams \/ RestartStamps

TransferSpec == TransferInit /\ [][TransferNext]_transferVars

-----------------------------------------------------------------------------
(* Properties.                                                             *)

\* By conservation, what the spending wallets gave up of an asset.
GivenUp(t, a) ==
    LET spenders == {c.owner : c \in ToSet(t.ins)}
    IN  Total(t.ins, a) - TotalAt(t.outs, {i \in DOMAIN t.outs : t.outs[i].owner \in spenders}, a)
AllShelley(t) == \A c \in ToSet(t.ins \o t.outs) : HasCredential(c.owner)
Told(a) == IF card # Gone /\ a \in DOMAIN card.amounts THEN card.amounts[a] ELSE 0

\* A transfer is never under-reported (parse.rs:605), and is reported exactly
\* where the owner of every spent output is known.  The exceptions are named,
\* both of a transaction none of whose parents is known: one that pays a single
\* key wallet is taken for a reshuffle (parse.rs:804), though it may be a sweep
\* to somebody else; and what only Byron addresses receive, which have no
\* credential, is not taken to change hands at all (parse.rs:761).
TransferIsReported ==
    tx # Gone =>
      \A a \in Transferred(tx) :
        LET seen == IF card = Gone THEN bodies ELSE card.seen
        IN  /\ (card # Gone \/ stamps = 0) =>
                 \/ Told(a) >= GivenUp(tx, a)
                 \/ seen = {0} /\ (Cardinality(KeyWallets(tx)) <= 1 \/ Holders(ToSet(tx.outs), a) = {})
            /\ (card # Gone /\ seen = 0..Len(tx.ins) /\ AllShelley(tx)) =>
                 Told(a) = GivenUp(tx, a)

\* A scam warning is on exactly the listed assets that somebody received who
\* had not spent any, as judged when the card was last stamped with all bodies
\* at hand; without the transaction's body there is none (state.rs:437).
WarningIsRight ==
    card # Gone =>
      /\ 0 \notin flags.bodies => flags.on = {}
      /\ (flags.bodies = 0..Len(tx.ins) /\ AllShelley(tx)) =>
           flags.on = {a \in Items(card.amounts) \cap flags.scams :
                         \E c \in ToSet(tx.outs) :
                            /\ c.holds[a] > 0
                            /\ \A d \in ToSet(tx.ins) : d.owner = c.owner => d.holds[a] = 0}
=============================================================================
