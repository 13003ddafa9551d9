---------------------------- MODULE DappScanners ----------------------------
(***************************************************************************)
(* What the dApp scanners of src/dapp/ report of one transaction.  Each    *)
(* scanner reads the transaction and the earlier outputs it spends, as far *)
(* as its tracker still holds them, and returns events: a type, the        *)
(* amounts told, and who is said to have acted.                            *)
(*                                                                         *)
(* A value is a sparse function from assets to quantities; a datum that    *)
(* names an NFT or a wallet is the pseudo-asset "datum".  A transaction is *)
(* a record: the slots it spends, the values at the places it pays to, its *)
(* mint, and its cues (redeemers, metadata, attached scripts, signers,     *)
(* zero withdrawals).  One unit of "ada" is an ADA, and one of a token a   *)
(* million of its smallest.                                                *)
(***************************************************************************)
EXTENDS Integers, SequencesExt

CONSTANT InputsNamed  \* do inputs carry addresses?  Ogmios leaves them out

None == "none"
Nothing == [a \in {} |-> 0]
KeyPlaces == {"user", "change", "keeper", "stranger"}   \* wallets; the rest are scripts

Amt(v, a) == IF a \in DOMAIN v THEN v[a] ELSE 0
Only(v, S) == [a \in {x \in DOMAIN v \cap S : v[x] # 0} |-> v[a]]
Natives(v) == Only(v, DOMAIN v \ {"ada", "datum"})
Coins(v) == Only(v, DOMAIN v \ {"datum"})
Else(v, w) == IF DOMAIN v = {} THEN w ELSE v

(* The merged value of the places of P. *)
At(f, P) ==
    LET ps == P \cap DOMAIN f
    IN  [a \in UNION {DOMAIN f[p] : p \in ps} |-> MapThenSumSet(LAMBDA p : Amt(f[p], a), ps)]

(* Mutant of Gain: all of w, where it grew. *)
GainWhole(v, w) == [a \in {x \in DOMAIN w : w[x] > Amt(v, x)} |-> w[a]]

(* What w has more of than v: `positive_side` of a net flow from v to w,   *)
(* `negative_side` of one from w to v.                                     *)
Gain(v, w) == [a \in {x \in DOMAIN w : w[x] > Amt(v, x)} |-> w[a] - Amt(v, a)]

Largest(f, P, a) == Max({Amt(f[p], a) : p \in P \cap DOMAIN f} \union {0})

FirstOf(rules) ==
    LET hits == {i \in DOMAIN rules : rules[i][1]}
    IN  IF hits = {} THEN None ELSE rules[Min(hits)][2]

Event(type, told, actor) == [type |-> type, told |-> told, actor |-> actor]
When(cond, event) == IF cond THEN {event} ELSE {}

-----------------------------------------------------------------------------
(* Who acted. *)

Wallets(tx) == DOMAIN tx.outs \cap KeyPlaces
WalletOf(p) == IF p = "change" THEN "user" ELSE p
OrWallet(w, other) == IF w = None THEN other ELSE w

(* `actor_from_outputs` *)
RichestOf(tx, ps) ==
    IF ps = {} THEN None
    ELSE WalletOf(CHOOSE p \in ps :
            \A r \in ps : Amt(tx.outs[r], "ada") <= Amt(tx.outs[p], "ada"))
ActorOf(tx) == RichestOf(tx, Wallets(tx))
PaidAda(tx, min) == RichestOf(tx, {p \in Wallets(tx) : Amt(tx.outs[p], "ada") >= min})

(* `actor_receiving_asset` *)
Apart(m, n) == IF m > n THEN m - n ELSE n - m
PaidAsset(tx, a, target) ==
    LET ps == {p \in Wallets(tx) : Amt(tx.outs[p], a) > 0}
    IN  IF ps = {} THEN None
        ELSE WalletOf(CHOOSE p \in ps : \A r \in ps :
                Apart(tx.outs[p][a], target) <= Apart(tx.outs[r][a], target))

-----------------------------------------------------------------------------
(* Wayup *)

(* The NFTs of a listing or an offer: on the output, else in its datum. *)
Nfts(v) == Else(Natives(v), IF "datum" \in DOMAIN v THEN [a \in {"nft"} |-> 1] ELSE Nothing)

Payout(tx) ==
    MapThenSumSet(LAMBDA p : Amt(tx.outs[p], "ada"),
                  {p \in Wallets(tx) : DOMAIN Natives(tx.outs[p]) = {}})

WayupType(tx, prior) ==
    LET buy == "buy" \in tx.cues
        take == "withdraw" \in tx.cues
        meta == "wayup" \in tx.cues
        newAsk == DOMAIN Natives(At(tx.outs, {"ask"})) # {}
        bid == At(tx.outs, {"bid"})
        newBid == DOMAIN Natives(bid) = {} /\ Amt(bid, "ada") > 0
        oldAsk == "ask" \in DOMAIN prior
        oldBid == "bid" \in DOMAIN prior
        touched == {"ask", "bid"} \cap (DOMAIN tx.outs \union DOMAIN prior) # {}
    IN  FirstOf(<<
            <<~touched /\ ~meta, None>>,
            <<newAsk /\ ~buy /\ ~take, "list">>,
            <<newBid /\ ~buy /\ ~take, "make_offer">>,
            <<newAsk /\ take, "update_listing">>,
            <<newBid /\ take, "update_offer">>,
            <<buy /\ oldBid /\ ~oldAsk, "accept_offer">>,
            <<buy /\ (oldAsk \/ meta), "sale">>,
            <<take /\ oldAsk /\ ~newAsk, "unlist">>,
            <<take /\ oldBid /\ ~newBid, "cancel_offer">>,
            <<meta /\ take /\ ~newAsk /\ ~newBid,
              IF DOMAIN Natives(At(tx.outs, KeyPlaces)) # {} THEN "unlist" ELSE "cancel_offer">> >>)

WayupTold(type, tx, prior) ==
    LET atKeys == Natives(At(tx.outs, KeyPlaces))
        nfts == CASE type \in {"list", "update_listing"} -> Nfts(At(tx.outs, {"ask"}))
                  [] type \in {"make_offer", "update_offer"} -> Nfts(At(tx.outs, {"bid"}))
                  [] type \in {"sale", "unlist"} -> Else(Nfts(At(prior, {"ask"})), atKeys)
                  [] type = "accept_offer" -> Else(Nfts(At(prior, {"bid"})), atKeys)
                  [] OTHER -> Nfts(At(prior, {"bid"}))
        bid == Amt(At(prior, {"bid"}), "ada")
        ada == CASE type \in {"make_offer", "update_offer"} -> Amt(At(tx.outs, {"bid"}), "ada")
                 [] type \in {"sale", "accept_offer"} -> Payout(tx)
                 [] type = "cancel_offer" -> IF bid > 0 THEN bid ELSE Payout(tx)
                 [] OTHER -> 0
    IN  Only(nfts @@ [a \in {"ada"} |-> ada], {"ada", "nft"})

WayupEvents(tx, prior) ==
    LET type == WayupType(tx, prior)
        told == WayupTold(type, tx, prior)
        who == IF type \in {"sale", "accept_offer"} /\ "nft" \in DOMAIN told
               THEN OrWallet(PaidAsset(tx, "nft", told["nft"]), ActorOf(tx))
               ELSE ActorOf(tx)
    IN  When(type # None, Event(type, told, who))

-----------------------------------------------------------------------------
(* Iagon *)

IagonStakes == {"node", "delegation"}
IagonPlaces == IagonStakes \union {"batcher", "subscription"}
Less(m, n) == IF m > n THEN m - n ELSE 0      \* saturating_sub
Least(m, n) == IF m < n THEN m ELSE n

(* The staking market, once its batcher token is seen: `has_market`. *)
IagonMarket(tx) ==
    LET outside == DOMAIN tx.outs \ IagonPlaces
        iag == Largest(tx.outs, outside, "iag")
        pay == Largest(tx.outs, {p \in outside : Amt(tx.outs[p], "iag") = 0}, "ada")
        held == Amt(At(tx.outs, {"batcher"}), "iag")
        sold == iag > 0 /\ pay >= 1
    IN  When(sold, Event("position_sale", [a \in {"iag", "ada"} |-> IF a = "iag" THEN iag ELSE pay],
                         OrWallet(PaidAda(tx, 1), ActorOf(tx))))
        \union When(~sold /\ held > 0,
                Event("position_listing", [a \in {"iag"} |-> held], ActorOf(tx)))

(* Rewards and fees leaving the batcher. *)
IagonClaim(tx, prior) ==
    LET paid == Gain(At(tx.outs, {"batcher"}), At(prior, {"batcher"}))
        iag == Amt(paid, "iag")
    IN  When(iag > 0, Event("earnings_claim", Only(paid, {"iag"}),
                            OrWallet(PaidAsset(tx, "iag", iag), ActorOf(tx))))
        \union When(iag = 0 /\ Amt(paid, "ada") > 0,
                Event("earnings_claim", Only(paid, {"ada"}),
                      OrWallet(PaidAda(tx, 1), ActorOf(tx))))

(* Mutant: every payment of IAG is a withdrawal. *)
IagonWithdrawnLoose(tx, prior) == Amt(At(tx.outs, DOMAIN tx.outs \ IagonPlaces), "iag")

IagonWithdrawn(tx, prior) ==
    LET left == Less(Amt(At(prior, IagonStakes), "iag"), Amt(At(tx.outs, IagonStakes), "iag"))
        outside == Amt(At(tx.outs, DOMAIN tx.outs \ IagonPlaces), "iag")
    IN  IF left > 0 THEN Least(left, outside)
        ELSE IF Amt(tx.mint, "deleg") < 0 \/ Amt(tx.mint, "node") < 0 THEN outside ELSE 0

IagonEvents(tx, prior) ==
    LET node == At(tx.outs, {"node"})
        deleg == At(tx.outs, {"delegation"})
        fee == At(tx.outs, {"subscription"})
        out == IagonWithdrawn(tx, prior)
        by == ActorOf(tx)
        market == Amt(tx.mint, "market") # 0
                  \/ \E p \in DOMAIN tx.outs \ (IagonPlaces \ {"batcher"}) :
                        Amt(tx.outs[p], "market") > 0
    IN  When(Amt(tx.mint, "node") < 0, Event("node_retirement", Nothing, by))
        \union When(Amt(tx.mint, "node") > 0,
                Event("node_registration", Only(node, {"iag"}), by))
        \union When(Amt(node, "iag") > 0, Event("node_pledge", Only(node, {"iag"}), by))
        \union When(Amt(deleg, "deleg") > 0
                /\ Less(Amt(deleg, "iag"), Amt(At(prior, {"delegation"}), "iag")) > 0,
                Event("stake_delegation", Only(deleg, {"iag"}), by))
        \union When(Amt(fee, "ada") > 0,
                Event("subscription", Only(fee, {"ada", "iag"}), by))
        \union (IF market THEN IagonMarket(tx) ELSE IagonClaim(tx, prior))
        \union When(out > 0, Event("stake_withdrawal", [a \in {"iag"} |-> out],
                               OrWallet(PaidAsset(tx, "iag", out), by)))
-----------------------------------------------------------------------------
(* Indigo *)

Pools == {"sp_pool", "sp_account"}
Touches(P, tx, prior) == P \cap (DOMAIN tx.outs \union DOMAIN prior) # {}
Abs(n) == IF n < 0 THEN -n ELSE n
Some(a, n) == Only([x \in {a} |-> n], {a})

(* The position NFT is minted or burned. *)
IndigoCdp(tx, prior, by) ==
    LET cdp == At(tx.outs, {"cdp"})
        debt == Abs(Amt(tx.mint, "iasset"))
        tells(ada, iasset) == Some("ada", ada) @@ Some("iasset", iasset)
    IN  When(Amt(tx.mint, "cdp") > 0,
             Event("open_cdp", tells(Amt(cdp, "ada"), IF debt > 0 THEN debt ELSE Amt(cdp, "iasset")), by))
        \union When(Amt(tx.mint, "cdp") < 0,
             Event(IF Touches(Pools, tx, prior) THEN "liquidate_cdp" ELSE "close_cdp",
                   tells(Amt(At(prior, {"cdp"}), "ada"), debt), by))

(* The position is rewritten. *)
IndigoRewrite(tx, prior, by) ==
    LET cdp == At(tx.outs, {"cdp"})
        was == Amt(At(prior, {"cdp"}), "ada")
        net == Amt(cdp, "ada") - was
        debt == Amt(tx.mint, "iasset")
        redeemed == net < 0 /\ ("cdp" \in DOMAIN tx.outs => Amt(cdp, "cdp") > 0)
        type == FirstOf(<<
            <<debt > 0, "mint_iasset">>,
            <<debt < 0, IF redeemed THEN "redeem_cdp" ELSE "burn_iasset">>,
            <<was > 0 /\ net > 1, "deposit_collateral">>,
            <<was > 0 /\ net < -1, "withdraw_collateral">> >>)
    IN  When(/\ Amt(tx.mint, "cdp") = 0
             /\ Touches({"cdp", "creator"}, tx, prior)
             /\ type # None,
             Event(type, IF debt = 0 THEN Some("ada", Abs(net)) ELSE Some("iasset", Abs(debt)), by))

(* Mutant of SpDeposit: the pool's whole balance. *)
SpDepositWhole(tx, prior) == Amt(At(tx.outs, {"sp_pool"}), "iasset")

(* The stability pool.  Its accounts hold no iAsset; the pool does. *)
SpDeposit(tx, prior) ==
    LET was == Amt(At(prior, {"sp_pool"}), "iasset")
        pending == Amt(At(prior, {"sp_account"}), "iasset")
    IN  IF was > 0 THEN Less(Amt(At(tx.outs, {"sp_pool"}), "iasset"), was)
        ELSE IF pending > 0 THEN pending
        ELSE Amt(At(tx.outs, {"sp_account"}), "iasset")

SpClose(tx, prior) ==
    LET was == Amt(At(prior, {"sp_pool"}), "iasset")
        pending == Amt(At(prior, {"sp_account"}), "iasset")
    IN  IF was > 0 THEN Less(was, Amt(At(tx.outs, {"sp_pool"}), "iasset"))
        ELSE IF pending > 0 THEN pending
        ELSE Amt(At(tx.outs, DOMAIN tx.outs \ Pools), "iasset")

SpNet(tx, prior) ==
    LET places == IF Amt(At(prior, {"sp_pool"}), "iasset") > 0
                     \/ Amt(At(tx.outs, {"sp_pool"}), "iasset") > 0
                  THEN {"sp_pool"} ELSE Pools
    IN  Amt(At(tx.outs, places), "iasset") - Amt(At(prior, places), "iasset")

IndigoPool(tx, prior, by) ==
    LET account == Amt(tx.mint, "acct")
        net == SpNet(tx, prior)
        liquidated == Amt(tx.mint, "cdp") < 0
    IN  When(account > 0, Event("create_sp_account", Some("iasset", SpDeposit(tx, prior)), by))
        \union When(account < 0, Event("close_sp_account", Some("iasset", SpClose(tx, prior)), by))
        \union When(account = 0 /\ Touches(Pools, tx, prior) /\ ~liquidated /\ net # 0,
                   Event(IF net > 0 THEN "deposit_sp_account" ELSE "withdraw_sp_account",
                         Some("iasset", Abs(net)), by))

IndigoStaking(tx, prior, by) ==
    LET now == Amt(At(tx.outs, {"staking"}), "indy")
        was == Amt(At(prior, {"staking"}), "indy")
        position == Amt(tx.mint, "stk")
        minted == Abs(Amt(tx.mint, "indy"))
    IN  When(position > 0, Event("open_staking", Some("indy", IF now > 0 THEN now ELSE minted), by))
        \union When(position < 0, Event("close_staking", Some("indy", Max({was, minted})), by))
        \union When(position = 0 /\ now # was,
                   Event(IF now > was THEN "deposit_staking" ELSE "withdraw_staking",
                         Some("indy", Abs(now - was)), by))

IndigoRob(tx, prior, by) ==
    LET now == At(tx.outs, {"rob"})
        opened == "rob" \in DOMAIN tx.outs
        spent == "rob" \in DOMAIN prior
    IN  When(opened /\ ~spent, Event("open_rob", Only(now, {"ada", "iasset"}), by))
        \union When(spent /\ ~opened, Event("cancel_rob", Nothing, by))
        \union When(spent /\ opened /\ Touches({"cdp", "creator"}, tx, prior),
                   Event("redeem_rob", Some("iasset", Abs(Amt(tx.mint, "iasset"))), by))

IndigoEvents(tx, prior) ==
    LET by == ActorOf(tx)
        main == IndigoCdp(tx, prior, by) \union IndigoPool(tx, prior, by)
                \union IndigoStaking(tx, prior, by) \union IndigoRob(tx, prior, by)
                \union IndigoRewrite(tx, prior, by)
        swap == When("stableswap" \in DOMAIN tx.outs,
                     Event("stableswap_order", Only(tx.outs["stableswap"], {"iasset"}), by))
        interest == When(main \union swap = {} /\ "interest" \in DOMAIN tx.outs,
                     Event("pay_interest", Only(tx.outs["interest"], {"ada"}), by))
        governance == When(main \union swap \union interest = {} /\ "gov" \in DOMAIN tx.outs,
                     Event("governance", Only(tx.outs["gov"], {"indy"}), by))
    IN  main \union swap \union interest \union governance

-----------------------------------------------------------------------------
(* FluidTokens: mints, and the zero withdrawals among the cues. *)

FluidActions == {"repay_loan", "recast_loan", "change_collateral", "claim_loan", "open_loan",
                 "cancel_pool", "compound_pool", "liquidate_loan"}
FluidPlaces == {"general", "tank", "staker", "auction", "legacy"}
TellsAda == {"create_pool", "adjust_pool", "open_loan", "legacy_lend", "lending_activity",
             "aquarium_tank"}
FluidEvent(type, v, by) ==
    Event(type, Only(v, {"fldt"} \union (IF type \in TellsAda THEN {"ada"} ELSE {})), by)

FluidMints(tx, by) ==
    LET acts == tx.cues \cap FluidActions
        general == At(tx.outs, {"general"})
        largest == Largest(tx.outs, FluidPlaces, "ada")
    IN  {FluidEvent(a, Only(general, {"ada"}), by) : a \in acts}
        \union When(Amt(tx.mint, "pool") > 0, FluidEvent("create_pool", general, by))
        \union When(/\ Amt(tx.mint, "pool") < 0
                   /\ acts \cap {"cancel_pool", "open_loan", "liquidate_loan"} = {},
                   FluidEvent("cancel_pool", Nothing, by))
        \union When(Amt(tx.mint, "request") > 0, FluidEvent("create_request", general, by))
        \union When(Amt(tx.mint, "request") < 0 /\ "open_loan" \notin acts,
                   FluidEvent("cancel_request", Nothing, by))
        \union When(Amt(tx.mint, "loan") > 0 /\ "open_loan" \notin acts,
                   FluidEvent("open_loan", Some("ada", largest) @@ general, by))
        \union When(/\ Amt(tx.mint, "loan") < 0
                   /\ acts \cap {"repay_loan", "liquidate_loan", "claim_loan"} = {},
                   FluidEvent("repay_loan", Nothing, by))

FluidScripts(tx, prior, by) ==
    LET touched(p) == Touches({p}, tx, prior)
        fldt == Amt(At(tx.outs, {"staker"}), "fldt")
        staked == IF fldt > 0 THEN fldt ELSE Abs(Amt(tx.mint, "fldt"))
    IN  When(touched("tank"), FluidEvent("aquarium_tank", At(tx.outs, {"tank"}), by))
        \union When(touched("staker"),
                   FluidEvent(IF staked > 0 THEN "fldt_stake" ELSE "aquarium_stake",
                              Some("fldt", staked), by))
        \union When(touched("auction"), FluidEvent("dutch_auction", Nothing, by))
        \union When(touched("legacy"), FluidEvent("legacy_lend", At(tx.outs, {"legacy"}), by))

FluidEvents(tx, prior) ==
    LET by == ActorOf(tx)
        main == FluidMints(tx, by) \union FluidScripts(tx, prior, by)
        rewritten == "general" \in DOMAIN tx.outs /\ "general" \in DOMAIN prior
    IN  IF main = {} /\ Touches({"general", "pool_manager", "lender_manager"}, tx, prior)
        THEN {FluidEvent(IF rewritten THEN "adjust_pool" ELSE "lending_activity",
                         At(tx.outs, {"general"}), by)}
        ELSE main
-----------------------------------------------------------------------------
(* Strike *)

Dust == 2   \* ADA_DUST

Units(v) == MapThenSumSet(LAMBDA a : v[a], DOMAIN v)

(* The recipient of ps whose native assets, or else whose ADA, count most. *)
Dominant(tx, ps) ==
    LET score(p) == Units(Else(Natives(tx.outs[p]), Only(tx.outs[p], {"ada"})))
    IN  IF ps = {} THEN None ELSE WalletOf(CHOOSE p \in ps : \A r \in ps : score(r) <= score(p))

OwnerNamed(tx, prior) == "datum" \in DOMAIN At(tx.outs, {"locker"}) \union DOMAIN At(prior, {"locker"})

(* Mutant: the protocol's wallets count as recipients. *)
StrikeActorAny(tx, prior) ==
    IF OwnerNamed(tx, prior) THEN "user" ELSE Dominant(tx, Wallets(tx))

(* `resolve_actor`: the wallet in a locker datum, new or spent, a signer   *)
(* who is paid, or the dominant recipient that is not the protocol's.      *)
StrikeActor(tx, prior) ==
    IF OwnerNamed(tx, prior) \/ ("signed" \in tx.cues /\ "user" \in DOMAIN tx.outs)
    THEN "user"
    ELSE Dominant(tx, Wallets(tx) \ {"keeper"})

(* `hit_from_side`: ADA is told only when nothing else moves. *)
StrikeHit(type, side, by) ==
    LET told == Else(Natives(side), Only(side, {"ada"}))
    IN  When(DOMAIN told # {}, Event(type, told, by))

(* `classify_net` *)
StrikeNet(up, down, by) ==
    LET inflow == Amt(up, "ada") > Dust \/ DOMAIN Natives(up) # {}
        outflow == Amt(down, "ada") > Dust \/ DOMAIN Natives(down) # {}
        more == Units(Natives(up)) > Units(Natives(down))
    IN  IF inflow /\ (~outflow \/ more) THEN StrikeHit("deposit", up, by)
        ELSE IF outflow THEN StrikeHit("withdraw", down, by) ELSE {}

(* `classify_untracked_withdraw`: what wallets but the protocol's receive. *)
StrikeUntracked(tx, by) ==
    LET paid == Coins(At(tx.outs, KeyPlaces \ {"keeper"}))
    IN  IF Amt(paid, "ada") <= Dust /\ DOMAIN Natives(paid) = {} THEN {}
        ELSE StrikeHit("withdraw", paid, by)

StrikeEvents(tx, prior) ==
    LET out == Coins(At(tx.outs, {"locker"}))
        spent == Coins(At(prior, {"locker"}))
        spentAny == DOMAIN spent # {} \/ (InputsNamed /\ "locker" \in tx.spends)
        script == "locker_script" \in tx.cues
        by == StrikeActor(tx, prior)
    IN  IF DOMAIN out = {} /\ ~spentAny /\ ~script THEN {}
        ELSE IF spentAny /\ DOMAIN spent = {} /\ script THEN StrikeUntracked(tx, by)
        ELSE StrikeNet(Gain(spent, out), Gain(out, spent), by)

-----------------------------------------------------------------------------
(* Surf *)

SurfMarks == {"pool_nft", "pool_info", "vault"}
Stripped(v) == Only(v, DOMAIN v \ (SurfMarks \union {"datum"}))

SurfType(tx) ==
    LET m(a) == Amt(tx.mint, a)
        receipts == DOMAIN tx.mint \ SurfMarks
        signal == m("pool_nft") # 0 \/ m("pool_info") # 0
                  \/ \E p \in DOMAIN tx.outs : "pool_nft" \in DOMAIN tx.outs[p]
    IN  FirstOf(<<
            <<~signal, None>>,
            <<m("pool_nft") > 0, "create_pool">>,
            <<m("pool_nft") < 0, "close_pool">>,
            <<m("vault") > 0, "borrow">>,
            <<m("vault") < 0, "repay">>,
            <<\E a \in receipts : m(a) > 0, "supply">>,
            <<\E a \in receipts : m(a) < 0, "withdraw">> >>)

(* `surf_actor` *)
SurfActor(type, tx) ==
    CASE type = "supply" ->
            LET a == CHOOSE x \in DOMAIN tx.mint \ SurfMarks : tx.mint[x] > 0
            IN  OrWallet(PaidAsset(tx, a, tx.mint[a]), ActorOf(tx))
      [] type = "withdraw" -> OrWallet(PaidAda(tx, 5), ActorOf(tx))
      [] OTHER -> ActorOf(tx)

(* Collateral: of the new vault, or back with the borrower. *)
SurfCollateral(type, tx, by, repaid) ==
    CASE type = "borrow" ->
            Natives(Stripped(At(tx.outs, {p \in DOMAIN tx.outs :
                "vault" \in DOMAIN tx.outs[p] /\ "pool_nft" \notin DOMAIN tx.outs[p]})))
      [] type = "repay" ->
            LET back == Natives(Stripped(At(tx.outs, {p \in Wallets(tx) : WalletOf(p) = by})))
            IN  Only(back, {a \in DOMAIN back : a \notin DOMAIN repaid /\ back[a] # 1})
      [] OTHER -> Nothing

SurfEvents(tx, prior) ==
    LET type == SurfType(tx)
        by == SurfActor(type, tx)
        pool == Stripped(At(tx.outs, {p \in DOMAIN tx.outs : "pool_nft" \in DOMAIN tx.outs[p]}))
        was == Stripped(At(prior, {"pool"}))
        net == IF "pool" \notin DOMAIN prior THEN Nothing
               ELSE CASE type \in {"supply", "repay"} -> Gain(was, pool)
                      [] type \in {"withdraw", "borrow"} -> Gain(pool, was)
                      [] OTHER -> Nothing
    IN  IF type = None THEN {} ELSE {Event(type, net @@ SurfCollateral(type, tx, by, net), by)}

-----------------------------------------------------------------------------
(* Liqwid: the market whose receipt is qada lends ADA, the other lends tok. *)

FirstWallet(tx, ps) ==
    IF ps = {} THEN None
    ELSE IF "keeper" \in ps /\ ("keeper_first" \in tx.cues \/ ps = {"keeper"}) THEN "keeper"
    ELSE "user"

LiqwidEvent(tx, q) ==
    LET delta == Amt(tx.mint, q)
        lent == IF q = "qada" THEN "ada" ELSE "tok"
        supply == delta > 0
        marked == {p \in Wallets(tx) : IF supply THEN Amt(tx.outs[p], q) > 0
                                       ELSE Amt(tx.outs[p], lent) >= 1}
        by == OrWallet(FirstWallet(tx, marked), ActorOf(tx))
    IN  When(delta # 0 /\ by # None,
             Event(IF supply THEN "supply" ELSE "withdraw", Some(q, Abs(delta)), by))

LiqwidEvents(tx) == LiqwidEvent(tx, "qada") \union LiqwidEvent(tx, "qtok")

-----------------------------------------------------------------------------
(* Optim *)

OptimEvents(tx) ==
    LET m(a) == Amt(tx.mint, a)
        hit(type, a) ==
            LET by == OrWallet(PaidAsset(tx, a, Abs(m(a))), ActorOf(tx))
            IN  When(by # None, Event(type, Some(a, Abs(m(a))), by))
    IN  (IF m("soada") # 0 THEN hit(IF m("soada") > 0 THEN "stake" ELSE "unstake", "soada")
         ELSE IF m("oada") > 0 THEN hit("mint_oada", "oada") ELSE {})
        \union (IF m("optimiz") = 0 THEN {}
                ELSE hit(IF m("optimiz") > 0 THEN "lock" ELSE "unlock", "optimiz"))

-----------------------------------------------------------------------------
(* Dano.  seen is the last balance cached of the market, or pool; the cache *)
(* is keyed by the market, not by the output spent.                         *)

DanoType(tx) ==
    LET m(a) == Amt(tx.mint, a)
    IN  FirstOf(<<<<m("loan") > 0, "borrow">>, <<m("loan") < 0, "repay">>,
                  <<m("dtoken") > 0, "supply">>, <<m("dtoken") < 0, "withdraw">>>>)

DanoEvents(tx, seen) ==
    LET type == DanoType(tx)
        moved == Apart(Amt(At(tx.outs, {"market"}), "ada"), Amt(At(seen, {"market"}), "ada"))
    IN  When(type # None /\ "market" \in DOMAIN tx.outs,
             Event(type, IF "market" \in DOMAIN seen THEN Some("ada", moved) ELSE Nothing, ActorOf(tx)))

(* What `scan_tx` leaves in the cache: a rewrite that mints nothing is not *)
(* looked at.                                                              *)
DanoSeen(tx, seen) ==
    IF DanoType(tx) # None /\ "market" \in DOMAIN tx.outs
    THEN [p \in {"market"} |-> tx.outs["market"]] @@ seen ELSE seen

(* `detect_swap` of the pool, and what it caches. *)
ClmmEvents(tx, seen) ==
    LET now == Only(At(tx.outs, {"clmm"}), {"ada", "tok"})
        was == Only(At(seen, {"clmm"}), {"ada", "tok"})
        paid == Gain(was, now)
        got == Gain(now, was)
    IN  When(/\ {"clmm"} \subseteq DOMAIN tx.outs \cap DOMAIN seen
             /\ DOMAIN paid # {} /\ DOMAIN got # {} /\ ActorOf(tx) # None,
             Event(IF "ada" \in DOMAIN paid THEN "buy" ELSE "sell", paid @@ got, ActorOf(tx)))
ClmmSeen(tx, seen) ==
    IF "clmm" \in DOMAIN tx.outs THEN [p \in {"clmm"} |-> tx.outs["clmm"]] @@ seen ELSE seen
=============================================================================
