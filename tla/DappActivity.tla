---------------------------- MODULE DappActivity ----------------------------
(***************************************************************************)
(* The dApp scanners beside the ledger they read: users and protocols      *)
(* rewrite script outputs, a scanner sees the transaction and what its     *)
(* tracker still holds of the outputs spent.  A tracker loses an output to *)
(* its cap, to a fork that spent it, or to a restart (UtxoTracker says     *)
(* when); Forget loses any, at any time.  A rollback undoes a transaction  *)
(* on the ledger and in no scanner: to a tracker that is losing what the   *)
(* transaction spent, to Dano's cache it is a balance out of date.         *)
(*                                                                         *)
(* Which transactions a protocol makes is not in the source: the moves are *)
(* those the scanners' documentation and tests show.                       *)
(***************************************************************************)
EXTENDS DappScanners

CONSTANTS
    Apps,      \* the scanners considered
    Amounts,   \* what users move, in ADA or units of a token
    MaxHeld,   \* bound: the most a script output holds of an asset
    MaxOpen    \* bound: the most script outputs at a time

VARIABLES
    app,     \* the scanner this behaviour is about
    held,    \* script outputs unspent: slot -> value
    known,   \* slots the tracker holds
    before,  \* of Dano: held, were the last transaction rolled back
    balances, \* balances cached by Dano, which knows no outputs
    last     \* the last transaction: what it was, and what was reported

activityVars == <<app, held, known, before, balances, last>>

OfDano == app \in {"dano", "dano_clmm"}
Held(s, a) == Amt(At(held, {s}), a)

(* The value v with q more, or less, of a. *)
With(v, a, q) == (a :> Amt(v, a) + q) @@ v

Move(does, moved, spends, scripts, pay, mint, cues) ==
    [does |-> does, moved |-> moved, spends |-> spends, scripts |-> scripts,
     pay |-> pay, mint |-> mint, cues |-> cues]

-----------------------------------------------------------------------------
(* The moves of each protocol. *)

WayupMoves(q) ==
    LET ask == "ask" :> ("ada" :> 2 @@ "nft" :> 1)
        bid == "bid" :> ("ada" :> q @@ "datum" :> 1)
        nft == "nft" :> 1
        offer == "ada" :> Held("bid", "ada")
    IN  {Move("list", nft, {}, ask, Nothing, Nothing, {}),
         Move("make_offer", nft @@ "ada" :> q, {}, bid, Nothing, Nothing, {}),
         Move("update_listing", nft, {"ask"}, ask, Nothing, Nothing, {"withdraw"}),
         Move("unlist", nft, {"ask"}, Nothing, nft, Nothing, {"withdraw"}),
         Move("sale", nft @@ "ada" :> q, {"ask"}, "keeper" :> ("ada" :> q), nft, Nothing, {"buy"}),
         Move("update_offer", nft @@ "ada" :> q, {"bid"}, bid, Nothing, Nothing, {"withdraw"}),
         Move("cancel_offer", nft @@ offer, {"bid"}, Nothing, offer, Nothing, {"withdraw"}),
         Move("accept_offer", nft @@ offer, {"bid"}, "keeper" :> offer, nft, Nothing, {"buy"})}

IagonMoves(q) ==
    LET node == At(held, {"node"})
        deleg == At(held, {"delegation"})
        pot == At(held, {"batcher"})
        iag == "iag" :> q
    IN  {Move("node_registration", iag, {}, "node" :> (iag @@ "node" :> 1), Nothing, "node" :> 1, {}),
         Move("node_pledge", iag, {"node"}, "node" :> With(node, "iag", q), Nothing, Nothing, {}),
         Move("stake_withdrawal", iag, {"node"}, "node" :> With(node, "iag", -q), iag, Nothing, {}),
         Move("node_retirement", Only(node, {"iag"}), {"node"}, Nothing, Only(node, {"iag"}), "node" :> -1, {}),
         Move("stake_delegation", iag, {}, "delegation" :> (iag @@ "deleg" :> 1), Nothing, "deleg" :> 1, {}),
         Move("stake_delegation", iag, {"delegation"}, "delegation" :> With(deleg, "iag", q), Nothing, Nothing, {}),
         Move("touch", Nothing, {"delegation"}, "delegation" :> deleg, Nothing, Nothing, {}),
         Move("stake_withdrawal", Only(deleg, {"iag"}), {"delegation"}, Nothing, Only(deleg, {"iag"}), "deleg" :> -1, {}),
         Move("touch", Nothing, {}, "batcher" :> ("ada" :> 2 @@ "iag" :> 6), Nothing, Nothing, {}),
         Move("touch", Nothing, {}, "batcher" :> ("ada" :> 5), Nothing, Nothing, {}),
         Move("subscription", "ada" :> q, {}, "subscription" :> ("ada" :> q), Nothing, Nothing, {}),
         Move("position_listing", iag, {}, "batcher" :> (iag @@ "market" :> 1 @@ "ada" :> 2), Nothing, Nothing, {})}
        \union {IF Amt(pot, "market") = 0
               THEN LET a == IF Amt(pot, "iag") > 0 THEN "iag" ELSE "ada"
                    IN  Move("earnings_claim", a :> q, {"batcher"}, "batcher" :> With(pot, a, -q),
                             a :> q, Nothing, {})
               ELSE Move("position_sale", Only(pot, {"iag"}) @@ "ada" :> q, {"batcher"},
                         "keeper" :> ("ada" :> q @@ "market" :> 1), Only(pot, {"iag"}), Nothing, {})}

IndigoMoves(q) ==
    LET cdp == At(held, {"cdp"})
        pool == At(held, {"sp_pool"})
        stake == At(held, {"staking"})
        coin == "iasset" :> q
        account == "sp_account" :> ("ada" :> 2 @@ "acct" :> 1)
        indy == "indy" :> q
    IN  {Move("open_cdp", coin @@ "ada" :> 5, {}, "cdp" :> ("ada" :> 5 @@ "cdp" :> 1), coin, coin @@ "cdp" :> 1, {}),
         Move("mint_iasset", coin, {"cdp"}, "cdp" :> cdp, coin, coin, {}),
         Move("burn_iasset", coin, {"cdp"}, "cdp" :> cdp, Nothing, "iasset" :> -q, {}),
         Move("redeem_cdp", coin, {"cdp"}, "cdp" :> With(cdp, "ada", -q), "ada" :> q, "iasset" :> -q, {}),
         Move("deposit_collateral", "ada" :> q, {"cdp"}, "cdp" :> With(cdp, "ada", q), Nothing, Nothing, {}),
         Move("withdraw_collateral", "ada" :> q, {"cdp"}, "cdp" :> With(cdp, "ada", -q), "ada" :> q, Nothing, {}),
         Move("close_cdp", coin @@ Only(cdp, {"ada"}), {"cdp"}, Nothing, Only(cdp, {"ada"}), "iasset" :> -q @@ "cdp" :> -1, {}),
         Move("liquidate_cdp", coin @@ Only(cdp, {"ada"}), {"cdp", "sp_pool"}, "sp_pool" :> With(pool, "iasset", -q), Nothing,
              "iasset" :> -q @@ "cdp" :> -1, {}),
         Move("create_sp_account", coin, {"sp_pool"}, account @@ "sp_pool" :> With(pool, "iasset", q), Nothing, "acct" :> 1, {}),
         Move("deposit_sp_account", coin, {"sp_pool", "sp_account"}, account @@ "sp_pool" :> With(pool, "iasset", q), Nothing, Nothing, {}),
         Move("withdraw_sp_account", coin, {"sp_pool", "sp_account"}, account @@ "sp_pool" :> With(pool, "iasset", -q), coin, Nothing, {}),
         Move("close_sp_account", coin, {"sp_pool", "sp_account"}, "sp_pool" :> With(pool, "iasset", -q), coin, "acct" :> -1, {}),
         Move("touch", Nothing, {"sp_pool"}, "sp_pool" :> pool, Nothing, Nothing, {}),
         Move("open_staking", indy, {}, "staking" :> (indy @@ "stk" :> 1), Nothing, "stk" :> 1, {}),
         Move("deposit_staking", indy, {"staking"}, "staking" :> With(stake, "indy", q), Nothing, Nothing, {}),
         Move("withdraw_staking", indy, {"staking"}, "staking" :> With(stake, "indy", -q), indy, Nothing, {}),
         Move("close_staking", Only(stake, {"indy"}), {"staking"}, Nothing, Only(stake, {"indy"}), "stk" :> -1, {}),
         Move("open_rob", "ada" :> q, {}, "rob" :> ("ada" :> q), Nothing, Nothing, {}),
         Move("cancel_rob", Nothing, {"rob"}, Nothing, At(held, {"rob"}), Nothing, {}),
         Move("redeem_rob", coin, {"rob", "cdp"}, "rob" :> At(held, {"rob"}) @@ "cdp" :> With(cdp, "ada", -q),
              "ada" :> q, "iasset" :> -q, {}),
         Move("stableswap_order", coin, {}, "stableswap" :> coin, Nothing, Nothing, {}),
         Move("pay_interest", "ada" :> q, {}, "interest" :> ("ada" :> q), Nothing, Nothing, {}),
         Move("governance", indy, {}, "gov" :> indy, Nothing, Nothing, {})}

FluidMoves(q) ==
    LET general == "general" :> ("ada" :> q)
        general2 == "general" :> With(At(held, {"general"}), "ada", q)
        act(does, spends, scripts, mint, cues) ==
            Move(does, Nothing, spends, scripts, Nothing, mint, cues)
    IN  {act("create_pool", {}, general, "pool" :> 1, {}),
         act("adjust_pool", {"general"}, general2, Nothing, {}),
         act("cancel_pool", {"general"}, Nothing, "pool" :> -1, {}),
         act("cancel_pool", {"general"}, Nothing, "pool" :> -1, {"cancel_pool"}),
         act("open_loan", {"general"}, general2, "pool" :> -1 @@ "loan" :> 1, {"open_loan"}),
         act("open_loan", {}, general, "loan" :> 1, {}),
         act("repay_loan", {}, Nothing, "loan" :> -1, {"repay_loan"}),
         act("liquidate_loan", {"general"}, Nothing, "loan" :> -1 @@ "pool" :> -1, {"liquidate_loan"}),
         act("repay_loan", {}, Nothing, "loan" :> -1, {}),
         act("claim_loan", {}, Nothing, "loan" :> -1, {"claim_loan"}),
         act("create_request", {}, general, "request" :> 1, {}),
         act("cancel_request", {"general"}, Nothing, "request" :> -1, {}),
         act("open_loan", {"general"}, general2, "request" :> -1 @@ "loan" :> 1, {"open_loan"}),
         act("aquarium_tank", {}, "tank" :> ("ada" :> q), Nothing, {}),
         act("aquarium_tank", {"tank"}, Nothing, Nothing, {}),
         Move("fldt_stake", "fldt" :> q, {}, "staker" :> ("fldt" :> q), Nothing, Nothing, {}),
         act("aquarium_stake", {}, "staker" :> ("ada" :> q), Nothing, {}),
         act("dutch_auction", {}, "auction" :> ("ada" :> q), Nothing, {}),
         act("legacy_lend", {}, "legacy" :> ("ada" :> q), Nothing, {})}
        \union UNION {{act("lending_activity", {}, m :> ("ada" :> q), Nothing, {}),
                       act("lending_activity", {m}, Nothing, Nothing, {})} :
                      m \in {"pool_manager", "lender_manager"}}

StrikeMoves(q) ==
    LET locker == At(held, {"locker"})
        datum == "datum" :> 1                  \* the owner's key, left out of some
        first(v, d) == Move("deposit", v, {}, "locker" :> (v @@ d), Nothing, Nothing, {})
        later(does, v, rest, pay) ==
            Move(does, v, {"locker"}, rest, pay, Nothing, {"locker_script"})
        less(a) == "locker" :> With(locker, a, -q)
    IN  {later("touch", Nothing, "locker" :> locker, Nothing),
         later("withdraw", Else(Natives(locker), Coins(locker)), Nothing, Coins(locker))}
        \union UNION {{first(a :> q, datum), first(a :> q, Nothing), later("withdraw", a :> q, less(a), a :> q),
                       later("deposit", a :> q, "locker" :> With(locker, a, q), Nothing)} :
                      a \in {"ada", "usdm"}}

SurfMoves(q) ==
    LET pool == At(held, {"pool"})
        with(a, n) == "pool" :> With(pool, a, n)
        tok == "tok" :> q
        box == "vaultbox" :> ("coll" :> 3 @@ "vault" :> 1 @@ "ada" :> 2)
    IN  {Move("create_pool", Nothing, {}, "pool" :> (tok @@ "pool_nft" :> 1), Nothing, "pool_nft" :> 1, {}),
         Move("supply", tok, {"pool"}, with("tok", q), "ctok" :> q, "ctok" :> q, {}),
         Move("withdraw", tok, {"pool"}, with("tok", -q), tok, "ctok" :> -q, {}),
         Move("borrow", tok @@ "coll" :> 3, {"pool"}, with("tok", -q) @@ box, tok, "vault" :> 1, {}),
         Move("repay", tok @@ "coll" :> 3, {"pool", "vaultbox"}, with("tok", q), "coll" :> 3, "vault" :> -1, {}),
         Move("close_pool", Nothing, {"pool"}, Nothing, Only(pool, {"tok"}), "pool_nft" :> -1, {}),
         Move("touch", Nothing, {"pool"}, with("tok", 1), Nothing, Nothing, {})}

LiqwidMoves(q) ==
    UNION {{Move("supply", r :> q, {}, Nothing, r :> q, r :> q, cues),
            Move("withdraw", r :> q, {}, Nothing, (IF r = "qada" THEN "ada" ELSE "tok") :> q, r :> -q, cues)} :
           r \in {"qada", "qtok"}, cues \in {{}, {"keeper_first"}}}

OptimMoves(q) ==
    {Move("mint_oada", "oada" :> q, {}, "amo" :> ("ada" :> q), "oada" :> q, "oada" :> q, {}),
     Move("stake", "soada" :> q, {}, Nothing, "soada" :> q, "soada" :> q, {}),
     Move("unstake", "soada" :> q, {}, Nothing, "oada" :> q, "soada" :> -q, {}),
     Move("lock", "optimiz" :> q, {}, Nothing, "optimiz" :> q, "optimiz" :> q, {}),
     Move("unlock", "optimiz" :> q, {}, Nothing, Nothing, "optimiz" :> -q, {})}

DanoMoves(q) ==
    LET with(n) == "market" :> With(At(held, {"market"}), "ada", n)
        ada == "ada" :> q
    IN  {Move("touch", Nothing, {}, "market" :> ("ada" :> 6), Nothing, Nothing, {}),
         Move("touch", Nothing, {"market"}, with(1), Nothing, Nothing, {}),
         Move("supply", ada, {"market"}, with(q), "dtoken" :> q, "dtoken" :> q, {}),
         Move("withdraw", ada, {"market"}, with(-q), ada, "dtoken" :> -q, {}),
         Move("borrow", ada, {"market"}, with(-q), ada, "loan" :> 1, {}),
         Move("repay", ada, {"market"}, with(q), Nothing, "loan" :> -1, {})}

ClmmMoves(q) ==
    LET swap(n) == "clmm" :> With(With(At(held, {"clmm"}), "ada", n), "tok", -n)
        both == "ada" :> q @@ "tok" :> q
    IN  {Move("touch", Nothing, {}, "clmm" :> ("ada" :> 4 @@ "tok" :> 4), Nothing, Nothing, {}),
         Move("touch", Nothing, {"clmm"}, "clmm" :> With(At(held, {"clmm"}), "tok", 1), Nothing, Nothing, {}),
         Move("buy", both, {"clmm"}, swap(q), "tok" :> q, Nothing, {}),
         Move("sell", both, {"clmm"}, swap(-q), "ada" :> q, Nothing, {})}

Moves(q) ==
    CASE app = "wayup" -> WayupMoves(q)
      [] app = "iagon" -> IagonMoves(q)
      [] app = "indigo" -> IndigoMoves(q)
      [] app = "fluidtokens" -> FluidMoves(q)
      [] app = "strike" -> StrikeMoves(q)
      [] app = "surf" -> SurfMoves(q)
      [] app = "liqwid" -> LiqwidMoves(q)
      [] app = "optim" -> OptimMoves(q)
      [] app = "dano" -> DanoMoves(q)
      [] app = "dano_clmm" -> ClmmMoves(q)

(* Slots a later move may spend. *)
Slots == {"ask", "bid", "node", "delegation", "batcher", "cdp", "sp_pool", "sp_account", "staking",
          "rob", "general", "tank", "pool_manager", "lender_manager", "locker", "pool", "vaultbox", "market", "clmm"}

(* A move the ledger accepts: it spends what is there, pays from it, and   *)
(* leaves no empty output.                                                 *)
Legal(m) ==
    /\ m.spends \subseteq DOMAIN held
    /\ DOMAIN m.scripts \cap DOMAIN held \subseteq m.spends
    /\ \A s \in DOMAIN m.scripts : \E a \in DOMAIN Coins(m.scripts[s]) : m.scripts[s][a] > 0
    /\ \A s \in DOMAIN m.scripts : \A a \in DOMAIN m.scripts[s] : m.scripts[s][a] \in 0..MaxHeld

(* Besides what the move pays: change, a wallet of the protocol, or, which *)
(* only Strike tells apart from it, another party's.                       *)
Besides == {Nothing, "change" :> ("ada" :> 6), "keeper" :> ("ada" :> 9)}
           \union (IF app = "strike" THEN {"stranger" :> ("ada" :> 9), "stranger" :> ("tok" :> 2)} ELSE {})
Cues == CASE app = "wayup" -> {{}, {"wayup"}}
          [] app = "strike" -> {{}, {"signed"}}
          [] OTHER -> {{}}

TxOf(m, other, cues) ==
    LET places == m.scripts @@ other @@ "user" :> With(m.pay, "ada", 2)
    IN  [spends |-> m.spends, mint |-> m.mint, cues |-> m.cues \union cues,
         outs |-> [p \in DOMAIN places |-> Only(places[p], DOMAIN places[p])]]

-----------------------------------------------------------------------------
(* What is published of a transaction. *)

Reported(tx, prior) ==
    CASE app = "wayup" -> WayupEvents(tx, prior)
      [] app = "iagon" -> IagonEvents(tx, prior)
      [] app = "indigo" -> IndigoEvents(tx, prior)
      [] app = "fluidtokens" -> FluidEvents(tx, prior)
      [] app = "strike" -> StrikeEvents(tx, prior)
      [] app = "surf" -> SurfEvents(tx, prior)
      [] app = "liqwid" -> LiqwidEvents(tx)
      [] app = "optim" -> OptimEvents(tx)
      [] OTHER -> DanoEvents(tx, balances) \union ClmmEvents(tx, balances)

Quiet == [does |-> "touch", moved |-> Nothing, known |-> TRUE, other |-> {}, events |-> {},
          named |-> FALSE]

ActivityInit ==
    /\ app \in Apps
    /\ held = IF app = "indigo" THEN "sp_pool" :> ("iasset" :> 3) ELSE Nothing
    /\ known = {}
    /\ before = held
    /\ balances = Nothing
    /\ last = Quiet

(* A transaction is made, scanned and its outputs tracked. *)
Transact(m, other, cues) ==
    LET tx == TxOf(m, other, cues)
        prior == [s \in m.spends \cap known |-> held[s]]
        made == DOMAIN m.scripts \cap Slots
    IN  /\ Legal(m)
        /\ DOMAIN other \cap DOMAIN m.scripts = {}
        /\ Cardinality((DOMAIN held \ m.spends) \union made) <= MaxOpen
        /\ last' = [does |-> m.does, moved |-> m.moved, other |-> DOMAIN other,
                    known |-> IF OfDano THEN \A s \in m.spends : s \in DOMAIN balances /\ balances[s] = held[s]
                              ELSE m.spends \subseteq known,
                    named |-> "signed" \in tx.cues \/ OwnerNamed(tx, prior),
                    events |-> Reported(tx, prior)]
        /\ held' = [s \in (DOMAIN held \ m.spends) \union made |->
                        IF s \in made THEN tx.outs[s] ELSE held[s]]
        /\ known' = IF OfDano THEN {} ELSE (known \ m.spends) \union made
        /\ before' = IF OfDano THEN held ELSE before
        /\ balances' = IF OfDano THEN ClmmSeen(tx, DanoSeen(tx, balances)) ELSE balances
        /\ UNCHANGED app

(* The tracker loses an output, or the cache a balance. *)
Forget(s) ==
    /\ s \in known \union DOMAIN balances
    /\ known' = known \ {s}
    /\ balances' = [r \in DOMAIN balances \ {s} |-> balances[r]]
    /\ last' = Quiet
    /\ UNCHANGED <<app, held, before>>

(* The last transaction is rolled back; Dano's cache keeps the balance it  *)
(* left.  What the others then know, Forget gives.                         *)
Undo ==
    /\ OfDano
    /\ held' = before
    /\ last' = Quiet
    /\ UNCHANGED <<app, known, before, balances>>

ActivityNext ==
    \/ \E q \in Amounts : \E m \in Moves(q), other \in Besides, cues \in Cues : Transact(m, other, cues)
    \/ \E s \in known \union DOMAIN balances : Forget(s)
    \/ Undo

ActivitySpec == ActivityInit /\ [][ActivityNext]_activityVars
-----------------------------------------------------------------------------
(* Actions whose amount is what the output holds, not what was added; a    *)
(* retirement leaves its amount to the withdrawal reported with it.        *)
ToldInFull == {"node_pledge", "stake_delegation", "node_retirement"}

(* Of these the price is read off the wallets, and ADA-only change the     *)
(* transaction pays is added to it, or taken for it.                       *)
CountsChange == {"sale", "accept_offer", "position_sale"}

(* Surf looks for the collateral of a loan repaid at whoever it says acted.*)
LosesCollateral == app = "surf" /\ last.does = "repay" /\ "keeper" \in last.other

(* An action whose inputs the scanner knows is reported, by its name and   *)
(* with the amounts that moved.                                            *)
ActionIsTold ==
    last.known /\ last.does # "touch" =>
        \E e \in last.events :
            /\ e.type = last.does
            /\ \/ DOMAIN last.moved = {} \/ last.does \in ToldInFull
               \/ last.does \in CountsChange /\ last.other # {}
               \/ LosesCollateral
               \/ Only(e.told, DOMAIN last.moved) = Only(last.moved, DOMAIN last.moved)

(* What else one action is reported as. *)
Says(does) ==
    {does} \union (CASE does = "node_registration" -> {"node_pledge"}
                     [] does = "node_retirement" -> {"stake_withdrawal"}
                     [] does = "stake_withdrawal" -> {"node_pledge"}
                     [] does = "redeem_rob" -> {"redeem_cdp"}
                     [] OTHER -> {})

(* Of a transaction whose inputs the scanner knows nothing else is         *)
(* reported: a protocol's own rewrites are not taken for a user's action.  *)
NothingElseIsTold ==
    last.known => \A e \in last.events : e.type \in Says(last.does) /\ last.does # "touch"

(* Amounts that are measured against the outputs spent. *)
Measured ==
    CASE app = "iagon" -> {"stake_withdrawal", "earnings_claim"}
      [] app = "indigo" -> {"close_cdp", "liquidate_cdp", "deposit_collateral", "withdraw_collateral",
                            "create_sp_account", "close_sp_account", "deposit_sp_account",
                            "withdraw_sp_account", "deposit_staking", "withdraw_staking", "close_staking"}
      [] app = "strike" -> {"deposit", "withdraw"}
      [] app = "surf" -> {"supply", "withdraw", "borrow", "repay"}
      [] OfDano -> {"supply", "withdraw", "borrow", "repay", "buy", "sell"}
      [] OTHER -> {}

(* Those that take an output the scanner lost for one that held nothing:   *)
(* what remains of a balance is told as if it had been added to it, though *)
(* indigo.rs:528 says "never attribute the whole pool balance" and         *)
(* strike.rs:421 that a locker lost is told as withdrawn from.             *)
Trusting ==
    CASE app = "indigo" -> {"deposit_sp_account", "deposit_staking"}
      [] app = "strike" -> {"deposit"}
      [] OfDano -> Measured                  \* and its cache may be out of date
      [] OTHER -> {}

(* A measured amount is never more than what moved, whatever the scanner   *)
(* lost: an unknown input makes it small, or leaves the event out; but for *)
(* the actions that trust what they remember, and only if an input is lost.*)
AmountIsReal ==
    \A e \in last.events :
        e.type \in Measured /\ (last.known \/ e.type \notin Trusting) =>
            \A a \in DOMAIN e.told : e.told[a] <= Amt(last.moved, a)

(* The user is named as the one who acted, unless another wallet is paid   *)
(* more ADA; where the scanner looks for the receipt of what moved, or     *)
(* knows the protocol's own wallets, even then.  Strike names a stranger   *)
(* only of a locker that names no owner, unsigned.  Of a position sold the *)
(* seller, who is paid, is named.                                          *)
ByReceipt == {"earnings_claim", "stake_withdrawal", "stake", "lock", "mint_oada"}
ActorIsUser ==
    \A e \in last.events :
        \/ e.actor = "user" \/ e.type = "position_sale"
        \/ app = "strike" /\ "stranger" \in last.other /\ ~last.named
        \/ /\ "keeper" \in last.other /\ app # "strike"
           /\ e.type \in ByReceipt => "ada" \in DOMAIN e.told
=============================================================================
