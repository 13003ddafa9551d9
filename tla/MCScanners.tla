----------------------------- MODULE MCScanners -----------------------------
(***************************************************************************)
(* Model checking of what the scanners remember (UtxoTracker), what they   *)
(* tell of DEX orders (DexOrders) and of the other dApps (DappActivity).   *)
(* They read one ledger each; a behaviour exercises one of them.           *)
(***************************************************************************)
EXTENDS UtxoTracker, DexOrders, DappActivity

CONSTANTS
    Parts,          \* the models to exercise
    thread1, thread2, \* threads of outputs
    o1, o2          \* orders

VARIABLE part

-----------------------------------------------------------------------------
(* Two threads whose hashes sort in opposite directions. *)

MCHashRank == [x \in {thread1, thread2} \X (0..Final) |-> IF x[1] = thread1 THEN x[2] ELSE 20 - x[2]]

-----------------------------------------------------------------------------
(* Two orders: of one transaction or two, at one venue or two, with every  *)
(* kind of venue and datum among them.                                     *)

Order(tx, venue, kind, side, datum, anon) ==
    [tx |-> tx, venue |-> venue, kind |-> kind, side |-> side, give |-> {"B"},
     ask |-> "A", datum |-> datum, anon |-> anon]
Ask(order, give, ask) == [order EXCEPT !.give = give, !.ask = ask]

MinswapBuy == Ask(Order(1, "minswap", "amm", "buy", "none", FALSE), {}, "A")
Named == Order(1, "minswap", "amm", "sell", "named", FALSE)
Lp == Order(1, "minswap", "amm", "lp", "none", FALSE)
Book == Order(1, "geniusyield", "book", "sell", "named", FALSE)
Vyfi == Order(1, "vyfinance", "vyfi", "sell", "named", FALSE)
Splash(datum) == Ask(Order(1, "splash", "amm", "sell", datum, TRUE), {"C"}, "ada")
Swap == Ask(Order(1, "minswap", "amm", "swap", "pool", FALSE), {"B", "C"}, "D")
SecondTx(order) == [order EXCEPT !.tx = 2]

(* Two more, for a tracker with room for one. *)
Crowded == o1 :> Named @@ o2 :> SecondTx(Named)

MCShapes ==
    {Crowded} \union {(o1 :> p[1] @@ o2 :> p[2]) : p \in
        {<<MinswapBuy, SecondTx(Ask(Named, {"C"}, "D"))>>, <<Swap, Named>>, <<Lp, Book>>,
         <<Named, SecondTx(Vyfi)>>, <<Splash("none"), Lp>>, <<Named, Splash("named")>>}}

-----------------------------------------------------------------------------
(* The nine dApp scanners; Dano's order book and its pools are two. *)

MCApps == {"wayup", "iagon", "indigo", "fluidtokens", "strike", "surf", "liqwid", "optim", "dano",
           "dano_clmm"}

-----------------------------------------------------------------------------
Init ==
    /\ ThreadsInit /\ OrdersInit /\ ActivityInit
    /\ part \in Parts
    \* the models not exercised start in one state only
    /\ part # "threads" => scanner = CHOOSE s \in Scanners : TRUE
    /\ (cap = 1) = (shape = Crowded)
    /\ part # "orders" => shape = Crowded
    /\ part # "activity" => app = CHOOSE p \in Apps : TRUE

ThreadsPart  == part = "threads" /\ ThreadsNext /\ UNCHANGED <<ordersVars, activityVars>>
OrdersPart   == part = "orders" /\ OrdersNext /\ UNCHANGED <<threadVars, activityVars>>
ActivityPart == part = "activity" /\ ActivityNext /\ UNCHANGED <<threadVars, ordersVars>>

Next == (ThreadsPart \/ OrdersPart \/ ActivityPart) /\ UNCHANGED part

Spec == Init /\ [][Next]_<<threadVars, ordersVars, activityVars, part>>
=============================================================================
