----------------------------- MODULE MCServices -----------------------------
(***************************************************************************)
(* Model checking of three services that share no state: the past of a     *)
(* certificate's key (CertHistory), the token-transfer card (Transfers)    *)
(* and the name caches (MetaCaches, whose pool, DRep and title caches do   *)
(* not touch each other either).  A behaviour exercises one of them.       *)
(***************************************************************************)
EXTENDS CertHistory, Transfers, MetaCaches

CONSTANTS
    Parts,                  \* the services to exercise
    stake1, stake2, pool,   \* keys of certificates
    key1, key2, script, byron, token, other, \* owners and assets
    id1, id2, gov1, gov2    \* cached ids and governance actions

VARIABLE part

vars == <<historyVars, transferVars, cacheVars, titleVars, part>>

-----------------------------------------------------------------------------
(* Delegations: one stake key is delegated to a pool, deregistered, or     *)
(* delegated twice at once; a second to a pool and a special DRep at once. *)
(* Registrations: two parameter sets for a pool, one after the other or    *)
(* both at once.  The backend spells the DRep and the parameters its own   *)
(* way.                                                                    *)

Sets(what, key, to) == [what |-> what, key |-> key, to |-> to]
MCDelegations ==
    {<<Sets("pool", stake1, "A")>>, <<Sets("pool", stake1, "B"), Sets("pool", stake1, "C")>>,
     <<Sets("end", stake1, "A")>>, <<Sets("drep", stake2, "abstain")>>}
MCRegistrations ==
    {<<Sets("reg", pool, "P")>>, <<Sets("reg", pool, "P"), Sets("reg", pool, "Q")>>}
MCTxKinds == MCDelegations \union MCRegistrations
MCServed ==
    [p \in {"A", "B", "C"} |-> p] @@ ("abstain" :> "drep_always_abstain")
    @@ ("P" :> "row of P") @@ ("Q" :> "row of Q")
MCMeaning ==
    [v \in {"A", "B", "C", "abstain", "P", "Q"} |-> v]
    @@ ("drep_always_abstain" :> "abstain") @@ ("row of P" :> "P") @@ ("row of Q" :> "Q")

-----------------------------------------------------------------------------
(* Transfers: one or two inputs of two wallets that hold two tokens and    *)
(* one of another asset (which may be burned), one or two outputs, to      *)
(* either wallet, a script or a Byron address.                             *)

Coins(owners) == {[owner |-> o, holds |-> (token :> n @@ other :> m)] :
                    o \in owners, n \in 0..2, m \in 0..1}
OneOrTwo(S) == {<<x>> : x \in S} \cup {<<x, y>> : x \in S, y \in S}
\* Two wallets are paid, and the tokens go to a third that is Byron's.
ToByron ==
    LET coin(o, n, m) == [owner |-> o, holds |-> token :> n @@ other :> m]
    IN  [ins |-> <<coin(key1, 2, 1)>>,
         outs |-> <<coin(key1, 0, 1), coin(key2, 0, 0), coin(byron, 2, 0)>>,
         mint |-> token :> 0 @@ other :> 0]
MCOffers ==
    {ToByron} \cup {t \in [ins  : OneOrTwo(Coins({key1, key2})),
            outs : OneOrTwo(Coins({key1, key2, script, byron})),
            mint : {token :> 0 @@ other :> m : m \in -1..0}] :
        /\ \A a \in {token, other} : Total(t.ins, a) + t.mint[a] = Total(t.outs, a)
        /\ Total(t.ins, token) = 2 /\ Total(t.ins, other) = 1
        /\ Len(t.ins) = 2 => t.ins[1].owner = key1 /\ t.mint[other] = 0}
MCAssetOrder == token :> 1 @@ other :> 2

MCListing == <<id1, id2>>
MCMaxLookups == [pools |-> 1, dreps |-> 1]

-----------------------------------------------------------------------------
Init ==
    /\ HistoryInit /\ TransferInit /\ CacheInit /\ TitleInit
    /\ part \in Parts
    \* the services not exercised start in one state only
    /\ part # "transfer" => scams = {}
    \* of the two ids one has a name at first
    /\ name = id1 :> 1 @@ id2 :> 0

\* The chain holds certificates of stake keys, and is shorter, or of pools.
Certifies(kinds, blocks) ==
    \A k \in DOMAIN node' : node'[k].tx.does \in kinds /\ node'[k].block <= blocks
DelegationPart ==
    /\ part = "delegations" /\ HistoryNext /\ Certifies(MCDelegations, 2)
    /\ UNCHANGED <<transferVars, cacheVars, titleVars>>
RegistrationPart ==
    /\ part = "registrations" /\ HistoryNext /\ Certifies(MCRegistrations, 3)
    /\ UNCHANGED <<transferVars, cacheVars, titleVars>>
TransferPart == part = "transfer" /\ TransferNext /\ UNCHANGED <<historyVars, cacheVars, titleVars>>
PoolPart     == part = "pools" /\ PoolNext /\ UNCHANGED <<historyVars, transferVars, titleVars>>
DrepPart     == part = "dreps" /\ DrepNext /\ UNCHANGED <<historyVars, transferVars, titleVars>>
TitlePart    == part = "titles" /\ TitleNext /\ UNCHANGED <<historyVars, transferVars, cacheVars>>

Next == /\ DelegationPart \/ RegistrationPart \/ TransferPart \/ PoolPart \/ DrepPart \/ TitlePart
        /\ UNCHANGED part

Spec == Init /\ [][Next]_vars
=============================================================================
