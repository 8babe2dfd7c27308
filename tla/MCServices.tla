----------------------------- MODULE MCServices -----------------------------
(***************************************************************************)
(* Instances of ten components for TLC.  They share no state that is       *)
(* modelled, so a behaviour is one of a single component: part says which, *)
(* and the others do not move.                                             *)
(***************************************************************************)
EXTENDS Claims, Quotations, EventQueue, LicenseUsage, ErpConnections, ErpBreaker,
        Targets, DeviceRecords, Rewards, Loyalty, TLC

CONSTANTS
    Parts,                            \* the components that are run
    r1, r2, r3, x1, x2,               \* requests and amounts of claims
    u1, u2, q1, q2,                   \* users of quotations, quotations
    l1, l2, f1, f2,                   \* licences, flushes
    c1, c2, c3, c4, e1, e2, e3,       \* callers of connections and queries
    d1, d2, d3,                       \* callers of the devices' records
    w1, w2, m1, m2                    \* awards of experience, members' calls

ASSUME PartsAssumption ==
    Parts \subseteq {"claims", "quotations", "events", "usage", "connections",
                     "breaker", "targets", "devices", "rewards", "loyalty"}

VARIABLE part

(* A licence whose uid begins with the other's, as 10 with 1.              *)
OneConfused == {<<l1, l2>>}

(* Times that are duplicates, too close, and far enough apart.             *)
SomeDeviceCalls ==
    {OpenAt(1), OpenAt(4), CloseAt(3), CloseAt(5), Pair(1, 3), Pair(6, 7), Pair(4, NoTime),
     Pair(NoTime, 3), Pair(NoTime, NoTime)}

(* The first caller opens, the others close, one of them also again.       *)
SomeMayAsk ==
    (d1 :> {OpenAt(1), OpenAt(4), Pair(1, 3), Pair(4, NoTime), Pair(NoTime, NoTime)}) @@
    (d2 :> {CloseAt(3), CloseAt(5), Pair(NoTime, 3)}) @@
    (d3 :> {CloseAt(5), Pair(NoTime, 3), Pair(6, 7), Pair(4, NoTime)})

(* The last closing event comes when the first update is no longer recent. *)
SomeSince == [q \in SomeDeviceCalls |-> IF q = CloseAt(5) THEN 1 ELSE 0]

(* A progress that a calculation refuses to save, and one above the truth. *)
SomeProgress == {-1, 3}

(* Awards of one and two cross both levels, and the last one's end; a fine *)
(* takes one.                                                              *)
SomeAmounts == {-1, 1, 2}
SomeLevels == <<[min |-> 0, max |-> 2], [min |-> 3, max |-> 4]>>

servicesVars == <<part, claimVars, quoteVars, eventVars, usageVars, connVars,
                  breakerVars, targetVars, deviceVars, rewardsVars, loyaltyVars>>

ServicesInit ==
    /\ part \in Parts
    /\ ClaimsInit
    /\ QuotationsInit
    /\ part # "quotations" => quotation.status = "draft"
    /\ EventsInit
    /\ UsageInit
    /\ ConnectionsInit
    /\ BreakerInit
    /\ TargetsInit
    /\ DevicesInit
    /\ RewardsInit
    /\ LoyaltyInit

Alone(p) ==
    /\ part = p
    /\ UNCHANGED part
    /\ IF p = "claims"      THEN TRUE ELSE UNCHANGED claimVars
    /\ IF p = "quotations"  THEN TRUE ELSE UNCHANGED quoteVars
    /\ IF p = "events"      THEN TRUE ELSE UNCHANGED eventVars
    /\ IF p = "usage"       THEN TRUE ELSE UNCHANGED usageVars
    /\ IF p = "connections" THEN TRUE ELSE UNCHANGED connVars
    /\ IF p = "breaker"     THEN TRUE ELSE UNCHANGED breakerVars
    /\ IF p = "targets"     THEN TRUE ELSE UNCHANGED targetVars
    /\ IF p = "devices"     THEN TRUE ELSE UNCHANGED deviceVars
    /\ IF p = "rewards"     THEN TRUE ELSE UNCHANGED rewardsVars
    /\ IF p = "loyalty"     THEN TRUE ELSE UNCHANGED loyaltyVars

ServicesNext ==
    \/ Alone("claims") /\ ClaimsNext
    \/ Alone("quotations") /\ QuotationsNext
    \/ Alone("events") /\ EventsNext
    \/ Alone("usage") /\ UsageNext
    \/ Alone("connections") /\ ConnectionsNext
    \/ Alone("breaker") /\ BreakerNext
    \/ Alone("targets") /\ TargetsNext
    \/ Alone("devices") /\ DevicesNext
    \/ Alone("rewards") /\ RewardsNext
    \/ Alone("loyalty") /\ LoyaltyNext

(* Nothing that fairness speaks of is enabled in a component that does not *)
(* move, so the fairness of one says nothing of the others.                *)
ServicesFairness == EventsFairness /\ BreakerFairness

ServicesSpec == ServicesInit /\ [][ServicesNext]_servicesVars /\ ServicesFairness

(* Every variable of every component has its type. *)
ServicesTypeOK ==
    /\ ClaimsTypeOK
    /\ QuotationsTypeOK
    /\ EventsTypeOK
    /\ UsageTypeOK
    /\ ConnectionsTypeOK
    /\ BreakerTypeOK
    /\ TargetsTypeOK
    /\ DevicesTypeOK
    /\ RewardsTypeOK
    /\ LoyaltyTypeOK
=============================================================================
