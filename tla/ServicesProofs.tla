--------------------------- MODULE ServicesProofs ---------------------------
(***************************************************************************)
(* The instance the runs check is made of the components themselves: what  *)
(* is proved of each of them holds there.                                  *)
(***************************************************************************)
EXTENDS MCServices, ClaimsShopProofs, CountingProofs, ErpProofs, DeviceProofs

(* A step of the instance is a step of each component, or leaves it alone. *)
LEMMA EachSteps ==
    ASSUME [ServicesNext]_servicesVars
    PROVE  /\ [ClaimsNext]_claimVars /\ [QuotationsNext]_quoteVars
           /\ [EventsNext]_eventVars /\ [UsageNext]_usageVars
           /\ [ConnectionsNext]_connVars /\ [BreakerNext]_breakerVars
           /\ [TargetsNext]_targetVars /\ [DevicesNext]_deviceVars
           /\ [RewardsNext]_rewardsVars /\ [LoyaltyNext]_loyaltyVars
<1>1. CASE UNCHANGED servicesVars BY <1>1 DEF servicesVars
<1>2. CASE ServicesNext
  <2>1. CASE Alone("claims") /\ ClaimsNext BY <2>1 DEF Alone
  <2>2. CASE Alone("quotations") /\ QuotationsNext BY <2>2 DEF Alone
  <2>3. CASE Alone("events") /\ EventsNext BY <2>3 DEF Alone
  <2>4. CASE Alone("usage") /\ UsageNext BY <2>4 DEF Alone
  <2>5. CASE Alone("connections") /\ ConnectionsNext BY <2>5 DEF Alone
  <2>6. CASE Alone("breaker") /\ BreakerNext BY <2>6 DEF Alone
  <2>7. CASE Alone("targets") /\ TargetsNext BY <2>7 DEF Alone
  <2>8. CASE Alone("devices") /\ DevicesNext BY <2>8 DEF Alone
  <2>9. CASE Alone("rewards") /\ RewardsNext BY <2>9 DEF Alone
  <2>10. CASE Alone("loyalty") /\ LoyaltyNext BY <2>10 DEF Alone
  <2> QED BY <1>2, <2>1, <2>2, <2>3, <2>4, <2>5, <2>6, <2>7, <2>8, <2>9, <2>10 DEF ServicesNext
<1> QED BY <1>1, <1>2

(* The instance implements every component, fairness included.             *)
THEOREM InstanceIsEach ==
    ServicesSpec => /\ ClaimsSpec /\ QuotationsSpec /\ EventsSpec /\ UsageSpec
                    /\ ConnectionsSpec /\ BreakerSpec /\ TargetsSpec /\ DevicesSpec
                    /\ RewardsSpec /\ LoyaltySpec
<1>1. ServicesInit => /\ ClaimsInit /\ QuotationsInit /\ EventsInit /\ UsageInit
                      /\ ConnectionsInit /\ BreakerInit /\ TargetsInit /\ DevicesInit
                      /\ RewardsInit /\ LoyaltyInit
      BY DEF ServicesInit
<1> QED BY <1>1, EachSteps, PTL
    DEF ServicesSpec, ServicesFairness, ClaimsSpec, QuotationsSpec, EventsSpec, UsageSpec,
        ConnectionsSpec, BreakerSpec, TargetsSpec, DevicesSpec, RewardsSpec, LoyaltySpec

(* Every variable of every component always has its type.                  *)
THEOREM ServicesTyping == ServicesSpec => []ServicesTypeOK
<1>1. /\ QuoteInv => QuotationsTypeOK
      /\ EventsInv => EventsTypeOK
      /\ UsageInv => UsageTypeOK
      /\ TargetInv => TargetsTypeOK
      /\ XPInv => RewardsTypeOK
      /\ CreditInv => LoyaltyTypeOK
      BY DEF QuoteInv, EventsInv, UsageInv, TargetInv, XPInv, CreditInv
<1>2. (/\ ClaimsTypeOK /\ QuotationsTypeOK /\ EventsTypeOK /\ UsageTypeOK
       /\ ConnectionsTypeOK /\ BreakerTypeOK /\ TargetsTypeOK /\ DevicesTypeOK
       /\ RewardsTypeOK /\ LoyaltyTypeOK)
        => ServicesTypeOK
      BY DEF ServicesTypeOK
<1> QED BY <1>1, <1>2, InstanceIsEach, ClaimsTyping, QuotationsInductive, EventsInductive,
           UsageInductive, ConnectionsTyping, BreakerTyping, TargetsInductive, DevicesTyping,
           XPInductive, CreditInductive, PTL
=============================================================================
