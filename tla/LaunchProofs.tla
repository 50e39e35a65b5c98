---------------------------- MODULE LaunchProofs ----------------------------
(***************************************************************************)
(* Proofs about Launch, for every number of concurrent calls, tiers,       *)
(* campaign ids and failures: only the claimed campaign is ever switched   *)
(* on, never before all its tiers are, and a launch earns trust once; and  *)
(* calls that take turns never stack a duplicate on Meta.                  *)
(***************************************************************************)
EXTENDS Launch, FiniteSetTheorems, TLAPS

(* The part of the type invariant that the proofs use.                     *)
LaunchTypes ==
  /\ campaigns \in SUBSET CampaignId
  /\ rowStatus \in {"NONE", "IN_REVIEW", "ACTIVE"}
  /\ rowMeta \in CampaignId \cup {None}
  /\ adsetRows \in [Role -> Nat]
  /\ phase \in {"APPROVED", "LIVE"}
  /\ trust \in Nat
  /\ at \in [Launcher -> Place]
  /\ target \in [Launcher -> CampaignId \cup {None}]
  /\ missing \in [Launcher -> SUBSET Role]
  /\ listed \in [Launcher -> SUBSET adsets]
  /\ made \in [Launcher -> SUBSET Role]
  /\ inHand \in [Launcher -> adsets \cup {None}]
  /\ trustRead \in [Launcher -> Nat]

InHand == {"ads", "ad", "activate"}
Building == {"roles", "list", "tiers", "commit"} \cup InHand

(* The open row names the campaign for good, and every call that builds is *)
(* building that one.                                                      *)
OneTarget ==
  /\ phase = "LIVE" <=> rowStatus = "ACTIVE"
  /\ \A l \in Launcher :
       /\ at[l] \in Building \cup {"adopt"} => rowStatus # "NONE"
       /\ at[l] \in Building => target[l] = rowMeta

OnlyClaimedIsOn ==
  /\ rowStatus = "NONE" => campaignsOn = {}
  /\ campaignsOn \subseteq {rowMeta}

(* The ad set in hand is one of the campaign that is being built.          *)
InHandIsOurs ==
  \A l \in Launcher :
    /\ at[l] \in InHand \cup {"tiers", "commit"} => \A a \in listed[l] : a.camp = rowMeta
    /\ at[l] \in InHand => inHand[l] \in adsets /\ inHand[l].camp = rowMeta

(* An ad set has its ad before it is switched on.                          *)
AdFirst ==
  /\ \A a \in adsetsOn : AdsOf(a) # {}
  /\ \A l \in Launcher : at[l] = "activate" => AdsOf(inHand[l]) # {}

(* What a call no longer misses is on, except for what it has in hand.     *)
PlacedIsOn ==
  /\ \A r \in Role : adsetRows[r] > 0 => rowStatus # "NONE" /\ Built(rowMeta, r)
  /\ \A l \in Launcher : \A r \in Role \ missing[l] :
       /\ at[l] \in {"list", "tiers", "commit"} => Built(rowMeta, r)
       /\ at[l] \in InHand => Built(rowMeta, r) \/ inHand[l].role = r

(* A row is on its way, or there already, for what is not missing.         *)
PlacedHasRow ==
  \A l \in Launcher : \A r \in Role \ missing[l] :
    at[l] \in {"list", "tiers", "commit"} \cup InHand => r \in made[l] \/ adsetRows[r] > 0

CommitIsComplete ==
  \A l \in Launcher :
    at[l] = "commit" => missing[l] = {} /\ target[l] \in campaignsOn

(* Every call that can still commit has read a trust of zero.              *)
TrustIsFresh ==
  \A l \in Launcher :
    /\ at[l] \notin {"idle", "check"} => trustRead[l] = 0
    /\ at[l] = "check" /\ phase # "LIVE" => trustRead[l] = 0

LaunchInv ==
  /\ LaunchTypes /\ OneTarget /\ OnlyClaimedIsOn /\ InHandIsOurs /\ AdFirst /\ PlacedIsOn
  /\ PlacedHasRow /\ CommitIsComplete /\ TrustIsFresh /\ LiveIsComplete /\ TrustEarnedOnce

LEMMA InitLaunch == Init => LaunchInv
  BY LaunchAssumption
  DEF Init, LaunchInv, LaunchTypes, OneTarget, OnlyClaimedIsOn, InHandIsOurs, AdFirst,
      PlacedIsOn, PlacedHasRow, CommitIsComplete, TrustIsFresh, LiveIsComplete, TrustEarnedOnce,
      Building, InHand, Place, Built, AdsOf

LEMMA StartLaunch ==
  ASSUME LaunchInv, NEW l \in Launcher, Start(l)
  PROVE  LaunchInv'
  <1> USE LaunchAssumption
      DEF LaunchInv, LaunchTypes, Start, Goto, Forget,
          metaVars, rowVars, Place, Building, InHand
  <1>1. LaunchTypes'  OBVIOUS
  <1>2. OneTarget'  BY DEF OneTarget
  <1>3. OnlyClaimedIsOn'  BY DEF OnlyClaimedIsOn, OneTarget
  <1>4. InHandIsOurs'  BY DEF InHandIsOurs, OneTarget
  <1>5. PlacedIsOn'  BY DEF PlacedIsOn, InHandIsOurs, OneTarget, Built
  <1>6. PlacedHasRow'  BY DEF PlacedHasRow
  <1>7. CommitIsComplete'  BY DEF CommitIsComplete
  <1>8. TrustIsFresh'  BY DEF TrustIsFresh, TrustEarnedOnce, OneTarget
  <1>9. LiveIsComplete'  BY DEF LiveIsComplete, AdFirst, OneTarget, OnlyClaimedIsOn, PlacedIsOn,
                                PlacedHasRow, CommitIsComplete, Built, AdsOf
  <1>10. TrustEarnedOnce'  BY DEF TrustEarnedOnce, TrustIsFresh, OneTarget
  <1>11. AdFirst'  BY DEF AdFirst, AdsOf, InHandIsOurs
  <1> QED  BY <1>1, <1>2, <1>3, <1>4, <1>5, <1>6, <1>7, <1>8, <1>9, <1>10, <1>11

LEMMA CheckLaunch ==
  ASSUME LaunchInv, NEW l \in Launcher, Check(l)
  PROVE  LaunchInv'
  <1> USE LaunchAssumption
      DEF LaunchInv, LaunchTypes, Check, Goto, Forget,
          metaVars, rowVars, Place, Building, InHand
  <1>1. LaunchTypes'  OBVIOUS
  <1>2. OneTarget'  BY DEF OneTarget
  <1>3. OnlyClaimedIsOn'  BY DEF OnlyClaimedIsOn, OneTarget
  <1>4. InHandIsOurs'  BY DEF InHandIsOurs, OneTarget
  <1>5. PlacedIsOn'  BY DEF PlacedIsOn, InHandIsOurs, OneTarget, Built
  <1>6. PlacedHasRow'  BY DEF PlacedHasRow
  <1>7. CommitIsComplete'  BY DEF CommitIsComplete
  <1>8. TrustIsFresh'  BY DEF TrustIsFresh, TrustEarnedOnce, OneTarget
  <1>9. LiveIsComplete'  BY DEF LiveIsComplete, AdFirst, OneTarget, OnlyClaimedIsOn, PlacedIsOn,
                                PlacedHasRow, CommitIsComplete, Built, AdsOf
  <1>10. TrustEarnedOnce'  BY DEF TrustEarnedOnce, TrustIsFresh, OneTarget
  <1>11. AdFirst'  BY DEF AdFirst, AdsOf, InHandIsOurs
  <1> QED  BY <1>1, <1>2, <1>3, <1>4, <1>5, <1>6, <1>7, <1>8, <1>9, <1>10, <1>11

LEMMA LookForPartialLaunch ==
  ASSUME LaunchInv, NEW l \in Launcher, LookForPartial(l)
  PROVE  LaunchInv'
  <1> USE LaunchAssumption
      DEF LaunchInv, LaunchTypes, LookForPartial, Goto, Forget,
          metaVars, rowVars, Place, Building, InHand
  <1>1. LaunchTypes'  OBVIOUS
  <1>2. OneTarget'  BY DEF OneTarget
  <1>3. OnlyClaimedIsOn'  BY DEF OnlyClaimedIsOn, OneTarget
  <1>4. InHandIsOurs'  BY DEF InHandIsOurs, OneTarget
  <1>5. PlacedIsOn'  BY DEF PlacedIsOn, InHandIsOurs, OneTarget, Built
  <1>6. PlacedHasRow'  BY DEF PlacedHasRow
  <1>7. CommitIsComplete'  BY DEF CommitIsComplete
  <1>8. TrustIsFresh'  BY DEF TrustIsFresh, TrustEarnedOnce, OneTarget
  <1>9. LiveIsComplete'  BY DEF LiveIsComplete, AdFirst, OneTarget, OnlyClaimedIsOn, PlacedIsOn,
                                PlacedHasRow, CommitIsComplete, Built, AdsOf
  <1>10. TrustEarnedOnce'  BY DEF TrustEarnedOnce, TrustIsFresh, OneTarget
  <1>11. AdFirst'  BY DEF AdFirst, AdsOf, InHandIsOurs
  <1> QED  BY <1>1, <1>2, <1>3, <1>4, <1>5, <1>6, <1>7, <1>8, <1>9, <1>10, <1>11

LEMMA FindByNameLaunch ==
  ASSUME LaunchInv, NEW l \in Launcher, FindByName(l)
  PROVE  LaunchInv'
  <1> USE LaunchAssumption
      DEF LaunchInv, LaunchTypes, FindByName, Goto, Forget,
          metaVars, rowVars, Place, Building, InHand
  <1>1. LaunchTypes'  OBVIOUS
  <1>2. OneTarget'  BY DEF OneTarget
  <1>3. OnlyClaimedIsOn'  BY DEF OnlyClaimedIsOn, OneTarget
  <1>4. InHandIsOurs'  BY DEF InHandIsOurs, OneTarget
  <1>5. PlacedIsOn'  BY DEF PlacedIsOn, InHandIsOurs, OneTarget, Built
  <1>6. PlacedHasRow'  BY DEF PlacedHasRow
  <1>7. CommitIsComplete'  BY DEF CommitIsComplete
  <1>8. TrustIsFresh'  BY DEF TrustIsFresh, TrustEarnedOnce, OneTarget
  <1>9. LiveIsComplete'  BY DEF LiveIsComplete, AdFirst, OneTarget, OnlyClaimedIsOn, PlacedIsOn,
                                PlacedHasRow, CommitIsComplete, Built, AdsOf
  <1>10. TrustEarnedOnce'  BY DEF TrustEarnedOnce, TrustIsFresh, OneTarget
  <1>11. AdFirst'  BY DEF AdFirst, AdsOf, InHandIsOurs
  <1> QED  BY <1>1, <1>2, <1>3, <1>4, <1>5, <1>6, <1>7, <1>8, <1>9, <1>10, <1>11

LEMMA CreateCampaignLaunch ==
  ASSUME LaunchInv, NEW l \in Launcher, CreateCampaign(l)
  PROVE  LaunchInv'
  <1> USE LaunchAssumption
      DEF LaunchInv, LaunchTypes, CreateCampaign, NewId, Goto, Forget,
          metaVars, rowVars, Place, Building, InHand
  <1>1. LaunchTypes'  OBVIOUS
  <1>2. OneTarget'  BY DEF OneTarget
  <1>3. OnlyClaimedIsOn'  BY DEF OnlyClaimedIsOn, OneTarget
  <1>4. InHandIsOurs'  BY DEF InHandIsOurs, OneTarget
  <1>5. PlacedIsOn'  BY DEF PlacedIsOn, InHandIsOurs, OneTarget, Built
  <1>6. PlacedHasRow'  BY DEF PlacedHasRow
  <1>7. CommitIsComplete'  BY DEF CommitIsComplete
  <1>8. TrustIsFresh'  BY DEF TrustIsFresh, TrustEarnedOnce, OneTarget
  <1>9. LiveIsComplete'  BY DEF LiveIsComplete, AdFirst, OneTarget, OnlyClaimedIsOn, PlacedIsOn,
                                PlacedHasRow, CommitIsComplete, Built, AdsOf
  <1>10. TrustEarnedOnce'  BY DEF TrustEarnedOnce, TrustIsFresh, OneTarget
  <1>11. AdFirst'  BY DEF AdFirst, AdsOf, InHandIsOurs
  <1> QED  BY <1>1, <1>2, <1>3, <1>4, <1>5, <1>6, <1>7, <1>8, <1>9, <1>10, <1>11

LEMMA ClaimLaunch ==
  ASSUME LaunchInv, NEW l \in Launcher, Claim(l)
  PROVE  LaunchInv'
  <1> USE LaunchAssumption
      DEF LaunchInv, LaunchTypes, Claim, Goto, Forget,
          metaVars, rowVars, Place, Building, InHand
  <1>1. LaunchTypes'  OBVIOUS
  <1>2. OneTarget'  BY DEF OneTarget
  <1>3. OnlyClaimedIsOn'  BY DEF OnlyClaimedIsOn, OneTarget
  <1>4. InHandIsOurs'  BY DEF InHandIsOurs, OneTarget
  <1>5. PlacedIsOn'  BY DEF PlacedIsOn, InHandIsOurs, OneTarget, Built
  <1>6. PlacedHasRow'  BY DEF PlacedHasRow
  <1>7. CommitIsComplete'  BY DEF CommitIsComplete
  <1>8. TrustIsFresh'  BY DEF TrustIsFresh, TrustEarnedOnce, OneTarget
  <1>9. LiveIsComplete'  BY DEF LiveIsComplete, AdFirst, OneTarget, OnlyClaimedIsOn, PlacedIsOn,
                                PlacedHasRow, CommitIsComplete, Built, AdsOf
  <1>10. TrustEarnedOnce'  BY DEF TrustEarnedOnce, TrustIsFresh, OneTarget
  <1>11. AdFirst'  BY DEF AdFirst, AdsOf, InHandIsOurs
  <1> QED  BY <1>1, <1>2, <1>3, <1>4, <1>5, <1>6, <1>7, <1>8, <1>9, <1>10, <1>11

LEMMA AdoptLaunch ==
  ASSUME LaunchInv, NEW l \in Launcher, Adopt(l)
  PROVE  LaunchInv'
  <1> USE LaunchAssumption
      DEF LaunchInv, LaunchTypes, Adopt, Goto, Forget,
          metaVars, rowVars, Place, Building, InHand
  <1>1. LaunchTypes'  OBVIOUS
  <1>2. OneTarget'  BY DEF OneTarget
  <1>3. OnlyClaimedIsOn'  BY DEF OnlyClaimedIsOn, OneTarget
  <1>4. InHandIsOurs'  BY DEF InHandIsOurs, OneTarget
  <1>5. PlacedIsOn'  BY DEF PlacedIsOn, InHandIsOurs, OneTarget, Built
  <1>6. PlacedHasRow'  BY DEF PlacedHasRow
  <1>7. CommitIsComplete'  BY DEF CommitIsComplete
  <1>8. TrustIsFresh'  BY DEF TrustIsFresh, TrustEarnedOnce, OneTarget
  <1>9. LiveIsComplete'  BY DEF LiveIsComplete, AdFirst, OneTarget, OnlyClaimedIsOn, PlacedIsOn,
                                PlacedHasRow, CommitIsComplete, Built, AdsOf
  <1>10. TrustEarnedOnce'  BY DEF TrustEarnedOnce, TrustIsFresh, OneTarget
  <1>11. AdFirst'  BY DEF AdFirst, AdsOf, InHandIsOurs
  <1> QED  BY <1>1, <1>2, <1>3, <1>4, <1>5, <1>6, <1>7, <1>8, <1>9, <1>10, <1>11

LEMMA ReadRolesLaunch ==
  ASSUME LaunchInv, NEW l \in Launcher, ReadRoles(l)
  PROVE  LaunchInv'
  <1> USE LaunchAssumption
      DEF LaunchInv, LaunchTypes, ReadRoles, Goto, Forget,
          metaVars, rowVars, Place, Building, InHand
  <1>1. LaunchTypes'  OBVIOUS
  <1>2. OneTarget'  BY DEF OneTarget
  <1>3. OnlyClaimedIsOn'  BY DEF OnlyClaimedIsOn, OneTarget
  <1>4. InHandIsOurs'  BY DEF InHandIsOurs, OneTarget
  <1>5. PlacedIsOn'  BY DEF PlacedIsOn, InHandIsOurs, OneTarget, Built
  <1>6. PlacedHasRow'  BY DEF PlacedHasRow
  <1>7. CommitIsComplete'  BY DEF CommitIsComplete
  <1>8. TrustIsFresh'  BY DEF TrustIsFresh, TrustEarnedOnce, OneTarget
  <1>9. LiveIsComplete'  BY DEF LiveIsComplete, AdFirst, OneTarget, OnlyClaimedIsOn, PlacedIsOn,
                                PlacedHasRow, CommitIsComplete, Built, AdsOf
  <1>10. TrustEarnedOnce'  BY DEF TrustEarnedOnce, TrustIsFresh, OneTarget
  <1>11. AdFirst'  BY DEF AdFirst, AdsOf, InHandIsOurs
  <1> QED  BY <1>1, <1>2, <1>3, <1>4, <1>5, <1>6, <1>7, <1>8, <1>9, <1>10, <1>11

LEMMA ListAdsetsLaunch ==
  ASSUME LaunchInv, NEW l \in Launcher, ListAdsets(l)
  PROVE  LaunchInv'
  <1> USE LaunchAssumption
      DEF LaunchInv, LaunchTypes, ListAdsets, AdsetsOf, Goto, Forget,
          metaVars, rowVars, Place, Building, InHand
  <1>1. LaunchTypes'  OBVIOUS
  <1>2. OneTarget'  BY DEF OneTarget
  <1>3. OnlyClaimedIsOn'  BY DEF OnlyClaimedIsOn, OneTarget
  <1>4. InHandIsOurs'  BY DEF InHandIsOurs, OneTarget
  <1>5. PlacedIsOn'  BY DEF PlacedIsOn, InHandIsOurs, OneTarget, Built
  <1>6. PlacedHasRow'  BY DEF PlacedHasRow
  <1>7. CommitIsComplete'  BY DEF CommitIsComplete
  <1>8. TrustIsFresh'  BY DEF TrustIsFresh, TrustEarnedOnce, OneTarget
  <1>9. LiveIsComplete'  BY DEF LiveIsComplete, AdFirst, OneTarget, OnlyClaimedIsOn, PlacedIsOn,
                                PlacedHasRow, CommitIsComplete, Built, AdsOf
  <1>10. TrustEarnedOnce'  BY DEF TrustEarnedOnce, TrustIsFresh, OneTarget
  <1>11. AdFirst'  BY DEF AdFirst, AdsOf, InHandIsOurs
  <1> QED  BY <1>1, <1>2, <1>3, <1>4, <1>5, <1>6, <1>7, <1>8, <1>9, <1>10, <1>11

LEMMA PlaceTierLaunch ==
  ASSUME LaunchInv, NEW l \in Launcher, NEW r \in Role, PlaceTier(l, r)
  PROVE  LaunchInv'
  <1> USE LaunchAssumption
      DEF LaunchInv, LaunchTypes, PlaceTier, Goto, Forget,
          metaVars, rowVars, Place, Building, InHand
  <1>1. LaunchTypes'  OBVIOUS
  <1>2. OneTarget'  BY DEF OneTarget
  <1>3. OnlyClaimedIsOn'  BY DEF OnlyClaimedIsOn, OneTarget
  <1>4. InHandIsOurs'  BY DEF InHandIsOurs, OneTarget, NewAdset
  <1>5. PlacedIsOn'  BY DEF PlacedIsOn, InHandIsOurs, OneTarget, Built, NewAdset
  <1>6. PlacedHasRow'  BY DEF PlacedHasRow
  <1>7. CommitIsComplete'  BY DEF CommitIsComplete
  <1>8. TrustIsFresh'  BY DEF TrustIsFresh, TrustEarnedOnce, OneTarget
  <1>9. LiveIsComplete'  BY DEF LiveIsComplete, AdFirst, OneTarget, OnlyClaimedIsOn, PlacedIsOn,
                                PlacedHasRow, CommitIsComplete, Built, AdsOf
  <1>10. TrustEarnedOnce'  BY DEF TrustEarnedOnce, TrustIsFresh, OneTarget
  <1>11. AdFirst'  BY DEF AdFirst, AdsOf, InHandIsOurs
  <1> QED  BY <1>1, <1>2, <1>3, <1>4, <1>5, <1>6, <1>7, <1>8, <1>9, <1>10, <1>11

LEMMA ListAdsLaunch ==
  ASSUME LaunchInv, NEW l \in Launcher, ListAds(l)
  PROVE  LaunchInv'
  <1> USE LaunchAssumption
      DEF LaunchInv, LaunchTypes, ListAds, Goto, Forget,
          metaVars, rowVars, Place, Building, InHand
  <1>1. LaunchTypes'  OBVIOUS
  <1>2. OneTarget'  BY DEF OneTarget
  <1>3. OnlyClaimedIsOn'  BY DEF OnlyClaimedIsOn, OneTarget
  <1>4. InHandIsOurs'  BY DEF InHandIsOurs, OneTarget
  <1>5. PlacedIsOn'  BY DEF PlacedIsOn, InHandIsOurs, OneTarget, Built
  <1>6. PlacedHasRow'  BY DEF PlacedHasRow
  <1>7. CommitIsComplete'  BY DEF CommitIsComplete
  <1>8. TrustIsFresh'  BY DEF TrustIsFresh, TrustEarnedOnce, OneTarget
  <1>9. LiveIsComplete'  BY DEF LiveIsComplete, AdFirst, OneTarget, OnlyClaimedIsOn, PlacedIsOn,
                                PlacedHasRow, CommitIsComplete, Built, AdsOf
  <1>10. TrustEarnedOnce'  BY DEF TrustEarnedOnce, TrustIsFresh, OneTarget
  <1>11. AdFirst'  BY DEF AdFirst, AdsOf, InHandIsOurs
  <1> QED  BY <1>1, <1>2, <1>3, <1>4, <1>5, <1>6, <1>7, <1>8, <1>9, <1>10, <1>11

(* An ad is made for the ad set, and no ad is lost.                        *)
LEMMA MadeAdIsThere ==
  \A a : MakeAd(a) => ads \subseteq ads' /\ \E d \in ads' : d.adset = a
  <1> SUFFICES ASSUME NEW a, MakeAd(a)
               PROVE  ads \subseteq ads' /\ \E d \in ads' : d.adset = a
    OBVIOUS
  <1>1. PICK d : d.adset = a /\ ads' = ads \cup {d}
    <2> DEFINE d == [adset |-> a, n |-> Cardinality(AdsOf(a)) + 1]
    <2>1. d.adset = a  OBVIOUS
    <2>2. ads' = ads \cup {d}  BY DEF MakeAd
    <2> HIDE DEF d
    <2> QED  BY <2>1, <2>2
  <1> QED  BY <1>1

LEMMA CreateAdLaunch ==
  ASSUME LaunchInv, NEW l \in Launcher, CreateAd(l)
  PROVE  LaunchInv'
  <1> USE LaunchAssumption
      DEF LaunchInv, LaunchTypes, CreateAd, MakeAd, Goto, Forget,
          metaVars, rowVars, Place, Building, InHand
  <1>1. LaunchTypes'  OBVIOUS
  <1>2. OneTarget'  BY DEF OneTarget
  <1>3. OnlyClaimedIsOn'  BY DEF OnlyClaimedIsOn, OneTarget
  <1>4. InHandIsOurs'  BY DEF InHandIsOurs, OneTarget
  <1>5. PlacedIsOn'  BY DEF PlacedIsOn, InHandIsOurs, OneTarget, Built
  <1>6. PlacedHasRow'  BY DEF PlacedHasRow
  <1>7. CommitIsComplete'  BY DEF CommitIsComplete
  <1>8. TrustIsFresh'  BY DEF TrustIsFresh, TrustEarnedOnce, OneTarget
  <1>9. AdFirst'
    <2>1. ads \subseteq ads' /\ \E d \in ads' : d.adset = inHand[l]  BY MadeAdIsThere
    <2>2. AdsOf(inHand[l])' # {}  BY <2>1 DEF AdsOf
    <2>3. \A a : AdsOf(a) # {} => AdsOf(a)' # {}  BY <2>1 DEF AdsOf
    <2> QED  BY <2>2, <2>3 DEF AdFirst
  <1>10. LiveIsComplete'
    <2>1. UNCHANGED <<campaignsOn, adsetsOn, rowStatus, rowMeta, adsetRows>>  OBVIOUS
    <2> QED  BY <2>1, <1>9 DEF AdFirst, LiveIsComplete, Built
  <1>11. TrustEarnedOnce'  BY DEF TrustEarnedOnce, TrustIsFresh, OneTarget
  <1> QED  BY <1>1, <1>2, <1>3, <1>4, <1>5, <1>6, <1>7, <1>8, <1>9, <1>10, <1>11

LEMMA ActivateTierLaunch ==
  ASSUME LaunchInv, NEW l \in Launcher, ActivateTier(l)
  PROVE  LaunchInv'
  <1> USE LaunchAssumption
      DEF LaunchInv, LaunchTypes, ActivateTier, Goto, Forget,
          metaVars, rowVars, Place, Building, InHand
  <1>1. LaunchTypes'  OBVIOUS
  <1>2. OneTarget'  BY DEF OneTarget
  <1>3. OnlyClaimedIsOn'  BY DEF OnlyClaimedIsOn, OneTarget
  <1>4. InHandIsOurs'  BY DEF InHandIsOurs, OneTarget
  <1>5. PlacedIsOn'  BY DEF PlacedIsOn, InHandIsOurs, OneTarget, Built
  <1>6. PlacedHasRow'  BY DEF PlacedHasRow
  <1>7. CommitIsComplete'  BY DEF CommitIsComplete
  <1>8. TrustIsFresh'  BY DEF TrustIsFresh, TrustEarnedOnce, OneTarget
  <1>9. LiveIsComplete'  BY DEF LiveIsComplete, AdFirst, OneTarget, OnlyClaimedIsOn, PlacedIsOn,
                                PlacedHasRow, CommitIsComplete, Built, AdsOf
  <1>10. TrustEarnedOnce'  BY DEF TrustEarnedOnce, TrustIsFresh, OneTarget
  <1>11. AdFirst'  BY DEF AdFirst, AdsOf, InHandIsOurs
  <1> QED  BY <1>1, <1>2, <1>3, <1>4, <1>5, <1>6, <1>7, <1>8, <1>9, <1>10, <1>11

LEMMA ActivateCampaignLaunch ==
  ASSUME LaunchInv, NEW l \in Launcher, ActivateCampaign(l)
  PROVE  LaunchInv'
  <1> USE LaunchAssumption
      DEF LaunchInv, LaunchTypes, ActivateCampaign, Goto, Forget,
          metaVars, rowVars, Place, Building, InHand
  <1>1. LaunchTypes'  OBVIOUS
  <1>2. OneTarget'  BY DEF OneTarget
  <1>3. OnlyClaimedIsOn'  BY DEF OnlyClaimedIsOn, OneTarget
  <1>4. InHandIsOurs'  BY DEF InHandIsOurs, OneTarget
  <1>5. PlacedIsOn'  BY DEF PlacedIsOn, InHandIsOurs, OneTarget, Built
  <1>6. PlacedHasRow'  BY DEF PlacedHasRow
  <1>7. CommitIsComplete'  BY DEF CommitIsComplete
  <1>8. TrustIsFresh'  BY DEF TrustIsFresh, TrustEarnedOnce, OneTarget
  <1>9. LiveIsComplete'  BY DEF LiveIsComplete, AdFirst, OneTarget, OnlyClaimedIsOn, PlacedIsOn,
                                PlacedHasRow, CommitIsComplete, Built, AdsOf
  <1>10. TrustEarnedOnce'  BY DEF TrustEarnedOnce, TrustIsFresh, OneTarget
  <1>11. AdFirst'  BY DEF AdFirst, AdsOf, InHandIsOurs
  <1> QED  BY <1>1, <1>2, <1>3, <1>4, <1>5, <1>6, <1>7, <1>8, <1>9, <1>10, <1>11

LEMMA CommitLaunch ==
  ASSUME LaunchInv, NEW l \in Launcher, Commit(l)
  PROVE  LaunchInv'
  <1> USE LaunchAssumption
      DEF LaunchInv, LaunchTypes, Commit, Goto, Forget,
          metaVars, rowVars, Place, Building, InHand
  <1>1. LaunchTypes'  OBVIOUS
  <1>2. OneTarget'  BY DEF OneTarget
  <1>3. OnlyClaimedIsOn'  BY DEF OnlyClaimedIsOn, OneTarget
  <1>4. InHandIsOurs'  BY DEF InHandIsOurs, OneTarget
  <1>5. PlacedIsOn'  BY DEF PlacedIsOn, CommitIsComplete, OneTarget, Built
  <1>6. PlacedHasRow'  BY DEF PlacedHasRow
  <1>7. CommitIsComplete'  BY DEF CommitIsComplete
  <1>8. TrustIsFresh'  BY DEF TrustIsFresh, TrustEarnedOnce, OneTarget
  <1>9. LiveIsComplete'  BY DEF LiveIsComplete, AdFirst, OneTarget, OnlyClaimedIsOn, PlacedIsOn,
                                PlacedHasRow, CommitIsComplete, Built, AdsOf
  <1>10. TrustEarnedOnce'  BY DEF TrustEarnedOnce, TrustIsFresh, OneTarget
  <1>11. AdFirst'  BY DEF AdFirst, AdsOf, InHandIsOurs
  <1> QED  BY <1>1, <1>2, <1>3, <1>4, <1>5, <1>6, <1>7, <1>8, <1>9, <1>10, <1>11

LEMMA FailLaunch ==
  ASSUME LaunchInv, NEW l \in Launcher, Fail(l)
  PROVE  LaunchInv'
  <1> USE LaunchAssumption
      DEF LaunchInv, LaunchTypes, Fail, Goto, Forget,
          metaVars, rowVars, Place, Building, InHand
  <1>1. LaunchTypes'  OBVIOUS
  <1>2. OneTarget'  BY DEF OneTarget
  <1>3. OnlyClaimedIsOn'  BY DEF OnlyClaimedIsOn, OneTarget
  <1>4. InHandIsOurs'  BY DEF InHandIsOurs, OneTarget
  <1>5. PlacedIsOn'  BY DEF PlacedIsOn, InHandIsOurs, OneTarget, Built
  <1>6. PlacedHasRow'  BY DEF PlacedHasRow
  <1>7. CommitIsComplete'  BY DEF CommitIsComplete
  <1>8. TrustIsFresh'  BY DEF TrustIsFresh, TrustEarnedOnce, OneTarget
  <1>9. LiveIsComplete'  BY DEF LiveIsComplete, AdFirst, OneTarget, OnlyClaimedIsOn, PlacedIsOn,
                                PlacedHasRow, CommitIsComplete, Built, AdsOf
  <1>10. TrustEarnedOnce'  BY DEF TrustEarnedOnce, TrustIsFresh, OneTarget
  <1>11. AdFirst'  BY DEF AdFirst, AdsOf, InHandIsOurs
  <1> QED  BY <1>1, <1>2, <1>3, <1>4, <1>5, <1>6, <1>7, <1>8, <1>9, <1>10, <1>11

LEMMA RepeatCreateLaunch ==
  ASSUME LaunchInv, NEW l \in Launcher, RepeatCreate(l)
  PROVE  LaunchInv'
  <1> USE LaunchAssumption
      DEF LaunchInv, LaunchTypes, RepeatCreate, NewId, MakeAd, NewAdset, AdsetsOf, callVars,
          metaVars, rowVars, Place, Building, InHand
  <1>1. LaunchTypes'  OBVIOUS
  <1>2. OneTarget'  BY DEF OneTarget
  <1>3. OnlyClaimedIsOn'  BY DEF OnlyClaimedIsOn, OneTarget
  <1>4. InHandIsOurs'  BY DEF InHandIsOurs, OneTarget
  <1>5. PlacedIsOn'  BY DEF PlacedIsOn, InHandIsOurs, OneTarget, Built
  <1>6. PlacedHasRow'  BY DEF PlacedHasRow
  <1>7. CommitIsComplete'  BY DEF CommitIsComplete
  <1>8. TrustIsFresh'  BY DEF TrustIsFresh, TrustEarnedOnce, OneTarget
  <1>9. AdFirst'
    <2>1. ads \subseteq ads' /\ UNCHANGED <<adsetsOn, at, inHand>>  OBVIOUS
    <2>2. \A a : AdsOf(a) # {} => AdsOf(a)' # {}  BY <2>1 DEF AdsOf
    <2> QED  BY <2>1, <2>2 DEF AdFirst
  <1>10. LiveIsComplete'
    <2>1. UNCHANGED <<campaignsOn, adsetsOn, rowStatus, rowMeta, adsetRows>>  OBVIOUS
    <2> QED  BY <2>1, <1>9 DEF AdFirst, LiveIsComplete, Built
  <1>11. TrustEarnedOnce'  BY DEF TrustEarnedOnce, TrustIsFresh, OneTarget
  <1> QED  BY <1>1, <1>2, <1>3, <1>4, <1>5, <1>6, <1>7, <1>8, <1>9, <1>10, <1>11

LEMMA NextLaunch == LaunchInv /\ [Next]_vars => LaunchInv'
<1> SUFFICES ASSUME LaunchInv, [Next]_vars PROVE LaunchInv'  OBVIOUS
<1>1. ASSUME NEW l \in Launcher, Step(l) \/ RepeatCreate(l) \/ Fail(l) PROVE LaunchInv'
  BY <1>1, StartLaunch, CheckLaunch, LookForPartialLaunch, FindByNameLaunch,
     CreateCampaignLaunch, ClaimLaunch, AdoptLaunch, ReadRolesLaunch, ListAdsetsLaunch,
     PlaceTierLaunch, ListAdsLaunch, CreateAdLaunch, ActivateTierLaunch,
     ActivateCampaignLaunch, CommitLaunch,
     RepeatCreateLaunch, FailLaunch
  DEF Step
<1>2. CASE UNCHANGED vars
  BY <1>2
  DEF vars, LaunchInv, LaunchTypes, OneTarget, OnlyClaimedIsOn, InHandIsOurs, AdFirst,
      PlacedIsOn, PlacedHasRow, CommitIsComplete, TrustIsFresh, LiveIsComplete, TrustEarnedOnce,
      Built, AdsOf
<1> QED  BY <1>1, <1>2 DEF Next

(* The invariant holds in every reachable state.                           *)
THEOREM LaunchInvariance == Spec => []LaunchInv
<1> QED  BY InitLaunch, NextLaunch, PTL DEF Spec

(* A campaign that a race or a crash left behind on Meta never spends.     *)
THEOREM OrphanNeverSpendsHolds == Spec => []OrphanNeverSpends
<1>1. LaunchInv => OrphanNeverSpends  BY DEF LaunchInv, OnlyClaimedIsOn, OrphanNeverSpends
<1> QED  BY LaunchInvariance, <1>1, PTL

(* A campaign is on only with all its tiers, a row is ACTIVE only for one  *)
(* that is on.                                                             *)
THEOREM LiveIsCompleteHolds == Spec => []LiveIsComplete
<1>1. LaunchInv => LiveIsComplete  BY DEF LaunchInv
<1> QED  BY LaunchInvariance, <1>1, PTL

(* A launch earns trust once, however many calls race to its end.          *)
THEOREM TrustEarnedOnceHolds == Spec => []TrustEarnedOnce
<1>1. LaunchInv => TrustEarnedOnce  BY DEF LaunchInv
<1> QED  BY LaunchInvariance, <1>1, PTL

-----------------------------------------------------------------------------
(* Part 2: what Meta holds, and that calls which take turns stack no       *)
(* duplicate. The counting is in three lemmas; the invariants speak of two *)
(* elements being the same instead.                                        *)
MetaInv ==
  /\ campaignsOn \subseteq campaigns
  /\ adsets \subseteq AdSet /\ IsFiniteSet(adsets) /\ adsetsOn \subseteq adsets
  /\ \A a \in adsets : a.camp \in campaigns
  /\ ads \subseteq [adset : adsets, n : Nat \ {0}] /\ IsFiniteSet(ads)
  /\ rowStatus # "NONE" => rowMeta \in campaigns
  /\ \A l \in Launcher : at[l] = "claim" => target[l] \in campaigns
  /\ disturbed \in BOOLEAN /\ failures \in 0..MaxFailures

(* No two calls are under way, and an idle one has nothing left over.      *)
Alone ==
  /\ \A k, l \in Launcher : at[k] # "idle" /\ at[l] # "idle" => k = l
  /\ \A l \in Launcher : at[l] = "idle" => missing[l] = {} /\ made[l] = {}

(* Meta was asked before a campaign is created.                            *)
OneCampaign ==
  /\ \A c, d \in campaigns : c = d
  /\ \A l \in Launcher : at[l] = "create" => campaigns = {}

(* An ad set that the list read before the loop has not got is of a tier   *)
(* that the loop has placed since.                                         *)
OneAdset ==
  /\ \A a, b \in adsets : a.role = b.role => a = b
  /\ \A l \in Launcher : at[l] \in InHand \cup {"tiers"} =>
       \A a \in adsets : a \in listed[l] \/ a.role \notin missing[l]

OneAd ==
  /\ \A d, e \in ads : d.adset = e.adset => d = e
  /\ \A l \in Launcher : at[l] = "ad" => AdsOf(inHand[l]) = {}

(* What is missing has no row yet, nor has what the call is about to add,  *)
(* and nothing is both.                                                    *)
OneRow ==
  /\ \A r \in Role : adsetRows[r] <= 1
  /\ \A l \in Launcher : \A r \in missing[l] \cup made[l] : adsetRows[r] = 0

QuietInv == ~disturbed => Alone /\ OneCampaign /\ OneAdset /\ OneAd /\ OneRow

LaunchInvs == LaunchInv /\ MetaInv /\ QuietInv

(* A new ad set is one, of that campaign and that tier.                    *)
LEMMA NewAdsetIs ==
  ASSUME IsFiniteSet(adsets), NEW l \in Launcher, NEW r \in Role, target[l] \in CampaignId
  PROVE  NewAdset(l, r) \in AdSet /\ NewAdset(l, r).camp = target[l] /\ NewAdset(l, r).role = r
<1> DEFINE same == {a \in AdsetsOf(target[l]) : a.role = r}
<1>1. same \in SUBSET adsets
  BY DEF AdsetsOf
<1>2. Cardinality(same) \in Nat
  BY <1>1, FS_Subset, FS_CardinalityType
<1>3. PICK n \in Nat : n = Cardinality(same)
  BY <1>2
<1>4. NewAdset(l, r) = [camp |-> target[l], role |-> r, n |-> n + 1]
  BY <1>3 DEF NewAdset
<1> QED
  BY <1>4 DEF AdSet

(* A created campaign has an id that was free.                             *)
LEMMA NewIdIs ==
  ASSUME campaigns \subseteq CampaignId, campaigns # CampaignId
  PROVE  NewId \in CampaignId \ campaigns
<1>1. \E c \in CampaignId : c \notin campaigns
  OBVIOUS
<1> QED
  BY <1>1 DEF NewId

(* One ad more, of that ad set.                                            *)
LEMMA MakeAdIs ==
  ASSUME IsFiniteSet(ads), NEW a \in adsets, MakeAd(a)
  PROVE  \E d \in [adset : adsets, n : Nat \ {0}] : d.adset = a /\ ads' = ads \cup {d}
<1>1. AdsOf(a) \in SUBSET ads
  BY DEF AdsOf
<1>2. Cardinality(AdsOf(a)) \in Nat
  BY <1>1, FS_Subset, FS_CardinalityType
<1>3. PICK n \in Nat : n = Cardinality(AdsOf(a))
  BY <1>2
<1> DEFINE d == [adset |-> a, n |-> n + 1]
<1>4. ads' = ads \cup {d}
  BY <1>3 DEF MakeAd
<1>5. d \in [adset : adsets, n : Nat \ {0}] /\ d.adset = a
  OBVIOUS
<1> HIDE DEF d
<1> QED
  BY <1>4, <1>5

(* A set whose elements are all the same has one at most.                  *)
LEMMA AtMostOne ==
  ASSUME NEW S, \A x, y \in S : x = y
  PROVE  Cardinality(S) <= 1
<1>1. CASE S = {}
  BY <1>1, FS_EmptySet
<1>2. ASSUME NEW x \in S PROVE Cardinality(S) <= 1
  <2>1. S = {x}
    OBVIOUS
  <2> QED
    BY <2>1, FS_Singleton
<1> QED
  BY <1>1, <1>2

LEMMA InitMeta == Init => MetaInv /\ QuietInv
<1> SUFFICES ASSUME Init PROVE MetaInv /\ QuietInv
  OBVIOUS
<1> USE LaunchAssumption DEF Init
<1>1. IsFiniteSet(adsets) /\ IsFiniteSet(ads)
  BY FS_EmptySet
<1>2. /\ adsets \subseteq AdSet /\ adsetsOn \subseteq adsets
      /\ ads \subseteq [adset : adsets, n : Nat \ {0}] /\ campaignsOn \subseteq campaigns
  OBVIOUS
<1>3. disturbed \in BOOLEAN
  BY Zenon
<1>4. /\ \A a \in adsets : a.camp \in campaigns
      /\ rowStatus = "NONE" /\ \A l \in Launcher : at[l] = "idle"
      /\ failures \in 0..MaxFailures
  OBVIOUS
<1>5. MetaInv
  BY <1>1, <1>2, <1>3, <1>4 DEF MetaInv
<1>6. Alone /\ OneCampaign /\ OneAdset /\ OneAd /\ OneRow
  BY DEF Alone, OneCampaign, OneAdset, OneAd, OneRow, InHand
<1> QED
  BY <1>5, <1>6 DEF QuietInv

LEMMA StartMeta ==
  ASSUME LaunchInvs, NEW l \in Launcher, Start(l)
  PROVE  MetaInv' /\ QuietInv'
<1> USE LaunchAssumption DEF LaunchInvs, LaunchInv, LaunchTypes, Start, Goto, metaVars, rowVars,
                             Place
<1>1. MetaInv'
  BY DEF MetaInv, OneTarget
<1>2. ASSUME ~disturbed' PROVE Alone' /\ OneCampaign' /\ OneAdset' /\ OneAd' /\ OneRow'
  <2>1. ~disturbed /\ Alone /\ OneCampaign /\ OneAdset /\ OneAd /\ OneRow
    BY <1>2 DEF QuietInv
  <2>2. Alone'
    BY <1>2, <2>1 DEF Alone
  <2>3. OneCampaign'
    BY <2>1 DEF OneCampaign
  <2>4. OneAdset'
    BY <2>1 DEF OneAdset, InHand
  <2>5. OneAd'
    BY <2>1 DEF OneAd, AdsOf
  <2>6. OneRow'
    BY <2>1 DEF OneRow
  <2> QED
    BY <2>2, <2>3, <2>4, <2>5, <2>6
<1> QED
  BY <1>1, <1>2 DEF QuietInv

LEMMA CheckMeta ==
  ASSUME LaunchInvs, NEW l \in Launcher, Check(l)
  PROVE  MetaInv' /\ QuietInv'
<1> USE LaunchAssumption DEF LaunchInvs, LaunchInv, LaunchTypes, Check, Goto, Forget, metaVars,
                             rowVars, Place
<1>1. MetaInv'
  BY DEF MetaInv, OneTarget
<1>2. ASSUME ~disturbed' PROVE Alone' /\ OneCampaign' /\ OneAdset' /\ OneAd' /\ OneRow'
  <2>1. ~disturbed /\ Alone /\ OneCampaign /\ OneAdset /\ OneAd /\ OneRow
    BY <1>2 DEF QuietInv
  <2>2. Alone'
    BY <2>1 DEF Alone
  <2>3. OneCampaign'
    BY <2>1 DEF OneCampaign
  <2>4. OneAdset'
    BY <2>1 DEF OneAdset, InHand
  <2>5. OneAd'
    BY <2>1 DEF OneAd, AdsOf
  <2>6. OneRow'
    BY <2>1 DEF OneRow
  <2> QED
    BY <2>2, <2>3, <2>4, <2>5, <2>6
<1> QED
  BY <1>1, <1>2 DEF QuietInv

LEMMA LookForPartialMeta ==
  ASSUME LaunchInvs, NEW l \in Launcher, LookForPartial(l)
  PROVE  MetaInv' /\ QuietInv'
<1> USE LaunchAssumption DEF LaunchInvs, LaunchInv, LaunchTypes, LookForPartial, Goto, metaVars,
                             rowVars, Place
<1>1. MetaInv'
  BY DEF MetaInv, OneTarget
<1>2. ASSUME ~disturbed' PROVE Alone' /\ OneCampaign' /\ OneAdset' /\ OneAd' /\ OneRow'
  <2>1. ~disturbed /\ Alone /\ OneCampaign /\ OneAdset /\ OneAd /\ OneRow
    BY <1>2 DEF QuietInv
  <2>2. Alone'
    BY <2>1 DEF Alone
  <2>3. OneCampaign'
    BY <2>1 DEF OneCampaign
  <2>4. OneAdset'
    BY <2>1 DEF OneAdset, InHand
  <2>5. OneAd'
    BY <2>1 DEF OneAd, AdsOf
  <2>6. OneRow'
    BY <2>1 DEF OneRow
  <2> QED
    BY <2>2, <2>3, <2>4, <2>5, <2>6
<1> QED
  BY <1>1, <1>2 DEF QuietInv

LEMMA FindByNameMeta ==
  ASSUME LaunchInvs, NEW l \in Launcher, FindByName(l)
  PROVE  MetaInv' /\ QuietInv'
<1> USE LaunchAssumption DEF LaunchInvs, LaunchInv, LaunchTypes, FindByName, Goto, metaVars,
                             rowVars, Place
<1>1. MetaInv'
  BY DEF MetaInv, OneTarget
<1>2. ASSUME ~disturbed' PROVE Alone' /\ OneCampaign' /\ OneAdset' /\ OneAd' /\ OneRow'
  <2>1. ~disturbed /\ Alone /\ OneCampaign /\ OneAdset /\ OneAd /\ OneRow
    BY <1>2 DEF QuietInv
  <2>2. Alone'
    BY <2>1 DEF Alone
  <2>3. OneCampaign'
    BY <2>1 DEF OneCampaign, Alone
  <2>4. OneAdset'
    BY <2>1 DEF OneAdset, InHand
  <2>5. OneAd'
    BY <2>1 DEF OneAd, AdsOf
  <2>6. OneRow'
    BY <2>1 DEF OneRow
  <2> QED
    BY <2>2, <2>3, <2>4, <2>5, <2>6
<1> QED
  BY <1>1, <1>2 DEF QuietInv

LEMMA CreateCampaignMeta ==
  ASSUME LaunchInvs, NEW l \in Launcher, CreateCampaign(l)
  PROVE  MetaInv' /\ QuietInv'
<1> USE LaunchAssumption DEF LaunchInvs, LaunchInv, LaunchTypes, CreateCampaign, Goto, metaVars,
                             rowVars, Place
<1>1. NewId \in CampaignId \ campaigns
  BY NewIdIs
<1>2. PICK c \in CampaignId : c \notin campaigns /\ campaigns' = campaigns \cup {c}
                               /\ target' = [target EXCEPT ![l] = c]
  BY <1>1
<1>3. MetaInv'
  BY <1>2 DEF MetaInv
<1>4. ASSUME ~disturbed' PROVE Alone' /\ OneCampaign' /\ OneAdset' /\ OneAd' /\ OneRow'
  <2>1. ~disturbed /\ Alone /\ OneCampaign /\ OneAdset /\ OneAd /\ OneRow
    BY <1>4 DEF QuietInv
  <2>2. Alone'
    BY <2>1 DEF Alone
  <2>3. OneCampaign'
    BY <1>2, <2>1 DEF OneCampaign, Alone
  <2>4. OneAdset'
    BY <2>1 DEF OneAdset, InHand
  <2>5. OneAd'
    BY <2>1 DEF OneAd, AdsOf
  <2>6. OneRow'
    BY <2>1 DEF OneRow
  <2> QED
    BY <2>2, <2>3, <2>4, <2>5, <2>6
<1> QED
  BY <1>3, <1>4 DEF QuietInv

LEMMA ClaimMeta ==
  ASSUME LaunchInvs, NEW l \in Launcher, Claim(l)
  PROVE  MetaInv' /\ QuietInv'
<1> USE LaunchAssumption DEF LaunchInvs, LaunchInv, LaunchTypes, Claim, Goto, metaVars, rowVars,
                             Place
<1>1. MetaInv'
  BY DEF MetaInv, OneTarget, Building
<1>2. ASSUME ~disturbed' PROVE Alone' /\ OneCampaign' /\ OneAdset' /\ OneAd' /\ OneRow'
  <2>1. ~disturbed /\ Alone /\ OneCampaign /\ OneAdset /\ OneAd /\ OneRow
    BY <1>2 DEF QuietInv
  <2>2. Alone'
    BY <2>1 DEF Alone
  <2>3. OneCampaign'
    BY <2>1 DEF OneCampaign
  <2>4. OneAdset'
    BY <2>1 DEF OneAdset, InHand
  <2>5. OneAd'
    BY <2>1 DEF OneAd, AdsOf
  <2>6. OneRow'
    BY <2>1 DEF OneRow
  <2> QED
    BY <2>2, <2>3, <2>4, <2>5, <2>6
<1> QED
  BY <1>1, <1>2 DEF QuietInv

LEMMA AdoptMeta ==
  ASSUME LaunchInvs, NEW l \in Launcher, Adopt(l)
  PROVE  MetaInv' /\ QuietInv'
<1> USE LaunchAssumption DEF LaunchInvs, LaunchInv, LaunchTypes, Adopt, Goto, Forget, metaVars,
                             rowVars, Place
<1>1. MetaInv'
  BY DEF MetaInv, OneTarget
<1>2. ASSUME ~disturbed' PROVE Alone' /\ OneCampaign' /\ OneAdset' /\ OneAd' /\ OneRow'
  <2>1. ~disturbed /\ Alone /\ OneCampaign /\ OneAdset /\ OneAd /\ OneRow
    BY <1>2 DEF QuietInv
  <2>2. Alone'
    BY <2>1 DEF Alone
  <2>3. OneCampaign'
    BY <2>1 DEF OneCampaign
  <2>4. OneAdset'
    BY <2>1 DEF OneAdset, InHand
  <2>5. OneAd'
    BY <2>1 DEF OneAd, AdsOf
  <2>6. OneRow'
    BY <2>1 DEF OneRow
  <2> QED
    BY <2>2, <2>3, <2>4, <2>5, <2>6
<1> QED
  BY <1>1, <1>2 DEF QuietInv

LEMMA ReadRolesMeta ==
  ASSUME LaunchInvs, NEW l \in Launcher, ReadRoles(l)
  PROVE  MetaInv' /\ QuietInv'
<1> USE LaunchAssumption DEF LaunchInvs, LaunchInv, LaunchTypes, ReadRoles, Goto, metaVars,
                             rowVars, Place
<1>1. MetaInv'
  BY DEF MetaInv, OneTarget
<1>2. ASSUME ~disturbed' PROVE Alone' /\ OneCampaign' /\ OneAdset' /\ OneAd' /\ OneRow'
  <2>1. ~disturbed /\ Alone /\ OneCampaign /\ OneAdset /\ OneAd /\ OneRow
    BY <1>2 DEF QuietInv
  <2>2. Alone'
    BY <2>1 DEF Alone
  <2>3. OneCampaign'
    BY <2>1 DEF OneCampaign
  <2>4. OneAdset'
    BY <2>1 DEF OneAdset, InHand
  <2>5. OneAd'
    BY <2>1 DEF OneAd, AdsOf
  <2>6. OneRow'
    BY <2>1 DEF OneRow
  <2> QED
    BY <2>2, <2>3, <2>4, <2>5, <2>6
<1> QED
  BY <1>1, <1>2 DEF QuietInv

LEMMA ListAdsetsMeta ==
  ASSUME LaunchInvs, NEW l \in Launcher, ListAdsets(l)
  PROVE  MetaInv' /\ QuietInv'
<1> USE LaunchAssumption DEF LaunchInvs, LaunchInv, LaunchTypes, ListAdsets, Goto, metaVars,
                             rowVars, Place
<1>1. MetaInv'
  BY DEF MetaInv, OneTarget
<1>2. ASSUME ~disturbed' PROVE Alone' /\ OneCampaign' /\ OneAdset' /\ OneAd' /\ OneRow'
  <2>1. ~disturbed /\ Alone /\ OneCampaign /\ OneAdset /\ OneAd /\ OneRow
    BY <1>2 DEF QuietInv
  <2>2. Alone'
    BY <2>1 DEF Alone
  <2>3. OneCampaign'
    BY <2>1 DEF OneCampaign
  <2>4. OneAdset'
    <3>1. target[l] = rowMeta /\ rowMeta \in campaigns
      BY DEF OneTarget, Building, MetaInv
    <3>2. \A a \in adsets : a.camp = target[l]
      BY <2>1, <3>1 DEF OneCampaign, MetaInv
    <3>3. AdsetsOf(target[l]) = adsets
      BY <3>2 DEF AdsetsOf
    <3> QED
      BY <2>1, <3>3 DEF OneAdset, InHand
  <2>5. OneAd'
    BY <2>1 DEF OneAd, AdsOf
  <2>6. OneRow'
    BY <2>1 DEF OneRow
  <2> QED
    BY <2>2, <2>3, <2>4, <2>5, <2>6
<1> QED
  BY <1>1, <1>2 DEF QuietInv

LEMMA PlaceTierMeta ==
  ASSUME LaunchInvs, NEW l \in Launcher, NEW r \in Role, PlaceTier(l, r)
  PROVE  MetaInv' /\ QuietInv'
<1> USE LaunchAssumption DEF LaunchInvs, LaunchInv, LaunchTypes, PlaceTier, Goto, metaVars,
                             rowVars, Place
<1>1. target[l] = rowMeta /\ rowMeta \in campaigns /\ target[l] \in CampaignId
  BY DEF OneTarget, Building, MetaInv
<1>2. PICK a \in AdSet :
        /\ a.camp = rowMeta /\ a.role = r
        /\ inHand' = [inHand EXCEPT ![l] = a]
        /\ \/ a \in listed[l] /\ adsets' = adsets
           \/ (\A b \in listed[l] : b.role # r) /\ adsets' = adsets \cup {a}
  <2>1. CASE adsets' = adsets \cup {NewAdset(l, r)} /\ (\A b \in listed[l] : b.role # r)
                /\ inHand' = [inHand EXCEPT ![l] = NewAdset(l, r)]
    BY <1>1, <2>1, NewAdsetIs DEF MetaInv
  <2>2. CASE \E b \in listed[l] : b.role = r /\ inHand' = [inHand EXCEPT ![l] = b] /\ adsets' = adsets
    BY <1>1, <2>2 DEF MetaInv, InHandIsOurs
  <2> QED
    BY <2>1, <2>2
<1>3. IsFiniteSet(adsets')
  <2>1. IsFiniteSet(adsets) /\ IsFiniteSet(adsets \cup {a})
    BY FS_AddElement DEF MetaInv
  <2> QED
    BY <1>2, <2>1
<1>4. MetaInv'
  BY <1>1, <1>2, <1>3 DEF MetaInv
<1>5. ASSUME ~disturbed' PROVE Alone' /\ OneCampaign' /\ OneAdset' /\ OneAd' /\ OneRow'
  <2>1. ~disturbed /\ Alone /\ OneCampaign /\ OneAdset /\ OneAd /\ OneRow
    BY <1>5 DEF QuietInv
  <2>2. Alone'
    BY <2>1 DEF Alone
  <2>3. OneCampaign'
    BY <2>1 DEF OneCampaign
  <2>4. OneAdset'
    BY <1>2, <2>1 DEF OneAdset, Alone, InHand
  <2>5. OneAd'
    BY <2>1 DEF OneAd, AdsOf
  <2>6. OneRow'
    BY <2>1 DEF OneRow, Alone
  <2> QED
    BY <2>2, <2>3, <2>4, <2>5, <2>6
<1> QED
  BY <1>4, <1>5 DEF QuietInv

LEMMA ListAdsMeta ==
  ASSUME LaunchInvs, NEW l \in Launcher, ListAds(l)
  PROVE  MetaInv' /\ QuietInv'
<1> USE LaunchAssumption DEF LaunchInvs, LaunchInv, LaunchTypes, ListAds, Goto, metaVars,
                             rowVars, Place
<1>1. MetaInv'
  BY DEF MetaInv, OneTarget
<1>2. ASSUME ~disturbed' PROVE Alone' /\ OneCampaign' /\ OneAdset' /\ OneAd' /\ OneRow'
  <2>1. ~disturbed /\ Alone /\ OneCampaign /\ OneAdset /\ OneAd /\ OneRow
    BY <1>2 DEF QuietInv
  <2>2. Alone'
    BY <2>1 DEF Alone
  <2>3. OneCampaign'
    BY <2>1 DEF OneCampaign
  <2>4. OneAdset'
    BY <2>1 DEF OneAdset, InHand
  <2>5. OneAd'
    BY <2>1 DEF OneAd, AdsOf
  <2>6. OneRow'
    BY <2>1 DEF OneRow
  <2> QED
    BY <2>2, <2>3, <2>4, <2>5, <2>6
<1> QED
  BY <1>1, <1>2 DEF QuietInv

LEMMA CreateAdMeta ==
  ASSUME LaunchInvs, NEW l \in Launcher, CreateAd(l)
  PROVE  MetaInv' /\ QuietInv'
<1> USE LaunchAssumption DEF LaunchInvs, LaunchInv, LaunchTypes, CreateAd, Goto, metaVars,
                             rowVars, Place
<1>1. inHand[l] \in adsets
  BY DEF InHandIsOurs, InHand
<1>2. PICK d \in [adset : adsets, n : Nat \ {0}] : d.adset = inHand[l] /\ ads' = ads \cup {d}
  BY <1>1, MakeAdIs DEF MetaInv
<1>3. IsFiniteSet(ads')
  BY <1>2, FS_AddElement DEF MetaInv
<1>4. MetaInv'
  BY <1>2, <1>3 DEF MetaInv
<1>5. ASSUME ~disturbed' PROVE Alone' /\ OneCampaign' /\ OneAdset' /\ OneAd' /\ OneRow'
  <2>1. ~disturbed /\ Alone /\ OneCampaign /\ OneAdset /\ OneAd /\ OneRow
    BY <1>5 DEF QuietInv
  <2>2. Alone'
    BY <2>1 DEF Alone
  <2>3. OneCampaign'
    BY <2>1 DEF OneCampaign
  <2>4. OneAdset'
    BY <2>1 DEF OneAdset, InHand
  <2>5. OneAd'
    BY <1>2, <2>1 DEF OneAd, AdsOf, Alone
  <2>6. OneRow'
    BY <2>1 DEF OneRow
  <2> QED
    BY <2>2, <2>3, <2>4, <2>5, <2>6
<1> QED
  BY <1>4, <1>5 DEF QuietInv

LEMMA ActivateTierMeta ==
  ASSUME LaunchInvs, NEW l \in Launcher, ActivateTier(l)
  PROVE  MetaInv' /\ QuietInv'
<1> USE LaunchAssumption DEF LaunchInvs, LaunchInv, LaunchTypes, ActivateTier, Goto, metaVars,
                             rowVars, Place
<1>1. MetaInv'
  BY DEF MetaInv, InHandIsOurs, InHand
<1>2. ASSUME ~disturbed' PROVE Alone' /\ OneCampaign' /\ OneAdset' /\ OneAd' /\ OneRow'
  <2>1. ~disturbed /\ Alone /\ OneCampaign /\ OneAdset /\ OneAd /\ OneRow
    BY <1>2 DEF QuietInv
  <2>2. Alone'
    BY <2>1 DEF Alone
  <2>3. OneCampaign'
    BY <2>1 DEF OneCampaign
  <2>4. OneAdset'
    BY <2>1 DEF OneAdset, InHand
  <2>5. OneAd'
    BY <2>1 DEF OneAd, AdsOf
  <2>6. OneRow'
    BY <2>1 DEF OneRow
  <2> QED
    BY <2>2, <2>3, <2>4, <2>5, <2>6
<1> QED
  BY <1>1, <1>2 DEF QuietInv

LEMMA ActivateCampaignMeta ==
  ASSUME LaunchInvs, NEW l \in Launcher, ActivateCampaign(l)
  PROVE  MetaInv' /\ QuietInv'
<1> USE LaunchAssumption DEF LaunchInvs, LaunchInv, LaunchTypes, ActivateCampaign, Goto,
                             metaVars, rowVars, Place
<1>1. MetaInv'
  BY DEF MetaInv, OneTarget, Building
<1>2. ASSUME ~disturbed' PROVE Alone' /\ OneCampaign' /\ OneAdset' /\ OneAd' /\ OneRow'
  <2>1. ~disturbed /\ Alone /\ OneCampaign /\ OneAdset /\ OneAd /\ OneRow
    BY <1>2 DEF QuietInv
  <2>2. Alone'
    BY <2>1 DEF Alone
  <2>3. OneCampaign'
    BY <2>1 DEF OneCampaign
  <2>4. OneAdset'
    BY <2>1 DEF OneAdset, InHand
  <2>5. OneAd'
    BY <2>1 DEF OneAd, AdsOf
  <2>6. OneRow'
    BY <2>1 DEF OneRow
  <2> QED
    BY <2>2, <2>3, <2>4, <2>5, <2>6
<1> QED
  BY <1>1, <1>2 DEF QuietInv

LEMMA CommitMeta ==
  ASSUME LaunchInvs, NEW l \in Launcher, Commit(l)
  PROVE  MetaInv' /\ QuietInv'
<1> USE LaunchAssumption DEF LaunchInvs, LaunchInv, LaunchTypes, Commit, Goto, Forget, metaVars,
                             rowVars, Place
<1>1. MetaInv'
  BY DEF MetaInv, OneTarget, Building
<1>2. ASSUME ~disturbed' PROVE Alone' /\ OneCampaign' /\ OneAdset' /\ OneAd' /\ OneRow'
  <2>1. ~disturbed /\ Alone /\ OneCampaign /\ OneAdset /\ OneAd /\ OneRow
    BY <1>2 DEF QuietInv
  <2>2. Alone'
    BY <2>1 DEF Alone
  <2>3. OneCampaign'
    BY <2>1 DEF OneCampaign
  <2>4. OneAdset'
    BY <2>1 DEF OneAdset, InHand
  <2>5. OneAd'
    BY <2>1 DEF OneAd, AdsOf
  <2>6. OneRow'
    BY <2>1 DEF OneRow, Alone
  <2> QED
    BY <2>2, <2>3, <2>4, <2>5, <2>6
<1> QED
  BY <1>1, <1>2 DEF QuietInv

LEMMA FailMeta ==
  ASSUME LaunchInvs, NEW l \in Launcher, Fail(l)
  PROVE  MetaInv' /\ QuietInv'
<1> USE LaunchAssumption DEF LaunchInvs, LaunchInv, LaunchTypes, Fail, Goto, Forget, metaVars,
                             rowVars, Place
<1>1. MetaInv'
  BY DEF MetaInv, OneTarget
<1>2. ASSUME ~disturbed' PROVE Alone' /\ OneCampaign' /\ OneAdset' /\ OneAd' /\ OneRow'
  <2>1. ~disturbed /\ Alone /\ OneCampaign /\ OneAdset /\ OneAd /\ OneRow
    BY <1>2 DEF QuietInv
  <2>2. Alone'
    BY <2>1 DEF Alone
  <2>3. OneCampaign'
    BY <2>1 DEF OneCampaign
  <2>4. OneAdset'
    BY <2>1 DEF OneAdset, InHand
  <2>5. OneAd'
    BY <2>1 DEF OneAd, AdsOf
  <2>6. OneRow'
    BY <2>1 DEF OneRow
  <2> QED
    BY <2>2, <2>3, <2>4, <2>5, <2>6
<1> QED
  BY <1>1, <1>2 DEF QuietInv

(* A repeated create disturbs: only what Meta holds must stay well-formed. *)
LEMMA RepeatCreateMeta ==
  ASSUME LaunchInvs, NEW l \in Launcher, RepeatCreate(l)
  PROVE  MetaInv' /\ QuietInv'
<1> USE LaunchAssumption DEF LaunchInvs, LaunchInv, LaunchTypes, metaVars, rowVars, callVars,
                             Place
<1>1. /\ disturbed' = TRUE /\ failures' \in 0..MaxFailures
      /\ UNCHANGED <<campaignsOn, adsetsOn, rowStatus, rowMeta, at, target>>
  BY DEF RepeatCreate, MetaInv
<1>2. CASE /\ campaigns # CampaignId
           /\ campaigns' = campaigns \cup {NewId}
           /\ UNCHANGED <<adsets, ads>>
  <2>1. PICK c \in CampaignId : campaigns' = campaigns \cup {c}
    BY <1>2, NewIdIs
  <2>2. MetaInv'
    BY <1>1, <1>2, <2>1 DEF MetaInv
  <2> QED
    BY <1>1, <2>2 DEF QuietInv
<1>3. CASE /\ at[l] = "tiers" /\ UNCHANGED <<campaigns, ads>>
           /\ \E r \in missing[l] : adsets' = adsets \cup {NewAdset(l, r)}
  <2>1. target[l] = rowMeta /\ rowMeta \in campaigns /\ target[l] \in CampaignId
    BY <1>3 DEF OneTarget, Building, MetaInv
  <2>2. PICK a \in AdSet : a.camp = rowMeta /\ adsets' = adsets \cup {a}
    BY <1>3, <2>1, NewAdsetIs DEF MetaInv
  <2>3. IsFiniteSet(adsets')
    BY <2>2, FS_AddElement DEF MetaInv
  <2>4. MetaInv'
    BY <1>1, <1>3, <2>1, <2>2, <2>3 DEF MetaInv
  <2> QED
    BY <1>1, <2>4 DEF QuietInv
<1>4. CASE at[l] = "ad" /\ MakeAd(inHand[l]) /\ UNCHANGED <<campaigns, adsets>>
  <2>1. inHand[l] \in adsets
    BY <1>4 DEF InHandIsOurs, InHand
  <2>2. PICK d \in [adset : adsets, n : Nat \ {0}] : ads' = ads \cup {d}
    BY <1>4, <2>1, MakeAdIs DEF MetaInv
  <2>3. IsFiniteSet(ads')
    BY <2>2, FS_AddElement DEF MetaInv
  <2>4. MetaInv'
    BY <1>1, <1>4, <2>2, <2>3 DEF MetaInv
  <2> QED
    BY <1>1, <2>4 DEF QuietInv
<1>5. QuietInv'
  BY <1>1 DEF QuietInv
<1> QED
  BY <1>2, <1>3, <1>4, <1>5 DEF RepeatCreate

LEMMA NextMeta == LaunchInvs /\ [Next]_vars => LaunchInvs'
<1> SUFFICES ASSUME LaunchInvs, [Next]_vars PROVE MetaInv' /\ QuietInv'
  BY NextLaunch DEF LaunchInvs
<1>1. ASSUME NEW l \in Launcher, Step(l) \/ RepeatCreate(l) \/ Fail(l)
      PROVE  MetaInv' /\ QuietInv'
  BY <1>1, StartMeta, CheckMeta, LookForPartialMeta, FindByNameMeta, CreateCampaignMeta,
     ClaimMeta, AdoptMeta, ReadRolesMeta, ListAdsetsMeta, PlaceTierMeta, ListAdsMeta,
     CreateAdMeta, ActivateTierMeta, ActivateCampaignMeta, CommitMeta, RepeatCreateMeta,
     FailMeta
  DEF Step
<1>2. CASE UNCHANGED vars
  BY <1>2
  DEF vars, LaunchInvs, MetaInv, QuietInv, Alone, OneCampaign, OneAdset, OneAd, OneRow, AdsOf
<1> QED
  BY <1>1, <1>2 DEF Next

LEMMA LaunchInvsHold == Spec => []LaunchInvs
<1>1. Init => LaunchInvs
  BY InitLaunch, InitMeta DEF LaunchInvs
<1> QED
  BY <1>1, NextMeta, PTL DEF Spec

(* What Meta, the database and the calls hold is always well-formed: what  *)
(* is on exists, and an ad belongs to an ad set that does.                 *)
THEOREM LaunchTypeCorrect == Spec => []TypeOK
<1>1. LaunchInvs => TypeOK
  <2> SUFFICES ASSUME LaunchInvs PROVE TypeOK
    OBVIOUS
  <2> USE DEF LaunchInvs, LaunchInv, LaunchTypes, MetaInv
  <2>1. listed \in [Launcher -> SUBSET AdSet] /\ inHand \in [Launcher -> AdSet \cup {None}]
    OBVIOUS
  <2>2. disturbed \in BOOLEAN
    BY Zenon
  <2> QED
    BY <2>1, <2>2 DEF TypeOK, CampaignStatus
<1> QED
  BY LaunchInvsHold, <1>1, PTL

(* Launches that take turns, and whose creates are answered, never stack a *)
(* campaign, an ad set, an ad or a row, however often they fail half-way   *)
(* and whichever call resumes: nothing spends twice.                       *)
THEOREM RetriesStackNothing == Spec => []NoDuplicates
<1>1. LaunchInvs => NoDuplicates
  <2> SUFFICES ASSUME LaunchInvs, ~disturbed
               PROVE  /\ Cardinality(campaigns) <= 1
                      /\ \A r \in Role : /\ adsetRows[r] <= 1
                                        /\ Cardinality({a \in adsets : a.role = r}) <= 1
                      /\ \A a \in adsets : Cardinality(AdsOf(a)) <= 1
    BY DEF NoDuplicates
  <2>1. OneCampaign /\ OneAdset /\ OneAd /\ OneRow
    BY DEF LaunchInvs, QuietInv
  <2>2. Cardinality(campaigns) <= 1
    BY <2>1, AtMostOne DEF OneCampaign
  <2>3. ASSUME NEW r \in Role
        PROVE  adsetRows[r] <= 1 /\ Cardinality({a \in adsets : a.role = r}) <= 1
    <3>1. \A a, b \in {a \in adsets : a.role = r} : a = b
      BY <2>1 DEF OneAdset
    <3> QED
      BY <2>1, <3>1, AtMostOne DEF OneRow
  <2>4. ASSUME NEW a \in adsets PROVE Cardinality(AdsOf(a)) <= 1
    <3>1. \A d, e \in AdsOf(a) : d = e
      BY <2>1 DEF OneAd, AdsOf
    <3> QED
      BY <3>1, AtMostOne
  <2> QED
    BY <2>2, <2>3, <2>4
<1> QED
  BY LaunchInvsHold, <1>1, PTL
=============================================================================
