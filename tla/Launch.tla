------------------------------- MODULE Launch -------------------------------
(***************************************************************************)
(* launch_campaigns of saathi/pipeline.py: putting an account's campaign   *)
(* live on Meta. Meta has no transactions, so the code is written to be    *)
(* resumed: the campaign's name is the idempotency key on Meta, the row it *)
(* claims is committed on its own before the ad sets are built, everything *)
(* on Meta is created PAUSED, and the campaign is switched on last. The    *)
(* caller's database transaction (ad set rows, ACTIVE, LIVE, trust) is     *)
(* committed at the very end, and is lost as a whole by a failure.         *)
(*                                                                         *)
(* Callers run side by side: the launch endpoint, the Celery task it       *)
(* enqueues, and progress_accounts every ten minutes. One step is one      *)
(* query, one committed transaction or one Graph call. One creative stands *)
(* for the account's, and targeting is left out. Ads are created PAUSED,   *)
(* too, but nothing switches them on: being on is said of campaigns and ad *)
(* sets only.                                                              *)
(***************************************************************************)
EXTENDS Naturals, FiniteSets

CONSTANTS
  Launcher,    (* concurrent calls of launch_campaigns for the account      *)
  Role,        (* the budget tiers that survive _budget_tiers               *)
  CampaignId,  (* ids Meta hands out                                        *)
  None,
  MaxFailures  (* bound: calls that raise or die half-way                   *)

ASSUME LaunchAssumption == None \notin CampaignId /\ MaxFailures \in Nat

VARIABLES
  campaigns,    (* Meta: campaigns with the account's campaign name         *)
  campaignsOn,  (* Meta: those whose status is ACTIVE                       *)
  adsets,       (* Meta: ad sets, [camp, role, n]                           *)
  adsetsOn,     (* Meta: those whose status is ACTIVE                       *)
  ads,          (* Meta: ads, [adset, n]                                    *)
  rowStatus,    (* the account's open campaigns row; "NONE" = no row        *)
  rowMeta,      (* its meta_campaign_id                                     *)
  adsetRows,    (* how many ad_sets rows the campaign has, per role         *)
  phase,        (* accounts.phase, from APPROVED                            *)
  trust,        (* accounts.trust_score                                     *)
  at,           (* where each call stands                                   *)
  target,       (* its meta_campaign_id                                     *)
  missing,      (* the roles its loop still has to place                    *)
  listed,       (* its meta_adsets_by_name                                  *)
  made,         (* its uncommitted ad_sets rows                             *)
  inHand,       (* the ad set it is about to activate                       *)
  trustRead,    (* account.trust_score as its session loaded it             *)
  disturbed,    (* history: two calls overlapped, or a create was repeated  *)
  failures

metaVars == <<campaigns, campaignsOn, adsets, adsetsOn, ads>>
rowVars == <<rowStatus, rowMeta, adsetRows, phase, trust>>
callVars == <<at, target, missing, listed, made, inHand, trustRead>>
vars == <<campaigns, campaignsOn, adsets, adsetsOn, ads, rowStatus, rowMeta, adsetRows,
          phase, trust, at, target, missing, listed, made, inHand, trustRead, disturbed,
          failures>>

Place == {"idle", "check", "look", "find", "create", "claim", "adopt", "roles", "list",
          "tiers", "ads", "ad", "activate", "commit"}
AdSet == [camp : CampaignId, role : Role, n : Nat \ {0}]

(* Of the statuses a row may have, those the launch writes and looks for.  *)
CampaignStatus == {"NONE", "IN_REVIEW", "ACTIVE"}

TypeOK ==
  /\ campaigns \in SUBSET CampaignId /\ campaignsOn \in SUBSET campaigns
  /\ adsets \in SUBSET AdSet /\ adsetsOn \in SUBSET adsets
  /\ ads \in SUBSET [adset : adsets, n : Nat \ {0}]
  /\ rowStatus \in CampaignStatus
  /\ rowMeta \in CampaignId \cup {None}
  /\ adsetRows \in [Role -> Nat]
  /\ phase \in {"APPROVED", "LIVE"}
  /\ trust \in Nat
  /\ at \in [Launcher -> Place]
  /\ target \in [Launcher -> CampaignId \cup {None}]
  /\ missing \in [Launcher -> SUBSET Role]
  /\ listed \in [Launcher -> SUBSET AdSet]
  /\ made \in [Launcher -> SUBSET Role]
  /\ inHand \in [Launcher -> AdSet \cup {None}]
  /\ trustRead \in [Launcher -> Nat]
  /\ disturbed \in BOOLEAN /\ failures \in 0..MaxFailures

Init ==
  /\ campaigns = {} /\ campaignsOn = {} /\ adsets = {} /\ adsetsOn = {} /\ ads = {}
  /\ rowStatus = "NONE" /\ rowMeta = None
  /\ adsetRows = [r \in Role |-> 0]
  /\ phase = "APPROVED" /\ trust = 0
  /\ at = [l \in Launcher |-> "idle"]
  /\ target = [l \in Launcher |-> None]
  /\ missing = [l \in Launcher |-> {}]
  /\ listed = [l \in Launcher |-> {}]
  /\ made = [l \in Launcher |-> {}]
  /\ inHand = [l \in Launcher |-> None]
  /\ trustRead = [l \in Launcher |-> 0]
  /\ disturbed = FALSE /\ failures = 0

Goto(l, from, to) == at[l] = from /\ at' = [at EXCEPT ![l] = to]

(* The call returns or its session is rolled back: nothing of it is left.  *)
Forget(l) ==
  /\ at' = [at EXCEPT ![l] = "idle"]
  /\ target' = [target EXCEPT ![l] = None]
  /\ missing' = [missing EXCEPT ![l] = {}]
  /\ listed' = [listed EXCEPT ![l] = {}]
  /\ made' = [made EXCEPT ![l] = {}]
  /\ inHand' = [inHand EXCEPT ![l] = None]
  /\ trustRead' = [trustRead EXCEPT ![l] = 0]

-----------------------------------------------------------------------------
(* Loads the account into the session.                                     *)
Start(l) ==
  /\ Goto(l, "idle", "check")
  /\ trustRead' = [trustRead EXCEPT ![l] = trust]
  /\ disturbed' = (disturbed \/ \E k \in Launcher \ {l} : at[k] # "idle")
  /\ UNCHANGED <<metaVars, rowVars, target, missing, listed, made, inHand, failures>>

(* Mutant: any open campaign ends the call.                                *)
Check_AnyOpen(l) ==
  /\ \/ /\ at[l] = "check" /\ rowStatus # "NONE"
        /\ Forget(l)
     \/ /\ rowStatus = "NONE"
        /\ Goto(l, "check", "look")
        /\ UNCHANGED <<target, missing, listed, made, inHand, trustRead>>
  /\ UNCHANGED <<metaVars, rowVars, disturbed, failures>>

(* An ACTIVE campaign ends the call.                                       *)
Check(l) ==
  /\ \/ /\ at[l] = "check" /\ rowStatus = "ACTIVE"
        /\ Forget(l)
     \/ /\ rowStatus # "ACTIVE"
        /\ Goto(l, "check", "look")
        /\ UNCHANGED <<target, missing, listed, made, inHand, trustRead>>
  /\ UNCHANGED <<metaVars, rowVars, disturbed, failures>>

(* Mutant: resumes even if there is no row.                                *)
LookForPartial_Always(l) ==
  /\ Goto(l, "look", "roles")
  /\ target' = [target EXCEPT ![l] = rowMeta]
  /\ UNCHANGED <<metaVars, rowVars, missing, listed, made, inHand, trustRead, disturbed,
                failures>>

(* After the planning call of the Buyer agent: an IN_REVIEW row is a       *)
(* partial launch to resume.                                               *)
LookForPartial(l) ==
  /\ \/ /\ rowStatus = "IN_REVIEW"
        /\ Goto(l, "look", "roles")
        /\ target' = [target EXCEPT ![l] = rowMeta]
     \/ /\ rowStatus # "IN_REVIEW"
        /\ Goto(l, "look", "find")
        /\ UNCHANGED target
  /\ UNCHANGED <<metaVars, rowVars, missing, listed, made, inHand, trustRead, disturbed,
                failures>>

(* Mutant: does not ask Meta first.                                        *)
FindByName_Never(l) ==
  /\ Goto(l, "find", "create")
  /\ UNCHANGED <<metaVars, rowVars, target, missing, listed, made, inHand, trustRead,
                disturbed, failures>>

(* find_campaign_by_name: any campaign of that name, switched on or not.   *)
FindByName(l) ==
  /\ \/ \E c \in campaigns :
          /\ Goto(l, "find", "claim")
          /\ target' = [target EXCEPT ![l] = c]
     \/ /\ campaigns = {}
        /\ Goto(l, "find", "create")
        /\ UNCHANGED target
  /\ UNCHANGED <<metaVars, rowVars, missing, listed, made, inHand, trustRead, disturbed,
                failures>>

(* An id that Meta has not handed out yet: which one makes no difference.  *)
NewId == CHOOSE c \in CampaignId : c \notin campaigns

(* create_campaign, PAUSED.                                                *)
CreateCampaign(l) ==
  /\ Goto(l, "create", "claim")
  /\ campaigns # CampaignId
  /\ campaigns' = campaigns \cup {NewId}
  /\ target' = [target EXCEPT ![l] = NewId]
  /\ UNCHANGED <<campaignsOn, adsets, adsetsOn, ads, rowVars, missing, listed, made, inHand,
                 trustRead, disturbed, failures>>

(* The claim's own transaction. uq_campaigns_one_open lets one open row    *)
(* in: the loser's IntegrityError is swallowed.                            *)
Claim(l) ==
  /\ Goto(l, "claim", "adopt")
  /\ \/ /\ rowStatus = "NONE"
        /\ rowStatus' = "IN_REVIEW"
        /\ rowMeta' = target[l]
     \/ /\ rowStatus # "NONE"
        /\ UNCHANGED <<rowStatus, rowMeta>>
  /\ UNCHANGED <<metaVars, adsetRows, phase, trust, target, missing, listed, made,
                 inHand, trustRead, disturbed, failures>>

(* Mutant: the loser of the claim goes on with its own campaign.           *)
Adopt_KeepsOwn(l) ==
  /\ \/ /\ at[l] = "adopt" /\ rowStatus = "ACTIVE"
        /\ Forget(l)
     \/ /\ rowStatus = "IN_REVIEW"
        /\ Goto(l, "adopt", "roles")
        /\ UNCHANGED <<target, missing, listed, made, inHand, trustRead>>
  /\ UNCHANGED <<metaVars, rowVars, disturbed, failures>>

(* Reads back the open row, its own or the winner's: an ACTIVE one ends    *)
(* the call, an IN_REVIEW one is what it goes on with.                     *)
Adopt(l) ==
  /\ \/ /\ at[l] = "adopt" /\ rowStatus = "ACTIVE"
        /\ Forget(l)
     \/ /\ rowStatus = "IN_REVIEW"
        /\ Goto(l, "adopt", "roles")
        /\ target' = [target EXCEPT ![l] = rowMeta]
        /\ UNCHANGED <<missing, listed, made, inHand, trustRead>>
  /\ UNCHANGED <<metaVars, rowVars, disturbed, failures>>

(* existing_roles: what other transactions have committed.                 *)
ReadRoles(l) ==
  /\ Goto(l, "roles", "list")
  /\ missing' = [missing EXCEPT ![l] = {r \in Role : adsetRows[r] = 0}]
  /\ UNCHANGED <<metaVars, rowVars, target, listed, made, inHand, trustRead, disturbed, failures>>

(* _get_paged follows the pages of the answer: all ad sets of a campaign.  *)
AdsetsOf(c) == {a \in adsets : a.camp = c}

(* list_adsets, once, before the loop.                                     *)
ListAdsets(l) ==
  /\ Goto(l, "list", "tiers")
  /\ listed' = [listed EXCEPT ![l] = AdsetsOf(target[l])]
  /\ UNCHANGED <<metaVars, rowVars, target, missing, made, inHand, trustRead, disturbed, failures>>

(* create_adset, PAUSED, whatever other ad sets have that name.            *)
NewAdset(l, r) ==
  LET same == {a \in AdsetsOf(target[l]) : a.role = r}
  IN  [camp |-> target[l], role |-> r, n |-> Cardinality(same) + 1]

(* The next missing tier: the ad set listed under its name, or a new one,  *)
(* PAUSED; and its row, not yet committed.                                 *)
PlaceTier(l, r) ==
  /\ Goto(l, "tiers", "ads")
  /\ r \in missing[l]
  /\ \/ \E a \in listed[l] :
          /\ a.role = r
          /\ inHand' = [inHand EXCEPT ![l] = a]
          /\ UNCHANGED adsets
     \/ /\ \A a \in listed[l] : a.role # r
        /\ adsets' = adsets \cup {NewAdset(l, r)}
        /\ inHand' = [inHand EXCEPT ![l] = NewAdset(l, r)]
  /\ missing' = [missing EXCEPT ![l] = @ \ {r}]
  /\ made' = [made EXCEPT ![l] = @ \cup {r}]
  /\ UNCHANGED <<campaigns, campaignsOn, adsetsOn, ads, rowVars, target, listed, trustRead,
                 disturbed, failures>>

AdsOf(a) == {d \in ads : d.adset = a}

(* list_ads: an ad that is there already is not created again.             *)
ListAds(l) ==
  /\ \/ AdsOf(inHand[l]) # {} /\ Goto(l, "ads", "activate")
     \/ AdsOf(inHand[l]) = {} /\ Goto(l, "ads", "ad")
  /\ UNCHANGED <<metaVars, rowVars, target, missing, listed, made, inHand, trustRead, disturbed,
                 failures>>

(* The image (an ad does without, if need be), the creative and the ad.    *)
MakeAd(a) == ads' = ads \cup {[adset |-> a, n |-> Cardinality(AdsOf(a)) + 1]}

CreateAd(l) ==
  /\ Goto(l, "ad", "activate")
  /\ MakeAd(inHand[l])
  /\ UNCHANGED <<campaigns, campaignsOn, adsets, adsetsOn, rowVars, target, missing, listed, made,
                 inHand, trustRead, disturbed, failures>>

(* request_with_retry: Meta has created the campaign, the ad set or the    *)
(* ad, but its answer is lost or an error, and the call posts it again.    *)
RepeatCreate(l) ==
  /\ failures < MaxFailures
  /\ failures' = failures + 1
  /\ disturbed' = TRUE
  /\ \/ /\ at[l] = "create"
        /\ campaigns # CampaignId
        /\ campaigns' = campaigns \cup {NewId}
        /\ UNCHANGED <<adsets, ads>>
     \/ /\ at[l] = "tiers"
        /\ \E r \in missing[l] :
             /\ \A a \in listed[l] : a.role # r
             /\ adsets' = adsets \cup {NewAdset(l, r)}
        /\ UNCHANGED <<campaigns, ads>>
     \/ /\ at[l] = "ad"
        /\ MakeAd(inHand[l])
        /\ UNCHANGED <<campaigns, adsets>>
  /\ UNCHANGED <<campaignsOn, adsetsOn, rowVars, callVars>>

(* set_status ADSET ACTIVE.                                                *)
ActivateTier(l) ==
  /\ Goto(l, "activate", "tiers")
  /\ adsetsOn' = adsetsOn \cup {inHand[l]}
  /\ inHand' = [inHand EXCEPT ![l] = None]
  /\ UNCHANGED <<campaigns, campaignsOn, adsets, ads, rowVars, target, missing, listed, made,
                 trustRead, disturbed, failures>>

(* Mutant: the campaign is switched on before its tiers are built.         *)
ActivateCampaign_Early(l) ==
  /\ Goto(l, "tiers", "commit")
  /\ campaignsOn' = campaignsOn \cup {target[l]}
  /\ UNCHANGED <<campaigns, adsets, adsetsOn, ads, rowVars, target, missing, listed, made,
                 inHand, trustRead, disturbed, failures>>

(* set_status CAMPAIGN ACTIVE, after the loop.                             *)
ActivateCampaign(l) ==
  /\ Goto(l, "tiers", "commit")
  /\ missing[l] = {}
  /\ campaignsOn' = campaignsOn \cup {target[l]}
  /\ UNCHANGED <<campaigns, adsets, adsetsOn, ads, rowVars, target, missing, listed, made,
                 inHand, trustRead, disturbed, failures>>

(* Mutant: the database increments the trust.                              *)
Commit_IncrementsTrust(l) ==
  /\ at[l] = "commit"
  /\ rowStatus' = "ACTIVE"
  /\ adsetRows' = [r \in Role |-> adsetRows[r] + (IF r \in made[l] THEN 1 ELSE 0)]
  /\ phase' = "LIVE"
  /\ trust' = trust + 1
  /\ Forget(l)
  /\ UNCHANGED <<metaVars, rowMeta, disturbed, failures>>

(* The caller's session commits. trust_score is written from the value the *)
(* session loaded at the start.                                            *)
Commit(l) ==
  /\ at[l] = "commit"
  /\ rowStatus' = "ACTIVE"
  /\ adsetRows' = [r \in Role |-> adsetRows[r] + (IF r \in made[l] THEN 1 ELSE 0)]
  /\ phase' = "LIVE"
  /\ trust' = trustRead[l] + 1
  /\ Forget(l)
  /\ UNCHANGED <<metaVars, rowMeta, disturbed, failures>>

(* A Graph call raises, the commit fails, or the process dies: the session *)
(* is rolled back, Meta and the committed claim keep what they have.       *)
Fail(l) ==
  /\ at[l] # "idle" /\ failures < MaxFailures
  /\ failures' = failures + 1
  /\ Forget(l)
  /\ UNCHANGED <<metaVars, rowVars, disturbed>>

-----------------------------------------------------------------------------
Step(l) ==
  \/ Start(l) \/ Check(l) \/ LookForPartial(l) \/ FindByName(l) \/ CreateCampaign(l)
  \/ Claim(l) \/ Adopt(l) \/ ReadRoles(l) \/ ListAdsets(l)
  \/ \E r \in Role : PlaceTier(l, r)
  \/ ListAds(l) \/ CreateAd(l) \/ ActivateTier(l) \/ ActivateCampaign(l) \/ Commit(l)

Next == \E l \in Launcher : Step(l) \/ RepeatCreate(l) \/ Fail(l)

Spec == Init /\ [][Next]_vars

(* progress_accounts calls again until the account is LIVE.                *)
FairSpec == Spec /\ \A l \in Launcher : WF_vars(Step(l))

-----------------------------------------------------------------------------
Built(c, r) == \E a \in adsetsOn : a.camp = c /\ a.role = r

(* Only the campaign our row names is ever switched on: a duplicate made   *)
(* by a race or a crash stays PAUSED and never spends (pipeline.py:434).   *)
OrphanNeverSpends == campaignsOn \subseteq {rowMeta}

(* A campaign spends only once every tier is built and on, with its ad,    *)
(* and a row that says ACTIVE is one that spends and whose tiers all have  *)
(* their rows.                                                             *)
LiveIsComplete ==
  /\ \A a \in adsetsOn : AdsOf(a) # {}
  /\ \A c \in campaignsOn : \A r \in Role : Built(c, r)
  /\ rowStatus = "ACTIVE" => rowMeta \in campaignsOn /\ \A r \in Role : adsetRows[r] > 0

(* A launch earns trust once, however many calls race to its end: trust    *)
(* decides when the account's creatives skip the owner's approval.         *)
TrustEarnedOnce == trust = IF phase = "LIVE" THEN 1 ELSE 0

(* One campaign on Meta, one ad set with one ad per tier, one row: however *)
(* often a launch fails and is retried, it never stacks a duplicate that   *)
(* would spend the budget twice (pipeline.py:425), unless two calls        *)
(* overlap or Meta's answer to a create is lost.                           *)
NoDuplicates ==
  ~disturbed =>
    /\ Cardinality(campaigns) <= 1
    /\ \A r \in Role : adsetRows[r] <= 1 /\ Cardinality({a \in adsets : a.role = r}) <= 1
    /\ \A a \in adsets : Cardinality(AdsOf(a)) <= 1

(* A launch that fails half-way finitely often is completed by a retry.    *)
EventuallyLive == <>(phase = "LIVE")
=============================================================================
