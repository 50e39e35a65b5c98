------------------------------ MODULE Accounts ------------------------------
(***************************************************************************)
(* How a business gets in and out: the code by SMS, the sign-up on its     *)
(* first login, the tokens and the erasure (bff/routers/auth.py), its      *)
(* profile and its WhatsApp number (bff/routers/onboarding.py), the client *)
(* accounts of a partner (bff/routers/partner.py), and what the team does  *)
(* by hand (scripts/): provision a client, mint a code, name an admin.     *)
(*                                                                         *)
(* Sign-up, provisioning, erasure and the connection of a number take two  *)
(* transactions each, and the process may die in between. A session that   *)
(* writes the phase reads the account first and flushes at its commit      *)
(* (db.py, autoflush=False), over what another has written since. A user   *)
(* is identified by the phone, which is unique; it has a tenant, and in it *)
(* an account of its own, both identified by the phone as well. A          *)
(* partner's or an admin's tenant may have client accounts beside it.      *)
(***************************************************************************)
EXTENDS Naturals, FiniteSets

CONSTANTS
  Phone,
  Code,        (* the codes that are ever sent                              *)
  Login,       (* concurrent calls of otp_verify                            *)
  Number,      (* phone_number_ids of WhatsApp                              *)
  Client,      (* client accounts that a tenant may have                    *)
  None,
  MaxAdmins,   (* bound: users that create_admin names                      *)
  MaxFailures  (* bound: calls that raise or die half-way, and visits of    *)
               (* the support team                                          *)

(* A tenant's own account has no client's name.                            *)
Account == [tenant : Phone, client : Client \cup {None}]
AccountOf(p, c) == [tenant |-> p, client |-> c]

ASSUME AccountsAssumption ==
  /\ None \notin Phone \cup Code \cup Number \cup Client \cup Account
  /\ MaxAdmins \in Nat /\ MaxFailures \in Nat

VARIABLES
  sentTo,      (* auth_otps: the phone of each code                         *)
  spent,       (* those with a consumed_at, or past their expires_at        *)
  user,        (* the users row of each phone                               *)
  phase,       (* the phase of its own account: "NONE" = no accounts row,   *)
               (* "ONBOARDING" = that and all that follow but CHURNED       *)
  closed,      (* phones whose own account has a deleted_at                 *)
  writing,     (* a session that is about to write that phase               *)
  overtaken,   (* history: closed ones whose phase was written since        *)
  role,        (* of that user; "STAFF" is a partner or an admin, "UNBOUND" *)
               (* an admin without an account_id                            *)
  clients,     (* the client accounts of that tenant                        *)
  loggedIn,    (* phones with an access token of the current version        *)
  refreshable, (* phones that were given a refresh token                    *)
  login,       (* where a verification stands: [at, phone, code]            *)
  erasing,     (* phones whose erasure has done its first transaction       *)
  route,       (* wa_routes: the account of each number                     *)
  registering, (* a connection's second transaction: [at, number, client]   *)
  provisioning,(* the phone whose provisioning waits for its second         *)
               (* transaction                                               *)
  halfDone,    (* history: phones with a call that ended between its        *)
               (* transactions, or an erasure that met no account           *)
  failures

codeVars == <<sentTo, spent>>
phaseVars == <<closed, writing, overtaken>>
userVars == <<user, phase, phaseVars>>
staffVars == <<role, clients, provisioning>>
tokenVars == <<loggedIn, refreshable>>
numberVars == <<route, registering>>
vars == <<sentTo, spent, user, phase, closed, writing, overtaken, role, clients, loggedIn,
          refreshable, login, erasing, route, registering, provisioning, halfDone, failures>>

Idle == [at |-> "idle", phone |-> None, code |-> None]
NotRegistering == [at |-> "idle", number |-> None, client |-> None]

TypeOK ==
  /\ sentTo \in [Code -> Phone \cup {None}]
  /\ spent \in SUBSET Code
  /\ user \in [Phone -> {"none", "live", "deleted"}]
  /\ phase \in [Phone -> {"NONE", "SIGNED_UP", "ONBOARDING", "CHURNED"}]
  /\ \A p \in Phone : phase[p] # "NONE" => user[p] # "none"
  /\ closed \in SUBSET Phone /\ overtaken \in SUBSET Phone
  /\ writing \in [Phone -> {"idle", "asked", "read"}]
  /\ role \in [Phone -> {"OWNER", "STAFF", "UNBOUND"}]
  /\ clients \in [Phone -> SUBSET Client]
  /\ loggedIn \in SUBSET {p \in Phone : user[p] = "live"}
  /\ refreshable \in SUBSET {p \in Phone : user[p] # "none"}
  /\ login \in [Login -> [at : {"idle", "read", "verified", "signup", "account"},
                          phone : Phone \cup {None}, code : Code \cup {None}]]
  /\ erasing \in SUBSET Phone
  /\ route \in [Number -> Account \cup {None}]
  /\ registering \in [Phone -> [at : {"idle", "look", "insert"}, number : Number \cup {None},
                                client : Client \cup {None}]]
  /\ provisioning \in Phone \cup {None}
  /\ halfDone \in SUBSET Phone
  /\ failures \in 0..MaxFailures

Init ==
  /\ sentTo = [c \in Code |-> None] /\ spent = {}
  /\ user = [p \in Phone |-> "none"] /\ phase = [p \in Phone |-> "NONE"]
  /\ closed = {} /\ writing = [p \in Phone |-> "idle"] /\ overtaken = {}
  /\ role = [p \in Phone |-> "OWNER"] /\ clients = [p \in Phone |-> {}] /\ provisioning = None
  /\ loggedIn = {} /\ refreshable = {} /\ login = [l \in Login |-> Idle] /\ erasing = {}
  /\ route = [n \in Number |-> None]
  /\ registering = [p \in Phone |-> NotRegistering]
  /\ halfDone = {} /\ failures = 0

-----------------------------------------------------------------------------
(* otp_request.                                                            *)
SendCode(p, c) ==
  /\ sentTo[c] = None
  /\ sentTo' = [sentTo EXCEPT ![c] = p]
  /\ UNCHANGED <<spent, userVars, staffVars, tokenVars, login, erasing, numberVars, halfDone,
                 failures>>

Expire(c) ==
  /\ sentTo[c] # None /\ c \notin spent
  /\ spent' = spent \cup {c}
  /\ UNCHANGED <<sentTo, userVars, staffVars, tokenVars, login, erasing, numberVars, halfDone,
                 failures>>

(* otp_verify selects the code; another call may have it in hand, too.     *)
ReadCode(l, c) ==
  /\ login[l].at = "idle" /\ sentTo[c] # None /\ c \notin spent
  /\ login' = [login EXCEPT ![l] = [at |-> "read", phone |-> sentTo[c], code |-> c]]
  /\ UNCHANGED <<codeVars, userVars, staffVars, tokenVars, erasing, numberVars, halfDone,
                 failures>>

ConsumeCode(l) ==
  /\ login[l].at = "read"
  /\ spent' = spent \cup {login[l].code}
  /\ login' = [login EXCEPT ![l] = [at |-> "verified", phone |-> @.phone, code |-> None]]
  /\ UNCHANGED <<sentTo, userVars, staffVars, tokenVars, erasing, numberVars, halfDone,
                 failures>>

(* Two tokens: the access token counts while its version is the user's and *)
(* the user is not deleted.                                                *)
Tokens(p) ==
  /\ loggedIn' = IF user[p] = "live" THEN loggedIn \cup {p} ELSE loggedIn
  /\ refreshable' = refreshable \cup {p}

(* _user_by_phone: a user that exists, erased or not, gets tokens; only    *)
(* those of a live one are of use.                                         *)
LookUpUser(l) ==
  LET p == login[l].phone
  IN /\ login[l].at = "verified"
     /\ \/ /\ user[p] # "none"
           /\ login' = [login EXCEPT ![l] = Idle]
           /\ Tokens(p)
        \/ /\ user[p] = "none"
           /\ login' = [login EXCEPT ![l].at = "signup"]
           /\ UNCHANGED tokenVars
     /\ UNCHANGED <<codeVars, userVars, staffVars, erasing, numberVars, halfDone, failures>>

(* Mutant: the account is created first.                                   *)
SignUpUser_AccountFirst(l) ==
  LET p == login[l].phone
  IN /\ login[l].at = "signup"
     /\ phase' = [phase EXCEPT ![p] = "SIGNED_UP"]
     /\ login' = [login EXCEPT ![l].at = "account"]
     /\ UNCHANGED <<codeVars, user, phaseVars, staffVars, tokenVars, erasing, numberVars,
                    halfDone, failures>>

(* The first transaction of _signup: tenant and user. The phone is unique: *)
(* the loser of a race raises.                                             *)
SignUpUser(l) ==
  LET p == login[l].phone
  IN /\ login[l].at = "signup"
     /\ \/ /\ user[p] = "none"
           /\ user' = [user EXCEPT ![p] = "live"]
           /\ login' = [login EXCEPT ![l].at = "account"]
        \/ /\ user[p] # "none"
           /\ login' = [login EXCEPT ![l] = Idle]
           /\ UNCHANGED user
     /\ UNCHANGED <<codeVars, phase, phaseVars, staffVars, tokenVars, erasing, numberVars,
                    halfDone, failures>>

(* Its second transaction: the account.                                    *)
SignUpAccount(l) ==
  LET p == login[l].phone
  IN /\ login[l].at = "account"
     /\ phase' = [phase EXCEPT ![p] = "SIGNED_UP"]
     /\ Tokens(p)
     /\ login' = [login EXCEPT ![l] = Idle]
     /\ UNCHANGED <<codeVars, user, phaseVars, staffVars, erasing, numberVars, halfDone,
                    failures>>

LoginFails(l) ==
  /\ login[l].at # "idle" /\ failures < MaxFailures
  /\ failures' = failures + 1
  /\ halfDone' = IF login[l].at = "account" THEN halfDone \cup {login[l].phone} ELSE halfDone
  /\ login' = [login EXCEPT ![l] = Idle]
  /\ UNCHANGED <<codeVars, userVars, staffVars, tokenVars, erasing, numberVars>>

(* current_principal: the access token has the version of its user, who is *)
(* not deleted.                                                            *)
Principal(p) == p \in loggedIn

(* logout raises the token's version; a refresh token carries none.        *)
Logout(p) ==
  /\ Principal(p)
  /\ loggedIn' = loggedIn \ {p}
  /\ UNCHANGED <<codeVars, userVars, staffVars, refreshable, login, erasing, numberVars,
                 halfDone, failures>>

Refresh(p) ==
  /\ p \in refreshable \ loggedIn /\ user[p] = "live"
  /\ loggedIn' = loggedIn \cup {p}
  /\ UNCHANGED <<codeVars, userVars, staffVars, refreshable, login, erasing, numberVars,
                 halfDone, failures>>

(* impersonate: an admin gets the access token of an account's owner, but  *)
(* no refresh token.                                                       *)
Impersonate(a, p) ==
  /\ failures < MaxFailures /\ failures' = failures + 1
  /\ Principal(a) /\ role[a] # "OWNER"
  /\ phase[p] # "NONE" /\ role[p] = "OWNER" /\ user[p] = "live"
  /\ loggedIn' = loggedIn \cup {p}
  /\ UNCHANGED <<codeVars, userVars, staffVars, refreshable, login, erasing, numberVars,
                 halfDone>>

-----------------------------------------------------------------------------
(* create_sub_account.                                                     *)
CreateClient(p, c) ==
  /\ Principal(p) /\ role[p] # "OWNER"
  /\ clients' = [clients EXCEPT ![p] = @ \cup {c}]
  /\ UNCHANGED <<codeVars, userVars, role, provisioning, tokenVars, login, erasing, numberVars,
                 halfDone, failures>>

(* The accounts of its tenant that a user may hold a token for: the one of *)
(* the login, and each client that open_sub_account opens.                 *)
Scope(p) == (IF role[p] = "UNBOUND" THEN {} ELSE {None})
              \cup (IF role[p] = "OWNER" THEN {} ELSE clients[p])

-----------------------------------------------------------------------------
(* delete_my_account: the user first, whose sessions end, and then the     *)
(* account of the token. What becomes of a client's account is left out.   *)
EraseUser(p) ==
  /\ Principal(p)
  /\ user' = [user EXCEPT ![p] = "deleted"]
  /\ loggedIn' = loggedIn \ {p}
  /\ \/ None \in Scope(p) /\ erasing' = erasing \cup {p}
     \/ Scope(p) # {None} /\ UNCHANGED erasing
  /\ UNCHANGED <<codeVars, phase, phaseVars, staffVars, refreshable, login, numberVars, halfDone,
                 failures>>

(* Mutant: only an account in service is closed.                           *)
EraseAccount_InService(p) ==
  /\ p \in erasing
  /\ phase' = [phase EXCEPT ![p] = IF @ = "ONBOARDING" THEN "CHURNED" ELSE @]
  /\ closed' = IF phase[p] = "ONBOARDING" THEN closed \cup {p} ELSE closed
  /\ erasing' = erasing \ {p}
  /\ UNCHANGED <<codeVars, user, writing, overtaken, staffVars, tokenVars, login, numberVars,
                 halfDone, failures>>

(* The second transaction. There may be no account: the sign-up is half    *)
(* done, or not done yet.                                                  *)
EraseAccount(p) ==
  /\ p \in erasing
  /\ erasing' = erasing \ {p}
  /\ \/ /\ phase[p] # "NONE"
        /\ phase' = [phase EXCEPT ![p] = "CHURNED"]
        /\ closed' = closed \cup {p}
        /\ UNCHANGED halfDone
     \/ /\ phase[p] = "NONE"
        /\ halfDone' = halfDone \cup {p}
        /\ UNCHANGED <<phase, closed>>
  /\ UNCHANGED <<codeVars, user, writing, overtaken, staffVars, tokenVars, login, numberVars,
                 failures>>

EraseFails(p) ==
  /\ p \in erasing /\ failures < MaxFailures
  /\ failures' = failures + 1
  /\ halfDone' = halfDone \cup {p} /\ erasing' = erasing \ {p}
  /\ UNCHANGED <<codeVars, userVars, staffVars, tokenVars, login, numberVars>>

-----------------------------------------------------------------------------
(* The phase of an own account. Bound: one session that is to write one.   *)
NobodyWrites == \A p \in Phone : writing[p] = "idle"

(* A request of set_business has its principal, in a session of its own;   *)
(* one for an account that has gone on since will change no phase.         *)
AskBusiness(p) ==
  /\ Principal(p) /\ None \in Scope(p) /\ phase[p] = "SIGNED_UP" /\ NobodyWrites
  /\ writing' = [writing EXCEPT ![p] = "asked"]
  /\ UNCHANGED <<codeVars, user, phase, closed, overtaken, staffVars, tokenVars, login, erasing,
                 numberVars, halfDone, failures>>

(* Then it loads the account: the first time, it is to go on.              *)
ReadBusiness(p) ==
  /\ writing[p] = "asked"
  /\ writing' = [writing EXCEPT ![p] = IF phase[p] = "SIGNED_UP" THEN "read" ELSE "idle"]
  /\ UNCHANGED <<codeVars, user, phase, closed, overtaken, staffVars, tokenVars, login, erasing,
                 numberVars, halfDone, failures>>

(* Research, the ads, the launch or the optimizer is begun for an account  *)
(* that is not erased: by the hourly jobs or by a request.                 *)
StartWork(p) ==
  /\ NobodyWrites /\ phase[p] \in {"SIGNED_UP", "ONBOARDING"} /\ p \notin closed
  /\ writing' = [writing EXCEPT ![p] = "read"]
  /\ UNCHANGED <<codeVars, user, phase, closed, overtaken, staffVars, tokenVars, login, erasing,
                 numberVars, halfDone, failures>>

(* An account goes on, whatever its phase is by now.                       *)
WritePhase(p) ==
  /\ phase' = [phase EXCEPT ![p] = "ONBOARDING"]
  /\ overtaken' = IF p \in closed THEN overtaken \cup {p} ELSE overtaken

CommitPhase(p) ==
  /\ writing[p] = "read"
  /\ WritePhase(p)
  /\ writing' = [writing EXCEPT ![p] = "idle"]
  /\ UNCHANGED <<codeVars, user, closed, staffVars, tokenVars, login, erasing, numberVars,
                 halfDone, failures>>

PhaseFails(p) ==
  /\ writing[p] # "idle"
  /\ writing' = [writing EXCEPT ![p] = "idle"]
  /\ UNCHANGED <<codeVars, user, phase, closed, overtaken, staffVars, tokenVars, login, erasing,
                 numberVars, halfDone, failures>>

(* trial_sweep, and an admin's pause_account, pause an account without a   *)
(* look at its deleted_at.                                                 *)
PauseAny(p) ==
  /\ phase[p] # "NONE"
  /\ WritePhase(p)
  /\ UNCHANGED <<codeVars, user, closed, writing, staffVars, tokenVars, login, erasing,
                 numberVars, halfDone, failures>>

-----------------------------------------------------------------------------
(* connect_whatsapp has committed the connection of the token's account.   *)
Connect(p, n, c) ==
  /\ Principal(p) /\ c \in Scope(p) /\ registering[p].at = "idle"
  /\ registering' = [registering EXCEPT ![p] = [at |-> "look", number |-> n, client |-> c]]
  /\ UNCHANGED <<codeVars, userVars, staffVars, tokenVars, login, erasing, route, halfDone,
                 failures>>

(* Then the route: the tenant's own is led to this account, and another    *)
(* tenant's is refused.                                                    *)
LookUpRoute(p) ==
  LET n == registering[p].number
  IN /\ registering[p].at = "look"
     /\ \/ /\ route[n] = None
           /\ registering' = [registering EXCEPT ![p].at = "insert"]
           /\ UNCHANGED route
        \/ /\ route[n] # None
           /\ route' = IF route[n].tenant = p
                       THEN [route EXCEPT ![n] = AccountOf(p, registering[p].client)]
                       ELSE route
           /\ registering' = [registering EXCEPT ![p] = NotRegistering]
     /\ UNCHANGED <<codeVars, userVars, staffVars, tokenVars, login, erasing, halfDone,
                    failures>>

(* Mutant: writes the route, whoever has inserted it since.                *)
InsertRoute_Upsert(p) ==
  /\ registering[p].at = "insert"
  /\ route' = [route EXCEPT ![registering[p].number] = AccountOf(p, registering[p].client)]
  /\ registering' = [registering EXCEPT ![p] = NotRegistering]
  /\ UNCHANGED <<codeVars, userVars, staffVars, tokenVars, login, erasing, halfDone,
                 failures>>

(* The number is unique: the loser of a race raises.                       *)
InsertRoute(p) ==
  LET n == registering[p].number
  IN /\ registering[p].at = "insert"
     /\ route' = [route EXCEPT ![n] = IF @ = None THEN AccountOf(p, registering[p].client)
                                      ELSE @]
     /\ registering' = [registering EXCEPT ![p] = NotRegistering]
     /\ UNCHANGED <<codeVars, userVars, staffVars, tokenVars, login, erasing, halfDone,
                    failures>>

ConnectFails(p) ==
  /\ registering[p].at # "idle" /\ failures < MaxFailures
  /\ failures' = failures + 1
  /\ registering' = [registering EXCEPT ![p] = NotRegistering]
  /\ UNCHANGED <<codeVars, userVars, staffVars, tokenVars, login, erasing, route, halfDone>>

-----------------------------------------------------------------------------
(* mint_login: a code without an SMS.                                      *)
MintLogin(p, c) == SendCode(p, c)

(* provision_client. Its first transaction: tenant, user, and the route of *)
(* a number that nobody has registered; one that somebody has is passed    *)
(* over. A phone that has a user makes it raise.                           *)
ProvisionUser(p, n) ==
  /\ provisioning = None /\ user[p] = "none"
  /\ user' = [user EXCEPT ![p] = "live"]
  /\ route' = [m \in Number |-> IF m = n /\ route[m] = None THEN AccountOf(p, None)
                                ELSE route[m]]
  /\ provisioning' = p
  /\ UNCHANGED <<codeVars, phase, phaseVars, role, clients, tokenVars, login, erasing,
                 registering, halfDone, failures>>

(* Its second: the account and its connections.                            *)
ProvisionAccount ==
  /\ provisioning # None
  /\ phase' = [phase EXCEPT ![provisioning] = "SIGNED_UP"]
  /\ provisioning' = None
  /\ UNCHANGED <<codeVars, user, phaseVars, role, clients, tokenVars, login, erasing,
                 numberVars, halfDone, failures>>

ProvisionFails ==
  /\ provisioning # None /\ failures < MaxFailures
  /\ failures' = failures + 1
  /\ halfDone' = halfDone \cup {provisioning} /\ provisioning' = None
  /\ UNCHANGED <<codeVars, userVars, role, clients, tokenVars, login, erasing, numberVars>>

(* create_admin: a new user without an account, or one that exists, erased *)
(* or not.                                                                 *)
CreateAdmin(p) ==
  /\ Cardinality({q \in Phone \ {p} : role[q] # "OWNER"}) < MaxAdmins
  /\ user' = [user EXCEPT ![p] = "live"]
  /\ role' = [role EXCEPT ![p] = IF user[p] = "none" THEN "UNBOUND"
                                 ELSE IF @ = "OWNER" THEN "STAFF" ELSE @]
  /\ UNCHANGED <<codeVars, phase, phaseVars, clients, provisioning, tokenVars, login, erasing,
                 numberVars, halfDone, failures>>

-----------------------------------------------------------------------------
Verify(l) == ConsumeCode(l) \/ LookUpUser(l) \/ SignUpUser(l) \/ SignUpAccount(l)

Next ==
  \/ \E c \in Code : (\E p \in Phone : SendCode(p, c) \/ MintLogin(p, c)) \/ Expire(c)
  \/ \E l \in Login : (\E c \in Code : ReadCode(l, c)) \/ Verify(l) \/ LoginFails(l)
  \/ \E p \in Phone : EraseUser(p) \/ EraseAccount(p) \/ EraseFails(p)
  \/ \E p \in Phone : AskBusiness(p) \/ ReadBusiness(p) \/ StartWork(p) \/ CommitPhase(p)
                        \/ PhaseFails(p) \/ PauseAny(p)
  \/ \E p \in Phone, n \in Number, c \in Client \cup {None} : Connect(p, n, c)
  \/ \E p \in Phone : LookUpRoute(p) \/ InsertRoute(p) \/ ConnectFails(p)
  \/ \E p \in Phone, c \in Client : CreateClient(p, c)
  \/ \E p \in Phone : Logout(p) \/ Refresh(p) \/ CreateAdmin(p)
  \/ \E a, p \in Phone : Impersonate(a, p)
  \/ \E p \in Phone, n \in Number \cup {None} : ProvisionUser(p, n)
  \/ ProvisionAccount \/ ProvisionFails

Spec == Init /\ [][Next]_vars

-----------------------------------------------------------------------------
Settled(p) ==
  /\ p \notin halfDone \cup erasing \cup {provisioning}
  /\ \A l \in Login : ~(login[l].at = "account" /\ login[l].phone = p)

(* A user has an account, and an erased one's is closed: the logins and    *)
(* the provisioning that race to sign up, or the erasure that follows      *)
(* them, leave nothing else behind, unless the process dies between two    *)
(* transactions (auth.py:82, auth.py:203). It stays CHURNED, too, except   *)
(* where a session that was on its way at the erasure, the sweep of the    *)
(* trials or an admin's pause has written the phase since. Admins, who may *)
(* have no account and whom create_admin brings back, are left out.        *)
AccountMatchesUser ==
  \A p \in Phone : Settled(p) /\ role[p] = "OWNER" =>
    CASE user[p] = "none"    -> phase[p] = "NONE"
      [] user[p] = "live"    -> phase[p] \in {"SIGNED_UP", "ONBOARDING"} /\ p \notin closed
      [] user[p] = "deleted" -> p \in closed /\ (phase[p] = "CHURNED" \/ p \in overtaken)

(* A number never leaves the tenant that registered it, whoever else has   *)
(* looked it up before (onboarding.py:164): among the accounts of a        *)
(* partner's tenant it may change hands.                                   *)
NumbersStay ==
  [][\A n \in Number : route[n] # None =>
       route'[n] # None /\ route'[n].tenant = route[n].tenant]_vars
=============================================================================
