--------------------------- MODULE AccountsProofs ---------------------------
(***************************************************************************)
(* Proofs about Accounts, for every set of phones, codes, logins and       *)
(* numbers and every bound on the failures: the type invariant, that an    *)
(* account matches its user, and that a number never leaves its tenant.    *)
(***************************************************************************)
EXTENDS Accounts, TLAPS

-----------------------------------------------------------------------------
(* The inductive invariant.                                                *)

(* A verification under way knows its phone, and its code until that is    *)
(* consumed; a connection under way knows its number.                      *)
InHandInv ==
  /\ \A l \in Login : login[l].at # "idle" => login[l].phone \in Phone
  /\ \A l \in Login : login[l].at = "read" => login[l].code \in Code
  /\ \A p \in Phone : registering[p].at # "idle" => registering[p].number \in Number

(* Login l is to create the account of p.                                  *)
Creates(l, p) == login[l].at = "account" /\ login[l].phone = p

(* At most one call is to create the account of a phone, which has a user, *)
(* but no account yet.                                                     *)
CreatorInv ==
  /\ \A p \in Phone, l \in Login : Creates(l, p) =>
       /\ phase[p] = "NONE" /\ user[p] # "none" /\ provisioning # p
       /\ \A k \in Login : Creates(k, p) => k = l
  /\ \A p \in Phone : provisioning = p => phase[p] = "NONE" /\ user[p] # "none"

(* An owner without an account waits for the call that creates it, and an  *)
(* erased one whose account is open for the second half of the erasure.    *)
OwnerInv ==
  \A p \in Phone : role[p] = "OWNER" /\ p \notin halfDone =>
    /\ user[p] = "live" => \/ phase[p] # "NONE"
                           \/ provisioning = p \/ \E l \in Login : Creates(l, p)
    /\ user[p] = "deleted" => p \in closed \/ p \in erasing

(* Only create_admin brings an erased user back, as somebody else.         *)
ErasingInv == \A p \in erasing : role[p] = "OWNER" => user[p] = "deleted"

(* What is closed is an account, an owner's only with its user, and its    *)
(* phase is CHURNED unless another session has written it since. Only an   *)
(* account has a phase to be written.                                      *)
PhaseInv ==
  /\ \A p \in Phone : writing[p] # "idle" => phase[p] # "NONE"
  /\ \A p \in closed : phase[p] = "CHURNED" \/ (phase[p] = "ONBOARDING" /\ p \in overtaken)
  /\ \A p \in closed : role[p] = "OWNER" => user[p] = "deleted"
  /\ \A p \in Phone \ closed : phase[p] # "CHURNED"

AccountsInv == TypeOK /\ InHandInv /\ CreatorInv /\ OwnerInv /\ ErasingInv /\ PhaseInv

LEMMA InitAccounts == Init => AccountsInv
  <1> SUFFICES ASSUME Init  PROVE AccountsInv
    OBVIOUS
  <1> USE AccountsAssumption DEF Init, Idle, NotRegistering
  <1>1. TypeOK  BY DEF TypeOK
  <1>2. InHandInv  BY DEF InHandInv
  <1>3. CreatorInv  BY DEF CreatorInv, Creates
  <1>4. OwnerInv  BY DEF OwnerInv
  <1>5. ErasingInv  BY DEF ErasingInv
  <1>6. PhaseInv  BY DEF PhaseInv
  <1> QED  BY <1>1, <1>2, <1>3, <1>4, <1>5, <1>6 DEF AccountsInv

(* A verification that goes on, and one that ends.                         *)
LoginState == [at : {"idle", "read", "verified", "signup", "account"},
               phone : Phone \cup {None}, code : Code \cup {None}]

LEMMA LoginGoesOn ==
  ASSUME login \in [Login -> LoginState], NEW l \in Login,
         NEW at \in {"idle", "read", "verified", "signup", "account"},
         login' = [login EXCEPT ![l].at = at]
  PROVE  /\ login' \in [Login -> LoginState]
         /\ login'[l].at = at /\ login'[l].phone = login[l].phone
         /\ login'[l].code = login[l].code
         /\ \A k \in Login : k # l => login'[k] = login[k]
  BY DEF LoginState

LEMMA LoginEnds ==
  ASSUME login \in [Login -> LoginState], NEW l \in Login, login' = [login EXCEPT ![l] = Idle]
  PROVE  /\ login' \in [Login -> LoginState]
         /\ login'[l] = Idle /\ login'[l].at = "idle"
         /\ \A k \in Login : k # l => login'[k] = login[k]
  BY DEF LoginState, Idle

(* Who is to create which account matters only where these variables       *)
(* change.                                                                 *)
LEMMA SameOwners ==
  ASSUME AccountsInv, UNCHANGED <<userVars, staffVars, login, erasing, halfDone>>
  PROVE  CreatorInv' /\ OwnerInv' /\ ErasingInv' /\ PhaseInv'
  BY DEF AccountsInv, CreatorInv, OwnerInv, ErasingInv, PhaseInv, Creates, userVars, phaseVars,
         staffVars

-----------------------------------------------------------------------------
(* Each step keeps the invariant.                                         *)

LEMMA SendCodeAccounts ==
  ASSUME AccountsInv, NEW p \in Phone, NEW c \in Code, SendCode(p, c)
  PROVE  AccountsInv'
  <1> USE AccountsAssumption
      DEF SendCode, AccountsInv, codeVars, userVars, phaseVars, staffVars, tokenVars,
          numberVars
  <1>1. TypeOK'  BY DEF TypeOK, InHandInv
  <1>2. InHandInv'  BY DEF InHandInv, TypeOK
  <1>3. CreatorInv' /\ OwnerInv' /\ ErasingInv' /\ PhaseInv'  BY SameOwners
  <1> QED  BY <1>1, <1>2, <1>3

LEMMA ExpireAccounts ==
  ASSUME AccountsInv, NEW c \in Code, Expire(c)
  PROVE  AccountsInv'
  <1> USE AccountsAssumption
      DEF Expire, AccountsInv, codeVars, userVars, phaseVars, staffVars, tokenVars,
          numberVars
  <1>1. TypeOK'  BY DEF TypeOK, InHandInv
  <1>2. InHandInv'  BY DEF InHandInv, TypeOK
  <1>3. CreatorInv' /\ OwnerInv' /\ ErasingInv' /\ PhaseInv'  BY SameOwners
  <1> QED  BY <1>1, <1>2, <1>3

LEMMA LogoutAccounts ==
  ASSUME AccountsInv, NEW p \in Phone, Logout(p)
  PROVE  AccountsInv'
  <1> USE AccountsAssumption
      DEF Logout, AccountsInv, codeVars, userVars, phaseVars, staffVars, tokenVars,
          numberVars
  <1>1. TypeOK'  BY DEF TypeOK, InHandInv
  <1>2. InHandInv'  BY DEF InHandInv, TypeOK
  <1>3. CreatorInv' /\ OwnerInv' /\ ErasingInv' /\ PhaseInv'  BY SameOwners
  <1> QED  BY <1>1, <1>2, <1>3

LEMMA RefreshAccounts ==
  ASSUME AccountsInv, NEW p \in Phone, Refresh(p)
  PROVE  AccountsInv'
  <1> USE AccountsAssumption
      DEF Refresh, AccountsInv, codeVars, userVars, phaseVars, staffVars, tokenVars,
          numberVars
  <1>1. TypeOK'  BY DEF TypeOK, InHandInv
  <1>2. InHandInv'  BY DEF InHandInv, TypeOK
  <1>3. CreatorInv' /\ OwnerInv' /\ ErasingInv' /\ PhaseInv'  BY SameOwners
  <1> QED  BY <1>1, <1>2, <1>3

LEMMA ImpersonateAccounts ==
  ASSUME AccountsInv, NEW a \in Phone, NEW p \in Phone, Impersonate(a, p)
  PROVE  AccountsInv'
  <1> USE AccountsAssumption
      DEF Impersonate, AccountsInv, codeVars, userVars, phaseVars, staffVars, tokenVars,
          numberVars
  <1>1. TypeOK'  BY DEF TypeOK, InHandInv
  <1>2. InHandInv'  BY DEF InHandInv, TypeOK
  <1>3. CreatorInv' /\ OwnerInv' /\ ErasingInv' /\ PhaseInv'  BY SameOwners
  <1> QED  BY <1>1, <1>2, <1>3

LEMMA ConnectAccounts ==
  ASSUME AccountsInv, NEW p \in Phone, NEW n \in Number, NEW c \in Client \cup {None},
         Connect(p, n, c)
  PROVE  AccountsInv'
  <1> USE AccountsAssumption
      DEF Connect, AccountsInv, codeVars, userVars, phaseVars, staffVars, tokenVars,
          numberVars
  <1>1. TypeOK'  BY DEF TypeOK, InHandInv
  <1>2. InHandInv'  BY DEF InHandInv, TypeOK
  <1>3. CreatorInv' /\ OwnerInv' /\ ErasingInv' /\ PhaseInv'  BY SameOwners
  <1> QED  BY <1>1, <1>2, <1>3

LEMMA LookUpRouteAccounts ==
  ASSUME AccountsInv, NEW p \in Phone, LookUpRoute(p)
  PROVE  AccountsInv'
  <1> USE AccountsAssumption
      DEF LookUpRoute, AccountsInv, codeVars, userVars, phaseVars, staffVars, tokenVars,
          numberVars, NotRegistering
  <1>a. registering[p].number \in Number /\ registering[p].client \in Client \cup {None}
    BY DEF InHandInv, TypeOK
  <1>b. AccountOf(p, registering[p].client) \in Account
    BY <1>a DEF Account, AccountOf
  <1>c. route' \in [Number -> Account \cup {None}]
    BY <1>a, <1>b DEF TypeOK
  <1>d. registering' = [registering EXCEPT ![p].at = "insert"]
          \/ registering' = [registering EXCEPT ![p] = NotRegistering]
    OBVIOUS
  <1>e. /\ registering' \in [Phone -> [at : {"idle", "look", "insert"},
                                      number : Number \cup {None}, client : Client \cup {None}]]
        /\ registering'[p].at # "idle" => registering'[p].number = registering[p].number
        /\ \A q \in Phone : q # p => registering'[q] = registering[q]
    <2>1. CASE registering' = [registering EXCEPT ![p].at = "insert"]
      BY <2>1 DEF TypeOK
    <2>2. CASE registering' = [registering EXCEPT ![p] = NotRegistering]
      BY <2>2 DEF TypeOK
    <2> QED  BY <1>d, <2>1, <2>2
  <1>1. TypeOK'  BY <1>c, <1>e DEF TypeOK
  <1>2. InHandInv'  BY <1>a, <1>e DEF InHandInv
  <1>3. CreatorInv' /\ OwnerInv' /\ ErasingInv' /\ PhaseInv'  BY SameOwners
  <1> QED  BY <1>1, <1>2, <1>3

LEMMA InsertRouteAccounts ==
  ASSUME AccountsInv, NEW p \in Phone, InsertRoute(p)
  PROVE  AccountsInv'
  <1> USE AccountsAssumption
      DEF InsertRoute, AccountsInv, codeVars, userVars, phaseVars, staffVars, tokenVars,
          numberVars, NotRegistering
  <1>a. registering[p].number \in Number /\ registering[p].client \in Client \cup {None}
    BY DEF InHandInv, TypeOK
  <1>b. AccountOf(p, registering[p].client) \in Account
    BY <1>a DEF Account, AccountOf
  <1>c. route' \in [Number -> Account \cup {None}]
    BY <1>a, <1>b DEF TypeOK
  <1>1. TypeOK'  BY <1>c DEF TypeOK
  <1>2. InHandInv'  BY DEF InHandInv, TypeOK
  <1>3. CreatorInv' /\ OwnerInv' /\ ErasingInv' /\ PhaseInv'  BY SameOwners
  <1> QED  BY <1>1, <1>2, <1>3

LEMMA ConnectFailsAccounts ==
  ASSUME AccountsInv, NEW p \in Phone, ConnectFails(p)
  PROVE  AccountsInv'
  <1> USE AccountsAssumption
      DEF ConnectFails, AccountsInv, codeVars, userVars, phaseVars, staffVars, tokenVars,
          numberVars, NotRegistering
  <1>1. TypeOK'  BY DEF TypeOK, InHandInv
  <1>2. InHandInv'  BY DEF InHandInv, TypeOK
  <1>3. CreatorInv' /\ OwnerInv' /\ ErasingInv' /\ PhaseInv'  BY SameOwners
  <1> QED  BY <1>1, <1>2, <1>3

LEMMA ReadCodeAccounts ==
  ASSUME AccountsInv, NEW l \in Login, NEW c \in Code, ReadCode(l, c)
  PROVE  AccountsInv'
  <1> USE AccountsAssumption
      DEF ReadCode, AccountsInv, codeVars, userVars, phaseVars, staffVars, tokenVars,
          numberVars
  <1>1. TypeOK'  BY DEF TypeOK, InHandInv
  <1>2. InHandInv'  BY DEF InHandInv, TypeOK
  <1>3. CreatorInv'  BY DEF CreatorInv, Creates, InHandInv, TypeOK
  <1>4. OwnerInv'  BY DEF OwnerInv, CreatorInv, Creates, InHandInv, TypeOK
  <1>5. ErasingInv'  BY DEF ErasingInv, TypeOK
  <1>6. PhaseInv'  BY DEF PhaseInv, TypeOK
  <1> QED  BY <1>1, <1>2, <1>3, <1>4, <1>5, <1>6

LEMMA ConsumeCodeAccounts ==
  ASSUME AccountsInv, NEW l \in Login, ConsumeCode(l)
  PROVE  AccountsInv'
  <1> USE AccountsAssumption
      DEF ConsumeCode, AccountsInv, codeVars, userVars, phaseVars, staffVars, tokenVars,
          numberVars
  <1>0. /\ login' \in [Login -> LoginState]
        /\ login'[l].at = "verified" /\ login'[l].phone = login[l].phone
        /\ \A k \in Login : k # l => login'[k] = login[k]
    <2> DEFINE next == [at |-> "verified", phone |-> login[l].phone, code |-> None]
    <2>0. login \in [Login -> LoginState]
      BY DEF TypeOK, LoginState
    <2>1. next \in LoginState /\ next.at = "verified" /\ next.phone = login[l].phone
      BY <2>0 DEF LoginState
    <2>2. login' = [login EXCEPT ![l] = next]
      BY <2>0
    <2> HIDE DEF next
    <2> QED  BY <2>0, <2>1, <2>2
  <1>1. TypeOK'  BY <1>0 DEF TypeOK, InHandInv, LoginState
  <1>2. InHandInv'  BY <1>0 DEF InHandInv, TypeOK
  <1>3. CreatorInv'  BY <1>0 DEF CreatorInv, Creates
  <1>4. OwnerInv'  BY <1>0 DEF OwnerInv, Creates
  <1>5. ErasingInv'  BY DEF ErasingInv
  <1>6. PhaseInv'  BY DEF PhaseInv, TypeOK
  <1> QED  BY <1>1, <1>2, <1>3, <1>4, <1>5, <1>6

LEMMA LookUpUserAccounts ==
  ASSUME AccountsInv, NEW l \in Login, LookUpUser(l)
  PROVE  AccountsInv'
  <1> USE AccountsAssumption
      DEF LookUpUser, AccountsInv, codeVars, userVars, phaseVars, staffVars, tokenVars,
          numberVars
  <1>0. /\ login' \in [Login -> LoginState]
        /\ login'[l].at # "idle" => /\ login'[l].phone = login[l].phone
                                    /\ login'[l].code = login[l].code
        /\ login'[l].at \notin {"account", "read"}
        /\ \A k \in Login : k # l => login'[k] = login[k]
    <2>1. CASE login' = [login EXCEPT ![l] = Idle]
      BY <2>1, LoginEnds DEF TypeOK, LoginState
    <2>2. CASE login' = [login EXCEPT ![l].at = "signup"]
      BY <2>2, LoginGoesOn DEF TypeOK, LoginState
    <2> QED  BY <2>1, <2>2
  <1>a. login[l].phone \in Phone
    BY DEF InHandInv
  <1>1. TypeOK'  BY <1>0, <1>a DEF TypeOK, LoginState, Tokens
  <1>2. InHandInv'  BY <1>0, <1>a DEF InHandInv
  <1>3. CreatorInv'  BY <1>0 DEF CreatorInv, Creates
  <1>4. OwnerInv'
    <2>1. \A k \in Login, p \in Phone : Creates(k, p) => Creates(k, p)'
      BY <1>0 DEF Creates
    <2> QED  BY <2>1 DEF OwnerInv
  <1>5. ErasingInv'  BY DEF ErasingInv
  <1>6. PhaseInv'  BY DEF PhaseInv, TypeOK
  <1> QED  BY <1>1, <1>2, <1>3, <1>4, <1>5, <1>6

LEMMA SignUpUserAccounts ==
  ASSUME AccountsInv, NEW l \in Login, SignUpUser(l)
  PROVE  AccountsInv'
  <1> USE AccountsAssumption
      DEF SignUpUser, AccountsInv, codeVars, userVars, phaseVars, staffVars, tokenVars,
          numberVars
  <1>a. login[l].phone \in Phone
    BY DEF InHandInv
  <1>1. CASE user[login[l].phone] # "none"
    <2>1. UNCHANGED userVars /\ login' = [login EXCEPT ![l] = Idle]
      BY <1>1
    <2>2. /\ login' \in [Login -> LoginState] /\ login'[l].at = "idle"
          /\ \A k \in Login : k # l => login'[k] = login[k]
      BY <2>1, LoginEnds DEF TypeOK, LoginState
    <2>3. TypeOK'  BY <2>1, <2>2 DEF TypeOK, LoginState
    <2>4. InHandInv'  BY <2>2 DEF InHandInv
    <2>5. CreatorInv'  BY <2>1, <2>2 DEF CreatorInv, Creates
    <2>6. \A k \in Login, p \in Phone : Creates(k, p) => Creates(k, p)'
      BY <2>2 DEF Creates
    <2>7. OwnerInv' /\ ErasingInv' /\ PhaseInv'
      BY <2>1, <2>6 DEF OwnerInv, ErasingInv, PhaseInv
    <2> QED  BY <2>3, <2>4, <2>5, <2>7
  <1>2. CASE user[login[l].phone] = "none"
    <2>1. /\ user' = [user EXCEPT ![login[l].phone] = "live"] /\ UNCHANGED phase
          /\ login' = [login EXCEPT ![l].at = "account"]
      BY <1>2
    <2>2. /\ login' \in [Login -> LoginState]
          /\ login'[l].at = "account" /\ login'[l].phone = login[l].phone
          /\ login'[l].code = login[l].code
          /\ \A k \in Login : k # l => login'[k] = login[k]
      BY <2>1, LoginGoesOn DEF TypeOK, LoginState
    <2>3. TypeOK'  BY <1>a, <2>1, <2>2 DEF TypeOK, LoginState
    <2>4. InHandInv'  BY <2>2 DEF InHandInv
    <2>5. CreatorInv'
      BY <1>a, <1>2, <2>1, <2>2 DEF CreatorInv, Creates, TypeOK
    <2>6. \A k \in Login, p \in Phone : Creates(k, p) => Creates(k, p)'
      BY <2>2 DEF Creates
    <2>7. OwnerInv'  BY <1>a, <2>1, <2>2, <2>6 DEF OwnerInv, Creates, TypeOK
    <2>8. ErasingInv'  BY <1>2, <2>1 DEF ErasingInv, TypeOK
    <2>9. PhaseInv'  BY <1>2, <2>1 DEF PhaseInv, TypeOK
    <2> QED  BY <2>3, <2>4, <2>5, <2>7, <2>8, <2>9
  <1> QED  BY <1>1, <1>2

LEMMA SignUpAccountAccounts ==
  ASSUME AccountsInv, NEW l \in Login, SignUpAccount(l)
  PROVE  AccountsInv'
  <1> USE AccountsAssumption
      DEF SignUpAccount, AccountsInv, codeVars, userVars, phaseVars, staffVars, tokenVars,
          numberVars
  <1>0. /\ login' \in [Login -> LoginState] /\ login'[l].at = "idle"
        /\ \A k \in Login : k # l => login'[k] = login[k]
    BY LoginEnds DEF TypeOK, LoginState
  <1>a. login[l].phone \in Phone
    BY DEF InHandInv
  <1>b. Creates(l, login[l].phone)
    BY DEF Creates
  <1>1. TypeOK'  BY <1>0, <1>a, <1>b DEF TypeOK, LoginState, Tokens, CreatorInv
  <1>2. InHandInv'  BY <1>0 DEF InHandInv
  <1>3. CreatorInv'  BY <1>0, <1>a, <1>b DEF CreatorInv, Creates, TypeOK
  <1>4. OwnerInv'
    <2>1. \A k \in Login, p \in Phone : p # login[l].phone /\ Creates(k, p) => Creates(k, p)'
      BY <1>0 DEF Creates
    <2> QED  BY <1>a, <1>b, <2>1 DEF OwnerInv, CreatorInv, TypeOK
  <1>5. ErasingInv'  BY DEF ErasingInv
  <1>6. PhaseInv'
    <2>1. login[l].phone \notin closed /\ writing[login[l].phone] = "idle"
      BY <1>a, <1>b DEF PhaseInv, CreatorInv, TypeOK
    <2>2. /\ phase'[login[l].phone] = "SIGNED_UP"
          /\ \A q \in Phone : q # login[l].phone => phase'[q] = phase[q]
      BY <1>a DEF TypeOK
    <2> QED  BY <2>1, <2>2 DEF PhaseInv, TypeOK
  <1> QED  BY <1>1, <1>2, <1>3, <1>4, <1>5, <1>6

LEMMA LoginFailsAccounts ==
  ASSUME AccountsInv, NEW l \in Login, LoginFails(l)
  PROVE  AccountsInv'
  <1> USE AccountsAssumption
      DEF LoginFails, AccountsInv, codeVars, userVars, phaseVars, staffVars, tokenVars,
          numberVars
  <1>0. /\ login' \in [Login -> LoginState] /\ login'[l].at = "idle"
        /\ \A k \in Login : k # l => login'[k] = login[k]
    <2>1. login \in [Login -> LoginState]
      BY DEF TypeOK, LoginState
    <2> QED  BY <2>1, LoginEnds
  <1>1. TypeOK'  BY <1>0 DEF TypeOK, LoginState, InHandInv
  <1>2. InHandInv'  BY <1>0 DEF InHandInv
  <1>3. CreatorInv'  BY <1>0 DEF CreatorInv, Creates
  <1>4. OwnerInv'
    <2>1. \A k \in Login, p \in Phone : p \notin halfDone' /\ Creates(k, p) => Creates(k, p)'
      BY <1>0 DEF Creates
    <2> QED  BY <2>1 DEF OwnerInv
  <1>5. ErasingInv'  BY DEF ErasingInv
  <1>6. PhaseInv'  BY DEF PhaseInv, TypeOK
  <1> QED  BY <1>1, <1>2, <1>3, <1>4, <1>5, <1>6

LEMMA EraseUserAccounts ==
  ASSUME AccountsInv, NEW p \in Phone, EraseUser(p)
  PROVE  AccountsInv'
  <1> USE AccountsAssumption
      DEF EraseUser, AccountsInv, codeVars, userVars, phaseVars, staffVars, tokenVars,
          numberVars, Principal
  <1>1. TypeOK'  BY DEF TypeOK, InHandInv
  <1>2. InHandInv'  BY DEF InHandInv, TypeOK
  <1>3. CreatorInv'  BY DEF CreatorInv, Creates, InHandInv, TypeOK
  <1>4. OwnerInv'
    <2>1. \A k \in Login, q \in Phone : Creates(k, q) => Creates(k, q)'
      BY DEF Creates
    <2>2. role[p] = "OWNER" => p \in erasing'
      BY DEF Scope
    <2>3. /\ user'[p] = "deleted" /\ erasing \subseteq erasing'
          /\ \A q \in Phone : q # p => user'[q] = user[q]
      BY DEF TypeOK
    <2> QED  BY <2>1, <2>2, <2>3 DEF OwnerInv
  <1>5. ErasingInv'  BY DEF ErasingInv, TypeOK
  <1>6. PhaseInv'  BY DEF PhaseInv, TypeOK
  <1> QED  BY <1>1, <1>2, <1>3, <1>4, <1>5, <1>6

LEMMA EraseAccountAccounts ==
  ASSUME AccountsInv, NEW p \in Phone, EraseAccount(p)
  PROVE  AccountsInv'
  <1> USE AccountsAssumption
      DEF EraseAccount, AccountsInv, codeVars, userVars, phaseVars, staffVars, tokenVars,
          numberVars
  <1>1. TypeOK'  BY DEF TypeOK
  <1>2. InHandInv'  BY DEF InHandInv
  <1>3. CreatorInv'  BY DEF CreatorInv, Creates, TypeOK
  <1>4. OwnerInv'
    <2>1. \A k \in Login, q \in Phone : Creates(k, q) => Creates(k, q)'
      BY DEF Creates
    <2>2. CASE phase[p] = "NONE"  BY <2>1, <2>2 DEF OwnerInv
    <2>3. CASE phase[p] # "NONE"  BY <2>1, <2>3 DEF OwnerInv, ErasingInv, TypeOK
    <2> QED  BY <2>2, <2>3
  <1>5. ErasingInv'  BY DEF ErasingInv
  <1>6. PhaseInv'
    <2>1. CASE phase[p] = "NONE"  BY <2>1 DEF PhaseInv
    <2>2. CASE phase[p] # "NONE"
      <3>1. /\ phase'[p] = "CHURNED" /\ closed' = closed \cup {p}
            /\ \A q \in Phone : q # p => phase'[q] = phase[q]
        BY <2>2 DEF TypeOK
      <3> QED  BY <2>2, <3>1 DEF PhaseInv, ErasingInv, TypeOK
    <2> QED  BY <2>1, <2>2
  <1> QED  BY <1>1, <1>2, <1>3, <1>4, <1>5, <1>6

LEMMA EraseFailsAccounts ==
  ASSUME AccountsInv, NEW p \in Phone, EraseFails(p)
  PROVE  AccountsInv'
  <1> USE AccountsAssumption
      DEF EraseFails, AccountsInv, codeVars, userVars, phaseVars, staffVars, tokenVars,
          numberVars
  <1>1. TypeOK'  BY DEF TypeOK, InHandInv
  <1>2. InHandInv'  BY DEF InHandInv, TypeOK
  <1>3. CreatorInv'  BY DEF CreatorInv, Creates, InHandInv, TypeOK
  <1>4. OwnerInv'  BY DEF OwnerInv, CreatorInv, Creates, InHandInv, TypeOK
  <1>5. ErasingInv'  BY DEF ErasingInv, TypeOK
  <1>6. PhaseInv'  BY DEF PhaseInv, TypeOK
  <1> QED  BY <1>1, <1>2, <1>3, <1>4, <1>5, <1>6

LEMMA AskBusinessAccounts ==
  ASSUME AccountsInv, NEW p \in Phone, AskBusiness(p)
  PROVE  AccountsInv'
  <1> USE AccountsAssumption
      DEF AskBusiness, AccountsInv, codeVars, userVars, phaseVars, staffVars, tokenVars,
          numberVars
  <1>1. TypeOK'  BY DEF TypeOK
  <1>2. InHandInv'  BY DEF InHandInv
  <1>3. CreatorInv'  BY DEF CreatorInv, Creates, PhaseInv, TypeOK
  <1>4. OwnerInv'
    <2>1. \A k \in Login, q \in Phone : Creates(k, q) => Creates(k, q)'
      BY DEF Creates
    <2> QED  BY <2>1 DEF OwnerInv, PhaseInv, TypeOK
  <1>5. ErasingInv'  BY DEF ErasingInv
  <1>6. PhaseInv'  BY DEF PhaseInv, TypeOK
  <1> QED  BY <1>1, <1>2, <1>3, <1>4, <1>5, <1>6

LEMMA ReadBusinessAccounts ==
  ASSUME AccountsInv, NEW p \in Phone, ReadBusiness(p)
  PROVE  AccountsInv'
  <1> USE AccountsAssumption
      DEF ReadBusiness, AccountsInv, codeVars, userVars, phaseVars, staffVars, tokenVars,
          numberVars
  <1>1. TypeOK'  BY DEF TypeOK
  <1>2. InHandInv'  BY DEF InHandInv
  <1>3. CreatorInv'  BY DEF CreatorInv, Creates, PhaseInv, TypeOK
  <1>4. OwnerInv'
    <2>1. \A k \in Login, q \in Phone : Creates(k, q) => Creates(k, q)'
      BY DEF Creates
    <2> QED  BY <2>1 DEF OwnerInv, PhaseInv, TypeOK
  <1>5. ErasingInv'  BY DEF ErasingInv
  <1>6. PhaseInv'  BY DEF PhaseInv, TypeOK
  <1> QED  BY <1>1, <1>2, <1>3, <1>4, <1>5, <1>6

LEMMA StartWorkAccounts ==
  ASSUME AccountsInv, NEW p \in Phone, StartWork(p)
  PROVE  AccountsInv'
  <1> USE AccountsAssumption
      DEF StartWork, AccountsInv, codeVars, userVars, phaseVars, staffVars, tokenVars,
          numberVars
  <1>1. TypeOK'  BY DEF TypeOK
  <1>2. InHandInv'  BY DEF InHandInv
  <1>3. CreatorInv'  BY DEF CreatorInv, Creates, PhaseInv, TypeOK
  <1>4. OwnerInv'
    <2>1. \A k \in Login, q \in Phone : Creates(k, q) => Creates(k, q)'
      BY DEF Creates
    <2> QED  BY <2>1 DEF OwnerInv, PhaseInv, TypeOK
  <1>5. ErasingInv'  BY DEF ErasingInv
  <1>6. PhaseInv'  BY DEF PhaseInv, TypeOK
  <1> QED  BY <1>1, <1>2, <1>3, <1>4, <1>5, <1>6

LEMMA CommitPhaseAccounts ==
  ASSUME AccountsInv, NEW p \in Phone, CommitPhase(p)
  PROVE  AccountsInv'
  <1> USE AccountsAssumption
      DEF CommitPhase, AccountsInv, codeVars, userVars, phaseVars, staffVars, tokenVars,
          numberVars, WritePhase
  <1>a. /\ phase[p] # "NONE" /\ phase'[p] = "ONBOARDING"
        /\ \A q \in Phone : q # p => phase'[q] = phase[q]
    BY DEF PhaseInv, TypeOK
  <1>1. TypeOK'  BY <1>a DEF TypeOK
  <1>2. InHandInv'  BY DEF InHandInv
  <1>3. CreatorInv'  BY DEF CreatorInv, Creates, PhaseInv, TypeOK
  <1>4. OwnerInv'
    <2>1. \A k \in Login, q \in Phone : Creates(k, q) => Creates(k, q)'
      BY DEF Creates
    <2> QED  BY <2>1 DEF OwnerInv, PhaseInv, TypeOK
  <1>5. ErasingInv'  BY DEF ErasingInv
  <1>6. PhaseInv'  BY DEF PhaseInv, TypeOK
  <1> QED  BY <1>1, <1>2, <1>3, <1>4, <1>5, <1>6

LEMMA PhaseFailsAccounts ==
  ASSUME AccountsInv, NEW p \in Phone, PhaseFails(p)
  PROVE  AccountsInv'
  <1> USE AccountsAssumption
      DEF PhaseFails, AccountsInv, codeVars, userVars, phaseVars, staffVars, tokenVars,
          numberVars
  <1>1. TypeOK'  BY DEF TypeOK
  <1>2. InHandInv'  BY DEF InHandInv
  <1>3. CreatorInv'  BY DEF CreatorInv, Creates, PhaseInv, TypeOK
  <1>4. OwnerInv'
    <2>1. \A k \in Login, q \in Phone : Creates(k, q) => Creates(k, q)'
      BY DEF Creates
    <2> QED  BY <2>1 DEF OwnerInv, PhaseInv, TypeOK
  <1>5. ErasingInv'  BY DEF ErasingInv
  <1>6. PhaseInv'  BY DEF PhaseInv, TypeOK
  <1> QED  BY <1>1, <1>2, <1>3, <1>4, <1>5, <1>6

LEMMA PauseAnyAccounts ==
  ASSUME AccountsInv, NEW p \in Phone, PauseAny(p)
  PROVE  AccountsInv'
  <1> USE AccountsAssumption
      DEF PauseAny, AccountsInv, codeVars, userVars, phaseVars, staffVars, tokenVars,
          numberVars, WritePhase
  <1>1. TypeOK'  BY DEF TypeOK
  <1>2. InHandInv'  BY DEF InHandInv
  <1>3. CreatorInv'  BY DEF CreatorInv, Creates, PhaseInv, TypeOK
  <1>4. OwnerInv'
    <2>1. \A k \in Login, q \in Phone : Creates(k, q) => Creates(k, q)'
      BY DEF Creates
    <2> QED  BY <2>1 DEF OwnerInv, PhaseInv, TypeOK
  <1>5. ErasingInv'  BY DEF ErasingInv
  <1>6. PhaseInv'  BY DEF PhaseInv, TypeOK
  <1> QED  BY <1>1, <1>2, <1>3, <1>4, <1>5, <1>6

LEMMA CreateClientAccounts ==
  ASSUME AccountsInv, NEW p \in Phone, NEW c \in Client, CreateClient(p, c)
  PROVE  AccountsInv'
  <1> USE AccountsAssumption
      DEF CreateClient, AccountsInv, codeVars, userVars, phaseVars, staffVars, tokenVars,
          numberVars
  <1>1. TypeOK'  BY DEF TypeOK
  <1>2. InHandInv'  BY DEF InHandInv
  <1>3. CreatorInv'  BY DEF CreatorInv, Creates
  <1>4. OwnerInv'
    <2>1. \A k \in Login, q \in Phone : Creates(k, q) => Creates(k, q)'
      BY DEF Creates
    <2> QED  BY <2>1 DEF OwnerInv
  <1>5. ErasingInv'  BY DEF ErasingInv
  <1>6. PhaseInv'  BY DEF PhaseInv
  <1> QED  BY <1>1, <1>2, <1>3, <1>4, <1>5, <1>6

LEMMA ProvisionUserAccounts ==
  ASSUME AccountsInv, NEW p \in Phone, NEW n \in Number \cup {None}, ProvisionUser(p, n)
  PROVE  AccountsInv'
  <1> USE AccountsAssumption
      DEF ProvisionUser, AccountsInv, codeVars, userVars, phaseVars, staffVars, tokenVars,
          numberVars
  <1>1. TypeOK'  BY DEF TypeOK, InHandInv, Account, AccountOf
  <1>2. InHandInv'  BY DEF InHandInv, TypeOK
  <1>3. CreatorInv'  BY DEF CreatorInv, Creates, InHandInv, TypeOK
  <1>4. OwnerInv'
    <2>1. \A k \in Login, q \in Phone : Creates(k, q) => Creates(k, q)'
      BY DEF Creates
    <2>2. \A q \in Phone : provisioning # q
      OBVIOUS
    <2>3. /\ user'[p] = "live" /\ provisioning' = p
          /\ \A q \in Phone : q # p => user'[q] = user[q]
      BY DEF TypeOK
    <2> QED  BY <2>1, <2>2, <2>3 DEF OwnerInv
  <1>5. ErasingInv'  BY DEF ErasingInv, TypeOK
  <1>6. PhaseInv'  BY DEF PhaseInv, TypeOK
  <1> QED  BY <1>1, <1>2, <1>3, <1>4, <1>5, <1>6

LEMMA ProvisionAccountAccounts ==
  ASSUME AccountsInv, ProvisionAccount
  PROVE  AccountsInv'
  <1> USE AccountsAssumption
      DEF ProvisionAccount, AccountsInv, codeVars, userVars, phaseVars, staffVars, tokenVars,
          numberVars
  <1>0. provisioning \in Phone
    BY DEF TypeOK
  <1>1. TypeOK'  BY <1>0 DEF TypeOK, CreatorInv
  <1>2. InHandInv'  BY DEF InHandInv
  <1>3. CreatorInv'  BY <1>0 DEF CreatorInv, Creates, TypeOK
  <1>4. OwnerInv'
    <2>1. \A k \in Login, p \in Phone : Creates(k, p) => Creates(k, p)'
      BY DEF Creates
    <2> QED  BY <1>0, <2>1 DEF OwnerInv, CreatorInv, TypeOK
  <1>5. ErasingInv'  BY DEF ErasingInv
  <1>6. PhaseInv'
    <2>1. provisioning \notin closed /\ writing[provisioning] = "idle"
      BY <1>0 DEF PhaseInv, CreatorInv, TypeOK
    <2>2. /\ phase'[provisioning] = "SIGNED_UP"
          /\ \A q \in Phone : q # provisioning => phase'[q] = phase[q]
      BY <1>0 DEF TypeOK
    <2> QED  BY <2>1, <2>2 DEF PhaseInv, TypeOK
  <1> QED  BY <1>1, <1>2, <1>3, <1>4, <1>5, <1>6

LEMMA ProvisionFailsAccounts ==
  ASSUME AccountsInv, ProvisionFails
  PROVE  AccountsInv'
  <1> USE AccountsAssumption
      DEF ProvisionFails, AccountsInv, codeVars, userVars, phaseVars, staffVars, tokenVars,
          numberVars
  <1>1. TypeOK'  BY DEF TypeOK, InHandInv
  <1>2. InHandInv'  BY DEF InHandInv, TypeOK
  <1>3. CreatorInv'  BY DEF CreatorInv, Creates, InHandInv, TypeOK
  <1>4. OwnerInv'  BY DEF OwnerInv, CreatorInv, Creates, InHandInv, TypeOK
  <1>5. ErasingInv'  BY DEF ErasingInv, TypeOK
  <1>6. PhaseInv'  BY DEF PhaseInv, TypeOK
  <1> QED  BY <1>1, <1>2, <1>3, <1>4, <1>5, <1>6

LEMMA CreateAdminAccounts ==
  ASSUME AccountsInv, NEW p \in Phone, CreateAdmin(p)
  PROVE  AccountsInv'
  <1> USE AccountsAssumption
      DEF CreateAdmin, AccountsInv, codeVars, userVars, phaseVars, staffVars, tokenVars,
          numberVars
  <1>1. TypeOK'  BY DEF TypeOK, InHandInv
  <1>2. InHandInv'  BY DEF InHandInv, TypeOK
  <1>3. CreatorInv'  BY DEF CreatorInv, Creates, InHandInv, TypeOK
  <1>4. OwnerInv'  BY DEF OwnerInv, CreatorInv, Creates, InHandInv, TypeOK
  <1>5. ErasingInv'  BY DEF ErasingInv, TypeOK
  <1>6. PhaseInv'  BY DEF PhaseInv, TypeOK
  <1> QED  BY <1>1, <1>2, <1>3, <1>4, <1>5, <1>6

(* So does every step of the system.                                       *)
LEMMA NextAccounts == AccountsInv /\ [Next]_vars => AccountsInv'
  <1> SUFFICES ASSUME AccountsInv, [Next]_vars  PROVE AccountsInv'
    OBVIOUS
  <1>1. CASE UNCHANGED vars
    BY <1>1 DEF vars, AccountsInv, TypeOK, InHandInv, CreatorInv, OwnerInv, ErasingInv,
       PhaseInv, Creates
  <1>2. CASE Next
    BY <1>2, SendCodeAccounts, ExpireAccounts, LogoutAccounts, RefreshAccounts,
       ImpersonateAccounts, ConnectAccounts, LookUpRouteAccounts, InsertRouteAccounts,
       ConnectFailsAccounts, ReadCodeAccounts, ConsumeCodeAccounts, LookUpUserAccounts,
       SignUpUserAccounts, SignUpAccountAccounts, LoginFailsAccounts,
       EraseUserAccounts, EraseAccountAccounts, EraseFailsAccounts,
       AskBusinessAccounts, ReadBusinessAccounts, StartWorkAccounts, CommitPhaseAccounts,
       PhaseFailsAccounts, PauseAnyAccounts, CreateClientAccounts, ProvisionUserAccounts,
       ProvisionAccountAccounts, ProvisionFailsAccounts, CreateAdminAccounts
    DEF Next, Verify, MintLogin
  <1> QED  BY <1>1, <1>2

(* Every phone, user, account, code, session and route is of its kind, and *)
(* an account has a user.                                                  *)
THEOREM AccountsTypeCorrect == Spec => []TypeOK
  BY InitAccounts, NextAccounts, PTL DEF Spec, AccountsInv

(* A user has an account and an erased one's is closed, whatever logins,   *)
(* provisioning and erasure race for the phone (auth.py:82, auth.py:203),  *)
(* unless a process died between two transactions; and its phase is        *)
(* CHURNED, unless another session has written it since.                   *)
THEOREM AccountAlwaysMatchesUser == Spec => []AccountMatchesUser
  <1>1. AccountsInv => AccountMatchesUser
    <2> SUFFICES ASSUME AccountsInv, NEW p \in Phone, Settled(p), role[p] = "OWNER"
                 PROVE  CASE user[p] = "none"    -> phase[p] = "NONE"
                          [] user[p] = "live"    -> /\ phase[p] \in {"SIGNED_UP", "ONBOARDING"}
                                                    /\ p \notin closed
                          [] user[p] = "deleted" -> /\ p \in closed
                                                    /\ phase[p] = "CHURNED" \/ p \in overtaken
      BY DEF AccountMatchesUser
    <2> USE DEF AccountsInv, TypeOK
    <2>1. CASE user[p] = "none"
      BY <2>1
    <2>2. CASE user[p] = "live"
      BY <2>2 DEF OwnerInv, PhaseInv, Creates, Settled
    <2>3. CASE user[p] = "deleted"
      BY <2>3 DEF OwnerInv, PhaseInv, Settled
    <2>4. user[p] \in {"none", "live", "deleted"}
      OBVIOUS
    <2> QED  BY <2>1, <2>2, <2>3, <2>4
  <1> QED  BY <1>1, InitAccounts, NextAccounts, PTL DEF Spec

(* The route of a number always leads to an account of the tenant that had *)
(* it first: a connection that looked it up before another inserted it     *)
(* (onboarding.py:164), one that leads it to another account of the same   *)
(* tenant (onboarding.py:162), and provisioning all leave it there.        *)
THEOREM NumbersNeverMove == Spec => NumbersStay
  <1> DEFINE Stays(n) == route[n] # None => route'[n] # None /\ route'[n].tenant = route[n].tenant
  <1>1. AccountsInv /\ [Next]_vars => [\A n \in Number : Stays(n)]_vars
    <2> SUFFICES ASSUME AccountsInv, Next
                 PROVE  \A n \in Number : Stays(n)
      BY DEF vars
    <2> USE DEF AccountsInv, TypeOK, numberVars
    <2>1. ASSUME NEW p \in Phone, InsertRoute(p)
          PROVE  \A n \in Number : Stays(n)
      BY <2>1 DEF InsertRoute
    <2>2. ASSUME NEW p \in Phone, NEW n \in Number \cup {None}, ProvisionUser(p, n)
          PROVE  \A m \in Number : Stays(m)
      BY <2>2 DEF ProvisionUser
    <2>3. ASSUME UNCHANGED route
          PROVE  \A n \in Number : Stays(n)
      BY <2>3
    <2>4. ASSUME NEW p \in Phone, LookUpRoute(p)
          PROVE  \A n \in Number : Stays(n)
      <3>1. AccountOf(p, registering[p].client) # None
        BY AccountsAssumption DEF Account, AccountOf
      <3> QED  BY <2>4, <3>1, <2>3 DEF LookUpRoute, AccountOf
    <2> QED
      BY <2>1, <2>2, <2>3, <2>4
      DEF Next, Verify, MintLogin, SendCode, Expire, ReadCode, ConsumeCode, LookUpUser,
          SignUpUser, SignUpAccount, LoginFails, EraseUser, EraseAccount, EraseFails,
          AskBusiness, ReadBusiness, StartWork, CommitPhase, PhaseFails, PauseAny, Connect,
          CreateClient, ConnectFails, Logout, Refresh, CreateAdmin, Impersonate,
          ProvisionAccount, ProvisionFails
  <1> QED  BY <1>1, InitAccounts, NextAccounts, PTL DEF Spec, NumbersStay
=============================================================================
