------------------------------ MODULE Accounts ------------------------------
(***************************************************************************)
(* Registration and login (pkg/auth/service.go, handler.go) over the users *)
(* table (user_repository.go): requests beside those of ObjectAPI.  The    *)
(* password is hashed between the look at the address and the insertion,   *)
(* which leaves another registration of the address time to get in.        *)
(***************************************************************************)
EXTENDS ObjectAPI

CONSTANTS
    Email,         \* addresses, trimmed and in lower case
    NoEmail,       \* "no address" in a request's local state
    NoUser,        \* no row
    LoggedBefore   \* entries of system_logs at the start

ASSUME AccountsAssumption ==
    NoEmail \notin Email /\ NoUser \notin Request /\ LoggedBefore \in Nat

VARIABLES
    users,   \* users: per address, the registration whose row it has
    acct,    \* per request, where Register or Login is, and the address registered
    logged   \* entries of system_logs, numbered in the order of timestamp

accountVars == <<users, acct, logged>>

AccountPc == {"none", "create", "enterRegister", "registered",
              "enterLogin", "loggedIn", "refused"}

AccountsTypeOK ==
    /\ users \in [Email -> Request \cup {NoUser}]
    /\ acct \in [Request -> [pc: AccountPc, email: Email \cup {NoEmail}]]
    /\ logged \in Nat

AccountsInit ==
    /\ users = [e \in Email |-> NoUser]
    /\ acct = [r \in Request |-> [pc |-> "none", email |-> NoEmail]]
    /\ logged = LoggedBefore

(* The state of the other requests, which these handlers leave alone.      *)
replicaVars == <<factor, replica, nodeStatus, disk, late, listed, issued>>

(* The queries and the insertion of user_repository.go.                    *)
EmailExists(e) == users[e] # NoUser
CreateUser(e, r) == users' = [users EXCEPT ![e] = r]
HasPassword(e, p) == users[e] = p

Under(r, pc) == ReqAt(r, "elsewhere") /\ acct[r].pc = pc
Turns(r, pc, e) == acct' = [acct EXCEPT ![r] = [pc |-> pc, email |-> e]]

Refuse(r) == Turns(r, "refused", NoEmail) /\ Answers(r)

(* InsertSystemLog, its error ignored.                                     *)
EnterInLog ==
    \/ logged' = logged + 1 /\ NoFault
    \/ logged' \in {logged, logged + 1} /\ Inject("db")

(* EmailExists: an address in use, a payload that does not pass the checks *)
(* and an error are all answered 400.                                      *)
RegisterCheck(r) ==
    /\ "register" \in Kinds /\ ReqAt(r, "new")
    /\ \E e \in Email :
        \/ /\ ~EmailExists(e) /\ NoFault
           /\ Turns(r, "create", e) /\ TakenUp(r)
        \/ /\ NoFault \/ Inject("db")
           /\ Refuse(r)
    /\ UNCHANGED <<replicaVars, users, logged>>

(* Mutant of RegisterCreate: the insertion replaces the row of the address. *)
RegisterReplaces(r) ==
    /\ Under(r, "create")
    /\ LET e == acct[r].email
       IN  \E out \in TxOutcome :
             /\ TxCost(out)
             /\ IF out = "rolledBack" THEN UNCHANGED users
                ELSE CreateUser(e, r)
             /\ IF out = "committed"
                THEN Turns(r, "enterRegister", e) /\ UNCHANGED req
                ELSE Refuse(r)
    /\ UNCHANGED <<replicaVars, logged>>

(* CreateUser, after bcrypt: users.email is UNIQUE.                        *)
RegisterCreate(r) ==
    /\ Under(r, "create")
    /\ LET e == acct[r].email
       IN  \/ /\ ~EmailExists(e)
              /\ \E out \in TxOutcome :
                   /\ TxCost(out)
                   /\ IF out = "rolledBack" THEN UNCHANGED users
                      ELSE CreateUser(e, r)
                   /\ IF out = "committed"
                      THEN Turns(r, "enterRegister", e) /\ UNCHANGED req
                      ELSE Refuse(r)
           \/ EmailExists(e) /\ NoFault /\ Refuse(r) /\ UNCHANGED users
    /\ UNCHANGED <<replicaVars, logged>>

(* GetUserByEmail and the comparison with the hash, for the password of    *)
(* some registration: any error reads as "invalid email or password".      *)
LoginCheck(r) ==
    /\ "login" \in Kinds /\ ReqAt(r, "new")
    /\ \E e \in Email, p \in Request :
        \/ /\ HasPassword(e, p) /\ NoFault
           /\ Turns(r, "enterLogin", NoEmail) /\ TakenUp(r)
        \/ /\ \/ ~HasPassword(e, p) /\ NoFault
              \/ Inject("db")
           /\ Refuse(r)
    /\ UNCHANGED <<replicaVars, users, logged>>

(* The entry in the log, then the answer with a token.                     *)
EnterAndAnswer(r, from, to) ==
    /\ Under(r, from)
    /\ EnterInLog
    /\ Turns(r, to, acct[r].email) /\ Answers(r)
    /\ UNCHANGED <<replicaVars, users>>

AccountStep(r) ==
    \/ RegisterCheck(r) \/ RegisterCreate(r)
    \/ EnterAndAnswer(r, "enterRegister", "registered")
    \/ LoginCheck(r)
    \/ EnterAndAnswer(r, "enterLogin", "loggedIn")

-----------------------------------------------------------------------------
(* Properties.                                                             *)

(* Whoever was told that the registration succeeded keeps the account:     *)
(* the row of the address holds that registration's password and no other  *)
(* one's, although several of the same address passed EmailExists together *)
(* and answers of the database were lost.                                  *)
RegistrationsStand ==
    \A r \in Request :
        acct[r].pc \in {"enterRegister", "registered"} =>
            users[acct[r].email] = r
=============================================================================
