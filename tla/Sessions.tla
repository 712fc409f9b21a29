------------------------------- MODULE Sessions -------------------------------
(***************************************************************************)
(* Accounts and sessions of AUTH_MODE=native (routers/auth.py) over the    *)
(* account store (infrastructure/auth_store.py).  Every method of the      *)
(* store is a transaction of its own, so a handler is a sequence of them,  *)
(* and the calls of one account interleave: two tabs refresh the same      *)
(* session, a password changes while somebody signs in.                    *)
(*                                                                         *)
(* A row of auth.users is identified with its lower-cased address, which   *)
(* is unique.  Hashing and signing are the identity on abstract passwords  *)
(* and tokens; roles, metadata, mails and last_sign_in_at are left out.    *)
(* Databases without the trigger handle_new_user are modelled, for which   *)
(* ensure_provisioned exists.                                              *)
(***************************************************************************)
CONSTANTS Accounts,   \* addresses
          Passwords,
          Tokens,     \* ids of refresh tokens
          Calls,      \* requests the server can have in hand at once
          None        \* NULL

ASSUME SessionsAssumption == None \notin Passwords \cup Tokens \cup Accounts

VARIABLES users,        \* rows of auth.users
          provisioned,  \* those that ensure_provisioned has completed
          password,     \* encrypted_password
          owner,        \* user_id of a stored token, None when there is no row
          revoked,      \* tokens with revoked_at
          expired,      \* tokens past expires_at
          root,         \* the first token of the session a token continues
          basis,        \* the password that session was opened with, None for Google
          late,         \* tokens of calls that were overtaken, see Overtake
          calls,        \* the request each call serves and how far it is
          cut,          \* accounts whose last password change revoked nothing
          disturbed     \* a call stopped halfway, or tokens were revoked or expired

store == <<users, provisioned, password>>
rows == <<owner, revoked, expired, root, basis, late>>
vars == <<users, provisioned, password, owner, revoked, expired, root, basis,
          late, calls, cut, disturbed>>

(* What a call does next: create an account that Google vouches for,       *)
(* provision it, revoke the token it refreshes, store the new token, or    *)
(* revoke what the old password opened.                                    *)
Phases == {"idle", "create", "provision", "rotate", "store", "revoke"}

Call == [phase : Phases, user : Accounts \cup {None}, old : Tokens \cup {None},
         new : Tokens \cup {None}, root : Tokens \cup {None},
         basis : Passwords \cup {None}, late : BOOLEAN]

Idle == [phase |-> "idle", user |-> None, old |-> None, new |-> None,
         root |-> None, basis |-> None, late |-> FALSE]

(* A call that opens a session: its token is the first one.                *)
Opening(phase, u, p, t) ==
  [Idle EXCEPT !.phase = phase, !.user = u, !.new = t, !.root = t, !.basis = p]

(* The ids that uuid4 cannot return, since it returned them already.       *)
Stored(t) == owner[t] # None
Fresh(t) == ~Stored(t) /\ \A c \in Calls : calls[c].new # t

(* is_refresh_token_active, and what a client may still refresh.           *)
Active(t) == Stored(t) /\ t \notin revoked \cup expired

TypeOK ==
  /\ users \in SUBSET Accounts
  /\ provisioned \in SUBSET users
  /\ password \in [Accounts -> Passwords \cup {None}]
  /\ owner \in [Tokens -> users \cup {None}]
  /\ revoked \in SUBSET Tokens
  /\ expired \in SUBSET Tokens
  /\ root \in [Tokens -> Tokens]
  /\ basis \in [Tokens -> Passwords \cup {None}]
  /\ late \in SUBSET Tokens
  /\ calls \in [Calls -> Call]
  /\ cut \in SUBSET users
  /\ disturbed \in BOOLEAN

Init ==
  /\ users = {} /\ provisioned = {} /\ cut = {} /\ disturbed = FALSE
  /\ password = [u \in Accounts |-> None]
  /\ owner = [t \in Tokens |-> None]
  /\ root = [t \in Tokens |-> t]
  /\ basis = [t \in Tokens |-> None]
  /\ revoked = {} /\ expired = {} /\ late = {}
  /\ calls = [c \in Calls |-> Idle]

(***************************************************************************)
(* Opening a session.                                                      *)
(***************************************************************************)

(* create_user: the second of two sign-ups finds the address taken.        *)
Create(u, p) == /\ u \notin users
                /\ users' = users \cup {u}
                /\ password' = [password EXCEPT ![u] = p]
                /\ UNCHANGED provisioned

(* A sign-up reads nothing before its account is created.                  *)
SignUp(c, u, p, t) ==
  /\ calls[c] = Idle
  /\ Fresh(t)
  /\ Create(u, p)
  /\ calls' = [calls EXCEPT ![c] = Opening("provision", u, p, t)]
  /\ UNCHANGED <<rows, cut, disturbed>>

Provision(c) ==
  /\ calls[c].phase = "provision"
  /\ provisioned' = provisioned \cup {calls[c].user}
  /\ calls' = [calls EXCEPT ![c].phase = "store"]
  /\ UNCHANGED <<users, password, rows, cut, disturbed>>

(* The password is compared with the hash that was read.                   *)
LogIn(c, u, p, t) ==
  /\ calls[c] = Idle
  /\ Fresh(t)
  /\ u \in users
  /\ password[u] = p
  /\ calls' = [calls EXCEPT ![c] = Opening("store", u, p, t)]
  /\ UNCHANGED <<store, rows, cut, disturbed>>

(* Google vouches for the address; the account is looked up ...  The       *)
(* faulty variant goes on with an account nobody created.                  *)
FaultyGoogle(c, u, t) ==
  /\ calls[c] = Idle
  /\ Fresh(t)
  /\ calls' = [calls EXCEPT ![c] = Opening("store", u, None, t)]
  /\ UNCHANGED <<store, rows, cut, disturbed>>

Google(c, u, t) ==
  /\ calls[c] = Idle
  /\ Fresh(t)
  /\ calls' = [calls EXCEPT
                 ![c] = Opening(IF u \in users THEN "store" ELSE "create", u, None, t)]
  /\ UNCHANGED <<store, rows, cut, disturbed>>

(* ... and created when there was none, unless there is one by now.        *)
CreateGoogle(c) ==
  /\ calls[c].phase = "create"
  /\ Create(calls[c].user, None)
  /\ calls' = [calls EXCEPT ![c].phase = "provision"]
  /\ UNCHANGED <<rows, cut, disturbed>>

AddressTaken(c) ==
  /\ calls[c].phase = "create"
  /\ calls[c].user \in users
  /\ calls' = [calls EXCEPT ![c] = Idle]
  /\ UNCHANGED <<store, rows, cut, disturbed>>

(* store_refresh_token, the last step of every session: _native_session.   *)
Store(c) ==
  LET call == calls[c] IN
  /\ call.phase = "store"
  /\ owner' = [owner EXCEPT ![call.new] = call.user]
  /\ root' = [root EXCEPT ![call.new] = call.root]
  /\ basis' = [basis EXCEPT ![call.new] = call.basis]
  /\ late' = IF call.late THEN late \cup {call.new} ELSE late
  /\ calls' = [calls EXCEPT ![c] = Idle]
  /\ UNCHANGED <<store, revoked, expired, cut, disturbed>>

(***************************************************************************)
(* Refreshing one: the old token is looked at and revoked in two           *)
(* transactions, and the number of rows the second one changed is not.     *)
(***************************************************************************)
BeginRefresh(c, t, n) ==
  /\ calls[c] = Idle
  /\ Active(t)
  /\ Fresh(n)
  /\ calls' = [calls EXCEPT
                 ![c] = [phase |-> "rotate", user |-> owner[t], old |-> t, new |-> n,
                         root |-> root[t], basis |-> basis[t], late |-> t \in late]]
  /\ UNCHANGED <<store, rows, cut, disturbed>>

(* A refresh is overtaken when its token was revoked since it looked.  The *)
(* faulty variants leave the old token as it is, and revoke every token of *)
(* the account.                                                            *)
FaultyRotate(c) ==
  /\ calls[c].phase = "rotate"
  /\ calls' = [calls EXCEPT ![c].phase = "store"]
  /\ UNCHANGED <<store, rows, cut, disturbed>>

FaultyRotateAll(c) ==
  /\ calls[c].phase = "rotate"
  /\ revoked' = revoked \cup {t \in Tokens : owner[t] = calls[c].user}
  /\ calls' = [calls EXCEPT ![c].phase = "store"]
  /\ UNCHANGED <<store, owner, expired, root, basis, late, cut, disturbed>>

Rotate(c) ==
  LET call == calls[c] IN
  /\ call.phase = "rotate"
  /\ revoked' = revoked \cup {call.old}
  /\ calls' = [calls EXCEPT ![c].phase = "store",
                            ![c].late = call.late \/ call.old \in revoked]
  /\ UNCHANGED <<store, owner, expired, root, basis, late, cut, disturbed>>

(***************************************************************************)
(* Ending sessions.                                                        *)
(***************************************************************************)

OwnedBy(u) == {t \in Tokens : owner[t] = u}

(* What was in hand when the account's tokens were revoked may still store *)
(* one: those calls are overtaken.                                         *)
Overtake(u) ==
  [c \in Calls |-> IF calls[c].user = u /\ calls[c].phase # "revoke"
                     THEN [calls[c] EXCEPT !.late = TRUE] ELSE calls[c]]

(* revoke_all_refresh_tokens; the faulty variant spares the tokens that    *)
(* refreshes brought.                                                      *)
FaultyRevokeAll(u) == /\ revoked' = revoked \cup {t \in OwnedBy(u) : root[t] = t}
                      /\ cut' = cut \ {u}
                      /\ disturbed' = TRUE
                      /\ UNCHANGED <<store, owner, expired, root, basis, late>>

RevokeAll(u) == /\ revoked' = revoked \cup OwnedBy(u)
                /\ cut' = cut \ {u}
                /\ disturbed' = TRUE
                /\ UNCHANGED <<store, owner, expired, root, basis, late>>

(* Whoever was given a session has an access token to sign out with.       *)
LogOut(u) ==
  /\ OwnedBy(u) # {}
  /\ RevokeAll(u)
  /\ calls' = Overtake(u)

(* With an access token or the link of a reset mail, which any address     *)
(* with an account can ask for.                                            *)
ChangePassword(c, u, p) ==
  /\ calls[c] = Idle
  /\ u \in users
  /\ password' = [password EXCEPT ![u] = p]
  /\ calls' = [calls EXCEPT ![c] = [Idle EXCEPT !.phase = "revoke", !.user = u]]
  /\ UNCHANGED <<users, provisioned, rows, cut, disturbed>>

RevokeOld(c) ==
  /\ calls[c].phase = "revoke"
  /\ RevokeAll(calls[c].user)
  /\ calls' = [Overtake(calls[c].user) EXCEPT ![c] = Idle]

(***************************************************************************)
(* Time, failures and crashes.                                             *)
(***************************************************************************)

Expire(t) ==
  /\ Active(t)
  /\ expired' = expired \cup {t}
  /\ disturbed' = TRUE
  /\ UNCHANGED <<store, owner, revoked, root, basis, late, calls, cut>>

(* A statement fails or the server stops: what was done stays done.        *)
Abandon(c) ==
  /\ calls[c] # Idle
  /\ cut' = IF calls[c].phase = "revoke" THEN cut \cup {calls[c].user} ELSE cut
  /\ calls' = [calls EXCEPT ![c] = Idle]
  /\ disturbed' = TRUE
  /\ UNCHANGED <<store, rows>>

(***************************************************************************)

(* The next transaction of a call that was begun.                          *)
Continue(c) == \/ Provision(c) \/ CreateGoogle(c) \/ AddressTaken(c)
               \/ Rotate(c) \/ Store(c) \/ RevokeOld(c)

SignIn(c, u, t) == \/ \E p \in Passwords : SignUp(c, u, p, t) \/ LogIn(c, u, p, t)
                   \/ Google(c, u, t)

Refresh(c) == \E t \in Tokens, n \in Tokens : BeginRefresh(c, t, n)

Next == \/ \E c \in Calls : Continue(c) \/ Refresh(c) \/ Abandon(c)
        \/ \E c \in Calls, u \in Accounts, t \in Tokens : SignIn(c, u, t)
        \/ \E c \in Calls, u \in Accounts, p \in Passwords : ChangePassword(c, u, p)
        \/ \E u \in Accounts : LogOut(u)
        \/ \E t \in Tokens : Expire(t)

Spec == Init /\ [][Next]_vars

(* A call that was begun comes to its end or stops halfway: it waits for   *)
(* nothing but its own statements.  Nobody need sign in or refresh.        *)
LiveSpec == Spec /\ \A c \in Calls : WF_vars(Continue(c))

(***************************************************************************)
(* Properties.                                                             *)
(***************************************************************************)

(* A token that can be refreshed and was not stored by an overtaken call.  *)
Regular(t) == Stored(t) /\ t \notin revoked \cup late

(* A password change ends the sessions of the old password: once its       *)
(* tokens are revoked, a session that was opened with a password and that  *)
(* no call in hand carried past the revocation was opened with the present *)
(* one.  Changes overlap each other, sign-ins and refreshes, and a change  *)
(* that stopped halfway (cut) is made good by the next revocation          *)
(* (update_password, _native_login, _native_refresh).                      *)
ChangePending(u) == \/ u \in cut
                    \/ \E c \in Calls : calls[c].phase = "revoke" /\ calls[c].user = u

PresentPassword ==
  \A t \in Tokens :
    Regular(t) => \/ basis[t] \in {None, password[owner[t]]}
                  \/ ChangePending(owner[t])

(* Rotation keeps one token per session: but for refreshes that found      *)
(* their token revoked under them, a session has at most one token that    *)
(* can be refreshed, however many tabs refresh it and wherever they stop   *)
(* (_native_refresh).                                                      *)
OneTokenPerSession ==
  \A s, t \in Tokens : Regular(s) /\ Regular(t) /\ root[s] = root[t] => s = t

(* As long as no call stops halfway and nothing is revoked but by refreshes*)
(* or expires, a session that was opened can be refreshed again in the     *)
(* end, however its tabs overlap: it never stays without a token           *)
(* (_native_refresh, _native_session).                                     *)
StaysSignedIn ==
  \A r \in Tokens :
    Stored(r) ~> disturbed \/ \E t \in Tokens : Active(t) /\ root[t] = root[r]
=============================================================================
