---------------------------- MODULE SessionsProofs ----------------------------
(* Proofs about Sessions, for every set of accounts, passwords, tokens and *)
(* calls.                                                                  *)
EXTENDS Sessions, TLAPS

-----------------------------------------------------------------------------
(* The inductive invariant.                                                *)

(* A call that holds the id of a token it has yet to store.                *)
Drawing(c) == calls[c].phase \in {"create", "provision", "rotate", "store"}

(* What a call in each phase holds.                                        *)
CallFits(c) ==
  /\ calls[c].phase \in {"idle", "revoke"} => calls[c].new = None
  /\ calls[c].phase = "idle" => calls[c].user = None
  /\ calls[c].phase \in {"provision", "rotate", "store", "revoke"}
       => calls[c].user \in users
  /\ calls[c].phase = "create" => calls[c].user \in Accounts /\ calls[c].basis = None
  /\ Drawing(c) => /\ calls[c].new \in Tokens /\ ~Stored(calls[c].new)
                   /\ calls[c].root \in Tokens
                   /\ calls[c].root = calls[c].new \/ Stored(calls[c].root)

(* The token that a refresh is about to revoke is as it was when the       *)
(* refresh looked at it, unless the refresh was overtaken.                 *)
RefreshFits(c) ==
  calls[c].phase = "rotate" =>
    /\ calls[c].old \in Tokens /\ Stored(calls[c].old)
    /\ ~calls[c].late =>
         /\ calls[c].old \notin late
         /\ owner[calls[c].old] = calls[c].user
         /\ root[calls[c].old] = calls[c].root
         /\ basis[calls[c].old] = calls[c].basis

(* No two calls hold the same id, and a session is named by a stored token.*)
Distinct ==
  /\ \A c, d \in Calls :
       calls[c].new # None /\ calls[c].new = calls[d].new => c = d
  /\ \A t \in Tokens : Stored(t) => Stored(root[t])

Shape == (\A c \in Calls : CallFits(c) /\ RefreshFits(c)) /\ Distinct

(* A call on time that will store the next token of its session, and has   *)
(* revoked the one before.                                                 *)
Carries(c) == calls[c].phase \in {"create", "provision", "store"} /\ ~calls[c].late

(* A session has one head: a token that can be refreshed, or a call that   *)
(* carries it.                                                             *)
OneHead ==
  /\ OneTokenPerSession
  /\ \A c \in Calls, t \in Tokens :
       Carries(c) /\ Regular(t) => root[t] # calls[c].root
  /\ \A c, d \in Calls :
       Carries(c) /\ Carries(d) /\ calls[c].root = calls[d].root => c = d

(* What a call on time will store was opened with the present password.    *)
OnTime(c) ==
  Drawing(c) /\ ~calls[c].late
    => \/ calls[c].basis \in {None, password[calls[c].user]}
       \/ ChangePending(calls[c].user)

Current == PresentPassword /\ \A c \in Calls : OnTime(c)

IInv == TypeOK /\ Shape /\ OneHead /\ Current

LEMMA LateCall ==
  ASSUME NEW call \in Call
  PROVE  [call EXCEPT !.late = TRUE] \in Call
BY DEF Call

LEMMA InitInvariant == Init => IInv
<1> SUFFICES ASSUME Init PROVE IInv
  OBVIOUS
<1> USE SessionsAssumption DEF Init
<1>1. TypeOK
  BY DEF TypeOK, Call, Phases, Idle
<1>2. Shape /\ OneHead /\ Current
  BY DEF Idle, Shape, CallFits, RefreshFits, Distinct, Drawing, Stored, OneHead,
         OneTokenPerSession, Carries, Regular, Current, OnTime, PresentPassword
<1> QED
  BY <1>1, <1>2 DEF IInv

LEMMA SignUpStep ==
  ASSUME IInv, NEW c \in Calls, NEW u \in Accounts, NEW p \in Passwords, NEW t \in Tokens, SignUp(c, u, p, t)
  PROVE  IInv'
<1> USE SessionsAssumption DEF IInv, TypeOK, Call, Phases, Idle, SignUp, Create, Opening, Fresh, store, rows
<1>1. TypeOK'
  OBVIOUS
<1>2. Shape'
  BY <1>1 DEF Shape, CallFits, RefreshFits, Distinct, Drawing, Stored
<1>3. OneHead'
  BY <1>1, <1>2 DEF Shape, CallFits, RefreshFits, Distinct, Drawing, Stored,
                    OneHead, OneTokenPerSession, Carries, Regular
<1>4. Current'
  BY <1>1, <1>2 DEF Shape, CallFits, RefreshFits, Distinct, Drawing, Stored,
                    Current, OnTime, PresentPassword, Regular, ChangePending
<1> QED
  BY <1>1, <1>2, <1>3, <1>4

LEMMA ProvisionStep ==
  ASSUME IInv, NEW c \in Calls, Provision(c)
  PROVE  IInv'
<1> USE SessionsAssumption DEF IInv, TypeOK, Call, Phases, Idle, Provision, store, rows
<1>1. TypeOK'
  <2>1. calls[c].user \in users
    BY DEF Shape, CallFits
  <2>2. [calls[c] EXCEPT !.phase = "store"] \in Call
    OBVIOUS
  <2> QED
    BY <2>1, <2>2
<1>2. Shape'
  BY <1>1 DEF Shape, CallFits, RefreshFits, Distinct, Drawing, Stored
<1>3. OneHead'
  BY <1>1, <1>2 DEF Shape, CallFits, RefreshFits, Distinct, Drawing, Stored,
                    OneHead, OneTokenPerSession, Carries, Regular
<1>4. Current'
  BY <1>1, <1>2 DEF Shape, CallFits, RefreshFits, Distinct, Drawing, Stored,
                    Current, OnTime, PresentPassword, Regular, ChangePending
<1> QED
  BY <1>1, <1>2, <1>3, <1>4

LEMMA LogInStep ==
  ASSUME IInv, NEW c \in Calls, NEW u \in Accounts, NEW p \in Passwords, NEW t \in Tokens, LogIn(c, u, p, t)
  PROVE  IInv'
<1> USE SessionsAssumption DEF IInv, TypeOK, Call, Phases, Idle, LogIn, Opening, Fresh, store, rows
<1>1. TypeOK'
  OBVIOUS
<1>2. Shape'
  BY <1>1 DEF Shape, CallFits, RefreshFits, Distinct, Drawing, Stored
<1>3. OneHead'
  BY <1>1, <1>2 DEF Shape, CallFits, RefreshFits, Distinct, Drawing, Stored,
                    OneHead, OneTokenPerSession, Carries, Regular
<1>4. Current'
  BY <1>1, <1>2 DEF Shape, CallFits, RefreshFits, Distinct, Drawing, Stored,
                    Current, OnTime, PresentPassword, Regular, ChangePending
<1> QED
  BY <1>1, <1>2, <1>3, <1>4

LEMMA GoogleStep ==
  ASSUME IInv, NEW c \in Calls, NEW u \in Accounts, NEW t \in Tokens, Google(c, u, t)
  PROVE  IInv'
<1> USE SessionsAssumption DEF IInv, TypeOK, Call, Phases, Idle, Google, Opening, Fresh, store, rows
<1>1. TypeOK'
  OBVIOUS
<1>2. Shape'
  BY <1>1 DEF Shape, CallFits, RefreshFits, Distinct, Drawing, Stored
<1>3. OneHead'
  BY <1>1, <1>2 DEF Shape, CallFits, RefreshFits, Distinct, Drawing, Stored,
                    OneHead, OneTokenPerSession, Carries, Regular
<1>4. Current'
  BY <1>1, <1>2 DEF Shape, CallFits, RefreshFits, Distinct, Drawing, Stored,
                    Current, OnTime, PresentPassword, Regular, ChangePending
<1> QED
  BY <1>1, <1>2, <1>3, <1>4

LEMMA CreateGoogleStep ==
  ASSUME IInv, NEW c \in Calls, CreateGoogle(c)
  PROVE  IInv'
<1> USE SessionsAssumption DEF IInv, TypeOK, Call, Phases, Idle, CreateGoogle, Create, store, rows
<1>1. TypeOK'
  BY DEF Shape, CallFits, Drawing
<1>2. Shape'
  BY <1>1 DEF Shape, CallFits, RefreshFits, Distinct, Drawing, Stored
<1>3. OneHead'
  BY <1>1, <1>2 DEF Shape, CallFits, RefreshFits, Distinct, Drawing, Stored,
                    OneHead, OneTokenPerSession, Carries, Regular
<1>4. Current'
  BY <1>1, <1>2 DEF Shape, CallFits, RefreshFits, Distinct, Drawing, Stored,
                    Current, OnTime, PresentPassword, Regular, ChangePending
<1> QED
  BY <1>1, <1>2, <1>3, <1>4

LEMMA AddressTakenStep ==
  ASSUME IInv, NEW c \in Calls, AddressTaken(c)
  PROVE  IInv'
<1> USE SessionsAssumption DEF IInv, TypeOK, Call, Phases, Idle, AddressTaken, store, rows
<1>1. TypeOK'
  OBVIOUS
<1>2. Shape'
  BY <1>1 DEF Shape, CallFits, RefreshFits, Distinct, Drawing, Stored
<1>3. OneHead'
  BY <1>1, <1>2 DEF Shape, CallFits, RefreshFits, Distinct, Drawing, Stored,
                    OneHead, OneTokenPerSession, Carries, Regular
<1>4. Current'
  BY <1>1, <1>2 DEF Shape, CallFits, RefreshFits, Distinct, Drawing, Stored,
                    Current, OnTime, PresentPassword, Regular, ChangePending
<1> QED
  BY <1>1, <1>2, <1>3, <1>4

LEMMA LateStored ==
  ASSUME NEW c \in Calls, Store(c), calls[c].late
  PROVE  calls[c].new \in late'
BY DEF Store

LEMMA StoreStep ==
  ASSUME IInv, NEW c \in Calls, Store(c)
  PROVE  IInv'
<1> USE SessionsAssumption DEF IInv, TypeOK, Call, Phases, Idle, Store, store, rows
<1>1. TypeOK'
  BY DEF Shape, CallFits, Drawing
<1>2. Shape'
  BY <1>1 DEF Shape, CallFits, RefreshFits, Distinct, Drawing, Stored
<1>3. OneHead'
  <2> USE DEF Stored, OneHead, OneTokenPerSession, Carries, Regular
  <2>1. PICK n \in Tokens : n = calls[c].new /\ ~Stored(n)
    BY DEF Shape, CallFits, Drawing
  <2>2. \A t \in Tokens \ {n} :
          owner'[t] = owner[t] /\ root'[t] = root[t] /\ (Regular(t)' => Regular(t))
    BY <2>1
  <2>3. root'[n] = calls[c].root /\ (Regular(n)' => Carries(c))
    <3>1. root'[n] = calls[c].root
      BY <2>1
    <3>2. Regular(n)' => n \notin late'
      OBVIOUS
    <3>3. Regular(n)' => ~calls[c].late
      BY <2>1, <3>2, LateStored
    <3>4. calls[c].phase = "store"
      OBVIOUS
    <3> QED
      BY <3>1, <3>3, <3>4
  <2>4. \A d \in Calls : Carries(d)' => d # c /\ Carries(d) /\ calls'[d] = calls[d]
    OBVIOUS
  <2>5. OneTokenPerSession'
    BY <2>2, <2>3
  <2>6. \A d \in Calls, t \in Tokens :
          Carries(d)' /\ Regular(t)' => root'[t] # calls'[d].root
    BY <2>2, <2>3, <2>4
  <2> QED
    BY <2>4, <2>5, <2>6
<1>4. Current'
  <2> USE DEF Stored, Regular, ChangePending
  <2>1. PICK n \in Tokens, u \in users : n = calls[c].new /\ u = calls[c].user
    BY DEF Shape, CallFits, Drawing
  <2>2. \A v \in Accounts : ChangePending(v) <=> ChangePending(v)'
    OBVIOUS
  <2>3. ASSUME NEW t \in Tokens, t # n, Regular(t)'
        PROVE  basis'[t] \in {None, password'[owner'[t]]} \/ ChangePending(owner[t])
    BY <2>1, <2>3 DEF Current, PresentPassword
  <2>4. ASSUME Regular(n)'
        PROVE  basis'[n] \in {None, password'[owner'[n]]} \/ ChangePending(u)
    <3>1. n \notin late'
      BY <2>4
    <3>2. ~calls[c].late
      BY <2>1, <3>1, LateStored
    <3> QED
      BY <3>2, <2>1 DEF Current, OnTime, Drawing
  <2>5. PresentPassword'
    <3>1. ASSUME NEW t \in Tokens, Regular(t)'
          PROVE  \/ basis'[t] \in {None, password'[owner'[t]]}
                 \/ owner'[t] \in cut'
                 \/ \E d \in Calls : calls'[d].phase = "revoke" /\ calls'[d].user = owner'[t]
      <4>1. CASE t = n
        <5>1. owner'[n] = u
          BY <2>1
        <5>2. \/ basis'[n] \in {None, password'[owner'[n]]}
              \/ u \in cut \/ \E d \in Calls : calls[d].phase = "revoke" /\ calls[d].user = u
          BY <3>1, <4>1, <2>4
        <5> QED
          BY <4>1, <5>1, <5>2, <2>1, <2>2
      <4>2. CASE t # n
        BY <3>1, <4>2, <2>1, <2>3, <2>2
      <4> QED
        BY <4>1, <4>2
    <3> QED
      BY <3>1 DEF PresentPassword
  <2>6. \A d \in Calls : OnTime(d)'
    BY <2>2 DEF Current, OnTime, Drawing
  <2> QED
    BY <2>5, <2>6 DEF Current
<1> QED
  BY <1>1, <1>2, <1>3, <1>4

LEMMA BeginRefreshStep ==
  ASSUME IInv, NEW c \in Calls, NEW t \in Tokens, NEW n \in Tokens, BeginRefresh(c, t, n)
  PROVE  IInv'
<1> USE SessionsAssumption DEF IInv, TypeOK, Call, Phases, Idle, BeginRefresh, Active, Fresh, store, rows
<1>1. TypeOK'
  OBVIOUS
<1>2. Shape'
  <2> USE <1>1 DEF Shape, CallFits, RefreshFits, Distinct, Drawing, Stored
  <2>1. /\ calls[c].new = None
        /\ calls'[c] = [phase |-> "rotate", user |-> owner[t], old |-> t, new |-> n,
                       root |-> root[t], basis |-> basis[t], late |-> t \in late]
    OBVIOUS
  <2>2. \A d \in Calls \ {c} : calls'[d] = calls[d] /\ calls[d].new # n
    OBVIOUS
  <2>3. owner[t] \in users /\ Stored(root[t]) /\ ~Stored(n)
    OBVIOUS
  <2>4. \A d \in Calls \ {c} : CallFits(d)' /\ RefreshFits(d)'
    BY <2>2
  <2>5. CallFits(c)' /\ RefreshFits(c)'
    <3>1. /\ calls'[c].phase = "rotate" /\ calls'[c].user = owner[t]
          /\ calls'[c].old = t /\ calls'[c].new = n /\ calls'[c].root = root[t]
          /\ calls'[c].basis = basis[t]
      BY <2>1
    <3>2. calls'[c].late = (t \in late)
      BY <2>1
    <3>3. CallFits(c)'
      BY <3>1, <2>3
    <3>4. /\ t \in Tokens /\ Stored(t)
          /\ late' = late /\ owner' = owner /\ root' = root /\ basis' = basis
      OBVIOUS
    <3>5. Stored(t)'
      BY <3>4 DEF BeginRefresh
    <3>6. RefreshFits(c)'
      BY ONLY <3>1, <3>2, <3>4, <3>5 DEF RefreshFits
    <3> QED
      BY <3>3, <3>6
  <2>6. Distinct'
    BY <2>1, <2>2
  <2> QED
    BY <2>4, <2>5, <2>6
<1>3. OneHead'
  BY <1>1, <1>2 DEF Shape, CallFits, RefreshFits, Distinct, Drawing, Stored,
                    OneHead, OneTokenPerSession, Carries, Regular
<1>4. Current'
  BY <1>1, <1>2 DEF Shape, CallFits, RefreshFits, Distinct, Drawing, Stored,
                    Current, OnTime, PresentPassword, Regular, ChangePending
<1> QED
  BY <1>1, <1>2, <1>3, <1>4

LEMMA RotateStep ==
  ASSUME IInv, NEW c \in Calls, Rotate(c)
  PROVE  IInv'
<1> USE SessionsAssumption DEF IInv, TypeOK, Call, Phases, Idle, Rotate, store, rows
<1>1. TypeOK'
  <2>1. [calls[c] EXCEPT !.phase = "store",
                         !.late = calls[c].late \/ calls[c].old \in revoked] \in Call
    OBVIOUS
  <2>2. revoked' \in SUBSET Tokens
    BY DEF Shape, RefreshFits
  <2> QED
    BY <2>1, <2>2
<1>2. Shape'
  BY <1>1 DEF Shape, CallFits, RefreshFits, Distinct, Drawing, Stored
<1>3. OneHead'
  <2> USE DEF Stored, OneHead, OneTokenPerSession, Carries, Regular
  <2> DEFINE o == calls[c].old
  <2>1. \A t \in Tokens : Regular(t)' => t # o /\ Regular(t)
    OBVIOUS
  <2>2. /\ \A d \in Calls \ {c} : calls'[d] = calls[d]
        /\ calls'[c].root = calls[c].root
    OBVIOUS
  <2>3. ASSUME Carries(c)'
        PROVE  o \in Tokens /\ Regular(o) /\ root[o] = calls[c].root
    <3>1. ~calls[c].late /\ o \notin revoked
      BY <2>3
    <3> QED
      BY <3>1 DEF Shape, RefreshFits
  <2>4. \A t \in Tokens : Regular(t)' /\ Carries(c)' => root[t] # calls[c].root
    BY <2>1, <2>3
  <2>5. \A d \in Calls \ {c} :
          /\ Carries(d)' => Carries(d)
          /\ Carries(d)' /\ Carries(c)' => calls[d].root # calls[c].root
    BY <2>2, <2>3
  <2> QED
    BY <2>1, <2>2, <2>4, <2>5
<1>4. Current'
  <2> USE DEF Stored, Regular, ChangePending
  <2>1. PresentPassword'
    BY DEF Current, PresentPassword
  <2>2. /\ calls'[c].user = calls[c].user /\ calls'[c].basis = calls[c].basis
        /\ ~calls'[c].late => ~calls[c].late
    OBVIOUS
  <2>3. OnTime(c)'
    BY <2>2 DEF Current, OnTime, Drawing
  <2>4. \A d \in Calls \ {c} : OnTime(d)'
    BY DEF Current, OnTime, Drawing
  <2> QED
    BY <2>1, <2>3, <2>4 DEF Current
<1> QED
  BY <1>1, <1>2, <1>3, <1>4

LEMMA LogOutStep ==
  ASSUME IInv, NEW u \in Accounts, LogOut(u)
  PROVE  IInv'
<1> USE SessionsAssumption DEF IInv, TypeOK, Call, Phases, Idle, LogOut, RevokeAll, OwnedBy, Overtake, store, rows
<1>1. TypeOK'
  <2>1. \A d \in Calls : [calls[d] EXCEPT !.late = TRUE] \in Call
    BY LateCall
  <2> QED
    BY <2>1
<1>2. Shape'
  BY <1>1 DEF Shape, CallFits, RefreshFits, Distinct, Drawing, Stored
<1>3. OneHead'
  BY <1>1, <1>2 DEF Shape, CallFits, RefreshFits, Distinct, Drawing, Stored,
                    OneHead, OneTokenPerSession, Carries, Regular
<1>4. Current'
  BY <1>1, <1>2 DEF Shape, CallFits, RefreshFits, Distinct, Drawing, Stored,
                    Current, OnTime, PresentPassword, Regular, ChangePending
<1> QED
  BY <1>1, <1>2, <1>3, <1>4

LEMMA RevokeOldStep ==
  ASSUME IInv, NEW c \in Calls, RevokeOld(c)
  PROVE  IInv'
<1> USE SessionsAssumption DEF IInv, TypeOK, Phases, store, rows
<1> DEFINE u == calls[c].user
<1>1. /\ u \in users /\ cut' = cut \ {u} /\ disturbed' = TRUE
      /\ revoked' = revoked \cup {t \in Tokens : owner[t] = u}
      /\ UNCHANGED <<store, owner, expired, root, basis, late>>
  BY DEF RevokeOld, RevokeAll, OwnedBy, Shape, CallFits
<1>2. /\ calls' \in [Calls -> Call]
      /\ calls'[c] = Idle
      /\ \A d \in Calls \ {c} :
           \/ calls'[d] = calls[d] /\ (calls[d].user # u \/ calls[d].phase = "revoke")
           \/ calls'[d] = [calls[d] EXCEPT !.late = TRUE]
  <2>1. Overtake(u) \in [Calls -> Call]
    BY LateCall DEF Overtake
  <2>2. Idle \in Call
    BY DEF Idle, Call
  <2>3. calls' = [Overtake(u) EXCEPT ![c] = Idle]
    BY DEF RevokeOld
  <2> QED
    BY <2>1, <2>2, <2>3 DEF Overtake
<1>3. \A d \in Calls \ {c} :
        /\ calls'[d].phase = calls[d].phase /\ calls'[d].user = calls[d].user
        /\ calls'[d].old = calls[d].old /\ calls'[d].new = calls[d].new
        /\ calls'[d].root = calls[d].root /\ calls'[d].basis = calls[d].basis
        /\ ~calls'[d].late => ~calls[d].late
        /\ ~calls'[d].late => calls[d].user # u \/ calls[d].phase = "revoke"
  BY <1>2 DEF Call
<1>4. TypeOK'
  BY <1>1, <1>2
<1>5. Shape'
  BY <1>1, <1>2, <1>3 DEF Idle, Shape, CallFits, RefreshFits, Distinct, Drawing, Stored
<1>6. OneHead'
  BY <1>1, <1>2, <1>3 DEF Idle, OneHead, OneTokenPerSession, Carries, Regular, Stored
<1>7. Current'
  <2>1. \A v \in users :
          v # u /\ ChangePending(v)
            => \/ v \in cut'
               \/ \E e \in Calls : calls'[e].phase = "revoke" /\ calls'[e].user = v
    BY <1>1, <1>2, <1>3 DEF ChangePending
  <2>2. PresentPassword'
    BY <1>1, <2>1 DEF Current, PresentPassword, Regular, Stored, ChangePending
  <2>3. ASSUME NEW d \in Calls
        PROVE  OnTime(d)'
    <3>1. CASE Drawing(d)' /\ ~calls'[d].late
      <4>1. d # c /\ Drawing(d) /\ ~calls[d].late /\ calls[d].user # u
        BY <3>1, <1>2, <1>3 DEF Drawing, Idle
      <4>2. calls[d].basis = None \/ calls[d].user \in users
        BY <4>1 DEF Shape, CallFits, Drawing
      <4>3. \/ calls[d].basis \in {None, password[calls[d].user]}
            \/ calls[d].user \in users /\ ChangePending(calls[d].user)
        BY <4>1, <4>2 DEF Current, OnTime
      <4>4. calls[d].user \in users /\ ChangePending(calls[d].user)
              => \/ calls[d].user \in cut'
                 \/ \E e \in Calls : calls'[e].phase = "revoke" /\ calls'[e].user = calls[d].user
        BY <4>1, <2>1 DEF ChangePending
      <4> QED
        BY <4>1, <4>3, <4>4, <1>1, <1>3 DEF OnTime, ChangePending
    <3> QED
      BY <3>1 DEF OnTime
  <2> QED
    BY <2>2, <2>3 DEF Current
<1> QED
  BY <1>4, <1>5, <1>6, <1>7

LEMMA ChangePasswordStep ==
  ASSUME IInv, NEW c \in Calls, NEW u \in Accounts, NEW p \in Passwords, ChangePassword(c, u, p)
  PROVE  IInv'
<1> USE SessionsAssumption DEF IInv, TypeOK, Call, Phases, Idle, ChangePassword, store, rows
<1>1. TypeOK'
  OBVIOUS
<1>2. Shape'
  BY <1>1 DEF Shape, CallFits, RefreshFits, Distinct, Drawing, Stored
<1>3. OneHead'
  BY <1>1, <1>2 DEF Shape, CallFits, RefreshFits, Distinct, Drawing, Stored,
                    OneHead, OneTokenPerSession, Carries, Regular
<1>4. Current'
  BY <1>1, <1>2 DEF Shape, CallFits, RefreshFits, Distinct, Drawing, Stored,
                    Current, OnTime, PresentPassword, Regular, ChangePending
<1> QED
  BY <1>1, <1>2, <1>3, <1>4

LEMMA ExpireStep ==
  ASSUME IInv, NEW t \in Tokens, Expire(t)
  PROVE  IInv'
<1> USE SessionsAssumption DEF IInv, TypeOK, Call, Phases, Idle, Expire, Active, store, rows
<1>1. TypeOK'
  OBVIOUS
<1>2. Shape'
  BY <1>1 DEF Shape, CallFits, RefreshFits, Distinct, Drawing, Stored
<1>3. OneHead'
  BY <1>1, <1>2 DEF Shape, CallFits, RefreshFits, Distinct, Drawing, Stored,
                    OneHead, OneTokenPerSession, Carries, Regular
<1>4. Current'
  BY <1>1, <1>2 DEF Shape, CallFits, RefreshFits, Distinct, Drawing, Stored,
                    Current, OnTime, PresentPassword, Regular, ChangePending
<1> QED
  BY <1>1, <1>2, <1>3, <1>4

LEMMA AbandonStep ==
  ASSUME IInv, NEW c \in Calls, Abandon(c)
  PROVE  IInv'
<1> USE SessionsAssumption DEF IInv, TypeOK, Call, Phases, Idle, Abandon, store, rows
<1>1. TypeOK'
  BY DEF Shape, CallFits
<1>2. Shape'
  BY <1>1 DEF Shape, CallFits, RefreshFits, Distinct, Drawing, Stored
<1>3. OneHead'
  BY <1>1, <1>2 DEF Shape, CallFits, RefreshFits, Distinct, Drawing, Stored,
                    OneHead, OneTokenPerSession, Carries, Regular
<1>4. Current'
  BY <1>1, <1>2 DEF Shape, CallFits, RefreshFits, Distinct, Drawing, Stored,
                    Current, OnTime, PresentPassword, Regular, ChangePending
<1> QED
  BY <1>1, <1>2, <1>3, <1>4

-----------------------------------------------------------------------------
(* Every step keeps the invariant.                                         *)
LEMMA StepInvariant == IInv /\ [Next]_vars => IInv'
<1> SUFFICES ASSUME IInv, [Next]_vars PROVE IInv'
  OBVIOUS
<1>1. CASE UNCHANGED vars
  BY <1>1 DEF vars, IInv, TypeOK, Shape, CallFits, RefreshFits, Distinct, Drawing,
     Stored, OneHead, OneTokenPerSession, Carries, Regular, Current,
     OnTime, PresentPassword, ChangePending
<1>2. ASSUME NEW c \in Calls, Continue(c) \/ Refresh(c) \/ Abandon(c)
      PROVE  IInv'
  BY <1>2, ProvisionStep, CreateGoogleStep, AddressTakenStep, RotateStep, StoreStep,
     RevokeOldStep, BeginRefreshStep, AbandonStep DEF Continue, Refresh
<1>3. ASSUME NEW c \in Calls, NEW u \in Accounts, NEW t \in Tokens, SignIn(c, u, t)
      PROVE  IInv'
  BY <1>3, SignUpStep, LogInStep, GoogleStep DEF SignIn
<1>4. ASSUME NEW c \in Calls, NEW u \in Accounts, NEW p \in Passwords,
             ChangePassword(c, u, p)
      PROVE  IInv'
  BY <1>4, ChangePasswordStep
<1>5. ASSUME NEW u \in Accounts, LogOut(u)
      PROVE  IInv'
  BY <1>5, LogOutStep
<1>6. ASSUME NEW t \in Tokens, Expire(t)
      PROVE  IInv'
  BY <1>6, ExpireStep
<1> QED
  BY <1>1, <1>2, <1>3, <1>4, <1>5, <1>6 DEF Next

LEMMA InvariantHolds == Spec => []IInv
BY InitInvariant, StepInvariant, PTL DEF Spec

-----------------------------------------------------------------------------

(* The account store and the calls over it stay in their types: no token   *)
(* is stored for an account that does not exist.                           *)
THEOREM TypeCorrect == Spec => []TypeOK
BY InvariantHolds, PTL DEF IInv

(* A session on time that was opened with a password was opened with the   *)
(* present one, unless a change of password has yet to revoke.             *)
THEOREM PasswordCorrect == Spec => []PresentPassword
BY InvariantHolds, PTL DEF IInv, Current

(* But for refreshes that were overtaken, a session has at most one token  *)
(* that can be refreshed.                                                  *)
THEOREM RotationCorrect == Spec => []OneTokenPerSession
BY InvariantHolds, PTL DEF IInv, OneHead
=============================================================================
