------------------------------ MODULE MCSessions ------------------------------
(* A small instance of Sessions for TLC; no symmetry, because the run checks *)
(* liveness.                                                                 *)
EXTENDS Sessions, Naturals, FiniteSets

Begins(c) == calls[c] = Idle /\ calls'[c] # Idle

(* What is interchangeable is used in its order: the ids of tokens, the      *)
(* calls, and the passwords (there is one account, and its first is 1).      *)
InOrder ==
  /\ \A c \in Calls :
       Begins(c) => /\ \A d \in Calls : calls[d] = Idle => c <= d
                    /\ \A t \in Tokens : calls'[c].new # None /\ Fresh(t)
                                           => calls'[c].new <= t
  /\ \A u \in Accounts : password[u] = None => password'[u] \in {None, 1}

(* One token expires before it is revoked, or one change of password stops   *)
(* halfway; and nothing is explored where every id was drawn and every token *)
(* is revoked: nobody can be signed in any more.                             *)
Bounded == /\ Cardinality(expired) + Cardinality(cut) <= 1
           /\ disturbed => \E t \in Tokens : ~Stored(t) \/ t \notin revoked
=============================================================================
