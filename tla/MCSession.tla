----------------------------- MODULE MCSession -----------------------------
EXTENDS Session, FiniteSets, TLC

\* Which request and which account is which does not matter: the first tap gets
\* the first request, and an account that is signed in at the start, or the
\* only one that exists then, is the first account.  (SYMMETRY would not be
\* sound for the liveness property.)
Order == CHOOSE f \in [1..Cardinality(Requests) -> Requests] :
           \A i, j \in DOMAIN f : f[i] = f[j] => i = j

InOrder == \A i, j \in DOMAIN Order :
             (i < j /\ stage[Order[j]] # "idle") => stage[Order[i]] # "idle"

\* A category is written a second time only where one user logs in, once before
\* and perhaps again after: the two writes of one document, with breaks, restarts,
\* a logout and that user again.  (A profile is written with a block taken off
\* the main queue.)
OneUserLogsIn == \E u \in Users : \A r \in Requests :
                   kind[r] = "login" /\ email[r] \in {u, NoUser}

SecondByOneUser ==
  /\ (writes = 1 /\ writes' = 2 /\ mainQueue' = mainQueue) =>
       OneUserLogsIn /\ \A r \in Requests : r = home \/ stage[r] = "idle"
  /\ (writes = 2 /\ OneUserLogsIn) => OneUserLogsIn'

FirstUser == CHOOSE u \in Users : TRUE

InitInOrder ==
  /\ Init
  /\ accounts = {} \/ FirstUser \in accounts
  /\ currentUser \in {FirstUser, NoUser}

FairSpecInOrder == InitInOrder /\ [][Next /\ InOrder' /\ SecondByOneUser]_vars /\ Fairness
=============================================================================
