---------------------------- MODULE AccessControl ----------------------------
(***************************************************************************)
(* security/access_control.cpp: passwords, failed attempts and lockouts.   *)
(* A password stands for its hash, and locked_until for the time that is   *)
(* left of it.  Levels decide nothing about a lockout and are left out.    *)
(***************************************************************************)
EXTENDS Integers

CONSTANTS Users, Passwords,
          DefaultAttempts, Lockout,    \* max_attempts_ and lockout_duration_ at first
          AttemptLimits,               \* what setMaxAttempts is called with
          MaxFailed                    \* bound on failed_attempts

ASSUME AccessAssumption ==
  /\ Passwords # {}
  /\ DefaultAttempts \in Nat \ {0} /\ Lockout \in Nat \ {0}
  /\ AttemptLimits \subseteq Int
  /\ MaxFailed \in Nat

VARIABLES users, password, failed, locked_for, max_attempts,
          tries      \* wrong passwords looked at since the user was last added,
                     \* let in, unlocked or locked out

accessVars == <<users, password, failed, locked_for, max_attempts, tries>>

\* The constructor adds two users with addUser, like any others.
AccessInit ==
  /\ users = {} /\ password = [u \in Users |-> CHOOSE p \in Passwords : TRUE]
  /\ failed = [u \in Users |-> 0] /\ locked_for = [u \in Users |-> 0]
  /\ max_attempts = DefaultAttempts
  /\ tries = [u \in Users |-> 0]

isLockedOut(u) == u \in users /\ locked_for[u] > 0

\* authenticate, of a user that exists and may try.
LetIn(u, p) ==
  /\ u \in users /\ ~isLockedOut(u) /\ password[u] = p
  /\ failed' = [failed EXCEPT ![u] = 0] /\ tries' = [tries EXCEPT ![u] = 0]
  /\ UNCHANGED <<users, password, locked_for, max_attempts>>

\* Slip: a lockout needs one attempt more than the limit.
RefuseLate(u, p) ==
  /\ u \in users /\ ~isLockedOut(u) /\ password[u] # p /\ failed[u] < MaxFailed
  /\ failed' = [failed EXCEPT ![u] = @ + 1]
  /\ IF failed'[u] > max_attempts
       THEN locked_for' = [locked_for EXCEPT ![u] = Lockout] /\ tries' = [tries EXCEPT ![u] = 0]
       ELSE tries' = [tries EXCEPT ![u] = @ + 1] /\ UNCHANGED locked_for
  /\ UNCHANGED <<users, password, max_attempts>>

\* failed_attempts outlives the lockout: the next wrong password locks at once.
Refuse(u, p) ==
  /\ u \in users /\ ~isLockedOut(u) /\ password[u] # p /\ failed[u] < MaxFailed
  /\ failed' = [failed EXCEPT ![u] = @ + 1]
  /\ IF failed'[u] >= max_attempts
       THEN locked_for' = [locked_for EXCEPT ![u] = Lockout] /\ tries' = [tries EXCEPT ![u] = 0]
       ELSE tries' = [tries EXCEPT ![u] = @ + 1] /\ UNCHANGED locked_for
  /\ UNCHANGED <<users, password, max_attempts>>

addUser(u, p) ==
  /\ u \notin users /\ users' = users \cup {u}
  /\ password' = [password EXCEPT ![u] = p]
  /\ failed' = [failed EXCEPT ![u] = 0] /\ tries' = [tries EXCEPT ![u] = 0]
  /\ locked_for' = [locked_for EXCEPT ![u] = 0]
  /\ UNCHANGED max_attempts

removeUser(u) ==
  /\ u \in users /\ users' = users \ {u}
  /\ UNCHANGED <<password, failed, locked_for, max_attempts, tries>>

setMaxAttempts(n) ==
  /\ max_attempts' = IF n > 1 THEN n ELSE 1
  /\ UNCHANGED <<users, password, failed, locked_for, tries>>

lockoutUser(u) ==
  /\ u \in users
  /\ locked_for' = [locked_for EXCEPT ![u] = Lockout] /\ tries' = [tries EXCEPT ![u] = 0]
  /\ UNCHANGED <<users, password, failed, max_attempts>>

unlockUser(u) ==
  /\ u \in users
  /\ failed' = [failed EXCEPT ![u] = 0] /\ tries' = [tries EXCEPT ![u] = 0]
  /\ locked_for' = [locked_for EXCEPT ![u] = 0]
  /\ UNCHANGED <<users, password, max_attempts>>

\* The system clock, of which only differences count.
AccessClock ==
  /\ locked_for' = [u \in Users |-> IF locked_for[u] > 0 THEN locked_for[u] - 1 ELSE 0]
  /\ UNCHANGED <<users, password, failed, max_attempts, tries>>

AccessNext ==
  \/ \E u \in Users, p \in Passwords : LetIn(u, p) \/ Refuse(u, p) \/ addUser(u, p)
  \/ \E u \in Users : removeUser(u) \/ lockoutUser(u) \/ unlockUser(u)
  \/ \E n \in AttemptLimits : setMaxAttempts(n)
  \/ AccessClock

AccessSpec == AccessInit /\ [][AccessNext]_accessVars

\* Every variable keeps its type.
AccessTypeOK ==
  /\ users \subseteq Users /\ password \in [Users -> Passwords]
  /\ failed \in [Users -> Nat] /\ locked_for \in [Users -> Nat]
  /\ tries \in [Users -> Nat] /\ max_attempts \in Nat \ {0}

\* However the limit changes, lockouts run out and users come and go: a wrong
\* password is answered by a lockout in full, or it was one of fewer than
\* max_attempts_ since the last lockout, success or unlocking.
LockoutInTime ==
  [][\A u \in Users :
       failed'[u] > failed[u] =>
         \/ locked_for'[u] = Lockout
         \/ tries'[u] = tries[u] + 1 /\ tries'[u] < max_attempts]_accessVars
=============================================================================
