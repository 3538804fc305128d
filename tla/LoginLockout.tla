---------------------------- MODULE LoginLockout ----------------------------
(***************************************************************************)
(* Logging in with a password behind a counter of failures in Redis.  The  *)
(* counter is read, the password compared, and the counter incremented or  *)
(* deleted in separate commands; it expires half an hour after the first   *)
(* failure, if the command that says so was reached.                       *)
(***************************************************************************)
EXTENDS Integers, FiniteSets

CONSTANTS
  Logins,      \* logins of one user that can be in flight
  MaxFails     \* LOGIN_FAIL_MAX

ASSUME LoginAssumption ==
  /\ IsFiniteSet(Logins)
  /\ MaxFails \in Nat \ {0}

VARIABLES
  login,     \* login[l]: idle, past the check of the counter, or about to EXPIRE it
  fails,     \* login:fail, 0 when there is none
  failsEnd,  \* login:fail has a time to live
  failsLost  \* history: a login ended between INCR and EXPIRE

loginVars == <<login, fails, failsEnd, failsLost>>

LoginInit ==
  /\ login = [l \in Logins |-> "idle"]
  /\ fails = 0
  /\ failsEnd = FALSE
  /\ failsLost = FALSE

\* MUTANT: only a login that begins at the limit is turned down, later ones are not.
LoginCheckAtLimit(l) ==
  /\ login[l] = "idle"
  /\ fails # MaxFails
  /\ login' = [login EXCEPT ![l] = "checked"]
  /\ UNCHANGED <<fails, failsEnd, failsLost>>

\* login reads the count of failures; bcrypt of the password follows.
LoginCheck(l) ==
  /\ login[l] = "idle"
  /\ fails < MaxFails
  /\ login' = [login EXCEPT ![l] = "checked"]
  /\ UNCHANGED <<fails, failsEnd, failsLost>>

\* MUTANT: the time to live is left to whoever comes second.
LoginWrongNoExpire(l) ==
  /\ login[l] = "checked"
  /\ fails' = fails + 1
  /\ login' = [login EXCEPT ![l] = IF fails = 1 THEN "first" ELSE "idle"]
  /\ UNCHANGED <<failsEnd, failsLost>>

\* A wrong password: INCR ...
LoginWrong(l) ==
  /\ login[l] = "checked"
  /\ fails' = fails + 1
  /\ login' = [login EXCEPT ![l] = IF fails = 0 THEN "first" ELSE "idle"]
  /\ UNCHANGED <<failsEnd, failsLost>>

\* ... and EXPIRE after the first failure.
LoginExpire(l) ==
  /\ login[l] = "first"
  /\ failsEnd' = (fails > 0)
  /\ login' = [login EXCEPT ![l] = "idle"]
  /\ UNCHANGED <<fails, failsLost>>

\* MUTANT: the right password takes back one failure.
LoginRightDecrement(l) ==
  /\ login[l] = "checked"
  /\ fails' = fails - 1
  /\ login' = [login EXCEPT ![l] = "idle"]
  /\ UNCHANGED <<failsEnd, failsLost>>

\* The right password: DEL.
LoginRight(l) ==
  /\ login[l] = "checked"
  /\ fails' = 0
  /\ failsEnd' = FALSE
  /\ login' = [login EXCEPT ![l] = "idle"]
  /\ UNCHANGED failsLost

\* The process ends in the middle of a login.
LoginStop(l) ==
  /\ login[l] # "idle"
  /\ failsLost' = (failsLost \/ login[l] = "first")
  /\ login' = [login EXCEPT ![l] = "idle"]
  /\ UNCHANGED <<fails, failsEnd>>

\* The thirty minutes of the counter are over.
FailsExpire ==
  /\ failsEnd
  /\ fails' = 0
  /\ failsEnd' = FALSE
  /\ UNCHANGED <<login, failsLost>>

LoginNext ==
  \/ \E l \in Logins :
       LoginCheck(l) \/ LoginWrong(l) \/ LoginExpire(l) \/ LoginRight(l) \/ LoginStop(l)
  \/ FailsExpire

LoginSpec == LoginInit /\ [][LoginNext]_loginVars

-----------------------------------------------------------------------------
\* Properties.

\* Every variable has its type.
LoginTypeOK ==
  /\ login \in [Logins -> {"idle", "checked", "first"}]
  /\ fails \in Nat
  /\ failsEnd \in BOOLEAN
  /\ failsLost \in BOOLEAN

\* A count of failures that can lock the user out comes to an end, unless a process
\* ended between INCR and EXPIRE.
LockoutEnds ==
  fails > 0 => failsEnd \/ failsLost \/ \E l \in Logins : login[l] = "first"

\* Logins that passed the check before the last allowed failure may still fail: the
\* lockout lets through no more than those in flight.
FailsBounded == fails <= MaxFails - 1 + Cardinality(Logins)
=============================================================================
