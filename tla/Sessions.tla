------------------------------ MODULE Sessions ------------------------------
(***************************************************************************)
(* The sessions of one user: creating one, exchanging its refresh token    *)
(* for the next, logging out, and the job that revokes what has expired.   *)
(* A session is fixed to the seven days it was created with; its row holds *)
(* the hash of the last refresh token, which a refresh replaces only if it *)
(* is the one it read.  The token that a request presents is another       *)
(* matter: the comparison takes any that was issued for the session.       *)
(***************************************************************************)
EXTENDS Integers, FiniteSets

CONSTANTS
  SessionIds,
  Refreshes, Logouts,   \* requests that can be in flight
  Cleaners,      \* instances that run the cleanup job
  Lifetime,      \* REFRESH_TOKEN_SECONDS
  BatchSize,     \* rows the cleanup revokes at a time
  MaxClock,      \* bound: the clock stops here
  MaxHash,       \* bound: refresh tokens of one session
  MaxFailures    \* bound: cleanup runs that fail or crash

NoCleaner == "no cleaner"

ASSUME SessionsAssumption ==
  /\ NoCleaner \notin Cleaners
  /\ Lifetime \in Nat \ {0}
  /\ BatchSize \in Nat \ {0}
  /\ MaxClock \in Nat
  /\ MaxHash \in Nat \ {0}
  /\ MaxFailures \in Nat

VARIABLES
  clock,
  hash,      \* hash[s]: Session.refreshTokenHash: that of token 1, 2, ... ; 0 for no row
  expires,   \* expires[s]: Session.expiresAt
  revoked,   \* sessions whose revokedAt is set
  ended,     \* history: sessions logged out, or used from another device
  replaced,  \* history: replaced[s][h]: refreshes that replaced the hash of token h
  exchanged, \* history: exchanged[s][t]: refreshes that presented token t and got another
  refresh,   \* refresh[r]: the refresh r
  logout,    \* logout[l]: the logout l
  cleanup,   \* cleanup[c]: the run of instance c
  cleanupLock,
  failures   \* cleanup runs that failed or crashed so far

sessionVars == <<hash, expires, revoked, ended, replaced, exchanged>>
cleanupVars == <<cleanup, cleanupLock, failures>>
sessionsVars ==
  <<clock, sessionVars, refresh, logout, cleanupVars>>

Calm == [stage |-> "calm"]

Hashes == 0 .. MaxHash

Tokens == 1 .. MaxHash

\* read: the session was read, and the presented token compared.  revoke: the session
\* is to be revoked, for a device or address that changed or for its age.
Refresh ==
  [stage : {"read"}, id : SessionIds, token : Tokens, seen : Hashes]
  \cup [stage : {"revoke"}, id : SessionIds, moved : BOOLEAN]

Logout == [stage : {"read"}, id : SessionIds]

\* now: the time the run began.  ids: the batch that was found.
Cleanup ==
  [stage : {"scanning"}, now : Nat]
  \cup [stage : {"found"}, now : Nat, ids : SUBSET SessionIds]
-----------------------------------------------------------------------------
SessionsInit ==
  /\ clock = 0
  /\ hash = [s \in SessionIds |-> 0]
  /\ expires = [s \in SessionIds |-> 0]
  /\ revoked = {}
  /\ ended = {}
  /\ replaced = [s \in SessionIds |-> [h \in Hashes |-> 0]]
  /\ exchanged = [s \in SessionIds |-> [t \in Tokens |-> 0]]
  /\ refresh = [r \in Refreshes |-> Calm]
  /\ logout = [l \in Logouts |-> Calm]
  /\ cleanup = [c \in Cleaners |-> Calm]
  /\ cleanupLock = NoCleaner
  /\ failures = 0

ClockTick ==
  /\ clock < MaxClock                                                \* bound
  /\ clock' = clock + 1
  /\ UNCHANGED <<sessionVars, refresh, logout, cleanupVars>>

-----------------------------------------------------------------------------
\* issueAndStoreTokens after a login, whichever kind it was, inserts a session.
CreateSession(s) ==
  /\ hash[s] = 0
  /\ hash' = [hash EXCEPT ![s] = 1]
  /\ expires' = [expires EXCEPT ![s] = clock + Lifetime]
  /\ UNCHANGED <<clock, revoked, ended, replaced, exchanged, refresh, logout, cleanupVars>>

-----------------------------------------------------------------------------
\* The token t was issued for the session s, and compareRefreshToken accepts it.
\* bcrypt reads 72 bytes: of a JWT the header and the start of the payload, which
\* opens with the user's id.  The tokens of one user are alike there, so it accepts
\* an exchanged one as it does the one whose hash the row holds.
Accepts(s, t) == t \in 1 .. hash[s]

\* refreshToken up to the comparison of the token t.  A revoked session is turned
\* down; an expired one, and an administrator's used elsewhere, is to be revoked.
RefreshRead(r, s, t) ==
  /\ refresh[r] = Calm
  /\ Accepts(s, t)
  /\ s \notin revoked
  /\ refresh' = [refresh EXCEPT ![r] =
       IF expires[s] <= clock
         THEN [stage |-> "revoke", id |-> s, moved |-> FALSE]
         ELSE [stage |-> "read", id |-> s, token |-> t, seen |-> hash[s]]]
  /\ UNCHANGED <<clock, sessionVars, logout, cleanupVars>>

\* enforceSessionBinding of an administrator whose device or address has changed.
RefreshMoved(r, s) ==
  /\ refresh[r] = Calm
  /\ hash[s] # 0
  /\ s \notin revoked
  /\ expires[s] > clock
  /\ refresh' = [refresh EXCEPT ![r] = [stage |-> "revoke", id |-> s, moved |-> TRUE]]
  /\ UNCHANGED <<clock, sessionVars, logout, cleanupVars>>

RefreshRevoke(r) ==
  /\ refresh[r].stage = "revoke"
  /\ revoked' = revoked \cup {refresh[r].id}
  /\ ended' = IF refresh[r].moved THEN ended \cup {refresh[r].id} ELSE ended
  /\ refresh' = [refresh EXCEPT ![r] = Calm]
  /\ UNCHANGED <<clock, hash, expires, replaced, exchanged, logout, cleanupVars>>

\* The row gets the hash of the next token, which answers the refresh q.
Rotate(s, q) ==
  /\ hash' = [hash EXCEPT ![s] = @ + 1]
  /\ replaced' = [replaced EXCEPT ![s][q.seen] = @ + 1]
  /\ exchanged' = [exchanged EXCEPT ![s][q.token] = @ + 1]

\* MUTANT: the row is found by its id and its hash, and revokedAt reset.
RotateRevoked(r) ==
  LET s == refresh[r].id IN
  /\ refresh[r].stage = "read"
  /\ hash[s] < MaxHash
  /\ IF hash[s] = refresh[r].seen /\ expires[s] > clock
       THEN Rotate(s, refresh[r]) /\ revoked' = revoked \ {s}
       ELSE UNCHANGED <<hash, replaced, exchanged, revoked>>
  /\ refresh' = [refresh EXCEPT ![r] = Calm]
  /\ UNCHANGED <<clock, expires, ended, logout, cleanupVars>>

\* MUTANT: the row is found by its id, whatever its hash is now.
RotateAnyHash(r) ==
  LET s == refresh[r].id IN
  /\ refresh[r].stage = "read"
  /\ hash[s] < MaxHash
  /\ IF s \notin revoked /\ expires[s] > clock
       THEN Rotate(s, refresh[r])
       ELSE UNCHANGED <<hash, replaced, exchanged>>
  /\ refresh' = [refresh EXCEPT ![r] = Calm]
  /\ UNCHANGED <<clock, expires, revoked, ended, logout, cleanupVars>>

\* rotateSessionRefreshToken: one conditional UPDATE; a 401 when it finds no row.
RefreshRotate(r) ==
  LET s == refresh[r].id IN
  /\ refresh[r].stage = "read"
  /\ hash[s] < MaxHash                                               \* bound
  /\ IF hash[s] = refresh[r].seen /\ s \notin revoked /\ expires[s] > clock
       THEN Rotate(s, refresh[r])
       ELSE UNCHANGED <<hash, replaced, exchanged>>
  /\ refresh' = [refresh EXCEPT ![r] = Calm]
  /\ UNCHANGED <<clock, expires, revoked, ended, logout, cleanupVars>>

\* logout reads the session and compares the token, any of the session's ...
LogoutRead(l, s) ==
  /\ logout[l] = Calm
  /\ hash[s] # 0
  /\ s \notin revoked
  /\ logout' = [logout EXCEPT ![l] = [stage |-> "read", id |-> s]]
  /\ UNCHANGED <<clock, sessionVars, refresh, cleanupVars>>

\* ... and revokes it by its id.
LogoutWrite(l) ==
  /\ logout[l] # Calm
  /\ revoked' = revoked \cup {logout[l].id}
  /\ ended' = ended \cup {logout[l].id}
  /\ logout' = [logout EXCEPT ![l] = Calm]
  /\ UNCHANGED <<clock, hash, expires, replaced, exchanged, refresh, cleanupVars>>

-----------------------------------------------------------------------------
\* revokeExpiredSessions of an instance that gets the lock.
CleanupStart(c) ==
  /\ cleanup[c] = Calm
  /\ cleanupLock = NoCleaner
  /\ cleanupLock' = c
  /\ cleanup' = [cleanup EXCEPT ![c] = [stage |-> "scanning", now |-> clock]]
  /\ UNCHANGED <<clock, sessionVars, refresh, logout, failures>>

ExpiredSessions(now) ==
  {s \in SessionIds : hash[s] # 0 /\ expires[s] <= now /\ s \notin revoked}

CleanupDone(c) ==
  /\ cleanup' = [cleanup EXCEPT ![c] = Calm]
  /\ cleanupLock' = IF cleanupLock = c THEN NoCleaner ELSE cleanupLock

\* MUTANT: every session is old enough.
CleanupFindAll(c) ==
  /\ cleanup[c].stage = "scanning"
  /\ cleanup' = [cleanup EXCEPT ![c] =
       [stage |-> "found", now |-> cleanup[c].now,
        ids |-> {s \in SessionIds : hash[s] # 0}]]
  /\ UNCHANGED <<clock, sessionVars, refresh, logout, cleanupLock, failures>>

\* A batch of expired sessions, as many as there are up to the limit.
CleanupFind(c) ==
  LET old == ExpiredSessions(cleanup[c].now) IN
  /\ cleanup[c].stage = "scanning"
  /\ \/ /\ old = {}
        /\ CleanupDone(c)
     \/ /\ old # {}
        /\ \E ids \in SUBSET old :
             /\ ids # {}
             /\ Cardinality(ids) = BatchSize \/ (ids = old /\ Cardinality(old) < BatchSize)
             /\ cleanup' = [cleanup EXCEPT ![c] =
                  [stage |-> "found", now |-> cleanup[c].now, ids |-> ids]]
        /\ UNCHANGED cleanupLock
  /\ UNCHANGED <<clock, sessionVars, refresh, logout, failures>>

\* The batch is revoked, and after a full one the next is looked for.
CleanupRevoke(c) ==
  LET ids == cleanup[c].ids IN
  /\ cleanup[c].stage = "found"
  /\ revoked' = revoked \cup ids
  /\ IF Cardinality(ids) < BatchSize
       THEN CleanupDone(c)
       ELSE /\ cleanup' = [cleanup EXCEPT ![c] =
                 [stage |-> "scanning", now |-> cleanup[c].now]]
            /\ UNCHANGED cleanupLock
  /\ UNCHANGED <<clock, hash, expires, ended, replaced, exchanged, refresh, logout,
                 failures>>

\* A statement throws, and the lock is released, or the process ends.
CleanupStop(c) ==
  /\ cleanup[c] # Calm
  /\ failures < MaxFailures                                          \* bound
  /\ failures' = failures + 1
  /\ \/ CleanupDone(c)
     \/ cleanup' = [cleanup EXCEPT ![c] = Calm] /\ UNCHANGED cleanupLock
  /\ UNCHANGED <<clock, sessionVars, refresh, logout>>

\* MUTANT: the lock has no time to live.
CleanupLockStays == FALSE /\ UNCHANGED sessionsVars

\* The fourteen minutes of the lock are over.
CleanupLockExpire ==
  /\ cleanupLock # NoCleaner
  /\ cleanupLock' = NoCleaner
  /\ UNCHANGED <<clock, sessionVars, refresh, logout, cleanup, failures>>

CleanupStep(c) == CleanupFind(c) \/ CleanupRevoke(c)

SessionsNext ==
  \/ ClockTick
  \/ \E s \in SessionIds : CreateSession(s)
  \/ \E r \in Refreshes :
       \/ \E s \in SessionIds :
            RefreshMoved(r, s) \/ \E t \in Tokens : RefreshRead(r, s, t)
       \/ RefreshRevoke(r) \/ RefreshRotate(r)
  \/ \E l \in Logouts : LogoutWrite(l) \/ \E s \in SessionIds : LogoutRead(l, s)
  \/ \E c \in Cleaners : CleanupStart(c) \/ CleanupStep(c) \/ CleanupStop(c)
  \/ CleanupLockExpire

\* Time goes by, the cron of some instance fires every quarter of an hour, a run
\* that is not stopped goes on, and Redis drops an expired lock.
SessionsFairness ==
  /\ WF_sessionsVars(ClockTick)
  /\ WF_sessionsVars(\E c \in Cleaners : CleanupStart(c))
  /\ \A c \in Cleaners : WF_sessionsVars(CleanupStep(c))
  /\ WF_sessionsVars(CleanupLockExpire)

SessionsSpec == SessionsInit /\ [][SessionsNext]_sessionsVars

FairSessionsSpec == SessionsSpec /\ SessionsFairness

-----------------------------------------------------------------------------
\* Properties.

\* Every variable has its type.
SessionsTypeOK ==
  /\ clock \in 0 .. MaxClock
  /\ hash \in [SessionIds -> Hashes]
  /\ expires \in [SessionIds -> Nat]
  /\ revoked \in SUBSET SessionIds
  /\ ended \in SUBSET SessionIds
  /\ replaced \in [SessionIds -> [Hashes -> Nat]]
  /\ exchanged \in [SessionIds -> [Tokens -> Nat]]
  /\ refresh \in [Refreshes -> Refresh \cup {Calm}]
  /\ logout \in [Logouts -> Logout \cup {Calm}]
  /\ cleanup \in [Cleaners -> Cleanup \cup {Calm}]
  /\ cleanupLock \in Cleaners \cup {NoCleaner}
  /\ failures \in 0 .. MaxFailures

\* However refreshes that have passed their checks race a logout, each other and the
\* job: a revoked session stays revoked, and neither it nor one whose seven days
\* are over is given another token.
SessionEndsForGood ==
  [][\A s \in SessionIds :
       /\ s \in revoked => s \in revoked'
       /\ s \in revoked \/ (hash[s] # 0 /\ expires[s] <= clock) =>
            hash'[s] = hash[s]]_sessionsVars

\* Of the refreshes that read the row with one hash, whichever tokens they presented, one
\* rotates: the others lose.  A refresh that reads the row later is another matter.
OneRefreshWins == \A s \in SessionIds, h \in Hashes : replaced[s][h] <= 1

\* A token that was exchanged is not exchanged again: src/README.md:14 promises replay
\* protection, and auth.service.spec.ts:406 that reuse after rotation is rejected.
RotatedOnce == \A s \in SessionIds, t \in Tokens : exchanged[s][t] <= 1

\* No session is revoked before its time unless its user ended it.
RevokedForReason == \A s \in revoked : s \in ended \/ expires[s] <= clock

\* An expired session is revoked in the end, although runs of the job fail.
ExpiredIsRevoked ==
  \A s \in SessionIds :
    (hash[s] # 0 /\ expires[s] <= clock) ~> (s \in revoked)
=============================================================================
