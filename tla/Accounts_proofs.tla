--------------------------- MODULE Accounts_proofs ---------------------------
(***************************************************************************)
(* Proofs about Sessions, OneTimeCodes and LoginLockout, for any sessions, *)
(* requests, server instances and limits.                                  *)
(***************************************************************************)
EXTENDS Sessions, OneTimeCodes, LoginLockout, FiniteSetTheorems, TLAPS

-----------------------------------------------------------------------------
\* Sessions.

\* Who is about to revoke a session knows it, and that its time has come or its user
\* ended it: a session that exists is never created again, and its end never moves.
Revocable(s) == hash[s] # 0 /\ (s \in ended \/ expires[s] <= clock)

RefreshFits(r) ==
  LET q == refresh[r] IN
  /\ q.stage = "read" => hash[q.id] # 0
  /\ q.stage = "revoke" => hash[q.id] # 0 /\ (q.moved \/ expires[q.id] <= clock)

LogoutFits(l) == logout[l].stage = "read" => hash[logout[l].id] # 0

CleanupFits(c) ==
  LET q == cleanup[c] IN
  /\ q.stage \in {"scanning", "found"} => q.now <= clock
  /\ q.stage = "found" => \A s \in q.ids : hash[s] # 0 /\ expires[s] <= clock

\* A hash that was replaced is older than the row's.
Replaced(s) ==
  \A h \in Hashes : replaced[s][h] <= 1 /\ (hash[s] <= h => replaced[s][h] = 0)

SessionsInv ==
  /\ SessionsTypeOK
  /\ \A s \in SessionIds : Replaced(s)
  /\ \A s \in revoked : Revocable(s)
  /\ \A r \in Refreshes : RefreshFits(r)
  /\ \A l \in Logouts : LogoutFits(l)
  /\ \A c \in Cleaners : CleanupFits(c)

LEMMA SessionsInitInv == SessionsInit => SessionsInv
<1> SUFFICES ASSUME SessionsInit PROVE SessionsInv
  OBVIOUS
<1>1. SessionsTypeOK
  BY SessionsAssumption DEF SessionsInit, SessionsTypeOK, Hashes, Tokens
<1>2. /\ \A r \in Refreshes : RefreshFits(r)
      /\ \A l \in Logouts : LogoutFits(l)
      /\ \A c \in Cleaners : CleanupFits(c)
  BY DEF SessionsInit, RefreshFits, LogoutFits, CleanupFits, Calm
<1> QED
  BY <1>1, <1>2 DEF SessionsInv, SessionsInit, Replaced, Revocable

LEMMA SessionsTypeNext ==
  ASSUME SessionsTypeOK, [SessionsNext]_sessionsVars
  PROVE  SessionsTypeOK'
<1> USE SessionsAssumption DEF SessionsTypeOK, sessionVars, cleanupVars
<1>1. CASE ClockTick
  BY <1>1 DEF ClockTick
<1>2. ASSUME NEW s \in SessionIds, CreateSession(s) PROVE SessionsTypeOK'
  BY <1>2 DEF CreateSession, Hashes
<1>3. ASSUME NEW r \in Refreshes, NEW s \in SessionIds, NEW t \in Tokens, RefreshRead(r, s, t)
      PROVE  SessionsTypeOK'
  <2>1. /\ [stage |-> "revoke", id |-> s, moved |-> FALSE] \in Refresh
        /\ [stage |-> "read", id |-> s, token |-> t, seen |-> hash[s]] \in Refresh
    BY DEF Refresh
  <2>2. refresh' \in [Refreshes -> Refresh \cup {Calm}]
    BY <1>3, <2>1 DEF RefreshRead
  <2> QED
    BY <1>3, <2>2 DEF RefreshRead
<1>4. ASSUME NEW r \in Refreshes, RefreshRevoke(r) PROVE SessionsTypeOK'
  BY <1>4 DEF RefreshRevoke, Refresh, Calm
<1>5. ASSUME NEW r \in Refreshes, RefreshRotate(r) PROVE SessionsTypeOK'
  <2> DEFINE s == refresh[r].id
             t == refresh[r].token
             h == refresh[r].seen
  <2>1. s \in SessionIds /\ t \in Tokens /\ h \in Hashes
    BY <1>5 DEF RefreshRotate, Refresh, Calm
  <2>2. hash[s] + 1 \in Hashes
    <3>1. hash[s] \in Hashes /\ hash[s] < MaxHash /\ MaxHash \in Nat
      BY <1>5, <2>1 DEF RefreshRotate
    <3> QED
      BY <3>1 DEF Hashes
  <2>3. /\ [replaced[s] EXCEPT ![h] = @ + 1] \in [Hashes -> Nat]
        /\ [exchanged[s] EXCEPT ![t] = @ + 1] \in [Tokens -> Nat]
    BY <2>1
  <2>4. /\ hash' \in [SessionIds -> Hashes]
        /\ replaced' \in [SessionIds -> [Hashes -> Nat]]
        /\ exchanged' \in [SessionIds -> [Tokens -> Nat]]
    <3>1. CASE UNCHANGED <<hash, replaced, exchanged>>
      BY <3>1
    <3>2. CASE Rotate(s, refresh[r])
      <4>1. /\ hash' = [hash EXCEPT ![s] = hash[s] + 1]
            /\ replaced' = [replaced EXCEPT ![s] = [replaced[s] EXCEPT ![h] = @ + 1]]
            /\ exchanged' = [exchanged EXCEPT ![s] = [exchanged[s] EXCEPT ![t] = @ + 1]]
        BY <3>2 DEF Rotate
      <4> QED
        BY <2>1, <2>2, <2>3, <4>1
    <3> QED
      BY <1>5, <3>1, <3>2 DEF RefreshRotate
  <2> QED
    BY <1>5, <2>4 DEF RefreshRotate
<1>6. ASSUME NEW l \in Logouts, NEW s \in SessionIds, LogoutRead(l, s)
      PROVE  SessionsTypeOK'
  BY <1>6 DEF LogoutRead, Logout
<1>7. ASSUME NEW l \in Logouts, LogoutWrite(l) PROVE SessionsTypeOK'
  BY <1>7 DEF LogoutWrite, Logout, Calm
<1>8. ASSUME NEW c \in Cleaners, CleanupStart(c) PROVE SessionsTypeOK'
  BY <1>8 DEF CleanupStart, Cleanup
<1>9. ASSUME NEW c \in Cleaners, CleanupFind(c) PROVE SessionsTypeOK'
  <2>1. cleanup[c].now \in Nat
    BY <1>9 DEF CleanupFind, Cleanup, Calm
  <2>2. ASSUME NEW ids \in SUBSET SessionIds
        PROVE  [stage |-> "found", now |-> cleanup[c].now, ids |-> ids] \in Cleanup
    BY <2>1 DEF Cleanup
  <2>3. cleanup' \in [Cleaners -> Cleanup \cup {Calm}]
    <3>1. CASE CleanupDone(c)
      BY <3>1 DEF CleanupDone
    <3>2. ASSUME NEW ids \in SUBSET ExpiredSessions(cleanup[c].now),
                 cleanup' = [cleanup EXCEPT ![c] =
                   [stage |-> "found", now |-> cleanup[c].now, ids |-> ids]]
          PROVE  cleanup' \in [Cleaners -> Cleanup \cup {Calm}]
      <4>1. ids \in SUBSET SessionIds
        BY <3>2 DEF ExpiredSessions
      <4> QED
        BY <2>2, <3>2, <4>1
    <3> QED
      BY <1>9, <3>1, <3>2 DEF CleanupFind
  <2>4. cleanupLock' \in Cleaners \cup {NoCleaner}
    BY <1>9 DEF CleanupFind, CleanupDone
  <2>5. UNCHANGED <<clock, sessionVars, refresh, logout, failures>>
    BY <1>9 DEF CleanupFind
  <2> QED
    BY <2>3, <2>4, <2>5
<1>10. ASSUME NEW c \in Cleaners, CleanupRevoke(c) PROVE SessionsTypeOK'
  <2>1. cleanup[c].now \in Nat /\ cleanup[c].ids \in SUBSET SessionIds
    BY <1>10 DEF CleanupRevoke, Cleanup, Calm
  <2>2. [stage |-> "scanning", now |-> cleanup[c].now] \in Cleanup
    BY <2>1 DEF Cleanup
  <2>3. cleanup' \in [Cleaners -> Cleanup \cup {Calm}]
    BY <1>10, <2>2 DEF CleanupRevoke, CleanupDone
  <2> QED
    BY <1>10, <2>1, <2>3 DEF CleanupRevoke, CleanupDone
<1>11. ASSUME NEW c \in Cleaners, CleanupStop(c) PROVE SessionsTypeOK'
  BY <1>11 DEF CleanupStop, CleanupDone, Calm
<1>12. CASE CleanupLockExpire
  BY <1>12 DEF CleanupLockExpire
<1>13. ASSUME NEW r \in Refreshes, NEW s \in SessionIds, RefreshMoved(r, s)
       PROVE  SessionsTypeOK'
  BY <1>13 DEF RefreshMoved, Refresh
<1>14. CASE UNCHANGED sessionsVars
  BY <1>14 DEF sessionsVars
<1> QED
  BY <1>1, <1>2, <1>3, <1>4, <1>5, <1>6, <1>7, <1>8, <1>9, <1>10, <1>11, <1>12, <1>13, <1>14
  DEF SessionsNext, CleanupStep

\* One step per action, and under it the parts that the action can disturb.
LEMMA SessionsInvNext ==
  ASSUME SessionsInv, [SessionsNext]_sessionsVars
  PROVE  SessionsInv'
<1>0. SessionsTypeOK /\ SessionsTypeOK'
  BY SessionsTypeNext DEF SessionsInv
<1> USE <1>0, SessionsAssumption
     DEF SessionsInv, SessionsTypeOK, sessionVars, cleanupVars
<1>1. CASE ClockTick
  <2>1. clock \in Nat /\ clock' = clock + 1 /\ UNCHANGED <<sessionVars, refresh, logout, cleanup>>
    BY <1>1 DEF ClockTick
  <2>2. \A s \in SessionIds : expires[s] <= clock => expires'[s] <= clock'
    BY <2>1
  <2>3. \A s \in revoked' : Revocable(s)'
    BY <2>1, <2>2 DEF Revocable
  <2>4. \A r \in Refreshes : RefreshFits(r)'
    BY <2>1, <2>2 DEF RefreshFits, Refresh, Calm
  <2>5. \A c \in Cleaners : CleanupFits(c)'
    BY <2>1, <2>2 DEF CleanupFits, Cleanup, Calm
  <2>6. /\ \A s \in SessionIds : Replaced(s)'
        /\ \A l \in Logouts : LogoutFits(l)'
    BY <2>1 DEF Replaced, LogoutFits
  <2> QED
    BY <2>3, <2>4, <2>5, <2>6
<1>2. ASSUME NEW s \in SessionIds, CreateSession(s) PROVE SessionsInv'
  <2>1. \A t \in SessionIds : hash[t] # 0 => hash'[t] = hash[t] /\ expires'[t] = expires[t]
    BY <1>2 DEF CreateSession
  <2>2. \A t \in SessionIds : hash[t] <= hash'[t]
    BY <1>2 DEF CreateSession, Hashes
  <2>3. \A t \in SessionIds : Replaced(t)'
    BY <1>2, <2>2 DEF CreateSession, Replaced, Hashes
  <2>4. \A t \in revoked' : Revocable(t)'
    BY <1>2, <2>1 DEF CreateSession, Revocable
  <2>5. \A r \in Refreshes : RefreshFits(r)'
    BY <1>2, <2>1 DEF CreateSession, RefreshFits, Refresh, Calm
  <2>6. \A l \in Logouts : LogoutFits(l)'
    BY <1>2, <2>1 DEF CreateSession, LogoutFits, Logout, Calm
  <2>7. \A c \in Cleaners : CleanupFits(c)'
    BY <1>2, <2>1 DEF CreateSession, CleanupFits, Cleanup, Calm
  <2> QED
    BY <2>3, <2>4, <2>5, <2>6, <2>7
<1>3. ASSUME NEW r \in Refreshes, NEW s \in SessionIds, NEW t \in Tokens, RefreshRead(r, s, t)
      PROVE  SessionsInv'
  <2>1. hash[s] # 0
    BY <1>3 DEF RefreshRead, Accepts
  <2>2. \A q \in Refreshes : RefreshFits(q)'
    BY <1>3, <2>1 DEF RefreshRead, RefreshFits
  <2> QED
    BY <1>3, <2>2 DEF RefreshRead, Replaced, Revocable, LogoutFits, CleanupFits
<1>4. ASSUME NEW r \in Refreshes, RefreshRevoke(r) PROVE SessionsInv'
  <2>1. \A q \in Refreshes : RefreshFits(q)'
    BY <1>4 DEF RefreshRevoke, RefreshFits, Calm
  <2>2. \A s \in revoked' : Revocable(s)'
    BY <1>4 DEF RefreshRevoke, Revocable, RefreshFits
  <2> QED
    BY <1>4, <2>1, <2>2 DEF RefreshRevoke, Replaced, LogoutFits, CleanupFits
<1>5. ASSUME NEW r \in Refreshes, RefreshRotate(r) PROVE SessionsInv'
  <2> DEFINE t == refresh[r].id
             h == refresh[r].seen
  <2>0. t \in SessionIds /\ h \in Hashes
    BY <1>5 DEF RefreshRotate, Refresh, Calm
  <2>1. \A s \in SessionIds : hash[s] # 0 => hash'[s] # 0
    <3>1. \A s \in SessionIds : hash[s] \in Nat
      BY DEF Hashes
    <3> QED
      BY <1>5, <2>0, <3>1 DEF RefreshRotate, Rotate
  <2>2. \A s \in SessionIds : Replaced(s)'
    <3>1. CASE UNCHANGED <<hash, replaced>>
      BY <3>1 DEF Replaced
    <3>2. ASSUME hash[t] = h, hash' = [hash EXCEPT ![t] = @ + 1],
                 replaced' = [replaced EXCEPT ![t][h] = @ + 1],
                 NEW s \in SessionIds, NEW g \in Hashes
          PROVE  replaced'[s][g] <= 1 /\ (hash'[s] <= g => replaced'[s][g] = 0)
      <4>1. /\ replaced[s][g] <= 1 /\ (hash[s] <= g => replaced[s][g] = 0)
            /\ replaced[s][g] \in Nat /\ hash[s] \in Nat /\ g \in Nat
        BY DEF Replaced, Hashes
      <4>2. CASE s = t /\ g = h
        BY <2>0, <3>2, <4>1, <4>2
      <4>3. CASE s # t \/ g # h
        <5>1. replaced'[s][g] = replaced[s][g]
          BY <2>0, <3>2, <4>3
        <5>2. hash'[s] = hash[s] \/ hash'[s] = hash[s] + 1
          BY <2>0, <3>2
        <5> QED
          BY <4>1, <5>1, <5>2
      <4> QED
        BY <4>2, <4>3
    <3> QED
      BY <1>5, <3>1, <3>2 DEF RefreshRotate, Rotate, Replaced
  <2>3. \A s \in revoked' : Revocable(s)'
    BY <1>5, <2>1 DEF RefreshRotate, Revocable
  <2>4. \A q \in Refreshes : RefreshFits(q)'
    BY <1>5, <2>1 DEF RefreshRotate, RefreshFits, Refresh, Calm
  <2>5. \A l \in Logouts : LogoutFits(l)'
    BY <1>5, <2>1 DEF RefreshRotate, LogoutFits, Logout, Calm
  <2>6. \A c \in Cleaners : CleanupFits(c)'
    BY <1>5, <2>1 DEF RefreshRotate, CleanupFits, Cleanup, Calm
  <2> QED
    BY <2>2, <2>3, <2>4, <2>5, <2>6
<1>6. ASSUME NEW l \in Logouts, NEW s \in SessionIds, LogoutRead(l, s)
      PROVE  SessionsInv'
  BY <1>6 DEF LogoutRead, LogoutFits, Replaced, Revocable, RefreshFits, CleanupFits
<1>7. ASSUME NEW l \in Logouts, LogoutWrite(l) PROVE SessionsInv'
  <2>1. logout[l].stage = "read"
    BY <1>7 DEF LogoutWrite, Logout, Calm
  <2>2. \A s \in revoked' : Revocable(s)'
    BY <1>7, <2>1 DEF LogoutWrite, Revocable, LogoutFits
  <2> QED
    BY <1>7, <2>2 DEF LogoutWrite, LogoutFits, Replaced, RefreshFits, CleanupFits, Calm
<1>8. ASSUME NEW c \in Cleaners, CleanupStart(c) PROVE SessionsInv'
  BY <1>8 DEF CleanupStart, LogoutFits, Replaced, Revocable, RefreshFits, CleanupFits
<1>9. ASSUME NEW c \in Cleaners, CleanupFind(c) PROVE SessionsInv'
  <2>1. cleanup[c].now <= clock /\ cleanup[c].now \in Nat
    BY <1>9 DEF CleanupFind, CleanupFits, Cleanup, Calm
  <2>2. CleanupFits(c)'
    <3>1. CASE CleanupDone(c)
      BY <3>1 DEF CleanupDone, CleanupFits, Calm
    <3>2. ASSUME NEW ids \in SUBSET ExpiredSessions(cleanup[c].now),
                 cleanup' = [cleanup EXCEPT ![c] =
                   [stage |-> "found", now |-> cleanup[c].now, ids |-> ids]]
          PROVE  CleanupFits(c)'
      <4>1. \A s \in ids : s \in SessionIds /\ hash[s] # 0 /\ expires[s] <= clock
        BY <2>1, <3>2 DEF ExpiredSessions
      <4>2. UNCHANGED <<clock, sessionVars>>
        BY <1>9 DEF CleanupFind
      <4> QED
        BY <2>1, <3>2, <4>1, <4>2 DEF CleanupFits
    <3> QED
      BY <1>9, <3>1, <3>2 DEF CleanupFind
  <2>3. \A d \in Cleaners : CleanupFits(d)'
    BY <1>9, <2>2 DEF CleanupFind, CleanupDone, CleanupFits
  <2>4. UNCHANGED <<clock, sessionVars, refresh, logout, failures>>
    BY <1>9 DEF CleanupFind
  <2> QED
    BY <2>3, <2>4 DEF Replaced, Revocable, RefreshFits, LogoutFits
<1>10. ASSUME NEW c \in Cleaners, CleanupRevoke(c) PROVE SessionsInv'
  <2>1. \A d \in Cleaners : CleanupFits(d)'
    BY <1>10 DEF CleanupRevoke, CleanupDone, CleanupFits, Calm
  <2>2. \A s \in revoked' : Revocable(s)'
    BY <1>10 DEF CleanupRevoke, CleanupFits, Revocable
  <2> QED
    BY <1>10, <2>1, <2>2 DEF CleanupRevoke, Replaced, RefreshFits, LogoutFits
<1>11. ASSUME NEW c \in Cleaners, CleanupStop(c) PROVE SessionsInv'
  <2>1. \A d \in Cleaners : CleanupFits(d)'
    BY <1>11 DEF CleanupStop, CleanupDone, CleanupFits, Calm
  <2> QED
    BY <1>11, <2>1 DEF CleanupStop, Replaced, Revocable, RefreshFits, LogoutFits
<1>12. CASE CleanupLockExpire
  BY <1>12 DEF CleanupLockExpire, Replaced, Revocable, RefreshFits, LogoutFits, CleanupFits
<1>13. ASSUME NEW r \in Refreshes, NEW s \in SessionIds, RefreshMoved(r, s)
       PROVE  SessionsInv'
  <2>1. \A q \in Refreshes : RefreshFits(q)'
    BY <1>13 DEF RefreshMoved, RefreshFits
  <2> QED
    BY <1>13, <2>1 DEF RefreshMoved, Replaced, Revocable, LogoutFits, CleanupFits
<1>14. CASE UNCHANGED sessionsVars
  BY <1>14 DEF sessionsVars, Replaced, Revocable, RefreshFits, LogoutFits, CleanupFits
<1> QED
  BY <1>1, <1>2, <1>3, <1>4, <1>5, <1>6, <1>7, <1>8, <1>9, <1>10, <1>11, <1>12, <1>13, <1>14
  DEF SessionsNext, CleanupStep

LEMMA SessionsInvariant == SessionsSpec => []SessionsInv
BY SessionsInitInv, SessionsInvNext, PTL DEF SessionsSpec

\* The variables of the sessions have their types in every reachable state.
THEOREM SessionsTypeCorrect == SessionsSpec => []SessionsTypeOK
BY SessionsInvariant, PTL DEF SessionsInv

\* Of any number of refreshes that read the row with one hash, whichever tokens they
\* presented, at most one rotates.
THEOREM HashReplacedOnce == SessionsSpec => []OneRefreshWins
<1>1. SessionsInv => OneRefreshWins
  BY DEF SessionsInv, Replaced, OneRefreshWins
<1> QED
  BY <1>1, SessionsInvariant, PTL

\* No session is revoked before its time unless its user ended it.
THEOREM RevokedWithReason == SessionsSpec => []RevokedForReason
<1>1. SessionsInv => RevokedForReason
  BY DEF SessionsInv, Revocable, RevokedForReason
<1> QED
  BY <1>1, SessionsInvariant, PTL

\* A session that is revoked or over is given no other token, whatever is in flight.
THEOREM SessionsEndForGood == SessionsSpec => SessionEndsForGood
<1> DEFINE Kept(s) ==
      /\ s \in revoked => s \in revoked'
      /\ s \in revoked \/ (hash[s] # 0 /\ expires[s] <= clock) => hash'[s] = hash[s]
<1>1. ASSUME SessionsInv, [SessionsNext]_sessionsVars
      PROVE  [\A s \in SessionIds : Kept(s)]_sessionsVars
  <2> SUFFICES ASSUME NEW s \in SessionIds PROVE Kept(s)
    OBVIOUS
  <2> USE <1>1 DEF SessionsInv, SessionsTypeOK
  <2>1. s \in revoked => hash[s] # 0
    BY DEF Revocable
  <2>2. s \in revoked => s \in revoked'
    BY DEF SessionsNext, CleanupStep, ClockTick, CreateSession, RefreshRead, RefreshMoved,
           RefreshRevoke, RefreshRotate, LogoutRead, LogoutWrite, CleanupStart,
           CleanupFind, CleanupRevoke, CleanupStop, CleanupLockExpire, sessionsVars,
           sessionVars
  <2>3. ASSUME s \in revoked \/ (hash[s] # 0 /\ expires[s] <= clock)
        PROVE  hash'[s] = hash[s]
    <3>1. ASSUME NEW r \in Refreshes, RefreshRotate(r) PROVE hash'[s] = hash[s]
      BY <2>3, <3>1 DEF RefreshRotate, Rotate
    <3>2. ASSUME NEW t \in SessionIds, CreateSession(t) PROVE hash'[s] = hash[s]
      BY <2>1, <2>3, <3>2 DEF CreateSession
    <3>3. CASE UNCHANGED hash
      BY <3>3
    <3> QED
      BY <3>1, <3>2, <3>3 DEF SessionsNext, CleanupStep, ClockTick, RefreshRead,
           RefreshMoved, RefreshRevoke, LogoutRead, LogoutWrite, CleanupStart,
           CleanupFind, CleanupRevoke, CleanupStop, CleanupLockExpire, sessionsVars,
           sessionVars
  <2> QED
    BY <2>2, <2>3
<1> QED
  BY <1>1, SessionsInvariant, PTL DEF SessionsSpec, SessionEndsForGood

-----------------------------------------------------------------------------
\* OneTimeCodes.

\* The types of CodesTypeOK, those of the flags apart.
CodesShape ==
  /\ code \in Codes
  /\ made \in Codes
  /\ attempts \in Nat
  /\ rate \in Nat
  /\ watch \in [Connections -> {"off", "on", "changed"}]
  /\ stored \in Nat
  /\ verified \in Nat
  /\ vouched \in Nat
  /\ tokens \in SUBSET Nat
  /\ users \in Nat
  /\ verify \in [Verifiers -> Verification \cup {Quiet}]
  /\ send \in [Senders -> Sending \cup {Quiet}]
  /\ register \in [Registrations -> Registration \cup {Quiet}]

CodesFlags ==
  locked \in BOOLEAN /\ cooling \in BOOLEAN /\ rateEnds \in BOOLEAN /\ lost \in BOOLEAN

LEMMA CodesFlagsNext ==
  ASSUME CodesFlags, [CodesNext]_codesVars
  PROVE  CodesFlags'
<1> USE DEF CodesFlags
<1>1. CASE CodeExpire \/ AttemptsExpire \/ LockExpires \/ CooldownExpire \/ RateExpire
           \/ TokenExpire
  BY <1>1, Zenon DEF CodeExpire, AttemptsExpire, LockExpires, CooldownExpire, RateExpire,
     TokenExpire, codeVars, rateVars
<1>2. ASSUME NEW c \in Connections, OtherExec(c) PROVE CodesFlags'
  BY <1>2, Zenon DEF OtherExec, codeVars, rateVars
<1>3. ASSUME NEW s \in Senders, SendUnlocked(s) \/ SendCooldown(s) \/ SendCount(s)
      PROVE  CodesFlags'
  BY <1>3, Zenon DEF SendUnlocked, SendCooldown, SendCount, codeVars, rateVars
<1>4. ASSUME NEW s \in Senders, SendExpire(s) PROVE CodesFlags'
  <2>1. rateEnds' = TRUE \/ rateEnds' = FALSE
    BY <1>4, (rate > 0) \/ ~(rate > 0) DEF SendExpire
  <2> QED
    BY <1>4, <2>1, Zenon DEF SendExpire, codeVars
<1>5. ASSUME NEW s \in Senders, SendStore(s) \/ SendStop(s) PROVE CodesFlags'
  BY <1>5, Zenon DEF SendStore, SendStop, codeVars
<1>6. ASSUME NEW v \in Verifiers, VerifyFailure(v) PROVE CodesFlags'
  BY <1>6, Zenon DEF VerifyFailure, rateVars
<1>7. ASSUME NEW v \in Verifiers,
             \/ \E guess \in Codes : VerifyStart(v, guess)
             \/ VerifyWatch(v) \/ VerifyUnlocked(v) \/ VerifyCompare(v) \/ VerifyAbort(v)
             \/ VerifySuccess(v) \/ VerifyToken(v) \/ VerifyFirebase(v) \/ VerifyStop(v)
      PROVE  CodesFlags'
  BY <1>7, Zenon DEF VerifyStart, VerifyWatch, VerifyUnlocked, VerifyCompare, VerifyAbort,
     VerifySuccess, VerifyToken, VerifyFirebase, VerifyStop, codeVars, rateVars
<1>8. ASSUME NEW q \in Registrations,
             \/ \E n \in tokens : RegisterGet(q, n)
             \/ RegisterDelete(q) \/ RegisterFind(q) \/ RegisterCreate(q)
      PROVE  CodesFlags'
  BY <1>8, Zenon DEF RegisterGet, RegisterDelete, RegisterFind, RegisterCreate, codeVars,
     rateVars
<1>9. CASE UNCHANGED codesVars
  BY <1>9, Zenon DEF codesVars, codeVars, rateVars
<1> QED
  BY <1>1, <1>2, <1>3, <1>4, <1>5, <1>6, <1>7, <1>8, <1>9, Zenon DEF CodesNext

\* What Watch, Unwatch and Touch make of the watches.
LEMMA WatchType ==
  ASSUME CodesShape, NEW c \in Connections, Watch(c) \/ Unwatch(c) \/ Touch(c)
  PROVE  watch' \in [Connections -> {"off", "on", "changed"}]
BY DEF CodesShape, Watch, Unwatch, Touch

LEMMA AgainType ==
  ASSUME CodesShape, NEW v \in Verifiers, Again(v),
         verify[v].guess \in Codes, verify[v].try \in 1 .. Tries
  PROVE  verify' \in [Verifiers -> Verification \cup {Quiet}]
<1>1. verify[v].try < Tries =>
        [stage |-> "watching", guess |-> verify[v].guess, try |-> verify[v].try + 1]
          \in Verification
  BY CodesAssumption DEF Verification
<1> QED
  BY <1>1 DEF Again, VerifyStep, VerifyEnd, CodesShape

\* A sending or a verification runs on a connection.
LEMMA ConnectionType == \A x \in Verifiers \cup Senders : ConnectionOf[x] \in Connections
BY CodesAssumption

LEMMA SendShape ==
  ASSUME CodesShape, NEW s \in Senders,
         \/ SendUnlocked(s) \/ SendCooldown(s) \/ SendCount(s) \/ SendExpire(s)
         \/ SendStore(s) \/ SendStop(s)
  PROVE  CodesShape'
<1>1. /\ SendStep(s, "unlocked") \/ SendStep(s, "cooled") \/ SendStep(s, "first")
         \/ SendStep(s, "counted") \/ SendEnd(s) 
  BY DEF SendUnlocked, SendCooldown, SendCount, SendExpire, SendStore, SendStop
<1>2. send' \in [Senders -> Sending \cup {Quiet}]
  BY <1>1 DEF SendStep, SendEnd, Sending, CodesShape
<1>3. CASE SendStore(s)
  <2>1. made + 1 \in Codes
    BY <1>3, CodesAssumption DEF SendStore, CanSend, Codes, CodesShape
  <2>2. watch' \in [Connections -> {"off", "on", "changed"}]
    BY <1>3, WatchType, ConnectionType DEF SendStore
  <2>3. code' \in Codes /\ attempts' \in Nat /\ stored' \in Nat /\ made' \in Codes
    BY <1>3, <2>1 DEF SendStore, CodesShape
  <2> QED
    BY <1>2, <1>3, <2>2, <2>3 DEF SendStore, CodesShape, tokenVars
<1>4. CASE SendCount(s)
  <2>1. rate' \in Nat
    BY <1>4 DEF SendCount, CodesShape
  <2> QED
    BY <1>2, <1>4, <2>1 DEF SendCount, CodesShape, codeVars, tokenVars
<1> QED
  BY <1>2, <1>3, <1>4 DEF SendUnlocked, SendCooldown, SendExpire, SendStop, CodesShape,
     codeVars, rateVars, tokenVars

\* The fields a verification has at each of its stages.
LEMMA VerifyFields ==
  ASSUME CodesShape, NEW v \in Verifiers
  PROVE  /\ verify[v].stage \in {"watching", "watched", "unlocked", "compared"} =>
              verify[v].guess \in Codes /\ verify[v].try \in 1 .. Tries
         /\ verify[v].stage = "verified" => verify[v].number \in Nat
         /\ verify[v].stage \in {"watching", "watched", "unlocked"} =>
              verify[v] = [stage |-> verify[v].stage, guess |-> verify[v].guess,
                           try |-> verify[v].try]
<1>1. verify[v] \in Verification \cup {Quiet}
  BY DEF CodesShape
<1> QED
  BY <1>1 DEF Verification, Quiet

LEMMA VerifyRestage ==
  ASSUME CodesShape, NEW v \in Verifiers, NEW stage \in {"watched", "unlocked"},
         verify[v].stage \in {"watching", "watched", "unlocked"}
  PROVE  [verify[v] EXCEPT !.stage = stage] \in Verification
<1>1. /\ verify[v] = [stage |-> verify[v].stage, guess |-> verify[v].guess,
                      try |-> verify[v].try]
      /\ verify[v].guess \in Codes /\ verify[v].try \in 1 .. Tries
  BY VerifyFields
<1>2. [verify[v] EXCEPT !.stage = stage] =
        [stage |-> stage, guess |-> verify[v].guess, try |-> verify[v].try]
  BY <1>1
<1> QED
  BY <1>1, <1>2 DEF Verification

LEMMA VerifyStepShape ==
  ASSUME CodesShape, NEW v \in Verifiers, NEW r \in Verification \cup {Quiet},
         VerifyStep(v, r)
  PROVE  verify' \in [Verifiers -> Verification \cup {Quiet}]
BY DEF CodesShape, VerifyStep

LEMMA VerifyShape ==
  ASSUME CodesShape, NEW v \in Verifiers,
         \/ \E guess \in Codes : VerifyStart(v, guess)
         \/ VerifyWatch(v) \/ VerifyUnlocked(v) \/ VerifyCompare(v) \/ VerifyAbort(v)
         \/ VerifySuccess(v) \/ VerifyFailure(v) \/ VerifyToken(v) \/ VerifyFirebase(v)
         \/ VerifyStop(v)
  PROVE  CodesShape'
<1> DEFINE c == ConnectionOf[v]
           W == watch' \in [Connections -> {"off", "on", "changed"}]
           V == verify' \in [Verifiers -> Verification \cup {Quiet}]
<1>c. c \in Connections
  BY ConnectionType
<1>q. VerifyEnd(v) => V
  BY VerifyStepShape DEF VerifyEnd
<1>w. Watch(c) \/ Unwatch(c) \/ Touch(c) \/ UNCHANGED watch => W
  BY <1>c, WatchType DEF CodesShape
<1>0. Codes \subseteq Nat /\ 1 \in 1 .. Tries /\ NoCode \in Codes
  BY CodesAssumption DEF Codes, NoCode
<1> HIDE DEF c, W, V
<1>1. ASSUME NEW guess \in Codes, VerifyStart(v, guess) PROVE CodesShape'
  <2>1. [stage |-> "watched", guess |-> guess, try |-> 1] \in Verification
    BY <1>0 DEF Verification
  <2>2. W /\ V
    BY <1>1, <1>w, <2>1, VerifyStepShape DEF VerifyStart, c, V
  <2> QED
    BY <1>1, <2>2 DEF VerifyStart, CodesShape, codeVars, rateVars, tokenVars, W, V
<1>2. CASE VerifyWatch(v)
  <2>1. [verify[v] EXCEPT !.stage = "watched"] \in Verification
    BY <1>2, VerifyRestage DEF VerifyWatch
  <2>2. W /\ V
    BY <1>2, <1>w, <2>1, VerifyStepShape DEF VerifyWatch, c, V
  <2> QED
    BY <1>2, <2>2 DEF VerifyWatch, CodesShape, codeVars, rateVars, tokenVars, W, V
<1>3. CASE VerifyUnlocked(v)
  <2>1. [verify[v] EXCEPT !.stage = "unlocked"] \in Verification
    BY <1>3, VerifyRestage DEF VerifyUnlocked
  <2>2. W /\ V
    BY <1>3, <1>w, <1>q, <2>1, VerifyStepShape DEF VerifyUnlocked, c, V
  <2> QED
    BY <1>3, <2>2 DEF VerifyUnlocked, CodesShape, codeVars, rateVars, tokenVars, W, V
<1>4. CASE VerifyCompare(v)
  <2>1. [stage |-> "compared", guess |-> verify[v].guess, try |-> verify[v].try,
         seen |-> code] \in Verification
    BY <1>4, VerifyFields DEF VerifyCompare, Verification, CodesShape
  <2>2. W /\ V
    BY <1>4, <1>w, <1>q, <2>1, VerifyStepShape DEF VerifyCompare, c, V
  <2> QED
    BY <1>4, <2>2 DEF VerifyCompare, CodesShape, codeVars, rateVars, tokenVars, W, V
<1>5. CASE VerifyAbort(v)
  <2>1. W /\ V
    BY <1>5, <1>w, AgainType, VerifyFields DEF VerifyAbort, c, V
  <2> QED
    BY <1>5, <2>1 DEF VerifyAbort, CodesShape, codeVars, rateVars, tokenVars, W, V
<1>6. CASE VerifySuccess(v)
  <2>1. verified + 1 \in Nat
    BY DEF CodesShape
  <2>2. [stage |-> "verified", number |-> verified + 1] \in Verification
    BY <2>1 DEF Verification
  <2>3. Again(v) => V
    BY <1>6, AgainType, VerifyFields DEF VerifySuccess, Executes, V
  <2>4. W /\ V
    BY <1>6, <1>w, <2>2, <2>3, VerifyStepShape DEF VerifySuccess, c, V
  <2>5. code' \in Codes /\ attempts' \in Nat /\ verified' \in Nat
    BY <1>6, <1>0, <2>1 DEF VerifySuccess, ConsumeCode, CodesShape
  <2> QED
    BY <1>6, <2>4, <2>5 DEF VerifySuccess, CodesShape, rateVars, W, V
<1>7. CASE VerifyFailure(v)
  <2>1. W /\ V
    BY <1>7, <1>w, <1>q DEF VerifyFailure, c
  <2>2. code' \in Codes /\ attempts' \in Nat
    BY <1>7, <1>0 DEF VerifyFailure, CodesShape
  <2> QED
    BY <1>7, <2>1, <2>2 DEF VerifyFailure, CodesShape, rateVars, tokenVars, W, V
<1>8. CASE VerifyToken(v)
  <2>1. V /\ tokens' \in SUBSET Nat
    BY <1>8, <1>q, VerifyFields DEF VerifyToken, CodesShape
  <2> QED
    BY <1>8, <2>1 DEF VerifyToken, CodesShape, codeVars, rateVars, V
<1>9. CASE VerifyFirebase(v)
  <2>1. vouched + 1 \in Nat /\ MaxCodes + vouched + 1 \in Nat
    BY CodesAssumption DEF CodesShape
  <2>2. [stage |-> "verified", number |-> MaxCodes + vouched + 1] \in Verification
    BY <2>1 DEF Verification
  <2>3. V
    BY <1>9, <2>2, VerifyStepShape DEF VerifyFirebase, V
  <2> QED
    BY <1>9, <2>1, <2>3 DEF VerifyFirebase, CodesShape, codeVars, rateVars, V
<1>10. CASE VerifyStop(v)
  <2>1. W /\ V
    BY <1>10, <1>w, <1>q DEF VerifyStop, c
  <2> QED
    BY <1>10, <2>1 DEF VerifyStop, CodesShape, codeVars, rateVars, tokenVars, W, V
<1> QED
  BY <1>1, <1>2, <1>3, <1>4, <1>5, <1>6, <1>7, <1>8, <1>9, <1>10

LEMMA RegisterShape ==
  ASSUME CodesShape, NEW q \in Registrations,
         \/ \E n \in tokens : RegisterGet(q, n)
         \/ RegisterDelete(q) \/ RegisterFind(q) \/ RegisterCreate(q)
  PROVE  CodesShape'
<1>1. ASSUME NEW n \in tokens, RegisterGet(q, n) PROVE CodesShape'
  <2>1. [stage |-> "got", number |-> n] \in Registration
    BY DEF Registration, CodesShape
  <2> QED
    BY <1>1, <2>1 DEF RegisterGet, RegisterStep, CodesShape, codeVars, rateVars, tokenVars
<1>2. [stage |-> "deleted"] \in Registration /\ [stage |-> "free"] \in Registration
  BY DEF Registration
<1>3. CASE RegisterDelete(q)
  <2>1. tokens' \in SUBSET Nat
    BY <1>3 DEF RegisterDelete, CodesShape
  <2> QED
    BY <1>3, <1>2, <2>1 DEF RegisterDelete, RegisterStep, CodesShape, codeVars, rateVars
<1>4. CASE RegisterFind(q)
  BY <1>4, <1>2 DEF RegisterFind, RegisterStep, CodesShape, codeVars, rateVars, tokenVars
<1>5. CASE RegisterCreate(q)
  BY <1>5 DEF RegisterCreate, RegisterStep, CodesShape, codeVars, rateVars, tokenVars
<1> QED
  BY <1>1, <1>3, <1>4, <1>5

LEMMA CodesTypeNext ==
  ASSUME CodesTypeOK, [CodesNext]_codesVars
  PROVE  CodesTypeOK'
<1>1. CodesShape /\ CodesFlags
  BY Zenon DEF CodesTypeOK, CodesShape, CodesFlags
<1>6. CodesFlags'
  BY <1>1, CodesFlagsNext
<1>7. SUFFICES CodesShape'
  BY <1>6, Zenon DEF CodesTypeOK, CodesShape, CodesFlags
<1>2. CASE CodeExpire \/ AttemptsExpire \/ LockExpires \/ CooldownExpire \/ RateExpire
           \/ TokenExpire
  <2>1. NoCode \in Codes
    BY CodesAssumption DEF Codes, NoCode
  <2>2. CASE CodeExpire
    BY <1>1, <2>1, <2>2 DEF CodeExpire, rateVars, tokenVars, CodesShape
  <2>3. CASE AttemptsExpire
    BY <1>1, <2>3 DEF AttemptsExpire, rateVars, tokenVars, CodesShape
  <2>4. CASE LockExpires \/ CooldownExpire
    BY <1>1, <2>4, Zenon DEF LockExpires, CooldownExpire, codeVars, rateVars, tokenVars,
       CodesShape
  <2>6. CASE RateExpire
    <3>1. rate' \in Nat
      BY <2>6 DEF RateExpire
    <3> QED
      BY <1>1, <2>6, <3>1, Zenon DEF RateExpire, codeVars, tokenVars, CodesShape
  <2>5. CASE TokenExpire
    <3>1. tokens' \in SUBSET Nat
      BY <1>1, <2>5 DEF TokenExpire, CodesShape
    <3> QED
      BY <1>1, <2>5, <3>1 DEF TokenExpire, codeVars, rateVars, CodesShape
  <2> QED
    BY <1>2, <2>2, <2>3, <2>4, <2>5, <2>6
<1>3. ASSUME NEW c \in Connections, OtherExec(c) PROVE CodesShape'
  <2>1. watch' \in [Connections -> {"off", "on", "changed"}]
    BY <1>1, <1>3, WatchType DEF OtherExec
  <2> QED
    BY <1>1, <1>3, <2>1 DEF OtherExec, codeVars, rateVars, tokenVars, CodesShape
<1>4. CASE UNCHANGED codesVars
  BY <1>1, <1>4 DEF codesVars, codeVars, rateVars, tokenVars, CodesShape
<1> QED
  BY <1>1, <1>2, <1>3, <1>4, SendShape, VerifyShape, RegisterShape, Zenon DEF CodesNext

\* Something that only a verification brings about.
Trace ==
  \/ users = 1
  \/ tokens # {}
  \/ \E v \in Verifiers : verify[v].stage = "verified"
  \/ \E q \in Registrations : register[q] # Quiet

Traced == Trace => verified + vouched > 0

CodesInv ==
  /\ CodesTypeOK
  /\ CodeVerifiesOnce
  /\ LiveCodeHasAttempts
  /\ RateWindowEnds
  /\ users <= 1
  /\ Traced

LEMMA CodesInitInv == CodesInit => CodesInv
<1> SUFFICES ASSUME CodesInit PROVE CodesInv
  OBVIOUS
<1>1. CodesShape
  BY CodesAssumption DEF CodesInit, CodesShape, Codes, NoCode
<1>2. CodesFlags
  BY Zenon DEF CodesInit, CodesFlags
<1>3. CodesTypeOK
  BY <1>1, <1>2, Zenon DEF CodesTypeOK, CodesShape, CodesFlags
<1>4. CodeVerifiesOnce /\ LiveCodeHasAttempts /\ RateWindowEnds /\ users <= 1 /\ Traced
  BY DEF CodesInit, CodeVerifiesOnce, LiveCodeHasAttempts, RateWindowEnds, Traced, Trace,
     Quiet
<1> QED
  BY <1>3, <1>4 DEF CodesInv

\* The steps that store, consume or delete a code or count its attempts; the others leave
\* all of that alone.
LEMMA CodeSteps ==
  ASSUME [CodesNext]_codesVars
  PROVE  \/ CodeExpire \/ AttemptsExpire
         \/ \E s \in Senders : SendStore(s)
         \/ \E v \in Verifiers : VerifySuccess(v) \/ VerifyFailure(v)
         \/ UNCHANGED <<code, attempts, stored, verified>>
<1> USE DEF codeVars, rateVars, tokenVars
<1>1. ASSUME LockExpires \/ CooldownExpire \/ RateExpire \/ TokenExpire
             \/ \E c \in Connections : OtherExec(c)
      PROVE  UNCHANGED <<code, attempts, stored, verified>>
  BY <1>1, Zenon DEF LockExpires, CooldownExpire, RateExpire, TokenExpire, OtherExec
<1>2. ASSUME NEW s \in Senders,
             \/ SendUnlocked(s) \/ SendCooldown(s) \/ SendCount(s) \/ SendExpire(s)
             \/ SendStop(s)
      PROVE  UNCHANGED <<code, attempts, stored, verified>>
  BY <1>2, Zenon DEF SendUnlocked, SendCooldown, SendCount, SendExpire, SendStop
<1>3. ASSUME NEW v \in Verifiers,
             \/ \E guess \in Codes : VerifyStart(v, guess)
             \/ VerifyWatch(v) \/ VerifyUnlocked(v) \/ VerifyCompare(v) \/ VerifyAbort(v)
             \/ VerifyToken(v) \/ VerifyFirebase(v) \/ VerifyStop(v)
      PROVE  UNCHANGED <<code, attempts, stored, verified>>
  BY <1>3, Zenon DEF VerifyStart, VerifyWatch, VerifyUnlocked, VerifyCompare, VerifyAbort,
     VerifyToken, VerifyFirebase, VerifyStop
<1>4. ASSUME NEW q \in Registrations,
             \/ \E n \in tokens : RegisterGet(q, n)
             \/ RegisterDelete(q) \/ RegisterFind(q) \/ RegisterCreate(q)
      PROVE  UNCHANGED <<code, attempts, stored, verified>>
  BY <1>4, Zenon DEF RegisterGet, RegisterDelete, RegisterFind, RegisterCreate
<1>5. CASE UNCHANGED codesVars
  BY <1>5, Zenon DEF codesVars
<1> QED
  BY <1>1, <1>2, <1>3, <1>4, <1>5, Zenon DEF CodesNext

LEMMA CodeVerifiesOnceNext ==
  ASSUME CodesInv, [CodesNext]_codesVars
  PROVE  CodeVerifiesOnce' /\ LiveCodeHasAttempts'
<1>1. /\ code \in Nat /\ made \in Nat /\ attempts \in Nat /\ stored \in Nat
      /\ verified \in Nat /\ MaxAttempts \in Nat \ {0}
  BY CodesAssumption DEF CodesInv, CodesTypeOK, Codes
<1>2. /\ verified + (IF code = NoCode THEN 0 ELSE 1) <= stored
      /\ code # NoCode => attempts < MaxAttempts
  BY DEF CodesInv, CodeVerifiesOnce, LiveCodeHasAttempts
<1> USE DEF CodeVerifiesOnce, LiveCodeHasAttempts, NoCode
<1>3. CASE CodeExpire
  BY <1>1, <1>2, <1>3 DEF CodeExpire, tokenVars
<1>4. CASE AttemptsExpire
  BY <1>1, <1>2, <1>4 DEF AttemptsExpire, tokenVars
<1>5. ASSUME NEW s \in Senders, SendStore(s)
      PROVE  CodeVerifiesOnce' /\ LiveCodeHasAttempts'
  BY <1>1, <1>2, <1>5 DEF SendStore, tokenVars
<1>6. ASSUME NEW v \in Verifiers, VerifySuccess(v)
      PROVE  CodeVerifiesOnce' /\ LiveCodeHasAttempts'
  BY <1>1, <1>2, <1>6 DEF VerifySuccess, ConsumeCode
<1>7. ASSUME NEW v \in Verifiers, VerifyFailure(v)
      PROVE  CodeVerifiesOnce' /\ LiveCodeHasAttempts'
  BY <1>1, <1>2, <1>7 DEF VerifyFailure, tokenVars
<1>8. CASE UNCHANGED <<code, attempts, stored, verified>>
  BY <1>2, <1>8
<1> QED
  BY <1>3, <1>4, <1>5, <1>6, <1>7, <1>8, CodeSteps

LEMMA RateWindowEndsNext ==
  ASSUME CodesInv, [CodesNext]_codesVars
  PROVE  RateWindowEnds'
<1>1. rate \in Nat /\ RequestLimit \in Nat \ {0}
      /\ send \in [Senders -> Sending \cup {Quiet}]
  BY CodesAssumption DEF CodesInv, CodesTypeOK
<1>2. rate > 0 => rateEnds \/ lost \/ \E s \in Senders : send[s].stage = "first"
  BY DEF CodesInv, RateWindowEnds
<1> USE DEF RateWindowEnds, SendStep, SendEnd
<1>3. CASE UNCHANGED <<rate, rateEnds, lost, send>>
  BY <1>2, <1>3
<1>4. ASSUME CodeExpire \/ AttemptsExpire \/ LockExpires \/ CooldownExpire \/ TokenExpire
             \/ \E c \in Connections : OtherExec(c)
      PROVE  UNCHANGED <<rate, rateEnds, lost, send>>
  BY <1>4, Zenon DEF CodeExpire, AttemptsExpire, LockExpires, CooldownExpire, TokenExpire,
     OtherExec, rateVars
<1>5. CASE RateExpire
  BY <1>5 DEF RateExpire
<1>6. ASSUME NEW s \in Senders,
             SendUnlocked(s) \/ SendCooldown(s) \/ SendStore(s)
      PROVE  RateWindowEnds'
  <2>1. rate' = rate /\ rateEnds' = rateEnds /\ lost' = lost
    BY <1>6, Zenon DEF SendUnlocked, SendCooldown, SendStore, rateVars
  <2>3. send[s].stage # "first"
    BY <1>6 DEF SendUnlocked, SendCooldown, SendStore, Quiet
  <2>2. \A t \in Senders : t # s => send'[t] = send[t]
    BY <1>1, <1>6 DEF SendUnlocked, SendCooldown, SendStore
  <2> QED
    BY <1>2, <2>1, <2>2, <2>3
<1>7. ASSUME NEW s \in Senders, SendCount(s) PROVE RateWindowEnds'
  <2>1. send[s].stage = "cooled" /\ rateEnds' = rateEnds /\ lost' = lost
    BY <1>7 DEF SendCount
  <2>2. \A t \in Senders : t # s => send'[t] = send[t]
    BY <1>1, <1>7 DEF SendCount
  <2>3. CASE rate = 0
    BY <1>1, <1>7, <2>3 DEF SendCount
  <2>4. CASE rate > 0
    BY <1>2, <2>1, <2>2, <2>4
  <2> QED
    BY <1>1, <2>3, <2>4
<1>8. ASSUME NEW s \in Senders, SendExpire(s) PROVE RateWindowEnds'
  BY <1>8 DEF SendExpire
<1>9. ASSUME NEW s \in Senders, SendStop(s) PROVE RateWindowEnds'
  <2>1. rate' = rate /\ rateEnds' = rateEnds
    BY <1>9 DEF SendStop
  <2>2. lost \/ send[s].stage = "first" => lost'
    BY <1>9, Zenon DEF SendStop
  <2>3. \A t \in Senders : t # s => send'[t] = send[t]
    BY <1>1, <1>9 DEF SendStop
  <2> QED
    BY <1>2, <2>1, <2>2, <2>3
<1>10. ASSUME NEW v \in Verifiers,
             \/ \E guess \in Codes : VerifyStart(v, guess)
             \/ VerifyWatch(v) \/ VerifyUnlocked(v) \/ VerifyCompare(v) \/ VerifyAbort(v)
             \/ VerifySuccess(v) \/ VerifyFailure(v)
             \/ VerifyToken(v) \/ VerifyFirebase(v) \/ VerifyStop(v)
       PROVE UNCHANGED <<rate, rateEnds, lost, send>>
  BY <1>10, Zenon DEF VerifyStart, VerifyWatch, VerifyUnlocked, VerifyCompare, VerifyAbort,
     VerifySuccess, VerifyFailure, VerifyToken, VerifyFirebase, VerifyStop, rateVars
<1>11. ASSUME NEW q \in Registrations,
             \/ \E n \in tokens : RegisterGet(q, n)
             \/ RegisterDelete(q) \/ RegisterFind(q) \/ RegisterCreate(q)
       PROVE UNCHANGED <<rate, rateEnds, lost, send>>
  BY <1>11, Zenon DEF RegisterGet, RegisterDelete, RegisterFind, RegisterCreate, rateVars
<1>12. CASE UNCHANGED codesVars
  BY <1>2, <1>12 DEF codesVars, rateVars
<1> QED
  BY <1>3, <1>4, <1>5, <1>6, <1>7, <1>8, <1>9, <1>10, <1>11, <1>12, Zenon DEF CodesNext

\* Nothing that needs a verification comes about before one.
LEMMA TracedNext ==
  ASSUME CodesInv, [CodesNext]_codesVars
  PROVE  Traced' /\ (users <= 1)'
<1>1. /\ verified \in Nat /\ vouched \in Nat /\ users \in Nat /\ users <= 1
      /\ verify \in [Verifiers -> Verification \cup {Quiet}]
      /\ register \in [Registrations -> Registration \cup {Quiet}]
  BY DEF CodesInv, CodesTypeOK
<1>2. Trace => verified + vouched > 0
  BY DEF CodesInv, Traced
<1>3. CASE UNCHANGED <<verified, vouched, tokens, users, verify, register>>
  BY <1>1, <1>2, <1>3 DEF Traced, Trace
<1>4. ASSUME CodeExpire \/ AttemptsExpire \/ LockExpires \/ CooldownExpire \/ RateExpire
             \/ \E c \in Connections : OtherExec(c)
      PROVE  UNCHANGED <<verified, vouched, tokens, users, verify, register>>
  BY <1>4, Zenon DEF CodeExpire, AttemptsExpire, LockExpires, CooldownExpire, RateExpire,
     OtherExec, tokenVars
<1>5. CASE TokenExpire
  BY <1>1, <1>2, <1>5 DEF TokenExpire, Traced, Trace
<1>6. ASSUME NEW s \in Senders,
             \/ SendUnlocked(s) \/ SendCooldown(s) \/ SendCount(s) \/ SendExpire(s)
             \/ SendStore(s) \/ SendStop(s)
      PROVE  UNCHANGED <<verified, vouched, tokens, users, verify, register>>
  BY <1>6, Zenon DEF SendUnlocked, SendCooldown, SendCount, SendExpire, SendStore, SendStop,
     tokenVars
<1>7. ASSUME NEW v \in Verifiers,
             \/ \E guess \in Codes : VerifyStart(v, guess)
             \/ VerifyWatch(v) \/ VerifyUnlocked(v) \/ VerifyCompare(v) \/ VerifyAbort(v)
             \/ VerifyFailure(v) \/ VerifyStop(v)
      PROVE Traced' /\ (users <= 1)'
  <2>1. UNCHANGED <<verified, vouched, tokens, users, register>>
    BY <1>7, Zenon DEF VerifyStart, VerifyWatch, VerifyUnlocked, VerifyCompare, VerifyAbort,
       VerifyFailure, VerifyStop, tokenVars
  <2> DEFINE Kept == \A u \in Verifiers : verify'[u].stage = "verified" =>
                       verify[u].stage = "verified"
  <2>2. ASSUME VerifyWatch(v) \/ VerifyUnlocked(v) PROVE Kept
    <3>1. verify[v] \in Verification
      BY <1>1, <2>2 DEF VerifyWatch, VerifyUnlocked, Quiet
    <3>2. [verify[v] EXCEPT !.stage = "watched"].stage = "watched"
          /\ [verify[v] EXCEPT !.stage = "unlocked"].stage = "unlocked"
      BY <3>1 DEF Verification
    <3>3. Quiet.stage # "verified"
      BY DEF Quiet
    <3>4. \/ VerifyStep(v, [verify[v] EXCEPT !.stage = "watched"])
          \/ VerifyStep(v, [verify[v] EXCEPT !.stage = "unlocked"])
          \/ VerifyStep(v, Quiet)
      BY <2>2, Zenon DEF VerifyWatch, VerifyUnlocked, VerifyEnd
    <3> QED
      BY <1>1, <3>2, <3>3, <3>4 DEF VerifyStep
  <2>3. ASSUME \/ \E guess \in Codes : VerifyStart(v, guess)
               \/ VerifyCompare(v) \/ VerifyAbort(v) \/ VerifyFailure(v) \/ VerifyStop(v)
        PROVE  Kept
    BY <1>1, <2>3 DEF VerifyStart, VerifyCompare, VerifyAbort, VerifyFailure, VerifyStop,
       Again, VerifyStep, VerifyEnd, Quiet
  <2>4. Kept
    BY <1>7, <2>2, <2>3
  <2> QED
    BY <1>1, <1>2, <2>1, <2>4 DEF Traced, Trace
<1>8. ASSUME NEW v \in Verifiers, VerifySuccess(v) PROVE Traced' /\ (users <= 1)'
  <2>1. CASE ConsumeCode /\ verified' = verified + 1
    BY <1>1, <1>8, <2>1 DEF VerifySuccess, Traced
  <2>2. CASE Again(v) /\ UNCHANGED verified
    <3>1. \A u \in Verifiers : verify'[u].stage = "verified" => verify[u].stage = "verified"
      BY <1>1, <2>2 DEF Again, VerifyStep, VerifyEnd, Quiet
    <3> QED
      BY <1>1, <1>2, <1>8, <2>2, <3>1 DEF VerifySuccess, Traced, Trace
  <2> QED
    BY <1>8, <2>1, <2>2 DEF VerifySuccess
<1>9. ASSUME NEW v \in Verifiers, VerifyToken(v) PROVE Traced' /\ (users <= 1)'
  BY <1>1, <1>2, <1>9 DEF VerifyToken, Traced, Trace
<1>10. ASSUME NEW v \in Verifiers, VerifyFirebase(v) PROVE Traced' /\ (users <= 1)'
  BY <1>1, <1>10 DEF VerifyFirebase, Traced
<1>11. ASSUME NEW q \in Registrations, NEW n \in tokens, RegisterGet(q, n)
       PROVE Traced' /\ (users <= 1)'
  BY <1>1, <1>2, <1>11 DEF RegisterGet, tokenVars, Traced, Trace
<1>12. ASSUME NEW q \in Registrations,
              RegisterDelete(q) \/ RegisterFind(q) \/ RegisterCreate(q)
       PROVE Traced' /\ (users <= 1)'
  <2>1. Trace
    BY <1>12 DEF RegisterDelete, RegisterFind, RegisterCreate, Trace, Quiet
  <2>2. UNCHANGED <<verified, vouched>> /\ users' \in {0, 1}
    BY <1>1, <1>12 DEF RegisterDelete, RegisterFind, RegisterCreate, tokenVars
  <2> QED
    BY <1>1, <1>2, <2>1, <2>2 DEF Traced
<1>13. CASE UNCHANGED codesVars
  BY <1>1, <1>2, <1>13 DEF codesVars, tokenVars, Traced, Trace
<1> QED
  BY <1>3, <1>4, <1>5, <1>6, <1>7, <1>8, <1>9, <1>10, <1>11, <1>12, <1>13, Zenon
     DEF CodesNext

LEMMA CodesInvariant == CodesSpec => []CodesInv
<1>1. CodesInv /\ [CodesNext]_codesVars => CodesInv'
  BY CodesTypeNext, CodeVerifiesOnceNext, RateWindowEndsNext, TracedNext DEF CodesInv
<1> QED
  BY <1>1, CodesInitInv, PTL DEF CodesSpec

\* The state of the codes keeps its type.
THEOREM CodesTypeCorrect == CodesSpec => []CodesTypeOK
BY CodesInvariant, PTL DEF CodesInv

\* No stored code is consumed by two verifications, whatever EXEC, retry and lost watch come
\* between them (verify's WATCH and its two scripts).
THEOREM CodesVerifyOnce == CodesSpec => []CodeVerifiesOnce
BY CodesInvariant, PTL DEF CodesInv

\* A code that is still stored has attempts left, for verifications that run at once too.
THEOREM LiveCodesHaveAttempts == CodesSpec => []LiveCodeHasAttempts
BY CodesInvariant, PTL DEF CodesInv

\* The window of the rate limit ends, unless a process was cut between INCR and EXPIRE.
THEOREM RateWindowsEnd == CodesSpec => []RateWindowEnds
BY CodesInvariant, PTL DEF CodesInv

\* A phone has at most one user, and none without a verification before it.
THEOREM RegisteredOnceVerified == CodesSpec => []RegisteredOnce
<1>1. CodesInv => RegisteredOnce
  BY DEF CodesInv, RegisteredOnce, Traced, Trace
<1> QED
  BY <1>1, CodesInvariant, PTL

-----------------------------------------------------------------------------
\* LoginLockout.

Checked == {l \in Logins : login[l] = "checked"}

\* The logins past the check have their failures still before them.
LoginInv ==
  /\ LoginTypeOK
  /\ fails + Cardinality(Checked) <= MaxFails - 1 + Cardinality(Logins)
  /\ LockoutEnds

\* The logins past the check are at most as many as there are.
LEMMA CheckedFinite ==
  ASSUME NEW S \in SUBSET Logins
  PROVE  /\ IsFiniteSet(S)
         /\ Cardinality(S) \in Nat
         /\ Cardinality(S) <= Cardinality(Logins)
         /\ Cardinality(Logins) \in Nat
BY LoginAssumption, FS_Subset, FS_CardinalityType

LEMMA LoginInitInv == LoginInit => LoginInv
<1> SUFFICES ASSUME LoginInit PROVE LoginInv
  OBVIOUS
<1>1. LoginTypeOK
  BY DEF LoginInit, LoginTypeOK
<1>2. Checked \in SUBSET Logins
  BY DEF Checked
<1>3. fails + Cardinality(Checked) <= MaxFails - 1 + Cardinality(Logins)
  BY <1>2, CheckedFinite, LoginAssumption DEF LoginInit
<1> QED
  BY <1>1, <1>3 DEF LoginInv, LockoutEnds, LoginInit

LEMMA LoginTypeNext ==
  ASSUME LoginTypeOK, [LoginNext]_loginVars
  PROVE  LoginTypeOK'
<1> USE DEF LoginTypeOK
<1>1. login' \in [Logins -> {"idle", "checked", "first"}] /\ fails' \in Nat
  BY DEF LoginNext, LoginCheck, LoginWrong, LoginExpire, LoginRight, LoginStop,
         FailsExpire, loginVars
<1>2. ASSUME NEW l \in Logins, LoginExpire(l)
      PROVE  failsEnd' \in BOOLEAN /\ failsLost' \in BOOLEAN
  <2>1. failsEnd' = TRUE \/ failsEnd' = FALSE
    BY <1>2, (fails > 0) \/ ~(fails > 0) DEF LoginExpire
  <2> QED
    BY <1>2, <2>1, Zenon DEF LoginExpire
<1>3. ASSUME NEW l \in Logins, LoginStop(l)
      PROVE  failsEnd' \in BOOLEAN /\ failsLost' \in BOOLEAN
  BY <1>3, Zenon DEF LoginStop
<1>4. ASSUME NEW l \in Logins, LoginCheck(l) \/ LoginWrong(l) \/ LoginRight(l)
      PROVE  failsEnd' \in BOOLEAN /\ failsLost' \in BOOLEAN
  BY <1>4, Zenon DEF LoginCheck, LoginWrong, LoginRight
<1>5. CASE FailsExpire \/ UNCHANGED loginVars
  <2>1. failsEnd' \in BOOLEAN /\ failsLost' \in BOOLEAN
    BY <1>5, Zenon DEF FailsExpire, loginVars
  <2> QED
    BY <1>1, <2>1
<1> QED
  BY <1>1, <1>2, <1>3, <1>4, <1>5, Zenon DEF LoginNext

\* A login that leaves the check behind is one less of those that may fail.
LEMMA LoginCountNext ==
  ASSUME LoginTypeOK, [LoginNext]_loginVars,
         fails + Cardinality(Checked) <= MaxFails - 1 + Cardinality(Logins)
  PROVE  fails' + Cardinality(Checked') <= MaxFails - 1 + Cardinality(Logins)
<1> DEFINE Goal == fails' + Cardinality(Checked') <= MaxFails - 1 + Cardinality(Logins)
<1>0. /\ Checked \in SUBSET Logins
      /\ Checked' \in SUBSET Logins
  BY DEF Checked
<1>1. /\ Cardinality(Checked) \in Nat
      /\ Cardinality(Checked') \in Nat
      /\ Cardinality(Checked') <= Cardinality(Logins)
      /\ Cardinality(Logins) \in Nat
      /\ IsFiniteSet(Checked)
      /\ MaxFails \in Nat \ {0}
      /\ fails \in Nat
  BY <1>0, CheckedFinite, LoginAssumption DEF LoginTypeOK
<1>2. ASSUME NEW l \in Logins, LoginCheck(l) PROVE Goal
  BY <1>1, <1>2 DEF LoginCheck
<1>3. ASSUME NEW l \in Logins, LoginWrong(l) PROVE Goal
  <2>1. Checked' = Checked \ {l} /\ l \in Checked
    BY <1>3 DEF LoginWrong, Checked, LoginTypeOK
  <2>2. Cardinality(Checked \ {l}) = Cardinality(Checked) - 1
    BY <1>1, <2>1, FS_RemoveElement
  <2> QED
    BY <1>1, <1>3, <2>1, <2>2 DEF LoginWrong
<1>4. ASSUME fails' = 0 PROVE Goal
  BY <1>1, <1>4, LoginAssumption
<1>5. ASSUME Checked' \subseteq Checked, fails' = fails PROVE Goal
  <2>1. Checked' \in SUBSET Checked
    BY <1>5
  <2>2. Cardinality(Checked') <= Cardinality(Checked)
    BY <1>1, <2>1, FS_Subset
  <2> QED
    BY <1>1, <1>5, <2>2
<1>6. ASSUME NEW l \in Logins, LoginExpire(l) \/ LoginStop(l)
      PROVE  Checked' \subseteq Checked /\ fails' = fails
  BY <1>6 DEF LoginExpire, LoginStop, Checked, LoginTypeOK
<1>7. ASSUME NEW l \in Logins, LoginRight(l) PROVE fails' = 0
  BY <1>7 DEF LoginRight
<1>8. ASSUME FailsExpire PROVE fails' = 0
  BY <1>8 DEF FailsExpire
<1>9. ASSUME UNCHANGED loginVars PROVE Checked' \subseteq Checked /\ fails' = fails
  BY <1>9 DEF loginVars, Checked
<1> HIDE DEF Goal
<1>10. Goal
  BY <1>2, <1>3, <1>4, <1>5, <1>6, <1>7, <1>8, <1>9, Zenon DEF LoginNext
<1> QED
  BY <1>10 DEF Goal

\* Only a login that has the first failure before it leaves the counter without an end.
LEMMA LockoutNext ==
  ASSUME LoginTypeOK, LockoutEnds, [LoginNext]_loginVars
  PROVE  LockoutEnds'
<1> DEFINE First == \E l \in Logins : login[l] = "first"
<1>1. ASSUME NEW l \in Logins, LoginWrong(l)
      PROVE  \/ First' \/ (fails > 0 /\ (First => First'))
  BY <1>1 DEF LoginWrong, LoginTypeOK
<1>2. ASSUME NEW l \in Logins, LoginExpire(l) PROVE LockoutEnds'
  BY <1>2, Zenon DEF LoginExpire, LockoutEnds
<1>3. ASSUME NEW l \in Logins, LoginStop(l) PROVE (First => First') \/ failsLost'
  BY <1>3 DEF LoginStop, LoginTypeOK
<1>4. ASSUME NEW l \in Logins, LoginCheck(l) PROVE First => First'
  BY <1>4 DEF LoginCheck, LoginTypeOK
<1>5. ASSUME fails' = 0 PROVE LockoutEnds'
  BY <1>5 DEF LockoutEnds
<1> QED
  <2>1. ASSUME NEW l \in Logins, LoginWrong(l) PROVE LockoutEnds'
    BY <1>1, <2>1, Zenon DEF LoginWrong, LockoutEnds
  <2>2. ASSUME NEW l \in Logins, LoginStop(l) PROVE LockoutEnds'
    BY <1>3, <2>2, Zenon DEF LoginStop, LockoutEnds
  <2>3. ASSUME NEW l \in Logins, LoginCheck(l) PROVE LockoutEnds'
    BY <1>4, <2>3, Zenon DEF LoginCheck, LockoutEnds
  <2>4. ASSUME FailsExpire \/ \E l \in Logins : LoginRight(l) PROVE LockoutEnds'
    <3>1. fails' = 0
      BY <2>4 DEF FailsExpire, LoginRight
    <3> QED
      BY <1>5, <3>1
  <2>5. ASSUME UNCHANGED loginVars PROVE LockoutEnds'
    BY <2>5, Zenon DEF loginVars, LockoutEnds
  <2> QED
    BY <1>2, <2>1, <2>2, <2>3, <2>4, <2>5, Zenon DEF LoginNext

LEMMA LoginInvNext ==
  ASSUME LoginInv, [LoginNext]_loginVars
  PROVE  LoginInv'
BY LoginTypeNext, LoginCountNext, LockoutNext DEF LoginInv

LEMMA LoginInvariant == LoginSpec => []LoginInv
BY LoginInitInv, LoginInvNext, PTL DEF LoginSpec

\* The lockout's variables have their types in every reachable state.
THEOREM LoginTypeCorrect == LoginSpec => []LoginTypeOK
BY LoginInvariant, PTL DEF LoginInv

\* However many logins race the counter, the failures let through are bounded by the
\* limit and those in flight.
THEOREM FailsAreBounded == LoginSpec => []FailsBounded
<1>1. LoginInv => FailsBounded
  <2> SUFFICES ASSUME LoginInv PROVE FailsBounded
    OBVIOUS
  <2>1. Checked \in SUBSET Logins
    BY DEF Checked
  <2> QED
    BY <2>1, CheckedFinite, LoginAssumption DEF LoginInv, LoginTypeOK, FailsBounded
<1> QED
  BY <1>1, LoginInvariant, PTL

\* The counter of failures comes to an end, but for a process that ends between INCR
\* and EXPIRE.
THEOREM LockoutsEnd == LoginSpec => []LockoutEnds
BY LoginInvariant, PTL DEF LoginInv
=============================================================================
