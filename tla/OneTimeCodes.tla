---------------------------- MODULE OneTimeCodes ----------------------------
(***************************************************************************)
(* The one-time codes of one phone number: sending them at a limited rate, *)
(* verifying them, and registering with the token a verification returns.  *)
(* All of it lives in Redis keys that expire.  Every server instance talks *)
(* to Redis over one connection, and the optimistic lock of a verification *)
(* (WATCH ... MULTI ... EXEC) belongs to the connection, not the request:  *)
(* any other request's EXEC or UNWATCH on it takes the watch away.         *)
(***************************************************************************)
EXTENDS Integers, FiniteSets

CONSTANTS
  Verifiers,     \* verifications that can be in flight
  Senders,       \* sendings that can be in flight
  Registrations, \* registrations that can be in flight
  Connections,   \* server instances
  ConnectionOf,  \* the instance a verification or a sending runs on
  MaxAttempts,   \* OTP_MAX_ATTEMPTS
  RequestLimit,  \* OTP_REQUEST_LIMIT
  Tries,         \* turns of the loop of verify (3 in the code)
  MaxCodes       \* bound: codes generated, or else tokens of Firebase accepted

ASSUME CodesAssumption ==
  /\ ConnectionOf \in [Verifiers \cup Senders -> Connections]
  /\ MaxAttempts \in Nat \ {0}
  /\ RequestLimit \in Nat \ {0}
  /\ Tries \in Nat \ {0}
  /\ MaxCodes \in Nat

NoCode == 0       \* no code, and a wrong guess

VARIABLES
  code,       \* otp: the code that is stored, or NoCode
  made,       \* codes generated so far, the numbers 1 .. made
  attempts,   \* otp:attempts
  locked,     \* otp:lock exists
  cooling,    \* otp:cooldown exists
  rate,       \* otp:rate, 0 when there is none
  rateEnds,   \* otp:rate has a time to live
  watch,      \* watch[c]: otp is not watched, watched, or watched and changed
  stored,     \* history: codes stored so far
  verified,   \* history: verifications that have consumed a code
  vouched,    \* history: tokens of Firebase accepted, before there is a user
  tokens,     \* verification tokens, numbered by their verification
  users,      \* rows of User with the phone
  verify,     \* verify[v]: the verification v
  send,       \* send[s]: the sending s
  register,   \* register[q]: the registration q
  lost        \* history: a sending ended between INCR and EXPIRE

rateVars == <<cooling, rate, rateEnds, lost>>
codeVars == <<code, made, attempts, locked, stored>>
tokenVars == <<verified, vouched, tokens>>
codesVars ==
  <<codeVars, rateVars, watch, tokenVars, users, verify, send, register>>

Quiet == [stage |-> "quiet"]

Codes == 0 .. MaxCodes

\* guess: the code the caller submits.  seen: the code it was compared with.
Verification ==
  [stage : {"watching"}, guess : Codes, try : 1 .. Tries]
  \cup [stage : {"watched", "unlocked"}, guess : Codes, try : 1 .. Tries]
  \cup [stage : {"compared"}, guess : Codes, try : 1 .. Tries, seen : Codes]
  \cup [stage : {"verified"}, number : Nat]

Sending == [stage : {"unlocked", "cooled", "first", "counted"}]

Registration == [stage : {"got"}, number : Nat] \cup [stage : {"deleted", "free"}]

\* EXEC and UNWATCH on connection c.
Unwatch(c) == watch' = [watch EXCEPT ![c] = "off"]

\* An EXEC on connection c that writes otp.
Touch(c) ==
  watch' = [d \in Connections |->
    IF d = c THEN "off" ELSE IF watch[d] = "on" THEN "changed" ELSE watch[d]]
-----------------------------------------------------------------------------
CodesInit ==
  /\ code = NoCode
  /\ made = 0
  /\ attempts = 0
  /\ locked = FALSE
  /\ cooling = FALSE
  /\ rate = 0
  /\ rateEnds = FALSE
  /\ watch = [c \in Connections |-> "off"]
  /\ stored = 0
  /\ verified = 0
  /\ vouched = 0
  /\ tokens = {}
  /\ users = 0
  /\ verify = [v \in Verifiers |-> Quiet]
  /\ send = [s \in Senders |-> Quiet]
  /\ register = [q \in Registrations |-> Quiet]
  /\ lost = FALSE

-----------------------------------------------------------------------------
\* The keys that expire.  otp:attempts outlives the code, whose five minutes are
\* shorter than the fifteen that every failure gives the counter.
CodeExpire ==
  /\ code' = NoCode
  /\ UNCHANGED <<made, attempts, locked, stored, rateVars, watch, tokenVars, users,
                 verify, send, register>>

AttemptsExpire ==
  /\ code = NoCode
  /\ attempts' = 0
  /\ UNCHANGED <<code, made, locked, stored, rateVars, watch, tokenVars, users,
                 verify, send, register>>

LockExpires ==
  /\ locked' = FALSE
  /\ UNCHANGED <<code, made, attempts, stored, rateVars, watch, tokenVars, users,
                 verify, send, register>>

CooldownExpire ==
  /\ cooling' = FALSE
  /\ UNCHANGED <<codeVars, rate, rateEnds, lost, watch, tokenVars, users,
                 verify, send, register>>

RateExpire ==
  /\ rateEnds
  /\ rate' = 0
  /\ rateEnds' = FALSE
  /\ UNCHANGED <<codeVars, cooling, lost, watch, tokenVars, users, verify, send,
                 register>>

TokenExpire ==
  /\ \E n \in tokens : tokens' = tokens \ {n}
  /\ UNCHANGED <<codeVars, rateVars, watch, verified, vouched, users, verify, send, register>>

\* A verification of another phone on the same connection ends.
OtherExec(c) ==
  /\ Unwatch(c)
  /\ UNCHANGED <<codeVars, rateVars, tokenVars, users, verify, send, register>>

-----------------------------------------------------------------------------
SendStep(s, stage) == send' = [send EXCEPT ![s] = [stage |-> stage]]

SendEnd(s) == send' = [send EXCEPT ![s] = Quiet]

\* bound: a number that is verified by codes is not verified by Firebase as well.
CanSend == made < MaxCodes /\ vouched = 0

\* send: PTTL of the lock ...
SendUnlocked(s) ==
  /\ send[s] = Quiet
  /\ ~locked
  /\ CanSend
  /\ SendStep(s, "unlocked")
  /\ UNCHANGED <<codeVars, rateVars, watch, tokenVars, users, verify, register>>

\* ... SET NX of the cooldown ...
SendCooldown(s) ==
  /\ send[s].stage = "unlocked"
  /\ cooling' = TRUE
  /\ IF cooling THEN SendEnd(s) ELSE SendStep(s, "cooled")
  /\ UNCHANGED <<codeVars, rate, rateEnds, lost, watch, tokenVars, users,
                 verify, register>>

\* ... INCR of the rate; a count beyond the limit may grow no further here, which no
\* reader can tell ...
SendCount(s) ==
  /\ send[s].stage = "cooled"
  /\ rate' = IF rate <= RequestLimit THEN rate + 1 ELSE rate
  /\ IF rate' > RequestLimit
       THEN /\ cooling' = FALSE
            /\ SendEnd(s)
       ELSE /\ SendStep(s, IF rate' = 1 THEN "first" ELSE "counted")
            /\ UNCHANGED cooling
  /\ UNCHANGED <<codeVars, rateEnds, lost, watch, tokenVars, users, verify,
                 register>>

\* ... and EXPIRE after the first.
SendExpire(s) ==
  /\ send[s].stage = "first"
  /\ rateEnds' = (rate > 0)
  /\ SendStep(s, "counted")
  /\ UNCHANGED <<codeVars, cooling, rate, lost, watch, tokenVars, users,
                 verify, register>>

\* The MULTI that stores the code and deletes the attempts.  When the connection
\* watches a key that has changed, its EXEC does nothing, and the code is
\* delivered all the same.
SendStore(s) ==
  LET c == ConnectionOf[s] IN
  /\ send[s].stage = "counted"
  /\ CanSend
  /\ made' = made + 1
  /\ IF watch[c] = "changed"
       THEN /\ Unwatch(c)
            /\ UNCHANGED <<code, attempts, stored>>
       ELSE /\ Touch(c)
            /\ code' = made + 1
            /\ attempts' = 0
            /\ stored' = stored + 1
  /\ SendEnd(s)
  /\ UNCHANGED <<locked, cooling, rate, rateEnds, lost, tokenVars, users, verify,
                 register>>

\* The process ends in the middle of a sending.
SendStop(s) ==
  /\ send[s] # Quiet
  /\ lost' = (lost \/ send[s].stage = "first")
  /\ SendEnd(s)
  /\ UNCHANGED <<codeVars, cooling, rate, rateEnds, watch, tokenVars, users,
                 verify, register>>

-----------------------------------------------------------------------------
VerifyStep(v, r) == verify' = [verify EXCEPT ![v] = r]

VerifyEnd(v) == VerifyStep(v, Quiet)

\* The next turn of the loop of three, or the error after the last.
Again(v) ==
  IF verify[v].try < Tries
    THEN VerifyStep(v, [stage |-> "watching", guess |-> verify[v].guess,
                        try |-> verify[v].try + 1])
    ELSE VerifyEnd(v)

Watch(c) == watch' = [watch EXCEPT ![c] = IF @ = "off" THEN "on" ELSE @]

\* POST verify-otp with the last code that was generated or with a wrong one, as an
\* older code is; WATCH ...
VerifyStart(v, guess) ==
  /\ verify[v] = Quiet
  /\ guess \in {NoCode, made}
  /\ Watch(ConnectionOf[v])
  /\ VerifyStep(v, [stage |-> "watched", guess |-> guess, try |-> 1])
  /\ UNCHANGED <<codeVars, rateVars, tokenVars, users, send, register>>

\* ... which every further turn of the loop calls again ...
VerifyWatch(v) ==
  /\ verify[v].stage = "watching"
  /\ Watch(ConnectionOf[v])
  /\ VerifyStep(v, [verify[v] EXCEPT !.stage = "watched"])
  /\ UNCHANGED <<codeVars, rateVars, tokenVars, users, send, register>>

\* ... PTTL of the lock ...
VerifyUnlocked(v) ==
  /\ verify[v].stage = "watched"
  /\ IF locked
       THEN Unwatch(ConnectionOf[v]) /\ VerifyEnd(v)
       ELSE VerifyStep(v, [verify[v] EXCEPT !.stage = "unlocked"]) /\ UNCHANGED watch
  /\ UNCHANGED <<codeVars, rateVars, tokenVars, users, send, register>>

\* ... GET of the code, and bcrypt, which takes its time.
VerifyCompare(v) ==
  LET r == verify[v] IN
  /\ r.stage = "unlocked"
  /\ IF code = NoCode
       THEN Unwatch(ConnectionOf[v]) /\ VerifyEnd(v)
       ELSE /\ VerifyStep(v, [stage |-> "compared", guess |-> r.guess, try |-> r.try,
                              seen |-> code])
            /\ UNCHANGED watch
  /\ UNCHANGED <<codeVars, rateVars, tokenVars, users, send, register>>

\* The EXEC of a verification whose connection watches a changed key, of this phone
\* or of another, does nothing.
VerifyAbort(v) ==
  /\ verify[v].stage = "compared"
  /\ Unwatch(ConnectionOf[v])
  /\ Again(v)
  /\ UNCHANGED <<codeVars, rateVars, tokenVars, users, send, register>>

Executes(v) ==
  /\ verify[v].stage = "compared"
  /\ watch[ConnectionOf[v]] # "changed"

\* MUTANT: the script does not ask whether the code is still there.
VerifySuccessUnchecked(v) ==
  /\ Executes(v)
  /\ verify[v].guess = verify[v].seen
  /\ code' = NoCode
  /\ attempts' = 0
  /\ verified' = verified + 1
  /\ Touch(ConnectionOf[v])
  /\ VerifyStep(v, [stage |-> "verified", number |-> verified + 1])
  /\ UNCHANGED <<made, locked, stored, rateVars, vouched, tokens, users, send, register>>

\* VERIFY_OTP_SUCCESS_SCRIPT: whatever code there is is consumed, once.
ConsumeCode ==
  /\ code # NoCode
  /\ code' = NoCode
  /\ attempts' = 0

\* Its EXEC after the right guess: a token, or another turn when the code is gone.
VerifySuccess(v) ==
  /\ Executes(v)
  /\ verify[v].guess = verify[v].seen
  /\ \/ /\ ConsumeCode
        /\ verified' = verified + 1
        /\ Touch(ConnectionOf[v])
        /\ VerifyStep(v, [stage |-> "verified", number |-> verified + 1])
     \/ /\ code = NoCode
        /\ Unwatch(ConnectionOf[v])
        /\ Again(v)
        /\ UNCHANGED <<code, attempts, verified>>
  /\ UNCHANGED <<made, locked, stored, rateVars, vouched, tokens, users, send, register>>

\* MUTANT: the code stays when the attempts are used up.
VerifyFailureKeepCode(v) ==
  /\ Executes(v)
  /\ verify[v].guess # verify[v].seen
  /\ IF locked \/ code = NoCode
       THEN UNCHANGED <<attempts, locked>>
       ELSE /\ attempts' = attempts + 1
            /\ locked' = (attempts' >= MaxAttempts)
  /\ Unwatch(ConnectionOf[v])
  /\ VerifyEnd(v)
  /\ UNCHANGED <<code, made, stored, rateVars, tokenVars, users, send, register>>

\* VERIFY_OTP_FAILURE_SCRIPT: one more attempt, and the lock instead of the code
\* when it was the last.
VerifyFailure(v) ==
  /\ Executes(v)
  /\ verify[v].guess # verify[v].seen
  /\ IF locked \/ code = NoCode
       THEN /\ Unwatch(ConnectionOf[v])
            /\ UNCHANGED <<code, attempts, locked>>
       ELSE /\ attempts' = attempts + 1
            /\ IF attempts + 1 >= MaxAttempts
                 THEN /\ locked' = TRUE
                      /\ code' = NoCode
                      /\ Touch(ConnectionOf[v])
                 ELSE /\ Unwatch(ConnectionOf[v])
                      /\ UNCHANGED <<code, locked>>
  /\ VerifyEnd(v)
  /\ UNCHANGED <<made, stored, rateVars, tokenVars, users, send, register>>

\* createVerificationToken, and verifyOtp of a phone that has no user returns it.
VerifyToken(v) ==
  /\ verify[v].stage = "verified"
  /\ tokens' = tokens \cup {verify[v].number}
  /\ VerifyEnd(v)
  /\ UNCHANGED <<codeVars, rateVars, watch, verified, vouched, users, send, register>>

\* firebaseLogin with a token of Firebase, which says that it has verified the number,
\* of a number that no user has: the way goes on as after a code.  (A user's is a
\* login, as in Sessions.)
VerifyFirebase(v) ==
  /\ verify[v] = Quiet
  /\ users = 0
  /\ made = 0 /\ vouched < MaxCodes                                  \* bound
  /\ vouched' = vouched + 1
  /\ VerifyStep(v, [stage |-> "verified", number |-> MaxCodes + vouched + 1])
  /\ UNCHANGED <<codeVars, rateVars, watch, verified, tokens, users, send, register>>

\* The process ends in the middle of a verification; the connection closes.
VerifyStop(v) ==
  /\ verify[v] # Quiet
  /\ Unwatch(ConnectionOf[v])
  /\ VerifyEnd(v)
  /\ UNCHANGED <<codeVars, rateVars, tokenVars, users, send, register>>

-----------------------------------------------------------------------------
RegisterStep(q, r) == register' = [register EXCEPT ![q] = r]

\* consumeVerificationToken: GET ...
RegisterGet(q, n) ==
  /\ register[q] = Quiet
  /\ n \in tokens
  /\ RegisterStep(q, [stage |-> "got", number |-> n])
  /\ UNCHANGED <<codeVars, rateVars, watch, tokenVars, users, verify, send>>

\* ... and DEL, which nobody asks whether there was anything left to delete.
RegisterDelete(q) ==
  /\ register[q].stage = "got"
  /\ tokens' = tokens \ {register[q].number}
  /\ RegisterStep(q, [stage |-> "deleted"])
  /\ UNCHANGED <<codeVars, rateVars, watch, verified, vouched, users, verify, send>>

\* findByPhone: a 409 when there is a user; bcrypt of the password follows.
RegisterFind(q) ==
  /\ register[q].stage = "deleted"
  /\ RegisterStep(q, IF users = 0 THEN [stage |-> "free"] ELSE Quiet)
  /\ UNCHANGED <<codeVars, rateVars, watch, tokenVars, users, verify, send>>

\* MUTANT: no unique index behind the search for the phone.
RegisterCreateAgain(q) ==
  /\ register[q].stage = "free"
  /\ users' = users + 1
  /\ RegisterStep(q, Quiet)
  /\ UNCHANGED <<codeVars, rateVars, watch, tokenVars, verify, send>>

\* The INSERT; the unique index answers P2002, a 409.
RegisterCreate(q) ==
  /\ register[q].stage = "free"
  /\ users' = IF users = 0 THEN 1 ELSE users
  /\ RegisterStep(q, Quiet)
  /\ UNCHANGED <<codeVars, rateVars, watch, tokenVars, verify, send>>

CodesNext ==
  \/ CodeExpire \/ AttemptsExpire \/ LockExpires \/ CooldownExpire \/ RateExpire
  \/ TokenExpire
  \/ \E c \in Connections : OtherExec(c)
  \/ \E s \in Senders :
       \/ SendUnlocked(s) \/ SendCooldown(s) \/ SendCount(s) \/ SendExpire(s)
       \/ SendStore(s) \/ SendStop(s)
  \/ \E v \in Verifiers :
       \/ \E guess \in Codes : VerifyStart(v, guess)
       \/ VerifyWatch(v) \/ VerifyUnlocked(v) \/ VerifyCompare(v) \/ VerifyAbort(v)
       \/ VerifySuccess(v) \/ VerifyFailure(v) \/ VerifyToken(v) \/ VerifyFirebase(v)
       \/ VerifyStop(v)
  \/ \E q \in Registrations :
       \/ \E n \in tokens : RegisterGet(q, n)
       \/ RegisterDelete(q) \/ RegisterFind(q) \/ RegisterCreate(q)

CodesSpec == CodesInit /\ [][CodesNext]_codesVars

-----------------------------------------------------------------------------
\* Properties.

\* Every variable has its type.
CodesTypeOK ==
  /\ code \in Codes
  /\ made \in Codes
  /\ attempts \in Nat
  /\ locked \in BOOLEAN
  /\ cooling \in BOOLEAN
  /\ rate \in Nat
  /\ rateEnds \in BOOLEAN
  /\ watch \in [Connections -> {"off", "on", "changed"}]
  /\ stored \in Nat
  /\ verified \in Nat
  /\ vouched \in Nat
  /\ tokens \in SUBSET Nat
  /\ users \in Nat
  /\ verify \in [Verifiers -> Verification \cup {Quiet}]
  /\ send \in [Senders -> Sending \cup {Quiet}]
  /\ register \in [Registrations -> Registration \cup {Quiet}]
  /\ lost \in BOOLEAN

\* Whatever verifications, retries and lost watches race each other, each stored code
\* is consumed by at most one verification.
CodeVerifiesOnce == verified + (IF code = NoCode THEN 0 ELSE 1) <= stored

\* A code that can still be verified has attempts left: the last wrong one took the
\* code away, and a new code starts afresh.
LiveCodeHasAttempts == code # NoCode => attempts < MaxAttempts

\* A count of requests that can turn the phone down comes to an end, unless a process
\* ended between INCR and EXPIRE.
RateWindowEnds ==
  rate > 0 => rateEnds \/ lost \/ \E s \in Senders : send[s].stage = "first"

\* A number is verified before it is registered and registered once, although two
\* registrations may read one token before either deletes it.
RegisteredOnce == users <= 1 /\ (users = 1 => verified + vouched > 0)
=============================================================================
