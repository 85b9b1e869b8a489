------------------------------ MODULE Sessions ------------------------------
(***************************************************************************)
(* The token service of one user account (core/authentication/tokens.py)   *)
(* and the requests that use it: login, refresh, logout, logout from all   *)
(* devices, password change, password reset, and the periodic cleanup of   *)
(* inactive refresh tokens.  Every request is a process that runs once;    *)
(* one step is one access to Redis, to the users row or to the clock, so   *)
(* that requests of one user interleave as they do under several workers.  *)
(*                                                                         *)
(* A session is a pair of JWTs, access and refresh, named after the        *)
(* request that signed it.  Redis holds one key per refresh token and the  *)
(* users row the revocation cutoff, token_invalid_before (0 for NULL).     *)
(***************************************************************************)
EXTENDS Integers

CONSTANTS
    Requests,           \* the requests that may run, and the pairs they sign
    NoPair,             \* not a pair
    Mixes,              \* the mixes of operations the requests may turn out to be
    StrictRedis,        \* the values of AUTH_STRICT_REDIS: a Redis error fails the request
    RevokeOnReuse,      \* the values of AUTH_REVOKE_ON_REFRESH_TOKEN_REUSE
    Unlucky,            \* the requests whose Redis calls may raise
    LoggedIn,           \* the logins that were over when the behaviour begins
    MaxTick             \* bound: the microseconds that may pass

ASSUME PairAssumption == NoPair \notin Requests
ASSUME FlagAssumption ==
    /\ StrictRedis \subseteq BOOLEAN /\ RevokeOnReuse \subseteq BOOLEAN
    /\ Unlucky \subseteq Requests
ASSUME StartAssumption == LoggedIn \subseteq Requests /\ MaxTick \in Nat \ {0}

VARIABLES
    clock,      \* the latest time stamp read; the next read may return the same
    cutoff,     \* users.token_invalid_before
    password,   \* how many times users.password was set
    key,        \* state of refresh:{uid}:{jti} of each pair
    cached,     \* the pair that a key in rotation grace answers with
    iat,        \* the iat_us claim of each JWT, 0 while it is not signed
    blacklist,  \* pairs whose access token is blacklisted
    req,        \* the progress of each request
    revoked,    \* history: JWTs that existed when a committed revocation began
    alone,      \* history: those of them whose revocation had a microsecond of its own
    last,       \* history: the stamp of the revocation that committed last
    newest,     \* history: the latest stamp of a committed revocation
    setBack,    \* history: whether an older stamp has replaced a later one
    overtaken   \* history: JWTs that existed when the cutoff was last written

redis == <<key, cached, blacklist>>
history == <<revoked, alone, last, newest, setBack, overtaken>>
vars == <<clock, cutoff, password, redis, iat, req, history>>

JWTs == {"access", "refresh"} \X Requests
Signed == {t \in JWTs : iat[t] > 0}

KeyStates == {"absent", "valid", "inactive", "grace"}
Operations == {"none", "login", "refresh", "logout", "logoutAll",
               "changePassword", "resetPassword", "resetWithToken", "cleanup"}
Steps == {"start", "get", "checkCutoff", "getAgain", "checkAgain", "getOld",
          "accessNow", "accessSign", "refreshNow", "refreshSign", "store", "grace",
          "blacklist", "logoutDelete", "dropInactive", "dropAgain", "checkBlacklist",
          "checkAccess", "setPassword", "revokeNow", "revokeCommit", "revokeScan",
          "revokeDelete", "done"}

Fresh == [op |-> "none", pc |-> "start", using |-> NoPair, answer |-> NoPair, now |-> 0,
          epoch |-> 0, keys |-> {}, covers |-> {}, own |-> FALSE, late |-> FALSE]

Init ==
    /\ clock = 1 /\ cutoff = 0 /\ password = 1
    /\ key = [p \in Requests |-> IF p \in LoggedIn THEN "valid" ELSE "absent"]
    /\ cached = [p \in Requests |-> NoPair]
    /\ blacklist = {}
    /\ iat = [t \in JWTs |-> IF t[2] \in LoggedIn THEN 1 ELSE 0]
    /\ req = [r \in Requests |-> IF r \in LoggedIn
                THEN [Fresh EXCEPT !.op = "login", !.pc = "done", !.answer = r, !.epoch = 1]
                ELSE Fresh]
    /\ revoked = {} /\ alone = {} /\ last = 0 /\ newest = 0 /\ setBack = FALSE /\ overtaken = {}

-----------------------------------------------------------------------------

\* Mutants, used by no specification: each is a plausible bug in the definition it
\* is named after.
IssuedAtTheClock(stamp) == stamp

\* enforce_user_token_cutoff: a JWT issued on or before the cutoff is rejected.
PassesCutoff(t) == iat[t] > cutoff

\* _issued_at_us_after_user_cutoff: never inside the revoked epoch.
IssuedAt(stamp) == IF stamp > cutoff THEN stamp ELSE cutoff + 1

\* What a protected endpoint and the refresh endpoint let through.
Accepted(t) ==
    /\ t \in Signed
    /\ PassesCutoff(t)
    /\ t[1] = "refresh" => key[t[2]] \in {"valid", "grace"}

\* The pairs that some client has received.
Returned == {req[r].answer : r \in Requests} \ {NoPair}

At(r, step) == req[r].pc = step
Becomes(r, state) == req' = [req EXCEPT ![r] = state]
Goto(r, step) == Becomes(r, [req[r] EXCEPT !.pc = step])
Finish(r, answer) == Becomes(r, [req[r] EXCEPT !.pc = "done", !.answer = answer])
Reject(r) == Finish(r, NoPair)
\* The request notes the keys it deletes.
Note(r, keys, step) == Becomes(r, [req[r] EXCEPT !.keys = keys, !.pc = step])

\* A Redis call that raises (_handle_auth_redis_failure): the request fails under
\* AUTH_STRICT_REDIS and goes on as if the call had been skipped otherwise.  Where a
\* setting may have both values every call picks one, which allows all that either
\* value allows.
RedisFails(r, next) ==
    /\ r \in Unlucky
    /\ \/ TRUE \in StrictRedis /\ Reject(r)
       \/ FALSE \in StrictRedis /\ Goto(r, next)
    /\ UNCHANGED <<clock, cutoff, password, redis, iat, history>>

\* What a read of the clock may return: consecutive reads may return the same
\* microsecond (_issued_at_us_after_user_cutoff).
Readings == {now \in {clock, clock + 1} : now <= MaxTick}

\* A read of the clock; the request keeps the stamp.
Stamp(r, next) ==
    \E now \in Readings :
        /\ clock' = now
        /\ Becomes(r, [req[r] EXCEPT !.now = now, !.pc = next])
        /\ UNCHANGED <<cutoff, password, redis, iat, history>>

-----------------------------------------------------------------------------
(* The beginning of a request.                                             *)

Begin(r, op, using, step, since) ==
    /\ At(r, "start")
    /\ \E mix \in Mixes :
        /\ mix[r] = op
        /\ \A q \in Requests : req[q].op \in {"none", mix[q]}
    /\ Becomes(r, [req[r] EXCEPT !.op = op, !.using = using, !.pc = step,
                                !.epoch = since, !.late = <<"refresh", using>> \in alone])
    /\ UNCHANGED <<clock, cutoff, password, redis, iat, history>>

\* The password is checked against the row that was read.
BeginLogin(r) == Begin(r, "login", NoPair, "accessNow", password)

\* A rotation keeps the authentication of the session it continues.
BeginRefresh(r) ==
    \E p \in Returned : Begin(r, "refresh", p, "get", req[p].epoch)

BeginLogout(r) ==
    \E p \in Returned : Begin(r, "logout", p, "blacklist", 0)

BeginLogoutAll(r) ==
    \E p \in Returned : Begin(r, "logoutAll", p, "checkBlacklist", 0)

\* The view requires an accepted access token; the current password is checked.
BeginChangePassword(r) ==
    \E p \in Returned :
        /\ Accepted(<<"access", p>>)
        /\ Begin(r, "changePassword", p, "setPassword", 0)

\* The code or the reset token has been consumed; only the second opens a session.
BeginResetPassword(r) ==
    \/ Begin(r, "resetPassword", NoPair, "setPassword", 0)
    \/ Begin(r, "resetWithToken", NoPair, "setPassword", 0)

\* One key that the scan of the cleanup task finds inactive.
BeginCleanup(r) ==
    \E p \in Requests :
        /\ key[p] = "inactive"
        /\ Begin(r, "cleanup", p, "dropInactive", 0)

-----------------------------------------------------------------------------
(* validate_refresh_token: the Redis key, then the cutoff.  A refresh      *)
(* request runs it twice, a logout once.                                   *)

GetKey(r, step, next, drop) ==
    /\ At(r, step)
    /\ \/ key[req[r].using] = "absent" /\ TRUE \in RevokeOnReuse /\ Goto(r, "revokeNow")
       \/ key[req[r].using] = "absent" /\ FALSE \in RevokeOnReuse /\ Reject(r)
       \/ key[req[r].using] = "inactive" /\ Goto(r, drop)
       \/ key[req[r].using] \in {"valid", "grace"} /\ Goto(r, next)
    /\ UNCHANGED <<clock, cutoff, password, redis, iat, history>>

DropInactive(r) ==
    /\ At(r, "dropInactive") \/ At(r, "dropAgain")
    /\ key' = [key EXCEPT ![req[r].using] = "absent"]
    /\ Reject(r)
    /\ UNCHANGED <<clock, cutoff, password, cached, blacklist, iat, history>>

CheckNothing(r, half, step, next) ==
    /\ At(r, step)
    /\ Goto(r, next)
    /\ UNCHANGED <<clock, cutoff, password, redis, iat, history>>

CheckCutoff(r, half, step, next) ==
    /\ At(r, step)
    /\ IF PassesCutoff(<<half, req[r].using>>) THEN Goto(r, next) ELSE Reject(r)
    /\ UNCHANGED <<clock, cutoff, password, redis, iat, history>>

ValidateRefresh(r) ==
    \/ GetKey(r, "get", "checkCutoff", "dropInactive")
    \/ CheckCutoff(r, "refresh", "checkCutoff",
                   IF req[r].op = "logout" THEN "logoutDelete" ELSE "getAgain")
    \/ GetKey(r, "getAgain", "checkAgain", "dropAgain")
    \/ CheckCutoff(r, "refresh", "checkAgain", "getOld")

\* A deletion that fails without strictness leaves an inactive key to the cutoff check.
ValidateRefreshFails(r) ==
    \/ At(r, "get") /\ RedisFails(r, "checkCutoff")
    \/ At(r, "getAgain") /\ RedisFails(r, "checkAgain")
    \/ At(r, "dropInactive")
       /\ RedisFails(r, IF req[r].op = "cleanup" THEN "done" ELSE "checkCutoff")
    \/ At(r, "dropAgain") /\ RedisFails(r, "checkAgain")

-----------------------------------------------------------------------------
(* rotate_refresh_token after its validation.                              *)

\* A key in grace answers with the pair it carries.
GetOld(r) ==
    /\ At(r, "getOld")
    /\ IF key[req[r].using] = "grace"
         THEN Finish(r, cached[req[r].using])
         ELSE Goto(r, "accessNow")
    /\ UNCHANGED <<clock, cutoff, password, redis, iat, history>>

StoreGraceOfOldPair(r) ==
    /\ At(r, "grace")
    /\ key' = [key EXCEPT ![req[r].using] = "grace"]
    /\ cached' = [cached EXCEPT ![req[r].using] = req[r].using]
    /\ Finish(r, r)
    /\ UNCHANGED <<clock, cutoff, password, blacklist, iat, history>>

\* The old key keeps the new pair for the grace time, whatever the key holds now.
StoreGrace(r) ==
    /\ At(r, "grace")
    /\ key' = [key EXCEPT ![req[r].using] = "grace"]
    /\ cached' = [cached EXCEPT ![req[r].using] = r]
    /\ Finish(r, r)
    /\ UNCHANGED <<clock, cutoff, password, blacklist, iat, history>>

RotateFails(r) ==
    \/ At(r, "getOld") /\ RedisFails(r, "accessNow")
    \/ /\ At(r, "grace") /\ r \in Unlucky
       /\ \/ TRUE \in StrictRedis /\ Reject(r)
          \/ FALSE \in StrictRedis /\ Finish(r, r)
       /\ UNCHANGED <<clock, cutoff, password, redis, iat, history>>

-----------------------------------------------------------------------------
(* generate_access_token and generate_refresh_token: read the clock, read  *)
(* the cutoff and sign; the refresh token is then stored in Redis.         *)

Sign(r, half, step, next) ==
    /\ At(r, step)
    /\ iat' = [iat EXCEPT ![<<half, r>>] = IssuedAt(req[r].now)]
    /\ Goto(r, next)
    /\ UNCHANGED <<clock, cutoff, password, redis, history>>

GenerateTokens(r) ==
    \/ At(r, "accessNow") /\ Stamp(r, "accessSign")
    \/ Sign(r, "access", "accessSign", "refreshNow")
    \/ At(r, "refreshNow") /\ Stamp(r, "refreshSign")
    \/ Sign(r, "refresh", "refreshSign", "store")

Stored(r) == IF req[r].op = "refresh" THEN Goto(r, "grace") ELSE Finish(r, r)

StoreRefresh(r) ==
    /\ At(r, "store")
    /\ key' = [key EXCEPT ![r] = "valid"]
    /\ Stored(r)
    /\ UNCHANGED <<clock, cutoff, password, cached, blacklist, iat, history>>

StoreRefreshFails(r) ==
    /\ At(r, "store") /\ r \in Unlucky
    /\ \/ TRUE \in StrictRedis /\ Reject(r)
       \/ FALSE \in StrictRedis /\ Stored(r)
    /\ UNCHANGED <<clock, cutoff, password, redis, iat, history>>

-----------------------------------------------------------------------------
(* Logout of one session.                                                  *)

\* blacklist_access_token swallows its errors; the refresh token is optional.
Blacklist(r) ==
    /\ At(r, "blacklist")
    /\ \/ blacklist' = blacklist \cup {req[r].using}
       \/ r \in Unlucky /\ UNCHANGED blacklist
    /\ Goto(r, "get") \/ Reject(r)
    /\ UNCHANGED <<clock, cutoff, password, key, cached, iat, history>>

LogoutDelete(r) ==
    /\ At(r, "logoutDelete")
    /\ \/ /\ key' = [key EXCEPT ![req[r].using] = "absent"]
          /\ Note(r, {req[r].using}, "done")
       \/ r \in Unlucky /\ Reject(r) /\ UNCHANGED key
    /\ UNCHANGED <<clock, cutoff, password, cached, blacklist, iat, history>>

-----------------------------------------------------------------------------
(* Revocation of every session: revoke_all_user_tokens and its callers.    *)

\* validate_access_token with enforce_revocation.
ValidateAccess(r) ==
    \/ /\ At(r, "checkBlacklist")
       /\ IF req[r].using \in blacklist THEN Reject(r) ELSE Goto(r, "checkAccess")
       /\ UNCHANGED <<clock, cutoff, password, redis, iat, history>>
    \/ At(r, "checkBlacklist") /\ RedisFails(r, "checkAccess")
    \/ CheckCutoff(r, "access", "checkAccess", "revokeNow")

SetPassword(r) ==
    /\ At(r, "setPassword")
    /\ password' = password + 1
    /\ Becomes(r, [req[r] EXCEPT !.pc = "revokeNow", !.epoch = password + 1])
    /\ UNCHANGED <<clock, cutoff, redis, iat, history>>

\* The stamp of a revocation; nothing keeps another one from stamping meanwhile.  It has
\* the microsecond to itself (own) unless the newest committed one was stamped in it as well.
RevokeNow(r) ==
    /\ At(r, "revokeNow")
    /\ \E now \in Readings :
        /\ clock' = now
        /\ Becomes(r, [req[r] EXCEPT !.now = now, !.pc = "revokeCommit",
                                    !.covers = Signed, !.own = (now > newest)])
    /\ UNCHANGED <<cutoff, password, redis, iat, history>>

\* What the histories keep of a revocation that is committed.
Record(r) ==
    /\ revoked' = revoked \cup req[r].covers
    /\ alone' = IF req[r].own THEN alone \cup req[r].covers ELSE alone
    /\ last' = req[r].now
    /\ newest' = IF req[r].now > newest THEN req[r].now ELSE newest
    /\ setBack' = (setBack \/ req[r].now < newest)
    /\ overtaken' = Signed

RevokeInRedisOnly(r) ==
    /\ At(r, "revokeCommit")
    /\ Record(r)
    /\ Goto(r, "revokeScan")
    /\ UNCHANGED <<clock, cutoff, password, redis, iat>>

\* invalidate_user_access_tokens: one UPDATE, whatever the row holds, so that of two
\* revocations the one that stamped first may write last.
RevokeCommit(r) ==
    /\ At(r, "revokeCommit")
    /\ cutoff' = req[r].now
    /\ Record(r)
    /\ Goto(r, "revokeScan")
    /\ UNCHANGED <<clock, password, redis, iat>>

\* A reset by token goes on to sign the pair of the new session.
Revoked(r) == Goto(r, IF req[r].op = "resetWithToken" THEN "accessNow" ELSE "done")

\* The scan and the deletion swallow Redis errors.
RevokeScan(r) ==
    /\ At(r, "revokeScan")
    /\ \/ Note(r, {p \in Requests : key[p] # "absent"}, "revokeDelete")
       \/ r \in Unlucky /\ Revoked(r)
    /\ UNCHANGED <<clock, cutoff, password, redis, iat, history>>

RevokeDelete(r) ==
    /\ At(r, "revokeDelete")
    /\ \/ key' = [p \in Requests |-> IF p \in req[r].keys THEN "absent" ELSE key[p]]
       \/ r \in Unlucky /\ UNCHANGED key
    /\ Revoked(r)
    /\ UNCHANGED <<clock, cutoff, password, cached, blacklist, iat, history>>

-----------------------------------------------------------------------------
(* Time: the grace and the lifetime of a key end, a key becomes inactive.  *)

KeyExpires(p) ==
    /\ key[p] # "absent"
    /\ key' = [key EXCEPT ![p] = "absent"]
    /\ UNCHANGED <<clock, cutoff, password, cached, blacklist, iat, req, history>>

KeyGoesInactive(p) ==
    /\ key[p] = "valid"
    /\ key' = [key EXCEPT ![p] = "inactive"]
    /\ UNCHANGED <<clock, cutoff, password, cached, blacklist, iat, req, history>>

\* Every request that began is over.
Quiescent ==
    /\ \A r \in Requests : At(r, "done") \/ At(r, "start")
    /\ UNCHANGED vars

Step(r) ==
    \/ BeginLogin(r) \/ BeginRefresh(r) \/ BeginLogout(r) \/ BeginLogoutAll(r)
    \/ BeginChangePassword(r) \/ BeginResetPassword(r) \/ BeginCleanup(r)
    \/ ValidateRefresh(r) \/ ValidateRefreshFails(r) \/ DropInactive(r)
    \/ GetOld(r) \/ StoreGrace(r) \/ RotateFails(r)
    \/ GenerateTokens(r) \/ StoreRefresh(r) \/ StoreRefreshFails(r)
    \/ Blacklist(r) \/ LogoutDelete(r)
    \/ ValidateAccess(r) \/ SetPassword(r)
    \/ RevokeNow(r) \/ RevokeCommit(r) \/ RevokeScan(r) \/ RevokeDelete(r)

Next ==
    \/ \E r \in Requests : Step(r)
    \/ \E p \in Requests : KeyExpires(p) \/ KeyGoesInactive(p)
    \/ Quiescent

Spec == Init /\ [][Next]_vars

-----------------------------------------------------------------------------
(* Properties.                                                             *)

Request ==
    [op : Operations, pc : Steps, using : Requests \cup {NoPair},
     answer : Requests \cup {NoPair}, now : Nat, epoch : Nat,
     keys : SUBSET Requests, covers : SUBSET JWTs, own : BOOLEAN, late : BOOLEAN]

\* The steps that work with the pair the request presented.
PresentSteps == {"get", "checkCutoff", "getAgain", "checkAgain", "getOld", "blacklist",
                 "logoutDelete", "dropInactive", "dropAgain",
                 "checkBlacklist", "checkAccess"}

PairPresented ==
    \A r \in Requests : req[r].pc \in PresentSteps => req[r].using \in Requests

\* Every variable keeps its type; a request has a pair where it needs one.
TypeOK ==
    /\ clock \in Nat /\ cutoff \in Nat /\ password \in Nat
    /\ key \in [Requests -> KeyStates]
    /\ cached \in [Requests -> Requests \cup {NoPair}]
    /\ blacklist \subseteq Requests
    /\ iat \in [JWTs -> Nat]
    /\ req \in [Requests -> Request]
    /\ revoked \subseteq JWTs /\ alone \subseteq JWTs /\ overtaken \subseteq JWTs
    /\ last \in Nat /\ newest \in Nat /\ setBack \in BOOLEAN
    /\ PairPresented

\* A JWT that existed when a revocation of all sessions began is not accepted once that
\* revocation is committed, whether or not Redis was reachable (revoke_all_user_tokens),
\* in every state in which the last revocation to commit is the newest.  A revocation that shares its
\* microsecond with the one before promises nothing of its own: the sessions opened
\* between the two are marked past that microsecond.
RevocationIsFinal == last = newest => \A t \in alone : ~Accepted(t)

\* A JWT signed after the cutoff was last written is newer than the cutoff: a fresh
\* session never inherits the revoked epoch (_issued_at_us_after_user_cutoff).
FreshTokensOutliveTheCutoff == \A t \in Signed \ overtaken : PassesCutoff(t)

\* A refresh that presents a pair which was revoked before the request began signs
\* nothing and answers with nothing, not even with the pair kept for replays, nor when
\* a rotation in flight wrote its grace value over the deleted key; unless overlapping
\* revocations have set the cutoff back.
RevokedPairsOpenNothing ==
    ~setBack => \A r \in Requests : req[r].op = "refresh" /\ req[r].late =>
        /\ req[r].answer = NoPair
        /\ iat[<<"refresh", r>>] = 0

\* A replay is answered with a pair that a rotation of the same refresh token signed,
\* under the same authentication.
ReplaysStayInTheSession ==
    \A r \in Requests : req[r].op = "refresh" /\ req[r].answer \notin {r, NoPair} =>
        /\ req[req[r].answer].op = "refresh"
        /\ req[req[r].answer].using = req[r].using
        /\ req[req[r].answer].epoch = req[r].epoch

\* What the code says and does not do.

\* "duplicate mobile refresh requests return the same rotated token pair"
\* (tokens.py, module docstring).
DuplicatesShareOnePair ==
    \A r, q \in Requests :
        /\ req[r].op = "refresh" /\ req[q].op = "refresh"
        /\ req[r].using = req[q].using
        /\ NoPair \notin {req[r].answer, req[q].answer}
        => req[r].answer = req[q].answer

\* "Access tokens issued before this call are invalidated through the user's
\* database-backed cutoff" (revoke_all_user_tokens): none is accepted afterwards.
RevokedSessionsEnd == \A t \in revoked : ~Accepted(t)

\* "Password changes always invalidate all existing sessions" (change_password):
\* no pair that continues a session opened under an earlier password is accepted.
PasswordChangeEndsSessions ==
    (\A r \in Requests : ~At(r, "revokeNow") /\ ~At(r, "revokeCommit")) =>
        \A p \in Returned :
            req[p].op = "refresh" /\ Accepted(<<"refresh", p>>) => req[p].epoch = password

\* "On logout: refresh token is immediately revoked in Redis (no new tokens issued)"
\* (tokens.py, module docstring).
LoggedOutStaysOut ==
    \A r \in Requests : req[r].op = "logout" /\ At(r, "done") =>
        \A p \in req[r].keys : ~Accepted(<<"refresh", p>>)

=============================================================================
