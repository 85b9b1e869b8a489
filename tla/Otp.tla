-------------------------------- MODULE Otp --------------------------------
(***************************************************************************)
(* The one-time codes of one user for one purpose (core/authentication/    *)
(* otp_service.py), and the reset tokens that a password reset exchanges   *)
(* them for.  Keys are named after the purpose, so that codes of different *)
(* purposes share nothing.  Redis holds the code, the counter of wrong     *)
(* attempts, that of resends and the cooldown.  A request is a process that *)
(* runs once; a step is one Redis command or pipeline, which may raise     *)
(* before it has taken effect.                                             *)
(*                                                                         *)
(* Codes are numbered in the order they are sent; 0 is no code.            *)
(***************************************************************************)
EXTENDS Naturals, FiniteSets

CONSTANTS
    CodeRequests,   \* the requests, which also name the reset tokens they store
    MaxAttempts,    \* max_attempts
    MaxResends,     \* OTPService.MAX_RESENDS_PER_PURPOSE
    Setups          \* the circumstances to consider; see SetupAssumption

CodeOperations == {"none", "sendFree", "send", "resend", "verify", "verifyEmail",
                   "verifyAndReset", "verifyChange", "resetLegacy", "resetWithToken"}

\* Which operations each request may turn out to be, settings.AUTH_STRICT_REDIS, and
\* whether the requests of the user may overlap in time.  No purpose has both flows that limit.
ASSUME SetupAssumption ==
    Setups \subseteq
      {s \in [mayBe : [CodeRequests -> SUBSET CodeOperations], strict : BOOLEAN, overlap : BOOLEAN] :
         \A q, r \in CodeRequests : "send" \in s.mayBe[q] => "resend" \notin s.mayBe[r]}
ASSUME LimitAssumption == MaxAttempts \in Nat \ {0} /\ MaxResends \in Nat \ {0}
VARIABLES
    otp,        \* otp:{purpose}:{user}: the stored code, 0 for none
    sent,       \* the number of the last code generated
    attempts,   \* otp_attempts:{purpose}:{email}
    resends,    \* otp:resend:{purpose}:{email}, or otp_resend: of the older flow
    cooldown,   \* otp:cooldown:{purpose}:{email} is set
    tokens,     \* the stored reset tokens
    req,        \* the progress of each request
    wrong,      \* history: answers that said wrong code since attempts began to count
    delivered,  \* history: codes that those who are limited were told are sent, since resends
                \* began to count
    setup       \* the circumstances, fixed from the start

redis == <<otp, attempts, resends, cooldown, tokens>>
history == <<wrong, delivered>>
otpVars == <<redis, sent, req, history, setup>>

\* The operations that take a code.
Verifications == {"verify", "verifyEmail", "verifyAndReset", "verifyChange", "resetLegacy"}
Steps == {"start", "count", "cooldown", "setCooldown", "incrResends", "store", "check", "get",
          "incrAttempts", "delete", "clearAttempts", "clearResends", "clearCooldown",
          "storeToken", "getToken", "deleteToken", "done"}
Answers == {"none", "sent", "ok", "wrong", "expired", "limited", "wait", "failed"}

OtpInit ==
    /\ otp = 0 /\ sent = 0 /\ attempts = 0 /\ resends = 0 /\ cooldown = FALSE /\ tokens = {}
    /\ req = [r \in CodeRequests |->
                [op |-> "none", pc |-> "start", code |-> 0, from |-> 0, answer |-> "none"]]
    /\ setup \in Setups
    /\ wrong = 0 /\ delivered = 0

-----------------------------------------------------------------------------

At(r, step) == req[r].pc = step
Is(r, ops) == req[r].op \in ops
Goto(r, step) == req' = [req EXCEPT ![r].pc = step]
Answer(r, what) == req' = [req EXCEPT ![r].pc = "done", ![r].answer = what]

\* _handle_otp_redis_failure, around the limits: they are skipped unless strict.
LimitFails(r, next) ==
    /\ IF setup.strict THEN Answer(r, "failed") ELSE Goto(r, next)
    /\ UNCHANGED <<redis, sent, history, setup>>

\* A failure anywhere else fails the request.
Fails(r) ==
    /\ Answer(r, "failed")
    /\ UNCHANGED <<redis, sent, history, setup>>

\* Without overlap requests come one by one, and short as they are no window of the
\* resends ends during one.
Quiet == setup.overlap \/ \A s \in CodeRequests : req[s].pc \in {"start", "done"}

\* A request enters a code: any that was sent, or one that never was (0).  from is
\* the code stored when it began.
Begin(r, op, step, entered) ==
    /\ At(r, "start")
    /\ op \in setup.mayBe[r]
    /\ Quiet
    /\ req' = [req EXCEPT ![r].op = op, ![r].pc = step, ![r].code = entered, ![r].from = otp]
    /\ UNCHANGED <<redis, sent, history, setup>>

-----------------------------------------------------------------------------
(* Sending: unified_send_otp and send_password_change_otp with progressive *)
(* delays (send), resend_verification_otp with the count alone (resend),   *)
(* send_verification_otp and request_password_reset with neither           *)
(* (sendFree).                                                             *)

BeginSend(r) ==
    \/ Begin(r, "send", "count", 0)
    \/ Begin(r, "resend", "count", 0)
    \/ Begin(r, "sendFree", "store", 0)

\* Mutant, used by no specification, as are all that are marked so: a plausible bug
\* in the definition that follows.
CountResendsLate(r) ==
    /\ At(r, "count")
    /\ IF resends > MaxResends THEN Answer(r, "limited")
       ELSE Goto(r, IF Is(r, {"resend"}) THEN "store"
                    ELSE IF resends > 0 THEN "cooldown" ELSE "setCooldown")
    /\ UNCHANGED <<redis, sent, history, setup>>

\* The count is read; after the first code the cooldown matters too.
CountResends(r) ==
    /\ At(r, "count")
    /\ IF resends >= MaxResends THEN Answer(r, "limited")
       ELSE Goto(r, IF Is(r, {"resend"}) THEN "store"
                    ELSE IF resends > 0 THEN "cooldown" ELSE "setCooldown")
    /\ UNCHANGED <<redis, sent, history, setup>>

CheckCooldown(r) ==
    /\ At(r, "cooldown")
    /\ IF cooldown THEN Answer(r, "wait") ELSE Goto(r, "setCooldown")
    /\ UNCHANGED <<redis, sent, history, setup>>

SetCooldown(r) ==
    /\ At(r, "setCooldown")
    /\ cooldown' = TRUE
    /\ Goto(r, "incrResends")
    /\ UNCHANGED <<otp, attempts, resends, tokens, sent, history, setup>>

\* The unified flow counts before it sends, the older one after it has sent.
IncrResends(r) ==
    /\ At(r, "incrResends")
    /\ resends' = resends + 1
    /\ \/ Is(r, {"resend"}) /\ delivered' = delivered + 1 /\ Answer(r, "sent")
       \/ ~ Is(r, {"resend"}) /\ UNCHANGED delivered /\ Goto(r, "store")
    /\ UNCHANGED <<otp, attempts, cooldown, tokens, sent, wrong, setup>>

\* A resend whose count fails has sent its code, whatever it answers.
IncrResendsFails(r) ==
    /\ At(r, "incrResends")
    /\ \/ setup.strict /\ Answer(r, "failed") /\ UNCHANGED delivered
       \/ /\ ~ setup.strict /\ Is(r, {"resend"})
          /\ delivered' = delivered + 1 /\ Answer(r, "sent")
       \/ ~ setup.strict /\ ~ Is(r, {"resend"}) /\ UNCHANGED delivered /\ Goto(r, "store")
    /\ UNCHANGED <<redis, sent, wrong, setup>>

\* _send_otp: the code replaces any other one and is emailed.
Store(r) ==
    /\ At(r, "store")
    /\ sent' = sent + 1
    /\ otp' = sent + 1
    /\ delivered' = IF Is(r, {"send"}) THEN delivered + 1 ELSE delivered
    /\ IF Is(r, {"resend"}) THEN Goto(r, "incrResends") ELSE Answer(r, "sent")
    /\ UNCHANGED <<attempts, resends, cooldown, tokens, wrong, setup>>

\* The code is stored but no email can be queued; the resend is not counted.
StoreUnsent(r) ==
    /\ At(r, "store")
    /\ sent' = sent + 1
    /\ otp' = sent + 1
    /\ Answer(r, "failed")
    /\ UNCHANGED <<attempts, resends, cooldown, tokens, history, setup>>

-----------------------------------------------------------------------------
(* Verifying: unified_verify_otp and verify_account_action_otp (verify),   *)
(* the same for a password reset, which stores a reset token               *)
(* (verifyAndReset), verify_email_otp, verify_password_change_otp          *)
(* (verifyChange), and the older reset_password, which counts nothing.     *)

BeginVerify(r) ==
    \E entered \in 0 .. sent :
        \/ Begin(r, "verify", "check", entered)
        \/ Begin(r, "verifyEmail", "check", entered)
        \/ Begin(r, "verifyAndReset", "check", entered)
        \/ Begin(r, "verifyChange", "check", entered)
        \/ Begin(r, "resetLegacy", "get", entered)

\* _check_otp_attempts
CheckAttempts(r) ==
    /\ At(r, "check")
    /\ IF attempts >= MaxAttempts THEN Answer(r, "limited") ELSE Goto(r, "get")
    /\ UNCHANGED <<redis, sent, history, setup>>

Entered(r) == req[r].code # 0 /\ req[r].code = otp
\* The verdict that IncrAttempts gives once it has counted the attempt.
Verdict(r, what) == req' = [req EXCEPT ![r].pc = "incrAttempts", ![r].answer = what]

\* Mutant.
CompareWithAnySent(r) ==
    /\ At(r, "get")
    /\ IF req[r].code # 0 THEN Goto(r, "delete") ELSE Verdict(r, "wrong")
    /\ UNCHANGED <<redis, sent, history, setup>>

\* The code is read and compared; what happens next follows from it.
Compare(r) ==
    /\ At(r, "get")
    /\ \/ Entered(r) /\ Goto(r, "delete")
       \/ /\ ~ Entered(r) /\ Is(r, {"verify", "verifyEmail", "verifyAndReset"})
          /\ Verdict(r, IF otp = 0 THEN "expired" ELSE "wrong")
       \/ /\ ~ Entered(r) /\ Is(r, {"verifyChange"})
          /\ IF otp = 0 THEN Answer(r, "expired") ELSE Verdict(r, "wrong")
       \/ /\ ~ Entered(r) /\ Is(r, {"resetLegacy"})
          /\ Answer(r, IF otp = 0 THEN "expired" ELSE "wrong")
    /\ UNCHANGED <<redis, sent, history, setup>>

\* Mutant.
CountAndDropCode(r) ==
    /\ At(r, "incrAttempts")
    /\ attempts' = attempts + 1
    /\ otp' = IF attempts + 1 = MaxAttempts THEN 0 ELSE otp
    /\ wrong' = wrong + 1
    /\ Goto(r, "done")
    /\ UNCHANGED <<resends, cooldown, tokens, sent, delivered, setup>>

\* _increment_otp_attempts: the answer follows.
IncrAttempts(r) ==
    /\ At(r, "incrAttempts")
    /\ attempts' = attempts + 1
    /\ wrong' = wrong + 1
    /\ Goto(r, "done")
    /\ UNCHANGED <<otp, resends, cooldown, tokens, sent, delivered, setup>>

\* Without AUTH_STRICT_REDIS a failure to count still gives the answer.
IncrAttemptsFails(r) ==
    /\ At(r, "incrAttempts")
    /\ IF setup.strict THEN Answer(r, "failed") /\ UNCHANGED wrong
                      ELSE Goto(r, "done") /\ wrong' = wrong + 1
    /\ UNCHANGED <<redis, sent, delivered, setup>>

\* Mutant.
DeleteOnlyIfItClears(r) ==
    /\ At(r, "delete")
    /\ otp' = IF Is(r, {"verifyChange"}) THEN otp ELSE 0
    /\ IF Is(r, {"verifyChange", "resetLegacy"}) THEN Answer(r, "ok") ELSE Goto(r, "clearAttempts")
    /\ UNCHANGED <<attempts, resends, cooldown, tokens, sent, history, setup>>

\* The key is deleted, whatever it holds by now.
Delete(r) ==
    /\ At(r, "delete")
    /\ otp' = 0
    /\ IF Is(r, {"verifyChange", "resetLegacy"}) THEN Answer(r, "ok") ELSE Goto(r, "clearAttempts")
    /\ UNCHANGED <<attempts, resends, cooldown, tokens, sent, history, setup>>

ClearAttempts(r) ==
    /\ At(r, "clearAttempts")
    /\ attempts' = 0 /\ wrong' = 0
    /\ IF Is(r, {"verifyEmail"}) THEN Answer(r, "ok") ELSE Goto(r, "clearResends")
    /\ UNCHANGED <<otp, resends, cooldown, tokens, sent, delivered, setup>>

ClearResends(r) ==
    /\ At(r, "clearResends")
    /\ resends' = 0 /\ delivered' = 0
    /\ Goto(r, "clearCooldown")
    /\ UNCHANGED <<otp, attempts, cooldown, tokens, sent, wrong, setup>>

ClearCooldown(r) ==
    /\ At(r, "clearCooldown")
    /\ cooldown' = FALSE
    /\ IF Is(r, {"verifyAndReset"}) THEN Goto(r, "storeToken") ELSE Answer(r, "ok")
    /\ UNCHANGED <<otp, attempts, resends, tokens, sent, history, setup>>

StoreToken(r) ==
    /\ At(r, "storeToken")
    /\ tokens' = tokens \union {r}
    /\ Answer(r, "ok")
    /\ UNCHANGED <<otp, attempts, resends, cooldown, sent, history, setup>>

-----------------------------------------------------------------------------
(* reset_password_with_token.                                              *)

\* The token comes from a verification; the request stands for the code it came from.
BeginReset(r) ==
    \E v \in CodeRequests :
        /\ Is(v, {"verifyAndReset"}) /\ req[v].answer = "ok"
        /\ Begin(r, "resetWithToken", "getToken", req[v].code)

TokenOf(r) == {v \in tokens : req[v].code = req[r].code}

GetToken(r) ==
    /\ At(r, "getToken")
    /\ IF TokenOf(r) = {} THEN Answer(r, "expired") ELSE Goto(r, "deleteToken")
    /\ UNCHANGED <<redis, sent, history, setup>>

\* The token is deleted and the password set.
DeleteToken(r) ==
    /\ At(r, "deleteToken")
    /\ tokens' = tokens \ TokenOf(r)
    /\ Answer(r, "ok")
    /\ UNCHANGED <<otp, attempts, resends, cooldown, sent, history, setup>>

-----------------------------------------------------------------------------
(* Expiry in Redis.                                                        *)

CodeExpires ==
    /\ otp # 0
    /\ otp' = 0
    /\ UNCHANGED <<attempts, resends, cooldown, tokens, sent, req, history, setup>>

AttemptsExpire ==
    /\ attempts > 0
    /\ attempts' = 0 /\ wrong' = 0
    /\ UNCHANGED <<otp, resends, cooldown, tokens, sent, req, delivered, setup>>

ResendsExpire ==
    /\ resends > 0
    /\ Quiet
    /\ resends' = 0 /\ delivered' = 0
    /\ UNCHANGED <<otp, attempts, cooldown, tokens, sent, req, wrong, setup>>

CooldownEnds ==
    /\ cooldown
    /\ cooldown' = FALSE
    /\ UNCHANGED <<otp, attempts, resends, tokens, sent, req, history, setup>>

TokenExpires ==
    \E v \in tokens :
        /\ tokens' = tokens \ {v}
        /\ UNCHANGED <<otp, attempts, resends, cooldown, sent, req, history, setup>>

-----------------------------------------------------------------------------

Sends(r) ==
    \/ BeginSend(r) \/ CountResends(r) \/ CheckCooldown(r) \/ SetCooldown(r)
    \/ IncrResends(r) \/ IncrResendsFails(r) \/ Store(r) \/ StoreUnsent(r)
    \/ \E step \in {"count", "cooldown", "setCooldown"} :
         At(r, step) /\ LimitFails(r, "store")
    \/ At(r, "store") /\ Fails(r)

Checks(r) ==
    \/ BeginVerify(r) \/ CheckAttempts(r) \/ Compare(r) \/ IncrAttempts(r)
    \/ IncrAttemptsFails(r) \/ Delete(r) \/ ClearAttempts(r) \/ ClearResends(r)
    \/ ClearCooldown(r) \/ StoreToken(r)
    \/ At(r, "check") /\ LimitFails(r, "get")
    \/ \E step \in {"get", "delete", "clearAttempts", "clearResends", "clearCooldown",
                    "storeToken"} : At(r, step) /\ Fails(r)

Resets(r) ==
    \/ BeginReset(r) \/ GetToken(r) \/ DeleteToken(r)
    \/ \E step \in {"getToken", "deleteToken"} : At(r, step) /\ Fails(r)

Expiry == CodeExpires \/ AttemptsExpire \/ ResendsExpire \/ CooldownEnds \/ TokenExpires

Codes(r) == Sends(r) \/ Checks(r)

Handles(r) == Codes(r) \/ Resets(r)

OtpNext ==
    \/ \E r \in CodeRequests : Handles(r)
    \/ Expiry

OtpSpec == OtpInit /\ [][OtpNext]_otpVars

-----------------------------------------------------------------------------
(* Properties.                                                             *)

\* The state has its type.
OtpTypeOK ==
    /\ otp \in Nat /\ sent \in Nat /\ attempts \in Nat /\ resends \in Nat
    /\ cooldown \in BOOLEAN /\ tokens \subseteq CodeRequests
    /\ req \in [CodeRequests ->
         [op : CodeOperations, pc : Steps, code : Nat, from : Nat, answer : Answers]]
    /\ setup \in Setups
    /\ wrong \in Nat /\ delivered \in Nat

Used(c, ops) == {r \in CodeRequests : Is(r, ops) /\ req[r].code = c /\ req[r].answer = "ok"}

\* A code, and the reset token it is exchanged for, is good for one success: it is
\* deleted before the request goes on, and a failure after that does not bring it back.
\* (Overlapping requests may both have read it.)
OneSuccessEach ==
    ~ setup.overlap => \A c \in 1 .. sent :
        /\ Cardinality(Used(c, Verifications)) <= 1
        /\ Cardinality(Used(c, {"resetWithToken"})) <= 1

\* A code that another one had replaced when the request began is not accepted.
ReplacedCodesAreRejected ==
    \A r \in CodeRequests :
        Is(r, Verifications) /\ req[r].answer = "ok" => req[r].code >= req[r].from

\* What the codes of unified_verify_otp, verify_email_otp, verify_password_change_otp and the
\* resets open: one success for each, and none for a code that another one had replaced.
CodesAreUsedOnce == OneSuccessEach /\ ReplacedCodesAreRejected

\* Between two resets of its counter, at most MaxAttempts attempts are answered with wrong
\* or expired by the flows that count them, and at most MaxResends codes are sent by the flows
\* that limit them and answered with success, while Redis is strict and requests do not overlap.
CodeLimitsHold == setup.strict /\ ~ setup.overlap => wrong <= MaxAttempts /\ delivered <= MaxResends

\* Codes are good for one success, and attempts and resends end at their limits.
CodesHold == CodesAreUsedOnce /\ CodeLimitsHold

\* A code that was sent (_send_otp) goes only by expiry, by the next code, or by its own use,
\* while requests do not overlap: no wrong attempt and no failure takes it away.
SentCodesStayUsable ==
    [][~ setup.overlap /\ otp # 0 /\ otp' = 0 =>
        \/ req' = req
        \/ \E r \in CodeRequests : At(r, "delete") /\ req'[r] # req[r] /\ req[r].code = otp]_otpVars

=============================================================================
