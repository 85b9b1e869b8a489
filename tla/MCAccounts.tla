----------------------------- MODULE MCAccounts -----------------------------
(* Small instances of what precedes a session, names a user, limits and    *)
(* supports them, and of the texts they read, which share no state, in one *)
(* run: the focus, fixed from the start, says which of them moves.  They   *)
(* are extended, not instances, so that the run checks the very invariants *)
(* that their theorems state.                                              *)
EXTENDS Registration, Support, Otp, Usernames, Scripture, Limits, TLC

CONSTANT Focuses

VARIABLE focus

vars == <<focus, otpVars, registrationVars, usernameVars, scriptureVars, supportVars, limitVars>>

-----------------------------------------------------------------------------
(* One-time codes: which operation each of four requests may be, and how.  *)

\* Account actions and email verification: three sends and a verification.
Sending == "r1" :> {"send"} @@ "r2" :> {"send"} @@ "r3" :> {"send"} @@ "r4" :> {"verify"}

\* A send and three uses of codes, one of which may be another send.
Checking == "r1" :> {"send"} @@ "r2" :> {"verify", "send"} @@ "r3" :> {"verify"} @@ "r4" :> {"verify"}

\* The older email verification.
Verifying ==
    "r1" :> {"sendFree", "resend"} @@ "r2" :> {"verifyEmail", "resend"} @@ "r3" :> {"verifyEmail"}
    @@ "r4" :> {"resend"}

\* A change of password.
Changing ==
    "r1" :> {"send"} @@ "r2" :> {"verifyChange", "send"} @@ "r3" :> {"verifyChange"}
    @@ "r4" :> {"verifyChange"}

\* A password reset in two steps, next to the older one in one step.
Resetting ==
    "r1" :> {"send", "sendFree"} @@ "r2" :> {"verifyAndReset", "resetLegacy"}
    @@ "r3" :> {"resetWithToken", "verifyAndReset"} @@ "r4" :> {"resetWithToken", "resetLegacy"}

\* As few requests as it takes to overlap.
SendsAndUses ==
    "r1" :> {"send"} @@ "r2" :> {"send", "verify", "verifyEmail"} @@ "r3" :> {"verify"} @@ "r4" :> {}

Setup(mayBe, strict, overlap) == [mayBe |-> mayBe, strict |-> strict, overlap |-> overlap]

SetupsOfCodes ==
    {Setup(Sending, TRUE, FALSE), Setup(Checking, TRUE, FALSE), Setup(Changing, TRUE, FALSE),
     Setup(Verifying, TRUE, FALSE), Setup(Verifying, FALSE, FALSE),
     Setup(Resetting, TRUE, FALSE), Setup(Resetting, FALSE, FALSE), Setup(SendsAndUses, TRUE, TRUE)}

-----------------------------------------------------------------------------
(* Registration: one address that its owner, others, Google and Apple use. *)

Claim(provider, identity, email, proved) ==
    [provider |-> provider, identity |-> identity, email |-> email, proved |-> proved]

ClaimsOfFour ==
    {Claim("google", "g", {"e"}, TRUE), Claim("google", "h", {"e"}, FALSE),
     Claim("apple", "s", {"e"}, TRUE), Claim("apple", "s", {}, FALSE)}

CoursesOfThree ==
    {{"register", "verify", "sign in"}, {"register", "reset", "verify"}, {"sign in", "add", "reset", "register"}}

-----------------------------------------------------------------------------
(* Usernames: two users and two names, one of which has two spellings.     *)

PopulationsOfTwo == {[u1 |-> {<<"x", 1>>}, u2 |-> {}], [u1 |-> {<<"x", 1>>}, u2 |-> {<<"y", 1>>}]}

-----------------------------------------------------------------------------
(* Scripture: a book of three chapters under two names and in two          *)
(* translations, imported by one or two, and a text that three read.       *)

Plan(offered, name, orders, fails, imports, readers, verse) ==
    [offered |-> offered, name |-> name, orders |-> orders, fails |-> fails,
     imports |-> imports, readers |-> readers, verse |-> verse]
Whole == [k |-> 3, w |-> 3]

PlansOfThree ==
    {Plan([k |-> 3, w |-> 2], 1, {<<"k", "w">>}, TRUE, {"i1"}, {}, FALSE),
     Plan(Whole, 2, {<<"k">>}, TRUE, {"i1"}, {}, FALSE),
     Plan(Whole, 1, {<<"w", "k">>}, FALSE, {"i1", "i2"}, {}, FALSE),
     Plan(Whole, 1, {}, TRUE, {}, {"r1", "r2", "r3"}, FALSE),
     Plan(Whole, 1, {}, TRUE, {}, {"r1", "r2", "r3"}, TRUE)}

-----------------------------------------------------------------------------
(* Support: two conversations and four messages, written two at a time.    *)

VisitsOfTwo == {{"submit", "form"}, {"submit", "send"}}

-----------------------------------------------------------------------------

Init ==
    /\ focus \in Focuses
    /\ OtpInit /\ (focus # "codes" => setup = Setup(Sending, TRUE, FALSE))
    /\ RegistrationInit /\ (focus # "sign-up" => course = {"register", "verify", "sign in"})
    /\ UsernamesInit /\ (focus # "names" => user["u2"] = NoUser)
    /\ ScriptureInit /\ (focus # "scripture" => plan.orders = {<<"k">>})
    /\ SupportInit /\ (focus # "support" => visit = {"submit", "form"})
    /\ LimitsInit

In(f, others) == focus = f /\ UNCHANGED <<focus, others>>
InCodes == In("codes", <<registrationVars, usernameVars, scriptureVars, supportVars, limitVars>>)
InSignUp == In("sign-up", <<otpVars, usernameVars, scriptureVars, supportVars, limitVars>>)
InNames == In("names", <<otpVars, registrationVars, scriptureVars, supportVars, limitVars>>)
InTexts == In("scripture", <<otpVars, registrationVars, usernameVars, supportVars, limitVars>>)
InSupport == In("support", <<otpVars, registrationVars, usernameVars, scriptureVars, limitVars>>)
InLimits == In("limits", <<otpVars, registrationVars, usernameVars, scriptureVars, supportVars>>)

Next ==
    \/ InCodes /\ OtpNext
    \/ InSignUp /\ RegistrationNext
    \/ InNames /\ UsernamesNext
    \/ InTexts /\ ScriptureNext
    \/ InSupport /\ SupportNext
    \/ InLimits /\ LimitsNext

Spec == Init /\ [][Next]_vars

-----------------------------------------------------------------------------

TypeOK ==
    CASE focus = "codes" -> OtpTypeOK
      [] focus = "sign-up" -> RegistrationTypeOK
      [] focus = "names" -> NamesTypeOK
      [] focus = "scripture" -> ScriptureTypeOK
      [] focus = "support" -> SupportTypeOK
      [] focus = "limits" -> LimitsTypeOK

=============================================================================
