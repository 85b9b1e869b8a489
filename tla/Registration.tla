---------------------------- MODULE Registration ----------------------------
(***************************************************************************)
(* How an account comes to be, and what opens it: sign-up with a password  *)
(* (core/authentication/services.py), the code that proves the address     *)
(* (otp_service.py), sign-in with Google and Apple (oauth_service.py), and *)
(* the passwords that are added or reset later (password_service.py).      *)
(*                                                                         *)
(* A sign-up that nobody has proved may be made again, by anyone: it       *)
(* replaces the row.  The statements of a request commit one by one, each  *)
(* writes only the columns it names, and all of them go by what the        *)
(* request read first.  What is unique (the address, and the identity at   *)
(* each provider) is held by constraints of the database.                  *)
(***************************************************************************)
EXTENDS Naturals, FiniteSets, FiniteSetsExt

CONSTANTS
    Emails,         \* addresses, each with an owner who reads what is sent to it
    Providers,      \* Google, Apple
    Claims,         \* what providers say of who signs in: an identity, the address it has,
                    \* or none (Apple after the first time), and whether they proved it
    Requests,       \* at a time
    MaxAccounts,    \* bound: rows ever added
    MaxChanges,     \* bound: requests
    Courses         \* what to explore: the operations there are

Accounts == 1 .. MaxAccounts
Operations == {"register", "verify", "sign in", "reset", "add"}

ASSUME RegistrationAssumption ==
    /\ MaxAccounts \in Nat /\ MaxChanges \in Nat
    /\ Claims \subseteq [provider : Providers, identity : STRING, email : SUBSET Emails, proved : BOOLEAN]
    /\ \A c, d \in Claims : c.proved /\ d.proved /\ c.provider = d.provider /\ c.email = d.email => c = d
    /\ Courses \subseteq SUBSET Operations

VARIABLES
    row,        \* the account of each row
    added,      \* rows ever added
    code,       \* rows whose verification code is stored
    reset,      \* rows whose reset code is stored
    request,    \* the progress of each request
    begun,      \* requests so far
    typed,      \* history: rows with a password from sign-up that nobody proved to be the owner's
    course      \* fixed from the start

registrationVars == <<row, added, code, reset, request, begun, typed, course>>

NoAccount == [email |-> {}, verified |-> FALSE, password |-> FALSE, linked |-> {}]
NoRequest == [pc |-> "idle", email |-> {}, account |-> {}, seen |-> NoAccount, claim |-> {}]

RegistrationInit ==
    /\ course \in Courses
    /\ row = [a \in Accounts |-> NoAccount] /\ added = {}
    /\ code = {} /\ reset = {} /\ typed = {}
    /\ request = [r \in Requests |-> NoRequest] /\ begun = 0

-----------------------------------------------------------------------------

Rows == {a \in Accounts : row[a] # NoAccount}
AccountOf(e) == {a \in Rows : row[a].email = e}
Identity(c) == <<c.provider, c.identity>>
LinkedTo(c) == {a \in Rows : Identity(c) \in row[a].linked}
LinkedHere(account, p) == {i \in account.linked : i[1] = p}

Begins(r, pc, e, found, c) ==
    /\ request[r] = NoRequest /\ begun < MaxChanges /\ begun' = begun + 1
    /\ request' = [request EXCEPT ![r] = [pc |-> pc, email |-> e, account |-> found,
            seen |-> IF found = {} THEN NoAccount ELSE row[Max(found)], claim |-> c]]
Goes(r, pc) == request' = [request EXCEPT ![r].pc = pc]
Ends(r) == request' = [request EXCEPT ![r] = NoRequest]

Adds(account) ==
    /\ added # Accounts
    /\ LET a == Min(Accounts \ added) IN
        row' = [row EXCEPT ![a] = account] /\ added' = added \union {a}

KeepsRows == UNCHANGED <<row, added>>
KeepsCodes == UNCHANGED <<code, reset>>

-----------------------------------------------------------------------------
(* Sign-up with a password.                                                *)

\* An account that was proved is left alone.
Register(r, e) ==
    /\ "register" \in course
    /\ \A a \in AccountOf({e}) : ~ row[a].verified
    /\ Begins(r, IF AccountOf({e}) = {} THEN "create" ELSE "replace", {e}, AccountOf({e}), {})
    /\ KeepsRows /\ KeepsCodes /\ UNCHANGED <<typed, course>>

\* Mutant, used by no specification, as are all that are marked so: a plausible bug
\* in the definition that follows.
OverwriteUnverified(r) ==
    /\ request[r].pc = "replace"
    /\ \E a \in request[r].account :
        /\ row' = [row EXCEPT ![a] = IF @ = NoAccount THEN @ ELSE [@ EXCEPT !.password = TRUE]]
        /\ typed' = typed \union {a}
    /\ Ends(r)
    /\ KeepsCodes /\ UNCHANGED <<added, begun, course>>

\* The row goes as it was found, whatever it has become.
ReplaceUnverified(r) ==
    /\ request[r].pc = "replace"
    /\ row' = [a \in Accounts |-> IF a \in request[r].account THEN NoAccount ELSE row[a]]
    /\ Goes(r, "create")
    /\ KeepsCodes /\ UNCHANGED <<added, begun, typed, course>>

\* The name, or by now the address, may be taken.
CreateUser(r) ==
    /\ request[r].pc = "create"
    /\ \/ /\ AccountOf(request[r].email) = {}
          /\ Adds([NoAccount EXCEPT !.email = request[r].email, !.password = TRUE])
          /\ typed' = typed \union (added' \ added)
          /\ request' = [request EXCEPT ![r].pc = "send", ![r].account = added' \ added]
       \/ Ends(r) /\ UNCHANGED <<row, added, typed>>
    /\ KeepsCodes /\ UNCHANGED <<begun, course>>

\* The code is stored for the row; the queue of mails may fail, which leaves the account.
SendOtp(r) ==
    /\ request[r].pc = "send"
    /\ code' = code \union request[r].account \/ UNCHANGED code
    /\ Ends(r)
    /\ KeepsRows /\ UNCHANGED <<reset, begun, typed, course>>

\* login with the password of an account that was not proved, and resend_verification_otp.
SendAgain(r, e) ==
    /\ "verify" \in course
    /\ \E a \in AccountOf({e}) : ~ row[a].verified /\ a \notin code /\ Begins(r, "send", {e}, {a}, {})
    /\ KeepsRows /\ KeepsCodes /\ UNCHANGED <<typed, course>>

-----------------------------------------------------------------------------
(* The owner of the address enters the code that came last.                *)

\* The codes that open a row: they are stored under its key.
CodesFor(a) == code \intersect {a}

VerifyEmailOtp(r, e) ==
    /\ "verify" \in course
    /\ \E a \in AccountOf({e}) : \E c \in CodesFor(a) :
        /\ ~ row[a].verified
        /\ Begins(r, "save verified", {e}, {a}, {c})
        /\ code' = code \ {c}
    /\ KeepsRows /\ UNCHANGED <<reset, typed, course>>

\* Writes to a row that is gone fail; the code is spent.
SaveVerified(r) ==
    /\ request[r].pc = "save verified"
    /\ row' = [a \in Accounts |-> IF a \in request[r].account \intersect Rows
                                  THEN [row[a] EXCEPT !.verified = TRUE] ELSE row[a]]
    /\ typed' = typed \ request[r].claim
    /\ Ends(r)
    /\ KeepsCodes /\ UNCHANGED <<added, begun, course>>

-----------------------------------------------------------------------------
(* Passwords set later.                                                    *)

RequestPasswordReset(e) ==
    /\ "reset" \in course
    /\ \E a \in AccountOf({e}) : a \notin reset /\ reset' = reset \union {a}
    /\ begun < MaxChanges /\ begun' = begun + 1
    /\ KeepsRows /\ UNCHANGED <<code, request, typed, course>>

ResetPassword(r, e) ==
    /\ \E a \in AccountOf({e}) \intersect reset :
        Begins(r, "save password", {e}, {a}, {}) /\ reset' = reset \ {a}
    /\ KeepsRows /\ UNCHANGED <<code, typed, course>>

\* In a session: of an account that was proved, or that a provider opens.
AddPassword(r, a) ==
    /\ "add" \in course
    /\ a \in Rows /\ ~ row[a].password /\ (row[a].verified \/ row[a].linked # {})
    /\ Begins(r, "save password", row[a].email, {a}, {})
    /\ KeepsRows /\ KeepsCodes /\ UNCHANGED <<typed, course>>

SavePassword(r) ==
    /\ request[r].pc = "save password"
    /\ row' = [a \in Accounts |-> IF a \in request[r].account \intersect Rows
                                  THEN [row[a] EXCEPT !.password = TRUE] ELSE row[a]]
    /\ typed' = typed \ request[r].account
    /\ Ends(r)
    /\ KeepsCodes /\ UNCHANGED <<added, begun, course>>

-----------------------------------------------------------------------------
(* Sign-in with a provider: the account of the identity, or else of the    *)
(* address, which the provider must have proved to join an account.        *)

MayJoin(account, c) == LinkedHere(account, c.provider) = {} /\ c.proved

SignInWith(r, c) ==
    /\ "sign in" \in course
    /\ IF LinkedTo(c) # {} THEN Begins(r, "link", c.email, LinkedTo(c), {c})
       ELSE /\ c.email # {}
            /\ \A a \in AccountOf(c.email) : MayJoin(row[a], c)
            /\ Begins(r, IF AccountOf(c.email) = {} THEN "create with identity" ELSE "link",
                      c.email, AccountOf(c.email), {c})
    /\ KeepsRows /\ KeepsCodes /\ UNCHANGED <<typed, course>>

\* _mark_email_verified: the proof of the provider is one of the address, and ends a password
\* that nobody proved.
Proves(seen, c) == c.proved /\ ~ seen.verified

\* Columns are written if what was read differs.
Linked(account, seen, c) ==
    [account EXCEPT
        !.linked = IF LinkedHere(seen, c.provider) = {}
                   THEN (@ \ LinkedHere(account, c.provider)) \union {Identity(c)} ELSE @,
        !.verified = @ \/ Proves(seen, c),
        !.password = @ /\ ~ (Proves(seen, c) /\ seen.password)]

\* A row that is gone, or an identity that is another's by now, fails the request.
LinkAccount(r) ==
    /\ request[r].pc = "link"
    /\ \E c \in request[r].claim, a \in request[r].account :
        LET fails == a \notin Rows \/ ~ LinkedTo(c) \subseteq {a}
            after == Linked(row[a], request[r].seen, c)
        IN IF fails THEN UNCHANGED <<row, typed>>
           ELSE /\ row' = [row EXCEPT ![a] = after]
                /\ typed' = IF after.password THEN typed ELSE typed \ {a}
    /\ Ends(r)
    /\ KeepsCodes /\ UNCHANGED <<added, begun, course>>

CreateWithIdentity(r) ==
    /\ request[r].pc = "create with identity"
    /\ \E c \in request[r].claim :
        LET account == [email |-> c.email, verified |-> c.proved, password |-> FALSE, linked |-> {Identity(c)}]
        IN IF AccountOf(c.email) # {} \/ LinkedTo(c) # {} THEN KeepsRows /\ Ends(r)
           ELSE /\ Adds(account)
                /\ request' = [request EXCEPT ![r].pc = "save created", ![r].account = added' \ added,
                                              ![r].seen = account]
    /\ KeepsCodes /\ UNCHANGED <<begun, typed, course>>

\* The new row is saved once more, with all its columns; one that was replaced comes back
\* unless its address is taken.
SaveCreated(r) ==
    /\ request[r].pc = "save created"
    /\ \E a \in request[r].account :
        row' = IF AccountOf(request[r].email) \subseteq {a} THEN [row EXCEPT ![a] = request[r].seen] ELSE row
    /\ Ends(r)
    /\ KeepsCodes /\ UNCHANGED <<added, begun, typed, course>>

-----------------------------------------------------------------------------

SignsUp == \E r \in Requests :
    \/ \E e \in Emails : Register(r, e)
    \/ ReplaceUnverified(r) \/ CreateUser(r) \/ SendOtp(r)

Verifies == \E r \in Requests :
    \/ \E e \in Emails : VerifyEmailOtp(r, e) \/ SendAgain(r, e)
    \/ SaveVerified(r)

SetsPassword ==
    \/ \E e \in Emails : RequestPasswordReset(e) \/ \E r \in Requests : ResetPassword(r, e)
    \/ \E r \in Requests : SavePassword(r) \/ \E a \in Accounts : AddPassword(r, a)

SignsIn == \E r \in Requests :
    \/ \E c \in Claims : SignInWith(r, c)
    \/ LinkAccount(r) \/ CreateWithIdentity(r) \/ SaveCreated(r)

RegistrationNext == SignsUp \/ Verifies \/ SetsPassword \/ SignsIn

RegistrationSpec == RegistrationInit /\ [][RegistrationNext]_registrationVars

-----------------------------------------------------------------------------

RegistrationTypeOK ==
    /\ row \in [Accounts -> [email : SUBSET Emails, verified : BOOLEAN, password : BOOLEAN,
            linked : SUBSET {Identity(c) : c \in Claims}]]
    /\ added \subseteq Accounts /\ code \subseteq added /\ reset \subseteq added /\ typed \subseteq added
    /\ begun \in 0 .. MaxChanges
    /\ \A r \in Requests : request[r].account \subseteq added /\ request[r].email \subseteq Emails

\* tests/authentication/test_oauth_pre_hijack.py: a password that was typed at sign-up opens
\* no account whose address was proved by other means than the code of that very sign-up,
\* however sign-ups, codes, resets and sign-ins with providers overlap.
SignupPasswordsAreProved ==
    \A a \in Rows : row[a].verified /\ row[a].password => a \notin typed

=============================================================================
