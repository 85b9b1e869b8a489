---------------------------- MODULE AccountsProofs ----------------------------
(***************************************************************************)
(* What is proved of the modules that MCAccounts composes, which share no  *)
(* state: sign-up and sign-in, the conversations with the support,         *)
(* one-time codes, the names of users, the texts they read, and the limits *)
(* on what they do.  After lemmas about numbers, each has a part of its    *)
(* own: what makes its properties inductive, what each of its steps does   *)
(* to that, and the theorems.                                              *)
(***************************************************************************)
EXTENDS Registration, Support, Otp, Usernames, Scripture, Limits, FiniteSetTheorems, SequenceTheorems,
        WellFoundedInduction, TLAPS

-----------------------------------------------------------------------------
(* The least and the greatest of some numbers.                             *)

LEMMA LessIsWellFounded == IsWellFoundedOn({p \in Nat \X Nat : p[1] < p[2]}, Nat)
  BY NatLessThanWellFounded, Zenon DEF OpToRel

LEMMA LeastExists ==
    ASSUME NEW T, T \subseteq Nat, T # {}
    PROVE  \E x \in T : \A y \in T : x <= y
<1> DEFINE R == {p \in Nat \X Nat : p[1] < p[2]}
<1>1. \E x \in T : \A y \in T : ~ (<<y, x>> \in R)
  <2> HIDE DEF R
  <2> QED
    BY LessIsWellFounded, WFMin DEF R
<1>2. \A x, y \in T : ~ (<<y, x>> \in R) => x <= y
  OBVIOUS
<1> HIDE DEF R
<1> QED
  BY <1>1, <1>2

LEMMA MinIsMember ==
    ASSUME NEW T, T \subseteq Nat, T # {}
    PROVE  Min(T) \in T
  BY LeastExists DEF Min

LEMMA GreatestExists ==
    ASSUME NEW n \in Nat, NEW T, T \subseteq 0 .. n, T # {}
    PROVE  \E x \in T : \A y \in T : x >= y
<1> DEFINE U == {n - x : x \in T}
<1>1. U \subseteq Nat /\ U # {}
  <2>1. \A x \in T : n - x \in Nat
    OBVIOUS
  <2> QED
    BY <2>1
<1>2. PICK u \in U : \A v \in U : u <= v
  <2> HIDE DEF U
  <2> QED
    BY <1>1, LeastExists
<1>3. PICK x \in T : u = n - x
  OBVIOUS
<1>4. ASSUME NEW y \in T
      PROVE  x >= y
  <2>1. n - y \in U
    OBVIOUS
  <2>2. n - x <= n - y
    BY <1>2, <1>3, <2>1
  <2>3. x \in Nat /\ y \in Nat
    OBVIOUS
  <2> QED
    BY <2>2, <2>3
<1> QED
  BY <1>4

LEMMA MaxIsGreatest ==
    ASSUME NEW n \in Nat, NEW T, T \subseteq 0 .. n, T # {}
    PROVE  Max(T) \in T /\ \A y \in T : y <= Max(T)
<1>1. Max(T) \in T /\ \A y \in T : Max(T) >= y
  BY GreatestExists DEF Max
<1> QED
  BY <1>1

LEMMA MaxIs ==
    ASSUME NEW n \in Nat, NEW T, T \subseteq 0 .. n, NEW x \in T, \A y \in T : y <= x
    PROVE  Max(T) = x
<1> DEFINE top == Max(T)
<1>1. top \in T /\ x <= top
  BY MaxIsGreatest
<1> HIDE DEF top
<1>2. top = x
  BY <1>1
<1> QED
  BY <1>2 DEF top

LEMMA AtMostOne ==
    ASSUME NEW S, \A x, y \in S : x = y
    PROVE  Cardinality(S) <= 1
<1>1. CASE S = {}
  BY <1>1, FS_EmptySet
<1>2. CASE S # {}
  <2>1. PICK x \in S : S = {x}
    BY <1>2
  <2> QED
    BY <2>1, FS_Singleton
<1> QED
  BY <1>1, <1>2

-----------------------------------------------------------------------------
(***************************************************************************)
(* Registration.  No sign-up hands its password to who proves the address, *)
(* for any addresses, providers, claims and requests at a time.  A row     *)
(* whose password nobody proved has that password still, is unverified and *)
(* unlinked, and so it was when a request read it that is to link it,      *)
(* which the provider's proof then makes clear the password.               *)
(***************************************************************************)

Identities == {Identity(c) : c \in Claims}
Account == [email : SUBSET Emails, verified : BOOLEAN, password : BOOLEAN,
            linked : SUBSET Identities]
SignUpSteps == {"idle", "create", "replace", "send", "save verified", "save password", "link",
          "create with identity", "save created"}
Progress == [pc : SignUpSteps, email : SUBSET Emails, account : SUBSET Accounts, seen : Account,
             claim : SUBSET (Claims \union Accounts)]

\* A request is about rows that were added, and a claim if it signs in.
FormedRequest(q, rows) ==
    /\ q \in Progress /\ q.account \subseteq rows
    /\ q.pc \in {"link", "create with identity"} => q.claim \subseteq Claims

SignUpTyping ==
    /\ row \in [Accounts -> Account]
    /\ added \subseteq Accounts /\ Rows \subseteq added
    /\ code \subseteq added /\ reset \subseteq added /\ typed \subseteq added
    /\ begun \in 0 .. MaxChanges
    /\ request \in [Requests -> Progress]
    /\ \A r \in Requests : FormedRequest(request[r], added)

AddressesAreUnique == \A a, b \in Rows : row[a].email = row[b].email => a = b

\* A row as sign-up made it.
Unproved(account) == account.password /\ ~ account.verified /\ account.linked = {}
TypedAreUnproved == \A a \in typed \intersect Rows : Unproved(row[a])

\* What a request goes by, of the rows whose password nobody proved.
Safe(q, rows) ==
    /\ q.pc = "link" => \A a \in q.account \intersect rows :
         q.seen.password /\ ~ q.seen.verified /\ \A c \in q.claim : c.proved
    /\ q.pc = "save verified" => q.claim = q.account
    /\ q.pc = "create with identity" => \A c \in q.claim : c.email = q.email
    /\ q.pc = "save created" =>
         q.account \intersect rows = {} /\ ~ q.seen.password /\ q.seen.email = q.email
RequestsAreSafe == \A r \in Requests : Safe(request[r], typed)

SignUpInv == SignUpTyping /\ AddressesAreUnique /\ TypedAreUnproved /\ RequestsAreSafe

-----------------------------------------------------------------------------
(* Operators.                                                              *)

LEMMA RegistrationBounds == MaxAccounts \in Nat /\ MaxChanges \in Nat
  BY RegistrationAssumption

\* What is read of some rows is one of them.
LEMMA MaxOfRows ==
    ASSUME NEW S \in SUBSET Accounts, S # {}
    PROVE  Max(S) \in S
<1>1. S \subseteq 0 .. MaxAccounts
  BY RegistrationBounds DEF Accounts
<1> QED
  BY <1>1, RegistrationBounds, MaxIsGreatest

LEMMA NextRow ==
    ASSUME added \subseteq Accounts, added # Accounts
    PROVE  Min(Accounts \ added) \in Accounts \ added
<1>1. Accounts \subseteq Nat
  BY RegistrationBounds DEF Accounts
<1>2. Accounts \ added \subseteq Nat /\ Accounts \ added # {}
  BY <1>1
<1> QED
  BY <1>2, MinIsMember

LEMMA NoAccountType == NoAccount \in Account
  BY DEF NoAccount, Account

LEMMA NoRequestType ==
    ASSUME NEW rows, NEW unproved
    PROVE  FormedRequest(NoRequest, rows) /\ Safe(NoRequest, unproved) /\ NoRequest.pc = "idle"
  BY NoAccountType DEF NoRequest, FormedRequest, Safe, Progress, SignUpSteps

-----------------------------------------------------------------------------
(* What a step does to the requests and to the rows.                       *)

\* One request goes on; no password that others may have read becomes unproved.
LEMMA RequestStep ==
    ASSUME SignUpTyping, RequestsAreSafe, NEW r \in Requests, NEW q,
           request' = [request EXCEPT ![r] = q],
           added \subseteq added', typed' \subseteq typed \union (added' \ added),
           FormedRequest(q, added'), Safe(q, typed')
    PROVE  /\ request' \in [Requests -> Progress]
           /\ \A s \in Requests : FormedRequest(request'[s], added')
           /\ RequestsAreSafe'
<1>1. request'[r] = q /\ \A s \in Requests : s # r => request'[s] = request[s]
  BY DEF SignUpTyping
<1>2. \A s \in Requests : FormedRequest(request'[s], added')
  BY <1>1 DEF SignUpTyping, FormedRequest
<1>3. ASSUME NEW s \in Requests
      PROVE  Safe(request'[s], typed')
  <2>1. CASE s = r
    BY <1>1, <2>1
  <2>2. CASE s # r
    <3>1. request[s].account \intersect typed' \subseteq request[s].account \intersect typed
      BY DEF SignUpTyping, FormedRequest
    <3>2. Safe(request[s], typed)
      BY DEF RequestsAreSafe
    <3> QED
      BY <1>1, <2>2, <3>1, <3>2 DEF Safe
  <2> QED
    BY <2>1, <2>2
<1>4. request' \in [Requests -> Progress]
  BY <1>1 DEF SignUpTyping, FormedRequest
<1> QED
  BY <1>2, <1>3, <1>4 DEF RequestsAreSafe

\* Rows go, or are written with the address they have, and one with an address that is free.
LEMMA RowStep ==
    ASSUME SignUpTyping, AddressesAreUnique, TypedAreUnproved,
           row' \in [Accounts -> Account], added \subseteq added', NEW n,
           \A a \in Accounts :
             \/ row'[a] = NoAccount
             \/ row'[a] = row[a] /\ (a \in typed' => a \in typed)
             \/ /\ a \in added' /\ (a \in typed' => Unproved(row'[a]))
                /\ \/ a \in Rows /\ row'[a].email = row[a].email
                   \/ a = n /\ AccountOf(row'[a].email) \subseteq {a}
    PROVE  Rows' \subseteq added' /\ AddressesAreUnique' /\ TypedAreUnproved'
<1>1. Rows' = {a \in Accounts : row'[a] # NoAccount}
  BY DEF Rows
<1>2. Rows' \subseteq added'
  BY <1>1 DEF SignUpTyping, Rows
<1>3. AddressesAreUnique'
  <2> SUFFICES ASSUME NEW a \in Rows', NEW b \in Rows', row'[a].email = row'[b].email, a # b
               PROVE  FALSE
    BY DEF AddressesAreUnique
  <2>1. ASSUME NEW x \in Rows', x # n
        PROVE  x \in Rows /\ row'[x].email = row[x].email
    BY <1>1, <2>1 DEF Rows
  <2>2. CASE a # n /\ b # n
    BY <2>1, <2>2 DEF AddressesAreUnique
  <2>3. ASSUME NEW x \in Rows', NEW y \in Rows', x = n, y # n, row'[x].email = row'[y].email
        PROVE  FALSE
    <3>1. y \in Rows /\ row'[y].email = row[y].email
      BY <2>1, <2>3
    <3>2. y \in AccountOf(row'[x].email)
      BY <2>3, <3>1 DEF AccountOf
    <3>3. CASE x \in Rows /\ row'[x].email = row[x].email
      BY <2>3, <3>1, <3>3 DEF AddressesAreUnique
    <3> QED
      BY <1>1, <2>3, <3>2, <3>3 DEF Rows
  <2> QED
    BY <2>2, <2>3
<1>4. TypedAreUnproved'
  BY <1>1 DEF TypedAreUnproved, Rows
<1> QED
  BY <1>2, <1>3, <1>4

\* The rows stay as they are, or one more is added.
LEMMA Untouched ==
    ASSUME SignUpTyping, AddressesAreUnique, TypedAreUnproved, UNCHANGED row, added \subseteq added',
           typed' \subseteq typed
    PROVE  Rows' \subseteq added' /\ AddressesAreUnique' /\ TypedAreUnproved'
  BY DEF SignUpTyping, AddressesAreUnique, TypedAreUnproved, Rows

LEMMA Added ==
    ASSUME SignUpTyping, AddressesAreUnique, TypedAreUnproved, NEW x \in Account, Adds(x),
           AccountOf(x.email) = {},
           typed' = typed \/ (typed' = typed \union (added' \ added) /\ Unproved(x))
    PROVE  /\ \E n \in Accounts \ added : added' \ added = {n}
           /\ added \subseteq added' /\ added' \subseteq Accounts /\ typed' \subseteq added'
           /\ row' \in [Accounts -> Account]
           /\ Rows' \subseteq added' /\ AddressesAreUnique' /\ TypedAreUnproved'
<1> DEFINE n == Min(Accounts \ added)
<1>1. n \in Accounts \ added
  BY NextRow DEF Adds, SignUpTyping
<1>2. row' = [row EXCEPT ![n] = x] /\ added' = added \union {n}
  BY DEF Adds
<1> HIDE DEF n
<1>3. /\ added' \ added = {n} /\ added' \subseteq Accounts /\ typed' \subseteq added'
      /\ row' \in [Accounts -> Account]
      /\ row'[n] = x /\ \A a \in Accounts : a # n => row'[a] = row[a]
      /\ n \notin typed
  BY <1>1, <1>2 DEF SignUpTyping
<1>4. Rows' \subseteq added' /\ AddressesAreUnique' /\ TypedAreUnproved'
  BY <1>1, <1>2, <1>3, RowStep
<1> QED
  BY <1>1, <1>2, <1>3, <1>4

-----------------------------------------------------------------------------
(* The actions.                                                            *)

\* A request that begins: what it found and claims.
SoundStart(pc, e, found, c) ==
    /\ pc \in SignUpSteps \ {"save created"} /\ e \in SUBSET Emails
    /\ found \in SUBSET added /\ c \in SUBSET (Claims \union Accounts)
    /\ pc \in {"link", "create with identity"} => c \subseteq Claims
    /\ pc = "link" => \A a \in found \intersect typed :
         found = {a} /\ row[a].password /\ ~ row[a].verified /\ \A k \in c : k.proved
    /\ pc = "save verified" => c = found
    /\ pc = "create with identity" => \A k \in c : k.email = e

LEMMA BeginsStep ==
    ASSUME SignUpTyping, RequestsAreSafe, UNCHANGED <<added, typed>>,
           NEW r \in Requests, NEW pc, NEW e, NEW found, NEW c,
           Begins(r, pc, e, found, c), SoundStart(pc, e, found, c)
    PROVE  /\ request' \in [Requests -> Progress]
           /\ \A s \in Requests : FormedRequest(request'[s], added')
           /\ RequestsAreSafe' /\ begun' \in 0 .. MaxChanges
<1> DEFINE seen == IF found = {} THEN NoAccount ELSE row[Max(found)]
           q == [pc |-> pc, email |-> e, account |-> found, seen |-> seen, claim |-> c]
<1>1. found \subseteq Accounts /\ seen \in Account
  BY MaxOfRows, NoAccountType DEF SignUpTyping, SoundStart
<1>2. ASSUME NEW a, found = {a}
      PROVE  seen = row[a]
  <2>1. found # {} /\ found \in SUBSET Accounts
    BY <1>1, <1>2
  <2>2. Max(found) \in found
    BY <2>1, MaxOfRows
  <2> QED
    BY <1>2, <2>2
<1> HIDE DEF seen
<1>3. FormedRequest(q, added')
  BY <1>1 DEF FormedRequest, Progress, SoundStart
<1>4. Safe(q, typed')
  BY <1>2 DEF Safe, SoundStart
<1>5. request' = [request EXCEPT ![r] = q]
  BY DEF Begins, seen
<1>6. begun' \in 0 .. MaxChanges
  <2>1. begun < MaxChanges /\ begun' = begun + 1 /\ begun \in 0 .. MaxChanges
    BY DEF Begins, SignUpTyping
  <2> QED
    BY <2>1, RegistrationBounds
<1> HIDE DEF q
<1> QED
  BY <1>3, <1>4, <1>5, <1>6, RequestStep

\* A request that ends, or goes on to a step at which nothing matters.
LEMMA EndsStep ==
    ASSUME SignUpTyping, RequestsAreSafe, NEW r \in Requests, Ends(r),
           added \subseteq added', typed' \subseteq typed \union (added' \ added)
    PROVE  /\ request' \in [Requests -> Progress]
           /\ \A s \in Requests : FormedRequest(request'[s], added')
           /\ RequestsAreSafe'
  BY NoRequestType, RequestStep DEF Ends

LEMMA SignsUpStep ==
    ASSUME SignUpInv, SignsUp
    PROVE  SignUpInv'
<1> USE DEF SignUpInv
<1>1. ASSUME NEW r \in Requests, NEW e \in Emails, Register(r, e)
      PROVE  SignUpInv'
  <2>1. UNCHANGED <<row, added, code, reset, typed>>
    BY <1>1 DEF Register, KeepsRows, KeepsCodes
  <2>2. AccountOf({e}) \in SUBSET added
    BY DEF AccountOf, SignUpTyping
  <2>3. PICK pc \in {"create", "replace"} : Begins(r, pc, {e}, AccountOf({e}), {})
    BY <1>1 DEF Register
  <2>4. SoundStart(pc, {e}, AccountOf({e}), {})
    BY <2>1, <2>2, <2>3 DEF SoundStart, SignUpSteps
  <2>5. /\ request' \in [Requests -> Progress]
        /\ \A s \in Requests : FormedRequest(request'[s], added')
        /\ RequestsAreSafe' /\ begun' \in 0 .. MaxChanges
    BY <2>1, <2>2, <2>3, <2>4, BeginsStep
  <2> QED
    BY <2>1, <2>5, Untouched DEF SignUpTyping
<1>2. ASSUME NEW r \in Requests, ReplaceUnverified(r)
      PROVE  SignUpInv'
  <2> DEFINE q == [request[r] EXCEPT !.pc = "create"]
  <2>1. UNCHANGED <<added, code, reset, begun, typed>>
    BY <1>2 DEF ReplaceUnverified, KeepsCodes
  <2>2. row' \in [Accounts -> Account] /\ \A a \in Accounts : row'[a] \in {row[a], NoAccount}
    BY <1>2, NoAccountType DEF ReplaceUnverified, SignUpTyping
  <2>3. request' = [request EXCEPT ![r] = q]
    BY <1>2 DEF ReplaceUnverified, Goes
  <2>4. FormedRequest(q, added') /\ Safe(q, typed')
    BY <2>1 DEF SignUpTyping, FormedRequest, Safe, Progress, SignUpSteps
  <2> HIDE DEF q
  <2>5. /\ request' \in [Requests -> Progress]
        /\ \A s \in Requests : FormedRequest(request'[s], added')
        /\ RequestsAreSafe'
    BY <2>1, <2>3, <2>4, RequestStep
  <2>6. Rows' \subseteq added' /\ AddressesAreUnique' /\ TypedAreUnproved'
    BY <2>1, <2>2, RowStep
  <2> QED
    BY <2>1, <2>2, <2>5, <2>6 DEF SignUpTyping
<1>3. ASSUME NEW r \in Requests, CreateUser(r)
      PROVE  SignUpInv'
  <2>0. UNCHANGED <<code, reset, begun>>
    BY <1>3 DEF CreateUser, KeepsCodes
  <2>1. CASE Ends(r) /\ UNCHANGED <<row, added, typed>>
    BY <2>0, <2>1, EndsStep, Untouched DEF SignUpTyping
  <2>2. ASSUME AccountOf(request[r].email) = {},
               Adds([NoAccount EXCEPT !.email = request[r].email, !.password = TRUE]),
               typed' = typed \union (added' \ added),
               request' = [request EXCEPT ![r].pc = "send", ![r].account = added' \ added]
        PROVE  SignUpInv'
    <3> DEFINE x == [NoAccount EXCEPT !.email = request[r].email, !.password = TRUE]
               q == [request[r] EXCEPT !.pc = "send", !.account = added' \ added]
    <3>1. x \in Account /\ Unproved(x) /\ x.email = request[r].email
      BY DEF SignUpTyping, Progress, NoAccount, Account, Unproved
    <3>2. Adds(x)
      BY <2>2
    <3> HIDE DEF x
    <3>3. /\ \E n \in Accounts \ added : added' \ added = {n}
          /\ added \subseteq added' /\ added' \subseteq Accounts /\ typed' \subseteq added'
          /\ row' \in [Accounts -> Account]
          /\ Rows' \subseteq added' /\ AddressesAreUnique' /\ TypedAreUnproved'
      BY <2>2, <3>1, <3>2, Added
    <3>4. request' = [request EXCEPT ![r] = q]
      BY <2>2
    <3>5. FormedRequest(q, added') /\ Safe(q, typed')
      BY <3>3 DEF SignUpTyping, FormedRequest, Safe, Progress, SignUpSteps
    <3> HIDE DEF q
    <3>6. /\ request' \in [Requests -> Progress]
          /\ \A s \in Requests : FormedRequest(request'[s], added')
          /\ RequestsAreSafe'
      BY <2>2, <3>3, <3>4, <3>5, RequestStep
    <3> QED
      BY <2>0, <3>3, <3>6 DEF SignUpTyping
  <2> QED
    BY <1>3, <2>1, <2>2 DEF CreateUser
<1>4. ASSUME NEW r \in Requests, SendOtp(r)
      PROVE  SignUpInv'
  <2>1. /\ UNCHANGED <<row, added, reset, begun, typed>> /\ Ends(r)
        /\ code' \subseteq added
    BY <1>4 DEF SendOtp, KeepsRows, SignUpTyping, FormedRequest
  <2> QED
    BY <2>1, EndsStep, Untouched DEF SignUpTyping
<1> QED
  BY <1>1, <1>2, <1>3, <1>4 DEF SignsUp

LEMMA VerifiesStep ==
    ASSUME SignUpInv, Verifies
    PROVE  SignUpInv'
<1> USE DEF SignUpInv
<1>1. ASSUME NEW r \in Requests, NEW e \in Emails, VerifyEmailOtp(r, e)
      PROVE  SignUpInv'
  <2>1. PICK a \in AccountOf({e}) : Begins(r, "save verified", {e}, {a}, {a}) /\ code' = code \ {a}
    BY <1>1 DEF VerifyEmailOtp, CodesFor
  <2>2. UNCHANGED <<row, added, reset, typed>>
    BY <1>1 DEF VerifyEmailOtp, KeepsRows
  <2>3. a \in added /\ a \in Accounts
    BY DEF AccountOf, SignUpTyping
  <2>4. SoundStart("save verified", {e}, {a}, {a})
    BY <2>1, <2>2, <2>3 DEF SoundStart, SignUpSteps
  <2>5. /\ request' \in [Requests -> Progress]
        /\ \A s \in Requests : FormedRequest(request'[s], added')
        /\ RequestsAreSafe' /\ begun' \in 0 .. MaxChanges
    BY <2>1, <2>2, <2>3, <2>4, BeginsStep
  <2> QED
    BY <2>1, <2>2, <2>5, Untouched DEF SignUpTyping
<1>2. ASSUME NEW r \in Requests, NEW e \in Emails, SendAgain(r, e)
      PROVE  SignUpInv'
  <2>1. PICK a \in AccountOf({e}) : Begins(r, "send", {e}, {a}, {})
    BY <1>2 DEF SendAgain
  <2>2. UNCHANGED <<row, added, code, reset, typed>>
    BY <1>2 DEF SendAgain, KeepsRows, KeepsCodes
  <2>3. a \in added /\ a \in Accounts
    BY DEF AccountOf, SignUpTyping
  <2>4. SoundStart("send", {e}, {a}, {})
    BY <2>1, <2>2, <2>3 DEF SoundStart, SignUpSteps
  <2>5. /\ request' \in [Requests -> Progress]
        /\ \A s \in Requests : FormedRequest(request'[s], added')
        /\ RequestsAreSafe' /\ begun' \in 0 .. MaxChanges
    BY <2>1, <2>2, <2>3, <2>4, BeginsStep
  <2> QED
    BY <2>2, <2>5, Untouched DEF SignUpTyping
<1>3. ASSUME NEW r \in Requests, SaveVerified(r)
      PROVE  SignUpInv'
  <2>1. /\ UNCHANGED <<added, code, reset, begun>> /\ Ends(r)
        /\ typed' = typed \ request[r].account
    BY <1>3 DEF SaveVerified, KeepsCodes, RequestsAreSafe, Safe
  <2>2. /\ row' \in [Accounts -> Account]
        /\ \A a \in Accounts :
             \/ row'[a] = row[a]
             \/ a \in Rows /\ row'[a].email = row[a].email /\ a \in request[r].account
    BY <1>3 DEF SaveVerified, SignUpTyping, Account
  <2>3. Rows' \subseteq added' /\ AddressesAreUnique' /\ TypedAreUnproved'
    BY <2>1, <2>2, RowStep DEF SignUpTyping
  <2> QED
    BY <2>1, <2>2, <2>3, EndsStep DEF SignUpTyping
<1> QED
  BY <1>1, <1>2, <1>3 DEF Verifies

LEMMA SetsPasswordStep ==
    ASSUME SignUpInv, SetsPassword
    PROVE  SignUpInv'
<1> USE DEF SignUpInv
<1>1. ASSUME NEW e \in Emails, RequestPasswordReset(e)
      PROVE  SignUpInv'
  <2>1. UNCHANGED <<row, added, code, request, typed>> /\ reset' \subseteq added
    BY <1>1 DEF RequestPasswordReset, KeepsRows, AccountOf, SignUpTyping
  <2>2. begun' \in 0 .. MaxChanges
    BY <1>1, RegistrationBounds DEF RequestPasswordReset, SignUpTyping
  <2>3. RequestsAreSafe'
    BY <2>1 DEF RequestsAreSafe
  <2> QED
    BY <2>1, <2>2, <2>3, Untouched DEF SignUpTyping
<1>2. ASSUME NEW r \in Requests, NEW e \in Emails, ResetPassword(r, e)
      PROVE  SignUpInv'
  <2>1. PICK a \in AccountOf({e}) : Begins(r, "save password", {e}, {a}, {}) /\ reset' = reset \ {a}
    BY <1>2 DEF ResetPassword
  <2>2. UNCHANGED <<row, added, code, typed>>
    BY <1>2 DEF ResetPassword, KeepsRows
  <2>3. a \in added /\ a \in Accounts
    BY DEF AccountOf, SignUpTyping
  <2>4. SoundStart("save password", {e}, {a}, {})
    BY <2>1, <2>2, <2>3 DEF SoundStart, SignUpSteps
  <2>5. /\ request' \in [Requests -> Progress]
        /\ \A s \in Requests : FormedRequest(request'[s], added')
        /\ RequestsAreSafe' /\ begun' \in 0 .. MaxChanges
    BY <2>1, <2>2, <2>3, <2>4, BeginsStep
  <2> QED
    BY <2>1, <2>2, <2>5, Untouched DEF SignUpTyping
<1>3. ASSUME NEW r \in Requests, NEW a \in Accounts, AddPassword(r, a)
      PROVE  SignUpInv'
  <2>1. Begins(r, "save password", row[a].email, {a}, {}) /\ a \in added
    BY <1>3 DEF AddPassword, SignUpTyping
  <2>2. UNCHANGED <<row, added, code, reset, typed>>
    BY <1>3 DEF AddPassword, KeepsRows, KeepsCodes
  <2>3. row[a].email \in SUBSET Emails
    BY DEF SignUpTyping, Account
  <2>4. SoundStart("save password", row[a].email, {a}, {})
    BY <2>1, <2>2, <2>3 DEF SoundStart, SignUpSteps
  <2>5. /\ request' \in [Requests -> Progress]
        /\ \A s \in Requests : FormedRequest(request'[s], added')
        /\ RequestsAreSafe' /\ begun' \in 0 .. MaxChanges
    BY <2>1, <2>2, <2>3, <2>4, BeginsStep
  <2> QED
    BY <2>2, <2>5, Untouched DEF SignUpTyping
<1>4. ASSUME NEW r \in Requests, SavePassword(r)
      PROVE  SignUpInv'
  <2>1. /\ UNCHANGED <<added, code, reset, begun>> /\ Ends(r)
        /\ typed' = typed \ request[r].account
    BY <1>4 DEF SavePassword, KeepsCodes
  <2>2. /\ row' \in [Accounts -> Account]
        /\ \A a \in Accounts :
             \/ row'[a] = row[a]
             \/ a \in Rows /\ row'[a].email = row[a].email /\ a \in request[r].account
    BY <1>4 DEF SavePassword, SignUpTyping, Account
  <2>3. Rows' \subseteq added' /\ AddressesAreUnique' /\ TypedAreUnproved'
    BY <2>1, <2>2, RowStep DEF SignUpTyping
  <2> QED
    BY <2>1, <2>2, <2>3, EndsStep DEF SignUpTyping
<1> QED
  BY <1>1, <1>2, <1>3, <1>4 DEF SetsPassword

LEMMA ClaimType ==
    ASSUME NEW c \in Claims
    PROVE  c.email \in SUBSET Emails /\ c.proved \in BOOLEAN /\ Identity(c) \in Identities
  BY RegistrationAssumption DEF Identities

LEMMA SignInWithStep ==
    ASSUME SignUpInv, NEW r \in Requests, NEW c \in Claims, SignInWith(r, c)
    PROVE  SignUpInv'
<1> USE DEF SignUpInv
<1>1. UNCHANGED <<row, added, code, reset, typed>>
  BY DEF SignInWith, KeepsRows, KeepsCodes
<1>2. c.email \in SUBSET Emails
  BY ClaimType
<1>3. CASE LinkedTo(c) # {}
  <2>1. Begins(r, "link", c.email, LinkedTo(c), {c})
    BY <1>3 DEF SignInWith
  <2>2. LinkedTo(c) \subseteq added /\ LinkedTo(c) \intersect typed = {}
    BY DEF LinkedTo, SignUpTyping, TypedAreUnproved, Unproved
  <2>3. SoundStart("link", c.email, LinkedTo(c), {c})
    BY <1>1, <1>2, <2>1, <2>2 DEF SoundStart, SignUpSteps
  <2>4. /\ request' \in [Requests -> Progress]
        /\ \A s \in Requests : FormedRequest(request'[s], added')
        /\ RequestsAreSafe' /\ begun' \in 0 .. MaxChanges
    BY <1>1, <1>2, <2>1, <2>2, <2>3, BeginsStep
  <2> QED
    BY <1>1, <2>4, Untouched DEF SignUpTyping
<1>4. CASE LinkedTo(c) = {}
  <2>1. PICK pc \in {"create with identity", "link"} :
          Begins(r, pc, c.email, AccountOf(c.email), {c})
    BY <1>4 DEF SignInWith
  <2>2. AccountOf(c.email) \subseteq added
    BY DEF AccountOf, SignUpTyping
  <2>3. \A a \in AccountOf(c.email) \intersect typed :
          AccountOf(c.email) = {a} /\ row[a].password /\ ~ row[a].verified /\ c.proved
    BY <1>4 DEF SignInWith, MayJoin, AccountOf, AddressesAreUnique, TypedAreUnproved, Unproved
  <2>4. SoundStart(pc, c.email, AccountOf(c.email), {c})
    BY <1>1, <1>2, <2>1, <2>2, <2>3 DEF SoundStart, SignUpSteps
  <2>5. /\ request' \in [Requests -> Progress]
        /\ \A s \in Requests : FormedRequest(request'[s], added')
        /\ RequestsAreSafe' /\ begun' \in 0 .. MaxChanges
    BY <1>1, <1>2, <2>1, <2>2, <2>3, <2>4, BeginsStep
  <2> QED
    BY <1>1, <2>5, Untouched DEF SignUpTyping
<1> QED
  BY <1>3, <1>4

LEMMA LinkAccountStep ==
    ASSUME SignUpInv, NEW r \in Requests, LinkAccount(r)
    PROVE  SignUpInv'
<1> USE DEF SignUpInv
<1>1. UNCHANGED <<added, code, reset, begun>> /\ Ends(r) /\ request[r].pc = "link"
  BY DEF LinkAccount, KeepsCodes
<1>2. CASE UNCHANGED <<row, typed>>
  BY <1>1, <1>2, EndsStep, Untouched DEF SignUpTyping
<1>3. ASSUME NEW c \in request[r].claim, NEW a \in request[r].account, a \in Rows,
             row' = [row EXCEPT ![a] = Linked(row[a], request[r].seen, c)],
             typed' = IF Linked(row[a], request[r].seen, c).password THEN typed ELSE typed \ {a}
      PROVE  SignUpInv'
  <2> DEFINE after == Linked(row[a], request[r].seen, c)
             seen == request[r].seen
  <2>1. c \in Claims /\ a \in Accounts /\ a \in added /\ row[a] \in Account /\ seen \in Account
    BY <1>1, <1>3 DEF SignUpTyping, FormedRequest, Progress
  <2>2. after \in Account /\ after.email = row[a].email
    BY <2>1, ClaimType DEF Linked, Account, LinkedHere, Proves
  <2>3. ASSUME a \in typed
        PROVE  ~ after.password
    <3>1. seen.password /\ ~ seen.verified /\ c.proved
      BY <1>1, <2>3 DEF RequestsAreSafe, Safe
    <3>2. after.password = (row[a].password /\ ~ (Proves(seen, c) /\ seen.password))
      BY <2>1 DEF Linked, Account
    <3> QED
      BY <3>1, <3>2 DEF Proves
  <2>4. row' = [row EXCEPT ![a] = after] /\ typed' = IF after.password THEN typed ELSE typed \ {a}
    BY <1>3
  <2> HIDE DEF after
  <2>5. /\ row' \in [Accounts -> Account] /\ typed' \subseteq typed /\ a \notin typed'
        /\ row'[a] = after /\ \A b \in Accounts : b # a => row'[b] = row[b]
    BY <2>1, <2>2, <2>3, <2>4 DEF SignUpTyping
  <2>6. Rows' \subseteq added' /\ AddressesAreUnique' /\ TypedAreUnproved'
    BY <1>1, <1>3, <2>1, <2>2, <2>5, RowStep
  <2> QED
    BY <1>1, <2>5, <2>6, EndsStep DEF SignUpTyping
<1> QED
  BY <1>2, <1>3 DEF LinkAccount

LEMMA CreateWithIdentityStep ==
    ASSUME SignUpInv, NEW r \in Requests, CreateWithIdentity(r)
    PROVE  SignUpInv'
<1> USE DEF SignUpInv
<1>1. UNCHANGED <<code, reset, begun, typed>> /\ request[r].pc = "create with identity"
  BY DEF CreateWithIdentity, KeepsCodes
<1>2. CASE KeepsRows /\ Ends(r)
  BY <1>1, <1>2, EndsStep, Untouched DEF SignUpTyping, KeepsRows
<1>3. ASSUME NEW c \in request[r].claim, NEW x,
             x = [email |-> c.email, verified |-> c.proved, password |-> FALSE, linked |-> {Identity(c)}],
             AccountOf(c.email) = {}, Adds(x),
             request' = [request EXCEPT ![r].pc = "save created", ![r].account = added' \ added,
                                        ![r].seen = x]
      PROVE  SignUpInv'
  <2> DEFINE q == [request[r] EXCEPT !.pc = "save created", !.account = added' \ added, !.seen = x]
  <2>1. c \in Claims /\ c.email = request[r].email
    BY <1>1, <1>3 DEF SignUpTyping, FormedRequest, RequestsAreSafe, Safe
  <2>2. x \in Account /\ x.email = c.email /\ ~ x.password
    BY <1>3, <2>1, ClaimType DEF Account
  <2>3. /\ \E n \in Accounts \ added : added' \ added = {n}
        /\ added \subseteq added' /\ added' \subseteq Accounts /\ typed' \subseteq added'
        /\ row' \in [Accounts -> Account]
        /\ Rows' \subseteq added' /\ AddressesAreUnique' /\ TypedAreUnproved'
    BY <1>1, <1>3, <2>2, Added
  <2>4. request' = [request EXCEPT ![r] = q]
    BY <1>3
  <2>5. FormedRequest(q, added')
    BY <2>2, <2>3 DEF SignUpTyping, FormedRequest, Progress, SignUpSteps
  <2>6. Safe(q, typed')
    BY <1>1, <2>1, <2>2, <2>3 DEF SignUpTyping, Safe, Progress
  <2> HIDE DEF q
  <2>7. /\ request' \in [Requests -> Progress]
        /\ \A s \in Requests : FormedRequest(request'[s], added')
        /\ RequestsAreSafe'
    BY <1>1, <2>3, <2>4, <2>5, <2>6, RequestStep
  <2> QED
    BY <1>1, <2>3, <2>7 DEF SignUpTyping
<1> QED
  BY <1>2, <1>3 DEF CreateWithIdentity

LEMMA SaveCreatedStep ==
    ASSUME SignUpInv, NEW r \in Requests, SaveCreated(r)
    PROVE  SignUpInv'
<1> USE DEF SignUpInv
<1>1. /\ UNCHANGED <<added, code, reset, begun, typed>> /\ Ends(r)
      /\ request[r].pc = "save created"
  BY DEF SaveCreated, KeepsCodes
<1>2. CASE UNCHANGED row
  BY <1>1, <1>2, EndsStep, Untouched DEF SignUpTyping
<1>3. ASSUME NEW a \in request[r].account, AccountOf(request[r].email) \subseteq {a},
             row' = [row EXCEPT ![a] = request[r].seen]
      PROVE  SignUpInv'
  <2>1. a \in added /\ a \in Accounts /\ request[r].seen \in Account
    BY <1>3 DEF SignUpTyping, FormedRequest, Progress
  <2>2. a \notin typed /\ request[r].seen.email = request[r].email
    BY <1>1, <1>3 DEF RequestsAreSafe, Safe
  <2>3. /\ row' \in [Accounts -> Account]
        /\ row'[a] = request[r].seen /\ \A b \in Accounts : b # a => row'[b] = row[b]
    BY <1>3, <2>1 DEF SignUpTyping
  <2>4. Rows' \subseteq added' /\ AddressesAreUnique' /\ TypedAreUnproved'
    BY <1>1, <1>3, <2>1, <2>2, <2>3, RowStep
  <2> QED
    BY <1>1, <2>3, <2>4, EndsStep DEF SignUpTyping
<1> QED
  BY <1>2, <1>3 DEF SaveCreated

LEMMA Step ==
    ASSUME SignUpInv, [RegistrationNext]_registrationVars
    PROVE  SignUpInv'
<1>1. CASE SignsIn
  BY <1>1, SignInWithStep, LinkAccountStep, CreateWithIdentityStep, SaveCreatedStep DEF SignsIn
<1>2. CASE UNCHANGED registrationVars
  BY <1>2 DEF registrationVars, SignUpInv, SignUpTyping, AddressesAreUnique, TypedAreUnproved, RequestsAreSafe,
              Rows
<1> QED
  BY <1>1, <1>2, SignsUpStep, VerifiesStep, SetsPasswordStep DEF RegistrationNext

LEMMA InitStep ==
    ASSUME RegistrationInit
    PROVE  SignUpInv
<1>1. SignUpTyping
  <2>1. /\ row \in [Accounts -> Account] /\ Rows = {}
        /\ {added, code, reset, typed} = {{}} /\ begun \in 0 .. MaxChanges
    BY NoAccountType, RegistrationBounds DEF RegistrationInit, Rows
  <2>2. /\ request \in [Requests -> Progress]
        /\ \A r \in Requests : FormedRequest(request[r], added)
    BY NoRequestType DEF RegistrationInit, FormedRequest
  <2> QED
    BY <2>1, <2>2 DEF SignUpTyping
<1>2. AddressesAreUnique /\ TypedAreUnproved /\ RequestsAreSafe
  BY NoRequestType DEF RegistrationInit, AddressesAreUnique, TypedAreUnproved, RequestsAreSafe, Rows
<1> QED
  BY <1>1, <1>2 DEF SignUpInv

LEMMA Invariance == RegistrationSpec => []SignUpInv
<1>1. SignUpInv /\ [RegistrationNext]_registrationVars => SignUpInv'
  BY Step
<1> QED
  BY <1>1, InitStep, PTL DEF RegistrationSpec

\* Type correctness of sign-up and sign-in.
THEOREM RegistrationTypeCorrect == RegistrationSpec => []RegistrationTypeOK
<1>1. SignUpInv => RegistrationTypeOK
  BY DEF SignUpInv, SignUpTyping, FormedRequest, Progress, Account, Identities, RegistrationTypeOK
<1> QED
  BY <1>1, Invariance, PTL

\* tests/authentication/test_oauth_pre_hijack.py: a password that was typed at sign-up opens
\* no account whose address was proved by other means than the code of that very sign-up,
\* however many sign-ups, codes, resets and sign-ins with providers overlap.
THEOREM PasswordsAreProved == RegistrationSpec => []SignupPasswordsAreProved
<1>1. SignUpInv => SignupPasswordsAreProved
  BY DEF SignUpInv, TypedAreUnproved, Unproved, SignupPasswordsAreProved
<1> QED
  BY <1>1, Invariance, PTL

-----------------------------------------------------------------------------
(***************************************************************************)
(* Support.  The conversations are exact for any conversations, writers at *)
(* a time and sizes of a page.  Who adds a message holds the row, so the   *)
(* message is newer than all that the conversation has, and than the       *)
(* cursor of the app; and the row it leaves behind fits the messages there *)
(* are with the one it adds.                                               *)
(***************************************************************************)

Statuses == {"none", "pending", "in progress", "resolved"}
ContactRow == [status : Statuses, source : {"app", "form"}, last : 0 .. MaxMessages, replied : BOOLEAN]
Created == [at : 1 .. MaxMessages, by : {"user", "admin"}, id : SUBSET ClientIds]

\* A transaction that is not idle is about a conversation.
FormedTransaction(q) ==
    \/ q = NoTransaction
    \/ q \in [pc : {"working"}, at : Conversations, row : ContactRow, message : Created]

SupportTyping ==
    /\ contact \in [Conversations -> ContactRow]
    /\ messages \in [Conversations -> SUBSET Created]
    /\ \A c \in Conversations : IsFiniteSet(messages[c])
    /\ DOMAIN transaction = Transactions /\ \A t \in Transactions : FormedTransaction(transaction[t])
    /\ moment \in 0 .. MaxMessages /\ decisions \in 0 .. MaxDecisions
    /\ cursor \in [Conversations -> 0 .. MaxMessages]
    /\ shown \in [Conversations -> SUBSET Created]
    /\ resolved \in [Conversations -> 0 .. MaxMessages]

\* The kept of a conversation says what its messages say.
Fits(kept, held, at) ==
    /\ kept.status = "none" => held = {}
    /\ kept.status # "none" =>
         /\ \E m \in held : m.at = kept.last
         /\ \A m \in held : m.at <= kept.last
         /\ kept.replied <=> \E m \in held : m.by = "admin"
    /\ kept.status = "resolved" => \A m \in held : m.by = "user" => m.at <= at

\* What a conversation holds by the time it is now, and what the app has read of it.
SoundConversation(kept, held, at, read, upTo, now) ==
    /\ Fits(kept, held, at) /\ read \subseteq held
    /\ \A m \in held : m.at <= now
    /\ \A m, n \in held : m.id = n.id /\ m.id # {} => m = n
    /\ \A m \in held : m.at <= upTo => m \in read
    /\ upTo = 0 \/ \E m \in held : m.at = upTo
ConversationsAreSound ==
    \A c \in Conversations : SoundConversation(contact[c], messages[c], resolved[c], shown[c], cursor[c], moment)

\* What who works on a conversation will leave behind.
Leaves(kept, message, held, at, now) ==
    /\ message.at <= now /\ \A m \in held : m.at < message.at
    /\ message.id # {} => \A m \in held : m.id # message.id
    /\ kept.status # "none" /\ Fits(kept, held \union {message}, at)
Works(q) == q.pc = "working"
WorkIsSound ==
    \A t \in Transactions : Works(transaction[t]) =>
        LET q == transaction[t] IN Leaves(q.row, q.message, messages[q.at], resolved[q.at], moment)

OneWorksOnEach ==
    \A t, u \in Transactions :
        Works(transaction[t]) /\ Works(transaction[u]) /\ transaction[t].at = transaction[u].at => t = u

SupportInv == SupportTyping /\ ConversationsAreSound /\ WorkIsSound /\ OneWorksOnEach

-----------------------------------------------------------------------------
(* Operators.                                                              *)

LEMMA SupportBounds == MaxMessages \in Nat /\ MaxDecisions \in Nat /\ PageSize \in Nat \ {0}
  BY SupportAssumption

-----------------------------------------------------------------------------
(* The steps, by what they change.                                         *)

LEMMA SupportInitHolds == SupportInit => SupportInv
<1> SUFFICES ASSUME SupportInit
             PROVE  SupportInv
  OBVIOUS
<1> USE DEF SupportInit
<1>1. NoContact \in ContactRow /\ NoContact.status = "none"
  BY SupportBounds DEF NoContact, ContactRow, Statuses
<1>2. SupportTyping
  BY <1>1, SupportBounds, FS_EmptySet DEF SupportTyping, FormedTransaction
<1>3. ConversationsAreSound
  BY <1>1 DEF ConversationsAreSound, SoundConversation, Fits
<1>4. \A t \in Transactions : ~ Works(transaction[t])
  BY DEF NoTransaction, Works
<1> QED
  BY <1>2, <1>3, <1>4 DEF SupportInv, WorkIsSound, OneWorksOnEach

\* The kept that a message leaves behind fits the messages with the new one.
LEMMA AppendedFits ==
    ASSUME NEW kept \in ContactRow, NEW message \in Created, NEW held \in SUBSET Created,
           NEW at \in Nat, kept.status # "none", Fits(kept, held, at),
           \A m \in held : m.at < message.at
    PROVE  /\ Appended(kept, message) \in ContactRow
           /\ Appended(kept, message).status # "none"
           /\ Fits(Appended(kept, message), held \union {message}, at)
<1> DEFINE after == Appended(kept, message)
<1>1. /\ after.last = message.at /\ after.source = kept.source
      /\ after.replied = (kept.replied \/ message.by = "admin")
      /\ after.status = CASE message.by = "user" /\ kept.status = "resolved" -> "pending"
                          [] message.by = "admin" /\ kept.status = "pending" -> "in progress"
                          [] OTHER -> kept.status
  BY DEF Appended, ContactRow
<1>2. after \in ContactRow
  <2>1. message.at \in 0 .. MaxMessages
    BY SupportBounds DEF Created
  <2>2. after = [kept EXCEPT !.last = message.at, !.replied = kept.replied \/ message.by = "admin",
                            !.status = after.status]
    BY <1>1 DEF Appended, ContactRow
  <2>3. after.status \in Statuses
    BY <1>1 DEF ContactRow, Statuses
  <2> HIDE DEF after
  <2> QED
    BY <2>1, <2>2, <2>3 DEF ContactRow
<1>3. /\ after.status # "none"
      /\ after.status = "resolved" => kept.status = "resolved" /\ message.by = "admin"
  BY <1>1 DEF ContactRow, Statuses, Created
<1>4. \A m \in held \union {message} : m.at \in Nat /\ m.at <= message.at
  BY SupportBounds DEF Created
<1>5. after.replied <=> \E m \in held \union {message} : m.by = "admin"
  BY <1>1 DEF Fits, ContactRow
<1>6. after.status = "resolved" =>
        \A m \in held \union {message} : m.by = "user" => m.at <= at
  BY <1>3 DEF Fits
<1> HIDE DEF after
<1>7. Fits(after, held \union {message}, at)
  BY <1>1, <1>3, <1>4, <1>5, <1>6 DEF Fits
<1> QED
  BY <1>2, <1>3, <1>7 DEF after

\* A message is created: who does holds the kept.
Holds(t, c, kept, message) ==
    /\ t \in Transactions /\ c \in Conversations /\ kept \in ContactRow /\ message \in Created
    /\ transaction[t] = NoTransaction /\ ~ Locked(c)
    /\ moment < MaxMessages /\ message.at = moment + 1
    /\ Leaves(kept, message, messages[c], resolved[c], moment + 1)
    /\ moment' = moment + 1
    /\ transaction' = [transaction EXCEPT ![t] =
            [pc |-> "working", at |-> c, row |-> kept, message |-> message]]
    /\ UNCHANGED <<contact, messages, decisions, cursor, shown, resolved, visit>>

LEMMA HoldsKeeps ==
    ASSUME SupportInv, NEW t, NEW c, NEW kept, NEW message, Holds(t, c, kept, message)
    PROVE  SupportInv'
<1> USE DEF Holds
<1> DEFINE q == [pc |-> "working", at |-> c, row |-> kept, message |-> message]
<1>1. FormedTransaction(q) /\ Works(q) /\ q.at = c /\ q.row = kept /\ q.message = message
  BY DEF FormedTransaction, Works
<1> HIDE DEF q
<1>2. transaction'[t] = q /\ \A u \in Transactions : u # t => transaction'[u] = transaction[u]
  BY DEF SupportInv, SupportTyping, q
<1>3. moment \in Nat /\ moment' \in 0 .. MaxMessages /\ moment <= moment'
  BY SupportBounds DEF SupportInv, SupportTyping
<1>4. SupportTyping'
  BY <1>1, <1>2, <1>3 DEF SupportInv, SupportTyping, FormedTransaction
<1>5. ConversationsAreSound'
  <2> SUFFICES ASSUME NEW d \in Conversations
               PROVE  SoundConversation(contact[d], messages[d], resolved[d], shown[d], cursor[d], moment')
    BY DEF ConversationsAreSound
  <2>1. SoundConversation(contact[d], messages[d], resolved[d], shown[d], cursor[d], moment)
    BY DEF SupportInv, ConversationsAreSound
  <2>2. \A m \in messages[d] : m.at \in Nat
    BY SupportBounds DEF SupportInv, SupportTyping, Created
  <2> QED
    BY <2>1, <2>2, <1>3 DEF SoundConversation
<1>6. WorkIsSound'
  <2> SUFFICES ASSUME NEW u \in Transactions, Works(transaction'[u])
               PROVE  LET p == transaction'[u] IN
                      Leaves(p.row, p.message, messages[p.at], resolved[p.at], moment')
    BY DEF WorkIsSound
  <2>1. CASE u = t
    BY <1>1, <1>2, <2>1
  <2>2. CASE u # t
    <3> DEFINE p == transaction[u]
    <3>1. Leaves(p.row, p.message, messages[p.at], resolved[p.at], moment)
      BY <1>2, <2>2 DEF SupportInv, WorkIsSound
    <3>2. p.message.at \in Nat
      BY <1>2, <2>2, SupportBounds
      DEF SupportInv, SupportTyping, FormedTransaction, Works, NoTransaction, Created
    <3> HIDE DEF p
    <3>3. Leaves(p.row, p.message, messages[p.at], resolved[p.at], moment')
      BY <1>3, <3>1, <3>2 DEF Leaves
    <3> QED
      BY <1>2, <2>2, <3>3 DEF p
  <2> QED
    BY <2>1, <2>2
<1>7. OneWorksOnEach'
  BY <1>1, <1>2 DEF SupportInv, OneWorksOnEach, Locked, Works
<1> QED
  BY <1>4, <1>5, <1>6, <1>7 DEF SupportInv

LEMMA MessageIsNew ==
    ASSUME SupportInv, NEW c \in Conversations, NEW by \in {"user", "admin"},
           NEW id \in SUBSET ClientIds, moment < MaxMessages
    PROVE  /\ Message(by, id) \in Created /\ Message(by, id).at = moment + 1
           /\ Message(by, id).by = by /\ Message(by, id).id = id
           /\ \A m \in messages[c] : m.at < Message(by, id).at
<1>1. moment \in Nat /\ moment + 1 \in 1 .. MaxMessages
  BY SupportBounds DEF SupportInv, SupportTyping
<1>2. \A m \in messages[c] : m.at \in Nat /\ m.at <= moment
  BY SupportBounds DEF SupportInv, SupportTyping, Created, ConversationsAreSound, SoundConversation
<1>3. \A m \in messages[c] : m.at < moment + 1
  BY <1>1, <1>2
<1> QED
  BY <1>1, <1>3 DEF Message, Created

LEMMA AppendsKeeps ==
    ASSUME SupportInv, NEW t \in Transactions, NEW c \in Contacts, NEW by \in {"user", "admin"},
           NEW id \in SUBSET ClientIds, ~ Locked(c),
           id # {} => \A m \in messages[c] : m.id # id,
           Appends(t, c, Message(by, id))
    PROVE  SupportInv'
<1> DEFINE message == Message(by, id)
<1>1. c \in Conversations /\ contact[c].status # "none" /\ moment < MaxMessages
  BY DEF Contacts, Appends
<1>2. /\ message \in Created /\ message.at = moment + 1 /\ message.id = id
      /\ \A m \in messages[c] : m.at < message.at
  BY <1>1, MessageIsNew
<1> HIDE DEF message
<1>3. /\ contact[c] \in ContactRow /\ messages[c] \in SUBSET Created /\ resolved[c] \in Nat
      /\ Fits(contact[c], messages[c], resolved[c]) /\ moment \in Nat
  BY <1>1, SupportBounds DEF SupportInv, SupportTyping, ConversationsAreSound, SoundConversation
<1>4. /\ Appended(contact[c], message) \in ContactRow
      /\ Appended(contact[c], message).status # "none"
      /\ Fits(Appended(contact[c], message), messages[c] \union {message}, resolved[c])
  BY <1>1, <1>2, <1>3, AppendedFits
<1>5. Leaves(Appended(contact[c], message), message, messages[c], resolved[c], moment + 1)
  BY <1>2, <1>3, <1>4 DEF Leaves
<1>6. Appends(t, c, message)
  BY DEF message
<1>7. Holds(t, c, Appended(contact[c], message), message)
  BY <1>1, <1>2, <1>4, <1>5, <1>6 DEF Holds, Appends
<1> QED
  BY <1>7, HoldsKeeps

LEMMA CreatesKeeps ==
    ASSUME SupportInv, NEW t \in Transactions, NEW source \in {"app", "form"}, Creates(t, source)
    PROVE  SupportInv'
<1> DEFINE message == Message("user", {})
           kept == [status |-> "pending", source |-> source, last |-> moment + 1, replied |-> FALSE]
<1>1. PICK c \in Conversations \ Contacts :
        /\ ~ Locked(c)
        /\ transaction' = [transaction EXCEPT ![t] =
                [pc |-> "working", at |-> c, message |-> message, row |-> kept]]
  BY DEF Creates
<1>2. moment < MaxMessages /\ moment \in Nat /\ moment + 1 \in 0 .. MaxMessages
  BY SupportBounds DEF Creates, SupportInv, SupportTyping
<1>3. /\ message \in Created /\ message.at = moment + 1 /\ message.id = {} /\ message.by = "user"
      /\ \A m \in messages[c] : m.at < message.at
  BY <1>1, <1>2, MessageIsNew
<1>4. kept \in ContactRow /\ kept.status = "pending" /\ kept.last = moment + 1 /\ kept.replied = FALSE
  BY <1>2 DEF ContactRow, Statuses
<1> HIDE DEF message, kept
<1>5. messages[c] = {}
  BY <1>1 DEF SupportInv, ConversationsAreSound, SoundConversation, Fits, Contacts
<1>6. Fits(kept, messages[c] \union {message}, resolved[c])
  BY <1>2, <1>3, <1>4, <1>5 DEF Fits
<1>7. Leaves(kept, message, messages[c], resolved[c], moment + 1)
  BY <1>2, <1>3, <1>4, <1>5, <1>6 DEF Leaves
<1>8. Holds(t, c, kept, message)
  BY <1>1, <1>2, <1>3, <1>4, <1>7 DEF Holds, Creates
<1> QED
  BY <1>8, HoldsKeeps

LEMMA EndsKeeps ==
    ASSUME SupportInv, NEW t \in Transactions, Works(transaction[t]),
           transaction' = [transaction EXCEPT ![t] = NoTransaction],
           \/ UNCHANGED <<contact, messages>>
           \/ /\ contact' = [contact EXCEPT ![transaction[t].at] = transaction[t].row]
              /\ messages' = [messages EXCEPT ![transaction[t].at] = @ \union {transaction[t].message}],
           UNCHANGED <<moment, decisions, cursor, shown, resolved, visit>>
    PROVE  SupportInv'
<1> DEFINE q == transaction[t]
           c == q.at
<1>1. q \in [pc : {"working"}, at : Conversations, row : ContactRow, message : Created]
  BY DEF SupportInv, SupportTyping, FormedTransaction, Works, NoTransaction
<1>2. Leaves(q.row, q.message, messages[c], resolved[c], moment)
  BY DEF SupportInv, WorkIsSound
<1>3. \A u \in Transactions : Works(transaction[u]) /\ transaction[u].at = c => u = t
  BY DEF SupportInv, OneWorksOnEach
<1>4. /\ \A u \in Transactions : u # t => transaction'[u] = transaction[u]
      /\ ~ Works(transaction'[t]) /\ FormedTransaction(transaction'[t])
  BY DEF SupportInv, SupportTyping, Works, FormedTransaction, NoTransaction
<1>5. /\ \A d \in Conversations : d # c => messages'[d] = messages[d] /\ contact'[d] = contact[d]
      /\ \/ messages'[c] = messages[c] /\ contact'[c] = contact[c]
         \/ messages'[c] = messages[c] \union {q.message} /\ contact'[c] = q.row
  BY <1>1 DEF SupportInv, SupportTyping
<1>6. contact' \in [Conversations -> ContactRow] /\ messages' \in [Conversations -> SUBSET Created]
  BY <1>1 DEF SupportInv, SupportTyping
<1>7. ASSUME NEW d \in Conversations
      PROVE  IsFiniteSet(messages'[d])
  <2>1. IsFiniteSet(messages[d])
    BY DEF SupportInv, SupportTyping
  <2> QED
    BY <1>5, <2>1, FS_AddElement
<1>8. SupportTyping'
  BY <1>4, <1>6, <1>7 DEF SupportInv, SupportTyping
<1>9. ConversationsAreSound'
  <2> SUFFICES ASSUME NEW d \in Conversations
               PROVE  SoundConversation(contact'[d], messages'[d], resolved[d], shown[d], cursor[d], moment)
    BY DEF ConversationsAreSound
  <2>1. SoundConversation(contact[d], messages[d], resolved[d], shown[d], cursor[d], moment)
    BY DEF SupportInv, ConversationsAreSound
  <2>2. CASE messages'[d] = messages[d] /\ contact'[d] = contact[d]
    BY <2>1, <2>2
  <2>3. CASE d = c /\ messages'[d] = messages[d] \union {q.message} /\ contact'[d] = q.row
    <3>1. Leaves(q.row, q.message, messages[d], resolved[d], moment)
      BY <1>2, <2>3
    <3>2. q.message.at \in Nat /\ q.message.at > 0 /\ cursor[d] \in Nat
      BY <1>1, SupportBounds DEF Created, SupportInv, SupportTyping
    <3>3. \A m \in messages[d] : m.at \in Nat
      BY SupportBounds DEF SupportInv, SupportTyping, Created
    <3>4. cursor[d] < q.message.at
      BY <2>1, <3>1, <3>2, <3>3 DEF SoundConversation, Leaves
    <3> HIDE DEF q
    <3>5. ~ (q.message.at <= cursor[d])
      BY <3>2, <3>4
    <3> QED
      BY <2>1, <2>3, <3>1, <3>5 DEF SoundConversation, Leaves
  <2> QED
    BY <1>5, <2>2, <2>3
<1>10. WorkIsSound'
  <2> SUFFICES ASSUME NEW u \in Transactions, Works(transaction'[u])
               PROVE  LET p == transaction'[u] IN
                      Leaves(p.row, p.message, messages'[p.at], resolved[p.at], moment)
    BY DEF WorkIsSound
  <2>1. u # t /\ transaction'[u] = transaction[u] /\ Works(transaction[u])
    BY <1>4
  <2>2. transaction[u].at \in Conversations \ {c}
    BY <1>3, <2>1 DEF SupportInv, SupportTyping, FormedTransaction, Works, NoTransaction
  <2> QED
    BY <1>5, <2>1, <2>2 DEF SupportInv, WorkIsSound
<1>11. OneWorksOnEach'
  BY <1>4 DEF SupportInv, OneWorksOnEach
<1> QED
  BY <1>8, <1>9, <1>10, <1>11 DEF SupportInv

LEMMA DecideKeeps ==
    ASSUME SupportInv, NEW c \in Conversations, NEW status \in Statuses \ {"none"}, Decide(c, status)
    PROVE  SupportInv'
<1> USE DEF Decide
<1>1. contact[c].status # "none" /\ ~ Locked(c)
  BY DEF Contacts
<1>2. /\ contact' \in [Conversations -> ContactRow]
      /\ contact'[c] = [contact[c] EXCEPT !.status = status]
      /\ \A d \in Conversations : d # c => contact'[d] = contact[d]
  BY DEF SupportInv, SupportTyping, ContactRow
<1>3. /\ resolved' \in [Conversations -> 0 .. MaxMessages]
      /\ \A d \in Conversations : d # c => resolved'[d] = resolved[d]
      /\ status = "resolved" => resolved'[c] = moment
  BY DEF SupportInv, SupportTyping
<1>4. decisions' \in 0 .. MaxDecisions
  BY SupportBounds DEF SupportInv, SupportTyping
<1>5. SupportTyping'
  BY <1>2, <1>3, <1>4 DEF SupportInv, SupportTyping
<1>6. ConversationsAreSound'
  <2> SUFFICES ASSUME NEW d \in Conversations
               PROVE  SoundConversation(contact'[d], messages[d], resolved'[d], shown[d], cursor[d], moment)
    BY DEF ConversationsAreSound
  <2>1. SoundConversation(contact[d], messages[d], resolved[d], shown[d], cursor[d], moment)
    BY DEF SupportInv, ConversationsAreSound
  <2>2. CASE d # c
    BY <1>2, <1>3, <2>1, <2>2
  <2>3. CASE d = c
    <3>1. contact[c] \in ContactRow
      BY DEF SupportInv, SupportTyping
    <3>2. /\ contact'[c].status = status /\ contact'[c].last = contact[c].last
          /\ contact'[c].replied = contact[c].replied
      BY <1>2, <3>1 DEF ContactRow
    <3>3. Fits(contact'[c], messages[c], resolved'[c])
      BY <1>1, <1>3, <2>1, <2>3, <3>2 DEF SoundConversation, Fits
    <3> QED
      BY <2>1, <2>3, <3>3 DEF SoundConversation
  <2> QED
    BY <2>2, <2>3
<1>7. WorkIsSound'
  <2> SUFFICES ASSUME NEW u \in Transactions, Works(transaction[u])
               PROVE  LET p == transaction[u] IN
                      Leaves(p.row, p.message, messages[p.at], resolved'[p.at], moment)
    BY DEF WorkIsSound
  <2>1. transaction[u].at \in Conversations \ {c}
    BY <1>1 DEF SupportInv, SupportTyping, FormedTransaction, Works, NoTransaction, Locked
  <2> QED
    BY <1>3, <2>1 DEF SupportInv, WorkIsSound
<1> QED
  BY <1>5, <1>6, <1>7 DEF SupportInv, OneWorksOnEach

\* The page holds whatever is not newer than its newest message.
LEMMA PageIsWhole ==
    ASSUME NEW later \in SUBSET Created, later # {}, IsFiniteSet(later)
    PROVE  LET page == {m \in later : Cardinality({n \in later : n.at < m.at}) < PageSize}
               top == Max({m.at : m \in page})
           IN /\ page \subseteq later /\ \E m \in page : m.at = top
              /\ \A m \in later : m.at <= top => m \in page
<1> DEFINE Before(m) == {n \in later : n.at < m.at}
           page == {m \in later : Cardinality(Before(m)) < PageSize}
           times == {m.at : m \in page}
           top == Max(times)
<1>1. \A m \in later : m.at \in 0 .. MaxMessages
  BY SupportBounds DEF Created
<1>2. \A m \in later : IsFiniteSet(Before(m)) /\ Cardinality(Before(m)) \in Nat
  BY FS_Subset, FS_CardinalityType
<1>3. page # {}
  <2> DEFINE all == {m.at : m \in later}
  <2>1. all \subseteq Nat /\ all # {}
    BY <1>1
  <2>2. PICK x \in all : \A y \in all : x <= y
    <3> HIDE DEF all
    <3> QED
      BY <2>1, LeastExists
  <2>3. PICK m \in later : m.at = x
    OBVIOUS
  <2>4. Before(m) = {}
    <3> SUFFICES ASSUME NEW n \in later, n.at < m.at
                 PROVE  FALSE
      OBVIOUS
    <3>1. x <= n.at
      BY <2>2
    <3> QED
      BY <1>1, <2>3, <3>1
  <2>5. Cardinality(Before(m)) = 0
    BY <2>4, FS_EmptySet
  <2> QED
    BY <2>5, SupportBounds
<1>4. times \subseteq 0 .. MaxMessages /\ times # {}
  BY <1>1, <1>3
<1>5. top \in times
  <2> HIDE DEF times
  <2> QED
    BY <1>4, SupportBounds, MaxIsGreatest
<1>6. PICK x \in page : x.at = top
  <2> HIDE DEF top
  <2> QED
    BY <1>5
<1>7. ASSUME NEW m \in later, m.at <= top
      PROVE  m \in page
  <2> HIDE DEF top
  <2>1. Before(m) \subseteq Before(x)
    BY <1>1, <1>6, <1>7
  <2>2. Cardinality(Before(m)) <= Cardinality(Before(x))
    BY <1>2, <2>1, FS_Subset
  <2>3. Cardinality(Before(x)) < PageSize
    BY <1>6
  <2> DEFINE i == Cardinality(Before(m))
             j == Cardinality(Before(x))
  <2>4. i \in Nat /\ j \in Nat /\ i <= j /\ j < PageSize
    BY <1>2, <1>6, <2>2, <2>3
  <2> HIDE DEF i, j
  <2>5. i < PageSize
    BY <2>4, SupportBounds
  <2> QED
    BY <2>5, <1>7 DEF i
<1> QED
  BY <1>6, <1>7

LEMMA PollKeeps ==
    ASSUME SupportInv, NEW c \in Conversations, Poll(c)
    PROVE  SupportInv'
<1> DEFINE later == {m \in messages[c] : m.at > cursor[c]}
           page == {m \in later : Cardinality({n \in later : n.at < m.at}) < PageSize}
           top == Max({m.at : m \in page})
<1>1. /\ later # {} /\ shown' = [shown EXCEPT ![c] = @ \union page]
      /\ cursor' = [cursor EXCEPT ![c] = top]
      /\ UNCHANGED <<contact, messages, transaction, moment, decisions, resolved, visit>>
  BY DEF Poll
<1>2. later \in SUBSET Created /\ IsFiniteSet(later)
  BY FS_Subset DEF SupportInv, SupportTyping
<1>3. \A m \in later : m \in messages[c]
  OBVIOUS
<1>4. \A m \in messages[c] : m \in later \/ m.at <= cursor[c]
  <2>1. \A m \in messages[c] : m.at \in Nat /\ cursor[c] \in Nat
    BY SupportBounds DEF SupportInv, SupportTyping, Created
  <2> QED
    BY <2>1
<1> HIDE DEF later
<1>5. /\ page \subseteq later /\ \E m \in page : m.at = top
      /\ \A m \in later : m.at <= top => m \in page
  BY <1>1, <1>2, PageIsWhole
<1> HIDE DEF page, top
<1>6. top \in 0 .. MaxMessages /\ page \subseteq messages[c]
  BY <1>2, <1>3, <1>5, SupportBounds DEF Created
<1>7. /\ shown' \in [Conversations -> SUBSET Created] /\ cursor' \in [Conversations -> 0 .. MaxMessages]
      /\ shown'[c] = shown[c] \union page /\ cursor'[c] = top
      /\ \A d \in Conversations : d # c => shown'[d] = shown[d] /\ cursor'[d] = cursor[d]
  BY <1>1, <1>6 DEF SupportInv, SupportTyping
<1>8. SupportTyping'
  BY <1>1, <1>7 DEF SupportInv, SupportTyping
<1>9. ConversationsAreSound'
  <2> SUFFICES ASSUME NEW d \in Conversations
               PROVE  SoundConversation(contact[d], messages[d], resolved[d], shown'[d], cursor'[d], moment)
    BY <1>1 DEF ConversationsAreSound
  <2>1. SoundConversation(contact[d], messages[d], resolved[d], shown[d], cursor[d], moment)
    BY DEF SupportInv, ConversationsAreSound
  <2>2. CASE d # c
    BY <1>7, <2>1, <2>2
  <2>3. CASE d = c
    <3>1. \A m \in messages[c] : m.at <= top => m \in shown[c] \union page
      BY <1>4, <1>5, <2>1, <2>3 DEF SoundConversation
    <3>2. \E m \in messages[c] : m.at = top
      BY <1>5, <1>6
    <3> QED
      BY <1>6, <1>7, <2>1, <2>3, <3>1, <3>2 DEF SoundConversation
  <2> QED
    BY <2>2, <2>3
<1> QED
  BY <1>1, <1>8, <1>9 DEF SupportInv, WorkIsSound, OneWorksOnEach

-----------------------------------------------------------------------------

LEMMA SupportNextKeeps == SupportInv /\ [SupportNext]_supportVars => SupportInv'
<1> SUFFICES ASSUME SupportInv, [SupportNext]_supportVars
             PROVE  SupportInv'
  OBVIOUS
<1>1. ASSUME NEW t \in Transactions, SubmitHelpMessage(t)
      PROVE  SupportInv'
  <2>1. CASE Open = {}
    BY <1>1, <2>1, CreatesKeeps DEF SubmitHelpMessage
  <2>2. CASE Open # {}
    <3>1. PICK c \in Newest(Open) : ~ Locked(c) /\ Appends(t, c, Message("user", {}))
      BY <1>1, <2>2 DEF SubmitHelpMessage
    <3>2. c \in Contacts
      BY DEF Newest, Open
    <3> QED
      BY <3>1, <3>2, AppendsKeeps
  <2> QED
    BY <2>1, <2>2
<1>2. ASSUME NEW t \in Transactions, Commit(t)
      PROVE  SupportInv'
  BY <1>2, EndsKeeps DEF Commit, Works
<1>3. ASSUME NEW t \in Transactions, RequestDies(t)
      PROVE  SupportInv'
  BY <1>3, EndsKeeps DEF RequestDies, Works
<1>4. ASSUME NEW t \in Transactions, NEW c \in Conversations, NEW id \in ClientIds,
             SendHelpMessage(t, c, id)
      PROVE  SupportInv'
  <2>1. {id} \in SUBSET ClientIds
    OBVIOUS
  <2> QED
    BY <1>4, <2>1, AppendsKeeps DEF SendHelpMessage
<1>5. ASSUME NEW t \in Transactions, SubmitForm(t)
      PROVE  SupportInv'
  BY <1>5, CreatesKeeps DEF SubmitForm
<1>6. ASSUME NEW t \in Transactions, NEW c \in Conversations, ReplyToContact(t, c)
      PROVE  SupportInv'
  BY <1>6, AppendsKeeps DEF ReplyToContact
<1>7. ASSUME NEW c \in Conversations, NEW status \in Statuses \ {"none"}, Decide(c, status)
      PROVE  SupportInv'
  BY <1>7, DecideKeeps
<1>8. ASSUME NEW c \in Conversations, Poll(c)
      PROVE  SupportInv'
  BY <1>8, PollKeeps
<1>9. CASE UNCHANGED supportVars
  BY <1>9 DEF supportVars, SupportInv, SupportTyping, ConversationsAreSound, WorkIsSound, OneWorksOnEach
<1>10. CASE Writing
  BY <1>1, <1>2, <1>3, <1>4, <1>10 DEF Writing
<1>11. CASE Contacting
  BY <1>5, <1>6, <1>11 DEF Contacting
<1>12. CASE Deciding
  BY <1>7, <1>12 DEF Deciding, Statuses
<1>13. CASE Polling
  BY <1>8, <1>13 DEF Polling
<1> QED
  BY <1>9, <1>10, <1>11, <1>12, <1>13 DEF SupportNext

\* Support conversations keep their types and bounds, for any constants.
THEOREM SupportTypeCorrect == SupportSpec => []SupportTypeOK
<1>1. ASSUME SupportInv
      PROVE  SupportTypeOK
  <2>1. ASSUME NEW c \in Conversations
        PROVE  /\ contact[c].status \in Statuses /\ contact[c].last \in 0 .. MaxMessages
               /\ messages[c] \subseteq Created
               /\ shown[c] \subseteq messages[c] /\ {cursor[c], resolved[c]} \subseteq 0 .. MaxMessages
    <3>1. contact[c] \in ContactRow
      BY <1>1 DEF SupportInv, SupportTyping
    <3> QED
      BY <1>1, <3>1 DEF SupportInv, SupportTyping, ConversationsAreSound, SoundConversation, ContactRow
  <2>2. moment \in 0 .. MaxMessages /\ decisions \in 0 .. MaxDecisions
    BY <1>1 DEF SupportInv, SupportTyping
  <2> QED
    BY <2>1, <2>2 DEF SupportTypeOK, Statuses, Created
<1> QED
  BY <1>1, SupportInitHolds, SupportNextKeeps, PTL DEF SupportSpec

\* help_conversations.py, contact_services.py: whoever polls misses no message, one that is sent
\* again is there once, and what a user writes opens the conversation, which is listed by its
\* newest message and is replied to when it says so: for any writers at a time, in any order,
\* and any size of a page.
THEOREM ConversationsHold == SupportSpec => []ConversationsAreExact
<1>1. ASSUME SupportInv
      PROVE  PollsMissNothing
  BY <1>1 DEF SupportInv, ConversationsAreSound, SoundConversation, PollsMissNothing
<1>2. ASSUME SupportInv
      PROVE  RetriesAddOnce
  <2> SUFFICES ASSUME NEW c \in Conversations, NEW id \in ClientIds
               PROVE  Cardinality({m \in messages[c] : m.id = {id}}) <= 1
    BY DEF RetriesAddOnce
  <2> DEFINE named == {m \in messages[c] : m.id = {id}}
  <2>1. \A m, n \in named : m = n
    BY <1>2 DEF SupportInv, ConversationsAreSound, SoundConversation
  <2>2. CASE named = {}
    BY <2>2, FS_EmptySet
  <2>3. CASE named # {}
    <3>1. PICK m \in named : named = {m}
      BY <2>1, <2>3
    <3>2. Cardinality({m}) = 1
      BY FS_Singleton
    <3> QED
      BY <3>1, <3>2
  <2> QED
    BY <2>2, <2>3
<1>3. ASSUME SupportInv
      PROVE  WrittenIsOpen
  <2> SUFFICES ASSUME NEW c \in Contacts
               PROVE  /\ contact[c].status = "resolved" =>
                           \A m \in messages[c] : m.by = "user" => m.at <= resolved[c]
                      /\ contact[c].last = Max({m.at : m \in messages[c]})
                      /\ contact[c].replied <=> \E m \in messages[c] : m.by = "admin"
    BY DEF WrittenIsOpen
  <2> DEFINE times == {m.at : m \in messages[c]}
  <2>1. c \in Conversations /\ contact[c].status # "none"
    BY DEF Contacts
  <2>2. Fits(contact[c], messages[c], resolved[c])
    BY <1>3, <2>1 DEF SupportInv, ConversationsAreSound, SoundConversation
  <2>3. times \subseteq 0 .. MaxMessages
    BY <1>3, <2>1, SupportBounds DEF SupportInv, SupportTyping, Created
  <2>4. contact[c].last \in times /\ \A x \in times : x <= contact[c].last
    BY <2>1, <2>2 DEF Fits
  <2> HIDE DEF times
  <2>5. Max(times) = contact[c].last
    BY <2>3, <2>4, SupportBounds, MaxIs
  <2> QED
    BY <2>1, <2>2, <2>5 DEF Fits, times
<1>4. SupportInv => ConversationsAreExact
  BY <1>1, <1>2, <1>3 DEF ConversationsAreExact
<1> QED
  BY <1>4, SupportInitHolds, SupportNextKeeps, PTL DEF SupportSpec

-----------------------------------------------------------------------------
(***************************************************************************)
(* Otp.  A code opens one operation, a reset token one reset, and wrong    *)
(* attempts and resends end at their limits, for any requests and limits.  *)
(* A code that was used is not the stored one any more, so that what a     *)
(* later request is compared with is another; a reset rests on the one     *)
(* verification of its code; and what a request has been let through to    *)
(* count is still below the limit when it counts it.                       *)
(***************************************************************************)

Entry == [op : CodeOperations, pc : Steps, code : Nat, from : Nat, answer : Answers]

\* The steps of each operation.
Limited == {"verify", "verifyEmail", "verifyAndReset", "verifyChange"}
AfterUse == {"clearAttempts", "clearResends", "clearCooldown", "storeToken"}
InPlace(q) ==
    /\ q.pc = "start" => q.op = "none" /\ q.answer = "none"
    /\ q.pc = "store" => q.op \in {"sendFree", "send", "resend"}
    /\ q.pc \in {"count", "incrResends"} => q.op \in {"send", "resend"}
    /\ q.pc \in {"cooldown", "setCooldown"} => q.op = "send"
    /\ q.pc \in {"check", "incrAttempts"} => q.op \in Limited
    /\ q.pc \in {"get", "delete"} => q.op \in Verifications
    /\ q.pc \in AfterUse => q.op \in {"verify", "verifyEmail", "verifyAndReset"}
    /\ q.pc = "storeToken" => q.op = "verifyAndReset"
    /\ q.pc \in {"getToken", "deleteToken"} => q.op = "resetWithToken"
    /\ q.answer = "ok" => q.pc = "done"
AllInPlace == \A r \in CodeRequests : InPlace(req[r])

Active(r) == req[r].pc \notin {"start", "done"}
OneByOne == ~ setup.overlap => \A r, s \in CodeRequests : Active(r) /\ Active(s) => r = s

\* A request that has used its code, though it may not have answered yet.
Spent(q) == q.op \in Verifications /\ (q.pc \in AfterUse \/ q.answer = "ok")

\* Codes are numbered as they are sent.
InOrder(q, entry, last) ==
    /\ q.code <= last /\ q.from <= last
    /\ entry = 0 \/ q.from <= entry
    /\ q.pc = "delete" \/ Spent(q) => q.code # 0 /\ q.from <= q.code
CodesAreInOrder == otp <= sent /\ \A r \in CodeRequests : InOrder(req[r], otp, sent)

SpentOnce == ~ setup.overlap =>
    \A r \in CodeRequests :
        /\ Spent(req[r]) => req[r].code # otp
        /\ req[r].pc = "delete" => otp \in {0, req[r].code}
        /\ \A s \in CodeRequests :
             Spent(req[r]) /\ (Spent(req[s]) \/ req[s].pc = "delete") /\ req[r].code = req[s].code => r = s

\* A token comes from a verification, and so does the code that a reset names.
Verified(q) == q.op = "verifyAndReset" /\ q.answer = "ok"
HasReset(q) == q.op = "resetWithToken" /\ q.answer = "ok"
TokensAreVerified == \A v \in tokens : Verified(req[v])
TokensOnce == ~ setup.overlap =>
    \A r \in CodeRequests : req[r].op = "resetWithToken" =>
        /\ \E v \in CodeRequests : Verified(req[v]) /\ req[v].code = req[r].code
        /\ HasReset(req[r]) =>
             /\ \A v \in tokens : req[v].code # req[r].code
             /\ \A s \in CodeRequests :
                  (HasReset(req[s]) \/ req[s].pc = "deleteToken") /\ req[s].code = req[r].code => r = s

\* What a request was let through to count has not been counted yet.
MayCount(q) ==
    /\ q.pc \in {"get", "incrAttempts"} /\ q.op \in Limited => attempts < MaxAttempts
    /\ q.pc \in {"cooldown", "setCooldown", "incrResends"} => resends < MaxResends
    /\ q.pc = "store" /\ q.op = "resend" => resends < MaxResends
    /\ q.pc = "store" /\ q.op = "send" => delivered < resends
WithinLimits ==
    /\ wrong <= attempts /\ attempts <= MaxAttempts
    /\ delivered <= resends /\ resends <= MaxResends
LimitedIn == setup.strict /\ ~ setup.overlap
Counted == LimitedIn => WithinLimits /\ \A r \in CodeRequests : MayCount(req[r])

CodesInv ==
    /\ OtpTypeOK /\ AllInPlace /\ OneByOne
    /\ CodesAreInOrder /\ SpentOnce /\ TokensAreVerified /\ TokensOnce /\ Counted

-----------------------------------------------------------------------------
(* What a step of a request does.                                          *)

Follows(r) ==
    /\ req' \in [CodeRequests -> Entry]
    /\ \A q \in CodeRequests \ {r} : req'[q] = req[q]
    /\ req'[r].op = req[r].op /\ req'[r].code = req[r].code /\ req'[r].from = req[r].from

LEMMA GotoIs ==
    ASSUME OtpTypeOK, NEW r \in CodeRequests, NEW step \in Steps, Goto(r, step)
    PROVE  Follows(r) /\ req'[r].pc = step /\ req'[r].answer = req[r].answer
  BY DEF OtpTypeOK, Entry, Goto, Follows

LEMMA AnswerIs ==
    ASSUME OtpTypeOK, NEW r \in CodeRequests, NEW what \in Answers, Answer(r, what)
    PROVE  Follows(r) /\ req'[r].pc = "done" /\ req'[r].answer = what
  BY DEF OtpTypeOK, Entry, Answer, Follows, Steps

LEMMA VerdictIs ==
    ASSUME OtpTypeOK, NEW r \in CodeRequests, NEW what \in Answers, Verdict(r, what)
    PROVE  Follows(r) /\ req'[r].pc = "incrAttempts" /\ req'[r].answer = what
  BY DEF OtpTypeOK, Entry, Verdict, Follows, Steps

Effect(r) ==
    /\ Follows(r) /\ Active(r) /\ setup' = setup
    /\ attempts' \in Nat /\ resends' \in Nat /\ wrong' \in Nat /\ delivered' \in Nat /\ cooldown' \in BOOLEAN
    /\ InPlace(req'[r]) /\ req'[r].pc # "start"
    /\ (sent' = sent /\ otp' \in {otp, 0}) \/ (sent' = sent + 1 /\ otp' = sent + 1)
    /\ req'[r].pc = "delete" => Entered(r) /\ otp' = otp
    /\ Spent(req'[r]) => Spent(req[r]) \/ (req[r].pc = "delete" /\ otp' = 0)
    /\ tokens' \subseteq tokens \/ (tokens' = tokens \union {r} /\ Verified(req'[r]) /\ Spent(req[r]))
    /\ req'[r].pc = "deleteToken" => TokenOf(r) # {}
    /\ HasReset(req'[r]) => req[r].pc = "deleteToken" /\ tokens' = tokens \ TokenOf(r)
    /\ LimitedIn => WithinLimits' /\ MayCount(req[r])'

LEMMA EffectKeeps ==
    ASSUME CodesInv, NEW r \in CodeRequests, Effect(r)
    PROVE  CodesInv'
<1>1. /\ OtpTypeOK /\ AllInPlace /\ OneByOne /\ CodesAreInOrder /\ SpentOnce
      /\ TokensAreVerified /\ TokensOnce /\ Counted
  BY DEF CodesInv
<1>2. /\ Follows(r) /\ Active(r) /\ setup' = setup
      /\ \A q \in CodeRequests \ {r} : req'[q] = req[q]
      /\ req'[r].op = req[r].op /\ req'[r].code = req[r].code /\ req'[r].from = req[r].from
      /\ \A q \in CodeRequests : req[q] \in Entry
  BY <1>1 DEF Effect, Follows, OtpTypeOK, Entry
<1>3. OtpTypeOK'
  BY <1>1, <1>2 DEF Effect, Follows, OtpTypeOK, Entry
<1>4. AllInPlace'
  BY <1>1, <1>2 DEF Effect, AllInPlace
<1>5. OneByOne'
  BY <1>1, <1>2 DEF OneByOne, Active
<1>6. CodesAreInOrder'
  <2>1. /\ otp \in Nat /\ sent \in Nat /\ otp <= sent
        /\ (sent' = sent /\ otp' \in {otp, 0}) \/ (sent' = sent + 1 /\ otp' = sent + 1)
    BY <1>1 DEF Effect, OtpTypeOK, CodesAreInOrder
  <2>2. ASSUME NEW q \in CodeRequests
        PROVE  InOrder(req[q], otp, sent)
    BY <1>1 DEF CodesAreInOrder
  <2>3. ASSUME NEW q \in CodeRequests \ {r}
        PROVE  InOrder(req'[q], otp', sent')
    BY <1>2, <2>1, <2>2, <2>3 DEF InOrder, Entry
  <2>4. InOrder(req'[r], otp', sent')
    <3>1. req[r].code <= sent' /\ req[r].from <= sent' /\ (otp' = 0 \/ req[r].from <= otp')
      BY <1>2, <2>1, <2>2 DEF InOrder, Entry
    <3>2. ASSUME req'[r].pc = "delete" \/ Spent(req'[r])
          PROVE  req[r].code # 0 /\ req[r].from <= req[r].code
      BY <1>2, <2>2, <3>2 DEF Effect, InOrder, Entered
    <3> QED
      BY <1>2, <3>1, <3>2 DEF InOrder
  <2> QED
    BY <2>1, <2>3, <2>4 DEF CodesAreInOrder
<1>7. SpentOnce'
  <2> SUFFICES ASSUME ~ setup.overlap, NEW q \in CodeRequests
               PROVE  /\ Spent(req'[q]) => req'[q].code # otp'
                      /\ req'[q].pc = "delete" => otp' \in {0, req'[q].code}
                      /\ \A s \in CodeRequests :
                           Spent(req'[q]) /\ (Spent(req'[s]) \/ req'[s].pc = "delete")
                           /\ req'[q].code = req'[s].code => q = s
    BY <1>2 DEF SpentOnce
  <2>1. \A s \in CodeRequests : Spent(req'[s]) => Spent(req[s]) \/ (s = r /\ req[r].pc = "delete" /\ otp' = 0)
    BY <1>2 DEF Effect
  <2>2. \A s \in CodeRequests : req'[s].pc = "delete" => s = r /\ Entered(r) /\ otp' = otp
    BY <1>1, <1>2 DEF Effect, OneByOne, Active
  <2>3. \A s \in CodeRequests : /\ req'[s].code = req[s].code /\ req[s].code \in Nat /\ req[s].code <= sent
                                /\ Spent(req[s]) \/ req[s].pc = "delete" => req[s].code # 0
    BY <1>1, <1>2 DEF CodesAreInOrder, InOrder, Entry
  <2>4. Spent(req'[q]) => req'[q].code # otp'
    BY <1>1, <2>1, <2>3 DEF SpentOnce, Effect, OtpTypeOK
  <2>5. req'[q].pc = "delete" => otp' \in {0, req'[q].code}
    BY <2>2, <2>3 DEF Entered
  <2>6. ASSUME NEW s \in CodeRequests, Spent(req'[q]), Spent(req'[s]) \/ req'[s].pc = "delete",
               req'[q].code = req'[s].code
        PROVE  q = s
    <3>1. CASE Spent(req'[s])
      BY <1>1, <2>1, <2>3, <2>6, <3>1 DEF SpentOnce
    <3>2. CASE req'[s].pc = "delete"
      <4>1. s = r /\ req[r].code = otp /\ otp' = otp /\ otp # 0
        BY <2>2, <3>2 DEF Entered
      <4>2. Spent(req[q])
        BY <2>1, <2>6, <4>1
      <4> QED
        BY <1>1, <2>3, <2>6, <4>1, <4>2 DEF SpentOnce
    <3> QED
      BY <2>6, <3>1, <3>2
  <2> QED
    BY <2>4, <2>5, <2>6
<1>8. TokensAreVerified'
  <2>1. \A v \in tokens : v \in CodeRequests /\ v # r
    BY <1>1, <1>2 DEF OtpTypeOK, TokensAreVerified, Verified, AllInPlace, InPlace, Active
  <2> QED
    BY <1>1, <1>2, <2>1 DEF TokensAreVerified, Effect
<1>9. TokensOnce'
  <2> SUFFICES ASSUME ~ setup.overlap, NEW q \in CodeRequests, req'[q].op = "resetWithToken"
               PROVE  /\ \E v \in CodeRequests : Verified(req'[v]) /\ req'[v].code = req'[q].code
                      /\ HasReset(req'[q]) =>
                           /\ \A v \in tokens' : req'[v].code # req'[q].code
                           /\ \A s \in CodeRequests :
                                (HasReset(req'[s]) \/ req'[s].pc = "deleteToken") /\ req'[s].code = req'[q].code => q = s
    BY <1>2 DEF TokensOnce
  <2>1. \A s \in CodeRequests : req'[s].op = req[s].op /\ req'[s].code = req[s].code
    BY <1>2
  <2>2. PICK v \in CodeRequests : Verified(req[v]) /\ req[v].code = req[q].code
    BY <1>1, <2>1 DEF TokensOnce
  <2>3. v # r /\ Verified(req'[v])
    BY <1>1, <1>2, <2>2 DEF Verified, AllInPlace, InPlace, Active
  <2>4. \A s \in CodeRequests : s # r /\ req'[s].pc = "deleteToken" => FALSE
    BY <1>1, <1>2 DEF OneByOne, Active
  <2>5. ASSUME HasReset(req'[q]), NEW t \in tokens', req'[t].code = req'[q].code
        PROVE  FALSE
    <3>1. t \in CodeRequests /\ req[t].code = req[q].code
      BY <1>3, <2>1, <2>5 DEF OtpTypeOK
    <3>2. CASE q # r
      <4>1. HasReset(req[q])
        BY <1>2, <2>5, <3>2
      <4>2. t \notin tokens
        BY <1>1, <2>1, <3>1, <4>1 DEF TokensOnce
      <4>3. t = r /\ Spent(req[r])
        BY <2>5, <4>2 DEF Effect
      <4>4. Spent(req[v])
        BY <2>2 DEF Verified, Spent, Verifications
      <4> QED
        BY <1>1, <2>2, <2>3, <3>1, <4>3, <4>4 DEF SpentOnce
    <3>3. CASE q = r
      BY <1>1, <2>5, <3>1, <3>3 DEF Effect, TokenOf
    <3> QED
      BY <3>2, <3>3
  <2>6. ASSUME HasReset(req'[q]), NEW s \in CodeRequests,
               HasReset(req'[s]) \/ req'[s].pc = "deleteToken", req'[s].code = req'[q].code
        PROVE  q = s
    <3>1. /\ req[q].op = "resetWithToken" /\ req[s].code = req[q].code
          /\ HasReset(req'[s]) => req[s].op = "resetWithToken"
      BY <2>1, <2>6 DEF HasReset
    <3>2. CASE q # r
      <4>1. HasReset(req[q])
        BY <1>2, <2>6, <3>2
      <4>2. CASE HasReset(req'[s])
        <5>1. HasReset(req[s]) \/ req[s].pc = "deleteToken"
          BY <1>2, <4>2 DEF Effect
        <5> QED
          BY <1>1, <3>1, <4>1, <5>1 DEF TokensOnce
      <4>3. CASE req'[s].pc = "deleteToken"
        <5>1. s = r /\ TokenOf(r) # {}
          BY <2>4, <4>3 DEF Effect
        <5>2. PICK t \in tokens : req[t].code = req[r].code
          BY <5>1 DEF TokenOf
        <5> QED
          BY <1>1, <3>1, <4>1, <5>1, <5>2 DEF TokensOnce
      <4> QED
        BY <2>6, <4>2, <4>3
    <3>3. CASE q = r
      <4>1. req[r].pc = "deleteToken" /\ req'[r].pc = "done"
        BY <2>6, <3>3 DEF Effect, HasReset, InPlace
      <4>2. ASSUME s # r
            PROVE  FALSE
        <5>1. HasReset(req[s])
          BY <1>2, <2>4, <2>6, <4>2
        <5>2. req[s].op = "resetWithToken"
          BY <5>1 DEF HasReset
        <5> QED
          BY <1>1, <3>1, <3>3, <4>1, <4>2, <5>1, <5>2 DEF TokensOnce
      <4> QED
        BY <3>3, <4>2
    <3> QED
      BY <3>2, <3>3
  <2> QED
    BY <2>1, <2>2, <2>3, <2>5, <2>6
<1>10. Counted'
  <2> SUFFICES ASSUME LimitedIn
               PROVE  WithinLimits' /\ \A q \in CodeRequests : MayCount(req[q])'
    BY <1>2 DEF Counted, LimitedIn
  <2>1. ASSUME NEW q \in CodeRequests \ {r}
        PROVE  MayCount(req[q])'
    BY <1>1, <1>2, <2>1 DEF OneByOne, Active, LimitedIn, MayCount
  <2> QED
    BY <2>1 DEF Effect
<1> QED
  BY <1>3, <1>4, <1>5, <1>6, <1>7, <1>8, <1>9, <1>10 DEF CodesInv

-----------------------------------------------------------------------------
(* Each step of a request that has begun has such an effect.               *)

\* What is known of a request.
Known(r) ==
    /\ req[r] \in Entry /\ InPlace(req[r])
    /\ otp \in Nat /\ sent \in Nat /\ attempts \in Nat /\ resends \in Nat /\ cooldown \in BOOLEAN
    /\ wrong \in Nat /\ delivered \in Nat
    /\ MaxAttempts \in Nat \ {0} /\ MaxResends \in Nat \ {0}
    /\ LimitedIn => WithinLimits /\ MayCount(req[r])

LEMMA RequestsAreKnown ==
    ASSUME CodesInv, NEW r \in CodeRequests
    PROVE  Known(r) /\ OtpTypeOK
  BY LimitAssumption DEF CodesInv, OtpTypeOK, Entry, AllInPlace, Counted, Known

\* A step that reads, or fails, and ends in a place where nothing has been achieved.
Reads(r) ==
    /\ Follows(r) /\ Active(r) /\ UNCHANGED <<redis, sent, setup>>
    /\ InPlace(req'[r]) /\ req'[r].pc # "start"
    /\ req'[r].pc = "delete" => Entered(r)
    /\ ~ Spent(req'[r]) /\ ~ HasReset(req'[r])
    /\ req'[r].pc = "deleteToken" => TokenOf(r) # {}
    /\ wrong' \in Nat /\ delivered' \in Nat
    /\ LimitedIn => wrong' = wrong /\ delivered' = delivered /\ MayCount(req'[r])

LEMMA ReadsHasEffect ==
    ASSUME CodesInv, NEW r \in CodeRequests, Reads(r)
    PROVE  Effect(r)
<1>1. Known(r) /\ OtpTypeOK
  BY RequestsAreKnown
<1>2. LimitedIn => WithinLimits' /\ MayCount(req[r])'
  BY <1>1 DEF Known, Reads, WithinLimits, MayCount, redis
<1> QED
  BY <1>1, <1>2 DEF Known, Reads, Effect, redis, OtpTypeOK

LEMMA FailureReads ==
    ASSUME CodesInv, NEW r \in CodeRequests, Active(r), NEW what \in {"failed", "limited", "wait", "expired", "wrong"},
           Answer(r, what), UNCHANGED <<redis, sent, history, setup>>
    PROVE  Effect(r)
<1>1. Known(r) /\ OtpTypeOK
  BY RequestsAreKnown
<1>2. Follows(r) /\ req'[r].pc = "done" /\ req'[r].answer = what
  BY <1>1, AnswerIs DEF Answers
<1>3. InPlace(req'[r]) /\ MayCount(req'[r])
  BY <1>2 DEF InPlace, MayCount, AfterUse
<1>4. ~ Spent(req'[r]) /\ ~ HasReset(req'[r])
  BY <1>2 DEF Spent, HasReset, AfterUse
<1> QED
  BY <1>1, <1>2, <1>3, <1>4, ReadsHasEffect DEF Reads, history, Known

LEMMA LimitFailsHasEffect ==
    ASSUME CodesInv, NEW r \in CodeRequests, NEW step \in {"count", "cooldown", "setCooldown", "check"},
           At(r, step), LimitFails(r, IF step = "check" THEN "get" ELSE "store")
    PROVE  Effect(r)
<1>1. Known(r) /\ OtpTypeOK /\ Active(r)
  BY RequestsAreKnown DEF At, Active
<1>2. CASE setup.strict
  BY <1>1, <1>2, FailureReads DEF LimitFails
<1>3. CASE ~ setup.strict
  <2>1. Follows(r) /\ req'[r].pc = (IF step = "check" THEN "get" ELSE "store") /\ req'[r].answer = req[r].answer
    BY <1>1, <1>3, GotoIs DEF LimitFails, Steps
  <2>2. InPlace(req'[r])
    BY <1>1, <2>1 DEF Known, Entry, InPlace, At, Follows, Limited, Verifications, AfterUse
  <2>3. ~ Spent(req'[r]) /\ ~ HasReset(req'[r])
    BY <2>1, <2>2 DEF Spent, HasReset, AfterUse, InPlace
  <2> QED
    BY <1>1, <1>3, <2>1, <2>2, <2>3, ReadsHasEffect DEF LimitFails, Reads, history, Known, LimitedIn
<1> QED
  BY <1>2, <1>3

LEMMA FailsHasEffect ==
    ASSUME CodesInv, NEW r \in CodeRequests, Active(r), Fails(r)
    PROVE  Effect(r)
  BY FailureReads DEF Fails

LEMMA CountResendsHasEffect ==
    ASSUME CodesInv, NEW r \in CodeRequests, CountResends(r)
    PROVE  Effect(r)
<1>1. Known(r) /\ OtpTypeOK /\ Active(r)
  BY RequestsAreKnown DEF CountResends, At, Active
<1>2. CASE resends >= MaxResends
  BY <1>1, <1>2, FailureReads DEF CountResends
<1>3. CASE ~ (resends >= MaxResends)
  <2>1. PICK step \in Steps : /\ Goto(r, step)
                              /\ step = IF Is(r, {"resend"}) THEN "store"
                                        ELSE IF resends > 0 THEN "cooldown" ELSE "setCooldown"
    BY <1>3 DEF CountResends, Steps
  <2>2. Follows(r) /\ req'[r].pc = step /\ req'[r].answer = req[r].answer
    BY <1>1, <2>1, GotoIs
  <2>3. InPlace(req'[r])
    BY <1>1, <2>1, <2>2 DEF Known, Entry, InPlace, CountResends, At, Is, Follows, AfterUse
  <2>4. ~ Spent(req'[r]) /\ ~ HasReset(req'[r])
    BY <2>1, <2>2, <2>3 DEF Spent, HasReset, AfterUse, InPlace
  <2>5. MayCount(req'[r])
    BY <1>1, <1>3, <2>1, <2>2 DEF MayCount, Known, CountResends, At, InPlace, Is, Follows
  <2> QED
    BY <1>1, <2>1, <2>2, <2>3, <2>4, <2>5, ReadsHasEffect DEF CountResends, Reads, history, Known
<1> QED
  BY <1>2, <1>3

LEMMA CheckCooldownHasEffect ==
    ASSUME CodesInv, NEW r \in CodeRequests, CheckCooldown(r)
    PROVE  Effect(r)
<1>1. Known(r) /\ OtpTypeOK /\ Active(r)
  BY RequestsAreKnown DEF CheckCooldown, At, Active
<1>2. CASE cooldown
  BY <1>1, <1>2, FailureReads DEF CheckCooldown
<1>3. CASE ~ cooldown
  <2>1. Follows(r) /\ req'[r].pc = "setCooldown" /\ req'[r].answer = req[r].answer
    BY <1>1, <1>3, GotoIs DEF CheckCooldown, Steps
  <2>2. InPlace(req'[r]) /\ (LimitedIn => MayCount(req'[r]))
    BY <1>1, <2>1 DEF Known, InPlace, CheckCooldown, At, Follows, AfterUse, MayCount
  <2>3. ~ Spent(req'[r]) /\ ~ HasReset(req'[r])
    BY <2>1, <2>2 DEF Spent, HasReset, AfterUse, InPlace
  <2> QED
    BY <1>1, <2>1, <2>2, <2>3, ReadsHasEffect DEF CheckCooldown, Reads, history, Known
<1> QED
  BY <1>2, <1>3

LEMMA CheckAttemptsHasEffect ==
    ASSUME CodesInv, NEW r \in CodeRequests, CheckAttempts(r)
    PROVE  Effect(r)
<1>1. Known(r) /\ OtpTypeOK /\ Active(r)
  BY RequestsAreKnown DEF CheckAttempts, At, Active
<1>2. CASE attempts >= MaxAttempts
  BY <1>1, <1>2, FailureReads DEF CheckAttempts
<1>3. CASE ~ (attempts >= MaxAttempts)
  <2>1. Follows(r) /\ req'[r].pc = "get" /\ req'[r].answer = req[r].answer
    BY <1>1, <1>3, GotoIs DEF CheckAttempts, Steps
  <2>2. InPlace(req'[r]) /\ MayCount(req'[r])
    BY <1>1, <1>3, <2>1
    DEF Known, InPlace, CheckAttempts, At, Follows, AfterUse, MayCount, Limited, Verifications
  <2>3. ~ Spent(req'[r]) /\ ~ HasReset(req'[r])
    BY <2>1, <2>2 DEF Spent, HasReset, AfterUse, InPlace
  <2> QED
    BY <1>1, <2>1, <2>2, <2>3, ReadsHasEffect DEF CheckAttempts, Reads, history, Known
<1> QED
  BY <1>2, <1>3

LEMMA CompareHasEffect ==
    ASSUME CodesInv, NEW r \in CodeRequests, Compare(r)
    PROVE  Effect(r)
<1>1. Known(r) /\ OtpTypeOK /\ Active(r)
  BY RequestsAreKnown DEF Compare, At, Active
<1>2. CASE Entered(r)
  <2>1. Follows(r) /\ req'[r].pc = "delete" /\ req'[r].answer = req[r].answer
    BY <1>1, <1>2, GotoIs DEF Compare, Steps
  <2>2. InPlace(req'[r]) /\ MayCount(req'[r])
    BY <1>1, <2>1 DEF Known, InPlace, Compare, At, Follows, AfterUse, MayCount
  <2>3. ~ Spent(req'[r]) /\ ~ HasReset(req'[r])
    BY <2>1, <2>2 DEF Spent, HasReset, AfterUse, InPlace
  <2> QED
    BY <1>1, <1>2, <2>1, <2>2, <2>3, ReadsHasEffect DEF Compare, Reads, history, Known
<1>3. ASSUME ~ Entered(r), NEW what \in {"expired", "wrong"}, Verdict(r, what), req[r].op \in Limited
      PROVE  Effect(r)
  <2>1. Follows(r) /\ req'[r].pc = "incrAttempts" /\ req'[r].answer = what
    BY <1>1, <1>3, VerdictIs DEF Answers
  <2>2. InPlace(req'[r]) /\ (LimitedIn => MayCount(req'[r]))
    BY <1>1, <1>3, <2>1 DEF Known, InPlace, Compare, At, Follows, AfterUse, MayCount
  <2>3. ~ Spent(req'[r]) /\ ~ HasReset(req'[r])
    BY <2>1, <2>2 DEF Spent, HasReset, AfterUse, InPlace
  <2> QED
    BY <1>1, <2>1, <2>2, <2>3, ReadsHasEffect DEF Compare, Reads, history, Known
<1>4. ~ Entered(r) => \E what \in {"expired", "wrong"} :
        Answer(r, what) \/ (Verdict(r, what) /\ req[r].op \in Limited)
  BY DEF Compare, Is, Limited
<1> QED
  BY <1>1, <1>2, <1>3, <1>4, FailureReads DEF Compare

LEMMA GetTokenHasEffect ==
    ASSUME CodesInv, NEW r \in CodeRequests, GetToken(r)
    PROVE  Effect(r)
<1>1. Known(r) /\ OtpTypeOK /\ Active(r)
  BY RequestsAreKnown DEF GetToken, At, Active
<1>2. CASE TokenOf(r) = {}
  BY <1>1, <1>2, FailureReads DEF GetToken
<1>3. CASE TokenOf(r) # {}
  <2>1. Follows(r) /\ req'[r].pc = "deleteToken" /\ req'[r].answer = req[r].answer
    BY <1>1, <1>3, GotoIs DEF GetToken, Steps
  <2>2. InPlace(req'[r]) /\ MayCount(req'[r])
    BY <1>1, <2>1 DEF Known, InPlace, GetToken, At, Follows, AfterUse, MayCount
  <2>3. ~ Spent(req'[r]) /\ ~ HasReset(req'[r])
    BY <2>1, <2>2 DEF Spent, HasReset, AfterUse, InPlace
  <2> QED
    BY <1>1, <1>3, <2>1, <2>2, <2>3, ReadsHasEffect DEF GetToken, Reads, history, Known
<1> QED
  BY <1>2, <1>3

\* Where a request is, and what has to be shown of it, apart from what it writes.
Reaches(r) ==
    /\ Follows(r) /\ Active(r) /\ setup' = setup
    /\ InPlace(req'[r]) /\ req'[r].pc \notin {"start", "delete", "deleteToken"}
    /\ Spent(req'[r]) => Spent(req[r])
    /\ ~ HasReset(req'[r])

LEMMA SetCooldownHasEffect ==
    ASSUME CodesInv, NEW r \in CodeRequests, SetCooldown(r)
    PROVE  Effect(r)
<1>1. Known(r) /\ OtpTypeOK /\ Active(r)
  BY RequestsAreKnown DEF SetCooldown, At, Active
<1>2. Follows(r) /\ req'[r].pc = "incrResends" /\ req'[r].answer = req[r].answer
  BY <1>1, GotoIs, AnswerIs DEF SetCooldown, Is, Steps, Answers
<1>3. Reaches(r)
  BY <1>1, <1>2
  DEF Reaches, SetCooldown, Known, Entry, InPlace, At, Is, Follows, AfterUse, Spent, HasReset,
      Verifications
<1>4. LimitedIn => WithinLimits' /\ MayCount(req[r])'
  BY <1>1, <1>2
  DEF SetCooldown, At, Is, Known, InPlace, Follows, LimitedIn, WithinLimits, MayCount, AfterUse, history
<1> QED
  BY <1>1, <1>2, <1>3, <1>4 DEF Reaches, Effect, SetCooldown, Known, OtpTypeOK, history

LEMMA IncrResendsHasEffect ==
    ASSUME CodesInv, NEW r \in CodeRequests, IncrResends(r)
    PROVE  Effect(r)
<1>1. Known(r) /\ OtpTypeOK /\ Active(r)
  BY RequestsAreKnown DEF IncrResends, At, Active
<1>2. /\ Follows(r)
      /\ \/ req[r].op = "resend" /\ delivered' = delivered + 1 /\ req'[r].pc = "done" /\ req'[r].answer = "sent"
         \/ req[r].op # "resend" /\ delivered' = delivered /\ req'[r].pc = "store" /\ req'[r].answer = req[r].answer
  BY <1>1, GotoIs, AnswerIs DEF IncrResends, Is, Steps, Answers
<1>3. Reaches(r)
  BY <1>1, <1>2
  DEF Reaches, IncrResends, Known, Entry, InPlace, At, Is, Follows, AfterUse, Spent, HasReset,
      Verifications, Limited
<1>4. LimitedIn => WithinLimits' /\ MayCount(req[r])'
  BY <1>1, <1>2 DEF IncrResends, At, Is, Known, InPlace, Follows, LimitedIn, WithinLimits, MayCount, AfterUse
<1> QED
  BY <1>1, <1>2, <1>3, <1>4 DEF Reaches, Effect, IncrResends, Known, OtpTypeOK

LEMMA IncrResendsFailsHasEffect ==
    ASSUME CodesInv, NEW r \in CodeRequests, IncrResendsFails(r)
    PROVE  Effect(r)
<1>1. Known(r) /\ OtpTypeOK /\ Active(r)
  BY RequestsAreKnown DEF IncrResendsFails, At, Active
<1>2. /\ Follows(r)
      /\ \/ setup.strict /\ delivered' = delivered /\ req'[r].pc = "done" /\ req'[r].answer = "failed"
         \/ /\ ~ setup.strict /\ delivered' \in {delivered, delivered + 1}
            /\ \/ req[r].op = "resend" /\ req'[r].pc = "done" /\ req'[r].answer = "sent"
               \/ req[r].op # "resend" /\ req'[r].pc = "store" /\ req'[r].answer = req[r].answer
  BY <1>1, GotoIs, AnswerIs DEF IncrResendsFails, Is, Steps, Answers
<1>3. Reaches(r)
  BY <1>1, <1>2
  DEF Reaches, IncrResendsFails, Known, Entry, InPlace, At, Is, Follows, AfterUse, Spent, HasReset,
      Verifications, Limited
<1>4. LimitedIn => WithinLimits' /\ MayCount(req[r])'
  BY <1>1, <1>2
  DEF IncrResendsFails, At, Is, Known, InPlace, Follows, LimitedIn, WithinLimits, MayCount, AfterUse,
      redis
<1> QED
  BY <1>1, <1>2, <1>3, <1>4 DEF Reaches, Effect, IncrResendsFails, Known, OtpTypeOK, redis

LEMMA StoreHasEffect ==
    ASSUME CodesInv, NEW r \in CodeRequests, Store(r)
    PROVE  Effect(r)
<1>1. Known(r) /\ OtpTypeOK /\ Active(r)
  BY RequestsAreKnown DEF Store, At, Active
<1>2. /\ Follows(r)
      /\ \/ req[r].op = "resend" /\ req'[r].pc = "incrResends" /\ req'[r].answer = req[r].answer
         \/ req[r].op # "resend" /\ req'[r].pc = "done" /\ req'[r].answer = "sent"
  BY <1>1, GotoIs, AnswerIs DEF Store, Is, Steps, Answers
<1>3. Reaches(r)
  BY <1>1, <1>2
  DEF Reaches, Store, Known, Entry, InPlace, At, Is, Follows, AfterUse, Spent, HasReset, Verifications
<1>4. LimitedIn => WithinLimits' /\ MayCount(req[r])'
  BY <1>1, <1>2 DEF Store, At, Is, Known, InPlace, Follows, LimitedIn, WithinLimits, MayCount, AfterUse
<1> QED
  BY <1>1, <1>2, <1>3, <1>4 DEF Reaches, Effect, Store, Known, OtpTypeOK

LEMMA StoreUnsentHasEffect ==
    ASSUME CodesInv, NEW r \in CodeRequests, StoreUnsent(r)
    PROVE  Effect(r)
<1>1. Known(r) /\ OtpTypeOK /\ Active(r)
  BY RequestsAreKnown DEF StoreUnsent, At, Active
<1>2. Follows(r) /\ req'[r].pc = "done" /\ req'[r].answer = "failed"
  BY <1>1, GotoIs, AnswerIs DEF StoreUnsent, Is, Steps, Answers
<1>3. Reaches(r)
  BY <1>1, <1>2
  DEF Reaches, StoreUnsent, Known, Entry, InPlace, At, Is, Follows, AfterUse, Spent, HasReset,
      Verifications
<1>4. LimitedIn => WithinLimits' /\ MayCount(req[r])'
  BY <1>1, <1>2
  DEF StoreUnsent, At, Is, Known, InPlace, Follows, LimitedIn, WithinLimits, MayCount, AfterUse, history
<1> QED
  BY <1>1, <1>2, <1>3, <1>4 DEF Reaches, Effect, StoreUnsent, Known, OtpTypeOK, history

LEMMA IncrAttemptsHasEffect ==
    ASSUME CodesInv, NEW r \in CodeRequests, IncrAttempts(r)
    PROVE  Effect(r)
<1>1. Known(r) /\ OtpTypeOK /\ Active(r)
  BY RequestsAreKnown DEF IncrAttempts, At, Active
<1>2. Follows(r) /\ req'[r].pc = "done" /\ req'[r].answer = req[r].answer
  BY <1>1, GotoIs, AnswerIs DEF IncrAttempts, Is, Steps, Answers
<1>3. Reaches(r)
  BY <1>1, <1>2
  DEF Reaches, IncrAttempts, Known, Entry, InPlace, At, Is, Follows, AfterUse, Spent, HasReset,
      Verifications, Limited
<1>4. LimitedIn => WithinLimits' /\ MayCount(req[r])'
  BY <1>1, <1>2 DEF IncrAttempts, At, Is, Known, InPlace, Follows, LimitedIn, WithinLimits, MayCount, AfterUse
<1> QED
  BY <1>1, <1>2, <1>3, <1>4 DEF Reaches, Effect, IncrAttempts, Known, OtpTypeOK

LEMMA IncrAttemptsFailsHasEffect ==
    ASSUME CodesInv, NEW r \in CodeRequests, IncrAttemptsFails(r)
    PROVE  Effect(r)
<1>1. Known(r) /\ OtpTypeOK /\ Active(r)
  BY RequestsAreKnown DEF IncrAttemptsFails, At, Active
<1>2. /\ Follows(r)
      /\ \/ setup.strict /\ wrong' = wrong /\ req'[r].pc = "done" /\ req'[r].answer = "failed"
         \/ ~ setup.strict /\ wrong' = wrong + 1 /\ req'[r].pc = "done" /\ req'[r].answer = req[r].answer
  BY <1>1, GotoIs, AnswerIs DEF IncrAttemptsFails, Is, Steps, Answers
<1>3. Reaches(r)
  BY <1>1, <1>2
  DEF Reaches, IncrAttemptsFails, Known, Entry, InPlace, At, Is, Follows, AfterUse, Spent, HasReset,
      Verifications, Limited
<1>4. LimitedIn => WithinLimits' /\ MayCount(req[r])'
  BY <1>1, <1>2
  DEF IncrAttemptsFails, At, Is, Known, InPlace, Follows, LimitedIn, WithinLimits, MayCount, AfterUse,
      redis
<1> QED
  BY <1>1, <1>2, <1>3, <1>4 DEF Reaches, Effect, IncrAttemptsFails, Known, OtpTypeOK, redis

LEMMA ClearAttemptsHasEffect ==
    ASSUME CodesInv, NEW r \in CodeRequests, ClearAttempts(r)
    PROVE  Effect(r)
<1>1. Known(r) /\ OtpTypeOK /\ Active(r)
  BY RequestsAreKnown DEF ClearAttempts, At, Active
<1>2. /\ Follows(r)
      /\ \/ req[r].op = "verifyEmail" /\ req'[r].pc = "done" /\ req'[r].answer = "ok"
         \/ req[r].op # "verifyEmail" /\ req'[r].pc = "clearResends" /\ req'[r].answer = req[r].answer
  BY <1>1, GotoIs, AnswerIs DEF ClearAttempts, Is, Steps, Answers
<1>3. Reaches(r)
  BY <1>1, <1>2
  DEF Reaches, ClearAttempts, Known, Entry, InPlace, At, Is, Follows, AfterUse, Spent, HasReset,
      Verifications
<1>4. LimitedIn => WithinLimits' /\ MayCount(req[r])'
  BY <1>1, <1>2 DEF ClearAttempts, At, Is, Known, InPlace, Follows, LimitedIn, WithinLimits, MayCount, AfterUse
<1> QED
  BY <1>1, <1>2, <1>3, <1>4 DEF Reaches, Effect, ClearAttempts, Known, OtpTypeOK

LEMMA ClearResendsHasEffect ==
    ASSUME CodesInv, NEW r \in CodeRequests, ClearResends(r)
    PROVE  Effect(r)
<1>1. Known(r) /\ OtpTypeOK /\ Active(r)
  BY RequestsAreKnown DEF ClearResends, At, Active
<1>2. Follows(r) /\ req'[r].pc = "clearCooldown" /\ req'[r].answer = req[r].answer
  BY <1>1, GotoIs, AnswerIs DEF ClearResends, Is, Steps, Answers
<1>3. Reaches(r)
  BY <1>1, <1>2
  DEF Reaches, ClearResends, Known, Entry, InPlace, At, Is, Follows, AfterUse, Spent, HasReset,
      Verifications
<1>4. LimitedIn => WithinLimits' /\ MayCount(req[r])'
  BY <1>1, <1>2 DEF ClearResends, At, Is, Known, InPlace, Follows, LimitedIn, WithinLimits, MayCount, AfterUse
<1> QED
  BY <1>1, <1>2, <1>3, <1>4 DEF Reaches, Effect, ClearResends, Known, OtpTypeOK

LEMMA ClearCooldownHasEffect ==
    ASSUME CodesInv, NEW r \in CodeRequests, ClearCooldown(r)
    PROVE  Effect(r)
<1>1. Known(r) /\ OtpTypeOK /\ Active(r)
  BY RequestsAreKnown DEF ClearCooldown, At, Active
<1>2. /\ Follows(r)
      /\ \/ req[r].op = "verifyAndReset" /\ req'[r].pc = "storeToken" /\ req'[r].answer = req[r].answer
         \/ req[r].op # "verifyAndReset" /\ req'[r].pc = "done" /\ req'[r].answer = "ok"
  BY <1>1, GotoIs, AnswerIs DEF ClearCooldown, Is, Steps, Answers
<1>3. Reaches(r)
  BY <1>1, <1>2
  DEF Reaches, ClearCooldown, Known, Entry, InPlace, At, Is, Follows, AfterUse, Spent, HasReset,
      Verifications
<1>4. LimitedIn => WithinLimits' /\ MayCount(req[r])'
  BY <1>1, <1>2
  DEF ClearCooldown, At, Is, Known, InPlace, Follows, LimitedIn, WithinLimits, MayCount, AfterUse,
      history
<1> QED
  BY <1>1, <1>2, <1>3, <1>4 DEF Reaches, Effect, ClearCooldown, Known, OtpTypeOK, history

LEMMA StoreTokenHasEffect ==
    ASSUME CodesInv, NEW r \in CodeRequests, StoreToken(r)
    PROVE  Effect(r)
<1>1. Known(r) /\ OtpTypeOK /\ Active(r)
  BY RequestsAreKnown DEF StoreToken, At, Active
<1>2. Follows(r) /\ req'[r].pc = "done" /\ req'[r].answer = "ok"
  BY <1>1, AnswerIs DEF StoreToken, Answers
<1>3. Reaches(r) /\ Verified(req'[r]) /\ Spent(req[r])
  BY <1>1, <1>2
  DEF Reaches, StoreToken, Known, InPlace, At, Follows, AfterUse, Spent, HasReset, Verifications,
      Verified
<1>4. LimitedIn => WithinLimits' /\ MayCount(req[r])'
  BY <1>1, <1>2 DEF StoreToken, Known, WithinLimits, MayCount, history
<1> QED
  BY <1>1, <1>2, <1>3, <1>4 DEF Reaches, Effect, StoreToken, Known, history

LEMMA DeleteHasEffect ==
    ASSUME CodesInv, NEW r \in CodeRequests, Delete(r)
    PROVE  Effect(r)
<1>1. Known(r) /\ OtpTypeOK /\ Active(r)
  BY RequestsAreKnown DEF Delete, At, Active
<1>2. /\ Follows(r)
      /\ \/ req[r].op \in {"verifyChange", "resetLegacy"} /\ req'[r].pc = "done" /\ req'[r].answer = "ok"
         \/ /\ req[r].op \notin {"verifyChange", "resetLegacy"}
            /\ req'[r].pc = "clearAttempts" /\ req'[r].answer = req[r].answer
  BY <1>1, GotoIs, AnswerIs DEF Delete, Is, Steps, Answers
<1>3. InPlace(req'[r]) /\ ~ HasReset(req'[r])
  BY <1>1, <1>2 DEF Delete, Known, Entry, InPlace, At, Follows, AfterUse, HasReset, Verifications
<1>4. LimitedIn => WithinLimits' /\ MayCount(req[r])'
  BY <1>1, <1>2 DEF Delete, Known, WithinLimits, MayCount, history
<1> QED
  BY <1>1, <1>2, <1>3, <1>4 DEF Effect, Delete, At, Known, history

LEMMA DeleteTokenHasEffect ==
    ASSUME CodesInv, NEW r \in CodeRequests, DeleteToken(r)
    PROVE  Effect(r)
<1>1. Known(r) /\ OtpTypeOK /\ Active(r)
  BY RequestsAreKnown DEF DeleteToken, At, Active
<1>2. Follows(r) /\ req'[r].pc = "done" /\ req'[r].answer = "ok"
  BY <1>1, AnswerIs DEF DeleteToken, Answers
<1>3. InPlace(req'[r]) /\ ~ Spent(req'[r])
  BY <1>1, <1>2 DEF DeleteToken, Known, InPlace, At, Follows, AfterUse, Spent, Verifications
<1>4. LimitedIn => WithinLimits' /\ MayCount(req[r])'
  BY <1>1, <1>2 DEF DeleteToken, Known, WithinLimits, MayCount, history
<1> QED
  BY <1>1, <1>2, <1>3, <1>4 DEF Effect, DeleteToken, At, Known, history

-----------------------------------------------------------------------------
(* A request begins, and a key expires.                                    *)

\* Where each operation begins.
FirstStep(op) ==
    CASE op \in {"send", "resend"} -> "count"
      [] op = "sendFree" -> "store"
      [] op \in Limited -> "check"
      [] op = "resetLegacy" -> "get"
      [] op = "resetWithToken" -> "getToken"

LEMMA BeginKeeps ==
    ASSUME CodesInv, NEW r \in CodeRequests, NEW op \in CodeOperations \ {"none"}, NEW entered \in Nat, entered <= sent,
           Begin(r, op, FirstStep(op), entered),
           op = "resetWithToken" => \E v \in CodeRequests : Verified(req[v]) /\ req[v].code = entered
    PROVE  CodesInv'
<1>1. /\ OtpTypeOK /\ AllInPlace /\ OneByOne /\ CodesAreInOrder /\ SpentOnce
      /\ TokensAreVerified /\ TokensOnce /\ Counted
  BY DEF CodesInv
<1> DEFINE step == FirstStep(op)
<1>2. step \in {"count", "store", "check", "get", "getToken"}
  BY DEF FirstStep, CodeOperations, Limited
<1>3. /\ req[r].pc = "start" /\ Quiet
      /\ UNCHANGED <<otp, sent, attempts, resends, cooldown, tokens, wrong, delivered, setup>>
      /\ req' \in [CodeRequests -> Entry]
      /\ \A q \in CodeRequests \ {r} : req'[q] = req[q]
      /\ req'[r].op = op /\ req'[r].pc = step /\ req'[r].code = entered /\ req'[r].from = otp
      /\ req'[r].answer = req[r].answer
  BY <1>1, <1>2 DEF Begin, At, OtpTypeOK, Entry, Steps, redis, history
<1>4. req[r].answer = "none" /\ req[r].op = "none"
  BY <1>1, <1>3 DEF AllInPlace, InPlace
<1>5. /\ InPlace(req'[r]) /\ ~ Spent(req'[r]) /\ ~ HasReset(req'[r]) /\ MayCount(req'[r])
      /\ req'[r].pc \notin {"delete", "deleteToken"}
  <2>1. step = "store" => op = "sendFree"
    BY DEF FirstStep, CodeOperations, Limited
  <2>2. step = "count" => op \in {"send", "resend"}
    BY DEF FirstStep, CodeOperations, Limited
  <2>3. step = "check" => op \in Limited
    BY DEF FirstStep, CodeOperations, Limited
  <2>4. step = "get" => op = "resetLegacy"
    BY DEF FirstStep, CodeOperations, Limited
  <2>5. step = "getToken" => op = "resetWithToken"
    BY DEF FirstStep, CodeOperations, Limited
  <2> HIDE DEF step
  <2> QED
    BY <1>2, <1>3, <1>4, <2>1, <2>2, <2>3, <2>4, <2>5
    DEF InPlace, Spent, HasReset, MayCount, AfterUse, Verifications, Limited
<1> HIDE DEF step
<1>6. OtpTypeOK'
  BY <1>1, <1>3 DEF OtpTypeOK, Entry
<1>7. AllInPlace'
  BY <1>1, <1>3, <1>5 DEF AllInPlace
<1>8. OneByOne'
  BY <1>1, <1>3 DEF OneByOne, Active, Quiet
<1>9. CodesAreInOrder'
  <2>1. otp \in Nat /\ sent \in Nat /\ otp <= sent
    BY <1>1 DEF OtpTypeOK, CodesAreInOrder
  <2>2. InOrder(req'[r], otp, sent)
    BY <1>3, <1>5, <2>1 DEF InOrder
  <2> QED
    BY <1>1, <1>3, <2>1, <2>2 DEF CodesAreInOrder
<1>10. SpentOnce'
  BY <1>1, <1>3, <1>5 DEF SpentOnce
<1>11. TokensAreVerified'
  BY <1>1, <1>3, <1>4 DEF TokensAreVerified, Verified, OtpTypeOK
<1>12. TokensOnce'
  <2>1. \A v \in CodeRequests : Verified(req[v]) => v # r /\ Verified(req'[v]) /\ req'[v].code = req[v].code
    BY <1>3, <1>4 DEF Verified
  <2>2. \A q \in CodeRequests : HasReset(req'[q]) => q # r /\ HasReset(req[q])
    BY <1>3, <1>5
  <2>3. \A v \in tokens : v # r /\ v \in CodeRequests
    BY <1>1, <2>1 DEF TokensAreVerified, OtpTypeOK
  <2> SUFFICES ASSUME ~ setup.overlap, NEW q \in CodeRequests, req'[q].op = "resetWithToken"
               PROVE  /\ \E v \in CodeRequests : Verified(req'[v]) /\ req'[v].code = req'[q].code
                      /\ HasReset(req'[q]) =>
                           /\ \A v \in tokens : req'[v].code # req'[q].code
                           /\ \A s \in CodeRequests :
                                (HasReset(req'[s]) \/ req'[s].pc = "deleteToken") /\ req'[s].code = req'[q].code => q = s
    BY <1>3 DEF TokensOnce
  <2>4. \E v \in CodeRequests : Verified(req'[v]) /\ req'[v].code = req'[q].code
    <3>1. CASE q = r
      BY <1>3, <2>1, <3>1
    <3>2. CASE q # r
      BY <1>1, <1>3, <2>1, <3>2 DEF TokensOnce
    <3> QED
      BY <3>1, <3>2
  <2>5. ASSUME HasReset(req'[q])
        PROVE  /\ \A v \in tokens : req'[v].code # req'[q].code
               /\ \A s \in CodeRequests :
                    (HasReset(req'[s]) \/ req'[s].pc = "deleteToken") /\ req'[s].code = req'[q].code => q = s
    BY <1>1, <1>3, <1>5, <2>2, <2>3, <2>5 DEF TokensOnce
  <2> QED
    BY <2>4, <2>5
<1>13. Counted'
  BY <1>1, <1>3, <1>5 DEF Counted, LimitedIn, WithinLimits, MayCount
<1> QED
  BY <1>6, <1>7, <1>8, <1>9, <1>10, <1>11, <1>12, <1>13 DEF CodesInv

\* A window ends, or a key of Redis does: no request moves, and no counter counts what it forgets.
Forgets ==
    /\ req' = req /\ sent' = sent /\ setup' = setup
    /\ otp' \in {otp, 0} /\ tokens' \subseteq tokens /\ cooldown' \in BOOLEAN
    /\ \/ UNCHANGED <<attempts, wrong>>
       \/ attempts' = 0 /\ wrong' = 0
    /\ \/ UNCHANGED <<resends, delivered>>
       \/ Quiet /\ resends' = 0 /\ delivered' = 0

LEMMA ForgetsKeeps ==
    ASSUME CodesInv, Forgets
    PROVE  CodesInv'
<1>1. /\ OtpTypeOK /\ AllInPlace /\ OneByOne /\ CodesAreInOrder /\ SpentOnce
      /\ TokensAreVerified /\ TokensOnce /\ Counted
  BY DEF CodesInv
<1>2. OtpTypeOK'
  BY <1>1 DEF Forgets, OtpTypeOK
<1>3. AllInPlace' /\ OneByOne'
  BY <1>1 DEF Forgets, AllInPlace, OneByOne, Active
<1>4. CodesAreInOrder'
  <2>1. otp \in Nat /\ sent \in Nat /\ \A r \in CodeRequests : req[r] \in Entry
    BY <1>1 DEF OtpTypeOK, Entry
  <2> QED
    BY <1>1, <2>1 DEF Forgets, CodesAreInOrder, InOrder
<1>5. SpentOnce'
  BY <1>1 DEF Forgets, SpentOnce, CodesAreInOrder, InOrder
<1>6. TokensAreVerified' /\ TokensOnce'
  BY <1>1 DEF Forgets, TokensAreVerified, TokensOnce
<1>7. Counted'
  <2> SUFFICES ASSUME LimitedIn
               PROVE  WithinLimits' /\ \A r \in CodeRequests : MayCount(req[r])'
    BY DEF Forgets, Counted, LimitedIn
  <2>1. /\ WithinLimits /\ \A r \in CodeRequests : MayCount(req[r])
        /\ attempts \in Nat /\ resends \in Nat /\ wrong \in Nat /\ delivered \in Nat
        /\ MaxAttempts \in Nat \ {0} /\ MaxResends \in Nat \ {0}
    BY <1>1, LimitAssumption DEF Counted, OtpTypeOK
  <2>2. WithinLimits'
    BY <2>1 DEF Forgets, WithinLimits
  <2>3. ASSUME NEW r \in CodeRequests
        PROVE  MayCount(req[r])'
    <3>1. Quiet => req[r].pc \in {"start", "done"}
      BY DEF Quiet, LimitedIn
    <3>2. MayCount(req[r])
      BY <2>1
    <3> QED
      BY <2>1, <3>1, <3>2 DEF Forgets, MayCount
  <2> QED
    BY <2>2, <2>3
<1> QED
  BY <1>2, <1>3, <1>4, <1>5, <1>6, <1>7 DEF CodesInv

LEMMA ExpiryForgets ==
    ASSUME CodesInv, Expiry
    PROVE  Forgets
<1>1. cooldown \in BOOLEAN
  BY DEF CodesInv, OtpTypeOK
<1>2. CASE CodeExpires
  BY <1>1, <1>2 DEF CodeExpires, Forgets, history
<1>3. CASE AttemptsExpire
  BY <1>1, <1>3 DEF AttemptsExpire, Forgets
<1>4. CASE ResendsExpire
  BY <1>1, <1>4 DEF ResendsExpire, Forgets
<1>5. CASE CooldownEnds
  BY <1>1, <1>5 DEF CooldownEnds, Forgets, history
<1>6. CASE TokenExpires
  BY <1>1, <1>6 DEF TokenExpires, Forgets, history
<1> QED
  BY <1>2, <1>3, <1>4, <1>5, <1>6 DEF Expiry

-----------------------------------------------------------------------------
(* The invariant.                                                          *)

LEMMA CodesInitHold == OtpInit => CodesInv
<1> SUFFICES ASSUME OtpInit
             PROVE  CodesInv
  OBVIOUS
<1>1. OtpTypeOK
  BY DEF OtpInit, OtpTypeOK, Entry, CodeOperations, Steps, Answers
<1>2. \A r \in CodeRequests : req[r].op = "none" /\ req[r].pc = "start" /\ req[r].code = 0
                              /\ req[r].from = 0 /\ req[r].answer = "none"
  BY DEF OtpInit
<1>3. AllInPlace /\ OneByOne
  BY <1>2 DEF AllInPlace, InPlace, OneByOne, Active, AfterUse
<1>4. \A r \in CodeRequests : ~ Spent(req[r])
  BY <1>2 DEF Spent, Verifications
<1>5. CodesAreInOrder /\ SpentOnce
  BY <1>2, <1>4 DEF OtpInit, CodesAreInOrder, InOrder, SpentOnce
<1>6. TokensAreVerified /\ TokensOnce
  BY <1>2 DEF OtpInit, TokensAreVerified, TokensOnce
<1>7. Counted
  BY <1>2, LimitAssumption DEF OtpInit, Counted, WithinLimits, MayCount
<1> QED
  BY <1>1, <1>3, <1>5, <1>6, <1>7 DEF CodesInv

LEMMA SendsKeep ==
    ASSUME CodesInv, NEW r \in CodeRequests, Sends(r)
    PROVE  CodesInv'
<1>1. ASSUME NEW op \in {"send", "resend", "sendFree"}, Begin(r, op, FirstStep(op), 0)
      PROVE  CodesInv'
  BY <1>1, BeginKeeps DEF CodesInv, OtpTypeOK, CodeOperations
<1>2. CASE BeginSend(r)
  BY <1>1, <1>2 DEF BeginSend, FirstStep, Limited
<1>3. ASSUME NEW step \in {"count", "cooldown", "setCooldown"}, At(r, step), LimitFails(r, "store")
      PROVE  CodesInv'
  BY <1>3, LimitFailsHasEffect, EffectKeeps
<1>4. CASE At(r, "store") /\ Fails(r)
  BY <1>4, FailsHasEffect, EffectKeeps DEF At, Active
<1>5. CASE CountResends(r) \/ CheckCooldown(r) \/ SetCooldown(r) \/ IncrResends(r)
           \/ IncrResendsFails(r) \/ Store(r) \/ StoreUnsent(r)
  BY <1>5, CountResendsHasEffect, CheckCooldownHasEffect, SetCooldownHasEffect, IncrResendsHasEffect,
     IncrResendsFailsHasEffect, StoreHasEffect, StoreUnsentHasEffect, EffectKeeps
<1> QED
  BY <1>2, <1>3, <1>4, <1>5 DEF Sends

LEMMA ChecksKeep ==
    ASSUME CodesInv, NEW r \in CodeRequests, Checks(r)
    PROVE  CodesInv'
<1>1. ASSUME NEW op \in Verifications, NEW entered \in 0 .. sent, Begin(r, op, FirstStep(op), entered)
      PROVE  CodesInv'
  BY <1>1, BeginKeeps DEF CodesInv, OtpTypeOK, CodeOperations, Verifications
<1>2. CASE BeginVerify(r)
  <2>1. PICK entered \in 0 .. sent : \E op \in Verifications : Begin(r, op, IF op = "resetLegacy" THEN "get" ELSE "check", entered)
    BY <1>2 DEF BeginVerify, Verifications
  <2>2. \A op \in Verifications : FirstStep(op) = IF op = "resetLegacy" THEN "get" ELSE "check"
    BY DEF FirstStep, Verifications, Limited
  <2> QED
    BY <1>1, <2>1, <2>2
<1>3. CASE At(r, "check") /\ LimitFails(r, "get")
  BY <1>3, LimitFailsHasEffect, EffectKeeps
<1>4. ASSUME NEW step \in {"get", "delete", "clearAttempts", "clearResends", "clearCooldown", "storeToken"},
             At(r, step), Fails(r)
      PROVE  CodesInv'
  BY <1>4, FailsHasEffect, EffectKeeps DEF At, Active
<1>5. CASE CheckAttempts(r) \/ Compare(r) \/ IncrAttempts(r) \/ IncrAttemptsFails(r) \/ Delete(r)
           \/ ClearAttempts(r) \/ ClearResends(r) \/ ClearCooldown(r) \/ StoreToken(r)
  BY <1>5, CheckAttemptsHasEffect, CompareHasEffect, IncrAttemptsHasEffect, IncrAttemptsFailsHasEffect,
     DeleteHasEffect, ClearAttemptsHasEffect, ClearResendsHasEffect, ClearCooldownHasEffect,
     StoreTokenHasEffect, EffectKeeps
<1> QED
  BY <1>2, <1>3, <1>4, <1>5 DEF Checks

LEMMA ResetsKeep ==
    ASSUME CodesInv, NEW r \in CodeRequests, Resets(r)
    PROVE  CodesInv'
<1>1. CASE BeginReset(r)
  <2>1. PICK v \in CodeRequests : Verified(req[v]) /\ Begin(r, "resetWithToken", "getToken", req[v].code)
    BY <1>1 DEF BeginReset, Is, Verified
  <2>2. FirstStep("resetWithToken") = "getToken"
    BY DEF FirstStep, Limited
  <2>3. req[v].code \in Nat /\ req[v].code <= sent
    BY DEF CodesInv, OtpTypeOK, Entry, CodesAreInOrder, InOrder
  <2> QED
    BY <2>1, <2>2, <2>3, BeginKeeps DEF CodeOperations
<1>2. ASSUME NEW step \in {"getToken", "deleteToken"}, At(r, step), Fails(r)
      PROVE  CodesInv'
  BY <1>2, FailsHasEffect, EffectKeeps DEF At, Active
<1>3. CASE GetToken(r) \/ DeleteToken(r)
  BY <1>3, GetTokenHasEffect, DeleteTokenHasEffect, EffectKeeps
<1> QED
  BY <1>1, <1>2, <1>3 DEF Resets

LEMMA CodesNextKeeps == CodesInv /\ [OtpNext]_otpVars => CodesInv'
<1> SUFFICES ASSUME CodesInv, [OtpNext]_otpVars
             PROVE  CodesInv'
  OBVIOUS
<1>1. CASE UNCHANGED otpVars
  BY <1>1 DEF CodesInv, OtpTypeOK, AllInPlace, OneByOne, Active, CodesAreInOrder, SpentOnce, TokensAreVerified,
     TokensOnce, Counted, LimitedIn, WithinLimits, MayCount, otpVars, redis, history
<1>2. ASSUME NEW r \in CodeRequests, Handles(r)
      PROVE  CodesInv'
  BY <1>2, SendsKeep, ChecksKeep, ResetsKeep DEF Handles, Codes
<1>3. CASE Expiry
  BY <1>3, ExpiryForgets, ForgetsKeeps
<1> QED
  BY <1>1, <1>2, <1>3 DEF OtpNext

LEMMA CodesAlwaysHold == OtpSpec => []CodesInv
  BY CodesInitHold, CodesNextKeeps, PTL DEF OtpSpec

\* The state of the codes has its type, for any requests and limits (otp_service.py).
THEOREM OtpTypeCorrect == OtpSpec => []OtpTypeOK
<1>1. CodesInv => OtpTypeOK
  BY DEF CodesInv
<1> QED
  BY <1>1, CodesAlwaysHold, PTL

\* While the requests of a user come one by one, a code opens one operation and a reset token
\* one reset, whatever fails or expires on the way; and, even when they overlap, no code that
\* another had replaced before the request began (verify_*_otp, reset_password_with_token).
THEOREM CodesUsedOnce == OtpSpec => []CodesAreUsedOnce
<1>1. ASSUME NEW S \in SUBSET CodeRequests, \A q, r \in S : q = r
      PROVE  Cardinality(S) <= 1
  <2>1. CASE S = {}
    BY <2>1, FS_EmptySet
  <2>2. CASE S # {}
    <3>1. PICK q \in S : S = {q}
      BY <1>1, <2>2
    <3> QED
      BY <3>1, FS_Singleton
  <2> QED
    BY <2>1, <2>2
<1>2. CodesInv => CodesAreUsedOnce
  <2> SUFFICES ASSUME CodesInv
               PROVE  CodesAreUsedOnce
    OBVIOUS
  <2>1. SpentOnce /\ TokensOnce /\ CodesAreInOrder
    BY DEF CodesInv
  <2>2. ASSUME ~ setup.overlap, NEW c \in 1 .. sent
        PROVE  /\ Cardinality(Used(c, Verifications)) <= 1
               /\ Cardinality(Used(c, {"resetWithToken"})) <= 1
    <3>1. \A q, r \in Used(c, Verifications) : q = r
      BY <2>1, <2>2 DEF Used, Is, SpentOnce, Spent
    <3>2. \A q, r \in Used(c, {"resetWithToken"}) : q = r
      BY <2>1, <2>2 DEF Used, Is, TokensOnce, HasReset
    <3>3. Used(c, Verifications) \in SUBSET CodeRequests /\ Used(c, {"resetWithToken"}) \in SUBSET CodeRequests
      BY DEF Used
    <3> QED
      BY <1>1, <3>1, <3>2, <3>3
  <2>3. ReplacedCodesAreRejected
    BY <2>1 DEF ReplacedCodesAreRejected, Is, CodesAreInOrder, InOrder, Spent, CodesInv, OtpTypeOK, Entry
  <2> QED
    BY <2>2, <2>3 DEF CodesAreUsedOnce, OneSuccessEach
<1> QED
  BY <1>2, CodesAlwaysHold, PTL

\* Wrong attempts and the codes of the flows that limit them end at their limits, while Redis is
\* strict and requests come one by one (_check_otp_attempts, _check_resend_limit).
THEOREM CodeLimitsKept == OtpSpec => []CodeLimitsHold
<1>1. CodesInv => CodeLimitsHold
  BY LimitAssumption DEF CodesInv, OtpTypeOK, Counted, LimitedIn, WithinLimits, CodeLimitsHold
<1> QED
  BY <1>1, CodesAlwaysHold, PTL

\* So codes open one operation each, and attempts and resends end at their limits
\* (unified_verify_otp, _check_otp_attempts, _check_resend_limit).
THEOREM CodesKept == OtpSpec => []CodesHold
<1>1. CodesAreUsedOnce /\ CodeLimitsHold => CodesHold
  BY DEF CodesHold
<1> QED
  BY <1>1, CodesUsedOnce, CodeLimitsKept, PTL

\* A code that was sent goes only by expiry, by the next code, or by its own use: a failure, a
\* wrong attempt or another purpose never takes it away (verify_*_otp).
THEOREM CodesStayUsable == OtpSpec => SentCodesStayUsable
<1>1. ASSUME CodesInv, [OtpNext]_otpVars, ~ setup.overlap, otp # 0, otp' = 0
      PROVE  \/ req' = req
             \/ \E r \in CodeRequests : At(r, "delete") /\ req'[r] # req[r] /\ req[r].code = otp
  <2>1. sent \in Nat /\ sent + 1 # 0
    BY <1>1 DEF CodesInv, OtpTypeOK
  <2>2. CASE UNCHANGED otpVars
    BY <1>1, <2>2 DEF otpVars, redis
  <2>3. CASE Expiry
    BY <1>1, <2>3, ExpiryForgets DEF Forgets
  <2>4. ASSUME NEW r \in CodeRequests, Delete(r)
        PROVE  At(r, "delete") /\ req'[r] # req[r] /\ req[r].code = otp
    <3>1. Known(r) /\ OtpTypeOK /\ At(r, "delete")
      BY <1>1, <2>4, RequestsAreKnown DEF Delete
    <3>2. req'[r].pc # "delete"
      BY <3>1, <2>4, GotoIs, AnswerIs DEF Delete, Steps, Answers
    <3>3. req[r].code = otp
      BY <1>1, <3>1 DEF CodesInv, SpentOnce, At
    <3> QED
      BY <3>1, <3>2, <3>3 DEF At
  <2>5. ASSUME NEW r \in CodeRequests, Sends(r)
        PROVE  otp' # 0
    BY <1>1, <2>1, <2>5 DEF Sends, BeginSend, Begin, CountResends, CheckCooldown, SetCooldown, IncrResends,
       IncrResendsFails, Store, StoreUnsent, LimitFails, Fails, redis
  <2>6. ASSUME NEW r \in CodeRequests, Checks(r), ~ Delete(r)
        PROVE  otp' # 0
    BY <1>1, <2>6 DEF Checks, BeginVerify, Begin, CheckAttempts, Compare, IncrAttempts, IncrAttemptsFails,
       ClearAttempts, ClearResends, ClearCooldown, StoreToken, LimitFails, Fails, redis
  <2>7. ASSUME NEW r \in CodeRequests, Resets(r)
        PROVE  otp' # 0
    BY <1>1, <2>7 DEF Resets, BeginReset, Begin, GetToken, DeleteToken, Fails, redis
  <2> QED
    BY <1>1, <2>2, <2>3, <2>4, <2>5, <2>6, <2>7 DEF OtpNext, Handles, Codes
<1> QED
  BY <1>1, CodesAlwaysHold, PTL DEF OtpSpec, SentCodesStayUsable

-----------------------------------------------------------------------------
(***************************************************************************)
(* Usernames.  A name that was given up lately is kept for its owner, and  *)
(* changes are limited, for any users, names and requests at a time.  Such a*)
(* name has the one claim of who gave it up, so that a request which found it*)
(* free is the owner's; one request changes a user, who may do so still when*)
(* it saves; and the columns of a user count the changes made.             *)
(***************************************************************************)

Gift == [owner : Users, at : 0 .. MaxTime]
UserRow == [state : {"none", "active", "deleted"}, handle : SUBSET (Names \X Spellings),
            selects : BOOLEAN, born : 0 .. MaxTime, inGrace : 0 .. MaxGraceChanges, last : SUBSET (0 .. MaxTime)]
Change == [pc : {"idle", "create", "save"}, user : SUBSET Users, handle : SUBSET (Names \X Spellings),
           now : 0 .. MaxTime, found : SUBSET Gift]

NamesTyping ==
    /\ user \in [Users -> UserRow]
    /\ claim \in [Names -> SUBSET [owner : Users, until : Nat]]
    /\ renaming \in [NameRequests -> Change]
    /\ clock \in 0 .. MaxTime /\ early \subseteq Names
    /\ given \in [Names -> SUBSET Gift]
    /\ changed \in [Users -> Seq(0 .. MaxTime)]

\* Users hold one name each, and each name is held by one.
HeldByOne ==
    /\ \A u \in Users : \A g, h \in user[u].handle : g = h
    /\ \A u, v \in Users : \A g \in user[u].handle, h \in user[v].handle : g[1] = h[1] => u = v

\* The claim to a name that was given up lately is that of who gave it up.
Kept(gifts, claims, now) ==
    /\ \A c, d \in claims : c = d
    /\ \A g \in gifts : g.at + ReservationPeriod > now =>
         claims = {[owner |-> g.owner, until |-> g.at + ReservationPeriod]}
GivenNamesAreKept == \A n \in Names : Kept(given[n], claim[n], clock)

\* A request is about one user and one name, which it found free of the claims of others.
Asked(q, now) ==
    /\ q.pc = "idle" => q = NoChange
    /\ q.pc # "idle" => /\ \E u \in Users : q.user = {u}
                        /\ \E h \in Names \X Spellings : q.handle = {h}
    /\ q.now <= now
    /\ \A g \in q.found : g.at + ReservationPeriod > q.now => q.pc = "save" /\ q.user = {g.owner}
AllAsked == \A r \in NameRequests : Asked(renaming[r], clock)

\* A user is created by one request, and an account is renamed by one.
OneForEach ==
    \A r, s \in NameRequests :
        renaming[r].pc # "idle" /\ renaming[r].user = renaming[s].user => r = s

\* Who is created is not there yet, and who changes may do so still.
Soon(account, t) == t < account.born + GracePeriod
May(account, now) ==
    account.selects \/ IF Soon(account, now) THEN account.inGrace < MaxGraceChanges
                   ELSE \A t \in account.last : now >= t + ChangeCooldown
Ready(q, account) ==
    /\ q.pc = "create" => account = NoUser
    /\ q.pc = "save" => account.state = "active" /\ May(account, q.now)
AllReady == \A r \in NameRequests : \A u \in renaming[r].user : Ready(renaming[r], user[u])

\* The columns of a user count the changes.
Early(account, times) == {i \in DOMAIN times : Soon(account, times[i])}
Counts(account, times) ==
    /\ account.state = "none" => account = NoUser /\ times = <<>>
    /\ account.inGrace = Cardinality(Early(account, times))
    /\ \A i \in DOMAIN times \ Early(account, times) : \E t \in account.last : times[i] <= t
    /\ \A i, j \in DOMAIN times \ Early(account, times) : i < j => times[j] >= times[i] + ChangeCooldown
ChangesAreCounted == \A u \in Users : Counts(user[u], changed[u])

NamesInv ==
    /\ NamesTyping /\ HeldByOne /\ GivenNamesAreKept /\ AllAsked /\ OneForEach /\ AllReady
    /\ ChangesAreCounted /\ early = {}

-----------------------------------------------------------------------------

LEMMA NameBounds ==
    /\ GracePeriod \in Nat /\ MaxGraceChanges \in Nat /\ ChangeCooldown \in Nat
    /\ ReservationPeriod \in Nat /\ MaxTime \in Nat
  BY UsernamesAssumption

LEMMA EmptyRows ==
    /\ NoUser \in UserRow /\ NoUser.state = "none" /\ NoUser.handle = {} /\ NoUser.inGrace = 0 /\ NoUser.last = {}
    /\ \A h \in SUBSET (Names \X Spellings) :
         /\ Resident(h) \in UserRow /\ Resident(h).state = "active" /\ Resident(h).handle = h
         /\ Resident(h).inGrace = 0 /\ Resident(h).last = {}
    /\ NoChange \in Change /\ NoChange.pc = "idle" /\ NoChange.user = {} /\ NoChange.now = 0 /\ NoChange.found = {}
<1>1. 0 \in 0 .. MaxTime /\ 0 \in 0 .. MaxGraceChanges
  BY NameBounds
<1> QED
  BY <1>1 DEF NoUser, Resident, NoChange, UserRow, Change

LEMMA NothingCounted ==
    ASSUME NEW account \in UserRow, account.inGrace = 0, account.state = "none" => account = NoUser
    PROVE  Counts(account, <<>>)
<1>1. Early(account, <<>>) = {}
  BY DEF Early
<1>2. DOMAIN <<>> = {} /\ Cardinality({}) = 0
  BY FS_EmptySet
<1> QED
  BY <1>1, <1>2 DEF Counts

LEMMA Appending ==
    ASSUME NEW T, NEW s \in Seq(T), NEW x \in T
    PROVE  /\ Len(s) \in Nat /\ DOMAIN s = 1 .. Len(s) /\ DOMAIN Append(s, x) = 1 .. Len(s) + 1
           /\ Append(s, x) \in Seq(T) /\ Append(s, x)[Len(s) + 1] = x
           /\ \A i \in 1 .. Len(s) : Append(s, x)[i] = s[i] /\ s[i] \in T
  OBVIOUS

LEMMA IndicesAreFinite ==
    ASSUME NEW n \in Nat, NEW I, I \subseteq 1 .. n
    PROVE  IsFiniteSet(I)
<1>1. n \in Int /\ 1 \in Int
  OBVIOUS
<1>2. IsFiniteSet(1 .. n)
  BY <1>1, FS_Interval
<1> QED
  BY <1>2, FS_Subset

\* A change that a user may make is counted.
LEMMA CountsAppend ==
    ASSUME NEW account \in UserRow, NEW next \in UserRow, NEW times \in Seq(0 .. MaxTime), NEW now \in 0 .. MaxTime,
           Counts(account, times), next.state = "active", next.born = account.born,
           \/ Soon(account, now) /\ next.inGrace = account.inGrace + 1 /\ next.last = account.last
           \/ /\ ~ Soon(account, now) /\ next.inGrace = account.inGrace /\ next.last = {now}
              /\ \A t \in account.last : now >= t + ChangeCooldown
    PROVE  Counts(next, Append(times, now))
<1> DEFINE all == Append(times, now)
           n == Len(times)
<1>1. /\ all \in Seq(0 .. MaxTime) /\ DOMAIN all = 1 .. n + 1 /\ DOMAIN times = 1 .. n /\ n \in Nat
      /\ \A i \in 1 .. n : all[i] = times[i] /\ times[i] \in 0 .. MaxTime
      /\ all[n + 1] = now
  <2> DEFINE T == 0 .. MaxTime
  <2>1. times \in Seq(T) /\ now \in T
    OBVIOUS
  <2> HIDE DEF T
  <2>2. /\ Len(times) \in Nat /\ DOMAIN times = 1 .. Len(times) /\ DOMAIN Append(times, now) = 1 .. Len(times) + 1
        /\ Append(times, now) \in Seq(T) /\ Append(times, now)[Len(times) + 1] = now
        /\ \A i \in 1 .. Len(times) : Append(times, now)[i] = times[i] /\ times[i] \in T
    BY <2>1, Appending
  <2> QED
    BY <2>2 DEF T
<1>2. \A t \in 0 .. MaxTime : Soon(next, t) <=> Soon(account, t)
  BY DEF Soon
<1> HIDE DEF all, n
<1>3. Early(next, all) = IF Soon(account, now) THEN Early(account, times) \union {n + 1} ELSE Early(account, times)
  BY <1>1, <1>2 DEF Early
<1>4. IsFiniteSet(Early(account, times)) /\ n + 1 \notin Early(account, times)
  <2>1. Early(account, times) \subseteq 1 .. n
    BY <1>1 DEF Early
  <2> QED
    BY <1>1, <2>1, IndicesAreFinite
<1>5. next.inGrace = Cardinality(Early(next, all))
  <2>1. account.inGrace = Cardinality(Early(account, times))
    BY DEF Counts
  <2>2. Cardinality(Early(account, times) \union {n + 1}) = Cardinality(Early(account, times)) + 1
    BY <1>4, FS_AddElement
  <2> QED
    BY <1>3, <2>1, <2>2
<1>6. ASSUME NEW i \in DOMAIN all \ Early(next, all)
      PROVE  \/ i \in DOMAIN times \ Early(account, times) /\ all[i] = times[i] /\ i < n + 1
             \/ i = n + 1 /\ all[i] = now /\ ~ Soon(account, now)
  BY <1>1, <1>2, <1>6 DEF Early
<1>7. ASSUME NEW i \in DOMAIN all \ Early(next, all)
      PROVE  \E t \in next.last : all[i] <= t
  <2>1. CASE i = n + 1
    <3>1. all[i] = now /\ next.last = {now} /\ now \in Int
      BY <1>1, <1>6, <1>7, <2>1
    <3> QED
      BY <3>1
  <2>2. CASE i \in DOMAIN times \ Early(account, times) /\ all[i] = times[i] /\ i < n + 1
    <3>1. PICK t \in account.last : times[i] <= t
      BY <2>2 DEF Counts
    <3>2. t \in 0 .. MaxTime /\ times[i] \in 0 .. MaxTime
      BY <1>1, <2>2 DEF UserRow
    <3>3. next.last = account.last \/ (next.last = {now} /\ now >= t + ChangeCooldown)
      BY <3>1
    <3>4. t \in Int /\ times[i] \in Int /\ now \in Int /\ ChangeCooldown \in Nat
      BY <3>2, NameBounds
    <3>5. \/ next.last = account.last
          \/ next.last = {now} /\ times[i] <= now
      BY <3>1, <3>3, <3>4
    <3> QED
      BY <2>2, <3>1, <3>5
  <2> QED
    BY <1>6, <1>7, <2>1, <2>2
<1>8. ASSUME NEW i \in DOMAIN all \ Early(next, all), NEW j \in DOMAIN all \ Early(next, all), i < j
      PROVE  all[j] >= all[i] + ChangeCooldown
  <2>1. i \in DOMAIN times \ Early(account, times) /\ all[i] = times[i]
    BY <1>1, <1>6, <1>8
  <2>2. CASE j = n + 1
    <3>1. PICK t \in account.last : times[i] <= t
      BY <2>1 DEF Counts
    <3>2. t \in 0 .. MaxTime /\ times[i] \in 0 .. MaxTime /\ all[j] = now
      BY <1>1, <2>1, <2>2 DEF UserRow
    <3>3. now >= t + ChangeCooldown
      BY <1>1, <1>6, <1>8, <2>2, <3>1
    <3> QED
      BY <2>1, <3>1, <3>2, <3>3, NameBounds
  <2>3. CASE j # n + 1
    BY <1>6, <1>8, <2>1, <2>3 DEF Counts
  <2> QED
    BY <2>2, <2>3
<1> QED
  BY <1>5, <1>7, <1>8 DEF Counts, all

\* A row of which no counted column changes.
LEMMA CountsKeep ==
    ASSUME NEW account, NEW next, NEW times, Counts(account, times), account.state # "none", next.state # "none",
           next.born = account.born, next.inGrace = account.inGrace, next.last = account.last
    PROVE  Counts(next, times)
<1>1. \A t : Soon(next, t) <=> Soon(account, t)
  BY DEF Soon
<1>2. Early(next, times) = Early(account, times)
  BY <1>1 DEF Early
<1> QED
  BY <1>2 DEF Counts

-----------------------------------------------------------------------------
(* Requests that begin and end.                                            *)

LEMMA BeginsKeeps ==
    ASSUME NamesInv, NEW r \in NameRequests, NEW pc \in {"create", "save"}, NEW u \in Users,
           NEW h \in Names \X Spellings, BeginsChange(r, pc, u, h),
           UNCHANGED <<user, claim, clock, given, early, changed>>,
           \A q \in NameRequests : renaming[q].user # {u},
           \A c \in Live(h[1], clock) : pc = "save" /\ c.owner = u,
           IF pc = "create" THEN user[u] = NoUser ELSE user[u].state = "active" /\ May(user[u], clock)
    PROVE  NamesInv'
<1>1. /\ NamesTyping /\ HeldByOne /\ GivenNamesAreKept /\ AllAsked /\ OneForEach /\ AllReady
      /\ ChangesAreCounted /\ early = {}
  BY DEF NamesInv
<1> DEFINE q == [pc |-> pc, user |-> {u}, handle |-> {h}, now |-> clock, found |-> given[h[1]]]
<1>2. h[1] \in Names
  OBVIOUS
<1>3. q \in Change /\ q.pc = pc /\ q.user = {u} /\ q.handle = {h} /\ q.now = clock /\ q.found = given[h[1]]
  BY <1>1, <1>2 DEF NamesTyping, Change
<1> HIDE DEF q
<1>4. /\ renaming' \in [NameRequests -> Change] /\ renaming'[r] = q
      /\ \A s \in NameRequests \ {r} : renaming'[s] = renaming[s]
  BY <1>1, <1>3 DEF BeginsChange, NamesTyping, q
<1>5. \A g \in q.found : g.at + ReservationPeriod > clock => pc = "save" /\ {u} = {g.owner}
  <2> SUFFICES ASSUME NEW g \in given[h[1]], g.at + ReservationPeriod > clock
               PROVE  pc = "save" /\ u = g.owner
    BY <1>3
  <2> DEFINE c == [owner |-> g.owner, until |-> g.at + ReservationPeriod]
  <2>1. c \in claim[h[1]]
    BY <1>1, <1>2 DEF GivenNamesAreKept, Kept
  <2>2. c \in Live(h[1], clock)
    BY <2>1 DEF Live
  <2> QED
    BY <2>2
<1>6. Asked(q, clock)
  <2>1. clock <= clock
    BY <1>1 DEF NamesTyping
  <2> QED
    BY <1>3, <1>5, <2>1 DEF Asked
<1>7. NamesTyping'
  BY <1>1, <1>4 DEF NamesTyping
<1>8. AllAsked'
  BY <1>1, <1>4, <1>6 DEF AllAsked
<1>9. OneForEach'
  BY <1>1, <1>3, <1>4 DEF OneForEach
<1>10. AllReady'
  <2>1. \A v \in q.user : Ready(q, user[v])
    BY <1>3 DEF Ready
  <2> QED
    BY <1>1, <1>4, <2>1 DEF AllReady
<1>11. HeldByOne' /\ GivenNamesAreKept' /\ ChangesAreCounted'
  BY <1>1 DEF HeldByOne, GivenNamesAreKept, ChangesAreCounted
<1> QED
  BY <1>1, <1>7, <1>8, <1>9, <1>10, <1>11 DEF NamesInv

\* What is left of the requests when one ends that may have changed the user it is about.
LEMMA RequestsEnd ==
    ASSUME NamesInv, NEW r \in NameRequests, EndsChange(r), clock' = clock, NEW u \in Users,
           renaming[r].pc # "idle", renaming[r].user = {u}, \A v \in Users \ {u} : user'[v] = user[v]
    PROVE  renaming' \in [NameRequests -> Change] /\ AllAsked' /\ OneForEach' /\ AllReady'
<1>1. NamesTyping /\ AllAsked /\ OneForEach /\ AllReady
  BY DEF NamesInv
<1>2. /\ renaming' \in [NameRequests -> Change] /\ renaming'[r] = NoChange
      /\ \A s \in NameRequests \ {r} : renaming'[s] = renaming[s]
  BY <1>1, EmptyRows DEF EndsChange, NamesTyping
<1>3. AllAsked'
  <2>1. Asked(NoChange, clock)
    BY <1>1, EmptyRows DEF Asked, NamesTyping
  <2> QED
    BY <1>1, <1>2, <2>1 DEF AllAsked
<1>4. OneForEach'
  <2>1. renaming'[r].pc = "idle" /\ renaming'[r].user = {}
    BY <1>2, EmptyRows
  <2>2. \A s \in NameRequests : renaming[s].pc # "idle" => renaming[s].user # {}
    BY <1>1 DEF AllAsked, Asked
  <2> QED
    BY <1>1, <1>2, <2>1, <2>2 DEF OneForEach
<1>5. AllReady'
  <2> SUFFICES ASSUME NEW s \in NameRequests, NEW v \in renaming'[s].user
               PROVE  Ready(renaming'[s], user'[v])
    BY DEF AllReady
  <2>1. s # r /\ renaming'[s] = renaming[s] /\ v \in renaming[s].user
    BY <1>2, EmptyRows
  <2>2. renaming[s].pc # "idle" /\ v \in Users
    BY <1>1, <2>1, EmptyRows DEF AllAsked, Asked, NamesTyping, Change
  <2>3. renaming[s].user = {v}
    BY <1>1, <2>1, <2>2 DEF AllAsked, Asked
  <2>4. v # u
    BY <1>1, <2>1, <2>2, <2>3 DEF OneForEach
  <2> QED
    BY <1>1, <2>1, <2>2, <2>4 DEF AllReady
<1> QED
  BY <1>2, <1>3, <1>4, <1>5

\* A request that takes a name that it found free takes it from nobody it is kept for.
LEMMA TakesWhatIsFree ==
    ASSUME NamesInv, NEW r \in NameRequests, NEW u \in Users, NEW h \in Names \X Spellings,
           renaming[r].user = {u}, Takes(r, u, h[1])
    PROVE  early' = early
<1>1. h[1] \in Names
  OBVIOUS
<1>2. Asked(renaming[r], clock) /\ renaming[r] \in Change /\ clock \in Nat /\ given[h[1]] \subseteq Gift
  BY <1>1, NameBounds DEF NamesInv, AllAsked, NamesTyping
<1>3. CASE given[h[1]] = renaming[r].found
  <2>1. ASSUME NEW g \in given[h[1]], g.at + ReservationPeriod > clock
        PROVE  g.owner = u
    <3>1. g.at \in Nat /\ renaming[r].now \in Nat /\ renaming[r].now <= clock
      BY <1>2, NameBounds DEF Gift, Change, Asked
    <3>2. g.at + ReservationPeriod > renaming[r].now
      BY <1>2, <2>1, <3>1, NameBounds
    <3> QED
      BY <1>2, <1>3, <3>2 DEF Asked
  <2>2. KeptFor(h[1]) \subseteq {u}
    BY <2>1 DEF KeptFor
  <2> QED
    BY <2>2 DEF Takes
<1>4. CASE given[h[1]] # renaming[r].found
  BY <1>4 DEF Takes
<1> QED
  BY <1>3, <1>4

\* What becomes of who holds names when one user gets one, or none.
LEMMA HoldsOne ==
    ASSUME NamesInv, NEW u \in Users, \A v \in Users \ {u} : user'[v] = user[v],
           \/ user'[u].handle = {}
           \/ \E h \in Names \X Spellings : user'[u].handle = {h} /\ Holders(h[1]) \subseteq {u}
    PROVE  HeldByOne'
<1>1. HeldByOne
  BY DEF NamesInv
<1>2. CASE user'[u].handle = {}
  BY <1>1, <1>2 DEF HeldByOne
<1>3. ASSUME NEW h \in Names \X Spellings, user'[u].handle = {h}, Holders(h[1]) \subseteq {u}
      PROVE  HeldByOne'
  <2>1. \A v \in Users \ {u} : \A g \in user[v].handle : g[1] # h[1]
    BY <1>3 DEF Holders, NamesOf
  <2> QED
    BY <1>1, <1>3, <2>1 DEF HeldByOne
<1> QED
  BY <1>2, <1>3

\* What becomes of claims and gifts when a user takes some names and releases others.
GivesUp(names, taken, u, now) ==
    /\ now <= clock /\ clock' = clock /\ Given(names, taken, u, now)
    /\ \A n \in Names : claim'[n] = IF n \in names THEN {[owner |-> u, until |-> now + ReservationPeriod]}
                                    ELSE IF n \in taken THEN claim'[n] ELSE claim[n]
    /\ \A n \in taken \ names : claim'[n] = {} \/ claim'[n] = claim[n]
    /\ claim' = [n \in Names |-> claim'[n]]

LEMMA ReleasedAreKept ==
    ASSUME NamesInv, NEW u \in Users, NEW names \in SUBSET Names, NEW taken \in SUBSET Names,
           NEW now \in 0 .. MaxTime, GivesUp(names, taken, u, now)
    PROVE  /\ given' \in [Names -> SUBSET Gift] /\ claim' \in [Names -> SUBSET [owner : Users, until : Nat]]
           /\ GivenNamesAreKept'
<1>1. NamesTyping /\ GivenNamesAreKept
  BY DEF NamesInv
<1> USE DEF GivesUp
<1>2. ASSUME NEW n \in Names
      PROVE  /\ given'[n] \subseteq Gift /\ claim'[n] \subseteq [owner : Users, until : Nat]
             /\ Kept(given'[n], claim'[n], clock)
  <2>1. given'[n] = IF n \in names THEN {[owner |-> u, at |-> now]} ELSE IF n \in taken THEN {} ELSE given[n]
    BY DEF Given
  <2>2. now + ReservationPeriod \in Nat
    BY NameBounds
  <2>3. CASE n \in names
    BY <1>2, <2>1, <2>2, <2>3 DEF Kept, Gift
  <2>4. CASE n \in taken \ names
    BY <1>1, <1>2, <2>1, <2>4 DEF Kept, NamesTyping, GivenNamesAreKept
  <2>5. CASE n \notin taken \union names
    BY <1>1, <1>2, <2>1, <2>5 DEF Kept, NamesTyping, GivenNamesAreKept
  <2> QED
    BY <2>3, <2>4, <2>5
<1>3. given' \in [Names -> SUBSET Gift]
  BY <1>2 DEF Given
<1>4. claim' \in [Names -> SUBSET [owner : Users, until : Nat]]
  BY <1>2
<1>5. GivenNamesAreKept'
  BY <1>2 DEF GivenNamesAreKept
<1> QED
  BY <1>3, <1>4, <1>5

-----------------------------------------------------------------------------
(* The actions.                                                            *)

LEMMA RegisterNameKeeps ==
    ASSUME NamesInv, NEW r \in NameRequests, NEW u \in Users, NEW h \in Names \X Spellings, RegisterName(r, u, h)
    PROVE  NamesInv'
<1>1. \A c \in Live(h[1], clock) : FALSE
  BY DEF RegisterName, IsAvailable
<1> QED
  BY <1>1, BeginsKeeps DEF RegisterName

LEMMA SetUsernameKeeps ==
    ASSUME NamesInv, NEW r \in NameRequests, NEW u \in Users, NEW h \in Names \X Spellings, SetUsername(r, u, h)
    PROVE  NamesInv'
<1>1. NamesTyping /\ AllAsked /\ AllReady /\ ChangesAreCounted /\ user[u] \in UserRow /\ clock \in Nat
  BY NameBounds DEF NamesInv, NamesTyping
<1>2. \A q \in NameRequests : renaming[q].user # {u}
  <2> SUFFICES ASSUME NEW q \in NameRequests, renaming[q].user = {u}
               PROVE  FALSE
    OBVIOUS
  <2>1. renaming[q].pc \in {"idle", "create", "save"}
    BY <1>1 DEF NamesTyping, Change
  <2>2. renaming[q].pc # "idle"
    BY <1>1, EmptyRows DEF AllAsked, Asked
  <2>3. renaming[q].pc # "save"
    BY DEF SetUsername, RowLocked
  <2>4. user[u] = NoUser
    BY <1>1, <2>1, <2>2, <2>3 DEF AllReady, Ready
  <2> QED
    BY <2>4, EmptyRows DEF SetUsername
<1>3. \A c \in Live(h[1], clock) : c.owner = u
  BY DEF SetUsername, IsAvailable
<1>4. May(user[u], clock)
  <2> SUFFICES ASSUME ~ user[u].selects
               PROVE  IF Soon(user[u], clock) THEN user[u].inGrace < MaxGraceChanges
                      ELSE \A t \in user[u].last : clock >= t + ChangeCooldown
    BY DEF May
  <2>1. MayChange(u)
    BY DEF SetUsername
  <2>2. CASE ~ Soon(user[u], clock)
    BY <2>1, <2>2 DEF MayChange, InGrace, Soon
  <2>3. CASE Soon(user[u], clock)
    <3>1. user[u].inGrace \in Int /\ user[u].inGrace <= MaxGraceChanges /\ MaxGraceChanges \in Int
          /\ user[u].born \in Int
      BY <1>1, NameBounds DEF UserRow
    <3>2. Min({user[u].inGrace, MaxGraceChanges}) = user[u].inGrace
      <4>1. Min({user[u].inGrace, MaxGraceChanges}) \in {user[u].inGrace, MaxGraceChanges}
            /\ \A y \in {user[u].inGrace, MaxGraceChanges} : Min({user[u].inGrace, MaxGraceChanges}) <= y
        BY <3>1 DEF Min
      <4> QED
        BY <3>1, <4>1
    <3>3. GraceChangesRemaining(u) > 0
      BY <2>1, <2>3 DEF MayChange, InGrace, Soon
    <3>4. GraceChangesRemaining(u) = MaxGraceChanges - user[u].inGrace
      BY <1>1, <2>3, <3>1, <3>2, NameBounds DEF GraceChangesRemaining, Soon
    <3> QED
      BY <2>3, <3>1, <3>3, <3>4
  <2> QED
    BY <2>2, <2>3
<1> QED
  BY <1>2, <1>3, <1>4, BeginsKeeps DEF SetUsername

LEMMA CreateTemporaryKeeps ==
    ASSUME NamesInv, NEW u \in Users, CreateTemporary(u)
    PROVE  NamesInv'
<1>1. /\ NamesTyping /\ HeldByOne /\ GivenNamesAreKept /\ AllAsked /\ OneForEach /\ AllReady
      /\ ChangesAreCounted /\ early = {}
  BY DEF NamesInv
<1> DEFINE account == [Resident({}) EXCEPT !.born = clock]
<1>2. account \in UserRow /\ account.state = "active" /\ account.handle = {} /\ account.inGrace = 0
  <2>1. Resident({}) \in UserRow
    BY EmptyRows
  <2> QED
    BY <1>1, <2>1, EmptyRows DEF UserRow, NamesTyping
<1> HIDE DEF account
<1>3. /\ user' \in [Users -> UserRow] /\ user'[u] = account /\ \A v \in Users \ {u} : user'[v] = user[v]
      /\ UNCHANGED <<claim, renaming, clock, given, early, changed>>
  BY <1>1, <1>2 DEF CreateTemporary, NamesTyping, account
<1>4. HeldByOne'
  BY <1>2, <1>3, HoldsOne
<1>5. AllReady'
  <2> SUFFICES ASSUME NEW s \in NameRequests, NEW v \in renaming[s].user
               PROVE  Ready(renaming[s], user'[v])
    BY <1>3 DEF AllReady
  <2>1. renaming[s].user = {v} /\ v \in Users
    <3>1. renaming[s].pc # "idle"
      BY <1>1, EmptyRows DEF AllAsked, Asked
    <3> QED
      BY <1>1, <3>1 DEF AllAsked, Asked
  <2> QED
    BY <1>1, <1>3, <2>1 DEF AllReady, CreateTemporary
<1>6. ChangesAreCounted'
  <2>1. changed[u] = <<>>
    BY <1>1, EmptyRows DEF ChangesAreCounted, Counts, CreateTemporary
  <2>2. Counts(account, <<>>)
    BY <1>2, NothingCounted
  <2> QED
    BY <1>1, <1>3, <2>1, <2>2 DEF ChangesAreCounted
<1>7. NamesTyping' /\ GivenNamesAreKept' /\ AllAsked' /\ OneForEach'
  BY <1>1, <1>3 DEF NamesTyping, GivenNamesAreKept, AllAsked, OneForEach
<1> QED
  BY <1>1, <1>3, <1>4, <1>5, <1>6, <1>7 DEF NamesInv

LEMMA CreateNamedKeeps ==
    ASSUME NamesInv, NEW r \in NameRequests, CreateNamed(r)
    PROVE  NamesInv'
<1>1. /\ NamesTyping /\ HeldByOne /\ GivenNamesAreKept /\ AllAsked /\ OneForEach /\ AllReady
      /\ ChangesAreCounted /\ early = {}
  BY DEF NamesInv
<1>2. renaming[r].pc = "create" /\ EndsChange(r) /\ UNCHANGED <<claim, clock, changed>>
  BY DEF CreateNamed
<1>3. PICK u \in Users, h \in Names \X Spellings : renaming[r].user = {u} /\ renaming[r].handle = {h}
  BY <1>1, <1>2 DEF AllAsked, Asked
<1>4. CASE UNCHANGED <<user, given, early>>
  <2>1. renaming' \in [NameRequests -> Change] /\ AllAsked' /\ OneForEach' /\ AllReady'
    BY <1>2, <1>3, <1>4, RequestsEnd
  <2>2. NamesTyping' /\ HeldByOne' /\ GivenNamesAreKept' /\ ChangesAreCounted'
    BY <1>1, <1>2, <1>4, <2>1 DEF NamesTyping, HeldByOne, GivenNamesAreKept, ChangesAreCounted
  <2> QED
    BY <1>1, <1>4, <2>1, <2>2 DEF NamesInv
<1>5. CASE ~ UNCHANGED <<user, given, early>>
  <2> DEFINE account == [Resident({h}) EXCEPT !.born = clock]
  <2>1. /\ Holders(h[1]) = {} /\ user' = [user EXCEPT ![u] = account]
        /\ Takes(r, u, h[1]) /\ Given({}, {h[1]}, u, clock)
    BY <1>3, <1>5 DEF CreateNamed
  <2>2. account \in UserRow /\ account.state = "active" /\ account.handle = {h} /\ account.inGrace = 0
    <3>1. /\ Resident({h}) \in UserRow /\ Resident({h}).state = "active"
          /\ Resident({h}).handle = {h} /\ Resident({h}).inGrace = 0
      BY EmptyRows
    <3> QED
      BY <1>1, <3>1 DEF UserRow, NamesTyping
  <2> HIDE DEF account
  <2>3. user' \in [Users -> UserRow] /\ user'[u] = account /\ \A v \in Users \ {u} : user'[v] = user[v]
    BY <1>1, <2>1, <2>2 DEF NamesTyping
  <2>4. early' = early
    BY <1>3, <2>1, TakesWhatIsFree
  <2>5. renaming' \in [NameRequests -> Change] /\ AllAsked' /\ OneForEach' /\ AllReady'
    BY <1>2, <1>3, <2>3, RequestsEnd
  <2>6. HeldByOne'
    BY <2>1, <2>2, <2>3, HoldsOne
  <2>7. given' \in [Names -> SUBSET Gift] /\ GivenNamesAreKept'
    <3>1. \A n \in Names : given'[n] = {} \/ given'[n] = given[n]
      BY <2>1 DEF Given
    <3>2. \A n \in Names : given'[n] \subseteq Gift /\ Kept(given'[n], claim[n], clock)
      BY <1>1, <3>1 DEF NamesTyping, GivenNamesAreKept, Kept
    <3> QED
      BY <1>2, <2>1, <3>2 DEF Given, GivenNamesAreKept
  <2>8. ChangesAreCounted'
    <3>1. changed[u] = <<>>
      BY <1>1, <1>2, <1>3, EmptyRows DEF ChangesAreCounted, Counts, AllReady, Ready
    <3>2. Counts(account, <<>>)
      BY <2>2, NothingCounted
    <3> QED
      BY <1>1, <1>2, <2>3, <3>1, <3>2 DEF ChangesAreCounted
  <2>9. NamesTyping'
    BY <1>1, <1>2, <2>3, <2>4, <2>5, <2>7 DEF NamesTyping
  <2> QED
    BY <1>1, <2>4, <2>5, <2>6, <2>7, <2>8, <2>9 DEF NamesInv
<1> QED
  BY <1>4, <1>5

LEMMA SaveUsernameKeeps ==
    ASSUME NamesInv, NEW r \in NameRequests, SaveUsername(r)
    PROVE  NamesInv'
<1>1. /\ NamesTyping /\ HeldByOne /\ GivenNamesAreKept /\ AllAsked /\ OneForEach /\ AllReady
      /\ ChangesAreCounted /\ early = {}
  BY DEF NamesInv
<1>2. renaming[r].pc = "save" /\ EndsChange(r) /\ clock' = clock
  BY DEF SaveUsername
<1>3. PICK u \in Users, h \in Names \X Spellings : renaming[r].user = {u} /\ renaming[r].handle = {h}
  BY <1>1, <1>2 DEF AllAsked, Asked
<1>4. CASE UNCHANGED <<user, claim, given, early, changed>>
  <2>1. renaming' \in [NameRequests -> Change] /\ AllAsked' /\ OneForEach' /\ AllReady'
    BY <1>2, <1>3, <1>4, RequestsEnd
  <2>2. NamesTyping' /\ HeldByOne' /\ GivenNamesAreKept' /\ ChangesAreCounted'
    BY <1>1, <1>2, <1>4, <2>1 DEF NamesTyping, HeldByOne, GivenNamesAreKept, ChangesAreCounted
  <2> QED
    BY <1>1, <1>4, <2>1, <2>2 DEF NamesInv
<1>5. CASE ~ UNCHANGED <<user, claim, given, early, changed>>
  <2> DEFINE n == h[1]
             now == renaming[r].now
             first == user[u].selects
             released == IF first THEN {} ELSE NamesOf(user[u].handle) \ {n}
             counts == IF ~ first /\ InGrace(u, now) THEN user[u].inGrace + 1 ELSE user[u].inGrace
             latest == IF ~ first /\ ~ InGrace(u, now) THEN {now} ELSE user[u].last
             account == [user[u] EXCEPT !.handle = {h}, !.selects = FALSE, !.inGrace = counts, !.last = latest]
  <2>1. /\ Holders(n) \ {u} = {}
        /\ user' = [user EXCEPT ![u].handle = {h}, ![u].selects = FALSE,
                        ![u].inGrace = IF ~ first /\ InGrace(u, now) THEN @ + 1 ELSE @,
                        ![u].last = IF ~ first /\ ~ InGrace(u, now) THEN {now} ELSE @]
        /\ ReserveReleased(released, u, now, [claim EXCEPT ![n] = {}])
        /\ Given(released, {n}, u, now) /\ Takes(r, u, n)
        /\ changed' = IF first THEN changed ELSE [changed EXCEPT ![u] = Append(@, now)]
    <3>1. Holders(n) \ {u} = {} /\ TakeName(r, u, h)
      BY <1>3, <1>5 DEF SaveUsername
    <3> QED
      BY <3>1 DEF TakeName
  <2>2. /\ user[u] \in UserRow /\ user[u].state = "active" /\ May(user[u], now) /\ n \in Names
        /\ now \in 0 .. MaxTime /\ now <= clock /\ Counts(user[u], changed[u])
    BY <1>1, <1>2, <1>3 DEF NamesTyping, AllReady, Ready, AllAsked, Asked, Change, ChangesAreCounted
  <2>3. InGrace(u, now) <=> Soon(user[u], now)
    BY DEF InGrace, Soon
  <2>4. /\ account \in UserRow /\ account.state = "active" /\ account.handle = {h} /\ account.born = user[u].born
        /\ account.inGrace = counts /\ account.last = latest
    <3>1. counts \in 0 .. MaxGraceChanges
      BY <2>2, <2>3, NameBounds DEF UserRow, May
    <3>2. latest \in SUBSET (0 .. MaxTime)
      BY <2>2 DEF UserRow
    <3> HIDE DEF counts, latest
    <3> QED
      BY <2>2, <3>1, <3>2 DEF UserRow
  <2>5. user' = [user EXCEPT ![u] = account]
    BY <1>1, <2>1, <2>2 DEF NamesTyping, UserRow
  <2> HIDE DEF account
  <2>6. user' \in [Users -> UserRow] /\ user'[u] = account /\ \A v \in Users \ {u} : user'[v] = user[v]
    BY <1>1, <2>4, <2>5 DEF NamesTyping
  <2>7. early' = early
    BY <1>3, <2>1, TakesWhatIsFree
  <2>8. renaming' \in [NameRequests -> Change] /\ AllAsked' /\ OneForEach' /\ AllReady'
    BY <1>2, <1>3, <2>6, RequestsEnd
  <2>9. HeldByOne'
    BY <2>1, <2>4, <2>6, HoldsOne
  <2>10. released \in SUBSET Names /\ {n} \in SUBSET Names
    BY <2>2 DEF NamesOf, UserRow
  <2>11. /\ given' \in [Names -> SUBSET Gift] /\ claim' \in [Names -> SUBSET [owner : Users, until : Nat]]
         /\ GivenNamesAreKept'
    <3> DEFINE taken == {n}
    <3>1. \A m \in Names : claim'[m] = IF m \in released THEN {[owner |-> u, until |-> now + ReservationPeriod]}
                                       ELSE IF m \in taken THEN {} ELSE claim[m]
      BY <1>1, <2>1 DEF ReserveReleased, NamesTyping
    <3>2. claim' = [m \in Names |-> claim'[m]]
      BY <2>1 DEF ReserveReleased
    <3>3. taken \in SUBSET Names /\ Given(released, taken, u, now)
      BY <2>1, <2>10
    <3>4. now \in 0 .. MaxTime /\ now <= clock /\ released \in SUBSET Names
      BY <2>2, <2>10
    <3> HIDE DEF released, taken, now, n, first
    <3>5. /\ \A m \in Names : claim'[m] = IF m \in released THEN {[owner |-> u, until |-> now + ReservationPeriod]}
                                      ELSE IF m \in taken THEN claim'[m] ELSE claim[m]
          /\ \A m \in taken \ released : claim'[m] = {} \/ claim'[m] = claim[m]
      BY <3>1, <3>3
    <3>6. PICK names \in SUBSET Names, others \in SUBSET Names, then \in 0 .. MaxTime :
             names = released /\ others = taken /\ then = now
      BY <3>3, <3>4
    <3>7. GivesUp(names, others, u, then)
      BY <1>2, <3>2, <3>3, <3>4, <3>5, <3>6 DEF GivesUp
    <3> QED
      BY <1>3, <3>6, <3>7, ReleasedAreKept
  <2>12. changed' \in [Users -> Seq(0 .. MaxTime)] /\ ChangesAreCounted'
    <3>1. changed[u] \in Seq(0 .. MaxTime)
      BY <1>1 DEF NamesTyping
    <3>2. CASE first
      <4>1. Counts(account, changed[u])
        BY <2>2, <2>4, <3>2, CountsKeep
      <4> QED
        BY <1>1, <2>1, <2>6, <3>2, <4>1 DEF ChangesAreCounted, NamesTyping
    <3>3. CASE ~ first
      <4>1. \/ Soon(user[u], now) /\ account.inGrace = user[u].inGrace + 1 /\ account.last = user[u].last
            \/ /\ ~ Soon(user[u], now) /\ account.inGrace = user[u].inGrace /\ account.last = {now}
               /\ \A t \in user[u].last : now >= t + ChangeCooldown
        BY <2>2, <2>3, <2>4, <3>3 DEF May
      <4>2. changed' = [changed EXCEPT ![u] = Append(changed[u], now)]
        BY <2>1, <3>3
      <4> HIDE DEF first, now
      <4>3. Counts(account, Append(changed[u], now))
        BY <2>2, <2>4, <3>1, <4>1, CountsAppend
      <4>4. Append(changed[u], now) \in Seq(0 .. MaxTime)
        BY <2>2, <3>1
      <4>5. /\ changed' \in [Users -> Seq(0 .. MaxTime)] /\ changed'[u] = Append(changed[u], now)
            /\ \A v \in Users \ {u} : changed'[v] = changed[v]
        BY <1>1, <4>2, <4>4 DEF NamesTyping
      <4> QED
        BY <1>1, <2>6, <4>3, <4>5 DEF ChangesAreCounted
    <3> QED
      BY <3>2, <3>3
  <2>13. NamesTyping'
    BY <1>1, <1>2, <2>6, <2>7, <2>8, <2>11, <2>12 DEF NamesTyping
  <2> QED
    BY <1>1, <2>7, <2>8, <2>9, <2>11, <2>12, <2>13 DEF NamesInv
<1> QED
  BY <1>4, <1>5

LEMMA DeleteAccountKeeps ==
    ASSUME NamesInv, NEW u \in Users, DeleteAccount(u)
    PROVE  NamesInv'
<1>1. /\ NamesTyping /\ HeldByOne /\ GivenNamesAreKept /\ AllAsked /\ OneForEach /\ AllReady
      /\ ChangesAreCounted /\ early = {} /\ user[u] \in UserRow
  BY DEF NamesInv, NamesTyping
<1> DEFINE account == [user[u] EXCEPT !.state = "deleted", !.handle = {}, !.selects = FALSE]
           names == NamesOf(user[u].handle)
<1>2. /\ account \in UserRow /\ account.state = "deleted" /\ account.handle = {} /\ account.born = user[u].born
      /\ account.inGrace = user[u].inGrace /\ account.last = user[u].last
  BY <1>1 DEF UserRow
<1>3. /\ user[u].state = "active" /\ ~ RowLocked(u) /\ user' = [user EXCEPT ![u] = account]
      /\ ReserveReleased(names, u, clock, claim) /\ Given(names, {}, u, clock)
      /\ UNCHANGED <<renaming, clock, early, changed>>
  BY DEF DeleteAccount
<1> HIDE DEF account
<1>4. user' \in [Users -> UserRow] /\ user'[u] = account /\ \A v \in Users \ {u} : user'[v] = user[v]
  BY <1>1, <1>2, <1>3 DEF NamesTyping
<1>5. HeldByOne'
  BY <1>2, <1>4, HoldsOne
<1>6. /\ given' \in [Names -> SUBSET Gift] /\ claim' \in [Names -> SUBSET [owner : Users, until : Nat]]
      /\ GivenNamesAreKept'
  <2> DEFINE taken == {}
  <2>1. names \in SUBSET Names
    BY <1>1 DEF NamesOf, UserRow
  <2>2. /\ \A m \in Names : claim'[m] = IF m \in names THEN {[owner |-> u, until |-> clock + ReservationPeriod]}
                                      ELSE claim[m]
        /\ claim' = [m \in Names |-> claim'[m]]
    BY <1>3 DEF ReserveReleased
  <2>3. clock \in 0 .. MaxTime /\ clock <= clock /\ Given(names, taken, u, clock)
    BY <1>1, <1>3, NameBounds DEF NamesTyping
  <2>4. taken \in SUBSET Names /\ \A m \in Names : m \notin taken
    OBVIOUS
  <2> HIDE DEF names, taken
  <2>5. PICK given0 \in SUBSET Names, none \in SUBSET Names, then \in 0 .. MaxTime :
           given0 = names /\ none = taken /\ then = clock
    BY <2>1, <2>3, <2>4
  <2>6. GivesUp(given0, none, u, then)
    BY <1>3, <2>2, <2>3, <2>4, <2>5 DEF GivesUp
  <2> QED
    BY <2>5, <2>6, ReleasedAreKept
<1>7. AllReady'
  <2> SUFFICES ASSUME NEW s \in NameRequests, NEW v \in renaming[s].user
               PROVE  Ready(renaming[s], user'[v])
    BY <1>3 DEF AllReady
  <2>1. renaming[s].user = {v} /\ v \in Users /\ renaming[s].pc \in {"create", "save"}
    <3>1. renaming[s].pc # "idle" /\ renaming[s].pc \in {"idle", "create", "save"}
      BY <1>1, EmptyRows DEF AllAsked, Asked, NamesTyping, Change
    <3> QED
      BY <1>1, <3>1 DEF AllAsked, Asked
  <2>2. Ready(renaming[s], user[v])
    BY <1>1 DEF AllReady
  <2>3. v # u
    <3>1. renaming[s].pc = "save" => renaming[s].user # {u}
      BY <1>3 DEF RowLocked
    <3>2. user[u] # NoUser
      BY <1>3, EmptyRows
    <3> QED
      BY <2>1, <2>2, <3>1, <3>2 DEF Ready
  <2> QED
    BY <1>4, <2>1, <2>2, <2>3
<1>8. ChangesAreCounted'
  <2>1. Counts(account, changed[u])
    <3>1. Counts(user[u], changed[u])
      BY <1>1 DEF ChangesAreCounted
    <3> QED
      BY <1>2, <1>3, <3>1, CountsKeep
  <2> QED
    BY <1>1, <1>3, <1>4, <2>1 DEF ChangesAreCounted
<1>9. NamesTyping' /\ AllAsked' /\ OneForEach'
  BY <1>1, <1>3, <1>4, <1>6 DEF NamesTyping, AllAsked, OneForEach
<1> QED
  BY <1>1, <1>3, <1>5, <1>6, <1>7, <1>8, <1>9 DEF NamesInv

LEMMA CleanupExpiredKeeps ==
    ASSUME NamesInv, CleanupExpired
    PROVE  NamesInv'
<1>1. /\ NamesTyping /\ HeldByOne /\ GivenNamesAreKept /\ AllAsked /\ OneForEach /\ AllReady
      /\ ChangesAreCounted /\ early = {}
  BY DEF NamesInv
<1>2. /\ UNCHANGED <<user, renaming, clock, given, early, changed>>
      /\ claim' = [n \in Names |-> Live(n, clock)]
  BY DEF CleanupExpired
<1>3. \A n \in Names : claim'[n] \subseteq [owner : Users, until : Nat]
  BY <1>1, <1>2 DEF Live, NamesTyping
<1>4. GivenNamesAreKept'
  <2> SUFFICES ASSUME NEW n \in Names
               PROVE  Kept(given[n], claim'[n], clock)
    BY <1>2 DEF GivenNamesAreKept
  <2>1. Kept(given[n], claim[n], clock) /\ claim'[n] = {c \in claim[n] : c.until > clock}
    BY <1>1, <1>2 DEF GivenNamesAreKept, Live
  <2> QED
    BY <2>1 DEF Kept
<1>5. NamesTyping' /\ HeldByOne' /\ AllAsked' /\ OneForEach' /\ AllReady' /\ ChangesAreCounted'
  BY <1>1, <1>2, <1>3 DEF NamesTyping, HeldByOne, AllAsked, OneForEach, AllReady, ChangesAreCounted
<1> QED
  BY <1>1, <1>2, <1>4, <1>5 DEF NamesInv

LEMMA TimePassesKeeps ==
    ASSUME NamesInv, TimePasses
    PROVE  NamesInv'
<1>1. /\ NamesTyping /\ HeldByOne /\ GivenNamesAreKept /\ AllAsked /\ OneForEach /\ AllReady
      /\ ChangesAreCounted /\ early = {} /\ clock \in Nat
  BY NameBounds DEF NamesInv, NamesTyping
<1>2. /\ UNCHANGED <<user, claim, renaming, given, early, changed>>
      /\ clock' = clock + 1 /\ clock' \in 0 .. MaxTime
  BY <1>1, NameBounds DEF TimePasses
<1>3. GivenNamesAreKept'
  <2> SUFFICES ASSUME NEW n \in Names
               PROVE  Kept(given[n], claim[n], clock')
    BY <1>2 DEF GivenNamesAreKept
  <2>1. Kept(given[n], claim[n], clock) /\ \A g \in given[n] : g.at \in Nat
    BY <1>1, NameBounds DEF GivenNamesAreKept, NamesTyping, Gift
  <2>2. \A g \in given[n] : g.at + ReservationPeriod > clock' => g.at + ReservationPeriod > clock
    BY <1>1, <1>2, <2>1, NameBounds
  <2> QED
    BY <2>1, <2>2 DEF Kept
<1>4. AllAsked'
  <2>1. \A r \in NameRequests : renaming[r].now \in Nat
    BY <1>1, NameBounds DEF NamesTyping, Change
  <2> QED
    BY <1>1, <1>2, <2>1 DEF AllAsked, Asked
<1>5. NamesTyping' /\ HeldByOne' /\ OneForEach' /\ AllReady' /\ ChangesAreCounted'
  BY <1>1, <1>2 DEF NamesTyping, HeldByOne, OneForEach, AllReady, ChangesAreCounted
<1> QED
  BY <1>1, <1>2, <1>3, <1>4, <1>5 DEF NamesInv

-----------------------------------------------------------------------------
(* The invariant.                                                          *)

LEMMA NamesInitHold == UsernamesInit => NamesInv
<1> SUFFICES ASSUME UsernamesInit
             PROVE  NamesInv
  OBVIOUS
<1>1. PICK p \in Populations : user = [u \in Users |-> IF p[u] = {} THEN NoUser ELSE Resident(p[u])]
  BY DEF UsernamesInit
<1>2. /\ p \in [Users -> SUBSET (Names \X Spellings)]
      /\ \A u \in Users : \A g, h \in p[u] : g = h
      /\ \A u, v \in Users : \A g \in p[u], h \in p[v] : g[1] = h[1] => u = v
  BY UsernamesAssumption
<1>3. \A u \in Users : /\ user[u] \in UserRow /\ user[u].handle = p[u] /\ user[u].inGrace = 0
                       /\ user[u].state = "none" => user[u] = NoUser
  BY <1>1, <1>2, EmptyRows
<1>4. /\ claim = [n \in Names |-> {}] /\ renaming = [r \in NameRequests |-> NoChange] /\ clock = 0
      /\ given = [n \in Names |-> {}] /\ early = {} /\ changed = [u \in Users |-> <<>>]
  BY DEF UsernamesInit
<1>5. NamesTyping
  <2>1. user \in [Users -> UserRow]
    BY <1>1, <1>3
  <2>2. renaming \in [NameRequests -> Change]
    BY <1>4, EmptyRows
  <2>3. <<>> \in Seq(0 .. MaxTime) /\ 0 \in 0 .. MaxTime
    BY NameBounds
  <2> QED
    BY <1>4, <2>1, <2>2, <2>3 DEF NamesTyping
<1>6. HeldByOne
  BY <1>2, <1>3 DEF HeldByOne
<1>7. GivenNamesAreKept
  BY <1>4 DEF GivenNamesAreKept, Kept
<1>8. AllAsked /\ OneForEach /\ AllReady
  <2>1. Asked(NoChange, 0)
    BY EmptyRows DEF Asked
  <2>2. AllAsked
    BY <1>4, <2>1 DEF AllAsked
  <2>3. OneForEach /\ AllReady
    BY <1>4, EmptyRows DEF OneForEach, AllReady
  <2> QED
    BY <2>2, <2>3
<1>9. ChangesAreCounted
  BY <1>3, <1>4, NothingCounted DEF ChangesAreCounted
<1> QED
  BY <1>4, <1>5, <1>6, <1>7, <1>8, <1>9 DEF NamesInv

LEMMA NamesNextKeeps == NamesInv /\ [UsernamesNext]_usernameVars => NamesInv'
<1> SUFFICES ASSUME NamesInv, [UsernamesNext]_usernameVars
             PROVE  NamesInv'
  OBVIOUS
<1>1. CASE UNCHANGED usernameVars
  BY <1>1 DEF NamesInv, NamesTyping, HeldByOne, GivenNamesAreKept, AllAsked, OneForEach, AllReady,
     ChangesAreCounted, usernameVars
<1>2. CASE Arrives
  BY <1>2, CreateTemporaryKeeps, RegisterNameKeeps DEF Arrives
<1>3. CASE Renames
  BY <1>3, SetUsernameKeeps DEF Renames
<1>4. CASE \E r \in NameRequests : CreateNamed(r) \/ SaveUsername(r)
  BY <1>4, CreateNamedKeeps, SaveUsernameKeeps
<1>5. CASE (\E u \in Users : DeleteAccount(u)) \/ CleanupExpired \/ TimePasses
  BY <1>5, DeleteAccountKeeps, CleanupExpiredKeeps, TimePassesKeeps
<1> QED
  BY <1>1, <1>2, <1>3, <1>4, <1>5 DEF UsernamesNext

LEMMA NamesAlwaysHold == UsernamesSpec => []NamesInv
  BY NamesInitHold, NamesNextKeeps, PTL DEF UsernamesSpec

\* The rows of users and the claims to names have their type: nobody holds two names, and no
\* name has two holders or two claims (username_policy.py).
THEOREM NamesTypeCorrect == UsernamesSpec => []NamesTypeOK
<1>1. NamesInv => NamesTypeOK
  <2> SUFFICES ASSUME NamesInv
               PROVE  NamesTypeOK
    OBVIOUS
  <2>1. NamesTyping /\ HeldByOne /\ GivenNamesAreKept
    BY DEF NamesInv
  <2>2. \A u \in Users : Cardinality(user[u].handle) <= 1
    BY <2>1, AtMostOne DEF HeldByOne
  <2>3. ASSUME NEW n \in Names
        PROVE  Cardinality(Holders(n)) <= 1 /\ Cardinality(claim[n]) <= 1
    <3>1. \A u, v \in Holders(n) : u = v
      BY <2>1 DEF HeldByOne, Holders, NamesOf
    <3>2. \A c, d \in claim[n] : c = d
      BY <2>1 DEF GivenNamesAreKept, Kept
    <3> QED
      BY <3>1, <3>2, AtMostOne
  <2> QED
    BY <2>1, <2>2, <2>3 DEF NamesTypeOK, NamesTyping, UserRow
<1> QED
  BY <1>1, NamesAlwaysHold, PTL

\* However many requests there are at a time: a name that was given up lately is taken by nobody
\* else, unless it changed hands under the request; and a user changes the name only so often
\* in the first days and once in a cooldown later (set_username, reserve_released_username).
THEOREM NamesKept == UsernamesSpec => []NamesAreKept
<1>1. NamesInv => NamesAreKept
  <2> SUFFICES ASSUME NamesInv
               PROVE  NamesAreKept
    OBVIOUS
  <2>1. ASSUME NEW u \in Users
        PROVE  LET soon == {i \in DOMAIN changed[u] : InGrace(u, changed[u][i])}
               IN /\ Cardinality(soon) <= MaxGraceChanges
                  /\ \A i, j \in DOMAIN changed[u] \ soon : i < j => changed[u][j] >= changed[u][i] + ChangeCooldown
    <3> DEFINE soon == {i \in DOMAIN changed[u] : InGrace(u, changed[u][i])}
    <3>1. soon = Early(user[u], changed[u])
      BY DEF Early, InGrace, Soon
    <3>2. Counts(user[u], changed[u]) /\ user[u].inGrace <= MaxGraceChanges
      BY DEF NamesInv, ChangesAreCounted, NamesTyping, UserRow
    <3> HIDE DEF soon
    <3>3. /\ Cardinality(soon) <= MaxGraceChanges
          /\ \A i, j \in DOMAIN changed[u] \ soon : i < j => changed[u][j] >= changed[u][i] + ChangeCooldown
      BY <3>1, <3>2 DEF Counts
    <3> QED
      BY <3>3 DEF soon
  <2>2. ReleasedNamesAreKeptUnlessRaced
    BY DEF NamesInv, ReleasedNamesAreKeptUnlessRaced
  <2> QED
    BY <2>1, <2>2 DEF NamesAreKept, ChangesAreLimited
<1> QED
  BY <1>1, NamesAlwaysHold, PTL

-----------------------------------------------------------------------------
(***************************************************************************)
(* Scripture.  However an import ends, it has saved each chapter after it  *)
(* saw those before it, there or without verses, and deleted the last one  *)
(* only.  An import that met no failure knows, at the end of a book, that  *)
(* the servers have no more, or know it by the other name.                 *)
(***************************************************************************)

BookSteps == {"book", "delete", "fetch", "save", "end of book", "record"}
ImportSteps == {"idle", "take lock", "seed", "next"} \union BookSteps
ImportState == [pc : ImportSteps, resume : BOOLEAN, todo : Seq(Translations), name : 1 .. 2, limit : 0 .. Last,
                chapter : 1 .. Last + 1, found : BOOLEAN, clean : BOOLEAN]
ReaderState == [pc : {"idle", "lock", "wait", "fetch", "release", "release and fill", "fill"}, acquired : BOOLEAN]

ShelfTyping ==
    /\ stored \in [Translations -> SUBSET (1 .. Last)] /\ blank \in [Translations -> SUBSET (1 .. Last)] /\ recorded \in [Translations -> 0 .. Last]
    /\ chapters \in 1 .. Last /\ active \in BOOLEAN /\ imported \in 0 .. MaxImports /\ overlapped \in BOOLEAN
ReadingTyping ==
    /\ cached \in BOOLEAN /\ lock \subseteq Readers /\ crowded \in BOOLEAN
    /\ reader \in [Readers -> ReaderState]

\* An import that is in a book is of some translation, and saves chapters of the book only.
InHand(b) ==
    /\ b \in ImportState
    /\ b.pc \in BookSteps => b.todo # <<>>
    /\ b.pc = "save" => b.chapter <= Last

\* What an import knows of the chapters that are there (have), of those that are there or had no
\* verses (seen), and of those on offer.
Knows(b, have, seen, offer, name) ==
    /\ b.clean => b.limit = Last
    /\ b.pc = "delete" => 1 .. b.chapter \subseteq seen /\ b.found /\ \A d \in have : d <= b.chapter
    /\ b.pc \in {"fetch", "save"} => 1 .. b.chapter - 1 \subseteq seen
    /\ b.pc = "fetch" /\ ~ b.found => b.chapter = 1
    /\ b.pc = "save" => b.chapter <= offer /\ b.name = name /\ b.found
    /\ b.pc \in {"delete", "fetch", "end of book"} /\ b.clean /\ b.name = 1 /\ name = 2 => ~ b.found
    /\ b.pc \in {"book", "delete", "fetch", "end of book"} /\ b.clean /\ b.name = 2 /\ name = 1 => offer = 0
    /\ b.pc = "end of book" /\ b.clean /\ b.name = name => 1 .. offer \subseteq seen
    /\ b.pc = "end of book" /\ b.clean /\ b.name = name /\ b.name = 1 /\ ~ b.found => offer = 0
    /\ b.pc = "record" /\ b.clean => 1 .. offer \subseteq seen

Seen(t) == stored[t] \union blank[t]

OnCourse(b) ==
    b.pc \in BookSteps =>
        Knows(b, stored[Head(b.todo)], Seen(Head(b.todo)), plan.offered[Head(b.todo)], plan.name)

Gapless(have, seen, offer) == \A c \in have : c <= offer /\ 1 .. c \subseteq seen
AllGapless == \A t \in Translations : Gapless(stored[t], Seen(t), plan.offered[t])
OneImport == \A i, j \in Imports : i = j \/ Does(i, "idle") \/ Does(j, "idle")
Unbroken == ~ overlapped => OneImport /\ AllGapless /\ \A i \in Imports : OnCourse(import[i])

InTurns ==
    ~ crowded => \A r \in Readers : reader[r].pc \in {"fetch", "release", "release and fill"} =>
                                        lock = {r} /\ reader[r].acquired

ImportsTyping == ShelfTyping /\ plan \in Plans /\ import \in [Imports -> ImportState] /\ \A i \in Imports : InHand(import[i])
ImportsInv == ImportsTyping /\ Unbroken
ReadersInv == plan \in Plans /\ ReadingTyping /\ InTurns
ScriptureInv == ImportsInv /\ ReadersInv

LEMMA ScriptureBounds == Last \in Nat /\ Last >= 1 /\ Enough \in Nat /\ MaxImports \in Nat
  BY ScriptureAssumption

LEMMA PlanTyping ==
    ASSUME plan \in Plans
    PROVE  /\ plan.offered \in [Translations -> 0 .. Last] /\ plan.name \in 1 .. 2 /\ plan.imports \subseteq Imports
           /\ plan.orders \subseteq Seq(Translations) /\ plan.readers \subseteq Readers
  BY ScriptureAssumption

LEMMA ImportFields ==
    ASSUME NEW b \in ImportState
    PROVE  /\ b.pc \in ImportSteps /\ b.resume \in BOOLEAN /\ b.todo \in Seq(Translations) /\ b.name \in 1 .. 2
           /\ b.limit \in 0 .. Last /\ b.chapter \in 1 .. Last + 1 /\ b.found \in BOOLEAN /\ b.clean \in BOOLEAN
  BY DEF ImportState

LEMMA ImportFrom ==
    ASSUME NEW pc \in ImportSteps, NEW resume \in BOOLEAN, NEW todo \in Seq(Translations), NEW name \in 1 .. 2,
           NEW limit \in 0 .. Last, NEW chapter \in 1 .. Last + 1, NEW found \in BOOLEAN, NEW clean \in BOOLEAN
    PROVE  [pc |-> pc, resume |-> resume, todo |-> todo, name |-> name, limit |-> limit, chapter |-> chapter,
            found |-> found, clean |-> clean] \in ImportState
  BY DEF ImportState

LEMMA NoImportType == NoImport \in ImportState /\ InHand(NoImport) /\ NoImport.pc = "idle"
<1>1. <<>> \in Seq(Translations)
  OBVIOUS
<1> QED
  BY <1>1, ScriptureBounds DEF NoImport, ImportState, ImportSteps, InHand, BookSteps

LEMMA TodoParts ==
    ASSUME NEW todo \in Seq(Translations), todo # <<>>
    PROVE  Head(todo) \in Translations /\ Tail(todo) \in Seq(Translations)
  OBVIOUS

\* A step of an import that saves and deletes nothing.
LEMMA ImportGoesOn ==
    ASSUME ImportsInv, NEW i \in Imports, ~ Does(i, "idle"), NEW b, Turns(i, b), InHand(b),
           ShelfTyping', UNCHANGED <<stored, blank, overlapped, plan>>,
           ~ overlapped => OnCourse(b)
    PROVE  ImportsInv'
<1>1. /\ ImportsTyping /\ import' = [import EXCEPT ![i] = b] /\ b \in ImportState
      /\ stored' = stored /\ blank' = blank /\ overlapped' = overlapped /\ plan' = plan
  BY DEF ImportsInv, Turns, InHand
<1>2. import'[i] = b /\ \A j \in Imports \ {i} : import'[j] = import[j]
  BY <1>1 DEF ImportsTyping
<1>3. ImportsTyping'
  <2>1. import' \in [Imports -> ImportState]
    BY <1>1 DEF ImportsTyping
  <2>2. ASSUME NEW j \in Imports
        PROVE  InHand(import'[j])
    BY <1>1, <1>2 DEF ImportsTyping
  <2> QED
    BY <1>1, <2>1, <2>2 DEF ImportsTyping, InHand
<1>4. ASSUME ~ overlapped
      PROVE  OneImport' /\ AllGapless' /\ \A j \in Imports : OnCourse(import[j])'
  <2>1. OneImport /\ AllGapless /\ \A j \in Imports : OnCourse(import[j])
    BY <1>4 DEF ImportsInv, Unbroken
  <2>2. OneImport'
    BY <1>2, <2>1 DEF OneImport, Does
  <2>3. AllGapless'
    BY <1>1, <2>1 DEF AllGapless, Seen
  <2>4. ASSUME NEW j \in Imports
        PROVE  OnCourse(import[j])'
    <3>1. CASE j = i
      BY <1>1, <1>2, <1>4, <3>1 DEF OnCourse, Seen
    <3>2. CASE j # i
      BY <1>1, <1>2, <2>1, <3>2 DEF OnCourse, Seen
    <3> QED
      BY <3>1, <3>2
  <2> QED
    BY <2>2, <2>3, <2>4
<1> QED
  BY <1>1, <1>3, <1>4 DEF ImportsInv, Unbroken

\* What is known of the import that a step is of.
LEMMA ImportIs ==
    ASSUME ImportsInv, NEW i \in Imports
    PROVE  /\ import[i] \in ImportState /\ InHand(import[i]) /\ ShelfTyping /\ plan \in Plans
           /\ ~ overlapped => OnCourse(import[i]) /\ AllGapless
  BY DEF ImportsInv, ImportsTyping, Unbroken

LEMMA StartImportKeeps ==
    ASSUME ImportsInv, NEW i \in Imports, NEW resume \in BOOLEAN, NEW order \in plan.orders,
           StartImport(i, resume, order), plan' = plan
    PROVE  ImportsInv'
<1> DEFINE b == [pc |-> "take lock", resume |-> resume, todo |-> order, name |-> 1, limit |-> 0, chapter |-> 1,
                 found |-> FALSE, clean |-> TRUE]
<1>1. /\ ImportsTyping /\ import' = [import EXCEPT ![i] = b] /\ stored' = stored /\ blank' = blank /\ plan' = plan
      /\ recorded' = recorded /\ chapters' = chapters /\ active' = active /\ imported' = imported + 1
      /\ imported < MaxImports
      /\ overlapped' = (overlapped \/ \E j \in Imports \ {i} : ~ Does(j, "idle"))
  BY DEF ImportsInv, Turns, StartImport
<1>2. b.pc = "take lock" /\ InHand(b) /\ b \in ImportState
  <2>1. order \in Seq(Translations)
    BY <1>1, PlanTyping DEF ImportsTyping
  <2> QED
    BY <2>1, ScriptureBounds DEF InHand, ImportState, ImportSteps, BookSteps
<1> HIDE DEF b
<1>3. import'[i] = b /\ \A j \in Imports \ {i} : import'[j] = import[j]
  BY <1>1 DEF ImportsTyping
<1>4. ImportsTyping'
  <2>1. import' \in [Imports -> ImportState]
    BY <1>1, <1>2 DEF ImportsTyping
  <2>2. ASSUME NEW j \in Imports
        PROVE  InHand(import'[j])
    BY <1>1, <1>2, <1>3 DEF ImportsTyping
  <2>3. ShelfTyping'
    BY <1>1, ScriptureBounds DEF ImportsTyping, ShelfTyping
  <2> QED
    BY <1>1, <2>1, <2>2, <2>3 DEF ImportsTyping, InHand
<1>5. ASSUME ~ overlapped'
      PROVE  OneImport' /\ AllGapless' /\ \A j \in Imports : OnCourse(import[j])'
  <2>1. ~ overlapped /\ \A j \in Imports \ {i} : Does(j, "idle")
    BY <1>1, <1>5
  <2>2. AllGapless'
    BY <1>1, <2>1 DEF ImportsInv, Unbroken, AllGapless, Seen
  <2>3. OneImport'
    BY <1>3, <2>1 DEF OneImport, Does
  <2>4. \A j \in Imports : OnCourse(import[j])'
    BY <1>2, <1>3, <2>1 DEF OnCourse, Does, BookSteps
  <2> QED
    BY <2>2, <2>3, <2>4
<1> QED
  BY <1>4, <1>5 DEF ImportsInv, Unbroken

LEMMA TakeImportLockKeeps ==
    ASSUME ImportsInv, NEW i \in Imports, TakeImportLock(i), plan' = plan
    PROVE  ImportsInv'
<1> DEFINE b == [import[i] EXCEPT !.pc = "seed"]
<1>1. Turns(i, b) /\ ~ Does(i, "idle") /\ UNCHANGED <<stored, blank, overlapped, plan>>
  BY DEF TakeImportLock, GoesTo, Does
<1>2. ShelfTyping'
  BY ImportIs DEF TakeImportLock, ShelfTyping
<1>3. InHand(b) /\ b.pc = "seed"
  BY ImportIs DEF InHand, ImportState, ImportSteps, BookSteps
<1> HIDE DEF b
<1>4. OnCourse(b)
  BY <1>3 DEF OnCourse, BookSteps
<1> QED
  BY <1>1, <1>2, <1>3, <1>4, ImportGoesOn

LEMMA SeedBooksKeeps ==
    ASSUME ImportsInv, NEW i \in Imports, SeedBooks(i), plan' = plan
    PROVE  ImportsInv'
<1> DEFINE b == [import[i] EXCEPT !.pc = "next"]
<1>1. Turns(i, b) /\ ~ Does(i, "idle") /\ UNCHANGED <<stored, blank, overlapped, plan>>
  BY DEF SeedBooks, GoesTo, Does
<1>2. ShelfTyping'
  BY ImportIs, ScriptureBounds DEF SeedBooks, ShelfTyping
<1>3. InHand(b) /\ b.pc = "next"
  BY ImportIs DEF InHand, ImportState, ImportSteps, BookSteps
<1> HIDE DEF b
<1>4. OnCourse(b)
  BY <1>3 DEF OnCourse, BookSteps
<1> QED
  BY <1>1, <1>2, <1>3, <1>4, ImportGoesOn

LEMMA ImportEnds ==
    ASSUME ImportsInv, NEW i \in Imports, ~ Does(i, "idle"), Turns(i, NoImport), active' \in BOOLEAN,
           UNCHANGED <<stored, blank, recorded, chapters, imported, overlapped, plan>>
    PROVE  ImportsInv'
<1>1. ShelfTyping'
  BY ImportIs DEF ShelfTyping
<1>2. OnCourse(NoImport)
  BY NoImportType DEF OnCourse, BookSteps
<1> QED
  BY <1>1, <1>2, NoImportType, ImportGoesOn

LEMMA NextTranslationKeeps ==
    ASSUME ImportsInv, NEW i \in Imports, NextTranslation(i), plan' = plan
    PROVE  ImportsInv'
<1>1. ~ Does(i, "idle") /\ UNCHANGED <<stored, blank, recorded, chapters, imported, overlapped, plan>>
  BY DEF NextTranslation, Does
<1>2. CASE EndImport(i)
  BY <1>1, <1>2, ImportEnds DEF EndImport
<1>3. CASE /\ import[i].todo # <<>>
           /\ Turns(i, [import[i] EXCEPT !.todo = Tail(@)])
           /\ UNCHANGED active
  <2> DEFINE b == [import[i] EXCEPT !.todo = Tail(@)]
  <2>1. InHand(b) /\ b.pc = "next"
    <3>1. Tail(import[i].todo) \in Seq(Translations) /\ Does(i, "next")
      BY <1>3, ImportIs, TodoParts DEF ImportState, NextTranslation
    <3> QED
      BY <3>1, ImportIs DEF InHand, ImportState, ImportSteps, BookSteps, Does
  <2> HIDE DEF b
  <2>2. OnCourse(b)
    BY <2>1 DEF OnCourse, BookSteps
  <2>3. ShelfTyping'
    BY <1>1, <1>3, ImportIs DEF ShelfTyping
  <2>4. Turns(i, b)
    BY <1>3 DEF b
  <2> QED
    BY <1>1, <2>1, <2>2, <2>3, <2>4, ImportGoesOn
<1>4. CASE /\ import[i].todo # <<>>
           /\ Turns(i, [pc |-> "book", resume |-> import[i].resume, todo |-> import[i].todo, name |-> 1,
                        limit |-> chapters, chapter |-> import[i].chapter, found |-> import[i].found,
                        clean |-> (chapters = Last)])
           /\ UNCHANGED active
  <2> DEFINE b == [pc |-> "book", resume |-> import[i].resume, todo |-> import[i].todo, name |-> 1,
                   limit |-> chapters, chapter |-> import[i].chapter, found |-> import[i].found,
                   clean |-> (chapters = Last)]
  <2>1. PICK fresh \in BOOLEAN : fresh = (chapters = Last)
    OBVIOUS
  <2>2. InHand(b) /\ b.pc = "book" /\ b.name = 1 /\ (b.clean => b.limit = Last)
    <3>1. chapters \in 1 .. Last
      BY ImportIs DEF ShelfTyping
    <3>2. chapters \in 0 .. Last
      BY <3>1
    <3>3. b = [pc |-> "book", resume |-> import[i].resume, todo |-> import[i].todo, name |-> 1,
               limit |-> chapters, chapter |-> import[i].chapter, found |-> import[i].found, clean |-> fresh]
      BY <2>1
    <3>4. b \in ImportState
      <4>1. "book" \in ImportSteps /\ 1 \in 1 .. 2
        BY DEF ImportSteps, BookSteps
      <4> QED
        BY <2>1, <3>2, <3>3, <4>1, ImportIs, ImportFields, ImportFrom
    <3> QED
      BY <1>4, <3>4 DEF InHand
  <2> HIDE DEF b
  <2>3. OnCourse(b)
    BY <2>2 DEF OnCourse, Knows
  <2>4. ShelfTyping'
    BY <1>1, <1>4, ImportIs DEF ShelfTyping
  <2>5. Turns(i, b)
    BY <1>4 DEF b
  <2> QED
    BY <1>1, <2>2, <2>3, <2>4, <2>5, ImportGoesOn
<1> QED
  BY <1>2, <1>3, <1>4 DEF NextTranslation

LEMMA BeginBookKeeps ==
    ASSUME ImportsInv, NEW i \in Imports, BeginBook(i), plan' = plan
    PROVE  ImportsInv'
<1> DEFINE t == Under(i)
           c == import[i]
<1>1. PICK resumes \in BOOLEAN :
        /\ resumes = (c.resume /\ stored[t] # {})
        /\ Turns(i, [pc |-> IF resumes THEN "delete" ELSE "fetch", resume |-> c.resume, todo |-> c.todo,
                     name |-> c.name, limit |-> c.limit, chapter |-> IF resumes THEN FromLatest(t) ELSE 1,
                     found |-> resumes, clean |-> c.clean /\ (resumes => plan.name = 1)])
  BY DEF BeginBook
<1>2. PICK clean \in BOOLEAN : clean = (c.clean /\ (resumes => plan.name = 1))
  OBVIOUS
<1>3. PICK chapter : chapter = IF resumes THEN FromLatest(t) ELSE 1
  OBVIOUS
<1>4. PICK pc : pc = IF resumes THEN "delete" ELSE "fetch"
  OBVIOUS
<1> DEFINE b == [pc |-> pc, resume |-> c.resume, todo |-> c.todo, name |-> c.name, limit |-> c.limit,
                 chapter |-> chapter, found |-> resumes, clean |-> clean]
<1>5. /\ Turns(i, b) /\ ~ Does(i, "idle") /\ c.pc = "book"
      /\ UNCHANGED <<stored, blank, recorded, chapters, active, imported, overlapped, plan>>
  BY <1>1, <1>2, <1>3, <1>4 DEF BeginBook, Does
<1>6. c \in ImportState /\ c.todo # <<>> /\ t \in Translations /\ stored[t] \in SUBSET (1 .. Last)
  BY <1>5, ImportIs, TodoParts, ImportFields DEF InHand, BookSteps, ShelfTyping, Under
<1>7. resumes => chapter \in stored[t] /\ \A d \in stored[t] : d <= chapter
  <2> SUFFICES ASSUME resumes
               PROVE  chapter \in stored[t] /\ \A d \in stored[t] : d <= chapter
    OBVIOUS
  <2>1. stored[t] # {} /\ stored[t] \subseteq 0 .. Last
    <3>1. stored[t] # {}
      BY <1>1
    <3>2. 1 .. Last \subseteq 0 .. Last
      BY ScriptureBounds
    <3> QED
      BY <1>6, <3>1, <3>2
  <2>2. chapter = Max(stored[t])
    BY <1>3, <2>1 DEF FromLatest
  <2> QED
    BY <2>1, <2>2, MaxIsGreatest, ScriptureBounds
<1>8. chapter \in 1 .. Last + 1 /\ (~ resumes => chapter = 1)
  BY <1>3, <1>6, <1>7, ScriptureBounds
<1>9. InHand(b)
  <2>1. pc \in ImportSteps /\ pc # "save"
    BY <1>4 DEF ImportSteps, BookSteps
  <2>2. b \in ImportState
    BY <1>6, <1>8, <2>1, ImportFields, ImportFrom
  <2> QED
    BY <1>6, <2>1, <2>2 DEF InHand
<1>10. ASSUME ~ overlapped
       PROVE  OnCourse(b)
  <2>1. \A d \in stored[t] : 1 .. d \subseteq Seen(t)
    BY <1>6, <1>10, ImportIs DEF AllGapless, Gapless
  <2>2. plan.offered[t] \in 0 .. Last /\ plan.name \in 1 .. 2
    BY <1>6, ImportIs, PlanTyping
  <2>3. Knows(c, stored[t], Seen(t), plan.offered[t], plan.name)
    BY <1>5, <1>10, ImportIs DEF OnCourse, BookSteps, Under
  <2>4. resumes => 1 .. chapter \subseteq Seen(t) /\ \A d \in stored[t] : d <= chapter
    BY <1>7, <2>1
  <2>5. ~ resumes => 1 .. chapter - 1 = {}
    BY <1>8
  <2>6. b.clean = clean /\ b.limit = c.limit /\ b.name = c.name /\ b.pc = pc /\ b.chapter = chapter
        /\ b.found = resumes /\ b.todo = c.todo
    OBVIOUS
  <2> HIDE DEF b
  <2>7. /\ c.clean => c.limit = Last
        /\ c.clean /\ c.name = 2 /\ plan.name = 1 => plan.offered[t] = 0
    BY <1>5, <2>3 DEF Knows
  <2>8. clean => c.clean /\ (resumes => plan.name = 1)
    BY <1>2
  <2>9. Knows(b, stored[t], Seen(t), plan.offered[t], plan.name)
    BY <1>4, <1>8, <2>2, <2>4, <2>5, <2>6, <2>7, <2>8 DEF Knows
  <2> QED
    BY <2>6, <2>9 DEF OnCourse, Under
<1>11. ShelfTyping'
  BY <1>5, ImportIs DEF ShelfTyping
<1> HIDE DEF b
<1> QED
  BY <1>5, <1>9, <1>10, <1>11, ImportGoesOn

LEMMA FetchChapterDataKeeps ==
    ASSUME ImportsInv, NEW i \in Imports, FetchChapterData(i), plan' = plan
    PROVE  ImportsInv'
<1> DEFINE t == Under(i)
           c == import[i]
<1>1. /\ ~ Does(i, "idle") /\ c.pc = "fetch"
      /\ UNCHANGED <<stored, blank, recorded, chapters, imported, overlapped, plan>>
  BY DEF FetchChapterData, Does
<1>2. c \in ImportState /\ c.todo # <<>> /\ t \in Translations
  BY <1>1, ImportIs, TodoParts, ImportFields DEF InHand, BookSteps, Under
<1>3. plan.offered[t] \in 0 .. Last /\ plan.name \in 1 .. 2
  BY <1>2, ImportIs, PlanTyping
<1>4. ~ overlapped => Knows(c, stored[t], Seen(t), plan.offered[t], plan.name)
  BY <1>1, <1>2, ImportIs DEF OnCourse, BookSteps, Under
<1>5. CASE GoesTo(i, "end of book") /\ UNCHANGED active /\ (c.chapter > c.limit \/ ~ IsOffered(i))
  <2> DEFINE b == [c EXCEPT !.pc = "end of book"]
  <2>1. InHand(b)
    BY <1>2 DEF InHand, ImportState, ImportSteps, BookSteps
  <2>2. /\ b.pc = "end of book" /\ b.clean = c.clean /\ b.limit = c.limit /\ b.name = c.name
        /\ b.chapter = c.chapter /\ b.found = c.found /\ b.todo = c.todo
    BY <1>2 DEF ImportState
  <2> HIDE DEF b
  <2>3. ASSUME ~ overlapped
        PROVE  Knows(b, stored[t], Seen(t), plan.offered[t], plan.name)
    <3>2. /\ c.clean => c.limit = Last
          /\ 1 .. c.chapter - 1 \subseteq Seen(t)
          /\ ~ c.found => c.chapter = 1
          /\ c.clean /\ c.name = 1 /\ plan.name = 2 => ~ c.found
          /\ c.clean /\ c.name = 2 /\ plan.name = 1 => plan.offered[t] = 0
      BY <1>1, <1>4, <2>3 DEF Knows
    <3>3. c.chapter \in 1 .. Last + 1
      BY <1>2, ImportFields
    <3>5. c.clean /\ c.name = plan.name => c.chapter > plan.offered[t]
      <4> SUFFICES ASSUME c.clean, c.name = plan.name
                   PROVE  c.chapter > plan.offered[t]
        OBVIOUS
      <4>1. CASE c.chapter > c.limit
        BY <1>3, <3>2, <3>3, <4>1, ScriptureBounds
      <4>2. CASE ~ IsOffered(i)
        <5>1. ~ (c.chapter <= plan.offered[t])
          BY <4>2 DEF IsOffered
        <5> QED
          BY <1>3, <3>3, <5>1, ScriptureBounds
      <4> QED
        BY <1>5, <4>1, <4>2
    <3>6. c.clean /\ c.name = plan.name => 1 .. plan.offered[t] \subseteq Seen(t)
      BY <1>3, <3>2, <3>3, <3>5
    <3>7. c.clean /\ c.name = plan.name /\ ~ c.found => plan.offered[t] = 0
      BY <1>3, <3>2, <3>5
    <3> QED
      BY <2>2, <3>2, <3>6, <3>7 DEF Knows
  <2>4. ~ overlapped => OnCourse(b)
    BY <2>2, <2>3 DEF OnCourse, Under
  <2>5. ShelfTyping' /\ Turns(i, b)
    BY <1>1, <1>5, ImportIs DEF ShelfTyping, GoesTo, b
  <2> QED
    BY <1>1, <2>1, <2>4, <2>5, ImportGoesOn
<1>6. CASE Turns(i, [c EXCEPT !.pc = "save", !.found = TRUE]) /\ UNCHANGED active /\ c.chapter <= c.limit /\ IsOffered(i)
  <2> DEFINE b == [c EXCEPT !.pc = "save", !.found = TRUE]
  <2>1. /\ b \in ImportState /\ b.pc = "save" /\ b.clean = c.clean /\ b.limit = c.limit /\ b.name = c.name
        /\ b.chapter = c.chapter /\ b.found = TRUE /\ b.todo = c.todo
    BY <1>2 DEF ImportState, ImportSteps, BookSteps
  <2> HIDE DEF b
  <2>2. InHand(b)
    <3>1. c.limit \in 0 .. Last /\ c.chapter \in 1 .. Last + 1
      BY <1>2, ImportFields
    <3>2. c.chapter <= Last
      BY <1>6, <3>1, ScriptureBounds
    <3> QED
      BY <1>2, <2>1, <3>2 DEF InHand
  <2>3. ~ overlapped => Knows(b, stored[t], Seen(t), plan.offered[t], plan.name)
    BY <1>1, <1>4, <1>6, <2>1 DEF Knows, IsOffered
  <2>4. ~ overlapped => OnCourse(b)
    BY <2>1, <2>3 DEF OnCourse, Under
  <2>5. ShelfTyping' /\ Turns(i, b)
    BY <1>1, <1>6, ImportIs DEF ShelfTyping, b
  <2> QED
    BY <1>1, <2>2, <2>4, <2>5, ImportGoesOn
<1>7. CASE Turns(i, [c EXCEPT !.pc = "end of book", !.clean = FALSE]) /\ UNCHANGED active
  <2> DEFINE b == [c EXCEPT !.pc = "end of book", !.clean = FALSE]
  <2>1. b \in ImportState /\ b.pc = "end of book" /\ ~ b.clean /\ b.todo = c.todo
    BY <1>2 DEF ImportState, ImportSteps, BookSteps
  <2> HIDE DEF b
  <2>2. InHand(b)
    BY <1>2, <2>1 DEF InHand
  <2>3. OnCourse(b)
    BY <2>1 DEF OnCourse, Knows
  <2>4. ShelfTyping' /\ Turns(i, b)
    BY <1>1, <1>7, ImportIs DEF ShelfTyping, b
  <2> QED
    BY <1>1, <2>2, <2>3, <2>4, ImportGoesOn
<1>8. CASE EndImport(i)
  BY <1>1, <1>8, ImportEnds DEF EndImport
<1>9. c.chapter > c.limit <=> ~ (c.chapter <= c.limit)
  BY <1>2, ImportFields, ScriptureBounds
<1> QED
  BY <1>5, <1>6, <1>7, <1>8, <1>9 DEF FetchChapterData

\* A step of an import that saves, deletes or passes over a chapter of its translation.
LEMMA ShelfChanges ==
    ASSUME ImportsInv, NEW i \in Imports, import[i].pc \in BookSteps, NEW b, Turns(i, b), InHand(b),
           NEW have \in SUBSET (1 .. Last), NEW none \in SUBSET (1 .. Last), NEW t \in Translations,
           t = Under(i), b.todo = import[i].todo,
           stored' = [stored EXCEPT ![t] = have], blank' = [blank EXCEPT ![t] = none],
           UNCHANGED <<recorded, chapters, active, imported, overlapped, plan>>,
           ~ overlapped => /\ Gapless(have, have \union none, plan.offered[t])
                           /\ b.pc \in BookSteps => Knows(b, have, have \union none, plan.offered[t], plan.name)
    PROVE  ImportsInv'
<1>1. /\ ImportsTyping /\ import' = [import EXCEPT ![i] = b] /\ b \in ImportState
      /\ overlapped' = overlapped /\ plan' = plan /\ recorded' = recorded /\ chapters' = chapters
      /\ active' = active /\ imported' = imported
  BY DEF ImportsInv, Turns, InHand
<1>2. import'[i] = b /\ \A j \in Imports \ {i} : import'[j] = import[j]
  BY <1>1 DEF ImportsTyping
<1>3. /\ stored'[t] = have /\ \A s \in Translations \ {t} : stored'[s] = stored[s]
      /\ blank'[t] = none /\ \A s \in Translations \ {t} : blank'[s] = blank[s]
  BY <1>1 DEF ImportsTyping, ShelfTyping
<1>4. ImportsTyping'
  <2>1. import' \in [Imports -> ImportState]
    BY <1>1 DEF ImportsTyping
  <2>2. ASSUME NEW j \in Imports
        PROVE  InHand(import'[j])
    BY <1>1, <1>2 DEF ImportsTyping
  <2>3. ShelfTyping'
    BY <1>1 DEF ImportsTyping, ShelfTyping
  <2> QED
    BY <1>1, <2>1, <2>2, <2>3 DEF ImportsTyping, InHand
<1>5. ASSUME ~ overlapped
      PROVE  OneImport' /\ AllGapless' /\ \A j \in Imports : OnCourse(import[j])'
  <2>1. OneImport /\ AllGapless
    BY <1>5 DEF ImportsInv, Unbroken
  <2>2. \A j \in Imports \ {i} : import[j].pc = "idle"
    BY <2>1 DEF OneImport, Does, BookSteps
  <2>3. OneImport'
    BY <1>2, <2>2 DEF OneImport, Does
  <2>4. AllGapless'
    BY <1>1, <1>3, <1>5, <2>1 DEF AllGapless, Seen
  <2>5. ASSUME NEW j \in Imports
        PROVE  OnCourse(import[j])'
    <3>1. CASE j = i
      <4>1. Head(b.todo) = t
        BY DEF Under
      <4> QED
        BY <1>1, <1>2, <1>3, <1>5, <3>1, <4>1 DEF OnCourse, Seen
    <3>2. CASE j # i
      BY <1>2, <2>2, <3>2 DEF OnCourse, BookSteps
    <3> QED
      BY <3>1, <3>2
  <2> QED
    BY <2>3, <2>4, <2>5
<1> QED
  BY <1>1, <1>4, <1>5 DEF ImportsInv, Unbroken

LEMMA DeleteLatestKeeps ==
    ASSUME ImportsInv, NEW i \in Imports, DeleteLatest(i), plan' = plan
    PROVE  ImportsInv'
<1> DEFINE t == Under(i)
           c == import[i]
           have == stored[t] \ {c.chapter}
           b == [c EXCEPT !.pc = "fetch"]
<1>1. /\ c.pc = "delete" /\ stored' = [stored EXCEPT ![t] = have] /\ Turns(i, b)
      /\ blank' = blank /\ UNCHANGED <<recorded, chapters, active, imported, overlapped, plan>>
  BY DEF DeleteLatest, Does, GoesTo
<1>2. /\ c \in ImportState /\ c.todo # <<>> /\ t \in Translations /\ stored[t] \in SUBSET (1 .. Last)
      /\ blank \in [Translations -> SUBSET (1 .. Last)]
  BY <1>1, ImportIs, TodoParts, ImportFields DEF InHand, BookSteps, Under, ShelfTyping
<1>3. /\ b \in ImportState /\ b.pc = "fetch" /\ b.clean = c.clean /\ b.limit = c.limit /\ b.name = c.name
      /\ b.chapter = c.chapter /\ b.found = c.found /\ b.todo = c.todo
  BY <1>2 DEF ImportState, ImportSteps, BookSteps
<1>4. plan.offered[t] \in 0 .. Last /\ c.chapter \in 1 .. Last + 1
  BY <1>2, ImportIs, PlanTyping, ImportFields
<1> HIDE DEF b
<1>5. ASSUME ~ overlapped
      PROVE  /\ Gapless(have, have \union blank[t], plan.offered[t])
             /\ Knows(b, have, have \union blank[t], plan.offered[t], plan.name)
  <2>1. Knows(c, stored[t], Seen(t), plan.offered[t], plan.name)
    BY <1>1, <1>5, ImportIs DEF OnCourse, BookSteps, Under
  <2>2. \A d \in stored[t] : d <= plan.offered[t] /\ 1 .. d \subseteq Seen(t)
    BY <1>2, <1>5, ImportIs DEF AllGapless, Gapless
  <2>3. 1 .. c.chapter \subseteq Seen(t) /\ c.found /\ \A d \in stored[t] : d <= c.chapter
    BY <1>1, <2>1 DEF Knows
  <2>4. \A d \in Seen(t) : d # c.chapter => d \in have \union blank[t]
    BY DEF Seen
  <2>5. 1 .. c.chapter - 1 \subseteq have \union blank[t]
    BY <1>4, <2>3, <2>4
  <2>6. ASSUME NEW d \in have
        PROVE  d <= plan.offered[t] /\ 1 .. d \subseteq have \union blank[t]
    <3>1. d \in stored[t] /\ d # c.chapter /\ d \in 1 .. Last
      BY <1>2
    <3>2. d <= c.chapter /\ d <= plan.offered[t] /\ 1 .. d \subseteq Seen(t)
      BY <2>2, <2>3, <3>1
    <3>3. c.chapter \notin 1 .. d
      BY <1>4, <3>1, <3>2
    <3> QED
      BY <2>4, <3>2, <3>3
  <2>7. /\ c.clean => c.limit = Last
        /\ c.clean /\ c.name = 1 /\ plan.name = 2 => ~ c.found
        /\ c.clean /\ c.name = 2 /\ plan.name = 1 => plan.offered[t] = 0
    BY <1>1, <2>1 DEF Knows
  <2> HIDE DEF have
  <2>8. Knows(b, have, have \union blank[t], plan.offered[t], plan.name)
    BY <1>3, <2>3, <2>5, <2>7 DEF Knows
  <2> QED
    BY <2>6, <2>8 DEF Gapless
<1>6. InHand(b) /\ have \in SUBSET (1 .. Last) /\ blank[t] \in SUBSET (1 .. Last)
  BY <1>2, <1>3 DEF InHand
<1>7. c.pc \in BookSteps
  BY <1>1 DEF BookSteps
<1>8. blank' = [blank EXCEPT ![t] = blank[t]]
  BY <1>1, <1>2
<1> HIDE DEF have
<1> QED
  BY <1>1, <1>2, <1>3, <1>5, <1>6, <1>7, <1>8, ShelfChanges

LEMMA PassOverKeeps ==
    ASSUME ImportsInv, NEW i \in Imports, PassOver(i), plan' = plan
    PROVE  ImportsInv'
<1> DEFINE t == Under(i)
           c == import[i]
           none == blank[t] \union {c.chapter}
<1>1. PICK clean \in BOOLEAN : clean = (c.clean /\ IsOffered(i))
  OBVIOUS
<1> DEFINE b == [c EXCEPT !.chapter = @ + 1, !.found = TRUE, !.clean = clean]
<1>2. /\ c.pc = "fetch" /\ blank' = [blank EXCEPT ![t] = none] /\ Turns(i, b) /\ c.chapter <= c.limit
      /\ stored' = stored /\ UNCHANGED <<recorded, chapters, active, imported, overlapped, plan>>
  BY <1>1 DEF PassOver, Does
<1>3. /\ c \in ImportState /\ c.todo # <<>> /\ t \in Translations /\ blank[t] \in SUBSET (1 .. Last)
      /\ stored \in [Translations -> SUBSET (1 .. Last)]
  BY <1>2, ImportIs, TodoParts, ImportFields DEF InHand, BookSteps, Under, ShelfTyping
<1>4. plan.offered[t] \in 0 .. Last /\ c.chapter \in 1 .. Last + 1 /\ c.limit \in 0 .. Last
  BY <1>3, ImportIs, PlanTyping, ImportFields
<1>5. c.chapter + 1 \in 1 .. Last + 1 /\ c.chapter \in 1 .. Last
  BY <1>2, <1>4, ScriptureBounds
<1>6. /\ b \in ImportState /\ b.pc = "fetch" /\ b.clean = clean /\ b.limit = c.limit /\ b.name = c.name
      /\ b.chapter = c.chapter + 1 /\ b.found = TRUE /\ b.todo = c.todo
  BY <1>2, <1>3, <1>5 DEF ImportState
<1> HIDE DEF b
<1>7. ASSUME ~ overlapped
      PROVE  /\ Gapless(stored[t], stored[t] \union none, plan.offered[t])
             /\ Knows(b, stored[t], stored[t] \union none, plan.offered[t], plan.name)
  <2>1. Knows(c, stored[t], Seen(t), plan.offered[t], plan.name)
    BY <1>2, <1>7, ImportIs DEF OnCourse, BookSteps, Under
  <2>2. Gapless(stored[t], stored[t] \union none, plan.offered[t])
    BY <1>3, <1>7, ImportIs DEF AllGapless, Gapless, Seen
  <2>3. 1 .. c.chapter - 1 \subseteq Seen(t) /\ (c.clean => c.limit = Last)
    BY <1>2, <2>1 DEF Knows
  <2>4. 1 .. b.chapter - 1 \subseteq stored[t] \union none
    BY <1>4, <1>6, <2>3 DEF Seen
  <2>5. b.clean => c.clean /\ b.name = plan.name
    BY <1>1, <1>6 DEF IsOffered
  <2> HIDE DEF none
  <2>6. Knows(b, stored[t], stored[t] \union none, plan.offered[t], plan.name)
    BY <1>6, <2>3, <2>4, <2>5 DEF Knows
  <2> QED
    BY <2>2, <2>6
<1>8. InHand(b) /\ none \in SUBSET (1 .. Last) /\ stored[t] \in SUBSET (1 .. Last)
  BY <1>3, <1>5, <1>6 DEF InHand
<1>9. c.pc \in BookSteps
  BY <1>2 DEF BookSteps
<1>10. stored' = [stored EXCEPT ![t] = stored[t]]
  BY <1>2, <1>3
<1> HIDE DEF none
<1> QED
  BY <1>2, <1>3, <1>6, <1>7, <1>8, <1>9, <1>10, ShelfChanges

LEMMA SaveVersesBulkKeeps ==
    ASSUME ImportsInv, NEW i \in Imports, SaveVersesBulk(i), plan' = plan
    PROVE  ImportsInv'
<1> DEFINE t == Under(i)
           c == import[i]
           have == stored[t] \union {c.chapter}
           none == blank[t] \ {c.chapter}
           b == [c EXCEPT !.pc = "fetch", !.chapter = @ + 1]
<1>1. /\ c.pc = "save" /\ stored' = [stored EXCEPT ![t] = have] /\ Turns(i, b)
      /\ blank' = [blank EXCEPT ![t] = none]
      /\ UNCHANGED <<recorded, chapters, active, imported, overlapped, plan>>
  BY DEF SaveVersesBulk, Does
<1>2. /\ c \in ImportState /\ c.todo # <<>> /\ t \in Translations /\ stored[t] \in SUBSET (1 .. Last) /\ c.chapter <= Last
      /\ blank[t] \in SUBSET (1 .. Last)
  BY <1>1, ImportIs, TodoParts, ImportFields DEF InHand, BookSteps, Under, ShelfTyping
<1>3. plan.offered[t] \in 0 .. Last /\ c.chapter \in 1 .. Last + 1
  BY <1>2, ImportIs, PlanTyping, ImportFields
<1>4. c.chapter + 1 \in 1 .. Last + 1 /\ c.chapter \in 1 .. Last
  BY <1>2, <1>3, ScriptureBounds
<1>5. /\ b \in ImportState /\ b.pc = "fetch" /\ b.clean = c.clean /\ b.limit = c.limit /\ b.name = c.name
      /\ b.chapter = c.chapter + 1 /\ b.found = c.found /\ b.todo = c.todo
  BY <1>2, <1>4 DEF ImportState, ImportSteps, BookSteps
<1> HIDE DEF b
<1>6. ASSUME ~ overlapped
      PROVE  /\ Gapless(have, have \union none, plan.offered[t])
             /\ Knows(b, have, have \union none, plan.offered[t], plan.name)
  <2>1. Knows(c, stored[t], Seen(t), plan.offered[t], plan.name)
    BY <1>1, <1>6, ImportIs DEF OnCourse, BookSteps, Under
  <2>2. \A d \in stored[t] : d <= plan.offered[t] /\ 1 .. d \subseteq Seen(t)
    BY <1>2, <1>6, ImportIs DEF AllGapless, Gapless
  <2>3. /\ 1 .. c.chapter - 1 \subseteq Seen(t) /\ c.chapter <= plan.offered[t] /\ c.name = plan.name /\ c.found
        /\ c.clean => c.limit = Last
    BY <1>1, <2>1 DEF Knows
  <2>4. have \union none = Seen(t) \union {c.chapter}
    BY DEF Seen
  <2>5. 1 .. c.chapter \subseteq have \union none
    BY <1>3, <2>3, <2>4
  <2>6. \A d \in have : d <= plan.offered[t] /\ 1 .. d \subseteq have \union none
    BY <2>2, <2>3, <2>4, <2>5
  <2>7. 1 .. b.chapter - 1 \subseteq have \union none
    BY <1>3, <1>5, <2>5
  <2>8. b.clean /\ b.name = 1 /\ plan.name = 2 => ~ b.found
    BY <1>5, <2>3
  <2>9. b.clean /\ b.name = 2 /\ plan.name = 1 => plan.offered[t] = 0
    BY <1>5, <2>3
  <2> HIDE DEF have, none
  <2>10. Knows(b, have, have \union none, plan.offered[t], plan.name)
    BY <1>5, <2>3, <2>7, <2>8, <2>9 DEF Knows
  <2> QED
    BY <2>6, <2>10 DEF Gapless
<1>7. InHand(b) /\ have \in SUBSET (1 .. Last) /\ none \in SUBSET (1 .. Last)
  BY <1>2, <1>4, <1>5 DEF InHand
<1>8. c.pc \in BookSteps
  BY <1>1 DEF BookSteps
<1> HIDE DEF have, none
<1> QED
  BY <1>1, <1>2, <1>5, <1>6, <1>7, <1>8, ShelfChanges

LEMMA EndOfBookKeeps ==
    ASSUME ImportsInv, NEW i \in Imports, EndOfBook(i), plan' = plan
    PROVE  ImportsInv'
<1> DEFINE t == Under(i)
           c == import[i]
<1>1. /\ ~ Does(i, "idle") /\ c.pc = "end of book" /\ UNCHANGED <<stored, blank, overlapped, plan>>
      /\ recorded' = recorded /\ active' = active /\ imported' = imported
      /\ chapters' = IF c.chapter > 1 THEN c.chapter - 1 ELSE chapters
  BY DEF EndOfBook, Does
<1>2. c \in ImportState /\ c.todo # <<>> /\ t \in Translations
  BY <1>1, ImportIs, TodoParts, ImportFields DEF InHand, BookSteps, Under
<1>3. plan.offered[t] \in 0 .. Last /\ plan.name \in 1 .. 2 /\ c.chapter \in 1 .. Last + 1 /\ c.name \in 1 .. 2
  BY <1>2, ImportIs, PlanTyping, ImportFields
<1>4. ~ overlapped => Knows(c, stored[t], Seen(t), plan.offered[t], plan.name)
  BY <1>1, <1>2, ImportIs DEF OnCourse, BookSteps, Under
<1>5. ShelfTyping'
  <2>1. chapters' \in 1 .. Last
    <3>1. chapters \in 1 .. Last
      BY ImportIs DEF ShelfTyping
    <3>2. c.chapter > 1 => c.chapter - 1 \in 1 .. Last
      BY <1>3, ScriptureBounds
    <3> QED
      BY <1>1, <3>1, <3>2
  <2> QED
    BY <1>1, <2>1, ImportIs DEF ShelfTyping
<1>6. ~ overlapped => /\ c.clean => c.limit = Last
                      /\ c.clean /\ c.name = 1 /\ plan.name = 2 => ~ c.found
                      /\ c.clean /\ c.name = 2 /\ plan.name = 1 => plan.offered[t] = 0
                      /\ c.clean /\ c.name = plan.name => 1 .. plan.offered[t] \subseteq Seen(t)
                      /\ c.clean /\ c.name = plan.name /\ c.name = 1 /\ ~ c.found => plan.offered[t] = 0
  BY <1>1, <1>4 DEF Knows
<1>7. CASE ~ c.found /\ c.name = 1 /\ Turns(i, [c EXCEPT !.pc = "book", !.name = 2])
  <2> DEFINE b == [c EXCEPT !.pc = "book", !.name = 2]
  <2>1. /\ b \in ImportState /\ b.pc = "book" /\ b.clean = c.clean /\ b.limit = c.limit /\ b.name = 2
        /\ b.todo = c.todo
    <3>1. b.name = 2 /\ b.pc = "book" /\ b = [[c EXCEPT !.pc = "book"] EXCEPT !.name = 2] /\ 2 \in 1 .. 2
      BY <1>2 DEF ImportState
    <3>2. [c EXCEPT !.pc = "book"] \in ImportState
      BY <1>2 DEF ImportState, ImportSteps, BookSteps
    <3> QED
      BY <1>2, <3>1, <3>2 DEF ImportState
  <2>2. Turns(i, b)
    BY <1>7
  <2> HIDE DEF b
  <2>3. InHand(b)
    BY <1>2, <2>1 DEF InHand
  <2>4. ~ overlapped => Knows(b, stored[t], Seen(t), plan.offered[t], plan.name)
    BY <1>6, <1>7, <2>1 DEF Knows
  <2>5. ~ overlapped => OnCourse(b)
    BY <2>1, <2>4 DEF OnCourse, Under
  <2> QED
    BY <1>1, <1>5, <2>2, <2>3, <2>5, ImportGoesOn
<1>8. CASE (c.found \/ c.name # 1) /\ GoesTo(i, "record")
  <2> DEFINE b == [c EXCEPT !.pc = "record"]
  <2>1. /\ b \in ImportState /\ b.pc = "record" /\ b.clean = c.clean /\ b.limit = c.limit /\ b.todo = c.todo
    BY <1>2 DEF ImportState, ImportSteps, BookSteps
  <2>2. Turns(i, b)
    BY <1>8 DEF GoesTo
  <2> HIDE DEF b
  <2>3. InHand(b)
    BY <1>2, <2>1 DEF InHand
  <2>4. ~ overlapped /\ c.clean => 1 .. plan.offered[t] \subseteq Seen(t)
    <3> SUFFICES ASSUME ~ overlapped, c.clean
                 PROVE  1 .. plan.offered[t] \subseteq Seen(t)
      OBVIOUS
    <3>1. CASE c.name = plan.name
      BY <1>6, <3>1
    <3>2. CASE c.name = 2 /\ plan.name = 1
      <4>1. plan.offered[t] = 0
        BY <1>6, <3>2
      <4> QED
        BY <4>1
    <3>3. ~ (c.name = 1 /\ plan.name = 2)
      BY <1>6, <1>8
    <3> QED
      BY <1>3, <3>1, <3>2, <3>3
  <2>5. ~ overlapped => Knows(b, stored[t], Seen(t), plan.offered[t], plan.name)
    BY <1>6, <2>1, <2>4 DEF Knows
  <2>6. ~ overlapped => OnCourse(b)
    BY <2>1, <2>5 DEF OnCourse, Under
  <2> QED
    BY <1>1, <1>5, <2>2, <2>3, <2>6, ImportGoesOn
<1> QED
  BY <1>7, <1>8 DEF EndOfBook

LEMMA UpdateTranslationMetadataKeeps ==
    ASSUME ImportsInv, NEW i \in Imports, UpdateTranslationMetadata(i), plan' = plan
    PROVE  ImportsInv'
<1> DEFINE t == Under(i)
           b == [import[i] EXCEPT !.pc = "next", !.todo = Tail(@)]
<1>1. /\ ~ Does(i, "idle") /\ Does(i, "record") /\ Turns(i, b) /\ UNCHANGED <<stored, blank, overlapped, plan>>
      /\ chapters' = chapters /\ active' = active /\ imported' = imported
      /\ recorded' = [recorded EXCEPT ![t] = Cardinality(stored[t])]
  BY DEF UpdateTranslationMetadata, Does
<1>2. import[i] \in ImportState /\ t \in Translations /\ Tail(import[i].todo) \in Seq(Translations)
  BY <1>1, ImportIs, TodoParts, ImportFields DEF InHand, BookSteps, Under, Does
<1>3. b \in ImportState /\ b.pc = "next"
  BY <1>2 DEF ImportState, ImportSteps, BookSteps
<1> HIDE DEF b
<1>4. InHand(b) /\ OnCourse(b)
  BY <1>3 DEF InHand, OnCourse, BookSteps
<1>5. ShelfTyping'
  <2>1. stored[t] \subseteq 1 .. Last
    BY <1>2, ImportIs DEF ShelfTyping
  <2>2. IsFiniteSet(1 .. Last) /\ Cardinality(1 .. Last) = Last
    BY FS_Interval, ScriptureBounds
  <2>3. Cardinality(stored[t]) \in Nat /\ Cardinality(stored[t]) <= Last
    BY <2>1, <2>2, FS_Subset, FS_CardinalityType
  <2>4. Cardinality(stored[t]) \in 0 .. Last
    BY <2>3, ScriptureBounds
  <2> QED
    BY <1>1, <1>2, <2>4, ImportIs DEF ShelfTyping
<1> QED
  BY <1>1, <1>4, <1>5, ImportGoesOn

LEMMA ImportingKeeps == ImportsInv /\ Importing /\ plan' = plan => ImportsInv'
<1> SUFFICES ASSUME ImportsInv, Importing, plan' = plan
             PROVE  ImportsInv'
  OBVIOUS
<1>1. ASSUME NEW i \in plan.imports, ImportStep(i)
      PROVE  ImportsInv'
  <2>1. i \in Imports
    BY PlanTyping DEF ImportsInv, ImportsTyping
  <2>2. CASE \E resume \in BOOLEAN, order \in plan.orders : StartImport(i, resume, order)
    BY <2>1, <2>2, StartImportKeeps
  <2>3. CASE TakeImportLock(i) \/ SeedBooks(i) \/ NextTranslation(i) \/ BeginBook(i)
    BY <2>1, <2>3, TakeImportLockKeeps, SeedBooksKeeps, NextTranslationKeeps, BeginBookKeeps
  <2>4. CASE DeleteLatest(i) \/ FetchChapterData(i) \/ PassOver(i) \/ SaveVersesBulk(i) \/ EndOfBook(i) \/ UpdateTranslationMetadata(i)
    BY <2>1, <2>4, DeleteLatestKeeps, FetchChapterDataKeeps, PassOverKeeps, SaveVersesBulkKeeps, EndOfBookKeeps,
       UpdateTranslationMetadataKeeps
  <2>5. CASE ImportDies(i)
    <3>1. ~ Does(i, "idle") /\ Turns(i, NoImport) /\ UNCHANGED <<stored, blank, recorded, chapters, imported, overlapped, plan>>
      BY <2>5 DEF ImportDies
    <3>2. active' \in BOOLEAN
      BY <2>5 DEF ImportDies, ImportsInv, ImportsTyping, ShelfTyping
    <3> QED
      BY <2>1, <3>1, <3>2, ImportEnds
  <2> QED
    BY <1>1, <2>2, <2>3, <2>4, <2>5 DEF ImportStep
<1>2. CASE ImportLockExpires
  BY <1>2 DEF ImportLockExpires, ImportsInv, ImportsTyping, ShelfTyping, Unbroken, OneImport, AllGapless, Seen,
     OnCourse, Does
<1> QED
  BY <1>1, <1>2 DEF Importing

-----------------------------------------------------------------------------
(* Readers: who fetches in its turn holds the lock of the text.            *)

LEMMA ReaderGoesOn ==
    ASSUME ReadingTyping, NEW r \in Readers, NEW b \in ReaderState, reader' = [reader EXCEPT ![r] = b]
    PROVE  /\ reader' \in [Readers -> ReaderState] /\ reader'[r] = b
           /\ \A q \in Readers \ {r} : reader'[q] = reader[q]
  BY DEF ReadingTyping

LEMMA ReaderTypes ==
    ASSUME ReadingTyping, NEW r \in Readers,
           NEW pc \in {"idle", "lock", "wait", "fetch", "release", "release and fill", "fill"}
    PROVE  /\ [reader[r] EXCEPT !.pc = pc] \in ReaderState /\ NoReader \in ReaderState
           /\ [reader[r] EXCEPT !.pc = pc].pc = pc /\ [reader[r] EXCEPT !.pc = pc].acquired = reader[r].acquired
  BY DEF ReadingTyping, ReaderState, NoReader

\* A reader that goes on without touching the lock is not to fetch, unless it does already.
LEMMA ReaderKeepsLock ==
    ASSUME ReadersInv, NEW r \in Readers, NEW b \in ReaderState, reader' = [reader EXCEPT ![r] = b],
           b.pc \in {"fetch", "release", "release and fill"} =>
              /\ ReaderAt(r, "fetch") /\ b.acquired = reader[r].acquired
              \/ crowded',
           lock' = lock, crowded => crowded', crowded' \in BOOLEAN, cached' \in BOOLEAN, plan' = plan
    PROVE  ReadersInv'
<1>1. /\ reader' \in [Readers -> ReaderState] /\ reader'[r] = b
      /\ \A q \in Readers \ {r} : reader'[q] = reader[q]
  BY ReaderGoesOn DEF ReadersInv
<1>2. ReadingTyping' /\ plan' \in Plans
  BY <1>1 DEF ReadersInv, ReadingTyping
<1>3. InTurns'
  BY <1>1 DEF ReadersInv, InTurns, ReaderAt
<1> QED
  BY <1>2, <1>3 DEF ReadersInv

LEMMA TakeLockKeeps ==
    ASSUME ReadersInv, NEW r \in Readers, TakeLock(r), plan' = plan
    PROVE  ReadersInv'
<1>1. ReaderAt(r, "lock") /\ cached' = cached /\ crowded' = crowded /\ ReadingTyping /\ crowded \in BOOLEAN
      /\ cached \in BOOLEAN
  BY DEF TakeLock, ReadersInv, ReadingTyping
<1>2. CASE lock = {} /\ reader' = [reader EXCEPT ![r] = [pc |-> "fetch", acquired |-> TRUE]] /\ lock' = {r}
  <2> DEFINE b == [pc |-> "fetch", acquired |-> TRUE]
  <2>1. b \in ReaderState /\ b.pc = "fetch" /\ b.acquired
    BY DEF ReaderState
  <2>2. reader' = [reader EXCEPT ![r] = b]
    BY <1>2
  <2> HIDE DEF b
  <2>3. /\ reader' \in [Readers -> ReaderState] /\ reader'[r] = b
        /\ \A q \in Readers \ {r} : reader'[q] = reader[q]
    BY <1>1, <2>1, <2>2, ReaderGoesOn
  <2>4. ReadingTyping' /\ plan' \in Plans
    BY <1>1, <1>2, <2>3 DEF ReadersInv, ReadingTyping
  <2>5. ASSUME ~ crowded, NEW q \in Readers \ {r}
        PROVE  reader[q].pc \notin {"fetch", "release", "release and fill"}
    BY <1>2, <2>5 DEF ReadersInv, InTurns
  <2>6. InTurns'
    BY <1>1, <1>2, <2>1, <2>3, <2>5 DEF InTurns
  <2> QED
    BY <2>4, <2>6 DEF ReadersInv
<1>3. CASE ReadsOn(r, "wait") /\ lock' = lock
  BY <1>1, <1>3, ReaderTypes, ReaderKeepsLock DEF ReadsOn
<1> QED
  BY <1>2, <1>3 DEF TakeLock

LEMMA ReleaseLockKeeps ==
    ASSUME ReadersInv, NEW r \in Readers, ReleaseLock(r), plan' = plan
    PROVE  ReadersInv'
<1>1. /\ reader[r].pc \in {"release", "release and fill"} /\ lock' = {} /\ cached' = cached
      /\ crowded' = crowded /\ ReadingTyping
  BY DEF ReleaseLock, ReaderAt, ReadersInv
<1>2. PICK b \in ReaderState : reader' = [reader EXCEPT ![r] = b] /\ b.pc \in {"idle", "fill"}
  <2>1. NoReader.pc = "idle"
    BY DEF NoReader
  <2> QED
    BY <1>1, <2>1, ReaderTypes DEF ReleaseLock, Returns, ReadsOn
<1>3. /\ reader' \in [Readers -> ReaderState] /\ reader'[r] = b
      /\ \A q \in Readers \ {r} : reader'[q] = reader[q]
  BY <1>1, <1>2, ReaderGoesOn
<1>4. ReadingTyping' /\ plan' \in Plans
  BY <1>1, <1>3 DEF ReadersInv, ReadingTyping
<1>5. ASSUME ~ crowded, NEW q \in Readers \ {r}
      PROVE  reader[q].pc \notin {"fetch", "release", "release and fill"}
  <2>1. lock = {r}
    BY <1>1, <1>5 DEF ReadersInv, InTurns
  <2> QED
    BY <1>5, <2>1 DEF ReadersInv, InTurns
<1>6. InTurns'
  BY <1>1, <1>2, <1>3, <1>5 DEF InTurns
<1> QED
  BY <1>4, <1>6 DEF ReadersInv

LEMMA FetchKeeps ==
    ASSUME ReadersInv, NEW r \in Readers, Fetch(r), plan' = plan
    PROVE  ReadersInv'
<1>1. /\ ReaderAt(r, "fetch") /\ ReadingTyping /\ crowded' = crowded /\ lock' = lock /\ crowded \in BOOLEAN
      /\ cached' \in BOOLEAN
  BY DEF Fetch, ReadersInv, ReadingTyping
<1>2. PICK b \in ReaderState : /\ reader' = [reader EXCEPT ![r] = b]
                               /\ b.pc \in {"release", "release and fill"} => b.acquired = reader[r].acquired
                               /\ b.pc \in {"idle", "fill", "release", "release and fill"}
  <2>1. NoReader.pc = "idle"
    BY DEF NoReader
  <2>2. \E got \in BOOLEAN : Onwards(r, got)
    BY DEF Fetch
  <2> QED
    BY <1>1, <2>1, <2>2, ReaderTypes DEF Onwards, Returns, ReadsOn
<1> QED
  BY <1>1, <1>2, ReaderKeepsLock

LEMMA ReadingKeeps == ReadersInv /\ Reading /\ plan' = plan => ReadersInv'
<1> SUFFICES ASSUME ReadersInv, Reading, plan' = plan
             PROVE  ReadersInv'
  OBVIOUS
<1>1. ReadingTyping /\ crowded \in BOOLEAN /\ cached \in BOOLEAN /\ NoReader.pc = "idle"
  BY DEF ReadersInv, ReadingTyping, NoReader
<1>2. ASSUME NEW r \in plan.readers,
             \/ LookInCache(r) \/ TakeLock(r) \/ Wait(r) \/ Fetch(r) \/ ReleaseLock(r) \/ FillCache(r) \/ ReaderDies(r)
      PROVE  ReadersInv'
  <2>1. r \in Readers
    BY PlanTyping DEF ReadersInv
  <2>2. CASE LookInCache(r)
    BY <1>1, <2>1, <2>2, ReaderTypes, ReaderKeepsLock DEF LookInCache, ReadsOn
  <2>3. CASE Wait(r)
    <3>1. CASE Returns(r) /\ crowded' = crowded
      BY <1>1, <2>1, <2>3, <3>1, ReaderTypes, ReaderKeepsLock DEF Wait, Returns
    <3>2. CASE ReadsOn(r, "fetch") /\ crowded' = TRUE
      BY <1>1, <2>1, <2>3, <3>2, ReaderTypes, ReaderKeepsLock DEF Wait, ReadsOn
    <3> QED
      BY <2>3, <3>1, <3>2 DEF Wait
  <2>4. CASE FillCache(r) \/ ReaderDies(r)
    <3>1. Returns(r) /\ cached' \in BOOLEAN /\ lock' = lock /\ crowded' = crowded
      BY <1>1, <2>4 DEF FillCache, ReaderDies
    <3> QED
      BY <1>1, <2>1, <3>1, ReaderTypes, ReaderKeepsLock DEF Returns
  <2> QED
    BY <1>2, <2>1, <2>2, <2>3, <2>4, TakeLockKeeps, FetchKeeps, ReleaseLockKeeps
<1>3. CASE TextExpires
  BY <1>3 DEF TextExpires, ReadersInv, ReadingTyping, InTurns
<1>4. CASE LockExpires
  <2>1. /\ lock' = {} /\ reader' = reader /\ cached' = cached
        /\ crowded' = (crowded \/ \E r \in Readers : reader[r].acquired)
    BY <1>4 DEF LockExpires
  <2>2. crowded' \in BOOLEAN
    BY <1>1, <2>1
  <2>3. ReadingTyping' /\ plan' \in Plans
    BY <2>1, <2>2 DEF ReadersInv, ReadingTyping
  <2>4. InTurns'
    BY <2>1 DEF ReadersInv, InTurns
  <2> QED
    BY <2>3, <2>4 DEF ReadersInv
<1> QED
  BY <1>2, <1>3, <1>4 DEF Reading

-----------------------------------------------------------------------------
(* The invariant.                                                          *)

LEMMA ScriptureInitHolds == ScriptureInit => ScriptureInv
<1> SUFFICES ASSUME ScriptureInit
             PROVE  ScriptureInv
  OBVIOUS
<1>1. plan \in Plans /\ stored = [t \in Translations |-> {}] /\ blank = stored /\ import = [i \in Imports |-> NoImport]
      /\ reader = [r \in Readers |-> NoReader]
  BY DEF ScriptureInit, NoReader
<1>2. ShelfTyping
  <2>1. /\ recorded = [t \in Translations |-> 0] /\ chapters = Last /\ active = FALSE /\ imported = 0
        /\ overlapped = FALSE
    BY DEF ScriptureInit
  <2>2. 0 \in 0 .. Last /\ 0 \in 0 .. MaxImports /\ Last \in 1 .. Last
    BY ScriptureBounds
  <2> QED
    BY <1>1, <2>1, <2>2 DEF ShelfTyping
<1>3. ImportsTyping
  BY <1>1, <1>2, NoImportType DEF ImportsTyping
<1>4. Unbroken
  <2>1. OneImport /\ \A i \in Imports : OnCourse(import[i])
    BY <1>1, NoImportType DEF OneImport, Does, OnCourse, BookSteps
  <2>2. AllGapless
    BY <1>1 DEF AllGapless, Gapless
  <2> QED
    BY <2>1, <2>2 DEF Unbroken
<1>5. ReadersInv
  <2>1. cached = FALSE /\ lock = {} /\ crowded = FALSE
    BY DEF ScriptureInit
  <2>2. NoReader \in ReaderState /\ NoReader.pc = "idle"
    BY DEF NoReader, ReaderState
  <2>3. ReadingTyping
    BY <1>1, <2>1, <2>2 DEF ReadingTyping
  <2>4. InTurns
    BY <1>1, <2>2 DEF InTurns
  <2> QED
    BY <1>1, <2>3, <2>4 DEF ReadersInv
<1> QED
  BY <1>3, <1>4, <1>5 DEF ScriptureInv, ImportsInv

LEMMA ScriptureNextKeeps == ScriptureInv /\ [ScriptureNext]_scriptureVars => ScriptureInv'
<1> SUFFICES ASSUME ScriptureInv, [ScriptureNext]_scriptureVars
             PROVE  ScriptureInv'
  OBVIOUS
<1>1. ASSUME UNCHANGED importVars, plan' = plan
      PROVE  ImportsInv'
  BY <1>1 DEF ScriptureInv, ImportsInv, ImportsTyping, ShelfTyping, Unbroken, OneImport, AllGapless, Seen, OnCourse,
     Does, importVars
<1>2. ASSUME UNCHANGED readerVars, plan' = plan
      PROVE  ReadersInv'
  BY <1>2 DEF ScriptureInv, ReadersInv, ReadingTyping, InTurns, readerVars
<1>3. CASE UNCHANGED scriptureVars
  BY <1>1, <1>2, <1>3 DEF ScriptureInv, scriptureVars, importVars, readerVars
<1>4. CASE Importing /\ UNCHANGED readerVars /\ UNCHANGED plan
  BY <1>2, <1>4, ImportingKeeps DEF ScriptureInv
<1>5. CASE Reading /\ UNCHANGED importVars /\ UNCHANGED plan
  BY <1>1, <1>5, ReadingKeeps DEF ScriptureInv
<1> QED
  BY <1>3, <1>4, <1>5 DEF ScriptureNext

LEMMA ScriptureAlwaysHolds == ScriptureSpec => []ScriptureInv
  BY ScriptureInitHolds, ScriptureNextKeeps, PTL DEF ScriptureSpec

\* The chapters that are there, the imports and the readers have their type, whatever the
\* servers offer and however many imports and readers there are (importer.py, services.py).
THEOREM ScriptureTypeCorrect == ScriptureSpec => []ScriptureTypeOK
<1>1. ScriptureInv => ScriptureTypeOK
  BY DEF ScriptureInv, ImportsInv, ImportsTyping, ShelfTyping, ReadersInv, ReadingTyping, ScriptureTypeOK,
     ImportState, ImportSteps, BookSteps, ReaderState
<1> QED
  BY <1>1, ScriptureAlwaysHolds, PTL

\* Wherever imports fail, are cut off and go on again, unless they overlap: the chapters of a
\* translation leave no gap but for those that had no verses when they were asked for, and an
\* import that ends a book without a failure has all that are offered but for these; and readers of a text fetch it in turns while none loses patience or the lock
\* (import_bible, "Resume gracefully"; fetch_chapter, "avoid dogpiling").
THEOREM TextsStayWhole == ScriptureSpec => []TextsAreWhole
<1>1. ScriptureInv => TextsAreWhole
  <2> SUFFICES ASSUME ScriptureInv
               PROVE  TextsAreWhole
    OBVIOUS
  <2>1. ImportsAreWhole
    <3> SUFFICES ASSUME ~ overlapped
                 PROVE  /\ \A t \in Translations : \A c \in stored[t] :
                            c <= plan.offered[t] /\ 1 .. c \subseteq stored[t] \union blank[t]
                        /\ \A i \in Imports : Does(i, "record") /\ import[i].clean =>
                            1 .. plan.offered[Under(i)] \subseteq stored[Under(i)] \union blank[Under(i)]
      BY DEF ImportsAreWhole
    <3>1. AllGapless /\ \A i \in Imports : OnCourse(import[i])
      BY DEF ScriptureInv, ImportsInv, Unbroken
    <3>2. ASSUME NEW i \in Imports, Does(i, "record"), import[i].clean
          PROVE  1 .. plan.offered[Under(i)] \subseteq Seen(Under(i))
      BY <3>1, <3>2 DEF OnCourse, Knows, Does, Under, BookSteps
    <3> QED
      BY <3>1, <3>2 DEF AllGapless, Gapless, Seen
  <2>2. FetchesTakeTurns
    <3> SUFFICES ASSUME ~ crowded
                 PROVE  Cardinality({r \in Readers : ReaderAt(r, "fetch")}) <= 1
      BY DEF FetchesTakeTurns
    <3>1. \A r \in Readers : ReaderAt(r, "fetch") => lock = {r}
      BY DEF ScriptureInv, ReadersInv, InTurns, ReaderAt
    <3>2. \A q, r \in {s \in Readers : ReaderAt(s, "fetch")} : q = r
      BY <3>1
    <3> QED
      BY <3>2, AtMostOne
  <2> QED
    BY <2>1, <2>2 DEF TextsAreWhole
<1> QED
  BY <1>1, ScriptureAlwaysHolds, PTL

-----------------------------------------------------------------------------
(***************************************************************************)
(* Limits.  Scripts drop calls by the times they carry, which need not be  *)
(* in order, but none that is older than the lag allows: a call that was   *)
(* let through is a member still, or so old that none of its window is to  *)
(* come.  So whoever counts members counts all of a window.                *)
(***************************************************************************)

Times == [at : 0 .. MaxInstant, n : 0 .. MaxCalls]

BucketsTyping ==
    /\ bucket \in [Buckets -> SUBSET Times] /\ \A b \in Buckets : IsFiniteSet(bucket[b])
    /\ expires \in [Buckets -> 0 .. MaxInstant + Window + 1] /\ accepted \in [Buckets -> SUBSET Times]
    /\ merged \in BOOLEAN /\ calls \in 0 .. MaxCalls
PenaltyTyping == penalty \in 0 .. MaxInstant + Cooldown /\ instant \in 0 .. MaxInstant
LimitsTyping == BucketsTyping /\ PenaltyTyping /\ promise \subseteq 0 .. MaxInstant + Window + 1

Remembered == ~ merged => \A b \in Buckets : \A c \in accepted[b] : c \in bucket[b] \/ c.at + Window <= instant
Timed == \A b \in Buckets : \A e \in bucket[b] : e.at <= instant /\ e.at + Window <= expires[b]
CallsAreCounted == BucketsTyping /\ PenaltyTyping /\ Remembered /\ Timed /\ SpansAreLimited
NotOverfull == Cardinality(bucket["calls"]) <= Limit

LimitsInv == LimitsTyping /\ CallsAreCounted /\ NotOverfull /\ WaitsSuffice /\ CooldownsSuffice

LEMMA LimitsBounds ==
    /\ Window \in Nat /\ Limit \in Nat /\ Limit > 0 /\ Cooldown \in Nat /\ MaxLag \in Nat /\ MaxInstant \in Nat
    /\ MaxCalls \in Nat /\ Cooldown >= Window + MaxLag /\ MaxInstant >= Window + MaxLag
    /\ "calls" \in Buckets /\ Posts \subseteq Buckets /\ \A p \in Posts : p # "calls"
  BY LimitsAssumption DEF Buckets

LEMMA WindowTyping ==
    ASSUME BucketsTyping, NEW b \in Buckets, NEW now \in 0 .. MaxInstant
    PROVE  /\ InWindow(b, now) \subseteq bucket[b] /\ InWindow(b, now) \in SUBSET Times
           /\ IsFiniteSet(InWindow(b, now)) /\ Cardinality(InWindow(b, now)) \in Nat
           /\ Cardinality(InWindow(b, now)) <= Cardinality(bucket[b])
<1>1. InWindow(b, now) \subseteq bucket[b] /\ bucket[b] \in SUBSET Times /\ IsFiniteSet(bucket[b])
  BY DEF InWindow, BucketsTyping
<1> QED
  BY <1>1, FS_Subset, FS_CardinalityType

\* A call that is of a span, and those of the span that were let through before, are counted.
LEMMA SpanIsCounted ==
    ASSUME CallsAreCounted, NEW b \in Buckets, NEW now \in 0 .. MaxInstant, now <= instant, instant <= now + MaxLag, ~ merged,
           NEW start \in 0 .. MaxInstant, now >= start, now + MaxLag < start + Window
    PROVE  {c \in accepted[b] : c.at >= start /\ c.at + MaxLag < start + Window} \subseteq InWindow(b, now)
<1> SUFFICES ASSUME NEW c \in accepted[b], c.at >= start
             PROVE  c \in InWindow(b, now)
  OBVIOUS
<1>1. c.at \in Nat /\ instant \in Nat
  BY LimitsBounds DEF CallsAreCounted, BucketsTyping, PenaltyTyping, Times
<1>2. c \in bucket[b] \/ c.at + Window <= instant
  BY DEF CallsAreCounted, Remembered
<1>3. c.at + Window > now + MaxLag
  BY <1>1, LimitsBounds
<1>4. c.at + Window > instant /\ c.at + Window > now
  BY <1>1, <1>3, LimitsBounds
<1>5. ~ (c.at + Window <= instant)
  BY <1>1, <1>4, LimitsBounds
<1> QED
  BY <1>2, <1>4, <1>5 DEF InWindow

LEMMA AddsCallKeeps ==
    ASSUME CallsAreCounted, NEW b \in Buckets, NEW now \in 0 .. MaxInstant, Calls(now), NEW m \in Members(b, now),
           NEW passes \in BOOLEAN, passes => Cardinality(InWindow(b, now) \union {m}) <= Limit,
           AddsCall(b, InWindow(b, now) \union {m}, now, m, passes), PenaltyTyping'
    PROVE  CallsAreCounted'
<1> DEFINE kept == InWindow(b, now)
           call == Call(now)
           members == kept \union {m}
<1>1. /\ calls < MaxCalls /\ calls' = calls + 1 /\ now <= instant /\ instant <= now + MaxLag /\ instant' = instant
      /\ bucket' = [bucket EXCEPT ![b] = members] /\ expires' = [expires EXCEPT ![b] = instant + Window + 1]
      /\ accepted' = [accepted EXCEPT ![b] = @ \union IF passes THEN {call} ELSE {}]
      /\ merged' = (merged \/ m \in bucket[b])
  <2>1. instant <= now + MaxLag
    BY LimitsBounds DEF Calls, CallsAreCounted, PenaltyTyping
  <2> QED
    BY <2>1 DEF Calls, AddsCall
<1>2. BucketsTyping /\ PenaltyTyping /\ Remembered /\ Timed
  BY DEF CallsAreCounted
<1>3. instant \in 0 .. MaxInstant /\ calls \in 0 .. MaxCalls
  BY <1>2 DEF BucketsTyping, PenaltyTyping
<1>4. call \in Times /\ call.at = now
  BY <1>1, <1>3, LimitsBounds DEF Call, Times
<1>5. m \in Times /\ m.at = now /\ (m = call \/ m \in bucket[b])
  BY <1>2, <1>4 DEF Members, BucketsTyping
<1>6. kept \in SUBSET Times /\ IsFiniteSet(kept) /\ kept \subseteq bucket[b]
  BY <1>2, WindowTyping
<1>7. members \in SUBSET Times /\ IsFiniteSet(members)
  BY <1>5, <1>6, FS_AddElement
<1>8. \A e \in bucket[b] : e \in kept \/ e.at + Window <= now
  <2> SUFFICES ASSUME NEW e \in bucket[b], ~ (e.at + Window > now)
               PROVE  e.at + Window <= now
    BY DEF InWindow
  <2>1. e.at \in Nat
    BY <1>2, LimitsBounds DEF BucketsTyping, Times
  <2> QED
    BY <2>1, LimitsBounds
<1> HIDE DEF kept, call
<1>9. /\ bucket'[b] = members /\ expires'[b] = instant + Window + 1
      /\ accepted'[b] = accepted[b] \union IF passes THEN {call} ELSE {}
      /\ \A a \in Buckets \ {b} : bucket'[a] = bucket[a] /\ expires'[a] = expires[a] /\ accepted'[a] = accepted[a]
  BY <1>1, <1>2 DEF BucketsTyping
<1>10. BucketsTyping'
  <2> HIDE DEF members
  <2>1. bucket' \in [Buckets -> SUBSET Times] /\ \A a \in Buckets : IsFiniteSet(bucket'[a])
    BY <1>1, <1>2, <1>7, <1>9 DEF BucketsTyping
  <2>2. instant + Window + 1 \in 0 .. MaxInstant + Window + 1 /\ calls + 1 \in 0 .. MaxCalls
    BY <1>1, <1>3, LimitsBounds
  <2>3. accepted' \in [Buckets -> SUBSET Times]
    BY <1>1, <1>2, <1>4 DEF BucketsTyping
  <2>4. expires' \in [Buckets -> 0 .. MaxInstant + Window + 1] /\ calls' \in 0 .. MaxCalls
    BY <1>1, <1>2, <2>2 DEF BucketsTyping
  <2>5. merged' \in BOOLEAN
    BY <1>1, <1>2 DEF BucketsTyping
  <2> QED
    BY <2>1, <2>3, <2>4, <2>5 DEF BucketsTyping
<1>11. Remembered'
  <2> SUFFICES ASSUME ~ merged', NEW a \in Buckets, NEW c \in accepted'[a]
               PROVE  c \in bucket'[a] \/ c.at + Window <= instant
    BY <1>1 DEF Remembered
  <2>1. ~ merged /\ m = call
    BY <1>1, <1>5
  <2>2. CASE a # b
    BY <1>2, <1>9, <2>1, <2>2 DEF Remembered
  <2>3. CASE a = b /\ c = call
    BY <1>9, <2>1, <2>3
  <2>4. CASE a = b /\ c \in accepted[b]
    <3>1. c \in bucket[b] \/ c.at + Window <= instant
      BY <1>2, <2>1, <2>4 DEF Remembered
    <3>2. c.at \in Nat
      BY <1>2, <2>4, LimitsBounds DEF BucketsTyping, Times
    <3>3. c.at + Window <= now => c.at + Window <= instant
      BY <1>1, <1>3, <3>2, LimitsBounds
    <3> QED
      BY <1>8, <1>9, <2>4, <3>1, <3>3
  <2> QED
    BY <1>9, <2>2, <2>3, <2>4
<1>12. Timed'
  <2> SUFFICES ASSUME NEW a \in Buckets, NEW e \in bucket'[a]
               PROVE  e.at <= instant /\ e.at + Window <= expires'[a]
    BY <1>1 DEF Timed
  <2>1. CASE a # b
    BY <1>2, <1>9, <2>1 DEF Timed
  <2>2. CASE a = b
    <3>1. e \in Times /\ e.at <= instant
      BY <1>1, <1>2, <1>5, <1>6, <1>9, <2>2 DEF Timed
    <3>2. e.at + Window <= instant + Window + 1
      BY <1>3, <3>1, LimitsBounds DEF Times
    <3> QED
      BY <1>9, <2>2, <3>1, <3>2
  <2> QED
    BY <2>1, <2>2
<1>13. SpansAreLimited'
  <2> SUFFICES ASSUME ~ merged', NEW a \in Buckets, NEW start \in 0 .. MaxInstant
               PROVE  Cardinality({c \in accepted'[a] : c.at >= start /\ c.at + MaxLag < start + Window}) <= Limit
    BY DEF SpansAreLimited
  <2> DEFINE Span(s) == {c \in s : c.at >= start /\ c.at + MaxLag < start + Window}
  <2>1. ~ merged /\ m = call /\ Cardinality(Span(accepted[a])) <= Limit
    BY <1>1, <1>5 DEF CallsAreCounted, SpansAreLimited
  <2>2. CASE Span(accepted'[a]) = Span(accepted[a])
    BY <2>1, <2>2
  <2>3. CASE Span(accepted'[a]) # Span(accepted[a])
    <3>1. a = b /\ passes /\ Span(accepted'[b]) \subseteq Span(accepted[b]) \union {call}
          /\ now >= start /\ now + MaxLag < start + Window
      <4>1. a = b
        BY <1>9, <2>3
      <4>2. passes
        BY <1>9, <2>3, <4>1
      <4>3. accepted'[b] = accepted[b] \union {call}
        BY <1>9, <4>2
      <4> QED
        BY <1>4, <2>3, <4>1, <4>2, <4>3
    <3>2. Span(accepted[b]) \subseteq kept
      BY <1>1, <2>1, <3>1, SpanIsCounted DEF kept
    <3>3. Span(accepted'[b]) \subseteq members
      BY <2>1, <3>1, <3>2
    <3>4. Cardinality(members) <= Limit /\ Cardinality(members) \in Nat
      BY <1>7, <3>1, FS_CardinalityType DEF kept
    <3> HIDE DEF members
    <3>5. Cardinality(Span(accepted'[b])) <= Cardinality(members) /\ Cardinality(Span(accepted'[b])) \in Nat
      BY <1>7, <3>3, FS_Subset, FS_CardinalityType
    <3> QED
      BY <3>1, <3>4, <3>5, LimitsBounds
  <2> QED
    BY <2>2, <2>3
<1> QED
  BY <1>10, <1>11, <1>12, <1>13 DEF CallsAreCounted

LEMMA RefusalKeeps ==
    ASSUME CallsAreCounted, NEW now \in 0 .. MaxInstant, Calls(now), bucket' = [bucket EXCEPT !["calls"] = InWindow("calls", now)],
           UNCHANGED <<expires, accepted, merged, penalty>>
    PROVE  CallsAreCounted'
<1>1. /\ calls < MaxCalls /\ calls' = calls + 1 /\ now <= instant /\ instant' = instant
      /\ expires' = expires /\ accepted' = accepted /\ merged' = merged /\ penalty' = penalty
  BY DEF Calls
<1>2. BucketsTyping /\ PenaltyTyping /\ Remembered /\ Timed /\ SpansAreLimited /\ "calls" \in Buckets
  BY LimitsBounds DEF CallsAreCounted
<1> DEFINE kept == InWindow("calls", now)
<1>3. kept \in SUBSET Times /\ IsFiniteSet(kept) /\ kept \subseteq bucket["calls"]
  BY <1>2, WindowTyping
<1>4. \A e \in bucket["calls"] : e \in kept \/ e.at + Window <= instant
  <2> SUFFICES ASSUME NEW e \in bucket["calls"], ~ (e.at + Window > now)
               PROVE  e.at + Window <= instant
    BY DEF InWindow
  <2>1. e.at \in Nat /\ instant \in Nat
    BY <1>2, LimitsBounds DEF BucketsTyping, PenaltyTyping, Times
  <2> QED
    BY <1>1, <2>1, LimitsBounds
<1>5. bucket' = [bucket EXCEPT !["calls"] = kept]
  OBVIOUS
<1> HIDE DEF kept
<1>6. bucket'["calls"] = kept /\ \A a \in Buckets \ {"calls"} : bucket'[a] = bucket[a]
  BY <1>2, <1>5 DEF BucketsTyping
<1>7. BucketsTyping' /\ PenaltyTyping'
  <2>1. calls + 1 \in 0 .. MaxCalls
    BY <1>1, <1>2, LimitsBounds DEF BucketsTyping
  <2>2. bucket' \in [Buckets -> SUBSET Times] /\ \A a \in Buckets : IsFiniteSet(bucket'[a])
    BY <1>2, <1>3, <1>5, <1>6 DEF BucketsTyping
  <2> QED
    BY <1>1, <1>2, <2>1, <2>2 DEF BucketsTyping, PenaltyTyping
<1>8. \A a \in Buckets : bucket'[a] \subseteq bucket[a]
  BY <1>3, <1>6
<1>9. Timed' /\ SpansAreLimited'
  BY <1>1, <1>2, <1>8 DEF Timed, SpansAreLimited
<1>10. Remembered'
  BY <1>1, <1>2, <1>4, <1>6 DEF Remembered
<1> QED
  BY <1>7, <1>9, <1>10 DEF CallsAreCounted

LEMMA CheckRateLimitKeeps ==
    ASSUME LimitsInv, NEW now \in 0 .. MaxInstant, CheckRateLimit(now)
    PROVE  LimitsInv'
<1> DEFINE kept == InWindow("calls", now)
<1>1. /\ Calls(now) /\ penalty' = penalty /\ instant' = instant /\ CallsAreCounted /\ BucketsTyping /\ PenaltyTyping
      /\ NotOverfull /\ CooldownsSuffice /\ "calls" \in Buckets
  BY LimitsBounds DEF CheckRateLimit, Calls, LimitsInv, LimitsTyping
<1>2. kept \in SUBSET Times /\ IsFiniteSet(kept) /\ Cardinality(kept) \in Nat /\ kept \subseteq bucket["calls"]
      /\ Cardinality(kept) <= Cardinality(bucket["calls"])
  BY <1>1, WindowTyping
<1>3. PenaltyTyping'
  BY <1>1 DEF PenaltyTyping
<1>4. CASE /\ Cardinality(kept) < Limit /\ promise' = {}
           /\ \E m \in Members("calls", now) : AddsCall("calls", kept \union {m}, now, m, TRUE)
  <2>1. PICK m \in Members("calls", now) : AddsCall("calls", kept \union {m}, now, m, TRUE)
    BY <1>4
  <2>2. Cardinality(kept \union {m}) <= Limit
    <3> HIDE DEF kept
    <3>1. Cardinality(kept \union {m}) <= Cardinality(kept) + 1 /\ Cardinality(kept \union {m}) \in Nat
      <4>1. IsFiniteSet(kept) /\ Cardinality(kept) \in Nat
        BY <1>2
      <4>2. Cardinality(kept \union {m}) = IF m \in kept THEN Cardinality(kept) ELSE Cardinality(kept) + 1
        BY <4>1, FS_AddElement
      <4> QED
        BY <4>1, <4>2
    <3> QED
      BY <1>2, <1>4, <3>1, LimitsBounds
  <2>3. CallsAreCounted'
    BY <1>1, <1>3, <2>1, <2>2, AddsCallKeeps
  <2>4. bucket' = [bucket EXCEPT !["calls"] = kept \union {m}]
    BY <2>1 DEF AddsCall
  <2> HIDE DEF kept
  <2>5. bucket'["calls"] = kept \union {m} /\ \A p \in Posts : bucket'[p] = bucket[p]
    BY <1>1, <2>4, LimitsBounds DEF BucketsTyping
  <2>6. NotOverfull'
    BY <2>2, <2>5 DEF NotOverfull
  <2>7. CooldownsSuffice'
    BY <1>1, <2>5 DEF CooldownsSuffice
  <2>8. WaitsSuffice' /\ LimitsTyping'
    BY <1>4, <2>3 DEF WaitsSuffice, LimitsTyping, CallsAreCounted
  <2> QED
    BY <2>3, <2>6, <2>7, <2>8 DEF LimitsInv
<1>5. CASE /\ Cardinality(kept) >= Limit
           /\ bucket' = [bucket EXCEPT !["calls"] = kept]
           /\ promise' = {Max({Min({e.at : e \in kept}) + Window, now + 1})}
           /\ UNCHANGED <<expires, accepted, merged>>
  <2>1. CallsAreCounted'
    BY <1>1, <1>5, RefusalKeeps
  <2> HIDE DEF kept
  <2>2. bucket'["calls"] = kept /\ \A p \in Posts : bucket'[p] = bucket[p]
    BY <1>1, <1>5, LimitsBounds DEF BucketsTyping
  <2>3. NotOverfull'
    <3>1. Cardinality(bucket["calls"]) \in Nat /\ Cardinality(bucket["calls"]) <= Limit
      BY <1>1, FS_CardinalityType DEF BucketsTyping, NotOverfull
    <3> QED
      BY <1>2, <2>2, <3>1, LimitsBounds DEF NotOverfull
  <2>4. CooldownsSuffice'
    BY <1>1, <2>2 DEF CooldownsSuffice
  <2>5. PICK oldest \in kept : Min({e.at : e \in kept}) = oldest.at
    <3>1. kept # {}
      BY <1>2, <1>5, FS_EmptySet, LimitsBounds
    <3>2. {e.at : e \in kept} \subseteq Nat /\ {e.at : e \in kept} # {}
      BY <1>2, <3>1, LimitsBounds DEF Times
    <3> QED
      BY <3>2, MinIsMember
  <2>6. PICK t : t = Max({oldest.at + Window, now + 1})
    OBVIOUS
  <2>7. oldest.at \in 0 .. MaxInstant
    BY <1>2 DEF Times
  <2>8. t \in 0 .. MaxInstant + Window + 1 /\ oldest.at + Window <= t
    <3>1. {oldest.at + Window, now + 1} \subseteq 0 .. MaxInstant + Window + 1
      BY <2>7, LimitsBounds
    <3>2. MaxInstant + Window + 1 \in Nat
      BY LimitsBounds
    <3> QED
      BY <2>6, <3>1, <3>2, MaxIsGreatest
  <2>9. promise' = {t}
    BY <1>5, <2>5, <2>6
  <2>10. WaitsSuffice'
    <3> DEFINE left == {e \in kept : e.at + Window > t}
    <3>1. left \subseteq kept \ {oldest}
      BY <2>7, <2>8, LimitsBounds
    <3>2. IsFiniteSet(kept \ {oldest}) /\ Cardinality(kept \ {oldest}) = Cardinality(kept) - 1
      BY <1>2, FS_RemoveElement
    <3>3. Cardinality(left) <= Cardinality(kept) - 1 /\ Cardinality(left) \in Nat
      BY <3>1, <3>2, FS_Subset, FS_CardinalityType
    <3>4. Cardinality(kept) <= Limit
      BY <2>2, <2>3 DEF NotOverfull
    <3>5. Cardinality(left) < Limit
      <4> HIDE DEF left
      <4> QED
        BY <1>2, <3>3, <3>4, LimitsBounds
    <3> QED
      BY <2>2, <2>9, <3>5 DEF WaitsSuffice
  <2>11. LimitsTyping'
    BY <2>1, <2>8, <2>9 DEF LimitsTyping, CallsAreCounted
  <2> QED
    BY <2>1, <2>3, <2>4, <2>10, <2>11 DEF LimitsInv
<1> QED
  BY <1>4, <1>5 DEF CheckRateLimit

LEMMA CheckSpamKeeps ==
    ASSUME LimitsInv, NEW p \in Posts, NEW now \in 0 .. MaxInstant, CheckSpam(p, now)
    PROVE  LimitsInv'
<1>1. /\ Calls(now) /\ promise' = promise /\ instant' = instant /\ calls < MaxCalls /\ calls' = calls + 1
      /\ CallsAreCounted /\ BucketsTyping /\ PenaltyTyping /\ NotOverfull /\ WaitsSuffice /\ CooldownsSuffice
      /\ promise \subseteq 0 .. MaxInstant + Window + 1 /\ p \in Buckets /\ p # "calls"
  BY LimitsBounds DEF CheckSpam, Calls, LimitsInv, LimitsTyping
<1>2. CASE penalty > instant /\ UNCHANGED <<bucket, expires, penalty, accepted, merged>>
  <2>1. calls' \in 0 .. MaxCalls
    BY <1>1, LimitsBounds DEF BucketsTyping
  <2>2. CallsAreCounted'
    BY <1>1, <1>2, <2>1 DEF CallsAreCounted, BucketsTyping, PenaltyTyping, Remembered, Timed, SpansAreLimited
  <2> QED
    BY <1>1, <1>2, <2>2 DEF LimitsInv, LimitsTyping, CallsAreCounted, NotOverfull, WaitsSuffice, CooldownsSuffice
<1>3. CASE /\ penalty <= instant
           /\ \E m \in Members(p, now) :
                LET counted == InWindow(p, now) \union {m}
                    passes == Cardinality(counted) <= Limit
                IN /\ AddsCall(p, counted, now, m, passes)
                   /\ penalty' = IF passes THEN penalty ELSE instant + Cooldown
  <2> DEFINE counted(m) == InWindow(p, now) \union {m}
  <2>1. PICK m \in Members(p, now) :
             /\ AddsCall(p, counted(m), now, m, Cardinality(counted(m)) <= Limit)
             /\ penalty' = IF Cardinality(counted(m)) <= Limit THEN penalty ELSE instant + Cooldown
    BY <1>3
  <2>2. PICK passes \in BOOLEAN : passes = (Cardinality(counted(m)) <= Limit)
    <3> HIDE DEF counted
    <3>1. (Cardinality(counted(m)) <= Limit) \in BOOLEAN
      OBVIOUS
    <3> QED
      BY <3>1
  <2>3. AddsCall(p, counted(m), now, m, passes) /\ penalty' = IF passes THEN penalty ELSE instant + Cooldown
    BY <2>1, <2>2
  <2>4. PenaltyTyping'
    <3>1. instant + Cooldown \in 0 .. MaxInstant + Cooldown
      BY <1>1, LimitsBounds DEF PenaltyTyping
    <3> QED
      BY <1>1, <2>3, <3>1 DEF PenaltyTyping
  <2>5. CallsAreCounted'
    BY <1>1, <2>2, <2>3, <2>4, AddsCallKeeps
  <2>6. bucket'["calls"] = bucket["calls"]
    BY <1>1, <2>3, LimitsBounds DEF AddsCall, BucketsTyping
  <2>7. NotOverfull' /\ WaitsSuffice' /\ LimitsTyping'
    BY <1>1, <2>5, <2>6 DEF NotOverfull, WaitsSuffice, LimitsTyping, CallsAreCounted
  <2>8. CooldownsSuffice'
    <3> SUFFICES ASSUME penalty' > instant, NEW q \in Posts, NEW e \in bucket'[q]
                 PROVE  e.at + Window <= penalty' - MaxLag
      BY <1>1 DEF CooldownsSuffice
    <3>1. instant \in Nat /\ penalty \in Nat
      BY <1>1, LimitsBounds DEF PenaltyTyping
    <3>2. penalty' = instant + Cooldown
      BY <1>3, <2>3, <3>1
    <3>3. e.at \in Nat /\ e.at <= instant
      BY <1>1, <2>5, LimitsBounds DEF CallsAreCounted, Timed, BucketsTyping, Times
    <3> QED
      BY <3>1, <3>2, <3>3, LimitsBounds
  <2> QED
    BY <2>5, <2>7, <2>8 DEF LimitsInv
<1> QED
  BY <1>2, <1>3 DEF CheckSpam

LEMMA InstantPassesKeeps == LimitsInv /\ InstantPasses => LimitsInv'
<1> SUFFICES ASSUME LimitsInv, InstantPasses
             PROVE  LimitsInv'
  OBVIOUS
<1>1. /\ instant < MaxInstant /\ instant' = instant + 1
      /\ UNCHANGED <<bucket, expires, penalty, calls, accepted, merged, promise>>
      /\ LimitsTyping /\ CallsAreCounted /\ BucketsTyping /\ PenaltyTyping /\ instant \in Nat
  BY LimitsBounds DEF InstantPasses, LimitsInv, LimitsTyping, PenaltyTyping
<1>2. LimitsTyping' /\ BucketsTyping' /\ PenaltyTyping'
  BY <1>1, LimitsBounds DEF LimitsTyping, BucketsTyping, PenaltyTyping
<1>3. Remembered' /\ Timed'
  <2>1. \A b \in Buckets : (\A c \in accepted[b] : c.at \in Nat) /\ (\A e \in bucket[b] : e.at \in Nat)
    BY <1>1, LimitsBounds DEF BucketsTyping, Times
  <2>2. \A k \in Nat : k <= instant => k <= instant + 1
    BY <1>1
  <2>3. \A b \in Buckets : \A c \in accepted[b] : c.at + Window \in Nat
    BY <2>1, LimitsBounds
  <2> QED
    BY <1>1, <2>1, <2>2, <2>3 DEF CallsAreCounted, Remembered, Timed
<1>4. SpansAreLimited' /\ NotOverfull' /\ WaitsSuffice'
  BY <1>1 DEF LimitsInv, CallsAreCounted, SpansAreLimited, NotOverfull, WaitsSuffice
<1>5. CooldownsSuffice'
  <2>1. penalty > instant + 1 => penalty > instant
    BY <1>1, LimitsBounds DEF PenaltyTyping
  <2> QED
    BY <1>1, <2>1 DEF LimitsInv, CooldownsSuffice
<1> QED
  BY <1>2, <1>3, <1>4, <1>5 DEF LimitsInv, CallsAreCounted

LEMMA BucketExpiresKeeps ==
    ASSUME LimitsInv, NEW b \in Buckets, BucketExpires(b)
    PROVE  LimitsInv'
<1>1. /\ expires[b] <= instant /\ bucket' = [bucket EXCEPT ![b] = {}]
      /\ expires' = expires /\ penalty' = penalty /\ instant' = instant /\ calls' = calls /\ accepted' = accepted
      /\ merged' = merged /\ promise' = promise
      /\ LimitsTyping /\ CallsAreCounted /\ BucketsTyping /\ PenaltyTyping /\ Timed /\ Remembered /\ NotOverfull
  BY DEF BucketExpires, LimitsInv, LimitsTyping, CallsAreCounted
<1>2. bucket'[b] = {} /\ \A a \in Buckets \ {b} : bucket'[a] = bucket[a]
  BY <1>1 DEF BucketsTyping
<1>3. \A a \in Buckets : bucket'[a] \subseteq bucket[a]
  BY <1>2
<1>4. BucketsTyping' /\ PenaltyTyping' /\ LimitsTyping'
  <2>1. bucket' \in [Buckets -> SUBSET Times] /\ \A a \in Buckets : IsFiniteSet(bucket'[a])
    BY <1>1, <1>2, FS_EmptySet DEF BucketsTyping
  <2> QED
    BY <1>1, <2>1 DEF LimitsTyping, BucketsTyping, PenaltyTyping
<1>5. Remembered'
  <2>1. ASSUME NEW c \in bucket[b]
        PROVE  c.at + Window <= instant
    <3>1. c.at \in Nat /\ expires[b] \in Nat /\ instant \in Nat /\ c.at + Window <= expires[b]
      BY <1>1, LimitsBounds DEF BucketsTyping, PenaltyTyping, Times, Timed
    <3> QED
      BY <1>1, <3>1, LimitsBounds
  <2> QED
    BY <1>1, <1>2, <2>1 DEF Remembered
<1>6. Timed' /\ SpansAreLimited' /\ CooldownsSuffice'
  BY <1>1, <1>3, LimitsBounds DEF Timed, SpansAreLimited, CallsAreCounted, CooldownsSuffice, LimitsInv
<1>7. NotOverfull' /\ WaitsSuffice'
  <2>1. CASE b = "calls"
    <3>1. \A t \in promise : {e \in bucket'["calls"] : e.at + Window > t} = {}
      BY <1>2, <2>1
    <3>2. Cardinality({}) = 0
      BY FS_EmptySet
    <3>3. WaitsSuffice'
      BY <1>1, <3>1, <3>2, LimitsBounds DEF WaitsSuffice
    <3>4. Cardinality(bucket'["calls"]) = 0
      BY <1>2, <2>1, <3>2
    <3>5. NotOverfull'
      BY <3>4, LimitsBounds DEF NotOverfull
    <3> QED
      BY <3>3, <3>5
  <2>2. CASE b # "calls"
    BY <1>1, <1>2, <2>2, LimitsBounds DEF NotOverfull, WaitsSuffice, LimitsInv
  <2> QED
    BY <2>1, <2>2
<1> QED
  BY <1>4, <1>5, <1>6, <1>7 DEF LimitsInv, CallsAreCounted

LEMMA LimitsInitHolds == LimitsInit => LimitsInv
<1> SUFFICES ASSUME LimitsInit
             PROVE  LimitsInv
  OBVIOUS
<1>1. /\ bucket = [b \in Buckets |-> {}] /\ expires = [b \in Buckets |-> 0] /\ penalty = 0
      /\ instant = Window + MaxLag /\ calls = 0 /\ accepted = [b \in Buckets |-> {}] /\ merged = FALSE /\ promise = {}
  BY DEF LimitsInit
<1>2. 0 \in 0 .. MaxInstant + Window + 1 /\ 0 \in 0 .. MaxCalls /\ 0 \in 0 .. MaxInstant + Cooldown
      /\ Window + MaxLag \in 0 .. MaxInstant
  BY LimitsBounds
<1>3. BucketsTyping /\ PenaltyTyping /\ LimitsTyping
  BY <1>1, <1>2, FS_EmptySet DEF LimitsTyping, BucketsTyping, PenaltyTyping
<1>4. Remembered /\ Timed /\ WaitsSuffice /\ CooldownsSuffice
  BY <1>1, LimitsBounds DEF Remembered, Timed, WaitsSuffice, CooldownsSuffice
<1>5. NotOverfull
  BY <1>1, FS_EmptySet, LimitsBounds DEF NotOverfull
<1>6. SpansAreLimited
  <2>1. ASSUME NEW b \in Buckets, NEW start \in 0 .. MaxInstant
        PROVE  {c \in accepted[b] : c.at >= start /\ c.at + MaxLag < start + Window} = {}
    BY <1>1
  <2>2. Cardinality({}) = 0
    BY FS_EmptySet
  <2> QED
    BY <2>1, <2>2, LimitsBounds DEF SpansAreLimited
<1> QED
  BY <1>3, <1>4, <1>5, <1>6 DEF LimitsInv, CallsAreCounted

LEMMA LimitsNextKeeps == LimitsInv /\ [LimitsNext]_limitVars => LimitsInv'
<1> SUFFICES ASSUME LimitsInv, [LimitsNext]_limitVars
             PROVE  LimitsInv'
  OBVIOUS
<1>1. CASE ApiCalls
  BY <1>1, CheckRateLimitKeeps DEF ApiCalls
<1>2. CASE Changes
  BY <1>2, CheckSpamKeeps DEF Changes
<1>3. CASE InstantPasses
  BY <1>3, InstantPassesKeeps
<1>4. CASE \E b \in Buckets : BucketExpires(b)
  BY <1>4, BucketExpiresKeeps
<1>5. CASE UNCHANGED limitVars
  BY <1>5 DEF limitVars, LimitsInv, LimitsTyping, CallsAreCounted, BucketsTyping, PenaltyTyping, Remembered, Timed,
     SpansAreLimited, NotOverfull, WaitsSuffice, CooldownsSuffice
<1> QED
  BY <1>1, <1>2, <1>3, <1>4, <1>5 DEF LimitsNext

LEMMA LimitsAlwaysHold == LimitsSpec => []LimitsInv
  BY LimitsInitHolds, LimitsNextKeeps, PTL DEF LimitsSpec

\* The sorted sets, their times and the cooldown have their type (redis_lua.py).
THEOREM LimitsTypeCorrect == LimitsSpec => []LimitsTypeOK
<1>1. LimitsInv => LimitsTypeOK
  BY DEF LimitsInv, LimitsTyping, BucketsTyping, PenaltyTyping, Times, LimitsTypeOK
<1> QED
  BY <1>1, LimitsAlwaysHold, PTL

\* Whatever the order in which scripts run, as long as no two calls carry the same time: no
\* window, less the lag of the clocks, holds more calls than the limit; who comes back when told
\* to, and nobody else before, is let through; and a cooldown outlasts what it is for
\* (check_rate_limit, check_spam).
THEOREM LimitsStayKept == LimitsSpec => []LimitsAreKept
<1>1. LimitsInv => LimitsAreKept
  BY DEF LimitsInv, CallsAreCounted, LimitsAreKept
<1> QED
  BY <1>1, LimitsAlwaysHold, PTL

=============================================================================
