---------------------------- MODULE DeviceTokens ----------------------------
(***************************************************************************)
(* The device tokens that push messages go to (core/notifications/services *)
(* and firebase): a token is registered for the user who signs in on a     *)
(* device, moves between users with the device, and a user keeps a limited *)
(* number of them.                                                         *)
(*                                                                         *)
(* A registration is a transaction that locks row after row, in the order  *)
(* of their keys, the rows that its query found when it started; a row     *)
(* that has to be waited for is looked at again once it is locked          *)
(* (PostgreSQL, READ COMMITTED).  Keys are random: the order in which rows *)
(* are added says nothing about them.                                      *)
(***************************************************************************)
EXTENDS Naturals, FiniteSets, FiniteSetsExt

CONSTANTS
    Owners,             \* users
    Tokens,
    TokenKey,           \* the key of a token's row, by which rows are ordered
    Registrations,      \* requests that register a token, at a time
    TokenLimit,         \* tokens a user keeps (5)
    MaxRegistrations,   \* bound: registrations
    TokenSettings       \* what to explore: who owns which token to begin with, which requests
                        \* there are, how often they register, and whether push messages are sent

\* To begin with, a token has one owner at most, and no owner has more than the limit.
ASSUME TokensAssumption ==
    /\ TokenKey \in [Tokens -> Nat] /\ \A t, s \in Tokens : TokenKey[t] = TokenKey[s] => t = s
    /\ IsFiniteSet(Tokens) /\ TokenLimit \in Nat \ {0} /\ MaxRegistrations \in Nat
    /\ TokenSettings \subseteq [owners : SUBSET (Tokens \X Owners), requests : SUBSET Registrations,
            rounds : 0 .. MaxRegistrations, pushes : BOOLEAN]
    /\ \A s \in TokenSettings :
        /\ \A t \in Tokens, u, v \in Owners : <<t, u>> \in s.owners /\ <<t, v>> \in s.owners => u = v
        /\ \A u \in Owners : Cardinality({t \in Tokens : <<t, u>> \in s.owners}) <= TokenLimit

VARIABLES
    row,        \* committed: the row of each token
    registration, \* the transaction of each request
    holder,     \* who holds the lock of each row
    push,       \* the users and tokens a push task read, and who was told before
    rejected,   \* tokens that the push service no longer knows
    clock,      \* rows added so far
    apart,      \* history: users of whom two registrations were past their locks at a time that
                \* had found no row in common
    setting     \* fixed from the start

tokenVars == <<row, registration, holder, push, rejected, clock, apart, setting>>

NoRow == [owner |-> {}, active |-> FALSE, born |-> 0]
NotRegistering == [pc |-> "idle", user |-> {}, token |-> {}, found |-> {}, todo |-> {}]
NoPush == [user |-> {}, tokens |-> {}]

TokensInit ==
    /\ setting \in TokenSettings
    /\ row = [t \in Tokens |-> IF \E u \in Owners : <<t, u>> \in setting.owners
        THEN [owner |-> {u \in Owners : <<t, u>> \in setting.owners}, active |-> TRUE, born |-> 0] ELSE NoRow]
    /\ registration = [r \in Registrations |-> NotRegistering]
    /\ holder = [t \in Tokens |-> {}]
    /\ push = NoPush /\ rejected = {} /\ clock = 0 /\ apart = {}

-----------------------------------------------------------------------------

Rows == {t \in Tokens : row[t] # NoRow}
Owned(u) == {t \in Rows : row[t].owner = {u}}
Concerns(u, t) == Owned(u) \union ({t} \intersect Rows)
First(S) == {t \in S : \A s \in S : TokenKey[t] <= TokenKey[s]}

MovesOn(r, pc, todo) == registration' = [registration EXCEPT ![r].pc = pc, ![r].todo = todo]
Available(r, t) == holder[t] \subseteq {r}
Locks(r, t) == holder' = [holder EXCEPT ![t] = {r}]
Releases(r) == [t \in Tokens |-> holder[t] \ {r}]

\* The statement that locks finds its rows.
Register(r, u, t) ==
    /\ registration[r] = NotRegistering /\ t \notin rejected /\ clock < setting.rounds
    /\ registration' = [registration EXCEPT ![r] =
            [pc |-> "lock", user |-> {u}, token |-> {t}, found |-> Owned(u), todo |-> Concerns(u, t)]]
    /\ UNCHANGED <<row, holder, push, rejected, clock, apart, setting>>

\* A row that is gone, or no longer concerns the registration, is passed over.
LockRow(r) ==
    /\ registration[r].pc = "lock"
    /\ \E t \in First(registration[r].todo) :
        /\ Available(r, t)
        /\ IF \E u \in registration[r].user, new \in registration[r].token : t \in Concerns(u, new)
           THEN Locks(r, t) ELSE UNCHANGED holder
        /\ MovesOn(r, "lock", registration[r].todo \ {t})
    /\ UNCHANGED <<row, push, rejected, clock, apart, setting>>

PastLocks(r, u) == registration[r].user = {u} /\ registration[r].pc \in {"store", "commit"}

\* update_or_create: locks the row of the token, whoever owns it now, or adds it; another
\* transaction that is adding it is waited for.
LockToken(r) ==
    /\ registration[r].pc = "lock" /\ registration[r].todo = {}
    /\ \E t \in registration[r].token : Available(r, t) /\ Locks(r, t)
    /\ MovesOn(r, "store", {})
    /\ apart' = apart \union {u \in Owners : registration[r].user = {u} /\ \E q \in Registrations \ {r} :
            PastLocks(q, u) /\ registration[q].found \intersect registration[r].found = {}}
    /\ UNCHANGED <<row, push, rejected, clock, setting>>

\* The tokens beyond the limit, inactive and older ones first, without the new one.
Older(s, t) ==
    \/ ~ row[s].active /\ row[t].active
    \/ row[s].active = row[t].active /\ row[s].born < row[t].born

\* Mutant, used by no specification, as are all that are marked so: a plausible bug
\* in the definition that follows.
RemovableBeforeTheNew(u, t) ==
    {S \in SUBSET (Owned(u) \ {t}) :
        /\ Cardinality(S) = Max({Cardinality(Owned(u) \ {t}) - TokenLimit, 0})
        /\ \A s \in S, other \in (Owned(u) \ {t}) \ S : ~ Older(other, s)}

Removable(u, t) ==
    {S \in SUBSET (Owned(u) \ {t}) :
        /\ Cardinality(S) = Max({Cardinality(Owned(u) \union {t}) - TokenLimit, 0})
        /\ \A s \in S, other \in (Owned(u) \ {t}) \ S : ~ Older(other, s)}

\* What it removes it may still have to wait for.
Trim(r) ==
    /\ registration[r].pc = "store"
    /\ \E u \in registration[r].user, t \in registration[r].token : \E S \in Removable(u, t) :
        MovesOn(r, "commit", S)
    /\ UNCHANGED <<row, holder, push, rejected, clock, apart, setting>>

Stored(u, t) ==
    [owner |-> {u}, active |-> TRUE, born |-> IF row[t] = NoRow THEN clock + 1 ELSE row[t].born]

\* Others find the rows that are deleted neither to lock nor to delete, even if the same token is
\* added again; what they found of their user is that no longer if it moved.
Without(q, removed) ==
    [registration[q] EXCEPT !.todo = @ \ removed,
                            !.found = {t \in @ \ removed : row'[t].owner = registration[q].user}]

CommitRegistration(r) ==
    /\ registration[r].pc = "commit" /\ \A t \in registration[r].todo : Available(r, t)
    /\ \E u \in registration[r].user, new \in registration[r].token :
        row' = [t \in Tokens |-> IF t = new THEN Stored(u, t)
                                 ELSE IF t \in registration[r].todo THEN NoRow ELSE row[t]]
    /\ clock' = clock + 1
    /\ holder' = Releases(r)
    /\ registration' = [q \in Registrations |-> IF q = r THEN NotRegistering ELSE Without(q, registration[r].todo)]
    /\ UNCHANGED <<push, rejected, apart, setting>>

-----------------------------------------------------------------------------
(* Waiting.  The database ends one of those who wait for each other.       *)

WaitsFor(r) ==
    CASE registration[r].pc = "lock" /\ registration[r].todo # {} ->
            (UNION {holder[t] : t \in First(registration[r].todo)}) \ {r}
      [] registration[r].pc = "lock" /\ registration[r].todo = {} ->
            (UNION {holder[t] : t \in registration[r].token}) \ {r}
      [] registration[r].pc = "commit" -> (UNION {holder[t] : t \in registration[r].todo}) \ {r}
      [] OTHER -> {}

\* The requests that r waits for, directly or through others.
Behind[n \in Nat, r \in Registrations] ==
    IF n = 0 THEN WaitsFor(r)
    ELSE Behind[n - 1, r] \union UNION {WaitsFor(q) : q \in Behind[n - 1, r]}

Deadlocked(r) == r \in Behind[Cardinality(Registrations), r]

AbortRegistration(r) ==
    /\ Deadlocked(r)
    /\ holder' = Releases(r)
    /\ registration' = [registration EXCEPT ![r] = NotRegistering]
    /\ UNCHANGED <<row, push, rejected, clock, apart, setting>>

-----------------------------------------------------------------------------
(* A push task: reads the tokens of a user, sends, and deactivates those   *)
(* the service rejects.                                                    *)

Uninstall(t) ==
    /\ t \notin rejected /\ row[t] # NoRow /\ \A r \in Registrations : t \notin registration[r].token
    /\ rejected' = rejected \union {t}
    /\ UNCHANGED <<row, registration, holder, push, clock, apart, setting>>

ReadTokens(u) ==
    /\ push = NoPush /\ \E t \in Owned(u) : row[t].active
    /\ push' = [user |-> {u}, tokens |-> {t \in Owned(u) : row[t].active}]
    /\ UNCHANGED <<row, registration, holder, rejected, clock, apart, setting>>

\* Only what the service does not know any longer; waits for rows that are locked.
SendPush ==
    /\ push # NoPush /\ \A t \in push.tokens \intersect rejected : holder[t] = {}
    /\ row' = [t \in Tokens |-> IF t \in push.tokens \intersect rejected /\ row[t] # NoRow
                                THEN [row[t] EXCEPT !.active = FALSE] ELSE row[t]]
    /\ push' = NoPush
    /\ UNCHANGED <<registration, holder, rejected, clock, apart, setting>>

TokensNext ==
    \/ \E r \in setting.requests :
        \/ \E u \in Owners, t \in Tokens : Register(r, u, t)
        \/ LockRow(r) \/ LockToken(r) \/ Trim(r) \/ CommitRegistration(r) \/ AbortRegistration(r)
    \/ setting.pushes /\ \E t \in Tokens : Uninstall(t)
    \/ setting.pushes /\ \E u \in Owners : ReadTokens(u)
    \/ SendPush

\* The database grants locks that are free and ends those who wait for each other.
Proceeds(r) == LockRow(r) \/ LockToken(r) \/ Trim(r) \/ CommitRegistration(r) \/ AbortRegistration(r)

TokensSpec == TokensInit /\ [][TokensNext]_tokenVars

-----------------------------------------------------------------------------

TokensTypeOK ==
    /\ row \in [Tokens -> [owner : SUBSET Owners, active : BOOLEAN, born : Nat]]
    /\ \A t \in Tokens : row[t].born <= clock
    /\ registration \in [Registrations -> [pc : {"idle", "lock", "store", "commit"}, user : SUBSET Owners,
            token : SUBSET Tokens, found : SUBSET Tokens, todo : SUBSET Tokens]]
    /\ holder \in [Tokens -> SUBSET Registrations]
    /\ push \in [user : SUBSET Owners, tokens : SUBSET Tokens]
    /\ rejected \subseteq Tokens /\ clock \in Nat /\ apart \subseteq Owners /\ setting \in TokenSettings

\* core/notifications/services.py, register_device_token: "_lock_registration_rows takes every row lock
\* up front", and _enforce_device_token_limit counts on it: a user has no more tokens than the
\* limit, unless registrations that had no row in common to lock were past their locks at a time.
LimitHolds ==
    \A u \in Owners \ apart : Cardinality(Owned(u)) <= TokenLimit

\* What the code says and does not do.

\* core/notifications/services.py: "acquires locks in the same sequence -- the invariant that
\* makes a lock cycle (deadlock) impossible".
NoLockCycle == \A r \in Registrations : ~ Deadlocked(r)

=============================================================================
