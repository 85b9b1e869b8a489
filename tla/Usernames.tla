------------------------------ MODULE Usernames ------------------------------
(***************************************************************************)
(* The names of users (core/users/services.py, username_policy.py): one    *)
(* user holds a name, in whatever case; who gives a name up keeps the      *)
(* claim to it for a while, an account that is deleted too; and how often  *)
(* a user may change is limited, differently in the first days.            *)
(*                                                                         *)
(* A change is a transaction that holds the lock of the user's row.  It    *)
(* looks whether the name is free before it takes it, as a sign-up does,   *)
(* which is no transaction; that no two hold a name is a constraint.       *)
(***************************************************************************)
EXTENDS Naturals, Sequences, FiniteSets, FiniteSetsExt

CONSTANTS
    Users,
    Names,          \* by normalized_username
    Spellings,      \* the ways to write a name
    NameRequests,   \* at a time
    GracePeriod,    \* the first days of a user (48 hours)
    MaxGraceChanges, \* changes in them (3)
    ChangeCooldown, \* between two changes later (30 days)
    ReservationPeriod, \* a name that was given up is kept for its owner (14 days)
    MaxTime,        \* bound of the clock
    Populations     \* what to explore: the users who were there before, with their names

\* Nobody has two names, and no two users the same one.
ASSUME UsernamesAssumption ==
    /\ {GracePeriod, MaxGraceChanges, ChangeCooldown, ReservationPeriod, MaxTime} \subseteq Nat
    /\ \A p \in Populations :
        /\ p \in [Users -> SUBSET (Names \X Spellings)]
        /\ \A u \in Users : \A g, h \in p[u] : g = h
        /\ \A u, v \in Users : \A g \in p[u], h \in p[v] : g[1] = h[1] => u = v

VARIABLES
    user,       \* each user's row
    claim,      \* UsernameReservation: who may claim a name that was given up, until when
    renaming,   \* the progress of each request
    clock,
    given,      \* history: who gave up each name last, and when
    early,      \* history: names taken while they were kept for another, who had given them up
                \* before the request looked
    changed     \* history: when each user changed the name, after the first choice

usernameVars == <<user, claim, renaming, clock, given, early, changed>>

NoUser == [state |-> "none", handle |-> {}, selects |-> FALSE, born |-> 0, inGrace |-> 0, last |-> {}]
Resident(handle) == [NoUser EXCEPT !.state = "active", !.handle = handle, !.selects = handle = {}]
NoChange == [pc |-> "idle", user |-> {}, handle |-> {}, now |-> 0, found |-> {}]

UsernamesInit ==
    /\ user \in {[u \in Users |-> IF p[u] = {} THEN NoUser ELSE Resident(p[u])] : p \in Populations}
    /\ claim = [n \in Names |-> {}]
    /\ renaming = [r \in NameRequests |-> NoChange] /\ clock = 0
    /\ given = [n \in Names |-> {}] /\ early = {} /\ changed = [u \in Users |-> <<>>]

-----------------------------------------------------------------------------

NamesOf(handle) == {h[1] : h \in handle}        \* normalized_username
Holders(n) == {u \in Users : n \in NamesOf(user[u].handle)}
Live(n, now) == {c \in claim[n] : c.until > now}

\* username_is_available, to a user or, with {}, to somebody new.
IsAvailable(n, owner, now) ==
    Holders(n) \subseteq owner /\ \A c \in Live(n, now) : {c.owner} = owner

\* grace_changes_remaining
GraceChangesRemaining(u) ==
    IF clock >= user[u].born + GracePeriod THEN 0 ELSE MaxGraceChanges - Min({user[u].inGrace, MaxGraceChanges})

InGrace(u, now) == now < user[u].born + GracePeriod
MayChange(u) ==
    IF InGrace(u, clock) THEN GraceChangesRemaining(u) > 0
    ELSE \A t \in user[u].last : clock >= t + ChangeCooldown

BeginsChange(r, pc, u, h) ==
    /\ renaming[r] = NoChange
    /\ renaming' = [renaming EXCEPT ![r] =
            [pc |-> pc, user |-> {u}, handle |-> {h}, now |-> clock, found |-> given[h[1]]]]
EndsChange(r) == renaming' = [renaming EXCEPT ![r] = NoChange]
RowLocked(u) == \E r \in NameRequests : renaming[r].pc = "save" /\ renaming[r].user = {u}

\* The name is kept for one who gave it up less than the period ago.
KeptFor(n) == {g.owner : g \in {k \in given[n] : k.at + ReservationPeriod > clock}}
Takes(r, u, n) ==
    early' = IF KeptFor(n) \subseteq {u} \/ given[n] # renaming[r].found THEN early ELSE early \union {n}
Given(names, taken, u, now) ==
    given' = [m \in Names |-> IF m \in names THEN {[owner |-> u, at |-> now]}
                              ELSE IF m \in taken THEN {} ELSE given[m]]

-----------------------------------------------------------------------------
(* New users: with a name, or signed in with a provider, to choose one.    *)

RegisterName(r, u, h) ==
    /\ user[u] = NoUser /\ \A q \in NameRequests : renaming[q].user # {u}
    /\ IsAvailable(h[1], {}, clock)
    /\ BeginsChange(r, "create", u, h)
    /\ UNCHANGED <<user, claim, clock, given, early, changed>>

CreateNamed(r) ==
    /\ renaming[r].pc = "create"
    /\ \E u \in renaming[r].user, h \in renaming[r].handle :
        IF Holders(h[1]) # {} THEN UNCHANGED <<user, given, early>>
        ELSE /\ user' = [user EXCEPT ![u] = [Resident({h}) EXCEPT !.born = clock]]
             /\ Takes(r, u, h[1]) /\ Given({}, {h[1]}, u, clock)
    /\ EndsChange(r)
    /\ UNCHANGED <<claim, clock, changed>>

\* With a temporary name that nobody would choose.
CreateTemporary(u) ==
    /\ user[u] = NoUser /\ \A q \in NameRequests : renaming[q].user # {u}
    /\ user' = [user EXCEPT ![u] = [Resident({}) EXCEPT !.born = clock]]
    /\ UNCHANGED <<claim, renaming, clock, given, early, changed>>

-----------------------------------------------------------------------------
(* A change of name: set_username.                                         *)

\* Mutant, used by no specification, as are all that are marked so: a plausible bug
\* in the definition that follows.
SetUsernameUnlocked(r, u, h) ==
    /\ user[u].state = "active" /\ user[u].handle # {h}
    /\ user[u].selects \/ MayChange(u)
    /\ IsAvailable(h[1], {u}, clock)
    /\ BeginsChange(r, "save", u, h)
    /\ UNCHANGED <<user, claim, clock, given, early, changed>>

\* The row is locked from here to the end of the transaction.
SetUsername(r, u, h) ==
    /\ user[u].state = "active" /\ ~ RowLocked(u) /\ user[u].handle # {h}
    /\ user[u].selects \/ MayChange(u)
    /\ IsAvailable(h[1], {u}, clock)
    /\ BeginsChange(r, "save", u, h)
    /\ UNCHANGED <<user, claim, clock, given, early, changed>>

\* reserve_released_username
ReserveReleased(names, u, now, claims) ==
    claim' = [n \in Names |-> IF n \in names THEN {[owner |-> u, until |-> now + ReservationPeriod]} ELSE claims[n]]

\* The claim to the new name is deleted, whosever it is by now; the old one is kept for the user.
TakeName(r, u, h) ==
    LET n == h[1]
        now == renaming[r].now
        first == user[u].selects
        released == IF first THEN {} ELSE NamesOf(user[u].handle) \ {n}
        freed == [claim EXCEPT ![n] = {}]
    IN /\ user' = [user EXCEPT ![u].handle = {h}, ![u].selects = FALSE,
            ![u].inGrace = IF ~ first /\ InGrace(u, now) THEN @ + 1 ELSE @,
            ![u].last = IF ~ first /\ ~ InGrace(u, now) THEN {now} ELSE @]
       /\ ReserveReleased(released, u, now, freed)
       /\ Given(released, {n}, u, now)
       /\ Takes(r, u, n)
       /\ changed' = IF first THEN changed ELSE [changed EXCEPT ![u] = Append(@, now)]

\* The constraint refuses a name that another holds by now.
SaveUsername(r) ==
    /\ renaming[r].pc = "save"
    /\ \E u \in renaming[r].user, h \in renaming[r].handle :
        IF Holders(h[1]) \ {u} # {} THEN UNCHANGED <<user, claim, given, early, changed>>
        ELSE TakeName(r, u, h)
    /\ EndsChange(r)
    /\ UNCHANGED clock

-----------------------------------------------------------------------------

\* anonymize_user_for_permanent_delete: the name of a deleted account is not free at once.
DeleteAccount(u) ==
    /\ user[u].state = "active" /\ ~ RowLocked(u)
    /\ user' = [user EXCEPT ![u] = [@ EXCEPT !.state = "deleted", !.handle = {}, !.selects = FALSE]]
    /\ ReserveReleased(NamesOf(user[u].handle), u, clock, claim)
    /\ Given(NamesOf(user[u].handle), {}, u, clock)
    /\ UNCHANGED <<renaming, clock, early, changed>>

\* cleanup_expired_username_reservations
CleanupExpired ==
    /\ claim' = [n \in Names |-> Live(n, clock)] /\ claim' # claim
    /\ UNCHANGED <<user, renaming, clock, given, early, changed>>

TimePasses ==
    /\ clock < MaxTime /\ clock' = clock + 1
    /\ UNCHANGED <<user, claim, renaming, given, early, changed>>
-----------------------------------------------------------------------------

Arrives == \E u \in Users :
    \/ CreateTemporary(u)
    \/ \E r \in NameRequests : \E h \in Names \X Spellings : RegisterName(r, u, h)

Renames == \E r \in NameRequests, u \in Users : \E h \in Names \X Spellings : SetUsername(r, u, h)

UsernamesNext ==
    \/ Arrives \/ Renames
    \/ \E r \in NameRequests : CreateNamed(r) \/ SaveUsername(r)
    \/ \E u \in Users : DeleteAccount(u)
    \/ CleanupExpired \/ TimePasses

UsernamesSpec == UsernamesInit /\ [][UsernamesNext]_usernameVars

-----------------------------------------------------------------------------

NamesTypeOK ==
    /\ user \in [Users -> [state : {"none", "active", "deleted"}, handle : SUBSET (Names \X Spellings),
            selects : BOOLEAN, born : 0 .. MaxTime, inGrace : 0 .. MaxGraceChanges, last : SUBSET (0 .. MaxTime)]]
    /\ claim \in [Names -> SUBSET [owner : Users, until : Nat]]
    /\ clock \in 0 .. MaxTime /\ early \subseteq Names
    /\ \A u \in Users : Cardinality(user[u].handle) <= 1
    /\ \A n \in Names : Cardinality(Holders(n)) <= 1 /\ Cardinality(claim[n]) <= 1

\* UsernameReservation, "A released handle temporarily claimable only by its previous owner":
\* whoever comes to hold a name had given it up last, or finds it free of claims, unless it
\* changed hands while the request was under way.
ReleasedNamesAreKeptUnlessRaced == early = {}

\* However many requests a user makes at a time: in the first days only so many changes, and
\* later one in a cooldown.
ChangesAreLimited ==
    \A u \in Users :
        LET soon == {i \in DOMAIN changed[u] : InGrace(u, changed[u][i])}
        IN /\ Cardinality(soon) <= MaxGraceChanges
           /\ \A i, j \in DOMAIN changed[u] \ soon : i < j => changed[u][j] >= changed[u][i] + ChangeCooldown

\* What set_username promises of names: they are kept for who gave them up, and changes are limited.
NamesAreKept == ReleasedNamesAreKeptUnlessRaced /\ ChangesAreLimited

=============================================================================
