-------------------------- MODULE AccountLifecycle --------------------------
(***************************************************************************)
(* The life of user accounts: what their owners do (deactivate, reactivate,*)
(* ask for deletion, cancel it), what administrators do (warn, suspend,    *)
(* reactivate, delete, restore, delete for good), and the Celery workers   *)
(* that purge the accounts whose deletion is due.                          *)
(*                                                                         *)
(* Every operation of an owner or an administrator is one transaction on   *)
(* the locked users row, hence one step; cancelling a deletion locks the   *)
(* users row and then the deletion request, the purge locks them in the    *)
(* other order, so these two take one step per lock.  Workers may raise    *)
(* at any step and may be killed at any step.                              *)
(***************************************************************************)
EXTENDS Naturals, FiniteSets

CONSTANTS
    Users,              \* the accounts
    Workers,            \* processes that run purge_due_account_deletions
    Nobody,             \* not an account
    RetryLimit,         \* settings.ACCOUNT_DELETION_PURGE_MAX_RETRIES
    BatchSize,          \* the requests one run attempts at most
    TimeLimitHolds,     \* environment assumption: a run is killed before its
                        \* claim is an hour old
    AdminPurgeMayFail   \* whether permanently_delete_user may fail after it
                        \* has deleted the files

ASSUME NobodyAssumption == Nobody \notin Users
ASSUME LimitAssumption == RetryLimit \in Nat \ {0} /\ BatchSize \in Nat \ {0}
ASSUME SettingAssumption == {TimeLimitHolds, AdminPurgeMayFail} \subseteq BOOLEAN

VARIABLES
    account,    \* the users row and the deletion request of each account
    cancelling, \* accounts whose row a cancellation of their deletion has locked
    worker      \* the progress of each worker

vars == <<account, cancelling, worker>>

Lifecycles == {"active", "deactivated", "pendingDeletion", "deleted"}
Statuses == {"active", "warned", "suspended"}
Requests == {"none", "pending", "cancelled", "purging", "completed", "failed"}
Steps == {"idle", "claim", "read", "files", "lockRequest", "lockUser", "record", "report"}

Init ==
    /\ account = [u \in Users |->
         [lifecycle |-> "active", active |-> TRUE, status |-> "active",
          deleted |-> FALSE, anonymized |-> FALSE, files |-> TRUE,
          request |-> "none", due |-> FALSE, stale |-> FALSE, retries |-> 0,
          attempts |-> 0, reported |-> FALSE]]
    /\ cancelling = {}
    /\ worker = [w \in Workers |-> [pc |-> "idle", on |-> Nobody, attempted |-> {}]]

At(w, step) == worker[w].pc = step
On(w) == worker[w].on
Works(w, u) == On(w) = u /\ worker[w].pc \in {"read", "files", "lockRequest", "lockUser", "record"}

\* The locks: a purge holds the request while it waits for the users row.
UserRowFree(u) == u \notin cancelling
RequestRowFree(u) == \A w \in Workers : ~ (At(w, "lockUser") /\ On(w) = u)

Becomes(u, row) == account' = [account EXCEPT ![u] = row]
WorkerGoes(w, state) == worker' = [worker EXCEPT ![w] = state]
Goto(w, step) == WorkerGoes(w, [worker[w] EXCEPT !.pc = step])
\* The run goes on with its next request.
NextRequest(w) == WorkerGoes(w, [worker[w] EXCEPT !.pc = "claim", !.on = Nobody])

\* ensure_account_can_authenticate
CanAuthenticate(u) ==
    /\ ~ account[u].deleted
    /\ account[u].lifecycle = "active" /\ account[u].active
    /\ account[u].status # "suspended"

\* What UserManager's queryset returns.
Visible(u) == ~ account[u].deleted /\ account[u].lifecycle = "active"

-----------------------------------------------------------------------------
(* The owner of the account.                                               *)

Deactivate(u) ==
    /\ UserRowFree(u)
    /\ CanAuthenticate(u)
    /\ Becomes(u, [account[u] EXCEPT !.lifecycle = "deactivated", !.active = FALSE])
    /\ UNCHANGED <<cancelling, worker>>

\* A recovery token is issued to whoever logs in to a deactivated account.
Reactivate(u) ==
    /\ UserRowFree(u)
    /\ account[u].lifecycle = "deactivated"
    /\ Becomes(u, [account[u] EXCEPT !.lifecycle = "active", !.active = TRUE, !.deleted = FALSE])
    /\ UNCHANGED <<cancelling, worker>>

RequestDeletion(u) ==
    /\ UserRowFree(u) /\ RequestRowFree(u)
    /\ CanAuthenticate(u)
    /\ Becomes(u, [account[u] EXCEPT !.lifecycle = "pendingDeletion", !.active = FALSE,
                     !.request = "pending", !.due = FALSE, !.stale = FALSE,
                     !.retries = 0, !.attempts = 0, !.reported = FALSE])
    /\ UNCHANGED <<cancelling, worker>>

\* cancel_account_deletion locks the users row; the account once asked for deletion.
BeginCancel(u) ==
    /\ UserRowFree(u)
    /\ account[u].request # "none"
    /\ cancelling' = cancelling \union {u}
    /\ UNCHANGED <<account, worker>>

CanCancel(u) ==
    /\ account[u].lifecycle = "pendingDeletion"
    /\ account[u].request = "pending"
    /\ ~ account[u].due

\* Mutant, used by no specification, as are all that are marked so: a plausible bug in
\* the definition that follows.
CancelWaitsForThePurge(u) ==
    /\ u \in cancelling /\ RequestRowFree(u)
    /\ account[u].request # "purging"
    /\ cancelling' = cancelling \ {u}
    /\ UNCHANGED <<account, worker>>

\* It then locks the request, checks both, and reopens the account.
Cancel(u) ==
    /\ u \in cancelling /\ RequestRowFree(u)
    /\ cancelling' = cancelling \ {u}
    /\ \/ /\ CanCancel(u)
          /\ Becomes(u, [account[u] EXCEPT !.request = "cancelled", !.lifecycle = "active",
                           !.active = TRUE, !.deleted = FALSE])
       \/ ~ CanCancel(u) /\ UNCHANGED account
    /\ UNCHANGED worker

-----------------------------------------------------------------------------
(* The administrators.  AvailableActions is _available_actions.            *)

AvailableActions(u) ==
    CASE account[u].deleted -> IF account[u].lifecycle = "deleted" /\ ~ account[u].anonymized
                               THEN {"restore", "permanentlyDelete"} ELSE {}
      [] ~ account[u].deleted /\ account[u].lifecycle = "pendingDeletion" -> {}
      [] ~ account[u].deleted /\ account[u].lifecycle # "pendingDeletion" ->
            {"delete"}
            \union (IF ~ account[u].active \/ account[u].status = "suspended"
                    THEN {"reactivate"} ELSE {"suspend"})
            \union (IF account[u].active /\ account[u].status = "active"
                    THEN {"warn"} ELSE {})

Warn(u) ==
    /\ UserRowFree(u)
    /\ Visible(u) /\ "warn" \in AvailableActions(u)
    /\ Becomes(u, [account[u] EXCEPT !.status = "warned"])
    /\ UNCHANGED <<cancelling, worker>>

\* Mutant.
SuspendWhoever(u) ==
    /\ UserRowFree(u)
    /\ ~ account[u].deleted
    /\ Becomes(u, [account[u] EXCEPT !.status = "suspended"])
    /\ UNCHANGED <<cancelling, worker>>

Suspend(u) ==
    /\ UserRowFree(u)
    /\ Visible(u) /\ "suspend" \in AvailableActions(u)
    /\ Becomes(u, [account[u] EXCEPT !.status = "suspended"])
    /\ UNCHANGED <<cancelling, worker>>

AdminReactivate(u) ==
    /\ UserRowFree(u)
    /\ ~ account[u].deleted /\ "reactivate" \in AvailableActions(u)
    /\ Becomes(u, [account[u] EXCEPT !.status = "active", !.active = TRUE,
                     !.lifecycle = "active"])
    /\ UNCHANGED <<cancelling, worker>>

AdminDelete(u) ==
    /\ UserRowFree(u)
    /\ Visible(u) /\ "delete" \in AvailableActions(u)
    /\ Becomes(u, [account[u] EXCEPT !.deleted = TRUE, !.active = FALSE,
                     !.lifecycle = "deleted"])
    /\ UNCHANGED <<cancelling, worker>>

\* Mutant.
AdminRestoreInactive(u) ==
    /\ UserRowFree(u)
    /\ ~ account[u].anonymized /\ "restore" \in AvailableActions(u)
    /\ Becomes(u, [account[u] EXCEPT !.deleted = FALSE, !.lifecycle = "active"])
    /\ UNCHANGED <<cancelling, worker>>

AdminRestore(u) ==
    /\ UserRowFree(u)
    /\ ~ account[u].anonymized /\ "restore" \in AvailableActions(u)
    /\ Becomes(u, [account[u] EXCEPT !.deleted = FALSE, !.active = TRUE,
                     !.lifecycle = "active"])
    /\ UNCHANGED <<cancelling, worker>>

\* anonymize_user_for_permanent_delete
Anonymized(row) ==
    [row EXCEPT !.status = "active", !.lifecycle = "deleted", !.active = FALSE,
                !.deleted = TRUE, !.anonymized = TRUE]

\* The storage is not part of the transaction: what fails after the files are gone
\* rolls back everything but the files.
AdminPurge(u) ==
    /\ UserRowFree(u)
    /\ \/ "permanentlyDelete" \in AvailableActions(u)
       \/ Visible(u) /\ "delete" \in AvailableActions(u)
    /\ \/ Becomes(u, [Anonymized(account[u]) EXCEPT !.files = FALSE])
       \/ AdminPurgeMayFail /\ Becomes(u, [account[u] EXCEPT !.files = FALSE])
    /\ UNCHANGED <<cancelling, worker>>

-----------------------------------------------------------------------------
(* The passage of time.                                                    *)

\* scheduled_for has passed; it is looked at while the request is pending or failed.
BecomesDue(u) ==
    /\ account[u].request = "pending"
    /\ ~ account[u].due
    /\ Becomes(u, [account[u] EXCEPT !.due = TRUE])
    /\ UNCHANGED <<cancelling, worker>>

\* The request was last updated an hour ago.
BecomesStale(u) ==
    /\ account[u].request = "purging"
    /\ ~ account[u].stale
    /\ TimeLimitHolds => \A w \in Workers : On(w) # u
    /\ Becomes(u, [account[u] EXCEPT !.stale = TRUE])
    /\ UNCHANGED <<cancelling, worker>>

-----------------------------------------------------------------------------
(* The purge.                                                              *)

StartRun(w) ==
    /\ At(w, "idle")
    /\ WorkerGoes(w, [pc |-> "claim", on |-> Nobody, attempted |-> {}])
    /\ UNCHANGED <<account, cancelling>>

\* Mutant.
ClaimableOnceClaimed(u) ==
    \/ account[u].request = "pending" /\ account[u].due
    \/ account[u].request = "failed" /\ account[u].due /\ account[u].retries < RetryLimit
    \/ account[u].request = "purging" /\ account[u].retries < RetryLimit

\* Mutant.
ClaimableUnlessStale(u) ==
    /\ account[u].request \in {"pending", "failed"}
    /\ account[u].due /\ account[u].retries < RetryLimit

\* Mutant.
ClaimableAnyPending(u) ==
    \/ account[u].request = "pending"
    \/ account[u].request = "failed" /\ account[u].due /\ account[u].retries < RetryLimit
    \/ account[u].request = "purging" /\ account[u].stale /\ account[u].retries < RetryLimit

\* The filter of _claim_due_requests.
Claimable(u) ==
    \/ account[u].request = "pending" /\ account[u].due
    \/ account[u].request = "failed" /\ account[u].due /\ account[u].retries < RetryLimit
    \/ account[u].request = "purging" /\ account[u].stale /\ account[u].retries < RetryLimit

CanClaim(w, u) ==
    /\ u \notin worker[w].attempted
    /\ RequestRowFree(u)
    /\ Claimable(u)

ClaimsLeft(w) == Cardinality(worker[w].attempted) < BatchSize

\* Mutant.
ClaimUpFront(w) ==
    /\ At(w, "claim") /\ ClaimsLeft(w)
    /\ \E u \in Users :
        /\ CanClaim(w, u)
        /\ account' = [v \in Users |-> IF CanClaim(w, v)
                         THEN [account[v] EXCEPT !.request = "purging"] ELSE account[v]]
        /\ WorkerGoes(w, [pc |-> "read", on |-> u,
                          attempted |-> worker[w].attempted \union {u}])
    /\ UNCHANGED cancelling

\* _claim_due_requests takes one request; a stale claim counts as a retry, and the
\* one that uses up the retries is reported.
Claim(w) ==
    /\ At(w, "claim") /\ ClaimsLeft(w)
    /\ \E u \in Users :
        LET retries == account[u].retries + IF account[u].request = "purging" THEN 1 ELSE 0
        IN
        /\ CanClaim(w, u)
        /\ Becomes(u, [account[u] EXCEPT !.request = "purging", !.stale = FALSE,
                         !.retries = retries, !.attempts = @ + 1,
                         !.reported = @ \/ (/\ account[u].request = "purging"
                                            /\ retries >= RetryLimit)])
        /\ WorkerGoes(w, [pc |-> "read", on |-> u,
                          attempted |-> worker[w].attempted \union {u}])
    /\ UNCHANGED cancelling

EndRun(w) ==
    /\ At(w, "claim")
    /\ ClaimsLeft(w) => \A u \in Users : ~ CanClaim(w, u)
    /\ WorkerGoes(w, [pc |-> "idle", on |-> Nobody, attempted |-> {}])
    /\ UNCHANGED <<account, cancelling>>

\* The unlocked read of the request.
Read(w) ==
    /\ At(w, "read")
    /\ IF account[On(w)].request = "purging" THEN Goto(w, "files") ELSE NextRequest(w)
    /\ UNCHANGED <<account, cancelling>>

\* delete_user_gcs_objects, which may raise with some of the files deleted.
DeleteFiles(w) ==
    /\ At(w, "files")
    /\ Becomes(On(w), [account[On(w)] EXCEPT !.files = FALSE])
    /\ \/ Goto(w, "lockRequest")
       \/ Goto(w, "record")
    /\ UNCHANGED cancelling

\* The transaction locks the request and checks it again.
LockRequest(w) ==
    /\ At(w, "lockRequest") /\ RequestRowFree(On(w))
    /\ IF account[On(w)].request = "purging" THEN Goto(w, "lockUser") ELSE NextRequest(w)
    /\ UNCHANGED <<account, cancelling>>

\* It locks the users row, removes the data, anonymizes the row and commits.
Purge(w) ==
    /\ At(w, "lockUser") /\ UserRowFree(On(w))
    /\ Becomes(On(w), [Anonymized(account[On(w)]) EXCEPT !.request = "completed", !.stale = FALSE])
    /\ NextRequest(w)
    /\ UNCHANGED cancelling

\* The storage or the database raises, or the purge is the victim of a deadlock.
Fail(w) ==
    /\ worker[w].pc \in {"read", "files", "lockRequest", "lockUser"}
    /\ Goto(w, "record")
    /\ UNCHANGED <<account, cancelling>>

\* _record_purge_failure writes the failure whatever the request is by now.
RecordFailure(w) ==
    /\ At(w, "record") /\ RequestRowFree(On(w))
    /\ Becomes(On(w), [account[On(w)] EXCEPT !.request = "failed", !.stale = FALSE,
                         !.retries = @ + 1])
    /\ Goto(w, "report")
    /\ UNCHANGED cancelling

\* It then reads the count back and reports the request that has used up its retries.
Report(w) ==
    /\ At(w, "report")
    /\ Becomes(On(w), [account[On(w)] EXCEPT
                         !.reported = @ \/ account[On(w)].retries >= RetryLimit])
    /\ NextRequest(w)
    /\ UNCHANGED cancelling

\* The soft time limit, the hard one, or the loss of the process.
Die(w) ==
    /\ ~ At(w, "idle")
    /\ WorkerGoes(w, [pc |-> "idle", on |-> Nobody, attempted |-> {}])
    /\ UNCHANGED <<account, cancelling>>

\* PostgreSQL resolves a deadlock by aborting one of the two transactions.
Deadlocked(w, u) == At(w, "lockUser") /\ On(w) = u /\ u \in cancelling

AbortDeadlock(u) ==
    \E w \in Workers :
        /\ Deadlocked(w, u)
        /\ \/ cancelling' = cancelling \ {u} /\ UNCHANGED worker
           \/ Goto(w, "record") /\ UNCHANGED cancelling
        /\ UNCHANGED account

-----------------------------------------------------------------------------

ByOwner(u) ==
    \/ Deactivate(u) \/ Reactivate(u) \/ RequestDeletion(u) \/ BeginCancel(u) \/ Cancel(u)

ByAdmin(u) ==
    \/ Warn(u) \/ Suspend(u) \/ AdminReactivate(u) \/ AdminDelete(u) \/ AdminRestore(u)
    \/ AdminPurge(u)

ByTime(u) == BecomesDue(u) \/ BecomesStale(u)

\* What a run does with the request it has claimed.
Work(w) ==
    \/ Read(w) \/ DeleteFiles(w) \/ LockRequest(w) \/ Purge(w) \/ RecordFailure(w) \/ Report(w)

ByWorker(w) == StartRun(w) \/ Claim(w) \/ EndRun(w) \/ Work(w) \/ Fail(w) \/ Die(w)

Next ==
    \/ \E u \in Users : ByOwner(u) \/ ByAdmin(u) \/ ByTime(u) \/ AbortDeadlock(u)
    \/ \E w \in Workers : ByWorker(w)

Spec == Init /\ [][Next]_vars

\* Time passes, the cron starts runs, a run goes on, the database resolves deadlocks
\* and grants a lock to those who keep asking for it.
Fairness ==
    /\ \A u \in Users :
        WF_vars(ByTime(u)) /\ WF_vars(Cancel(u)) /\ WF_vars(AbortDeadlock(u))
    /\ \A w \in Workers :
        WF_vars(StartRun(w)) /\ WF_vars(EndRun(w)) /\ SF_vars(Claim(w)) /\ SF_vars(Work(w))

FairSpec == Spec /\ Fairness

-----------------------------------------------------------------------------
(* Properties.                                                             *)

\* The state has its type.
TypeOK ==
    /\ account \in [Users ->
         [lifecycle : Lifecycles, active : BOOLEAN, status : Statuses, deleted : BOOLEAN,
          anonymized : BOOLEAN, files : BOOLEAN, request : Requests, due : BOOLEAN,
          stale : BOOLEAN, retries : 0 .. RetryLimit + 1, attempts : 0 .. RetryLimit + 1,
          reported : BOOLEAN]]
    /\ cancelling \subseteq Users
    /\ worker \in [Workers -> [pc : Steps, on : Users \union {Nobody}, attempted : SUBSET Users]]

\* The columns that say what an account is never disagree: is_active, deleted_at and
\* lifecycle_state are written by ten operations, and the deletion request by five others.
ColumnsAgree ==
    \A u \in Users : LET a == account[u] IN
        /\ a.active <=> a.lifecycle = "active"
        /\ a.deleted <=> a.lifecycle = "deleted"
        /\ a.anonymized => a.deleted
        /\ a.request \in {"pending", "purging", "failed"} <=> a.lifecycle = "pendingDeletion"
        /\ a.request = "completed" => a.anonymized

\* An account that its owner or an administrator can still bring back has its files:
\* only a purge deletes them, and what a purge has begun on cannot be brought back.
WhatReturnsHasItsFiles ==
    \A u \in Users :
        account[u].files \/ account[u].anonymized \/ account[u].request \in {"purging", "failed"}

\* reactivate_account and cancel_account_deletion open a session without a look at the
\* moderation status: no account they can be used on is suspended.
RecoveryOpensNoSuspendedAccount ==
    \A u \in Users :
        account[u].lifecycle \in {"deactivated", "pendingDeletion"} =>
            account[u].status # "suspended"

\* A purge that keeps failing or keeps crashing its worker is attempted once more than
\* the retries it has, never more.
AttemptsAreBounded == \A u \in Users : account[u].attempts <= RetryLimit + 1

\* A request that a worker works on is its alone, as no row lock spans the deletion of
\* the files and the transaction.
OneWorkerPerRequest ==
    \A u \in Users : \A v, w \in Workers : Works(v, u) /\ Works(w, u) => v = w

\* Once a purge has begun nothing but a purge ends it, and the account stays closed.
PurgesAreNotUndone ==
    [][\A u \in Users :
        account[u].request \in {"purging", "failed"} =>
            account'[u].request \in {"purging", "failed", "completed"}]_vars

\* A deletion that is complete stays complete, whatever a second worker still does.
CompletedIsFinal ==
    [][\A u \in Users : account[u].request = "completed" => account'[u].request = "completed"]_vars

\* An account is purged by a worker only after its owner has let the recovery window
\* pass without cancelling.
OnlyDueAccountsArePurged ==
    [][\A u \in Users :
        account[u].request # "completed" /\ account'[u].request = "completed" =>
            account[u].due /\ account[u].lifecycle = "pendingDeletion"]_vars

\* A request is left behind in PURGING only by the death of the run that worked on it: a
\* run that is killed strands the request in flight and no other one of its batch.
Stranded == {u \in Users : account[u].request = "purging" /\ \A w \in Workers : ~ Works(w, u)}
OnlyWorkInFlightIsStranded ==
    [][\A u \in Stranded' \ Stranded : \E w \in Workers : Works(w, u)]_vars

\* How far the deletion of an account is, as its owner sees it.
Phase(a) ==
    CASE a.anonymized -> "deleted"
      [] ~ a.anonymized /\ a.request \in {"purging", "failed"} -> "deleting"
      [] ~ a.anonymized /\ a.request = "pending" -> IF a.due THEN "due" ELSE "waiting"
      [] ~ a.anonymized /\ a.request \notin {"purging", "failed", "pending"} -> "kept"

Promise == INSTANCE DeletionPromise WITH
    phase <- [u \in Users |-> Phase(account[u])],
    open <- {u \in Users : CanAuthenticate(u)},
    files <- {u \in Users : account[u].files}

\* Owners, administrators, time, and workers that race, fail and die together do no more
\* to an account than DeletionPromise allows.
KeepsThePromise == Promise!Spec

\* An account that an administrator deleted and restores comes back with its files.
RestoredAsItWas ==
    [][\A u \in Users :
        account[u].deleted /\ ~ account'[u].deleted => account'[u].files]_vars

\* A request that has used up its retries, and that nobody works on, has been reported.
ExhaustedIsReported ==
    \A u \in Users :
        /\ account[u].request = "failed" /\ account[u].retries >= RetryLimit
        /\ \A w \in Workers : On(w) # u
        => account[u].reported

\* A deletion that is due ends: the account is purged, or its retries are used up.
DueDeletionsEnd ==
    \A u \in Users :
        account[u].request \in {"pending", "purging", "failed"} /\ account[u].due ~>
            \/ account[u].request = "completed"
            \/ account[u].retries >= RetryLimit

\* A cancellation is answered although it locks the two rows in the order opposite to
\* the one of the purge.
CancellationsAreAnswered == \A u \in Users : u \in cancelling ~> u \notin cancelling

=============================================================================
