-------------------------- MODULE DeletionPromise --------------------------
(***************************************************************************)
(* What the owner of an account is promised about its deletion, without    *)
(* requests, workers, claims, retries and locks: an account is deleted     *)
(* only when its owner asked for it and let the recovery window pass, or   *)
(* when an administrator does it; until then nothing of it is lost, but    *)
(* for the files of an account whose deletion by an administrator failed;  *)
(* once the deletion has begun the account is not used again, and it is    *)
(* over when the files are gone too.  AccountLifecycle keeps it.           *)
(***************************************************************************)
CONSTANT Users

VARIABLES
    phase,      \* how far the deletion of each account is
    open,       \* the accounts that can be signed in to
    files       \* the accounts whose files are in storage

vars == <<phase, open, files>>

Init ==
    /\ phase = [u \in Users |-> "kept"]
    /\ open = Users
    /\ files = Users

Goes(u, from, to) == phase[u] = from /\ phase' = [phase EXCEPT ![u] = to]

\* Suspension, deactivation and soft deletion, and what takes them back.
Close(u) == phase[u] = "kept" /\ open' = open \ {u} /\ UNCHANGED <<phase, files>>
Reopen(u) == phase[u] = "kept" /\ open' = open \union {u} /\ UNCHANGED <<phase, files>>

Ask(u) ==
    /\ u \in open /\ Goes(u, "kept", "waiting")
    /\ open' = open \ {u}
    /\ UNCHANGED files

Cancel(u) ==
    /\ Goes(u, "waiting", "kept")
    /\ open' = open \union {u}
    /\ UNCHANGED files

\* The recovery window ends.
Lapse(u) == Goes(u, "waiting", "due") /\ UNCHANGED <<open, files>>

Begin(u) == Goes(u, "due", "deleting") /\ UNCHANGED <<open, files>>

Erase(u) == phase[u] = "deleting" /\ files' = files \ {u} /\ UNCHANGED <<phase, open>>

Finish(u) == u \notin files /\ Goes(u, "deleting", "deleted") /\ UNCHANGED <<open, files>>

\* An administrator deletes the account for good.
Remove(u) ==
    /\ Goes(u, "kept", "deleted")
    /\ open' = open \ {u}
    /\ files' = files \ {u}

\* It fails after the files are gone: the account stays what it was without them.
FailToRemove(u) == phase[u] = "kept" /\ files' = files \ {u} /\ UNCHANGED <<phase, open>>

Next ==
    \E u \in Users :
        \/ Close(u) \/ Reopen(u) \/ Ask(u) \/ Cancel(u) \/ Lapse(u)
        \/ Begin(u) \/ Erase(u) \/ Finish(u)
        \/ Remove(u) \/ FailToRemove(u)

Spec == Init /\ [][Next]_vars

=============================================================================
