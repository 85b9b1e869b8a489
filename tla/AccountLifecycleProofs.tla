----------------------- MODULE AccountLifecycleProofs -----------------------
(***************************************************************************)
(* The safety properties of AccountLifecycle, for every set of accounts    *)
(* and workers and every retry limit.                                      *)
(***************************************************************************)
EXTENDS AccountLifecycle, TLAPS

\* What is true of every row.
Row == [lifecycle : Lifecycles, active : BOOLEAN, status : Statuses, deleted : BOOLEAN,
        anonymized : BOOLEAN, files : BOOLEAN, request : Requests, due : BOOLEAN,
        stale : BOOLEAN, retries : 0 .. RetryLimit + 1, attempts : 0 .. RetryLimit + 1,
        reported : BOOLEAN]

Agree(a) ==
    /\ a.active <=> a.lifecycle = "active"
    /\ a.deleted <=> a.lifecycle = "deleted"
    /\ a.anonymized => a.deleted
    /\ a.request \in {"pending", "purging", "failed"} <=> a.lifecycle = "pendingDeletion"
    /\ a.request = "completed" => a.anonymized

Keeps(a) == AdminPurgeMayFail \/ a.files \/ a.anonymized \/ a.request \in {"purging", "failed"}

Open(a) == a.lifecycle \in {"deactivated", "pendingDeletion"} => a.status # "suspended"

\* The attempts are paid for with retries.
Counts(a) ==
    /\ a.request \in {"none", "pending", "cancelled"} => a.attempts = 0 /\ a.retries = 0
    /\ a.request = "purging" => a.retries <= RetryLimit /\ a.attempts <= a.retries + 1
    /\ a.request = "failed" => a.attempts <= a.retries
    /\ a.request \in {"purging", "failed"} => a.due

RowOK(a) == a \in Row /\ Agree(a) /\ Keeps(a) /\ Open(a) /\ Counts(a)

\* What relates the rows and the workers: a request that is worked on is PURGING, and
\* stale only when no run has it.
WorkIsLive ==
    \A w \in Workers : \A u \in Users :
        /\ Works(w, u) => account[u].request = "purging"
        /\ account[u].stale => On(w) # u

WorkersTyped ==
    \A w \in Workers :
        /\ worker[w] \in [pc : Steps, on : Users \union {Nobody}, attempted : SUBSET Users]
        /\ worker[w].pc \notin {"idle", "claim"} => On(w) \in Users

IInv ==
    /\ account \in [Users -> Row]
    /\ \A u \in Users : RowOK(account[u])
    /\ cancelling \subseteq Users
    /\ worker \in [Workers -> [pc : Steps, on : Users \union {Nobody}, attempted : SUBSET Users]]
    /\ WorkersTyped
    /\ WorkIsLive
    /\ OneWorkerPerRequest

-----------------------------------------------------------------------------
(* What each operation makes of a row.                                     *)

LEMMA AnonymizedRow ==
    ASSUME NEW a, RowOK(a), a.request \notin {"pending", "purging", "failed"}
    PROVE  RowOK([Anonymized(a) EXCEPT !.files = FALSE])
BY LimitAssumption DEF RowOK, Row, Agree, Keeps, Open, Counts, Anonymized, Lifecycles, Statuses, Requests

LEMMA PurgedRow ==
    ASSUME NEW a, RowOK(a), a.request = "purging"
    PROVE  RowOK([Anonymized(a) EXCEPT !.request = "completed", !.stale = FALSE])
BY LimitAssumption DEF RowOK, Row, Agree, Keeps, Open, Counts, Anonymized, Lifecycles, Statuses, Requests

LEMMA ClaimedRow ==
    ASSUME NEW a, RowOK(a), NEW retries, NEW b \in BOOLEAN,
           \/ a.request = "pending" /\ a.due /\ retries = a.retries
           \/ a.request = "failed" /\ a.retries < RetryLimit /\ retries = a.retries
           \/ a.request = "purging" /\ a.retries < RetryLimit /\ retries = a.retries + 1
    PROVE  RowOK([a EXCEPT !.request = "purging", !.stale = FALSE, !.retries = retries,
                           !.attempts = @ + 1, !.reported = b])
<1> DEFINE c == [a EXCEPT !.request = "purging", !.stale = FALSE, !.retries = retries,
                          !.attempts = @ + 1, !.reported = b]
<1>1. /\ a \in Row /\ a.retries \in Nat /\ a.attempts \in Nat
      /\ retries \in 0 .. RetryLimit + 1 /\ a.attempts + 1 \in 0 .. RetryLimit + 1
      /\ retries <= RetryLimit /\ a.attempts + 1 <= retries + 1 /\ a.due
    BY LimitAssumption DEF RowOK, Row, Counts
<1>2. c \in Row
    BY <1>1 DEF Row, Requests
<1>3. /\ c.request = "purging" /\ c.retries = retries /\ c.attempts = a.attempts + 1
      /\ c.due = a.due /\ c.active = a.active /\ c.lifecycle = a.lifecycle
      /\ c.deleted = a.deleted /\ c.anonymized = a.anonymized /\ c.status = a.status
    BY <1>1 DEF Row
<1>4. Agree(c) /\ Keeps(c) /\ Open(c)
    BY <1>3 DEF RowOK, Agree, Keeps, Open
<1>5. Counts(c)
    BY <1>1, <1>3 DEF Counts
<1> QED BY <1>2, <1>4, <1>5 DEF RowOK

LEMMA FailedRow ==
    ASSUME NEW a, RowOK(a), a.request = "purging"
    PROVE  RowOK([a EXCEPT !.request = "failed", !.stale = FALSE, !.retries = @ + 1])
<1> DEFINE c == [a EXCEPT !.request = "failed", !.stale = FALSE, !.retries = @ + 1]
<1>1. /\ a \in Row /\ a.retries + 1 \in 0 .. RetryLimit + 1 /\ a.attempts <= a.retries + 1 /\ a.due
    BY LimitAssumption DEF RowOK, Row, Counts
<1>2. c \in Row
    BY <1>1 DEF Row, Requests
<1>3. /\ c.request = "failed" /\ c.retries = a.retries + 1 /\ c.attempts = a.attempts
      /\ c.due = a.due /\ c.active = a.active /\ c.lifecycle = a.lifecycle
      /\ c.deleted = a.deleted /\ c.anonymized = a.anonymized /\ c.status = a.status
    BY <1>1 DEF Row
<1>4. Agree(c) /\ Keeps(c) /\ Open(c)
    BY <1>3 DEF RowOK, Agree, Keeps, Open
<1>5. Counts(c)
    BY <1>1, <1>3 DEF Counts
<1> QED BY <1>2, <1>4, <1>5 DEF RowOK

LEMMA CancelledRow ==
    ASSUME NEW u, RowOK(account[u]), CanCancel(u), NEW a, a = account[u]
    PROVE  RowOK([a EXCEPT !.request = "cancelled", !.lifecycle = "active",
                           !.active = TRUE, !.deleted = FALSE])
BY LimitAssumption DEF RowOK, Row, Agree, Keeps, Open, Counts, CanCancel, Lifecycles, Statuses, Requests

LEMMA RequestedRow ==
    ASSUME NEW u, RowOK(account[u]), CanAuthenticate(u), NEW a, a = account[u]
    PROVE  RowOK([a EXCEPT !.lifecycle = "pendingDeletion", !.active = FALSE,
                     !.request = "pending", !.due = FALSE, !.stale = FALSE,
                     !.retries = 0, !.attempts = 0, !.reported = FALSE])
BY LimitAssumption DEF RowOK, Row, Agree, Keeps, Open, Counts, CanAuthenticate, Lifecycles, Statuses, Requests

-----------------------------------------------------------------------------
(* What a step leaves alone.                                               *)

State == [pc : Steps, on : Users \union {Nobody}, attempted : SUBSET Users]
Busy(state) == state.pc \in {"read", "files", "lockRequest", "lockUser", "record"}

LEMMA RowFields ==
    ASSUME NEW u \in Users, NEW row, account \in [Users -> Row], Becomes(u, row), row \in Row
    PROVE  /\ account' \in [Users -> Row]
           /\ account'[u] = row
           /\ \A v \in Users : v # u => account'[v] = account[v]
BY DEF Becomes

LEMMA WorkerFields ==
    ASSUME NEW w \in Workers, NEW state \in State, worker \in [Workers -> State],
           WorkerGoes(w, state)
    PROVE  /\ worker' \in [Workers -> State]
           /\ worker'[w] = state
           /\ \A v \in Workers : v # w => worker'[v] = worker[v]
BY DEF WorkerGoes

\* A step of an owner, an administrator or the clock.
LEMMA RowStep ==
    ASSUME IInv, NEW u \in Users, NEW row, RowOK(row), Becomes(u, row),
           cancelling' \in SUBSET Users, UNCHANGED worker,
           account[u].request = "purging" => row.request = "purging",
           \A w \in Workers : row.stale => account[u].stale \/ On(w) # u
    PROVE  IInv'
<1>1. row \in Row /\ account \in [Users -> Row]
    BY DEF IInv, RowOK
<1>2. /\ account' \in [Users -> Row]
      /\ account'[u] = row
      /\ \A v \in Users : v # u => account'[v] = account[v]
    BY <1>1, RowFields
<1>3. \A v \in Users : RowOK(account'[v])
    BY <1>2 DEF IInv
<1>4. WorkIsLive'
    BY <1>2 DEF IInv, WorkIsLive, Works, On
<1>5. OneWorkerPerRequest' /\ WorkersTyped'
    BY DEF IInv, OneWorkerPerRequest, Works, On, WorkersTyped
<1> QED BY <1>2, <1>3, <1>4, <1>5 DEF IInv

\* A step of a worker that leaves the rows alone.
LEMMA WorkerStep ==
    ASSUME IInv, NEW w \in Workers, NEW state \in State, WorkerGoes(w, state),
           state.pc \notin {"idle", "claim"} => state.on \in Users,
           state.on \in {On(w), Nobody},
           Busy(state) => Busy(worker[w]) /\ state.on = On(w),
           cancelling' \in SUBSET Users, UNCHANGED account
    PROVE  IInv'
<1>1. worker \in [Workers -> State]
    BY DEF IInv, State
<1>2. /\ worker' \in [Workers -> State]
      /\ worker'[w] = state
      /\ \A v \in Workers : v # w => worker'[v] = worker[v]
    BY <1>1, WorkerFields
<1>3. \A v \in Workers : \A u \in Users :
        /\ Works(v, u)' => Works(v, u)
        /\ On(v)' = u => On(v) = u
    BY <1>2, NobodyAssumption DEF Works, On, Busy
<1>4. WorkIsLive' /\ OneWorkerPerRequest'
    <2>1. WorkIsLive'
        BY <1>3 DEF IInv, WorkIsLive
    <2>2. OneWorkerPerRequest'
        BY <1>3 DEF IInv, OneWorkerPerRequest
    <2> QED BY <2>1, <2>2
<1>5. WorkersTyped'
    BY <1>2 DEF IInv, WorkersTyped, State, On
<1> QED BY <1>2, <1>4, <1>5 DEF IInv, State

\* A step of a worker that also writes its row.
LEMMA BothStep ==
    ASSUME IInv, NEW w \in Workers, NEW state \in State, WorkerGoes(w, state),
           NEW u \in Users, On(w) = u, NEW row, RowOK(row), Becomes(u, row),
           state.pc \notin {"idle", "claim"} => state.on \in Users,
           state.on \in {On(w), Nobody},
           Busy(state) => Busy(worker[w]) /\ state.on = On(w),
           \/ row.request = account[u].request
           \/ Busy(worker[w]) /\ ~ Busy(state),
           row.stale => account[u].stale,
           UNCHANGED cancelling
    PROVE  IInv'
<1>1. worker \in [Workers -> State] /\ account \in [Users -> Row] /\ row \in Row
    BY DEF IInv, State, RowOK
<1>2. /\ worker' \in [Workers -> State]
      /\ worker'[w] = state
      /\ \A v \in Workers : v # w => worker'[v] = worker[v]
    BY <1>1, WorkerFields
<1>3. /\ account' \in [Users -> Row]
      /\ account'[u] = row
      /\ \A v \in Users : v # u => account'[v] = account[v]
    BY <1>1, RowFields
<1>4. \A v \in Workers : \A x \in Users :
        /\ Works(v, x)' => Works(v, x)
        /\ On(v)' = x => On(v) = x
        /\ Works(v, x)' /\ x = u => row.request = account[u].request
    <2>1. \A v \in Workers : \A x \in Users :
            (Works(v, x)' => Works(v, x)) /\ (On(v)' = x => On(v) = x)
        BY <1>2, NobodyAssumption DEF Works, On, Busy
    <2>2. ASSUME NEW v \in Workers, Works(v, u)', row.request # account[u].request
          PROVE  FALSE
        <3>1. Works(w, u) /\ ~ Busy(state)
            BY <2>2 DEF Works, Busy, On
        <3>2. v = w
            BY <2>1, <2>2, <3>1 DEF IInv, OneWorkerPerRequest
        <3> QED BY <3>1, <3>2, <2>2, <1>2 DEF Works, Busy
    <2> QED BY <2>1, <2>2
<1>5. WorkIsLive'
    BY <1>3, <1>4 DEF IInv, WorkIsLive
<1>6. OneWorkerPerRequest'
    BY <1>4 DEF IInv, OneWorkerPerRequest
<1>7. WorkersTyped'
    BY <1>2 DEF IInv, WorkersTyped, State, On
<1>8. \A v \in Users : RowOK(account'[v])
    BY <1>3 DEF IInv
<1> QED BY <1>2, <1>3, <1>5, <1>6, <1>7, <1>8 DEF IInv, State

-----------------------------------------------------------------------------
(* Every action keeps the invariant.                                       *)

THEOREM InitIInv == Init => IInv
<1> SUFFICES ASSUME Init PROVE IInv
    OBVIOUS
<1>1. account \in [Users -> Row]
    BY LimitAssumption DEF Init, Row, Lifecycles, Statuses, Requests
<1>2. \A u \in Users : RowOK(account[u])
    BY <1>1 DEF Init, RowOK, Agree, Keeps, Open, Counts
<1>3. worker \in [Workers -> State] /\ WorkersTyped
    BY DEF Init, State, WorkersTyped, Steps, On
<1>4. WorkIsLive /\ OneWorkerPerRequest
    BY DEF Init, WorkIsLive, OneWorkerPerRequest, Works, On
<1> QED BY <1>1, <1>2, <1>3, <1>4 DEF Init, IInv, State

LEMMA OwnerStep ==
    ASSUME IInv, NEW u \in Users, ByOwner(u)
    PROVE  IInv'
<1>1. RowOK(account[u]) /\ account \in [Users -> Row] /\ account[u] \in Row
    BY DEF IInv, RowOK
<1>2. CASE Deactivate(u)
    <2> DEFINE row == [account[u] EXCEPT !.lifecycle = "deactivated", !.active = FALSE]
    <2>1. RowOK(row) /\ row.request = account[u].request /\ (row.stale => account[u].stale)
        BY <1>1, <1>2 DEF Deactivate, CanAuthenticate, RowOK, Row, Agree, Keeps, Open, Counts,
                          Lifecycles
    <2>2. Becomes(u, row) /\ cancelling' \in SUBSET Users /\ UNCHANGED worker
        BY <1>2 DEF Deactivate, IInv
    <2> HIDE DEF row
    <2> QED BY <2>1, <2>2, RowStep
<1>3. CASE Reactivate(u)
    <2> DEFINE row == [account[u] EXCEPT !.lifecycle = "active", !.active = TRUE, !.deleted = FALSE]
    <2>1. RowOK(row) /\ row.request = account[u].request /\ (row.stale => account[u].stale)
        BY <1>1, <1>3 DEF Reactivate, RowOK, Row, Agree, Keeps, Open, Counts, Lifecycles
    <2>2. Becomes(u, row) /\ cancelling' \in SUBSET Users /\ UNCHANGED worker
        BY <1>3 DEF Reactivate, IInv
    <2> HIDE DEF row
    <2> QED BY <2>1, <2>2, RowStep
<1>4. CASE RequestDeletion(u)
    <2> DEFINE row == [account[u] EXCEPT !.lifecycle = "pendingDeletion", !.active = FALSE,
                         !.request = "pending", !.due = FALSE, !.stale = FALSE,
                         !.retries = 0, !.attempts = 0, !.reported = FALSE]
    <2>1. RowOK(row)
        BY <1>1, <1>4, RequestedRow DEF RequestDeletion
    <2>2. ~ row.stale /\ account[u].request # "purging"
        BY <1>1, <1>4 DEF RequestDeletion, CanAuthenticate, Row, RowOK, Agree
    <2> QED BY <2>1, <2>2, <1>4, RowStep DEF RequestDeletion, IInv
<1>5. CASE BeginCancel(u)
    <2>1. cancelling' \in SUBSET Users /\ UNCHANGED <<account, worker>>
        BY <1>5 DEF BeginCancel, IInv
    <2> QED BY <2>1 DEF IInv, WorkersTyped, WorkIsLive, OneWorkerPerRequest, Works, On
<1>6. CASE Cancel(u)
    <2>1. cancelling' \in SUBSET Users /\ UNCHANGED worker
        BY <1>6 DEF Cancel, IInv
    <2>2. CASE UNCHANGED account
        BY <2>1, <2>2 DEF IInv, WorkersTyped, WorkIsLive, OneWorkerPerRequest, Works, On
    <2>3. CASE CanCancel(u) /\ account' # account
        <3> DEFINE row == [account[u] EXCEPT !.request = "cancelled", !.lifecycle = "active",
                             !.active = TRUE, !.deleted = FALSE]
        <3>1. RowOK(row) /\ Becomes(u, row)
            BY <1>1, <1>6, <2>3, CancelledRow DEF Cancel
        <3>2. row.stale = account[u].stale /\ account[u].request # "purging"
            BY <1>1, <2>3 DEF CanCancel, Row
        <3> QED BY <2>1, <3>1, <3>2, RowStep
    <2> QED BY <1>6, <2>2, <2>3 DEF Cancel
<1> QED BY <1>2, <1>3, <1>4, <1>5, <1>6 DEF ByOwner

LEMMA AdminStep ==
    ASSUME IInv, NEW u \in Users, ByAdmin(u)
    PROVE  IInv'
<1>1. RowOK(account[u]) /\ account \in [Users -> Row] /\ account[u] \in Row
    BY DEF IInv, RowOK
<1>2. CASE Warn(u)
    <2> DEFINE row == [account[u] EXCEPT !.status = "warned"]
    <2>1. RowOK(row) /\ row.request = account[u].request /\ (row.stale => account[u].stale)
        BY <1>1 DEF RowOK, Row, Agree, Keeps, Open, Counts, Statuses
    <2>2. Becomes(u, row) /\ cancelling' \in SUBSET Users /\ UNCHANGED worker
        BY <1>2 DEF Warn, IInv
    <2> HIDE DEF row
    <2> QED BY <2>1, <2>2, RowStep
<1>3. CASE Suspend(u)
    <2> DEFINE row == [account[u] EXCEPT !.status = "suspended"]
    <2>1. RowOK(row) /\ row.request = account[u].request /\ (row.stale => account[u].stale)
        BY <1>1, <1>3 DEF Suspend, Visible, RowOK, Row, Agree, Keeps, Open, Counts, Statuses
    <2>2. Becomes(u, row) /\ cancelling' \in SUBSET Users /\ UNCHANGED worker
        BY <1>3 DEF Suspend, IInv
    <2> HIDE DEF row
    <2> QED BY <2>1, <2>2, RowStep
<1>4. CASE AdminReactivate(u)
    <2> DEFINE row == [account[u] EXCEPT !.status = "active", !.active = TRUE,
                         !.lifecycle = "active"]
    <2>0. ~ account[u].deleted /\ account[u].lifecycle # "pendingDeletion"
        BY <1>1, <1>4 DEF AdminReactivate, AvailableActions, RowOK, Row
    <2>1. RowOK(row) /\ row.request = account[u].request /\ (row.stale => account[u].stale)
        BY <1>1, <2>0 DEF RowOK, Row, Agree, Keeps, Open, Counts, Statuses, Lifecycles
    <2>2. Becomes(u, row) /\ cancelling' \in SUBSET Users /\ UNCHANGED worker
        BY <1>4 DEF AdminReactivate, IInv
    <2> HIDE DEF row
    <2> QED BY <2>1, <2>2, RowStep
<1>5. CASE AdminDelete(u)
    <2> DEFINE row == [account[u] EXCEPT !.deleted = TRUE, !.active = FALSE,
                         !.lifecycle = "deleted"]
    <2>1. RowOK(row) /\ row.request = account[u].request /\ (row.stale => account[u].stale)
        BY <1>1, <1>5 DEF AdminDelete, Visible, RowOK, Row, Agree, Keeps, Open, Counts, Lifecycles
    <2>2. Becomes(u, row) /\ cancelling' \in SUBSET Users /\ UNCHANGED worker
        BY <1>5 DEF AdminDelete, IInv
    <2> HIDE DEF row
    <2> QED BY <2>1, <2>2, RowStep
<1>6. CASE AdminRestore(u)
    <2> DEFINE row == [account[u] EXCEPT !.deleted = FALSE, !.active = TRUE,
                         !.lifecycle = "active"]
    <2>0. account[u].deleted /\ ~ account[u].anonymized
        BY <1>1, <1>6 DEF AdminRestore, AvailableActions, RowOK, Row
    <2>1. RowOK(row) /\ row.request = account[u].request /\ (row.stale => account[u].stale)
        BY <1>1, <2>0 DEF RowOK, Row, Agree, Keeps, Open, Counts, Lifecycles
    <2>2. Becomes(u, row) /\ cancelling' \in SUBSET Users /\ UNCHANGED worker
        BY <1>6 DEF AdminRestore, IInv
    <2> HIDE DEF row
    <2> QED BY <2>1, <2>2, RowStep
<1>7. CASE AdminPurge(u)
    <2>0. account[u].request \notin {"pending", "purging", "failed"}
        BY <1>1, <1>7 DEF AdminPurge, AvailableActions, Visible, RowOK, Agree, Row
    <2>1. CASE Becomes(u, [Anonymized(account[u]) EXCEPT !.files = FALSE])
        <3> DEFINE row == [Anonymized(account[u]) EXCEPT !.files = FALSE]
        <3>1. RowOK(row)
            BY <1>1, <2>0, AnonymizedRow
        <3>2. row.request = account[u].request /\ (row.stale => account[u].stale)
            BY <1>1 DEF Anonymized, Row
        <3> QED BY <3>1, <3>2, <2>1, <1>7, RowStep DEF AdminPurge, IInv
    <2>2. CASE AdminPurgeMayFail /\ Becomes(u, [account[u] EXCEPT !.files = FALSE])
        <3> DEFINE row == [account[u] EXCEPT !.files = FALSE]
        <3>1. RowOK(row) /\ row.request = account[u].request /\ (row.stale => account[u].stale)
            BY <1>1, <2>2 DEF RowOK, Row, Agree, Keeps, Open, Counts
        <3> QED BY <3>1, <2>2, <1>7, RowStep DEF AdminPurge, IInv
    <2> QED BY <1>7, <2>1, <2>2 DEF AdminPurge
<1> QED BY <1>2, <1>3, <1>4, <1>5, <1>6, <1>7 DEF ByAdmin

LEMMA TimeStep ==
    ASSUME IInv, TimeLimitHolds, NEW u \in Users, ByTime(u)
    PROVE  IInv'
<1>1. RowOK(account[u]) /\ account \in [Users -> Row] /\ account[u] \in Row
    BY DEF IInv, RowOK
<1>2. CASE BecomesDue(u)
    <2> DEFINE row == [account[u] EXCEPT !.due = TRUE]
    <2>1. RowOK(row) /\ row.request = account[u].request /\ (row.stale => account[u].stale)
        BY <1>1 DEF RowOK, Row, Agree, Keeps, Open, Counts
    <2>2. Becomes(u, row) /\ cancelling' \in SUBSET Users /\ UNCHANGED worker
        BY <1>2 DEF BecomesDue, IInv
    <2> HIDE DEF row
    <2> QED BY <2>1, <2>2, RowStep
<1>3. CASE BecomesStale(u)
    <2> DEFINE row == [account[u] EXCEPT !.stale = TRUE]
    <2>1. RowOK(row) /\ row.request = account[u].request
        BY <1>1 DEF RowOK, Row, Agree, Keeps, Open, Counts
    <2>3. \A w \in Workers : On(w) # u
        BY <1>3 DEF BecomesStale
    <2>2. Becomes(u, row) /\ cancelling' \in SUBSET Users /\ UNCHANGED worker
        BY <1>3 DEF BecomesStale, IInv
    <2> HIDE DEF row
    <2> QED BY <2>1, <2>2, <2>3, RowStep
<1> QED BY <1>2, <1>3 DEF ByTime

LEMMA LockStep ==
    ASSUME IInv, NEW u \in Users, AbortDeadlock(u)
    PROVE  IInv'
<1>1. PICK w \in Workers : /\ Deadlocked(w, u)
                           /\ \/ cancelling' = cancelling \ {u} /\ UNCHANGED worker
                              \/ Goto(w, "record") /\ UNCHANGED cancelling
                           /\ UNCHANGED account
    BY DEF AbortDeadlock
<1>2. CASE cancelling' = cancelling \ {u} /\ UNCHANGED worker
    BY <1>1, <1>2 DEF IInv, WorkersTyped, WorkIsLive, OneWorkerPerRequest, Works, On
<1>3. CASE Goto(w, "record") /\ UNCHANGED cancelling
    <2> DEFINE state == [worker[w] EXCEPT !.pc = "record"]
    <2>1. worker[w] \in State /\ worker[w].pc = "lockUser" /\ On(w) \in Users
        BY <1>1 DEF IInv, State, Deadlocked, At
    <2>2. /\ state \in State /\ state.pc = "record" /\ state.on = On(w)
          /\ Busy(worker[w])
        BY <2>1 DEF State, Steps, Busy, On
    <2>3. WorkerGoes(w, state) /\ cancelling' \in SUBSET Users
        BY <1>3 DEF Goto, IInv
    <2> HIDE DEF state
    <2> QED BY <1>1, <2>1, <2>2, <2>3, WorkerStep
<1> QED BY <1>1, <1>2, <1>3

LEMMA FreshStates ==
    ASSUME NEW w \in Workers, worker[w] \in State
    PROVE  /\ [pc |-> "claim", on |-> Nobody, attempted |-> {}] \in State
           /\ [pc |-> "idle", on |-> Nobody, attempted |-> {}] \in State
           /\ [worker[w] EXCEPT !.pc = "claim", !.on = Nobody] \in State
           /\ ~ Busy([worker[w] EXCEPT !.pc = "claim", !.on = Nobody])
           /\ [worker[w] EXCEPT !.pc = "claim", !.on = Nobody].pc = "claim"
           /\ [worker[w] EXCEPT !.pc = "claim", !.on = Nobody].on = Nobody
           /\ \A step \in Steps : /\ [worker[w] EXCEPT !.pc = step] \in State
                                   /\ [worker[w] EXCEPT !.pc = step].pc = step
                                   /\ [worker[w] EXCEPT !.pc = step].on = On(w)
BY DEF State, Steps, Busy, On

\* The run goes to another step on the same request, and leaves the rows alone.
LEMMA GotoStep ==
    ASSUME IInv, NEW w \in Workers, NEW step \in Steps, Goto(w, step),
           step \notin {"idle", "claim"} => On(w) \in Users,
           step \in {"read", "files", "lockRequest", "lockUser", "record"} => Busy(worker[w]),
           UNCHANGED <<account, cancelling>>
    PROVE  IInv'
<1> DEFINE state == [worker[w] EXCEPT !.pc = step]
<1>1. worker[w] \in State
    BY DEF IInv, State
<1>2. state \in State /\ state.pc = step /\ state.on = On(w)
    BY <1>1, FreshStates
<1>3. WorkerGoes(w, state) /\ cancelling' \in SUBSET Users
    BY DEF Goto, IInv
<1>4. Busy(state) => Busy(worker[w])
    BY <1>2 DEF Busy
<1> HIDE DEF state
<1> QED BY <1>2, <1>3, <1>4, WorkerStep

\* It goes on with its next request, and leaves the rows alone.
LEMMA NextStep ==
    ASSUME IInv, NEW w \in Workers, NextRequest(w), UNCHANGED <<account, cancelling>>
    PROVE  IInv'
<1> DEFINE state == [worker[w] EXCEPT !.pc = "claim", !.on = Nobody]
<1>1. worker[w] \in State
    BY DEF IInv, State
<1>2. state \in State /\ ~ Busy(state) /\ state.pc = "claim" /\ state.on = Nobody
    BY <1>1, FreshStates
<1>3. WorkerGoes(w, state) /\ cancelling' \in SUBSET Users
    BY DEF NextRequest, IInv
<1> HIDE DEF state
<1> QED BY <1>2, <1>3, WorkerStep

\* It starts or ends.
LEMMA FreshStep ==
    ASSUME IInv, NEW w \in Workers, NEW step \in {"idle", "claim"},
           WorkerGoes(w, [pc |-> step, on |-> Nobody, attempted |-> {}]),
           UNCHANGED <<account, cancelling>>
    PROVE  IInv'
<1> DEFINE state == [pc |-> step, on |-> Nobody, attempted |-> {}]
<1>1. worker[w] \in State
    BY DEF IInv, State
<1>2. state \in State /\ ~ Busy(state) /\ state.pc \in {"idle", "claim"} /\ state.on = Nobody
    BY <1>1, FreshStates DEF Busy
<1>3. WorkerGoes(w, state) /\ cancelling' \in SUBSET Users
    BY DEF IInv
<1> HIDE DEF state
<1> QED BY <1>2, <1>3, WorkerStep

\* A new claim: nobody works on the request, and the run works on nothing else.
LEMMA ClaimStep ==
    ASSUME IInv, NEW w \in Workers, Claim(w)
    PROVE  IInv'
<1>1. PICK u \in Users :
        LET retries == account[u].retries + IF account[u].request = "purging" THEN 1 ELSE 0
        IN
        /\ CanClaim(w, u)
        /\ Becomes(u, [account[u] EXCEPT !.request = "purging", !.stale = FALSE,
                         !.retries = retries, !.attempts = @ + 1,
                         !.reported = @ \/ (/\ account[u].request = "purging"
                                            /\ retries >= RetryLimit)])
        /\ WorkerGoes(w, [pc |-> "read", on |-> u,
                          attempted |-> worker[w].attempted \union {u}])
    BY DEF Claim
<1> DEFINE retries == account[u].retries + IF account[u].request = "purging" THEN 1 ELSE 0
           reported == account[u].reported \/ (/\ account[u].request = "purging"
                                               /\ retries >= RetryLimit)
           row == [account[u] EXCEPT !.request = "purging", !.stale = FALSE,
                     !.retries = retries, !.attempts = @ + 1, !.reported = reported]
           state == [pc |-> "read", on |-> u, attempted |-> worker[w].attempted \union {u}]
<1>2. /\ RowOK(account[u]) /\ account \in [Users -> Row] /\ account[u] \in Row
      /\ worker \in [Workers -> State] /\ worker[w] \in State
    BY DEF IInv, RowOK, State
<1>3. Becomes(u, row) /\ WorkerGoes(w, state) /\ UNCHANGED cancelling
    BY <1>1 DEF Claim
<1>4. RowOK(row)
    <2>1. reported \in BOOLEAN
        BY <1>2 DEF Row
    <2>2. \/ account[u].request = "pending" /\ account[u].due /\ retries = account[u].retries
          \/ account[u].request = "failed" /\ account[u].retries < RetryLimit
             /\ retries = account[u].retries
          \/ account[u].request = "purging" /\ account[u].retries < RetryLimit
             /\ retries = account[u].retries + 1
        <3>1. Claimable(u) /\ account[u].retries \in Nat
            BY <1>1, <1>2, LimitAssumption DEF CanClaim, Row
        <3> QED BY <3>1 DEF Claimable
    <2> HIDE DEF retries, reported
    <2> QED BY <1>2, <2>1, <2>2, ClaimedRow
<1>5. row.request = "purging" /\ ~ row.stale
    BY <1>2 DEF Row
<1>6. state \in State /\ state.pc = "read" /\ state.on = u
    BY <1>2 DEF State, Steps
<1>7. \A v \in Workers : ~ Works(v, u)
    <2>1. account[u].request # "purging" \/ account[u].stale
        BY <1>1 DEF CanClaim, Claimable
    <2> QED BY <2>1 DEF IInv, WorkIsLive, Works
<1> HIDE DEF retries, reported, row, state
<1>8. /\ worker' \in [Workers -> State]
      /\ worker'[w] = state
      /\ \A v \in Workers : v # w => worker'[v] = worker[v]
    BY <1>2, <1>3, <1>6, WorkerFields
<1>9. /\ account' \in [Users -> Row]
      /\ account'[u] = row
      /\ \A v \in Users : v # u => account'[v] = account[v]
    BY <1>2, <1>3, <1>4, RowFields DEF RowOK
<1>10. \A x \in Users : RowOK(account'[x])
    BY <1>4, <1>9 DEF IInv
<1>11. \A v \in Workers : \A x \in Users :
         /\ Works(v, x)' => (Works(v, x) /\ x # u) \/ (v = w /\ x = u)
         /\ On(v)' = x => On(v) = x \/ x = u
    BY <1>6, <1>7, <1>8 DEF Works, On
<1>12. WorkIsLive'
    BY <1>5, <1>9, <1>11 DEF IInv, WorkIsLive
<1>13. OneWorkerPerRequest'
    BY <1>11 DEF IInv, OneWorkerPerRequest
<1>14. WorkersTyped'
    BY <1>6, <1>8 DEF IInv, WorkersTyped, State, On
<1> QED BY <1>3, <1>8, <1>9, <1>10, <1>12, <1>13, <1>14 DEF IInv, State

LEMMA WorkStep ==
    ASSUME IInv, NEW w \in Workers, Work(w)
    PROVE  IInv'
<1> DEFINE u == On(w)
<1>1. worker[w] \in State /\ account \in [Users -> Row]
    BY DEF IInv, State
<1>2. u \in Users /\ RowOK(account[u]) /\ account[u] \in Row
    <2>1. worker[w].pc \notin {"idle", "claim"}
        BY DEF Work, Read, DeleteFiles, LockRequest, Purge, RecordFailure, Report, At
    <2> QED BY <2>1 DEF IInv, WorkersTyped, RowOK
<1>3. Busy(worker[w]) => account[u].request = "purging"
    BY <1>2 DEF IInv, WorkIsLive, Works, Busy, On
<1>4. {"read", "files", "lockRequest", "lockUser", "record", "report"} \subseteq Steps
    BY DEF Steps
<1>5. CASE Read(w) \/ LockRequest(w)
    <2>1. Busy(worker[w]) /\ UNCHANGED <<account, cancelling>>
        BY <1>5 DEF Read, LockRequest, At, Busy
    <2>2. Goto(w, "files") \/ Goto(w, "lockUser") \/ NextRequest(w)
        BY <1>5 DEF Read, LockRequest
    <2>3. CASE Goto(w, "files")
        BY <1>2, <1>4, <2>1, <2>3, GotoStep
    <2>4. CASE Goto(w, "lockUser")
        BY <1>2, <1>4, <2>1, <2>4, GotoStep
    <2> QED BY <2>1, <2>2, <2>3, <2>4, NextStep
<1>6. CASE DeleteFiles(w)
    <2> DEFINE row == [account[u] EXCEPT !.files = FALSE]
    <2>1. Busy(worker[w])
        BY <1>6 DEF DeleteFiles, At, Busy
    <2>2. Becomes(u, row) /\ UNCHANGED cancelling
        BY <1>6 DEF DeleteFiles
    <2>3. RowOK(row) /\ row.request = account[u].request /\ (row.stale => account[u].stale)
        BY <1>2, <1>3, <2>1 DEF RowOK, Row, Agree, Keeps, Open, Counts
    <2>4. PICK step \in {"lockRequest", "record"} : Goto(w, step)
        BY <1>6 DEF DeleteFiles
    <2> DEFINE state == [worker[w] EXCEPT !.pc = step]
    <2>5. /\ state \in State /\ state.pc = step /\ state.on = On(w)
          /\ WorkerGoes(w, state)
        BY <1>1, <1>4, <2>4, FreshStates DEF Goto
    <2> HIDE DEF row, state
    <2> QED BY <1>2, <2>1, <2>2, <2>3, <2>4, <2>5, BothStep
<1>7. CASE Purge(w)
    <2> DEFINE row == [Anonymized(account[u]) EXCEPT !.request = "completed", !.stale = FALSE]
               state == [worker[w] EXCEPT !.pc = "claim", !.on = Nobody]
    <2>1. Busy(worker[w])
        BY <1>7 DEF Purge, At, Busy
    <2>2. Becomes(u, row) /\ WorkerGoes(w, state) /\ UNCHANGED cancelling
        BY <1>7 DEF Purge, NextRequest
    <2>3. RowOK(row)
        BY <1>2, <1>3, <2>1, PurgedRow
    <2>4. ~ row.stale
        BY <1>2 DEF Row, Anonymized
    <2>5. state \in State /\ state.pc = "claim" /\ state.on = Nobody /\ ~ Busy(state)
        BY <1>1, FreshStates
    <2> HIDE DEF row, state
    <2> QED BY <1>2, <2>1, <2>2, <2>3, <2>4, <2>5, BothStep
<1>8. CASE RecordFailure(w)
    <2> DEFINE row == [account[u] EXCEPT !.request = "failed", !.stale = FALSE, !.retries = @ + 1]
               state == [worker[w] EXCEPT !.pc = "report"]
    <2>1. Busy(worker[w])
        BY <1>8 DEF RecordFailure, At, Busy
    <2>2. Becomes(u, row) /\ WorkerGoes(w, state) /\ UNCHANGED cancelling
        BY <1>8 DEF RecordFailure, Goto
    <2>3. RowOK(row)
        BY <1>2, <1>3, <2>1, FailedRow
    <2>4. ~ row.stale
        BY <1>2 DEF Row
    <2>5. state \in State /\ state.pc = "report" /\ state.on = On(w)
        BY <1>1, <1>4, FreshStates
    <2>6. ~ Busy(state)
        BY <2>5 DEF Busy
    <2> HIDE DEF row, state
    <2> QED BY <1>2, <2>1, <2>2, <2>3, <2>4, <2>5, <2>6, BothStep
<1>9. CASE Report(w)
    <2> DEFINE row == [account[u] EXCEPT
                         !.reported = @ \/ account[u].retries >= RetryLimit]
               state == [worker[w] EXCEPT !.pc = "claim", !.on = Nobody]
    <2>1. Becomes(u, row) /\ WorkerGoes(w, state) /\ UNCHANGED cancelling
        BY <1>9 DEF Report, NextRequest
    <2>2. RowOK(row) /\ row.request = account[u].request /\ (row.stale => account[u].stale)
        BY <1>2 DEF RowOK, Row, Agree, Keeps, Open, Counts
    <2>3. state \in State /\ state.pc = "claim" /\ state.on = Nobody /\ ~ Busy(state)
        BY <1>1, FreshStates
    <2> HIDE DEF row, state
    <2> QED BY <1>2, <2>1, <2>2, <2>3, BothStep
<1> QED BY <1>5, <1>6, <1>7, <1>8, <1>9 DEF Work

LEMMA RunStep ==
    ASSUME IInv, NEW w \in Workers, ByWorker(w)
    PROVE  IInv'
<1>1. CASE StartRun(w) \/ EndRun(w) \/ Die(w)
    <2>1. PICK step \in {"idle", "claim"} :
            WorkerGoes(w, [pc |-> step, on |-> Nobody, attempted |-> {}])
        BY <1>1 DEF StartRun, EndRun, Die
    <2> QED BY <1>1, <2>1, FreshStep DEF StartRun, EndRun, Die
<1>3. CASE Fail(w)
    <2>1. Busy(worker[w]) /\ On(w) \in Users /\ "record" \in Steps
        BY <1>3 DEF Fail, Busy, IInv, WorkersTyped, Steps
    <2> QED BY <1>3, <2>1, GotoStep DEF Fail
<1> QED BY <1>1, <1>3, ClaimStep, WorkStep DEF ByWorker

THEOREM Invariance ==
    ASSUME TimeLimitHolds
    PROVE  Spec => []IInv
<1>1. IInv /\ [Next]_vars => IInv'
    <2> SUFFICES ASSUME IInv, [Next]_vars PROVE IInv'
        OBVIOUS
    <2>1. CASE Next
        BY <2>1, OwnerStep, AdminStep, TimeStep, LockStep, RunStep DEF Next
    <2>2. CASE UNCHANGED vars
        BY <2>2 DEF vars, IInv, WorkersTyped, WorkIsLive, OneWorkerPerRequest, Works, On
    <2> QED BY <2>1, <2>2
<1> QED BY InitIInv, <1>1, PTL DEF Spec

-----------------------------------------------------------------------------
(* The theorems.                                                           *)

\* The state has its type.
THEOREM TypeCorrect ==
    ASSUME TimeLimitHolds
    PROVE  Spec => []TypeOK
<1>1. IInv => TypeOK
    BY DEF IInv, TypeOK, Row
<1> QED BY <1>1, Invariance, PTL

\* is_active, deleted_at, lifecycle_state and the deletion request always agree.
THEOREM ColumnsHold ==
    ASSUME TimeLimitHolds
    PROVE  Spec => []ColumnsAgree
<1>1. IInv => ColumnsAgree
    BY DEF IInv, RowOK, Agree, ColumnsAgree
<1> QED BY <1>1, Invariance, PTL

\* What can be brought back has its files, unless a permanent deletion by an
\* administrator fails halfway.
THEOREM FilesHold ==
    ASSUME TimeLimitHolds, ~ AdminPurgeMayFail
    PROVE  Spec => []WhatReturnsHasItsFiles
<1>1. IInv => WhatReturnsHasItsFiles
    BY DEF IInv, RowOK, Keeps, WhatReturnsHasItsFiles
<1> QED BY <1>1, Invariance, PTL

\* No account that reactivation or cancellation opens is suspended.
THEOREM SuspensionsHold ==
    ASSUME TimeLimitHolds
    PROVE  Spec => []RecoveryOpensNoSuspendedAccount
<1>1. IInv => RecoveryOpensNoSuspendedAccount
    BY DEF IInv, RowOK, Open, RecoveryOpensNoSuspendedAccount
<1> QED BY <1>1, Invariance, PTL

\* A deletion is attempted at most once more than it may be retried.
THEOREM AttemptsHold ==
    ASSUME TimeLimitHolds
    PROVE  Spec => []AttemptsAreBounded
<1>1. IInv => AttemptsAreBounded
    BY LimitAssumption DEF IInv, RowOK, Row, AttemptsAreBounded
<1> QED BY <1>1, Invariance, PTL

\* No two runs work on one request.
THEOREM ClaimsHold ==
    ASSUME TimeLimitHolds
    PROVE  Spec => []OneWorkerPerRequest
<1>1. IInv => OneWorkerPerRequest
    BY DEF IInv
<1> QED BY <1>1, Invariance, PTL

\* How the deletion request of an account moves, unless a worker claims it.
Moves(before, after) ==
    \/ after.request = before.request
    \/ before.request \in {"none", "cancelled"} /\ after.request = "pending"
    \/ before.request = "pending" /\ after.request = "cancelled"
    \/ before.request = "purging" /\ after.request = "failed"
    \/ /\ before.request = "purging" /\ after.request = "completed"
       /\ before.due /\ before.lifecycle = "pendingDeletion"

\* A worker claims the request, and works on it then.
Claimed(x) ==
    /\ account[x].request \in {"pending", "failed"}
    /\ account'[x].request = "purging"
    /\ \E w \in Workers : Works(w, x)'

LEMMA MovesTo ==
    ASSUME account \in [Users -> Row], NEW u \in Users, NEW row, Becomes(u, row),
           Moves(account[u], row)
    PROVE  \A x \in Users : Moves(account[x], account'[x])
BY DEF Becomes, Moves

LEMMA RequestMoves ==
    ASSUME IInv, [Next]_vars
    PROVE  \A x \in Users : Moves(account[x], account'[x]) \/ Claimed(x)
<1> USE DEF Moves
<1>0. CASE UNCHANGED account
    BY <1>0
<1>1. account \in [Users -> Row] /\ \A x \in Users : account[x] \in Row /\ RowOK(account[x])
    BY DEF IInv, RowOK
<1>2. ASSUME NEW u \in Users, ByOwner(u), account' # account
      PROVE  \A x \in Users : Moves(account[x], account'[x])
    <2>1. CASE Deactivate(u)
        <3> DEFINE row == [account[u] EXCEPT !.lifecycle = "deactivated", !.active = FALSE]
        <3>1. row.request = account[u].request
            BY <1>1 DEF Row
        <3>2. Becomes(u, row)
            BY <2>1 DEF Deactivate
        <3> HIDE DEF row
        <3> QED BY <1>1, <3>1, <3>2, MovesTo
    <2>4. CASE Reactivate(u)
        <3> DEFINE row == [account[u] EXCEPT !.lifecycle = "active", !.active = TRUE,
                             !.deleted = FALSE]
        <3>1. row.request = account[u].request
            BY <1>1 DEF Row
        <3>2. Becomes(u, row)
            BY <2>4 DEF Reactivate
        <3> HIDE DEF row
        <3> QED BY <1>1, <3>1, <3>2, MovesTo
    <2>2. CASE RequestDeletion(u)
        <3>1. account[u].request \in {"none", "cancelled"}
            BY <1>1, <2>2 DEF RequestDeletion, CanAuthenticate, RowOK, Agree, Row, Requests
        <3> QED BY <1>1, <2>2, <3>1 DEF RequestDeletion, Becomes, Row
    <2>3. CASE Cancel(u)
        <3>1. CanCancel(u) /\ Becomes(u, [account[u] EXCEPT !.request = "cancelled", !.lifecycle = "active",
                                            !.active = TRUE, !.deleted = FALSE])
            BY <1>2, <2>3 DEF Cancel
        <3> DEFINE row == [account[u] EXCEPT !.request = "cancelled", !.lifecycle = "active",
                             !.active = TRUE, !.deleted = FALSE]
        <3>2. row.request = "cancelled" /\ account[u].request = "pending"
            BY <1>1, <3>1 DEF CanCancel, Row
        <3>3. Becomes(u, row)
            BY <3>1
        <3> HIDE DEF row
        <3> QED BY <1>1, <3>2, <3>3, MovesTo
    <2> QED BY <1>0, <1>2, <2>1, <2>2, <2>3, <2>4 DEF ByOwner, BeginCancel
<1>3. ASSUME NEW u \in Users, ByAdmin(u) \/ ByTime(u) \/ AbortDeadlock(u), account' # account
      PROVE  \A x \in Users : Moves(account[x], account'[x])
    <2>0. account[u] \in Row /\ account \in [Users -> Row]
        BY <1>1
    <2>1. CASE Warn(u) \/ Suspend(u)
        BY <2>0, <2>1 DEF Warn, Suspend, Becomes, Row
    <2>2. CASE AdminReactivate(u)
        <3> DEFINE row == [account[u] EXCEPT !.status = "active", !.active = TRUE,
                             !.lifecycle = "active"]
        <3>1. row.request = account[u].request
            BY <2>0 DEF Row
        <3>2. Becomes(u, row)
            BY <2>2 DEF AdminReactivate
        <3> HIDE DEF row
        <3> QED BY <2>0, <3>1, <3>2, MovesTo
    <2>5. CASE AdminDelete(u)
        <3> DEFINE row == [account[u] EXCEPT !.deleted = TRUE, !.active = FALSE,
                             !.lifecycle = "deleted"]
        <3>1. row.request = account[u].request
            BY <2>0 DEF Row
        <3>2. Becomes(u, row)
            BY <2>5 DEF AdminDelete
        <3> HIDE DEF row
        <3> QED BY <2>0, <3>1, <3>2, MovesTo
    <2>6. CASE AdminRestore(u)
        <3> DEFINE row == [account[u] EXCEPT !.deleted = FALSE, !.active = TRUE,
                             !.lifecycle = "active"]
        <3>1. row.request = account[u].request
            BY <2>0 DEF Row
        <3>2. Becomes(u, row)
            BY <2>6 DEF AdminRestore
        <3> HIDE DEF row
        <3> QED BY <2>0, <3>1, <3>2, MovesTo
    <2>3. CASE AdminPurge(u)
        <3>1. /\ [Anonymized(account[u]) EXCEPT !.files = FALSE].request = account[u].request
              /\ [account[u] EXCEPT !.files = FALSE].request = account[u].request
            BY <2>0 DEF Anonymized, Row
        <3>2. \/ Becomes(u, [Anonymized(account[u]) EXCEPT !.files = FALSE])
              \/ Becomes(u, [account[u] EXCEPT !.files = FALSE])
            BY <2>3 DEF AdminPurge
        <3> QED BY <2>0, <3>1, <3>2, MovesTo
    <2>4. CASE BecomesDue(u) \/ BecomesStale(u)
        BY <2>0, <2>4 DEF BecomesDue, BecomesStale, Becomes, Row
    <2> QED BY <1>3, <2>1, <2>2, <2>3, <2>4, <2>5, <2>6 DEF ByAdmin, ByTime, AbortDeadlock
<1>4. ASSUME NEW w \in Workers, Claim(w)
      PROVE  \A x \in Users : Moves(account[x], account'[x]) \/ Claimed(x)
    <2>1. PICK u \in Users :
            LET retries == account[u].retries + IF account[u].request = "purging" THEN 1 ELSE 0
            IN
            /\ CanClaim(w, u)
            /\ Becomes(u, [account[u] EXCEPT !.request = "purging", !.stale = FALSE,
                             !.retries = retries, !.attempts = @ + 1,
                             !.reported = @ \/ (/\ account[u].request = "purging"
                                                /\ retries >= RetryLimit)])
            /\ WorkerGoes(w, [pc |-> "read", on |-> u,
                              attempted |-> worker[w].attempted \union {u}])
        BY <1>4 DEF Claim
    <2>0. CanClaim(w, u)
        BY <2>1
    <2>2. account[u].request \in {"pending", "failed", "purging"}
        BY <2>0 DEF CanClaim, Claimable
    <2> DEFINE retries == account[u].retries + IF account[u].request = "purging" THEN 1 ELSE 0
               row == [account[u] EXCEPT !.request = "purging", !.stale = FALSE,
                         !.retries = retries, !.attempts = @ + 1,
                         !.reported = @ \/ (/\ account[u].request = "purging"
                                            /\ retries >= RetryLimit)]
    <2>3. Becomes(u, row)
        BY <2>1
    <2>4. row.request = "purging"
        BY <1>1 DEF Row
    <2> HIDE DEF row
    <2>5. account'[u] = row /\ \A x \in Users : x # u => account'[x] = account[x]
        BY <1>1, <2>3 DEF Becomes
    <2> DEFINE state == [pc |-> "read", on |-> u, attempted |-> worker[w].attempted \union {u}]
    <2>6. state.pc = "read" /\ state.on = u
        OBVIOUS
    <2>7. WorkerGoes(w, state) /\ worker \in [Workers -> State]
        BY <2>1 DEF IInv, State
    <2> HIDE DEF state
    <2>8. worker'[w] = state
        BY <2>7 DEF WorkerGoes
    <2>9. Works(w, u)'
        BY <2>6, <2>8 DEF Works, On
    <2> QED BY <2>2, <2>4, <2>5, <2>9 DEF Claimed
<1>5. ASSUME NEW w \in Workers, Work(w), account' # account
      PROVE  \A x \in Users : Moves(account[x], account'[x])
    <2> DEFINE u == On(w)
    <2>1. u \in Users /\ (Busy(worker[w]) => account[u].request = "purging")
        <3>1. worker[w].pc \notin {"idle", "claim"}
            BY <1>5 DEF Work, Read, DeleteFiles, LockRequest, Purge, RecordFailure, Report, At
        <3>2. u \in Users
            BY <3>1 DEF IInv, WorkersTyped
        <3> QED BY <3>2 DEF IInv, WorkIsLive, Works, Busy
    <2>2. CASE DeleteFiles(w) \/ Report(w)
        <3>1. PICK row : Becomes(u, row) /\ row.request = account[u].request
            BY <1>1, <2>1, <2>2 DEF DeleteFiles, Report, Row
        <3> QED BY <1>1, <2>1, <3>1 DEF Becomes
    <2>3. CASE Purge(w)
        <3>1. account[u].request = "purging"
            BY <2>1, <2>3 DEF Purge, At, Busy
        <3>2. account[u].due /\ account[u].lifecycle = "pendingDeletion"
            BY <1>1, <2>1, <3>1 DEF RowOK, Agree, Counts
        <3> DEFINE row == [Anonymized(account[u]) EXCEPT !.request = "completed", !.stale = FALSE]
        <3>3. row.request = "completed"
            BY <1>1, <2>1 DEF Anonymized, Row
        <3>4. Becomes(u, row)
            BY <2>3 DEF Purge
        <3> HIDE DEF row
        <3> QED BY <1>1, <2>1, <3>1, <3>2, <3>3, <3>4, MovesTo
    <2>4. CASE RecordFailure(w)
        <3>1. account[u].request = "purging"
            BY <2>1, <2>4 DEF RecordFailure, At, Busy
        <3> DEFINE row == [account[u] EXCEPT !.request = "failed", !.stale = FALSE,
                             !.retries = @ + 1]
        <3>2. row.request = "failed"
            BY <1>1, <2>1 DEF Row
        <3>3. Becomes(u, row)
            BY <2>4 DEF RecordFailure
        <3> HIDE DEF row
        <3> QED BY <1>1, <2>1, <3>1, <3>2, <3>3, MovesTo
    <2> QED BY <1>5, <1>0, <2>2, <2>3, <2>4 DEF Work, Read, LockRequest
<1>6. ASSUME NEW w \in Workers, StartRun(w) \/ EndRun(w) \/ Fail(w) \/ Die(w)
      PROVE  UNCHANGED account
    BY <1>6 DEF StartRun, EndRun, Fail, Die
<1> QED BY <1>0, <1>2, <1>3, <1>4, <1>5, <1>6 DEF Next, ByWorker, vars

\* What a purge has begun on is not given back.
THEOREM PurgesStay ==
    ASSUME TimeLimitHolds
    PROVE  Spec => PurgesAreNotUndone
<1>1. IInv /\ [Next]_vars =>
        [\A u \in Users : account[u].request \in {"purging", "failed"} =>
            account'[u].request \in {"purging", "failed", "completed"}]_vars
    BY RequestMoves DEF Moves, Claimed
<1> QED BY <1>1, Invariance, PTL DEF Spec, PurgesAreNotUndone

\* What is complete stays complete.
THEOREM CompletedStays ==
    ASSUME TimeLimitHolds
    PROVE  Spec => CompletedIsFinal
<1>1. IInv /\ [Next]_vars =>
        [\A u \in Users : account[u].request = "completed" =>
            account'[u].request = "completed"]_vars
    BY RequestMoves DEF Moves, Claimed
<1> QED BY <1>1, Invariance, PTL DEF Spec, CompletedIsFinal

\* Workers purge what is due and was not cancelled.
THEOREM PurgesAreDue ==
    ASSUME TimeLimitHolds
    PROVE  Spec => OnlyDueAccountsArePurged
<1>1. IInv /\ [Next]_vars =>
        [\A u \in Users :
            account[u].request # "completed" /\ account'[u].request = "completed" =>
                account[u].due /\ account[u].lifecycle = "pendingDeletion"]_vars
    BY RequestMoves DEF Moves, Claimed
<1> QED BY <1>1, Invariance, PTL DEF Spec, OnlyDueAccountsArePurged

\* What is found PURGING with nobody at work was in the hands of a worker one step
\* before: only the death of its run leaves a request behind.
THEOREM StrandedWasInFlight ==
    ASSUME TimeLimitHolds
    PROVE  Spec => OnlyWorkInFlightIsStranded
<1>1. IInv /\ [Next]_vars =>
        [\A u \in Stranded' \ Stranded : \E w \in Workers : Works(w, u)]_vars
    <2> SUFFICES ASSUME IInv, [Next]_vars, NEW u \in Stranded', u \notin Stranded
                 PROVE  \E w \in Workers : Works(w, u)
        OBVIOUS
    <2>1. u \in Users /\ account'[u].request = "purging" /\ ~ Claimed(u)
        BY DEF Stranded, Claimed
    <2>2. account[u].request = "purging"
        BY <2>1, RequestMoves DEF Moves
    <2> QED BY <2>1, <2>2 DEF Stranded
<1> QED BY <1>1, Invariance, PTL DEF Spec, OnlyWorkInFlightIsStranded

-----------------------------------------------------------------------------
(* AccountLifecycle keeps DeletionPromise, for any accounts and workers.   *)
(* The steps are compared row by row, under the invariant above and one    *)
(* more: a run that holds or waits for the locks of its transaction has    *)
(* deleted the files before.                                               *)

ErasedFirst ==
    \A w \in Workers :
        worker[w].pc \in {"lockRequest", "lockUser"} => ~ account[On(w)].files

\* CanAuthenticate, of a row.
Usable(a) ==
    /\ ~ a.deleted
    /\ a.lifecycle = "active" /\ a.active
    /\ a.status # "suspended"

\* What the promise lets become of row a: row b, seen as Phase, Usable and files.
Allowed(a, b) ==
    \/ Phase(b) = Phase(a) /\ Usable(b) = Usable(a) /\ b.files = a.files
    \/ Phase(a) = "kept" /\ Phase(b) = "kept" /\ b.files = a.files
    \/ /\ Phase(a) = "kept" /\ Usable(a)
       /\ Phase(b) = "waiting" /\ ~ Usable(b) /\ b.files = a.files
    \/ Phase(a) = "waiting" /\ Phase(b) = "kept" /\ Usable(b) /\ b.files = a.files
    \/ /\ Phase(a) = "waiting" /\ Phase(b) = "due"
       /\ Usable(b) = Usable(a) /\ b.files = a.files
    \/ /\ Phase(a) = "due" /\ Phase(b) = "deleting"
       /\ Usable(b) = Usable(a) /\ b.files = a.files
    \/ /\ Phase(a) = "deleting" /\ Phase(b) = "deleting"
       /\ Usable(b) = Usable(a) /\ ~ b.files
    \/ /\ Phase(a) = "deleting" /\ ~ a.files /\ Phase(b) = "deleted"
       /\ Usable(b) = Usable(a) /\ b.files = a.files
    \/ Phase(a) = "kept" /\ Phase(b) = "deleted" /\ ~ Usable(b) /\ ~ b.files
    \/ Phase(a) = "kept" /\ Phase(b) = "kept" /\ Usable(b) = Usable(a) /\ ~ b.files

LEMMA OpenIsUsable == \A u \in Users : CanAuthenticate(u) <=> Usable(account[u])
BY DEF CanAuthenticate, Usable

-----------------------------------------------------------------------------
(* One row at a time.                                                      *)

\* What a step makes of the abstract state when it changes one row.
LEMMA AbstractFields ==
    ASSUME account \in [Users -> Row], NEW u \in Users, NEW row \in Row, Becomes(u, row)
    PROVE  /\ [x \in Users |-> Phase(account[x])]' =
                [[x \in Users |-> Phase(account[x])] EXCEPT ![u] = Phase(row)]
           /\ {x \in Users : CanAuthenticate(x)}' =
                ({x \in Users : CanAuthenticate(x)} \ {u}) \union (IF Usable(row) THEN {u} ELSE {})
           /\ {x \in Users : account[x].files}' =
                ({x \in Users : account[x].files} \ {u}) \union (IF row.files THEN {u} ELSE {})
<1>1. /\ account'[u] = row
      /\ \A v \in Users : v # u => account'[v] = account[v]
    BY RowFields
<1>2. \A x \in Users : CanAuthenticate(x)' <=> Usable(account'[x])
    BY DEF CanAuthenticate, Usable
<1>3. [x \in Users |-> Phase(account[x])]' =
        [[x \in Users |-> Phase(account[x])] EXCEPT ![u] = Phase(row)]
    <2> DEFINE before == [x \in Users |-> Phase(account[x])]
               after == [x \in Users |-> Phase(account'[x])]
    <2>1. \A x \in Users : after[x] = IF x = u THEN Phase(row) ELSE before[x]
        BY <1>1
    <2>2. after = [x \in Users |-> IF x = u THEN Phase(row) ELSE before[x]]
        BY <2>1
    <2> QED BY <2>2
<1>4. {x \in Users : CanAuthenticate(x)}' =
        ({x \in Users : CanAuthenticate(x)} \ {u}) \union (IF Usable(row) THEN {u} ELSE {})
    BY <1>1, <1>2, OpenIsUsable
<1>5. {x \in Users : account[x].files}' =
        ({x \in Users : account[x].files} \ {u}) \union (IF row.files THEN {u} ELSE {})
    BY <1>1
<1> QED BY <1>3, <1>4, <1>5

LEMMA AllowedStep ==
    ASSUME account \in [Users -> Row], NEW u \in Users, NEW row \in Row, Becomes(u, row),
           Allowed(account[u], row)
    PROVE  [Promise!Next]_(Promise!vars)
<1> DEFINE phase == [x \in Users |-> Phase(account[x])]
           open == {x \in Users : CanAuthenticate(x)}
           files == {x \in Users : account[x].files}
<1>1. /\ phase' = [phase EXCEPT ![u] = Phase(row)]
      /\ open' = (open \ {u}) \union (IF Usable(row) THEN {u} ELSE {})
      /\ files' = (files \ {u}) \union (IF row.files THEN {u} ELSE {})
    BY AbstractFields
<1>2. /\ phase[u] = Phase(account[u])
      /\ u \in open <=> Usable(account[u])
      /\ u \in files <=> account[u].files
    BY OpenIsUsable
<1>3. phase = [phase EXCEPT ![u] = Phase(account[u])]
    OBVIOUS
<1>4. CASE Phase(row) = Phase(account[u]) /\ Usable(row) = Usable(account[u])
           /\ row.files = account[u].files
    BY <1>1, <1>2, <1>3, <1>4 DEF Promise!vars
<1>5. CASE Phase(account[u]) = "kept" /\ Phase(row) = "kept" /\ row.files = account[u].files
    <2>1. phase[u] = "kept" /\ UNCHANGED <<phase, files>>
        BY <1>1, <1>2, <1>3, <1>5
    <2>2. CASE Usable(row)
        <3>1. Promise!Reopen(u)
            BY <1>1, <2>1, <2>2 DEF Promise!Reopen
        <3> QED BY <3>1 DEF Promise!Next
    <2>3. CASE ~ Usable(row)
        <3>1. Promise!Close(u)
            BY <1>1, <2>1, <2>3 DEF Promise!Close
        <3> QED BY <3>1 DEF Promise!Next
    <2> QED BY <2>2, <2>3
<1>6. CASE /\ Phase(account[u]) = "kept" /\ Usable(account[u])
           /\ Phase(row) = "waiting" /\ ~ Usable(row) /\ row.files = account[u].files
    <2>1. Promise!Ask(u)
        BY <1>1, <1>2, <1>6 DEF Promise!Ask, Promise!Goes
    <2> QED BY <2>1 DEF Promise!Next
<1>7. CASE /\ Phase(account[u]) = "waiting" /\ Phase(row) = "kept" /\ Usable(row)
           /\ row.files = account[u].files
    <2>1. Promise!Cancel(u)
        BY <1>1, <1>2, <1>7 DEF Promise!Cancel, Promise!Goes
    <2> QED BY <2>1 DEF Promise!Next
<1>8. CASE /\ Phase(account[u]) = "waiting" /\ Phase(row) = "due"
           /\ Usable(row) = Usable(account[u]) /\ row.files = account[u].files
    <2>1. Promise!Lapse(u)
        BY <1>1, <1>2, <1>8 DEF Promise!Lapse, Promise!Goes
    <2> QED BY <2>1 DEF Promise!Next
<1>9. CASE /\ Phase(account[u]) = "due" /\ Phase(row) = "deleting"
           /\ Usable(row) = Usable(account[u]) /\ row.files = account[u].files
    <2>1. Promise!Begin(u)
        BY <1>1, <1>2, <1>9 DEF Promise!Begin, Promise!Goes
    <2> QED BY <2>1 DEF Promise!Next
<1>10. CASE /\ Phase(account[u]) = "deleting" /\ Phase(row) = "deleting"
            /\ Usable(row) = Usable(account[u]) /\ ~ row.files
    <2>1. Promise!Erase(u)
        BY <1>1, <1>2, <1>3, <1>10 DEF Promise!Erase
    <2> QED BY <2>1 DEF Promise!Next
<1>11. CASE /\ Phase(account[u]) = "deleting" /\ ~ account[u].files /\ Phase(row) = "deleted"
            /\ Usable(row) = Usable(account[u]) /\ row.files = account[u].files
    <2>1. Promise!Finish(u)
        BY <1>1, <1>2, <1>11 DEF Promise!Finish, Promise!Goes
    <2> QED BY <2>1 DEF Promise!Next
<1>12. CASE Phase(account[u]) = "kept" /\ Phase(row) = "deleted" /\ ~ Usable(row) /\ ~ row.files
    <2>1. Promise!Remove(u)
        BY <1>1, <1>2, <1>12 DEF Promise!Remove, Promise!Goes
    <2> QED BY <2>1 DEF Promise!Next
<1>13. CASE /\ Phase(account[u]) = "kept" /\ Phase(row) = "kept"
            /\ Usable(row) = Usable(account[u]) /\ ~ row.files
    <2>1. Promise!FailToRemove(u)
        BY <1>1, <1>2, <1>3, <1>13 DEF Promise!FailToRemove
    <2> QED BY <2>1 DEF Promise!Next
<1> QED BY <1>4, <1>5, <1>6, <1>7, <1>8, <1>9, <1>10, <1>11, <1>12, <1>13 DEF Allowed

\* A row whose phase the step does not look at.
LEMMA PhaseIs ==
    ASSUME NEW a
    PROVE  /\ a.anonymized => Phase(a) = "deleted"
           /\ ~ a.anonymized /\ a.request \in {"purging", "failed"} => Phase(a) = "deleting"
           /\ ~ a.anonymized /\ a.request = "pending" /\ a.due => Phase(a) = "due"
           /\ ~ a.anonymized /\ a.request = "pending" /\ ~ a.due => Phase(a) = "waiting"
           /\ ~ a.anonymized /\ a.request \notin {"purging", "failed", "pending"} =>
                Phase(a) = "kept"
BY DEF Phase

LEMMA SamePhase ==
    ASSUME NEW a \in Row, NEW b \in Row, b.anonymized = a.anonymized, b.request = a.request,
           b.due = a.due
    PROVE  Phase(b) = Phase(a)
BY PhaseIs DEF Row, Requests

LEMMA KeptStaysKept ==
    ASSUME NEW a \in Row, NEW b \in Row, Phase(a) = "kept", b.anonymized = a.anonymized,
           b.request = a.request, b.due = a.due, b.files = a.files
    PROVE  Allowed(a, b)
BY SamePhase DEF Allowed

-----------------------------------------------------------------------------
(* What each operation does is allowed.                                    *)

LEMMA OwnerAllowed ==
    ASSUME IInv, NEW u \in Users, ByOwner(u)
    PROVE  \/ UNCHANGED account
           \/ \E row \in Row : Becomes(u, row) /\ Allowed(account[u], row)
<1>1. RowOK(account[u]) /\ account[u] \in Row
    BY DEF IInv, RowOK
<1>2. CASE Deactivate(u)
    <2> DEFINE row == [account[u] EXCEPT !.lifecycle = "deactivated", !.active = FALSE]
    <2>1. Becomes(u, row)
        BY <1>2 DEF Deactivate
    <2>2. /\ row \in Row /\ row.anonymized = account[u].anonymized
          /\ row.request = account[u].request /\ row.due = account[u].due
          /\ row.files = account[u].files
        BY <1>1 DEF Row, Lifecycles
    <2>3. Phase(account[u]) = "kept"
        BY <1>1, <1>2, PhaseIs DEF Deactivate, CanAuthenticate, RowOK, Agree
    <2> HIDE DEF row
    <2> QED BY <1>1, <2>1, <2>2, <2>3, KeptStaysKept
<1>3. CASE Reactivate(u)
    <2> DEFINE row == [account[u] EXCEPT !.lifecycle = "active", !.active = TRUE, !.deleted = FALSE]
    <2>1. Becomes(u, row)
        BY <1>3 DEF Reactivate
    <2>2. /\ row \in Row /\ row.anonymized = account[u].anonymized
          /\ row.request = account[u].request /\ row.due = account[u].due
          /\ row.files = account[u].files
        BY <1>1 DEF Row, Lifecycles
    <2>3. Phase(account[u]) = "kept"
        BY <1>1, <1>3, PhaseIs DEF Reactivate, RowOK, Agree
    <2> HIDE DEF row
    <2> QED BY <1>1, <2>1, <2>2, <2>3, KeptStaysKept
<1>4. CASE RequestDeletion(u)
    <2> DEFINE row == [account[u] EXCEPT !.lifecycle = "pendingDeletion", !.active = FALSE,
                         !.request = "pending", !.due = FALSE, !.stale = FALSE,
                         !.retries = 0, !.attempts = 0, !.reported = FALSE]
    <2>1. Becomes(u, row) /\ CanAuthenticate(u)
        BY <1>4 DEF RequestDeletion
    <2>2. /\ row.anonymized = account[u].anonymized /\ row.request = "pending" /\ ~ row.due
          /\ row.files = account[u].files /\ ~ row.active
        BY <1>1 DEF Row
    <2>3. row \in Row
        BY <1>1, <2>1, RequestedRow DEF RowOK
    <2>4. Phase(account[u]) = "kept" /\ ~ account[u].anonymized
        BY <1>1, <2>1, PhaseIs DEF CanAuthenticate, RowOK, Agree
    <2>5. Phase(row) = "waiting" /\ ~ Usable(row)
        BY <2>2, <2>4, PhaseIs DEF Usable
    <2> HIDE DEF row
    <2>6. Allowed(account[u], row)
        BY <2>1, <2>2, <2>4, <2>5, OpenIsUsable DEF Allowed
    <2> QED BY <2>1, <2>3, <2>6
<1>5. CASE BeginCancel(u)
    BY <1>5 DEF BeginCancel
<1>6. CASE Cancel(u)
    <2>1. CASE CanCancel(u) /\ ~ UNCHANGED account
        <3> DEFINE row == [account[u] EXCEPT !.request = "cancelled", !.lifecycle = "active",
                             !.active = TRUE, !.deleted = FALSE]
        <3>1. Becomes(u, row)
            BY <1>6, <2>1 DEF Cancel
        <3>2. /\ row.anonymized = account[u].anonymized /\ row.request = "cancelled"
              /\ row.files = account[u].files /\ row.active /\ row.lifecycle = "active"
              /\ ~ row.deleted /\ row.status = account[u].status
            BY <1>1 DEF Row
        <3>3. row \in Row
            BY <1>1 DEF Row, Lifecycles, Requests
        <3>4. Phase(account[u]) = "waiting" /\ ~ account[u].anonymized
            BY <1>1, <2>1, PhaseIs DEF CanCancel, RowOK, Agree
        <3>5. account[u].status # "suspended"
            BY <1>1, <2>1 DEF CanCancel, RowOK, Open
        <3> HIDE DEF row
        <3>6. Phase(row) = "kept" /\ Usable(row)
            BY <3>2, <3>4, <3>5, PhaseIs DEF Usable
        <3>7. Allowed(account[u], row)
            BY <3>2, <3>4, <3>6 DEF Allowed
        <3> QED BY <3>1, <3>3, <3>7
    <2> QED BY <1>6, <2>1 DEF Cancel
<1> QED BY <1>2, <1>3, <1>4, <1>5, <1>6 DEF ByOwner

LEMMA AdminAllowed ==
    ASSUME IInv, NEW u \in Users, ByAdmin(u)
    PROVE  \E row \in Row : Becomes(u, row) /\ Allowed(account[u], row)
<1>1. RowOK(account[u]) /\ account[u] \in Row
    BY DEF IInv, RowOK
<1>2. Phase(account[u]) = "kept"
    <2>1. CASE Warn(u) \/ Suspend(u) \/ AdminDelete(u)
        BY <1>1, <2>1, PhaseIs DEF Warn, Suspend, AdminDelete, Visible, RowOK, Agree
    <2>2. CASE AdminReactivate(u)
        BY <1>1, <2>2, PhaseIs DEF AdminReactivate, AvailableActions, RowOK, Agree, Row
    <2>3. CASE AdminRestore(u)
        BY <1>1, <2>3, PhaseIs DEF AdminRestore, AvailableActions, RowOK, Agree, Row
    <2>4. CASE AdminPurge(u)
        BY <1>1, <2>4, PhaseIs DEF AdminPurge, AvailableActions, Visible, RowOK, Agree, Row
    <2> QED BY <2>1, <2>2, <2>3, <2>4 DEF ByAdmin
<1>3. CASE Becomes(u, [Anonymized(account[u]) EXCEPT !.files = FALSE])
    <2> DEFINE row == [Anonymized(account[u]) EXCEPT !.files = FALSE]
    <2>1. Becomes(u, row)
        BY <1>3
    <2>2. row.anonymized /\ row.deleted /\ ~ row.files /\ row \in Row
        BY <1>1 DEF Anonymized, Row, Lifecycles, Statuses
    <2> HIDE DEF row
    <2>3. Phase(row) = "deleted" /\ ~ Usable(row)
        BY <2>2, PhaseIs DEF Usable
    <2>4. Allowed(account[u], row)
        BY <1>2, <2>2, <2>3 DEF Allowed
    <2> QED BY <2>1, <2>2, <2>4
<1>5. CASE Becomes(u, [account[u] EXCEPT !.files = FALSE])
    <2> DEFINE row == [account[u] EXCEPT !.files = FALSE]
    <2>1. Becomes(u, row)
        BY <1>5
    <2>2. /\ row \in Row /\ ~ row.files /\ row.anonymized = account[u].anonymized
          /\ row.request = account[u].request /\ row.due = account[u].due
          /\ Usable(row) = Usable(account[u])
        BY <1>1 DEF Row, Usable
    <2> HIDE DEF row
    <2>3. Allowed(account[u], row)
        BY <1>1, <1>2, <2>2, SamePhase DEF Allowed
    <2> QED BY <2>1, <2>2, <2>3
<1>4. CASE ~ AdminPurge(u)
    <2>1. PICK row \in Row :
            /\ Becomes(u, row) /\ row.anonymized = account[u].anonymized
            /\ row.request = account[u].request /\ row.due = account[u].due
            /\ row.files = account[u].files
        <3>1. CASE Warn(u)
            BY <1>1, <3>1 DEF Warn, Row, Statuses
        <3>2. CASE Suspend(u)
            BY <1>1, <3>2 DEF Suspend, Row, Statuses
        <3>3. CASE AdminReactivate(u)
            <4> DEFINE row == [account[u] EXCEPT !.status = "active", !.active = TRUE,
                             !.lifecycle = "active"]
            <4>1. Becomes(u, row)
                BY <3>3 DEF AdminReactivate
            <4>2. /\ row \in Row /\ row.anonymized = account[u].anonymized
                  /\ row.request = account[u].request /\ row.due = account[u].due
                  /\ row.files = account[u].files
                BY <1>1 DEF Row, Statuses, Lifecycles
            <4> HIDE DEF row
            <4> QED BY <4>1, <4>2
        <3>4. CASE AdminDelete(u)
            <4> DEFINE row == [account[u] EXCEPT !.deleted = TRUE, !.active = FALSE,
                             !.lifecycle = "deleted"]
            <4>1. Becomes(u, row)
                BY <3>4 DEF AdminDelete
            <4>2. /\ row \in Row /\ row.anonymized = account[u].anonymized
                  /\ row.request = account[u].request /\ row.due = account[u].due
                  /\ row.files = account[u].files
                BY <1>1 DEF Row, Lifecycles
            <4> HIDE DEF row
            <4> QED BY <4>1, <4>2
        <3>5. CASE AdminRestore(u)
            <4> DEFINE row == [account[u] EXCEPT !.deleted = FALSE, !.active = TRUE,
                             !.lifecycle = "active"]
            <4>1. Becomes(u, row)
                BY <3>5 DEF AdminRestore
            <4>2. /\ row \in Row /\ row.anonymized = account[u].anonymized
                  /\ row.request = account[u].request /\ row.due = account[u].due
                  /\ row.files = account[u].files
                BY <1>1 DEF Row, Lifecycles
            <4> HIDE DEF row
            <4> QED BY <4>1, <4>2
        <3> QED BY <1>4, <3>1, <3>2, <3>3, <3>4, <3>5 DEF ByAdmin
    <2> QED BY <1>1, <1>2, <2>1, KeptStaysKept
<1> QED BY <1>3, <1>4, <1>5 DEF AdminPurge

LEMMA TimeAllowed ==
    ASSUME IInv, NEW u \in Users, ByTime(u)
    PROVE  \E row \in Row : Becomes(u, row) /\ Allowed(account[u], row)
<1>1. RowOK(account[u]) /\ account[u] \in Row
    BY DEF IInv, RowOK
<1>2. CASE BecomesDue(u)
    <2> DEFINE row == [account[u] EXCEPT !.due = TRUE]
    <2>1. Becomes(u, row)
        BY <1>2 DEF BecomesDue
    <2>2. /\ row \in Row /\ row.due /\ row.request = "pending" /\ row.files = account[u].files
          /\ row.anonymized = account[u].anonymized
          /\ Usable(row) = Usable(account[u])
        BY <1>1, <1>2 DEF BecomesDue, Row, Usable
    <2>3. Phase(account[u]) = "waiting" /\ ~ account[u].anonymized
        BY <1>1, <1>2, PhaseIs DEF BecomesDue, RowOK, Agree
    <2> HIDE DEF row
    <2>4. Allowed(account[u], row)
        BY <2>2, <2>3, PhaseIs DEF Allowed
    <2> QED BY <2>1, <2>2, <2>4
<1>3. CASE BecomesStale(u)
    <2> DEFINE row == [account[u] EXCEPT !.stale = TRUE]
    <2>1. Becomes(u, row)
        BY <1>3 DEF BecomesStale
    <2>2. /\ row \in Row /\ row.due = account[u].due /\ row.request = account[u].request
          /\ row.files = account[u].files /\ row.anonymized = account[u].anonymized
          /\ Usable(row) = Usable(account[u])
        BY <1>1 DEF Row, Usable
    <2> HIDE DEF row
    <2>3. Allowed(account[u], row)
        BY <1>1, <2>2, SamePhase DEF Allowed
    <2> QED BY <2>1, <2>2, <2>3
<1> QED BY <1>2, <1>3 DEF ByTime

LEMMA ClaimAllowed ==
    ASSUME IInv, NEW w \in Workers, Claim(w)
    PROVE  \E u \in Users : \E row \in Row : Becomes(u, row) /\ Allowed(account[u], row)
<1>1. PICK u \in Users :
        LET retries == account[u].retries + IF account[u].request = "purging" THEN 1 ELSE 0
        IN
        /\ CanClaim(w, u)
        /\ Becomes(u, [account[u] EXCEPT !.request = "purging", !.stale = FALSE,
                         !.retries = retries, !.attempts = @ + 1,
                         !.reported = @ \/ (/\ account[u].request = "purging"
                                            /\ retries >= RetryLimit)])
    BY DEF Claim
<1> DEFINE retries == account[u].retries + IF account[u].request = "purging" THEN 1 ELSE 0
           reported == account[u].reported \/ (/\ account[u].request = "purging"
                                               /\ retries >= RetryLimit)
           row == [account[u] EXCEPT !.request = "purging", !.stale = FALSE,
                     !.retries = retries, !.attempts = @ + 1, !.reported = reported]
<1>2. RowOK(account[u]) /\ account[u] \in Row
    BY DEF IInv, RowOK
<1>3. Becomes(u, row) /\ Claimable(u)
    BY <1>1 DEF CanClaim
<1>4. row \in Row
    <2>1. reported \in BOOLEAN
        BY <1>2 DEF Row
    <2>2. \/ account[u].request = "pending" /\ account[u].due /\ retries = account[u].retries
          \/ account[u].request = "failed" /\ account[u].retries < RetryLimit
             /\ retries = account[u].retries
          \/ account[u].request = "purging" /\ account[u].retries < RetryLimit
             /\ retries = account[u].retries + 1
        <3>1. account[u].retries \in Nat
            BY <1>2, LimitAssumption DEF Row
        <3> QED BY <1>3, <3>1 DEF Claimable
    <2> HIDE DEF retries, reported
    <2> QED BY <1>2, <2>1, <2>2, ClaimedRow DEF RowOK
<1>5. /\ row.request = "purging" /\ row.files = account[u].files
      /\ row.anonymized = account[u].anonymized
      /\ row.deleted = account[u].deleted /\ row.lifecycle = account[u].lifecycle
      /\ row.active = account[u].active /\ row.status = account[u].status
    BY <1>2 DEF Row
<1> HIDE DEF row
<1>6. Usable(row) = Usable(account[u])
    BY <1>5 DEF Usable
<1>7. ~ account[u].anonymized /\ Phase(account[u]) \in {"due", "deleting"}
    BY <1>2, <1>3, PhaseIs DEF Claimable, RowOK, Agree
<1>8. Phase(row) = "deleting"
    BY <1>5, <1>7, PhaseIs
<1>9. Allowed(account[u], row)
    BY <1>5, <1>6, <1>7, <1>8 DEF Allowed
<1> QED BY <1>3, <1>4, <1>9

LEMMA WorkAllowed ==
    ASSUME IInv, ErasedFirst, NEW w \in Workers, Work(w)
    PROVE  \/ UNCHANGED account
           \/ \E u \in Users : \E row \in Row : Becomes(u, row) /\ Allowed(account[u], row)
<1> DEFINE u == On(w)
<1>1. u \in Users /\ RowOK(account[u]) /\ account[u] \in Row
    <2>1. worker[w].pc \notin {"idle", "claim"}
        BY DEF Work, Read, DeleteFiles, LockRequest, Purge, RecordFailure, Report, At
    <2> QED BY <2>1 DEF IInv, WorkersTyped, RowOK
<1>2. Busy(worker[w]) => /\ account[u].request = "purging" /\ ~ account[u].anonymized
                         /\ Phase(account[u]) = "deleting" /\ ~ Usable(account[u])
    <2>1. Busy(worker[w]) => account[u].request = "purging"
        BY <1>1 DEF IInv, WorkIsLive, Works, Busy, On
    <2> QED BY <1>1, <2>1, PhaseIs DEF RowOK, Agree, Usable
<1>3. CASE Read(w) \/ LockRequest(w)
    BY <1>3 DEF Read, LockRequest
<1>4. CASE DeleteFiles(w)
    <2> DEFINE row == [account[u] EXCEPT !.files = FALSE]
    <2>1. Becomes(u, row) /\ Busy(worker[w])
        BY <1>4 DEF DeleteFiles, At, Busy
    <2>2. /\ row \in Row /\ row.due = account[u].due /\ row.request = account[u].request
          /\ ~ row.files /\ row.anonymized = account[u].anonymized
          /\ Usable(row) = Usable(account[u])
        BY <1>1 DEF Row, Usable
    <2> HIDE DEF row
    <2>3. Allowed(account[u], row)
        BY <1>1, <1>2, <2>1, <2>2, SamePhase DEF Allowed
    <2> QED BY <1>1, <2>1, <2>2, <2>3
<1>5. CASE Purge(w)
    <2> DEFINE row == [Anonymized(account[u]) EXCEPT !.request = "completed", !.stale = FALSE]
    <2>1. Becomes(u, row) /\ Busy(worker[w]) /\ ~ account[u].files
        BY <1>5 DEF Purge, At, Busy, ErasedFirst
    <2>2. row.anonymized /\ row.deleted /\ row.files = account[u].files
        BY <1>1 DEF Anonymized, Row
    <2>3. row \in Row
        BY <1>1, <1>2, <2>1, PurgedRow DEF RowOK
    <2> HIDE DEF row
    <2>4. Allowed(account[u], row)
        BY <1>2, <2>1, <2>2, PhaseIs DEF Allowed, Usable
    <2> QED BY <1>1, <2>1, <2>3, <2>4
<1>6. CASE RecordFailure(w)
    <2> DEFINE row == [account[u] EXCEPT !.request = "failed", !.stale = FALSE, !.retries = @ + 1]
    <2>1. Becomes(u, row) /\ Busy(worker[w])
        BY <1>6 DEF RecordFailure, At, Busy
    <2>2. /\ row.request = "failed" /\ row.files = account[u].files
          /\ row.anonymized = account[u].anonymized
          /\ Usable(row) = Usable(account[u])
        BY <1>1 DEF Row, Usable
    <2>3. row \in Row
        BY <1>1, <1>2, <2>1, FailedRow DEF RowOK
    <2> HIDE DEF row
    <2>4. Allowed(account[u], row)
        BY <1>2, <2>1, <2>2, PhaseIs DEF Allowed
    <2> QED BY <1>1, <2>1, <2>3, <2>4
<1>7. CASE Report(w)
    <2> DEFINE row == [account[u] EXCEPT !.reported = @ \/ account[u].retries >= RetryLimit]
    <2>1. Becomes(u, row)
        BY <1>7 DEF Report
    <2>2. /\ row \in Row /\ row.due = account[u].due /\ row.request = account[u].request
          /\ row.files = account[u].files /\ row.anonymized = account[u].anonymized
          /\ Usable(row) = Usable(account[u])
        BY <1>1 DEF Row, Usable
    <2> HIDE DEF row
    <2>3. Allowed(account[u], row)
        BY <1>1, <2>2, SamePhase DEF Allowed
    <2> QED BY <1>1, <2>1, <2>2, <2>3
<1> QED BY <1>3, <1>4, <1>5, <1>6, <1>7 DEF Work

LEMMA StepAllowed ==
    ASSUME IInv, ErasedFirst, [Next]_vars
    PROVE  \/ UNCHANGED account
           \/ \E u \in Users : \E row \in Row : Becomes(u, row) /\ Allowed(account[u], row)
<1>1. ASSUME NEW u \in Users, ByOwner(u) \/ ByAdmin(u) \/ ByTime(u) \/ AbortDeadlock(u)
      PROVE  \/ UNCHANGED account
             \/ \E row \in Row : Becomes(u, row) /\ Allowed(account[u], row)
    BY <1>1, OwnerAllowed, AdminAllowed, TimeAllowed DEF AbortDeadlock
<1>2. ASSUME NEW w \in Workers, StartRun(w) \/ EndRun(w) \/ Fail(w) \/ Die(w)
      PROVE  UNCHANGED account
    BY <1>2 DEF StartRun, EndRun, Fail, Die
<1> QED BY <1>1, <1>2, ClaimAllowed, WorkAllowed DEF Next, ByWorker, vars

-----------------------------------------------------------------------------
(* ErasedFirst is an invariant.                                            *)

\* Files do not come back.
LEMMA FilesStayGone ==
    ASSUME IInv, ErasedFirst, [Next]_vars
    PROVE  \A u \in Users : account'[u].files => account[u].files
<1>1. CASE UNCHANGED account
    BY <1>1
<1>2. ASSUME NEW u \in Users, NEW row \in Row, Becomes(u, row), Allowed(account[u], row)
      PROVE  \A x \in Users : account'[x].files => account[x].files
    <2>1. row.files => account[u].files
        BY <1>2 DEF Allowed
    <2> QED BY <1>2, <2>1, RowFields DEF IInv
<1> QED BY <1>1, <1>2, StepAllowed

LEMMA ErasedStep ==
    ASSUME IInv, ErasedFirst, [Next]_vars
    PROVE  ErasedFirst'
<1>1. SUFFICES ASSUME NEW w \in Workers, worker'[w].pc \in {"lockRequest", "lockUser"}
               PROVE  ~ account'[On(w)'].files
    BY DEF ErasedFirst
<1>2. worker \in [Workers -> State] /\ worker[w] \in State /\ account \in [Users -> Row]
    BY DEF IInv, State
<1>3. CASE worker[w].pc \in {"lockRequest", "lockUser"} /\ On(w)' = On(w)
    <2>1. On(w) \in Users
        BY <1>3 DEF IInv, WorkersTyped
    <2> QED BY <1>3, <2>1, FilesStayGone DEF ErasedFirst
<1>4. CASE worker'[w] = worker[w]
    BY <1>1, <1>3, <1>4 DEF On
<1>5. ASSUME NEW v \in Workers, NEW state, WorkerGoes(v, state), worker'[w] # worker[w]
      PROVE  v = w /\ worker'[w] = state
    BY <1>2, <1>5 DEF WorkerGoes
<1>6. CASE worker'[w] # worker[w]
    <2>1. CASE DeleteFiles(w)
        <3>1. On(w) \in Users
            BY <2>1 DEF DeleteFiles, At, IInv, WorkersTyped
        <3>2. ~ account'[On(w)].files
            BY <1>2, <2>1, <3>1 DEF DeleteFiles, Becomes, Row
        <3>3. On(w)' = On(w)
            BY <1>2, <2>1 DEF DeleteFiles, Goto, WorkerGoes, On, State
        <3> QED BY <3>2, <3>3
    <2>2. CASE LockRequest(w)
        <3>1. worker[w].pc = "lockRequest"
            BY <2>2 DEF LockRequest, At
        <3>2. Goto(w, "lockUser")
            BY <1>1, <1>2, <2>2 DEF LockRequest, NextRequest, WorkerGoes, State
        <3>3. On(w)' = On(w)
            BY <1>2, <3>2 DEF Goto, WorkerGoes, On, State
        <3> QED BY <1>3, <3>1, <3>3
    <2>3. ASSUME NEW v \in Workers, StartRun(v) \/ Claim(v) \/ EndRun(v) \/ Fail(v) \/ Die(v)
          PROVE  FALSE
        <3>1. PICK state : /\ WorkerGoes(v, state)
                           /\ state.pc \in {"claim", "read", "idle", "record"}
            <4>1. worker[v] \in State
                BY <1>2
            <4>2. CASE StartRun(v) \/ EndRun(v) \/ Die(v)
                <5>1. PICK step \in {"claim", "idle"} :
                        WorkerGoes(v, [pc |-> step, on |-> Nobody, attempted |-> {}])
                    BY <4>2 DEF StartRun, EndRun, Die
                <5> QED BY <5>1
            <4>4. CASE Claim(v)
                <5>1. PICK u \in Users :
                        WorkerGoes(v, [pc |-> "read", on |-> u,
                                       attempted |-> worker[v].attempted \union {u}])
                    BY <4>4 DEF Claim
                <5> QED BY <5>1
            <4>3. CASE Fail(v)
                BY <4>1, <4>3 DEF Fail, Goto, State
            <4> QED BY <2>3, <4>2, <4>3, <4>4
        <3>2. worker'[w] = state
            BY <1>5, <1>6, <3>1
        <3> QED BY <1>1, <3>1, <3>2
    <2>4. ASSUME NEW v \in Workers, Work(v), v # w
          PROVE  FALSE
        <3>1. PICK state : WorkerGoes(v, state)
            BY <2>4 DEF Work, Read, DeleteFiles, LockRequest, Purge, RecordFailure, Report,
                        Goto, NextRequest
        <3> QED BY <1>5, <1>6, <2>4, <3>1
    <2>5. CASE Read(w) \/ Purge(w) \/ RecordFailure(w) \/ Report(w)
        <3>1. Goto(w, "files") \/ NextRequest(w) \/ Goto(w, "report")
            BY <2>5 DEF Read, Purge, RecordFailure, Report
        <3>2. worker'[w].pc \in {"files", "claim", "report"}
            <4>1. CASE Goto(w, "files")
                BY <1>2, <4>1 DEF Goto, WorkerGoes, State
            <4>2. CASE Goto(w, "report")
                BY <1>2, <4>2 DEF Goto, WorkerGoes, State
            <4>3. CASE NextRequest(w)
                BY <1>2, <4>3 DEF NextRequest, WorkerGoes, State
            <4> QED BY <3>1, <4>1, <4>2, <4>3
        <3> QED BY <1>1, <3>2
    <2>6. ASSUME NEW u \in Users, ByOwner(u) \/ ByAdmin(u) \/ ByTime(u)
          PROVE  FALSE
        BY <1>6, <2>6 DEF ByOwner, ByAdmin, ByTime, Deactivate, Reactivate, RequestDeletion,
             BeginCancel, Cancel, Warn, Suspend, AdminReactivate, AdminDelete, AdminRestore,
             AdminPurge, BecomesDue, BecomesStale
    <2>7. ASSUME NEW u \in Users, AbortDeadlock(u)
          PROVE  FALSE
        <3>1. PICK v \in Workers : Goto(v, "record")
            BY <1>6, <2>7 DEF AbortDeadlock
        <3>2. v = w
            BY <1>5, <1>6, <3>1 DEF Goto
        <3> QED BY <1>1, <1>2, <3>1, <3>2 DEF Goto, WorkerGoes, State
    <2> QED BY <1>6, <2>1, <2>2, <2>3, <2>4, <2>5, <2>6, <2>7 DEF Next, ByWorker, Work, vars
<1> QED BY <1>4, <1>6

-----------------------------------------------------------------------------
(* The refinement.                                                         *)

LEMMA PromiseInit == Init => Promise!Init
<1> SUFFICES ASSUME Init PROVE Promise!Init
    OBVIOUS
<1>1. \A u \in Users : /\ Phase(account[u]) = "kept" /\ CanAuthenticate(u)
                        /\ account[u].files
    BY PhaseIs DEF Init, CanAuthenticate
<1> QED BY <1>1 DEF Promise!Init

\* Owners, administrators and any number of workers that race, fail and die do to an
\* account only what DeletionPromise allows, if runs die before their claim is stale.
THEOREM PromiseIsKept ==
    ASSUME TimeLimitHolds
    PROVE  Spec => KeepsThePromise
<1>1. Init => ErasedFirst
    BY DEF Init, ErasedFirst
<1>2. IInv /\ ErasedFirst /\ [Next]_vars => ErasedFirst'
    BY ErasedStep
<1>3. IInv /\ ErasedFirst /\ [Next]_vars => [Promise!Next]_(Promise!vars)
    <2> SUFFICES ASSUME IInv, ErasedFirst, [Next]_vars
                 PROVE  [Promise!Next]_(Promise!vars)
        OBVIOUS
    <2>1. CASE UNCHANGED account
        BY <2>1 DEF Promise!vars, CanAuthenticate
    <2>2. ASSUME NEW u \in Users, NEW row \in Row, Becomes(u, row), Allowed(account[u], row)
          PROVE  [Promise!Next]_(Promise!vars)
        BY <2>2, AllowedStep DEF IInv
    <2> QED BY <2>1, <2>2, StepAllowed
<1> QED BY Invariance, PromiseInit, <1>1, <1>2, <1>3, PTL DEF Spec, KeepsThePromise, Promise!Spec

=============================================================================
