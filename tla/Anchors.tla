------------------------------ MODULE Anchors ------------------------------
(***************************************************************************)
(* The life of an anchor, the daily content of a circle: drafted and       *)
(* scheduled from the dashboard (core/admin_dashboard/anchor_services) or  *)
(* created by a circle's admin (core/circles/anchor_services), posted by a *)
(* Celery task that waits for its time or by the periodic check that is    *)
(* its safety net, expired by a task, taken down and restored by           *)
(* moderation, and purged (core/admin_dashboard/tasks, core/circles/tasks).*)
(*                                                                         *)
(* Every operation that locks the row of an anchor is one step.  What it   *)
(* sends to the broker is not taken back when its transaction is.  All     *)
(* anchors are of one circle.  The dashboard, the tasks and the purge read *)
(* them through a manager that leaves out those of a creator whose account *)
(* is not active; moderators see every one.                                *)
(***************************************************************************)
EXTENDS Naturals, FiniteSets

CONSTANTS
    Anchors,        \* the anchors that may be created
    Workers,        \* Celery worker processes
    Duration,       \* how long an anchor is active (24 hours)
    Retention,      \* how long after that it is kept (5 days)
    MaxPosts,       \* bound: how often an anchor is posted
    Setups          \* the circumstances to consider; see SetupAssumption

\* The anchors there are, those whose creators may come and go, whether the anchors come
\* from the circle or from the dashboard, whether anything fails (if not, tasks are run in
\* time and once), whether the purge runs, the last instant, and the bound on the
\* scheduling.
ASSUME SetupAssumption ==
    Setups \subseteq [anchors : SUBSET Anchors, leaving : SUBSET Anchors, circle : BOOLEAN,
                      failing : BOOLEAN, purge : BOOLEAN, end : Nat, schedules : Nat]
ASSUME DurationAssumption ==
    Duration \in Nat \ {0} /\ Retention \in Nat /\ MaxPosts \in Nat \ {0}

VARIABLES
    now,        \* the time
    row,        \* anchors: the row of each anchor
    queue,      \* broker: the task messages not yet acknowledged
    issued,     \* the number of post_scheduled_anchor tasks that were sent
    revoked,    \* workers: the ids of the tasks that are revoked
    worker,     \* the progress of each worker after its transaction
    posts,      \* history: how often each anchor was posted
    told,       \* history: how often the members were told of each posting
    setup,      \* the circumstances, fixed from the start
    away        \* accounts: the anchors whose creator's account is not active

history == <<posts, told>>
celery == <<queue, issued, revoked, worker>>
vars == <<now, row, celery, history, setup, away>>

Status == {"none", "draft", "scheduled", "posted", "expired", "cancelled", "purged"}
None == [status |-> "none", due |-> 0, published |-> 0, expires |-> 0, task |-> 0,
         deleted |-> FALSE]
NoMessage == [task |-> "none", anchor |-> 0, eta |-> 0, id |-> 0]
Idle == [pc |-> "idle", message |-> NoMessage, pending |-> {}, expires |-> 0]

\* The id of a message that nobody revokes is 0.
PostMessage(a, t, id) == [task |-> "post", anchor |-> a, eta |-> t, id |-> id]
ExpireMessage(a, t) == [task |-> "expire", anchor |-> a, eta |-> t, id |-> 0]

Init ==
    /\ now = 0
    /\ row = [a \in Anchors |-> None]
    /\ queue = {} /\ issued = 0 /\ revoked = {}
    /\ worker = [w \in Workers |-> Idle]
    /\ posts = [a \in Anchors |-> 0]
    /\ told = [a \in Anchors |-> [n \in 1 .. MaxPosts |-> 0]]
    /\ setup \in Setups
    /\ away = {}

-----------------------------------------------------------------------------

Is(a, statuses) == row[a].status \in statuses /\ ~ row[a].deleted

\* ActiveCreatorContentManager, the default manager.
Seen(a, statuses) == Is(a, statuses) /\ a \notin away
Becomes(a, r) == row' = [row EXCEPT ![a] = r]
Posted(r) == [r EXCEPT !.status = "posted", !.published = now, !.expires = now + Duration,
                       !.task = 0]
Counted(S) == posts' = [a \in Anchors |-> IF a \in S THEN posts[a] + 1 ELSE posts[a]]

\* Mutant, used by no specification, as are all that are marked so: a plausible bug
\* in the definition that follows.
ExpiryAtOnce(a) == ExpireMessage(a, now)

Expiry(a) == ExpireMessage(a, now + Duration)

\* Mutant.
RevokeNothing(a) == UNCHANGED revoked

\* _revoke_celery_task swallows its errors.
Revoke(a) ==
    \/ revoked' = revoked \union ({row[a].task} \ {0})
    \/ setup.failing /\ UNCHANGED revoked

-----------------------------------------------------------------------------
(* The dashboard.                                                          *)

CreateDraft(a) ==
    /\ ~ setup.circle /\ row[a].status = "none"
    /\ Becomes(a, [None EXCEPT !.status = "draft", !.published = now,
                               !.expires = now + Duration])
    /\ UNCHANGED <<now, celery, history, setup, away>>

Unposted(a) == Seen(a, {"draft", "scheduled", "expired", "cancelled"}) /\ posts[a] < MaxPosts
SendPost(a, t) ==
    /\ queue' = queue \union {PostMessage(a, t, issued + 1)}
    /\ issued' = issued + 1

ScheduleAnchor(a, t) ==
    /\ Unposted(a) /\ t > now /\ issued < setup.schedules
    /\ Revoke(a)
    /\ SendPost(a, t)
    /\ Becomes(a, [row[a] EXCEPT !.status = "scheduled", !.due = t, !.task = issued + 1])
    /\ UNCHANGED <<now, worker, history, setup, away>>

\* The transaction fails, when sending the task does or after it is sent.
ScheduleAnchorFails(a, t) ==
    /\ setup.failing
    /\ Unposted(a) /\ t > now /\ issued < setup.schedules
    /\ Revoke(a)
    /\ SendPost(a, t) \/ UNCHANGED <<queue, issued>>
    /\ UNCHANGED <<now, row, worker, history, setup, away>>

SendNow(a) ==
    /\ Unposted(a)
    /\ Revoke(a)
    /\ Becomes(a, Posted(row[a]))
    /\ queue' = queue \union {Expiry(a)}
    /\ Counted({a})
    /\ \E n \in 0 .. 1 : told' = [told EXCEPT ![a][posts[a] + 1] = n]
    /\ UNCHANGED <<now, issued, worker, setup, away>>

\* The notifications are undone with the row, the expiry is not.
SendNowFails(a) ==
    /\ setup.failing /\ Unposted(a)
    /\ Revoke(a)
    /\ queue' = queue \union {Expiry(a)}
    /\ UNCHANGED <<now, row, issued, worker, history, setup, away>>

CancelScheduled(a) ==
    /\ Seen(a, {"scheduled", "draft"})
    /\ Revoke(a)
    /\ Becomes(a, [row[a] EXCEPT !.status = "cancelled", !.task = 0])
    /\ UNCHANGED <<now, queue, issued, worker, history, setup, away>>

DeleteAnchor(a) ==
    /\ Seen(a, Status \ {"none", "purged"})
    /\ Revoke(a)
    /\ Becomes(a, [row[a] EXCEPT !.deleted = TRUE, !.task = 0])
    /\ UNCHANGED <<now, queue, issued, worker, history, setup, away>>

-----------------------------------------------------------------------------
(* Moderation: enough reports or an administrator take an anchor down, and *)
(* a report may be resolved by keeping it.                                 *)

HideAnchor(a) ==
    /\ Is(a, Status \ {"none", "purged"})
    /\ Becomes(a, [row[a] EXCEPT !.deleted = TRUE])
    /\ UNCHANGED <<now, celery, history, setup, away>>

RestoreAnchor(a) ==
    /\ row[a].deleted
    /\ Becomes(a, [row[a] EXCEPT !.deleted = FALSE])
    /\ UNCHANGED <<now, celery, history, setup, away>>

-----------------------------------------------------------------------------
(* The creators' accounts.                                                 *)

\* Deactivated, or deleted for the time being.  A suspended account stays active.
CreatorLeaves(a) ==
    /\ a \in setup.leaving /\ row[a].status \notin {"none", "purged"}
    /\ away' = away \union {a}
    /\ UNCHANGED <<now, row, celery, history, setup>>

CreatorReturns(a) ==
    /\ a \in away
    /\ away' = away \ {a}
    /\ UNCHANGED <<now, row, celery, history, setup>>

\* The account is purged: its anchors are taken down and belong to nobody.
CreatorIsPurged(a) ==
    /\ a \in away
    /\ Becomes(a, [row[a] EXCEPT !.deleted = TRUE])
    /\ away' = away \ {a}
    /\ UNCHANGED <<now, celery, history, setup>>

-----------------------------------------------------------------------------
(* create_anchor of a circle's admin.                                      *)

Overlapping(t) ==
    \E b \in Anchors : /\ Seen(b, {"scheduled", "posted"})
                       /\ row[b].published < t + Duration /\ row[b].expires > t

CreateAnchor(a, t) ==
    /\ setup.circle /\ row[a].status = "none"
    /\ t >= now /\ ~ Overlapping(t)
    /\ \/ /\ t = now
          /\ Becomes(a, Posted(None))
          /\ Counted({a})
          /\ UNCHANGED <<queue, issued>>
       \/ /\ t > now /\ issued < setup.schedules
          /\ Becomes(a, [None EXCEPT !.status = "scheduled", !.due = t, !.published = t,
                                     !.expires = t + Duration, !.task = issued + 1])
          /\ SendPost(a, t)
          /\ UNCHANGED posts
    /\ UNCHANGED <<now, revoked, worker, told, setup, away>>

-----------------------------------------------------------------------------
(* Tasks.  A message that is due stays in the queue until it is            *)
(* acknowledged, after its task has run.                                   *)

At(w, step) == worker[w].pc = step
Goes(w, r) == worker' = [worker EXCEPT ![w] = r]
Ready(m) == m.eta <= now /\ m.id \notin revoked

DropRevoked(m) ==
    /\ m.eta <= now /\ m.id \in revoked
    /\ queue' = queue \ {m}
    /\ UNCHANGED <<now, row, issued, revoked, worker, history, setup, away>>

\* The anchor is not to be posted (any more), or its creator is away.
SkipPost(m) ==
    /\ m.task = "post" /\ Ready(m) /\ ~ Seen(m.anchor, {"scheduled"})
    /\ queue' = queue \ {m}
    /\ UNCHANGED <<now, row, issued, revoked, worker, history, setup, away>>

\* Mutant.
TellAgain(w, m) ==
    LET a == m.anchor IN
    /\ At(w, "idle") /\ m.task = "post" /\ Ready(m) /\ Seen(a, {"scheduled", "posted"})
    /\ IF Seen(a, {"scheduled"}) THEN Becomes(a, Posted(row[a])) /\ Counted({a})
                               ELSE UNCHANGED <<row, posts>>
    /\ Goes(w, [pc |-> "post", message |-> m, pending |-> {<<a, posts'[a]>>},
                expires |-> now + Duration])
    /\ UNCHANGED <<now, queue, issued, revoked, told, setup, away>>

\* The transaction of post_scheduled_anchor.
PostScheduled(w, m) ==
    LET a == m.anchor IN
    /\ At(w, "idle") /\ m.task = "post" /\ Ready(m) /\ Seen(a, {"scheduled"})
    /\ Becomes(a, Posted(row[a]))
    /\ Counted({a})
    /\ Goes(w, [pc |-> "post", message |-> m, pending |-> {<<a, posts[a] + 1>>},
                expires |-> now + Duration])
    /\ UNCHANGED <<now, queue, issued, revoked, told, setup, away>>

\* _notify_circle_members swallows its errors.
Tell(w) ==
    /\ \E p \in worker[w].pending :
         /\ \/ told' = [told EXCEPT ![p[1]][p[2]] = @ + 1]
            \/ UNCHANGED told
         /\ Goes(w, [worker[w] EXCEPT !.pending = @ \ {p}])
    /\ UNCHANGED <<now, row, queue, issued, revoked, posts, setup, away>>

Finish(w) ==
    /\ ~ At(w, "idle")
    /\ worker[w].pending = {}
    /\ queue' = IF At(w, "post")
                  THEN (queue \ {worker[w].message})
                         \union {ExpireMessage(worker[w].message.anchor, worker[w].expires)}
                  ELSE queue
    /\ Goes(w, Idle)
    /\ UNCHANGED <<now, row, issued, revoked, history, setup, away>>

\* Run again when its message was not acknowledged in time.
ExpireAnchor(m) ==
    /\ m.task = "expire" /\ Ready(m)
    /\ IF Seen(m.anchor, {"posted"})
         THEN Becomes(m.anchor, [row[m.anchor] EXCEPT !.status = "expired"])
         ELSE UNCHANGED row
    /\ queue' = queue \ {m} \/ (setup.failing /\ UNCHANGED queue)
    /\ UNCHANGED <<now, issued, revoked, worker, history, setup, away>>

\* Mutant.
OverdueBefore(a) == Seen(a, {"scheduled"}) /\ row[a].due < now

Overdue(a) == Seen(a, {"scheduled"}) /\ row[a].due <= now

\* check_scheduled_anchors posts the overdue anchors whose rows nobody locks.
CheckScheduled(w, S) ==
    /\ At(w, "idle") /\ S # {} /\ \A a \in S : Overdue(a)
    /\ row' = [a \in Anchors |-> IF a \in S THEN Posted(row[a]) ELSE row[a]]
    /\ queue' = queue \union {Expiry(a) : a \in S}
    /\ Counted(S)
    /\ Goes(w, [Idle EXCEPT !.pc = "check", !.pending = {<<a, posts[a] + 1>> : a \in S}])
    /\ UNCHANGED <<now, issued, revoked, told, setup, away>>

CheckScheduledFails(S) ==
    /\ setup.failing
    /\ S # {} /\ \A a \in S : Overdue(a)
    /\ queue' = queue \union {Expiry(a) : a \in S}
    /\ UNCHANGED <<now, row, issued, revoked, worker, history, setup, away>>

-----------------------------------------------------------------------------
(* The nightly purge, failures and time.                                   *)

\* Whatever its status, an anchor that is past its expiry for long enough.
PurgeExpired ==
    LET old == {a \in Anchors : Seen(a, Status \ {"none", "purged"})
                                 /\ row[a].expires + Retention < now} IN
    /\ setup.purge /\ old # {}
    /\ row' = [a \in Anchors |-> IF a \in old THEN [row[a] EXCEPT !.status = "purged"]
                                              ELSE row[a]]
    /\ UNCHANGED <<now, celery, history, setup, away>>

\* The process dies, or sending the expiry raises: the message is delivered again.
Crash(w) ==
    /\ setup.failing /\ ~ At(w, "idle")
    /\ Goes(w, Idle)
    /\ UNCHANGED <<now, row, queue, issued, revoked, history, setup, away>>

\* Workers keep the ids of revoked tasks in memory, and a broker that restarts drops
\* its messages.
Restart ==
    /\ setup.failing
    /\ \/ revoked' = {} /\ UNCHANGED queue
       \/ queue' = {} /\ UNCHANGED revoked
    /\ UNCHANGED <<now, row, issued, worker, history, setup, away>>

Tick ==
    /\ now < setup.end
    /\ setup.failing \/ \A m \in queue : m.eta > now
    /\ setup.failing \/ \A w \in Workers : At(w, "idle")
    /\ now' = now + 1
    /\ UNCHANGED <<row, celery, history, setup, away>>

Request(a) ==
    \/ CreateDraft(a) \/ SendNow(a) \/ SendNowFails(a) \/ CancelScheduled(a)
    \/ DeleteAnchor(a) \/ HideAnchor(a) \/ RestoreAnchor(a)
    \/ CreatorLeaves(a) \/ CreatorReturns(a) \/ CreatorIsPurged(a)
    \/ \E t \in now .. setup.end :
         ScheduleAnchor(a, t) \/ ScheduleAnchorFails(a, t) \/ CreateAnchor(a, t)

Task(m) ==
    \/ DropRevoked(m) \/ SkipPost(m) \/ ExpireAnchor(m)
    \/ \E w \in Workers : PostScheduled(w, m)

Check(w) == \E S \in SUBSET setup.anchors : CheckScheduled(w, S)

Next ==
    \/ \E a \in setup.anchors : Request(a)
    \/ \E m \in queue : Task(m)
    \/ \E w \in Workers : Check(w) \/ Tell(w) \/ Finish(w) \/ Crash(w)
    \/ \E S \in SUBSET setup.anchors : CheckScheduledFails(S)
    \/ PurgeExpired \/ Restart \/ Tick

Spec == Init /\ [][Next]_vars

\* Time passes, workers finish what they do, messages are delivered unless something
\* fails, and the check, which runs every few minutes, finds again and again a worker and
\* the row of an overdue anchor unlocked.
Fairness ==
    /\ WF_vars(Tick)
    /\ \A w \in Workers : WF_vars(Tell(w) \/ Finish(w))
    /\ WF_vars(~ setup.failing /\ \E m \in queue : Task(m))
    /\ \A a \in Anchors :
         SF_vars(\E w \in Workers, S \in SUBSET setup.anchors : a \in S /\ CheckScheduled(w, S))

FairSpec == Spec /\ Fairness

-----------------------------------------------------------------------------
(* Properties.                                                             *)

\* The state has its type, and what is posted or expired was posted.
TypeOK ==
    /\ now \in 0 .. setup.end
    /\ row \in [Anchors -> [status : Status, due : Nat, published : Nat, expires : Nat,
                            task : Nat, deleted : BOOLEAN]]
    /\ \A m \in queue : /\ m.task \in {"post", "expire"} /\ m.anchor \in Anchors
                        /\ m.eta \in Nat /\ m.id \in 0 .. issued
    /\ issued \in 0 .. setup.schedules /\ revoked \subseteq 1 .. issued
    /\ \A w \in Workers : /\ worker[w].pc \in {"idle", "post", "check"}
                          /\ worker[w].pending \subseteq Anchors \X (1 .. MaxPosts)
    /\ posts \in [Anchors -> 0 .. MaxPosts] /\ away \subseteq Anchors
    /\ \A a \in Anchors : Is(a, {"posted", "expired"}) => posts[a] > 0

\* "Double-notification is not a risk" (check_scheduled_anchors): whichever task, check
\* or request posts an anchor, members are told of a posting at most once.
ToldOnce == \A a \in Anchors : \A n \in 1 .. MaxPosts : told[a][n] <= 1

\* Unless an administrator sends it now, an anchor is not posted before the time it is
\* scheduled for last, however often it was rescheduled, cancelled, taken down or posted.
PostedWhenScheduled ==
    [][setup.failing \/ \A a \in Anchors :
         (posts'[a] > posts[a] /\ Is(a, {"scheduled"})) => now >= row[a].due \/ SendNow(a)]_vars

\* An anchor expires when its time is over, counted from its last posting.
ExpiresAfterItsTime ==
    ~ setup.failing => \A a \in Anchors : Is(a, {"expired"}) => now >= row[a].expires

\* Whatever fails, and though the task that was to post it came while its creator was
\* away, a scheduled anchor is posted, unless it is called off, taken down or purged, or
\* its creator goes away (again).
ScheduledIsPosted ==
    \A a \in Anchors : Seen(a, {"scheduled"}) ~> ~ Seen(a, {"scheduled"})

\* What the code says and does not do.

\* "anchor lives for 24 h (active) + up to 4 more days in the past-anchor history list =
\* 5 days total before permanent removal" (purge_expired_anchors): an anchor that still
\* has the task that is going to post it is not removed.
PurgedAfterItsLife == \A a \in Anchors : row[a].status = "purged" => row[a].task = 0

=============================================================================
