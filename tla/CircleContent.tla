--------------------------- MODULE CircleContent ---------------------------
(***************************************************************************)
(* What members write in a circle, what others make of it, and how reports *)
(* and administrators take it down and put it back (core/circles,          *)
(* core/admin_dashboard/circle_report_services.py).                        *)
(*                                                                         *)
(* A post carries the number of its comments and every row that of its     *)
(* marks (likes, prayers, reactions) in columns of their own.  Authors and *)
(* those who mark hold the row while they change it, so each such          *)
(* operation is one step.  A report and a review do not: what they read    *)
(* (who reported, whether the content is deleted) is one step and what     *)
(* they write and commit another, and a transaction that read before       *)
(* another one committed decides on what is no longer so.                  *)
(***************************************************************************)
EXTENDS Circles, Sequences

CONSTANTS
    CirclePosts, CircleComments, Responses,     \* rows there may be
    Home,           \* the circle they belong to
    CommentedPost,  \* the post of each comment
    Threads,        \* the response each response may reply to, or {}
    HidesAt,        \* reporters that hide content (3)
    KeepsHidden,    \* what a viewer has hidden: rows kept (1,000)
    Extents         \* what may happen: who is erased, what is written, marked and reported,
                    \* and whether circles change and members leave

ContentTargets == CirclePosts \union CircleComments \union Responses

ASSUME ContentAssumption ==
    /\ IsFiniteSet(CircleUsers) /\ IsFiniteSet(CircleComments) /\ Names # {}
    /\ CircleComments \intersect (CirclePosts \union Responses) = {}
    /\ Home \in Circles /\ HidesAt \in Nat \ {0} /\ KeepsHidden \in Nat \ {0}
    /\ CommentedPost \in [CircleComments -> CirclePosts]
    /\ Threads \in [Responses -> SUBSET Responses]
    /\ Extents \subseteq [erased : SUBSET CircleUsers, written : SUBSET ContentTargets,
            marked : SUBSET ContentTargets, reported : SUBSET ContentTargets, managed : BOOLEAN]

VARIABLES
    content,    \* the row of each target
    comments,   \* comments_count of each post
    marks,      \* engagement rows: pairs of a user and a target
    counted,    \* likes_count, prayed_count or reaction_count of each target
    complaint,  \* the report of each user on each target
    reporting,  \* the transaction of each user that reports
    reviewing,  \* the transaction of each administrator that reviews
    erased,     \* users whose data was torn down
    hiddenRows, \* what each user reported and is not shown, the oldest first
    since,      \* history: what was hidden from each user after each target was
    decided,    \* history: what the last review of each target decided
    raced,      \* history: targets that were decided on by what was no longer so
    restored,   \* history: targets that an administrator put back
    extent      \* fixed from the start

contentRows == <<content, comments, marks, counted, complaint, erased, hiddenRows, since>>
transactions == <<reporting, reviewing, decided, raced, restored, extent>>
contentVars == <<circleVars, contentRows, transactions>>

Missing == [state |-> "missing", author |-> {}, by |-> "nobody"]
IsLive(t) == content[t].state = "live"
Deleted(t) == content[t].state = "deleted"
LiveComments(p) == {c \in CircleComments : CommentedPost[c] = p /\ IsLive(c)}

\* Reports count whatever became of them; a user has at most one on a target.
ReportersOf(t) == {u \in CircleUsers : complaint[u][t] # "none"}
Pending(t) == {u \in CircleUsers : complaint[u][t] = "pending"}

\* What the rows hide from a user.
HiddenFor(u) == {hiddenRows[u][i] : i \in DOMAIN hiddenRows[u]}

NoReporting == [pc |-> "idle", target |-> {}, hides |-> FALSE, fresh |-> TRUE]
NoReview == [pc |-> "idle", on |-> {}, acts |-> FALSE, fresh |-> TRUE]
Started(t, hides) == [pc |-> "reporting", target |-> {t}, hides |-> hides, fresh |-> TRUE]
Opened(decision, u, t, acts) ==
    [pc |-> decision, on |-> {<<u, t>>}, acts |-> acts, fresh |-> TRUE]

ContentInit ==
    /\ circle = [c \in Circles |-> IF c = Home THEN CircleRow("active", CHOOSE n \in Names : TRUE) ELSE NoCircle]
    /\ member = {} /\ ruleSets = 1 /\ creation = [a \in CircleAdmins |-> Resting]
    /\ content = [t \in ContentTargets |-> Missing]
    /\ comments = [p \in CirclePosts |-> 0]
    /\ marks = {} /\ counted = [t \in ContentTargets |-> 0]
    /\ complaint = [u \in CircleUsers |-> [t \in ContentTargets |-> "none"]]
    /\ reporting = [u \in CircleUsers |-> NoReporting]
    /\ reviewing = [a \in CircleAdmins |-> NoReview]
    /\ hiddenRows = [u \in CircleUsers |-> <<>>]
    /\ since = [u \in CircleUsers |-> [t \in ContentTargets |-> {}]]
    /\ decided = [t \in ContentTargets |-> "nothing"]
    /\ erased = {} /\ raced = {} /\ restored = {}
    /\ extent \in Extents

-----------------------------------------------------------------------------
(* What the operations share.                                              *)

WritesRow(t, state, u) == content' = [content EXCEPT ![t] = [state |-> state, author |-> {u}, by |-> "nobody"]]

\* Whoever deleted it first is remembered; deleting again only renews the time.
Removed(t, who) ==
    [content[t] EXCEPT !.state = "deleted", !.by = IF Deleted(t) THEN @ ELSE who]

\* The count of the post's comments follows a comment, and never goes below zero.
CountDown(t) ==
    IF t \in CircleComments /\ comments[CommentedPost[t]] > 0
    THEN [comments EXCEPT ![CommentedPost[t]] = @ - 1] ELSE comments
CountUp(t) == IF t \in CircleComments THEN [comments EXCEPT ![CommentedPost[t]] = @ + 1] ELSE comments

TakesOff(t, who) ==
    /\ content' = [content EXCEPT ![t] = Removed(t, who)]
    /\ comments' = CountDown(t)
PutsBack(t) ==
    /\ content' = [content EXCEPT ![t].state = "live", ![t].by = "nobody"]
    /\ comments' = CountUp(t)
    /\ restored' = restored \union {t}

\* A commit on a target makes what the other transactions read of it stale.
StaleReports(t) ==
    [u \in CircleUsers |-> [reporting[u] EXCEPT !.fresh = @ /\ reporting[u].target # {t}]]
StaleReviews(t) ==
    [a \in CircleAdmins |-> [reviewing[a] EXCEPT !.fresh = @ /\ \A r \in reviewing[a].on : r[2] # t]]
CommitsOn(t) == reporting' = StaleReports(t) /\ reviewing' = StaleReviews(t) /\ UNCHANGED <<decided, raced, restored, extent>>

-----------------------------------------------------------------------------
(* Members.                                                                *)

MayWrite(u) == IsMember(u, Home)

CreateCirclePost(u, p) ==
    /\ circle[Home].state = "active" /\ MayWrite(u)
    /\ content[p] = Missing /\ WritesRow(p, "live", u)
    /\ UNCHANGED <<circleVars, comments, marks, counted, complaint, erased, hiddenRows, since, transactions>>

CreateCircleComment(u, c) ==
    /\ IsLive(CommentedPost[c]) /\ MayWrite(u)
    /\ content[c] = Missing /\ WritesRow(c, "live", u)
    /\ comments' = CountUp(c)
    /\ UNCHANGED <<circleVars, marks, counted, complaint, erased, hiddenRows, since, transactions>>

\* To the anchor of the day, or to a response that is no reply itself.
CreateResponse(u, r) ==
    /\ MayWrite(u) /\ \A parent \in Threads[r] : IsLive(parent)
    /\ content[r] = Missing /\ WritesRow(r, "live", u)
    /\ UNCHANGED <<circleVars, comments, marks, counted, complaint, erased, hiddenRows, since, transactions>>

\* Mutant, used by no specification, as are all that are marked so: a plausible bug
\* in the definition that follows.
DeleteUncounted(u, c) ==
    /\ IsLive(c) /\ content[c].author = {u} /\ MayWrite(u)
    /\ content' = [content EXCEPT ![c] = Removed(c, "author")]
    /\ CommitsOn(c)
    /\ UNCHANGED <<circleVars, comments, marks, counted, complaint, erased, hiddenRows, since>>

DeleteCircleComment(u, c) ==
    /\ IsLive(c) /\ content[c].author = {u} /\ MayWrite(u)
    /\ TakesOff(c, "author")
    /\ CommitsOn(c)
    /\ UNCHANGED <<circleVars, marks, counted, complaint, erased, hiddenRows, since>>

Mark(u, t) ==
    /\ IsLive(t) /\ MayWrite(u) /\ <<u, t>> \notin marks
    /\ marks' = marks \union {<<u, t>>}
    /\ counted' = [counted EXCEPT ![t] = @ + 1]
    /\ UNCHANGED <<circleVars, content, comments, complaint, erased, hiddenRows, since, transactions>>

\* A mark on a comment stays: adding it again fails on the constraint, after which the
\* transaction takes no further query.
Unmark(u, t) ==
    /\ IsLive(t) /\ MayWrite(u) /\ <<u, t>> \in marks /\ t \notin CircleComments
    /\ marks' = marks \ {<<u, t>>}
    /\ counted' = [counted EXCEPT ![t] = @ - 1]
    /\ UNCHANGED <<circleVars, content, comments, complaint, erased, hiddenRows, since, transactions>>

-----------------------------------------------------------------------------
(* What members are shown.                                                 *)

FeedOfCircle(u) == {p \in CirclePosts : circle[Home].state = "active" /\ IsLive(p)} \ HiddenFor(u)

CommentsOfPost(u, p) == IF IsLive(p) /\ MayWrite(u) THEN LiveComments(p) \ HiddenFor(u) ELSE {}

AnchorResponses(u) ==
    IF MayWrite(u) THEN {r \in Responses : Threads[r] = {} /\ IsLive(r)} \ HiddenFor(u) ELSE {}

ResponseReplies(u, r) ==
    IF IsLive(r) /\ r \notin HiddenFor(u) /\ MayWrite(u)
    THEN {reply \in Responses : Threads[reply] = {r} /\ IsLive(reply)} \ HiddenFor(u) ELSE {}

ShownTo(u) ==
    FeedOfCircle(u) \union (UNION {CommentsOfPost(u, p) : p \in CirclePosts})
        \union AnchorResponses(u) \union (UNION {ResponseReplies(u, r) : r \in Responses})

-----------------------------------------------------------------------------
(* Reports.  A report sees those that were committed, and its own.  What a  *)
(* user reports is hidden from that user, and of what is hidden only the   *)
(* newest rows are kept.                                                   *)

\* Mutant.
HidesNewestTrimmed(u, t) ==
    LET rows == hiddenRows[u] IN
    IF t \in HiddenFor(u) THEN UNCHANGED <<hiddenRows, since>>
    ELSE /\ hiddenRows' = [hiddenRows EXCEPT ![u] = IF Len(rows) < KeepsHidden THEN Append(rows, t) ELSE rows]
         /\ since' = [since EXCEPT ![u] = [x \in ContentTargets |-> IF x = t THEN {} ELSE @[x] \union {t}]]

Hides(u, t) ==
    LET rows == hiddenRows[u] IN
    IF t \in HiddenFor(u) THEN UNCHANGED <<hiddenRows, since>>
    ELSE /\ hiddenRows' = [hiddenRows EXCEPT ![u] = Append(IF Len(rows) < KeepsHidden THEN rows ELSE Tail(rows), t)]
         /\ since' = [since EXCEPT ![u] = [x \in ContentTargets |-> IF x = t THEN {} ELSE @[x] \union {t}]]

MayReport(u, t) ==
    reporting[u] = NoReporting /\ circle[Home].state # "deleted" /\ MayWrite(u) /\ IsLive(t)

\* Mutant.
ReportUncounted(u, t) ==
    /\ MayReport(u, t) /\ complaint[u][t] = "none"
    /\ reporting' = [reporting EXCEPT ![u] = Started(t, Cardinality(ReportersOf(t)) >= HidesAt)]
    /\ UNCHANGED <<circleVars, contentRows, reviewing, decided, raced, restored, extent>>

ReportCircleContent(u, t) ==
    /\ MayReport(u, t) /\ complaint[u][t] = "none"
    /\ LET hides == Cardinality(ReportersOf(t) \union {u}) >= HidesAt
       IN  reporting' = [reporting EXCEPT ![u] = Started(t, hides)]
    /\ UNCHANGED <<circleVars, contentRows, reviewing, decided, raced, restored, extent>>

\* The report that is there is the answer, and the content is hidden again.
ReportAgain(u, t) ==
    /\ MayReport(u, t) /\ complaint[u][t] # "none"
    /\ Hides(u, t)
    /\ UNCHANGED <<circleVars, content, comments, marks, counted, complaint, erased, transactions>>

CommitReport(u) ==
    /\ reporting[u].pc = "reporting"
    /\ \E t \in reporting[u].target :
        /\ complaint' = [complaint EXCEPT ![u][t] = "pending"]
        /\ Hides(u, t)
        /\ IF reporting[u].hides THEN TakesOff(t, "reports") ELSE UNCHANGED <<content, comments>>
        /\ reporting' = [StaleReports(t) EXCEPT ![u] = NoReporting]
        /\ reviewing' = StaleReviews(t)
        /\ raced' = raced \union (IF reporting[u].fresh THEN {} ELSE {t})
    /\ UNCHANGED <<circleVars, marks, counted, erased, decided, restored, extent>>

-----------------------------------------------------------------------------
(* Reviews in the dashboard.  A review holds the report it was opened on,  *)
(* and in the end resolves every pending report on the same target.        *)

Held == UNION {reviewing[a].on : a \in CircleAdmins}

\* Mutant.
OpenReviewUnlocked(a, u, t, decision) ==
    /\ reviewing[a] = NoReview /\ complaint[u][t] = "pending"
    /\ LET acts == IF decision = "keep" THEN Deleted(t) ELSE IsLive(t)
       IN  reviewing' = [reviewing EXCEPT ![a] = Opened(decision, u, t, acts)]
    /\ UNCHANGED <<circleVars, contentRows, reporting, decided, raced, restored, extent>>

OpenReview(a, u, t, decision) ==
    /\ reviewing[a] = NoReview /\ complaint[u][t] = "pending" /\ <<u, t>> \notin Held
    /\ LET acts == IF decision = "keep" THEN Deleted(t) ELSE IsLive(t)
       IN  reviewing' = [reviewing EXCEPT ![a] = Opened(decision, u, t, acts)]
    /\ UNCHANGED <<circleVars, contentRows, reporting, decided, raced, restored, extent>>

\* A review waits for another one that holds a report it is to resolve.
AwaitsReview(a, b) ==
    \E r \in reviewing[a].on : \E v \in Pending(r[2]) \ {r[1]} : reviewing[b].on = {<<v, r[2]>>}

Resolve(t) ==
    complaint' = [u \in CircleUsers |-> [complaint[u] EXCEPT ![t] = IF @ = "pending" THEN "resolved" ELSE @]]

CommitReview(a) ==
    /\ reviewing[a] # NoReview /\ \A b \in CircleAdmins : ~ AwaitsReview(a, b)
    /\ \E r \in reviewing[a].on : LET t == r[2] IN
        /\ \/ reviewing[a].acts /\ reviewing[a].pc = "remove" /\ TakesOff(t, "review") /\ UNCHANGED restored
           \/ reviewing[a].acts /\ reviewing[a].pc = "keep" /\ PutsBack(t)
           \/ ~ reviewing[a].acts /\ UNCHANGED <<content, comments, restored>>
        /\ Resolve(t)
        /\ decided' = [decided EXCEPT ![t] = reviewing[a].pc]
        /\ reporting' = StaleReports(t)
        /\ reviewing' = [StaleReviews(t) EXCEPT ![a] = NoReview]
        /\ raced' = raced \union (IF reviewing[a].fresh THEN {} ELSE {t})
    /\ UNCHANGED <<circleVars, marks, counted, erased, hiddenRows, since, extent>>

\* Of two reviews that wait for each other's reports the database ends one.
AbortReview(a) ==
    /\ \E b \in CircleAdmins : AwaitsReview(a, b) /\ AwaitsReview(b, a)
    /\ reviewing' = [reviewing EXCEPT ![a] = NoReview]
    /\ UNCHANGED <<circleVars, contentRows, reporting, decided, raced, restored, extent>>

-----------------------------------------------------------------------------

\* The teardown of a user deletes what others see of the user and leaves the counts alone.
\* It waits for the reviews that hold a report of the user.
EraseUser(u) ==
    /\ u \notin erased /\ reporting[u] = NoReporting /\ \A r \in Held : r[1] # u
    /\ erased' = erased \union {u}
    /\ member' = {m \in member : m[1] # u}
    /\ marks' = {m \in marks : m[1] # u /\ content[m[2]].author # {u}}
    /\ content' = [t \in ContentTargets |->
            IF IsLive(t) /\ content[t].author = {u} THEN Removed(t, "teardown") ELSE content[t]]
    /\ complaint' = [complaint EXCEPT ![u] = [t \in ContentTargets |-> "none"]]
    /\ hiddenRows' = [hiddenRows EXCEPT ![u] = <<>>]
    /\ UNCHANGED <<circle, ruleSets, creation, comments, counted, since, transactions>>

WritingComments(u) ==
    \E c \in CircleComments \intersect extent.written : CreateCircleComment(u, c) \/ DeleteCircleComment(u, c)

Marking(u) == \E t \in extent.marked : Mark(u, t) \/ Unmark(u, t)

Responding(u) ==
    \/ \E r \in Responses \intersect extent.written : CreateResponse(u, r)
    \/ \E t \in extent.reported : ReportCircleContent(u, t) \/ ReportAgain(u, t)
    \/ CommitReport(u)
    \/ \E p \in CirclePosts \intersect extent.written : CreateCirclePost(u, p)

Members ==
    \E u \in CircleUsers \ erased :
        \/ Responding(u) \/ WritingComments(u) \/ Marking(u)
        \/ JoinCircle(u, Home) /\ UNCHANGED <<contentRows, transactions>>
        \/ extent.managed /\ LeaveCircle(u, Home) /\ UNCHANGED <<contentRows, transactions>>

Dashboard ==
    \/ \E a \in CircleAdmins, u \in CircleUsers, t \in ContentTargets, decision \in {"keep", "remove"} :
        OpenReview(a, u, t, decision)
    \/ \E a \in CircleAdmins : CommitReview(a) \/ AbortReview(a)
    \/ extent.managed /\ ManageCircles /\ UNCHANGED <<contentRows, transactions>>
    \/ \E u \in extent.erased : EraseUser(u)

ContentNext == Members \/ Dashboard

ContentSpec == ContentInit /\ [][ContentNext]_contentVars

-----------------------------------------------------------------------------

ContentTypeOK ==
    /\ circle \in [Circles -> [state : {"absent", "active", "inactive", "deleted"}, name : SUBSET Names]]
    /\ member \subseteq CircleUsers \X Circles /\ ruleSets \in Nat
    /\ creation \in [CircleAdmins -> [pc : {"rest", "adding", "added"}, name : SUBSET Names, rules : BOOLEAN]]
    /\ content \in [ContentTargets -> [state : {"missing", "live", "deleted"}, author : SUBSET CircleUsers,
            by : {"nobody", "author", "reports", "review", "teardown"}]]
    /\ comments \in [CirclePosts -> Nat] /\ counted \in [ContentTargets -> Nat]
    /\ marks \subseteq CircleUsers \X ContentTargets
    /\ complaint \in [CircleUsers -> [ContentTargets -> {"none", "pending", "resolved"}]]
    /\ reporting \in [CircleUsers -> [pc : {"idle", "reporting"}, target : SUBSET ContentTargets,
            hides : BOOLEAN, fresh : BOOLEAN]]
    /\ reviewing \in [CircleAdmins -> [pc : {"idle", "keep", "remove"}, on : SUBSET (CircleUsers \X ContentTargets),
            acts : BOOLEAN, fresh : BOOLEAN]]
    /\ hiddenRows \in [CircleUsers -> Seq(ContentTargets)] /\ since \in [CircleUsers -> [ContentTargets -> SUBSET ContentTargets]]
    /\ decided \in [ContentTargets -> {"nothing", "keep", "remove"}]
    /\ erased \subseteq CircleUsers /\ raced \subseteq ContentTargets /\ restored \subseteq ContentTargets
    /\ extent \in Extents

\* Circles, comment_services and moderation_services: the number of comments a post shows is
\* the number of its comments that are not deleted,
\* as long as no report or review decided on what was no longer so and no account was torn
\* down: nothing else takes a comment off twice, or forgets to.
CountsAreExactUnlessRaced ==
    erased = {} /\ raced = {} =>
        \A p \in CirclePosts : comments[p] = Cardinality(LiveComments(p))

\* Content as many members reported as the threshold asks for does not stay visible, unless
\* an administrator decided on it or the reports were sent at the same time.
ReportedIsHidden ==
    \A t \in ContentTargets :
        IsLive(t) /\ Cardinality(ReportersOf(t)) >= HidesAt =>
            t \in raced \/ \E u \in CircleUsers : complaint[u][t] = "resolved"

\* No list of circle content shows what the viewer reported, whichever way it is reached,
\* before as many others were hidden from the viewer since as rows are kept, nor what a user
\* wrote whose account was torn down, unless an administrator put it back.
ShowsNothingHidden ==
    \A u \in CircleUsers \ erased : \A t \in ShownTo(u) :
        /\ complaint[u][t] # "none" => Cardinality(since[u][t]) >= KeepsHidden
        /\ content[t].author \cap erased = {} \/ t \in restored

\* Circles, moderation_services and hidden_content: both, in every behaviour.
ReportedIsHiddenUnlessRaced == ReportedIsHidden /\ ShowsNothingHidden

\* core/admin_dashboard/circle_report_services.py, "one admin decision applies to the target":
\* however reviews of one target, reports of it and deletions overlap, what the last review
\* decided to remove is not to be seen, and what it decided to keep is not left hidden by
\* reports of which none is pending, unless that review decided on what was no longer so.
DecisionsStand ==
    \A t \in ContentTargets :
        /\ decided[t] = "remove" => ~ IsLive(t)
        /\ decided[t] = "keep" /\ erased = {} /\ content[t].by = "reports" /\ Pending(t) = {} => t \in raced

\* What the code says and does not do.

\* core/circles/comment_services.py: "concurrent requests never create race conditions on
\* the denormalized counts."
CountsNeverRace ==
    erased = {} => \A p \in CirclePosts : comments[p] = Cardinality(LiveComments(p))

\* core/admin_dashboard/circle_report_services.py: "Un-hide auto-hidden content the admin
\* decided to keep": what its author, or the teardown of its author, deleted is not put back.
WhatItsAuthorDeletedStaysDeleted ==
    [][\A t \in ContentTargets : content[t].by \in {"author", "teardown"} => Deleted(t)']_contentVars

\* core/circles/comment_services.py: a toggle of a like that is there removes it.
MarksCanBeTakenBack ==
    \A u \in CircleUsers \ erased, t \in ContentTargets :
        <<u, t>> \in marks /\ IsLive(t) /\ MayWrite(u) => ENABLED Unmark(u, t)

=============================================================================
