------------------------------ MODULE Community -----------------------------
(***************************************************************************)
(* Posts and comments of the community, the reports about them, what comes *)
(* of enough reports, and what administrators decide: on the dashboard     *)
(* (core/admin_dashboard/moderation_services.py), in one transaction with  *)
(* a lock on the report, or through the API of the app                     *)
(* (core/moderation/services.py), whose statements commit one by one.      *)
(*                                                                         *)
(* To delete is to set deleted_at: authors, reports and administrators     *)
(* write the same column, and it does not say who did.                     *)
(***************************************************************************)
EXTENDS Naturals, FiniteSets

CONSTANTS
    Users,
    Admins,
    Posts,
    Comments,
    ParentOf,       \* the post or the comment that each comment answers
    MaxThreadDepth, \* COMMENT_MAX_THREAD_DEPTH (3)
    AutoHideAt,     \* _AUTO_HIDE_THRESHOLD (3): so many users, not so many reports
    Reasons,
    Scopes          \* what to explore: the comments there may be, who may report what for which
                    \* reason, and what administrators do

Targets == Posts \union Comments
Keys == Users \X Targets \X Reasons

\* ModerationActionChoice; "api" stands for what ReportService.review_report takes.
Actions == {"dismiss", "hide", "warn", "delete", "restore", "api"}

ASSUME CommunityAssumption ==
    /\ IsFiniteSet(Users)
    /\ ParentOf \in [Comments -> Targets]
    /\ MaxThreadDepth \in Nat /\ AutoHideAt \in Nat
    /\ Scopes \subseteq [comments : SUBSET Comments, reports : SUBSET Keys, actions : SUBSET Actions]

VARIABLES
    written,    \* the rows that were added
    deleted,    \* those with deleted_at
    report,     \* the status of each report, one for a user, a target and a reason
    hiddenFor,  \* pairs of a user and a target the user does not see
    filing,     \* the progress of each user's report
    review,     \* the progress of each administrator's review through the API
    byReports,  \* history: targets that reports took down
    fresh,      \* history: targets reported since they were last restored
    cutOff,     \* history: targets of which a report ended before its count
    ordered,    \* history: targets whose deletion was ordered on the dashboard
    scope       \* fixed from the start

communityVars == <<written, deleted, report, hiddenFor, filing, review, byReports, fresh, cutOff, ordered, scope>>

NotFiling == [pc |-> "idle", of |-> {}, created |-> FALSE]
NotReviewing == [pc |-> "idle", of |-> {}, status |-> "pending"]

CommunityInit ==
    /\ written = Posts /\ deleted = {}
    /\ report = [k \in Keys |-> "none"]
    /\ hiddenFor = {}
    /\ filing = [u \in Users |-> NotFiling]
    /\ review = [a \in Admins |-> NotReviewing]
    /\ byReports = {} /\ fresh = {} /\ cutOff = {} /\ ordered = {}
    /\ scope \in Scopes

Live(t) == t \in written \ deleted

\* Counted through the comments that are there: one that is deleted ends the count.
Depth[c \in Comments] ==
    IF ParentOf[c] \in Posts THEN 0 ELSE IF ParentOf[c] \in deleted THEN 1 ELSE Depth[ParentOf[c]] + 1

PostOf[t \in Targets] == IF t \in Posts THEN t ELSE PostOf[ParentOf[t]]

Exists(k) == report[k] # "none"
Reporters(t) == {u \in Users : \E r \in Reasons : Exists(<<u, t, r>>)}

-----------------------------------------------------------------------------
(* Authors.                                                                *)

KeepsReports == UNCHANGED <<report, hiddenFor, filing, review, byReports, fresh, cutOff, ordered, scope>>

\* A reply to a reply, as deep as the count allows; the comments in between may be deleted.
CreateComment(c) ==
    /\ c \notin written
    /\ Live(PostOf[c]) /\ Live(ParentOf[c])
    /\ ParentOf[c] \in Comments => Depth[ParentOf[c]] < MaxThreadDepth
    /\ written' = written \union {c}
    /\ UNCHANGED deleted /\ KeepsReports

TakesDown(t) == deleted' = deleted \union {t} /\ UNCHANGED written

DeleteComment(c) == Live(c) /\ TakesDown(c) /\ KeepsReports
DeletePost(p) == Live(p) /\ TakesDown(p) /\ KeepsReports

-----------------------------------------------------------------------------
(* Reports: every statement commits by itself.                             *)

KeepsReviews == UNCHANGED <<written, review, ordered, scope>>

\* The same report again only hides the target from who reports.
ReportContent(u, t, r) ==
    /\ filing[u] = NotFiling /\ Live(t)
    /\ filing' = [filing EXCEPT ![u] = [pc |-> "hide", of |-> {t}, created |-> ~ Exists(<<u, t, r>>)]]
    /\ report' = IF Exists(<<u, t, r>>) THEN report ELSE [report EXCEPT ![<<u, t, r>>] = "pending"]
    /\ fresh' = IF Exists(<<u, t, r>>) THEN fresh ELSE fresh \union {t}
    /\ UNCHANGED <<deleted, hiddenFor, byReports, cutOff>> /\ KeepsReviews

Stands(u, pc, t) == filing[u].pc = pc /\ filing[u].of = {t}
GoesOn(u, pc) == filing' = [filing EXCEPT ![u].pc = pc]
EndsReport(u) == filing' = [filing EXCEPT ![u] = NotFiling]

\* A target that is gone by now is not hidden from who reports.
HideReported(u, t) ==
    /\ Stands(u, "hide", t)
    /\ hiddenFor' = IF Live(t) THEN hiddenFor \union {<<u, t>>} ELSE hiddenFor
    /\ IF filing[u].created THEN GoesOn(u, "count") ELSE EndsReport(u)
    /\ UNCHANGED <<deleted, report, byReports, fresh, cutOff>> /\ KeepsReviews

\* Mutant, used by no specification, as are all that are marked so: a plausible bug
\* in the definition that follows.
CountReports(u, t) ==
    /\ Stands(u, "count", t)
    /\ IF Cardinality({k \in Keys : k[2] = t /\ Exists(k)}) >= AutoHideAt THEN GoesOn(u, "take down") ELSE EndsReport(u)
    /\ UNCHANGED <<deleted, report, hiddenFor, byReports, fresh, cutOff>> /\ KeepsReviews

CountReporters(u, t) ==
    /\ Stands(u, "count", t)
    /\ IF Cardinality(Reporters(t)) >= AutoHideAt THEN GoesOn(u, "take down") ELSE EndsReport(u)
    /\ UNCHANGED <<deleted, report, hiddenFor, byReports, fresh, cutOff>> /\ KeepsReviews

AutoHide(u, t) ==
    /\ Stands(u, "take down", t)
    /\ deleted' = deleted \union {t}
    /\ byReports' = IF t \in deleted THEN byReports ELSE byReports \union {t}
    /\ EndsReport(u)
    /\ UNCHANGED <<report, hiddenFor, fresh, cutOff>> /\ KeepsReviews

RequestDies(u, t) ==
    /\ filing[u].created /\ filing[u].of = {t}
    /\ EndsReport(u) /\ cutOff' = cutOff \union {t}
    /\ UNCHANGED <<deleted, report, hiddenFor, byReports, fresh>> /\ KeepsReviews

-----------------------------------------------------------------------------
(* Administrators.                                                         *)

Decides(k, status) == report' = [report EXCEPT ![k] = status]
KeepsFiling == UNCHANGED <<hiddenFor, filing, byReports, cutOff, scope>>

ReviewReport(k, action) ==
    /\ report[k] = "pending"
    /\ CASE action = "dismiss" -> Decides(k, "dismissed") /\ UNCHANGED <<written, deleted>>
         [] action = "hide" -> Decides(k, "actioned") /\ TakesDown(k[2])
         [] action = "warn" -> Decides(k, "actioned") /\ UNCHANGED <<written, deleted>>
    /\ UNCHANGED <<review, fresh, ordered>> /\ KeepsFiling

\* Django refuses to save the report while it holds the post or comment that was just deleted
\* ("save() prohibited to prevent data loss due to unsaved related object"), and the
\* transaction is rolled back.
ReviewAndDelete(k) ==
    /\ report[k] = "pending"
    /\ ordered' = ordered \union {k[2]}
    /\ UNCHANGED <<written, deleted, report, review, fresh>> /\ KeepsFiling

\* Whatever was decided, and whoever deleted it.
RestoreContent(k) ==
    /\ Exists(k) /\ k[2] \in deleted
    /\ deleted' = deleted \ {k[2]}
    /\ Decides(k, "dismissed") /\ fresh' = fresh \ {k[2]}
    /\ UNCHANGED <<written, review, ordered>> /\ KeepsFiling

\* Through the API reports are decided again and again, the status is not that of the action,
\* and the status is saved after the action took place.
ExecuteReportAction(a, k, status, hides) ==
    /\ review[a] = NotReviewing /\ Exists(k)
    /\ review' = [review EXCEPT ![a] = [pc |-> "save", of |-> {k}, status |-> status]]
    /\ IF hides THEN TakesDown(k[2]) ELSE UNCHANGED <<written, deleted>>
    /\ UNCHANGED <<report, fresh, ordered>> /\ KeepsFiling

SaveReview(a, k) ==
    /\ review[a].pc = "save" /\ review[a].of = {k}
    /\ Decides(k, review[a].status)
    /\ review' = [review EXCEPT ![a] = NotReviewing]
    /\ UNCHANGED <<written, deleted, fresh, ordered>> /\ KeepsFiling

-----------------------------------------------------------------------------

Commenting == \E c \in scope.comments : CreateComment(c) \/ DeleteComment(c)
Posting == \E p \in Posts : DeletePost(p)
Reporting ==
    \/ \E k \in scope.reports : ReportContent(k[1], k[2], k[3])
    \/ \E u \in Users, t \in Targets :
        HideReported(u, t) \/ CountReporters(u, t) \/ AutoHide(u, t) \/ RequestDies(u, t)

\* On the dashboard.
Reviewing ==
    \E k \in scope.reports :
        \/ \E action \in scope.actions \intersect {"dismiss", "hide", "warn"} : ReviewReport(k, action)
        \/ "delete" \in scope.actions /\ ReviewAndDelete(k)
        \/ "restore" \in scope.actions /\ RestoreContent(k)

\* In the app.
ReviewingInApp ==
    \E k \in scope.reports, a \in Admins :
        \/ "api" \in scope.actions
            /\ \E status \in {"reviewed", "actioned", "dismissed"}, hides \in BOOLEAN :
                ExecuteReportAction(a, k, status, hides)
        \/ SaveReview(a, k)

CommunityNext == Commenting \/ Posting \/ Reporting \/ Reviewing \/ ReviewingInApp

CommunitySpec == CommunityInit /\ [][CommunityNext]_communityVars

-----------------------------------------------------------------------------

CommunityTypeOK ==
    /\ written \subseteq Targets /\ deleted \subseteq written
    /\ report \in [Keys -> {"none", "pending", "reviewed", "actioned", "dismissed"}]
    /\ hiddenFor \subseteq Users \X Targets
    /\ filing \in [Users -> [pc : {"idle", "hide", "count", "take down"}, of : SUBSET Targets, created : BOOLEAN]]
    /\ review \in [Admins -> [pc : {"idle", "save"}, of : SUBSET Keys,
            status : {"pending", "reviewed", "actioned", "dismissed"}]]
    /\ byReports \subseteq Targets /\ fresh \subseteq Targets /\ cutOff \subseteq Targets /\ ordered \subseteq Targets
    /\ scope \in Scopes

\* Reports take a target down if and only if enough users made them, in whatever order they
\* come and administrators decide: what reports took down has enough reporters, and what has
\* enough of them and was reported since it was last restored is not shown once its reports
\* are through, if none of them died.
AutoHideIsExact ==
    /\ \A t \in byReports : Cardinality(Reporters(t)) >= AutoHideAt
    /\ \A t \in fresh \ cutOff :
        Live(t) /\ (\A u \in Users : filing[u].of # {t}) => Cardinality(Reporters(t)) < AutoHideAt

\* core/admin_dashboard/moderation_services.py, review_report: "delete_content: Hard-delete
\* the reported content."
OrderedDeletionsHappen == \A t \in ordered : t \notin written

=============================================================================
