---------------------------- MODULE PlatformProofs ----------------------------
(***************************************************************************)
(* What is proved of the modules that MCPlatform composes and that have no *)
(* module of proofs of their own.                                          *)
(***************************************************************************)
EXTENDS Community, Social, DeviceTokens, Previews, Lists, CircleContent, Hiding, FiniteSetTheorems, SequenceTheorems,
        WellFoundedInduction, TLAPS

-----------------------------------------------------------------------------
(***************************************************************************)
(* The community.  Reports take a target down if and only if enough users  *)
(* made them, for any users, posts, comments and threshold.  What makes it *)
(* inductive: no report is taken back, so enough reporters stay enough;    *)
(* and whatever is shown in spite of enough of them has a report whose     *)
(* count is to come.                                                       *)
(***************************************************************************)

Statuses == {"none", "pending", "reviewed", "actioned", "dismissed"}
Filings == [pc : {"idle", "hide", "count", "take down"}, of : SUBSET Targets, created : BOOLEAN]

Reviews == [pc : {"idle", "save"}, of : SUBSET Keys, status : Statuses \ {"none"}]

\* A review through the API is of a report there is.
ReviewsOfReports ==
    /\ review \in [Admins -> Reviews]
    /\ \A a \in Admins : \A k \in review[a].of : Exists(k)

CommunityTyping ==
    /\ report \in [Keys -> Statuses]
    /\ filing \in [Users -> Filings]
    /\ ReviewsOfReports
    /\ fresh \subseteq written /\ written \subseteq Targets /\ byReports \subseteq Targets
    /\ scope \in Scopes

EnoughReported(t) == Cardinality(Reporters(t)) >= AutoHideAt

\* Whoever is to take a target down has counted enough, and so did who took it down.
TakenForEnough ==
    /\ \A t \in byReports : EnoughReported(t)
    /\ \A u \in Users : filing[u].pc = "take down" => \A t \in filing[u].of : EnoughReported(t)

\* What is shown in spite of enough reporters has a report that is not counted yet.
CountIsToCome ==
    \A t \in fresh \ cutOff : Live(t) /\ EnoughReported(t) =>
        \E u \in Users : filing[u].of = {t} /\ filing[u].created

IInv == CommunityTyping /\ TakenForEnough /\ CountIsToCome

-----------------------------------------------------------------------------

LEMMA Shape ==
    /\ IsFiniteSet(Users) /\ AutoHideAt \in Nat
    /\ \A c \in Scopes : c.comments \subseteq Comments /\ c.reports \subseteq Keys
  BY CommunityAssumption

LEMMA ReportersAreFinite ==
    ASSUME NEW t
    PROVE  IsFiniteSet(Reporters(t)) /\ Cardinality(Reporters(t)) \in Nat
<1>1. Reporters(t) \subseteq Users
  BY DEF Reporters
<1> QED
  BY <1>1, Shape, FS_Subset, FS_CardinalityType

LEMMA InitHolds == CommunityInit => IInv
<1> SUFFICES ASSUME CommunityInit
             PROVE  IInv
  OBVIOUS
<1> USE DEF CommunityInit
<1>1. NotFiling \in Filings /\ NotFiling.pc = "idle"
  BY DEF NotFiling, Filings
<1>2. CommunityTyping
  <2>1. NotReviewing \in Reviews /\ NotReviewing.of = {}
    BY DEF NotReviewing, Reviews, Statuses
  <2>2. ReviewsOfReports
    BY <2>1 DEF ReviewsOfReports
  <2> QED
    BY <1>1, <2>2 DEF CommunityTyping, Statuses, Targets
<1> QED
  BY <1>1, <1>2 DEF IInv, TakenForEnough, CountIsToCome

\* No report goes, so enough reporters stay enough.
LEMMA EnoughStay ==
    ASSUME \A k \in Keys : Exists(k) => Exists(k)', NEW t \in Targets, EnoughReported(t)
    PROVE  EnoughReported(t)'
<1>1. Reporters(t) \subseteq Reporters(t)'
  <2> SUFFICES ASSUME NEW u \in Users, NEW r \in Reasons, Exists(<<u, t, r>>)
               PROVE  Exists(<<u, t, r>>)'
    BY DEF Reporters
  <2>1. <<u, t, r>> \in Keys
    BY DEF Keys
  <2> QED
    BY <2>1
<1>2. IsFiniteSet(Reporters(t)') /\ Cardinality(Reporters(t)') \in Nat
  <2>1. Reporters(t)' \subseteq Users
    BY DEF Reporters
  <2> QED
    BY <2>1, Shape, FS_Subset, FS_CardinalityType
<1>3. Cardinality(Reporters(t)) \in Nat /\ Cardinality(Reporters(t)) <= Cardinality(Reporters(t)')
  BY <1>1, <1>2, ReportersAreFinite, FS_Subset
<1> DEFINE i == Cardinality(Reporters(t))
           j == Cardinality(Reporters(t)')
<1>4. i \in Nat /\ j \in Nat /\ i <= j /\ i >= AutoHideAt
  BY <1>2, <1>3 DEF EnoughReported
<1> HIDE DEF i, j
<1>5. j >= AutoHideAt
  BY <1>4, Shape
<1> QED
  BY <1>5 DEF EnoughReported, j

\* The same reports are the same reporters.
LEMMA SameReporters ==
    ASSUME UNCHANGED report, NEW t
    PROVE  EnoughReported(t)' = EnoughReported(t)
  BY DEF EnoughReported, Reporters, Exists

-----------------------------------------------------------------------------
(* The steps.                                                              *)

LEMMA StepKeeps ==
    ASSUME IInv, CommunityTyping', \A k \in Keys : Exists(k) => Exists(k)',
           \A t \in byReports' : t \in byReports \/ EnoughReported(t)',
           \A u \in Users : filing'[u].pc = "take down" =>
             filing'[u] = filing[u] \/ \A t \in filing'[u].of : EnoughReported(t)',
           \A t \in fresh' \ cutOff' : Live(t)' /\ EnoughReported(t)' =>
             \E u \in Users : filing'[u].of = {t} /\ filing'[u].created
    PROVE  IInv'
<1>1. \A t \in Targets : EnoughReported(t) => EnoughReported(t)'
  BY EnoughStay
<1>2. \A t \in byReports' : EnoughReported(t)'
  BY <1>1 DEF IInv, CommunityTyping, TakenForEnough
<1>3. ASSUME NEW u \in Users, filing'[u].pc = "take down", NEW t \in filing'[u].of
      PROVE  EnoughReported(t)'
  <2>1. CASE filing'[u] = filing[u]
    <3>1. t \in Targets /\ EnoughReported(t)
      BY <1>3, <2>1 DEF IInv, CommunityTyping, Filings, TakenForEnough
    <3> QED
      BY <1>1, <3>1
  <2> QED
    BY <1>3, <2>1
<1> QED
  BY <1>2, <1>3 DEF IInv, TakenForEnough, CountIsToCome

\* Nobody files: reports are decided, targets come, go and are restored.
LEMMA OthersStep ==
    ASSUME IInv, UNCHANGED <<filing, byReports, cutOff, scope>>,
           report' \in [Keys -> Statuses], \A k \in Keys : Exists(k)' = Exists(k),
           ReviewsOfReports', fresh' \subseteq fresh, written \subseteq written', written' \subseteq Targets,
           \A t \in fresh' : Live(t)' => Live(t)
    PROVE  IInv'
<1>1. CommunityTyping'
  BY DEF IInv, CommunityTyping
<1>2. \A t \in Targets : EnoughReported(t)' = EnoughReported(t)
  <2> SUFFICES ASSUME NEW t \in Targets
               PROVE  Reporters(t)' = Reporters(t)
    BY DEF EnoughReported
  <2>1. \A u \in Users, r \in Reasons : <<u, t, r>> \in Keys
    BY DEF Keys
  <2> QED
    BY <2>1 DEF Reporters
<1>3. \A t \in fresh' \ cutOff' : Live(t)' /\ EnoughReported(t)' =>
        \E u \in Users : filing'[u].of = {t} /\ filing'[u].created
  BY <1>2 DEF IInv, CommunityTyping, CountIsToCome
<1> QED
  BY <1>1, <1>3, StepKeeps

LEMMA AuthorKeeps ==
    ASSUME IInv, NEW t \in Targets,
           CreateComment(t) \/ DeleteComment(t) \/ DeletePost(t)
    PROVE  IInv'
<1>1. UNCHANGED <<report, filing, review, byReports, fresh, cutOff, scope>>
  BY DEF CreateComment, DeleteComment, DeletePost, KeepsReports
<1>2. \/ written' = written \union {t} /\ t \notin written /\ deleted' = deleted
      \/ written' = written /\ deleted' = deleted \union {t}
  BY DEF CreateComment, DeleteComment, DeletePost, TakesDown
<1>3. report' \in [Keys -> Statuses] /\ \A k \in Keys : Exists(k)' = Exists(k)
  BY <1>1 DEF IInv, CommunityTyping, Exists
<1>4. \A x \in fresh : Live(x)' => Live(x)
  BY <1>2 DEF IInv, CommunityTyping, Live
<1>5. written \subseteq written' /\ written' \subseteq Targets
  BY <1>2 DEF IInv, CommunityTyping
<1>6. ReviewsOfReports'
  BY <1>1 DEF IInv, CommunityTyping, ReviewsOfReports, Exists
<1> QED
  BY <1>1, <1>3, <1>4, <1>5, <1>6, OthersStep

\* What was decided is no reason to think that there was no report.
LEMMA DecidesKeepsReports ==
    ASSUME IInv, NEW k \in Keys, Exists(k), NEW status \in Statuses \ {"none"}, Decides(k, status)
    PROVE  report' \in [Keys -> Statuses] /\ \A x \in Keys : Exists(x)' = Exists(x)
<1>1. report \in [Keys -> Statuses]
  BY DEF IInv, CommunityTyping
<1> QED
  BY <1>1 DEF Decides, Exists

LEMMA AdministratorKeeps ==
    ASSUME IInv, NEW k \in Keys,
           \/ \E action \in {"dismiss", "hide", "warn"} : ReviewReport(k, action)
           \/ ReviewAndDelete(k) \/ RestoreContent(k)
           \/ \E a \in Admins, status \in Statuses \ {"none"}, hides \in BOOLEAN :
                ExecuteReportAction(a, k, status, hides)
           \/ \E a \in Admins : SaveReview(a, k)
    PROVE  IInv'
<1> USE DEF KeepsFiling, TakesDown
<1>1. /\ report \in [Keys -> Statuses] /\ written \subseteq Targets /\ ReviewsOfReports
      /\ review \in [Admins -> Reviews]
  BY DEF IInv, CommunityTyping, ReviewsOfReports
<1>2. "dismissed" \in Statuses \ {"none"} /\ "actioned" \in Statuses \ {"none"}
  BY DEF Statuses
<1>0. ASSUME UNCHANGED review, \A x \in Keys : Exists(x)' = Exists(x)
      PROVE  ReviewsOfReports'
  BY <1>0, <1>1 DEF ReviewsOfReports, Reviews
<1>3. ASSUME NEW action \in {"dismiss", "hide", "warn"}, ReviewReport(k, action)
      PROVE  IInv'
  <2>1. /\ Exists(k) /\ (Decides(k, "dismissed") \/ Decides(k, "actioned"))
        /\ written' = written /\ (deleted' = deleted \/ deleted' = deleted \union {k[2]})
        /\ UNCHANGED <<filing, byReports, cutOff, scope, review, fresh>>
    BY <1>3 DEF ReviewReport, Exists
  <2>2. report' \in [Keys -> Statuses] /\ \A x \in Keys : Exists(x)' = Exists(x)
    <3>1. CASE Decides(k, "dismissed")
      BY <1>2, <2>1, <3>1, DecidesKeepsReports
    <3>2. CASE Decides(k, "actioned")
      BY <1>2, <2>1, <3>2, DecidesKeepsReports
    <3> QED
      BY <2>1, <3>1, <3>2
  <2>3. \A t \in fresh : Live(t)' => Live(t)
    BY <2>1 DEF Live
  <2>4. ReviewsOfReports'
    BY <1>0, <2>1, <2>2
  <2> QED
    BY <1>1, <2>1, <2>2, <2>3, <2>4, OthersStep
<1>4. CASE ReviewAndDelete(k)
  <2>1. UNCHANGED <<written, deleted, report, review, fresh, filing, byReports, cutOff, scope>>
    BY <1>4 DEF ReviewAndDelete
  <2>2. ReviewsOfReports'
    BY <1>0, <2>1 DEF Exists
  <2> QED
    BY <1>1, <2>1, <2>2, OthersStep DEF Exists, Live
<1>5. CASE RestoreContent(k)
  <2>1. /\ Exists(k) /\ Decides(k, "dismissed") /\ written' = written
        /\ deleted' = deleted \ {k[2]} /\ fresh' = fresh \ {k[2]}
        /\ UNCHANGED <<filing, byReports, cutOff, scope, review>>
    BY <1>5 DEF RestoreContent
  <2>2. report' \in [Keys -> Statuses] /\ \A x \in Keys : Exists(x)' = Exists(x)
    BY <1>2, <2>1, DecidesKeepsReports
  <2>3. \A t \in fresh' : Live(t)' => Live(t)
    BY <2>1 DEF Live
  <2>4. ReviewsOfReports'
    BY <1>0, <2>1, <2>2
  <2> QED
    BY <1>1, <2>1, <2>2, <2>3, <2>4, OthersStep
<1>6. ASSUME NEW a \in Admins, NEW status \in Statuses \ {"none"}, NEW hides \in BOOLEAN,
             ExecuteReportAction(a, k, status, hides)
      PROVE  IInv'
  <2> DEFINE mine == [pc |-> "save", of |-> {k}, status |-> status]
  <2>1. /\ Exists(k) /\ review' = [review EXCEPT ![a] = mine]
        /\ written' = written /\ (deleted' = deleted \/ deleted' = deleted \union {k[2]})
        /\ UNCHANGED <<report, fresh, filing, byReports, cutOff, scope>>
    BY <1>6 DEF ExecuteReportAction
  <2>2. mine \in Reviews /\ mine.of = {k}
    BY DEF Reviews
  <2> HIDE DEF mine
  <2>3. ReviewsOfReports'
    BY <1>1, <2>1, <2>2 DEF ReviewsOfReports, Exists
  <2> QED
    BY <1>1, <2>1, <2>3, OthersStep DEF Exists, Live
<1>7. ASSUME NEW a \in Admins, SaveReview(a, k)
      PROVE  IInv'
  <2>1. /\ Decides(k, review[a].status) /\ review[a].of = {k}
        /\ review' = [review EXCEPT ![a] = NotReviewing]
        /\ UNCHANGED <<written, deleted, fresh, filing, byReports, cutOff, scope>>
    BY <1>7 DEF SaveReview
  <2>2. Exists(k) /\ review[a].status \in Statuses \ {"none"}
    BY <1>1, <2>1 DEF ReviewsOfReports, Reviews
  <2>3. report' \in [Keys -> Statuses] /\ \A x \in Keys : Exists(x)' = Exists(x)
    BY <2>1, <2>2, DecidesKeepsReports
  <2>4. NotReviewing \in Reviews /\ NotReviewing.of = {}
    BY DEF NotReviewing, Reviews, Statuses
  <2>5. ReviewsOfReports'
    BY <1>1, <2>1, <2>3, <2>4 DEF ReviewsOfReports, Reviews
  <2> QED
    BY <1>1, <2>1, <2>3, <2>5, OthersStep DEF Live
<1> QED
  BY <1>3, <1>4, <1>5, <1>6, <1>7

-----------------------------------------------------------------------------
(* Who reports.                                                            *)

LEMMA ReportKeeps ==
    ASSUME IInv, NEW u \in Users, NEW t \in Targets, NEW r \in Reasons, ReportContent(u, t, r)
    PROVE  IInv'
<1> DEFINE k == <<u, t, r>>
           f == [pc |-> "hide", of |-> {t}, created |-> ~ Exists(k)]
<1>1. k \in Keys /\ f \in Filings
  BY DEF Keys, Filings, Exists
<1>2. /\ filing[u] = NotFiling /\ Live(t) /\ filing' = [filing EXCEPT ![u] = f]
      /\ report' = IF Exists(k) THEN report ELSE [report EXCEPT ![k] = "pending"]
      /\ fresh' = IF Exists(k) THEN fresh ELSE fresh \union {t}
      /\ UNCHANGED <<written, deleted, review, byReports, cutOff, scope>>
  BY DEF ReportContent, KeepsReviews
<1>3. /\ filing'[u] = f /\ \A v \in Users : v # u => filing'[v] = filing[v]
      /\ f.pc = "hide" /\ f.of = {t} /\ f.created = ~ Exists(k)
  BY <1>2 DEF IInv, CommunityTyping
<1> HIDE DEF f
<1>4. report' \in [Keys -> Statuses]
  BY <1>1, <1>2 DEF IInv, CommunityTyping, Statuses
<1>5. \A x \in Keys : Exists(x)' <=> (Exists(x) \/ x = k)
  BY <1>1, <1>2 DEF IInv, CommunityTyping, Exists
<1>6. fresh' \subseteq written
  BY <1>2 DEF IInv, CommunityTyping, Live
<1>7. filing' \in [Users -> Filings]
  BY <1>1, <1>2 DEF IInv, CommunityTyping
<1>8. CommunityTyping'
  <2>1. ReviewsOfReports'
    BY <1>2, <1>5 DEF IInv, CommunityTyping, ReviewsOfReports, Reviews
  <2> QED
    BY <1>2, <1>4, <1>6, <1>7, <2>1 DEF IInv, CommunityTyping
<1>9. ASSUME NEW x \in fresh' \ cutOff, Live(x)', EnoughReported(x)'
      PROVE  \E v \in Users : filing'[v].of = {x} /\ filing'[v].created
  <2>1. CASE x = t /\ ~ Exists(k)
    BY <1>3, <2>1
  <2>2. CASE ~ (x = t /\ ~ Exists(k))
    <3>1. x \in fresh /\ Live(x)
      BY <1>2, <1>9, <2>2 DEF Live
    <3>2. Reporters(x)' = Reporters(x)
      <4>1. \A v \in Users, q \in Reasons : <<v, x, q>> \in Keys
        BY <3>1 DEF IInv, CommunityTyping, Keys
      <4>2. \A v \in Users, q \in Reasons : Exists(<<v, x, q>>)' <=> Exists(<<v, x, q>>)
        BY <1>5, <2>2, <4>1
      <4> QED
        BY <4>2 DEF Reporters
    <3>3. EnoughReported(x)
      BY <1>9, <3>2 DEF EnoughReported
    <3>4. PICK v \in Users : filing[v].of = {x} /\ filing[v].created
      BY <1>2, <1>9, <3>1, <3>3 DEF IInv, CountIsToCome
    <3>5. v # u
      BY <1>2, <3>4 DEF NotFiling
    <3> QED
      BY <1>3, <3>4, <3>5
  <2> QED
    BY <2>1, <2>2
<1> QED
  BY <1>2, <1>3, <1>5, <1>8, <1>9, StepKeeps

\* A report goes on or ends, and is counted before it ends if it is one.
LEMMA FilingStep ==
    ASSUME IInv, NEW u \in Users, NEW t \in Targets, NEW f \in Filings,
           filing[u].of = {t}, filing' = [filing EXCEPT ![u] = f],
           UNCHANGED <<written, review, report, fresh, scope>>,
           deleted \subseteq deleted', cutOff \subseteq cutOff',
           f.pc = "take down" => f.of = {t} /\ EnoughReported(t),
           \/ f.of = {t} /\ f.created = filing[u].created
           \/ ~ filing[u].created \/ t \in deleted' \/ t \in cutOff' \/ ~ EnoughReported(t),
           \/ byReports' = byReports
           \/ byReports' = byReports \union {t} /\ EnoughReported(t)
    PROVE  IInv'
<1>1. filing'[u] = f /\ \A v \in Users : v # u => filing'[v] = filing[v]
  BY DEF IInv, CommunityTyping
<1>2. CommunityTyping'
  BY DEF IInv, CommunityTyping, ReviewsOfReports, Exists
<1>3. \A x : EnoughReported(x)' = EnoughReported(x)
  BY SameReporters
<1>4. ASSUME NEW x \in fresh' \ cutOff', Live(x)', EnoughReported(x)'
      PROVE  \E v \in Users : filing'[v].of = {x} /\ filing'[v].created
  <2>1. x \in fresh \ cutOff /\ Live(x) /\ EnoughReported(x) /\ x \notin deleted'
    BY <1>3, <1>4 DEF Live
  <2>2. PICK v \in Users : filing[v].of = {x} /\ filing[v].created
    BY <2>1 DEF IInv, CountIsToCome
  <2>3. CASE v # u
    BY <1>1, <2>2, <2>3
  <2>4. CASE v = u
    <3>1. x = t
      BY <2>2, <2>4
    <3>2. f.of = {t} /\ f.created = filing[u].created
      BY <1>4, <2>1, <2>2, <2>4, <3>1
    <3> QED
      BY <1>1, <2>2, <2>4, <3>1, <3>2
  <2> QED
    BY <2>3, <2>4
<1>5. \A k \in Keys : Exists(k) => Exists(k)'
  BY DEF Exists
<1>6. \A x \in byReports' : x \in byReports \/ EnoughReported(x)'
  BY <1>3
<1>7. \A v \in Users : filing'[v].pc = "take down" =>
        filing'[v] = filing[v] \/ \A x \in filing'[v].of : EnoughReported(x)'
  BY <1>1, <1>3
<1> QED
  BY <1>2, <1>4, <1>5, <1>6, <1>7, StepKeeps

LEMMA FilingKeeps ==
    ASSUME IInv, NEW u \in Users, NEW t \in Targets,
           HideReported(u, t) \/ CountReporters(u, t) \/ AutoHide(u, t) \/ RequestDies(u, t)
    PROVE  IInv'
<1> USE DEF KeepsReviews, GoesOn, EndsReport, Stands
<1>1. filing[u] \in Filings
  BY DEF IInv, CommunityTyping
<1>2. NotFiling \in Filings /\ NotFiling.pc = "idle"
  BY DEF NotFiling, Filings
<1>3. ASSUME NEW pc \in {"count", "take down"}
      PROVE  /\ [filing[u] EXCEPT !.pc = pc] \in Filings
             /\ [filing[u] EXCEPT !.pc = pc].pc = pc
             /\ [filing[u] EXCEPT !.pc = pc].of = filing[u].of
             /\ [filing[u] EXCEPT !.pc = pc].created = filing[u].created
  BY <1>1 DEF Filings
<1>4. \A pc : [filing EXCEPT ![u].pc = pc] = [filing EXCEPT ![u] = [filing[u] EXCEPT !.pc = pc]]
  OBVIOUS
<1>5. CASE HideReported(u, t)
  <2>1. /\ filing[u].of = {t}
        /\ UNCHANGED <<written, deleted, review, report, byReports, fresh, cutOff, scope>>
        /\ \/ filing' = [filing EXCEPT ![u] = [filing[u] EXCEPT !.pc = "count"]]
           \/ filing' = [filing EXCEPT ![u] = NotFiling] /\ ~ filing[u].created
    BY <1>4, <1>5 DEF HideReported
  <2>2. CASE filing' = [filing EXCEPT ![u] = NotFiling] /\ ~ filing[u].created
    BY <1>2, <2>1, <2>2, FilingStep
  <2>3. CASE filing' = [filing EXCEPT ![u] = [filing[u] EXCEPT !.pc = "count"]]
    <3> DEFINE f == [filing[u] EXCEPT !.pc = "count"]
    <3>1. f \in Filings /\ f.pc = "count" /\ f.of = {t} /\ f.created = filing[u].created
      BY <1>3, <2>1
    <3> HIDE DEF f
    <3>2. filing' = [filing EXCEPT ![u] = f]
      BY <2>3 DEF f
    <3> QED
      BY <2>1, <3>1, <3>2, FilingStep
  <2> QED
    BY <2>1, <2>2, <2>3
<1>6. CASE CountReporters(u, t)
  <2>1. /\ filing[u].of = {t}
        /\ UNCHANGED <<written, deleted, review, report, byReports, fresh, cutOff, scope>>
        /\ \/ filing' = [filing EXCEPT ![u] = [filing[u] EXCEPT !.pc = "take down"]] /\ EnoughReported(t)
           \/ filing' = [filing EXCEPT ![u] = NotFiling] /\ ~ EnoughReported(t)
    BY <1>4, <1>6 DEF CountReporters, EnoughReported
  <2>2. CASE filing' = [filing EXCEPT ![u] = NotFiling] /\ ~ EnoughReported(t)
    BY <1>2, <2>1, <2>2, FilingStep
  <2>3. CASE filing' = [filing EXCEPT ![u] = [filing[u] EXCEPT !.pc = "take down"]] /\ EnoughReported(t)
    <3> DEFINE f == [filing[u] EXCEPT !.pc = "take down"]
    <3>1. f \in Filings /\ f.of = {t} /\ f.created = filing[u].created
      BY <1>3, <2>1
    <3> HIDE DEF f
    <3>2. filing' = [filing EXCEPT ![u] = f]
      BY <2>3 DEF f
    <3> QED
      BY <2>1, <2>3, <3>1, <3>2, FilingStep
  <2> QED
    BY <2>1, <2>2, <2>3
<1>7. CASE AutoHide(u, t)
  <2>1. /\ filing[u].of = {t} /\ filing[u].pc = "take down"
        /\ UNCHANGED <<written, review, report, fresh, cutOff, scope>>
        /\ filing' = [filing EXCEPT ![u] = NotFiling]
        /\ deleted' = deleted \union {t}
        /\ byReports' = byReports \/ byReports' = byReports \union {t}
    BY <1>7 DEF AutoHide
  <2>2. EnoughReported(t)
    BY <2>1 DEF IInv, TakenForEnough
  <2> QED
    BY <1>2, <2>1, <2>2, FilingStep
<1>8. CASE RequestDies(u, t)
  <2>1. /\ filing[u].of = {t}
        /\ UNCHANGED <<written, deleted, review, report, byReports, fresh, scope>>
        /\ filing' = [filing EXCEPT ![u] = NotFiling]
        /\ cutOff' = cutOff \union {t}
    BY <1>8 DEF RequestDies
  <2> QED
    BY <1>2, <2>1, FilingStep
<1> QED
  BY <1>5, <1>6, <1>7, <1>8

-----------------------------------------------------------------------------

LEMMA NextKeeps ==
    ASSUME IInv, [CommunityNext]_communityVars
    PROVE  IInv'
<1>1. /\ scope.comments \subseteq Targets /\ Posts \subseteq Targets
      /\ \A k \in scope.reports :
            k \in Keys /\ k = <<k[1], k[2], k[3]>> /\ k[1] \in Users /\ k[2] \in Targets /\ k[3] \in Reasons
  BY Shape DEF IInv, CommunityTyping, Targets, Keys
<1>2. CASE Commenting
  BY <1>1, <1>2, AuthorKeeps DEF Commenting
<1>3. CASE Posting
  BY <1>1, <1>3, AuthorKeeps DEF Posting
<1>4. CASE Reporting
  <2>1. CASE \E k \in scope.reports : ReportContent(k[1], k[2], k[3])
    BY <1>1, <2>1, ReportKeeps
  <2>2. CASE \E u \in Users, t \in Targets :
            HideReported(u, t) \/ CountReporters(u, t) \/ AutoHide(u, t) \/ RequestDies(u, t)
    BY <2>2, FilingKeeps
  <2> QED
    BY <1>4, <2>1, <2>2 DEF Reporting
<1>5. CASE Reviewing
  BY <1>1, <1>5, AdministratorKeeps DEF Reviewing
<1>6. CASE ReviewingInApp
  <2>1. {"reviewed", "actioned", "dismissed"} \subseteq Statuses \ {"none"}
    BY DEF Statuses
  <2> QED
    BY <1>1, <1>6, <2>1, AdministratorKeeps DEF ReviewingInApp
<1>7. CASE UNCHANGED communityVars
  <2>1. UNCHANGED <<written, deleted, report, filing, review, byReports, fresh, cutOff, scope>>
    BY <1>7 DEF communityVars
  <2>2. ReviewsOfReports'
    BY <2>1 DEF IInv, CommunityTyping, ReviewsOfReports, Exists
  <2>3. report' \in [Keys -> Statuses] /\ written' \subseteq Targets
    BY <2>1 DEF IInv, CommunityTyping
  <2> QED
    BY <2>1, <2>2, <2>3, OthersStep DEF Exists, Live
<1> QED
  BY <1>2, <1>3, <1>4, <1>5, <1>6, <1>7 DEF CommunityNext

\* Enough reporters are counted once they are no longer to be counted.
LEMMA IInvIsExact == IInv => AutoHideIsExact
<1> SUFFICES ASSUME IInv
             PROVE  AutoHideIsExact
  OBVIOUS
<1>1. \A t \in byReports : Cardinality(Reporters(t)) >= AutoHideAt
  BY DEF IInv, TakenForEnough, EnoughReported
<1>2. ASSUME NEW t \in fresh \ cutOff, Live(t), \A u \in Users : filing[u].of # {t}
      PROVE  Cardinality(Reporters(t)) < AutoHideAt
  <2>1. ~ EnoughReported(t)
    BY <1>2 DEF IInv, CountIsToCome
  <2> DEFINE i == Cardinality(Reporters(t))
  <2>2. i \in Nat /\ ~ (i >= AutoHideAt)
    BY <2>1, ReportersAreFinite DEF EnoughReported
  <2> HIDE DEF i
  <2>3. i < AutoHideAt
    BY <2>2, Shape
  <2> QED
    BY <2>3 DEF i
<1> QED
  BY <1>1, <1>2 DEF AutoHideIsExact

\* In every behaviour of posts, comments, reports and administrators, what reports took down
\* has enough reporters, and what has enough of them is not shown once its reports are
\* through (core/moderation/services.py, ReportService): for any users, any nesting of
\* comments and any threshold.
THEOREM AutoHideHolds == CommunitySpec => []AutoHideIsExact
<1>1. CommunityInit => IInv
  BY InitHolds
<1>2. IInv /\ [CommunityNext]_communityVars => IInv'
  BY NextKeeps
<1>3. IInv => AutoHideIsExact
  BY IInvIsExact
<1> QED
  BY <1>1, <1>2, <1>3, PTL DEF CommunitySpec

-----------------------------------------------------------------------------
(***************************************************************************)
(* Social.  What a user saves stays saved, and looking first suffices for  *)
(* requests that do not look at a time, for any requests, posts, folders   *)
(* and others.  A folder there is was created and not deleted, and is what *)
(* a request names; one creates a folder of a name there is none of, and   *)
(* one tells who was not told.                                             *)
(***************************************************************************)

Asking == [pc : {"idle", "look for default", "default", "look for name", "create", "look for folder",
                 "insert", "delete folder", "look for note", "look again", "tell"},
           post : SUBSET PostsToSave, name : SUBSET FolderNames, folder : SUBSET Folders, other : SUBSET Others]

AtMost(S) == S = {} \/ \E x \in S : S = {x}

SocialTyping ==
    /\ folder \in [Folders -> SUBSET FolderNames] /\ created \subseteq Folders
    /\ save \in [PostsToSave -> SUBSET SUBSET Folders] /\ removed \subseteq PostsToSave
    /\ follows \subseteq Others /\ told \in [Others -> Nat] /\ recent \subseteq Others
    /\ asking \in [UserRequests -> Asking]
    /\ begun \in 0 .. MaxChanges /\ twins \in BOOLEAN /\ rushed \in BOOLEAN
    /\ refused \subseteq PostsToSave /\ swept \subseteq Folders /\ conduct \in Conducts

\* The folders there are were created, and those that are not there any more were deleted.
FoldersAreCreated == Existing \subseteq created /\ created \ swept \subseteq Existing

\* A post is saved in one folder there is, or in none.
SavedInOne ==
    \A p \in PostsToSave : \A F \in save[p] : save[p] = {F} /\ AtMost(F) /\ F \subseteq Existing

\* A request names one folder that was created, or none.
AsksOfOne == \A r \in UserRequests : AtMost(asking[r].folder) /\ asking[r].folder \subseteq created

\* One request creates a folder of a name that no folder has.
Creating(q, n) == (q.pc = "create" /\ q.name = {n}) \/ (q.pc = "default" /\ n = "All")
OneCreates ==
    ~ twins => \A n \in FolderNames :
        /\ \A f, g \in FoldersNamed(n) : f = g
        /\ \A r \in UserRequests : Creating(asking[r], n) =>
             FoldersNamed(n) = {} /\ \A q \in UserRequests : Creating(asking[q], n) => q = r

\* One request tells somebody who was not told.
Telling(q, o) == q.pc \in {"look again", "tell"} /\ q.other = {o}
OneTells ==
    ~ rushed => \A o \in Others :
        /\ told[o] <= 1
        /\ \A r \in UserRequests : Telling(asking[r], o) =>
             told[o] = 0 /\ \A q \in UserRequests : Telling(asking[q], o) => q = r

\* While no folder was deleted, none of a save that is to come is missing.
NoneRefused == swept = {} => refused = {}

SocialInv ==
    /\ SocialTyping /\ FoldersAreCreated /\ SavedInOne /\ AsksOfOne /\ OneCreates /\ OneTells /\ NoneRefused

-----------------------------------------------------------------------------
(* The least of some numbers.                                              *)

LEMMA LessIsWellFounded == IsWellFoundedOn({p \in Nat \X Nat : p[1] < p[2]}, Nat)
  BY NatLessThanWellFounded, Zenon DEF OpToRel

LEMMA LeastExists ==
    ASSUME NEW T, T \subseteq Nat, T # {}
    PROVE  \E x \in T : \A y \in T : x <= y
<1> DEFINE R == {p \in Nat \X Nat : p[1] < p[2]}
<1>1. \E x \in T : \A y \in T : ~ (<<y, x>> \in R)
  <2> HIDE DEF R
  <2> QED
    BY LessIsWellFounded, WFMin DEF R
<1>2. \A x, y \in T : ~ (<<y, x>> \in R) => x <= y
  OBVIOUS
<1> HIDE DEF R
<1> QED
  BY <1>1, <1>2

LEMMA MinIsMember ==
    ASSUME NEW T, T \subseteq Nat, T # {}
    PROVE  Min(T) \in T
  BY LeastExists DEF Min

-----------------------------------------------------------------------------
(* What becomes of the invariant when one request moves.                   *)

LEMMA FoldersAreNumbers == MaxFolders \in Nat /\ MaxChanges \in Nat /\ Folders \subseteq Nat /\ "All" \in FolderNames
  BY SocialAssumption DEF Folders

LEMMA NoAskingIsOne ==
    /\ NoAsking \in Asking /\ NoAsking.pc = "idle" /\ NoAsking.folder = {} /\ AtMost({})
    /\ \A n : ~ Creating(NoAsking, n)
    /\ \A o : ~ Telling(NoAsking, o)
  BY DEF NoAsking, Asking, AtMost, Creating, Telling

Moves(r) ==
    /\ asking' \in [UserRequests -> Asking] /\ \A s \in UserRequests \ {r} : asking'[s] = asking[s]
    /\ AtMost(asking'[r].folder) /\ asking'[r].folder \subseteq created'

CreatesNothing(r) == twins' = twins /\ \A n \in FolderNames : ~ Creating(asking'[r], n)
TellsNothing(r) == rushed' = rushed /\ \A o \in Others : ~ Telling(asking'[r], o)

LEMMA MovesKeep ==
    ASSUME SocialInv, NEW r \in UserRequests, Moves(r), created \subseteq created'
    PROVE  AsksOfOne'
  BY DEF SocialInv, AsksOfOne, Moves

LEMMA FoldersKeep ==
    ASSUME SocialInv, UNCHANGED <<folder, created, swept>>
    PROVE  FoldersAreCreated' /\ Existing' = Existing /\ \A n \in FolderNames : FoldersNamed(n)' = FoldersNamed(n)
  BY DEF SocialInv, FoldersAreCreated, Existing, FoldersNamed

LEMMA NothingCreated ==
    ASSUME SocialInv, NEW r \in UserRequests, Moves(r), CreatesNothing(r),
           \A n \in FolderNames : FoldersNamed(n)' \subseteq FoldersNamed(n)
    PROVE  OneCreates'
<1>1. \A n \in FolderNames, s \in UserRequests : Creating(asking'[s], n) => s # r /\ Creating(asking[s], n)
  BY DEF Moves, CreatesNothing
<1> QED
  BY <1>1 DEF SocialInv, OneCreates, CreatesNothing

LEMMA NothingTold ==
    ASSUME SocialInv, NEW r \in UserRequests, Moves(r), TellsNothing(r), told' = told
    PROVE  OneTells'
<1>1. \A o \in Others, s \in UserRequests : Telling(asking'[s], o) => s # r /\ Telling(asking[s], o)
  BY DEF Moves, TellsNothing
<1> QED
  BY <1>1 DEF SocialInv, OneTells, TellsNothing

\* A request moves on, and nothing else changes.
Only(r) ==
    /\ UNCHANGED <<folder, created, save, removed, refused, swept, follows, told, recent, conduct>>
    /\ begun' \in 0 .. MaxChanges

LEMMA OnlyMoves ==
    ASSUME SocialInv, NEW r \in UserRequests, Moves(r), Only(r), CreatesNothing(r), TellsNothing(r)
    PROVE  SocialInv'
<1>1. created \subseteq created'
  BY DEF Only
<1>2. AsksOfOne' /\ FoldersAreCreated' /\ Existing' = Existing
  BY <1>1, MovesKeep, FoldersKeep DEF Only
<1>3. OneCreates'
  BY FoldersKeep, NothingCreated DEF Only
<1>4. OneTells'
  BY NothingTold DEF Only
<1>5. SocialTyping'
  BY DEF SocialInv, SocialTyping, Only, Moves, CreatesNothing, TellsNothing
<1>6. SavedInOne' /\ NoneRefused'
  BY <1>2 DEF SocialInv, SavedInOne, NoneRefused, Only
<1> QED
  BY <1>2, <1>3, <1>4, <1>5, <1>6 DEF SocialInv

\* What a request is, for the step that one takes.
LEMMA OneGoesOn ==
    ASSUME SocialInv, NEW r \in UserRequests,
           NEW pc \in {"default", "look for name", "create", "look for folder", "insert", "look again", "tell"},
           Continues(r, pc), created \subseteq created'
    PROVE  /\ Moves(r) /\ asking'[r].pc = pc
           /\ asking'[r].name = asking[r].name /\ asking'[r].other = asking[r].other
           /\ pc \notin {"default", "create"} => \A n \in FolderNames : ~ Creating(asking'[r], n)
           /\ pc \notin {"look again", "tell"} => \A o \in Others : ~ Telling(asking'[r], o)
<1> DEFINE q == [asking[r] EXCEPT !.pc = pc]
<1>1. asking \in [UserRequests -> Asking] /\ asking[r] \in Asking /\ asking' = [asking EXCEPT ![r] = q]
  BY DEF SocialInv, SocialTyping, Continues, Asking
<1>2. /\ q \in Asking /\ q.pc = pc /\ q.folder = asking[r].folder /\ q.name = asking[r].name
      /\ q.other = asking[r].other
  BY <1>1 DEF Asking
<1> HIDE DEF q
<1>3. AtMost(asking[r].folder) /\ asking[r].folder \subseteq created
  BY DEF SocialInv, AsksOfOne
<1>4. asking' \in [UserRequests -> Asking] /\ asking'[r] = q /\ \A s \in UserRequests \ {r} : asking'[s] = asking[s]
  BY <1>1, <1>2
<1> QED
  BY <1>2, <1>3, <1>4 DEF Moves, Creating, Telling

LEMMA OneEnds ==
    ASSUME SocialInv, NEW r \in UserRequests, Finishes(r)
    PROVE  /\ Moves(r) /\ asking'[r] = NoAsking
           /\ \A n \in FolderNames : ~ Creating(asking'[r], n)
           /\ \A o \in Others : ~ Telling(asking'[r], o)
  BY NoAskingIsOne DEF SocialInv, SocialTyping, Finishes, Moves

LEMMA OneMore ==
    ASSUME SocialTyping, begun < MaxChanges, begun' = begun + 1
    PROVE  begun' \in 0 .. MaxChanges
<1>1. begun \in 0 .. MaxChanges /\ MaxChanges \in Nat
  BY FoldersAreNumbers DEF SocialTyping
<1> QED
  BY <1>1

LEMMA OneAsks ==
    ASSUME SocialInv, NEW r \in UserRequests,
           NEW pc \in {"look for default", "look for name", "delete folder", "look for note"},
           NEW post \in SUBSET PostsToSave, NEW name \in SUBSET FolderNames, NEW f \in SUBSET Folders,
           NEW other \in SUBSET Others, Asks(r, pc, post, name, f, other), AtMost(f), f \subseteq created'
    PROVE  /\ Moves(r) /\ begun' \in 0 .. MaxChanges
           /\ \A n \in FolderNames : ~ Creating(asking'[r], n)
           /\ \A o \in Others : ~ Telling(asking'[r], o)
<1> DEFINE q == [pc |-> pc, post |-> post, name |-> name, folder |-> f, other |-> other]
<1>1. q \in Asking /\ q.pc = pc /\ q.folder = f
  BY DEF Asking
<1>2. asking \in [UserRequests -> Asking] /\ asking' = [asking EXCEPT ![r] = q]
  BY DEF SocialInv, SocialTyping, Asks
<1> HIDE DEF q
<1>3. asking' \in [UserRequests -> Asking] /\ asking'[r] = q /\ \A s \in UserRequests \ {r} : asking'[s] = asking[s]
  BY <1>1, <1>2
<1>4. begun' \in 0 .. MaxChanges
  BY OneMore DEF SocialInv, Asks
<1> QED
  BY <1>1, <1>3, <1>4 DEF Moves, Creating, Telling

LEMMA OneInserts ==
    ASSUME SocialInv, NEW r \in UserRequests, NEW f \in Folders, f \in created', created \subseteq created',
           asking' = [asking EXCEPT ![r] = IF asking[r].post = {} THEN NoAsking
                                           ELSE [@ EXCEPT !.pc = "insert", !.folder = {f}]]
    PROVE  /\ Moves(r)
           /\ \A n \in FolderNames : ~ Creating(asking'[r], n)
           /\ \A o \in Others : ~ Telling(asking'[r], o)
<1> DEFINE q == [asking[r] EXCEPT !.pc = "insert", !.folder = {f}]
<1>1. asking \in [UserRequests -> Asking] /\ asking[r] \in Asking
  BY DEF SocialInv, SocialTyping
<1>2. q \in Asking /\ q.pc = "insert" /\ q.folder = {f}
  BY <1>1 DEF Asking
<1>3. asking' = [asking EXCEPT ![r] = IF asking[r].post = {} THEN NoAsking ELSE q]
  BY <1>1
<1> HIDE DEF q
<1>4. /\ asking' \in [UserRequests -> Asking] /\ \A s \in UserRequests \ {r} : asking'[s] = asking[s]
      /\ asking'[r] = NoAsking \/ asking'[r] = q
  BY <1>1, <1>2, <1>3, NoAskingIsOne
<1>5. AtMost({f}) /\ {f} \subseteq created'
  BY DEF AtMost
<1>6. CASE asking'[r] = NoAsking
  BY <1>4, <1>6, NoAskingIsOne DEF Moves
<1>7. CASE asking'[r] = q
  BY <1>2, <1>4, <1>5, <1>7 DEF Moves, Creating, Telling
<1> QED
  BY <1>4, <1>6, <1>7

LEMMA AfterDefaultMoves ==
    ASSUME SocialInv, NEW r \in UserRequests, AfterDefault(r), created \subseteq created'
    PROVE  /\ Moves(r)
           /\ \A n \in FolderNames : ~ Creating(asking'[r], n)
           /\ \A o \in Others : ~ Telling(asking'[r], o)
<1>1. \/ Continues(r, "look for name") \/ Continues(r, "look for folder") \/ Continues(r, "insert")
      \/ Finishes(r)
  BY DEF AfterDefault
<1>2. CASE Finishes(r)
  <2>1. Moves(r) /\ asking'[r] = NoAsking
    <3>1. asking' \in [UserRequests -> Asking] /\ asking'[r] = NoAsking
          /\ \A s \in UserRequests \ {r} : asking'[s] = asking[s]
      BY <1>2, NoAskingIsOne DEF SocialInv, SocialTyping, Finishes
    <3> QED
      BY <3>1, NoAskingIsOne DEF Moves
  <2> QED
    BY <2>1, NoAskingIsOne
<1>3. CASE Continues(r, "look for name")
  BY <1>3, OneGoesOn
<1>4. CASE Continues(r, "look for folder")
  BY <1>4, OneGoesOn
<1>5. CASE Continues(r, "insert")
  BY <1>5, OneGoesOn
<1> QED
  BY <1>1, <1>2, <1>3, <1>4, <1>5

\* One folder more of a name that there was none of.
LEMMA CreationKeeps ==
    ASSUME SocialInv, NEW r \in UserRequests, NEW n \in FolderNames, Creating(asking[r], n), Creates(n),
           NEW f \in Folders, f = Min(Folders \ created),
           Moves(r), CreatesNothing(r), TellsNothing(r),
           UNCHANGED <<save, removed, refused, swept, follows, told, recent, conduct, begun>>
    PROVE  SocialInv'
<1>1. f \notin created
  <2>1. Folders \ created \subseteq Nat /\ Folders \ created # {}
    BY FoldersAreNumbers DEF Creates, SocialInv, SocialTyping
  <2> QED
    BY <2>1, MinIsMember
<1>2. folder' = [folder EXCEPT ![f] = {n}] /\ created' = created \union {f}
  BY DEF Creates
<1>3. SocialTyping /\ FoldersAreCreated /\ SavedInOne /\ AsksOfOne /\ OneCreates /\ OneTells /\ NoneRefused
  BY DEF SocialInv
<1>4. /\ folder' \in [Folders -> SUBSET FolderNames] /\ folder'[f] = {n}
      /\ \A g \in Folders \ {f} : folder'[g] = folder[g]
  BY <1>2, <1>3 DEF SocialTyping
<1>5. Existing' = Existing \union {f}
  BY <1>4 DEF Existing
<1>6. FoldersAreCreated' /\ SavedInOne'
  BY <1>2, <1>3, <1>5 DEF FoldersAreCreated, SavedInOne
<1>7. AsksOfOne' /\ OneTells'
  BY <1>2, MovesKeep, NothingTold
<1>8. OneCreates'
  <2> SUFFICES ASSUME ~ twins, NEW m \in FolderNames
               PROVE  /\ \A g, h \in FoldersNamed(m)' : g = h
                      /\ \A s \in UserRequests : Creating(asking'[s], m) =>
                           FoldersNamed(m)' = {} /\ \A q \in UserRequests : Creating(asking'[q], m) => q = s
    BY DEF OneCreates, CreatesNothing
  <2>1. \A s \in UserRequests : Creating(asking'[s], m) => s # r /\ Creating(asking[s], m)
    BY DEF Moves, CreatesNothing
  <2>2. f \notin FoldersNamed(m)
    BY <1>1, <1>3 DEF FoldersAreCreated, FoldersNamed
  <2>3. CASE m = n
    <3>1. FoldersNamed(m) = {} /\ \A q \in UserRequests : Creating(asking[q], m) => q = r
      BY <1>3, <2>3 DEF OneCreates
    <3>2. FoldersNamed(m)' \subseteq FoldersNamed(m) \union {f}
      BY <1>4, <1>5 DEF FoldersNamed, Existing
    <3> QED
      BY <2>1, <3>1, <3>2
  <2>4. CASE m # n
    <3>1. FoldersNamed(m)' \subseteq FoldersNamed(m)
      BY <1>4, <2>4 DEF FoldersNamed, Existing
    <3> QED
      BY <1>3, <2>1, <3>1 DEF OneCreates
  <2> QED
    BY <2>3, <2>4
<1>9. NoneRefused'
  BY <1>3 DEF NoneRefused
<1>10. SocialTyping'
  BY <1>2, <1>3, <1>4 DEF SocialTyping, Moves, CreatesNothing, TellsNothing
<1> QED
  BY <1>6, <1>7, <1>8, <1>9, <1>10 DEF SocialInv

-----------------------------------------------------------------------------
(* The actions on folders and saves.                                       *)

LEMMA SocialInitHolds == SocialInit => SocialInv
<1> SUFFICES ASSUME SocialInit
             PROVE  SocialInv
  OBVIOUS
<1> USE DEF SocialInit
<1>1. SocialTyping
  <2>1. asking \in [UserRequests -> Asking]
    BY NoAskingIsOne
  <2>2. begun \in 0 .. MaxChanges
    BY FoldersAreNumbers
  <2>3. /\ folder \in [Folders -> SUBSET FolderNames] /\ save \in [PostsToSave -> SUBSET SUBSET Folders]
        /\ told \in [Others -> Nat]
    BY DEF NotSaved
  <2>4. twins \in BOOLEAN /\ rushed \in BOOLEAN /\ conduct \in Conducts
    OBVIOUS
  <2>5. created = {} /\ removed = {} /\ follows = {} /\ recent = {} /\ refused = {} /\ swept = {}
    OBVIOUS
  <2> QED
    BY <2>1, <2>2, <2>3, <2>4, <2>5 DEF SocialTyping
<1>2. Existing = {} /\ \A n \in FolderNames : FoldersNamed(n) = {}
  BY DEF Existing, FoldersNamed
<1>3. FoldersAreCreated /\ SavedInOne /\ AsksOfOne /\ NoneRefused
  BY <1>2, NoAskingIsOne DEF FoldersAreCreated, SavedInOne, AsksOfOne, NoneRefused, NotSaved
<1>4. OneCreates /\ OneTells
  BY <1>2, NoAskingIsOne DEF OneCreates, OneTells
<1> QED
  BY <1>1, <1>3, <1>4 DEF SocialInv

LEMMA AskedKeeps ==
    ASSUME SocialInv, NEW r \in UserRequests, NEW pc \in {"look for default", "look for name"},
           NEW post \in SUBSET PostsToSave, NEW name \in SUBSET FolderNames, NEW f \in SUBSET Folders,
           Asks(r, pc, post, name, f, {}), AtMost(f), f \subseteq created, UNCHANGED <<saveVars, followVars, conduct>>
    PROVE  SocialInv'
<1>1. f \subseteq created' /\ {} \in SUBSET Others
  BY DEF saveVars
<1>2. /\ Moves(r) /\ begun' \in 0 .. MaxChanges
      /\ \A n \in FolderNames : ~ Creating(asking'[r], n)
      /\ \A o \in Others : ~ Telling(asking'[r], o)
  BY <1>1, OneAsks
<1> QED
  BY <1>2, OnlyMoves DEF Only, CreatesNothing, TellsNothing, saveVars, followVars

LEMMA SavePostKeeps ==
    ASSUME SocialInv, NEW r \in UserRequests, NEW p \in PostsToSave,
           NEW name \in SUBSET FolderNames, NEW f \in SUBSET Folders, AtMost(f), f \subseteq created,
           SavePost(r, p, name, f)
    PROVE  SocialInv'
<1> DEFINE post == {p}
<1>1. post \in SUBSET PostsToSave /\ Asks(r, "look for default", post, name, f, {})
      /\ UNCHANGED <<saveVars, followVars, conduct>>
  BY DEF SavePost, KeepsFollows
<1> HIDE DEF post
<1> QED
  BY <1>1, AskedKeeps

LEMMA CreateFolderKeeps ==
    ASSUME SocialInv, NEW r \in UserRequests, NEW n \in FolderNames, CreateFolder(r, n)
    PROVE  SocialInv'
<1> DEFINE name == {n}
           none == {}
<1>1. /\ name \in SUBSET FolderNames /\ none \in SUBSET PostsToSave /\ none \in SUBSET Folders
      /\ Asks(r, "look for name", none, name, none, {}) /\ AtMost(none) /\ none \subseteq created
      /\ UNCHANGED <<saveVars, followVars, conduct>>
  BY DEF CreateFolder, KeepsFollows, AtMost
<1> HIDE DEF name, none
<1> QED
  BY <1>1, AskedKeeps

LEMMA GetFoldersKeeps ==
    ASSUME SocialInv, NEW r \in UserRequests, GetFolders(r)
    PROVE  SocialInv'
<1> DEFINE none == {}
<1>1. /\ none \in SUBSET PostsToSave /\ none \in SUBSET FolderNames /\ none \in SUBSET Folders
      /\ Asks(r, "look for default", none, none, none, {}) /\ AtMost(none) /\ none \subseteq created
      /\ UNCHANGED <<saveVars, followVars, conduct>>
  BY DEF GetFolders, KeepsFollows, AtMost
<1> HIDE DEF none
<1> QED
  BY <1>1, AskedKeeps

\* A request that goes on to create a folder: nobody else does, or two looked at a time.
LEMMA StartsCreating ==
    ASSUME SocialInv, NEW r \in UserRequests, NEW pc \in {"default", "create"}, NEW n \in FolderNames,
           Continues(r, pc), IF pc = "default" THEN n = "All" ELSE asking[r].name = {n},
           FoldersNamed(n) = {}, twins' = (twins \/ AlsoCreates(r, n)),
           UNCHANGED <<folder, created, save, removed, refused, swept, follows, told, recent, rushed, conduct, begun>>
    PROVE  SocialInv'
<1>1. /\ Moves(r) /\ asking'[r].pc = pc /\ asking'[r].name = asking[r].name
      /\ \A o \in Others : ~ Telling(asking'[r], o)
  BY OneGoesOn
<1>2. SocialTyping /\ FoldersAreCreated /\ SavedInOne /\ AsksOfOne /\ OneCreates /\ OneTells /\ NoneRefused
  BY DEF SocialInv
<1>3. \A m \in FolderNames : Creating(asking'[r], m) <=> m = n
  BY <1>1 DEF Creating
<1>4. /\ AsksOfOne' /\ FoldersAreCreated' /\ Existing' = Existing /\ OneTells'
      /\ \A m \in FolderNames : FoldersNamed(m)' = FoldersNamed(m)
  BY <1>1, MovesKeep, FoldersKeep, NothingTold DEF TellsNothing
<1>5. OneCreates'
  <2> SUFFICES ASSUME ~ twins, ~ AlsoCreates(r, n)
               PROVE  OneCreates'
    BY DEF OneCreates
  <2>1. \A s \in UserRequests \ {r} : ~ Creating(asking[s], n)
    BY DEF AlsoCreates, Creating
  <2>2. \A m \in FolderNames, s \in UserRequests :
           Creating(asking'[s], m) => (s # r /\ m # n /\ Creating(asking[s], m)) \/ (s = r /\ m = n)
    <3>1. \A s \in UserRequests \ {r} : asking'[s] = asking[s]
      BY <1>1 DEF Moves
    <3> QED
      BY <1>3, <2>1, <3>1
  <2> QED
    BY <1>2, <1>4, <2>2 DEF OneCreates
<1>6. SocialTyping'
  <2>1. twins' \in BOOLEAN
    OBVIOUS
  <2> QED
    BY <1>1, <1>2, <2>1 DEF SocialTyping, Moves
<1>7. SavedInOne' /\ NoneRefused'
  BY <1>2, <1>4 DEF SavedInOne, NoneRefused
<1> QED
  BY <1>4, <1>5, <1>6, <1>7 DEF SocialInv

LEMMA EnsureDefaultFoldersKeeps ==
    ASSUME SocialInv, NEW r \in UserRequests, EnsureDefaultFolders(r)
    PROVE  SocialInv'
<1>1. /\ UNCHANGED <<folder, created, save, removed, refused, swept, follows, told, recent, rushed, conduct, begun>>
      /\ begun' \in 0 .. MaxChanges
  BY DEF EnsureDefaultFolders, KeepsFolders, KeepsFollows, followVars, SocialInv, SocialTyping
<1>2. CASE AfterDefault(r) /\ twins' = twins
  BY <1>1, <1>2, AfterDefaultMoves, OnlyMoves DEF Only, CreatesNothing, TellsNothing
<1>3. CASE Existing = {} /\ Continues(r, "default") /\ twins' = (twins \/ AlsoCreates(r, "All"))
  <2>1. FoldersNamed("All") = {} /\ "All" \in FolderNames
    BY <1>3, FoldersAreNumbers DEF FoldersNamed
  <2> QED
    BY <1>1, <1>3, <2>1, StartsCreating
<1> QED
  BY <1>2, <1>3 DEF EnsureDefaultFolders

LEMMA CreateDefaultKeeps ==
    ASSUME SocialInv, NEW r \in UserRequests, CreateDefault(r)
    PROVE  SocialInv'
<1>1. PICK f \in Folders : f = Min(Folders \ created)
  <2>1. Folders \ created \subseteq Nat /\ Folders \ created # {}
    BY FoldersAreNumbers DEF CreateDefault, Creates, SocialInv, SocialTyping
  <2> QED
    BY <2>1, MinIsMember
<1>2. /\ UNCHANGED <<save, removed, refused, swept, follows, told, recent, rushed, conduct, begun, twins>>
      /\ Creates("All") /\ AfterDefault(r) /\ created \subseteq created' /\ Creating(asking[r], "All")
  BY DEF CreateDefault, KeepsFollows, followVars, Creates, Creating, StandsAt
<1> QED
  BY <1>1, <1>2, FoldersAreNumbers, AfterDefaultMoves, CreationKeeps DEF CreatesNothing, TellsNothing

LEMMA FindFolderByNameKeeps ==
    ASSUME SocialInv, NEW r \in UserRequests, NEW n \in FolderNames, FindFolderByName(r, n)
    PROVE  SocialInv'
<1>1. /\ UNCHANGED <<folder, created, save, removed, refused, swept, follows, told, recent, rushed, conduct, begun>>
      /\ begun' \in 0 .. MaxChanges /\ asking[r].name = {n}
  BY DEF FindFolderByName, KeepsFolders, KeepsFollows, followVars, SocialInv, SocialTyping
<1>2. CASE FoldersNamed(n) = {}
  <2>1. Continues(r, "create") /\ twins' = (twins \/ AlsoCreates(r, n))
    BY <1>2 DEF FindFolderByName
  <2> QED
    BY <1>1, <1>2, <2>1, StartsCreating
<1>3. CASE FoldersNamed(n) # {}
  <2>1. FoldersNamed(n) \subseteq Nat
    BY FoldersAreNumbers DEF FoldersNamed, Existing
  <2>2. PICK f \in FoldersNamed(n) : f = Min(FoldersNamed(n))
    BY <1>3, <2>1, MinIsMember
  <2>3. f \in Folders /\ f \in created'
    BY <1>1 DEF SocialInv, FoldersAreCreated, FoldersNamed, Existing
  <2>4. /\ asking' = [asking EXCEPT ![r] = IF asking[r].post = {} THEN NoAsking
                                           ELSE [@ EXCEPT !.pc = "insert", !.folder = {f}]]
        /\ twins' = twins
    BY <1>3, <2>2 DEF FindFolderByName
  <2>5. /\ Moves(r)
        /\ \A m \in FolderNames : ~ Creating(asking'[r], m)
        /\ \A o \in Others : ~ Telling(asking'[r], o)
    BY <1>1, <2>3, <2>4, OneInserts
  <2> QED
    BY <1>1, <2>4, <2>5, OnlyMoves DEF Only, CreatesNothing, TellsNothing
<1> QED
  BY <1>2, <1>3

LEMMA CreateNamedKeeps ==
    ASSUME SocialInv, NEW r \in UserRequests, NEW n \in FolderNames, CreateNamed(r, n)
    PROVE  SocialInv'
<1>1. /\ UNCHANGED <<save, removed, refused, swept, follows, told, recent, rushed, conduct, begun, twins>>
      /\ Creates(n) /\ Creating(asking[r], n)
      /\ asking' = [asking EXCEPT ![r] = IF asking[r].post = {} THEN NoAsking
                                         ELSE [@ EXCEPT !.pc = "insert", !.folder = created' \ created]]
  BY DEF CreateNamed, KeepsFollows, followVars, Creating, StandsAt
<1>2. PICK f \in Folders \ created : f = Min(Folders \ created)
  <2>1. Folders \ created \subseteq Nat /\ Folders \ created # {}
    BY <1>1, FoldersAreNumbers DEF Creates, SocialInv, SocialTyping
  <2> QED
    BY <2>1, MinIsMember
<1>3. created' = created \union {f} /\ created' \ created = {f}
  BY <1>1, <1>2 DEF Creates
<1>4. /\ Moves(r)
      /\ \A m \in FolderNames : ~ Creating(asking'[r], m)
      /\ \A o \in Others : ~ Telling(asking'[r], o)
  BY <1>1, <1>3, OneInserts
<1> QED
  BY <1>1, <1>2, <1>4, CreationKeeps DEF CreatesNothing, TellsNothing

LEMMA LookForFolderKeeps ==
    ASSUME SocialInv, NEW r \in UserRequests, LookForFolder(r)
    PROVE  SocialInv'
<1>1. /\ UNCHANGED <<folder, created, save, removed, refused, swept, follows, told, recent, rushed, conduct, begun, twins>>
      /\ begun' \in 0 .. MaxChanges
  BY DEF LookForFolder, KeepsFollows, followVars, saveVars, SocialInv, SocialTyping
<1>2. /\ Moves(r)
      /\ \A m \in FolderNames : ~ Creating(asking'[r], m)
      /\ \A o \in Others : ~ Telling(asking'[r], o)
  <2>1. CASE Finishes(r)
    <3>1. created' = created
      BY <1>1
    <3> QED
      BY <2>1, <3>1, OneEnds
  <2>2. CASE Continues(r, "insert")
    BY <1>1, <2>2, OneGoesOn
  <2> QED
    BY <2>1, <2>2 DEF LookForFolder
<1> QED
  BY <1>1, <1>2, OnlyMoves DEF Only, CreatesNothing, TellsNothing

LEMMA InsertSaveKeeps ==
    ASSUME SocialInv, NEW r \in UserRequests, NEW p \in PostsToSave, InsertSave(r, p)
    PROVE  SocialInv'
<1>1. SocialTyping /\ FoldersAreCreated /\ SavedInOne /\ AsksOfOne /\ NoneRefused
  BY DEF SocialInv
<1>2. /\ UNCHANGED <<folder, created, removed, swept, follows, told, recent, rushed, conduct, begun, twins>>
      /\ Finishes(r)
  BY DEF InsertSave, KeepsFolders, KeepsFollows, followVars
<1>3. created \subseteq created'
  BY <1>2
<1>4. /\ Moves(r)
      /\ \A m \in FolderNames : ~ Creating(asking'[r], m)
      /\ \A o \in Others : ~ Telling(asking'[r], o)
  <2>1. created' = created
    BY <1>2
  <2> QED
    BY <1>2, <2>1, OneEnds
<1>5. /\ AsksOfOne' /\ FoldersAreCreated' /\ Existing' = Existing
      /\ \A n \in FolderNames : FoldersNamed(n)' = FoldersNamed(n)
  BY <1>2, <1>3, <1>4, MovesKeep, FoldersKeep
<1>6. OneCreates' /\ OneTells'
  BY <1>2, <1>4, <1>5, NothingCreated, NothingTold DEF CreatesNothing, TellsNothing
<1> DEFINE F == asking[r].folder
<1>7. AtMost(F) /\ F \in SUBSET Folders /\ F \subseteq created
  BY <1>1 DEF AsksOfOne, SocialTyping, Asking
<1> HIDE DEF F
<1>8. CASE F \subseteq Existing /\ save' = [save EXCEPT ![p] = Filed(F)] /\ refused' = refused
  <2>1. /\ save' \in [PostsToSave -> SUBSET SUBSET Folders] /\ save'[p] = {F}
        /\ \A q \in PostsToSave \ {p} : save'[q] = save[q]
    BY <1>1, <1>7, <1>8 DEF SocialTyping, Filed
  <2>2. SavedInOne'
    BY <1>1, <1>5, <1>7, <1>8, <2>1 DEF SavedInOne
  <2>3. SocialTyping'
    BY <1>1, <1>2, <1>4, <1>8, <2>1 DEF SocialTyping, Moves
  <2>4. NoneRefused'
    BY <1>1, <1>2, <1>8 DEF NoneRefused
  <2> QED
    BY <1>5, <1>6, <2>2, <2>3, <2>4 DEF SocialInv
<1>9. CASE /\ save' = save /\ ~ (save[p] = NotSaved /\ F \subseteq Existing)
           /\ refused' = IF save[p] = NotSaved THEN refused \union {p} ELSE refused
  <2>1. SavedInOne'
    BY <1>1, <1>5, <1>9 DEF SavedInOne
  <2>2. SocialTyping'
    BY <1>1, <1>2, <1>4, <1>9 DEF SocialTyping, Moves
  <2>3. swept = {} => F \subseteq Existing
    BY <1>1, <1>7 DEF FoldersAreCreated
  <2>4. NoneRefused'
    BY <1>1, <1>2, <1>9, <2>3 DEF NoneRefused
  <2> QED
    BY <1>5, <1>6, <2>1, <2>2, <2>4 DEF SocialInv
<1> QED
  BY <1>8, <1>9 DEF InsertSave, F

LEMMA UnsavePostKeeps ==
    ASSUME SocialInv, NEW p \in PostsToSave, UnsavePost(p)
    PROVE  SocialInv'
<1>1. SocialTyping /\ FoldersAreCreated /\ SavedInOne /\ AsksOfOne /\ OneCreates /\ OneTells /\ NoneRefused
  BY DEF SocialInv
<1>2. UNCHANGED <<folder, created, removed, twins, refused, swept, asking, begun, follows, told, recent, rushed, conduct>>
  BY DEF UnsavePost, KeepsFollows, followVars
<1>3. /\ save' \in [PostsToSave -> SUBSET SUBSET Folders] /\ save'[p] = {}
      /\ \A q \in PostsToSave \ {p} : save'[q] = save[q]
  BY <1>1 DEF UnsavePost, SocialTyping, NotSaved
<1>4. FoldersAreCreated' /\ Existing' = Existing /\ \A n \in FolderNames : FoldersNamed(n)' = FoldersNamed(n)
  BY <1>2, FoldersKeep
<1>5. SavedInOne'
  BY <1>1, <1>3, <1>4 DEF SavedInOne
<1>6. SocialTyping'
  BY <1>1, <1>2, <1>3 DEF SocialTyping
<1>7. AsksOfOne' /\ OneTells' /\ NoneRefused'
  BY <1>1, <1>2 DEF AsksOfOne, OneTells, NoneRefused
<1>8. OneCreates'
  BY <1>1, <1>2, <1>4 DEF OneCreates
<1> QED
  BY <1>4, <1>5, <1>6, <1>7, <1>8 DEF SocialInv

\* What is put out of a folder is saved in none.
LEMMA PuttingOutKeeps ==
    ASSUME SavedInOne, SocialTyping, NEW F,
           save' = [p \in PostsToSave |-> IF save[p] = Filed(F) THEN Filed({}) ELSE save[p]]
    PROVE  /\ save' \in [PostsToSave -> SUBSET SUBSET Folders]
           /\ \A p \in PostsToSave : \A G \in save'[p] : save'[p] = {G} /\ AtMost(G) /\ G \subseteq Existing
<1>1. \A p \in PostsToSave : save'[p] = {{}} \/ save'[p] = save[p]
  BY DEF Filed
<1>2. {{}} \in SUBSET SUBSET Folders /\ AtMost({}) /\ {} \subseteq Existing
  BY DEF AtMost
<1>3. \A p \in PostsToSave : save'[p] \in SUBSET SUBSET Folders
  BY <1>1, <1>2 DEF SocialTyping
<1>4. save' \in [PostsToSave -> SUBSET SUBSET Folders]
  BY <1>3
<1>5. ASSUME NEW p \in PostsToSave, NEW G \in save'[p]
      PROVE  save'[p] = {G} /\ AtMost(G) /\ G \subseteq Existing
  <2>1. CASE save'[p] = {{}}
    BY <1>2, <2>1
  <2>2. CASE save'[p] = save[p]
    BY <2>2 DEF SavedInOne
  <2> QED
    BY <1>1, <2>1, <2>2
<1> QED
  BY <1>4, <1>5

LEMMA DeleteFolderKeeps ==
    ASSUME SocialInv, NEW r \in UserRequests, NEW f \in Folders, DeleteFolder(r, f)
    PROVE  SocialInv'
<1>1. SocialTyping /\ FoldersAreCreated /\ SavedInOne /\ NoneRefused
  BY DEF SocialInv
<1>2. UNCHANGED <<folder, created, removed, twins, refused, swept, follows, told, recent, rushed, conduct>>
  BY DEF DeleteFolder, KeepsFolders, KeepsFollows, followVars
<1>3. /\ Moves(r) /\ begun' \in 0 .. MaxChanges
      /\ \A n \in FolderNames : ~ Creating(asking'[r], n)
      /\ \A o \in Others : ~ Telling(asking'[r], o)
  <2> DEFINE F == {f}
             none == {}
  <2>1. /\ none \in SUBSET PostsToSave /\ none \in SUBSET FolderNames /\ F \in SUBSET Folders /\ none \in SUBSET Others
        /\ Asks(r, "delete folder", none, none, F, none)
    BY DEF DeleteFolder
  <2>2. AtMost(F) /\ F \subseteq created'
    BY <1>1, <1>2 DEF AtMost, DeleteFolder, FoldersAreCreated
  <2> HIDE DEF F, none
  <2> QED
    BY <2>1, <2>2, OneAsks
<1>4. created \subseteq created'
  BY <1>2
<1>5. /\ AsksOfOne' /\ FoldersAreCreated' /\ Existing' = Existing
      /\ \A n \in FolderNames : FoldersNamed(n)' = FoldersNamed(n)
  BY <1>2, <1>3, <1>4, MovesKeep, FoldersKeep
<1>6. OneCreates' /\ OneTells'
  BY <1>2, <1>3, <1>5, NothingCreated, NothingTold DEF CreatesNothing, TellsNothing
<1>7. save' \in [PostsToSave -> SUBSET SUBSET Folders] /\ SavedInOne'
  <2> DEFINE F == {f}
  <2>1. save' = [p \in PostsToSave |-> IF save[p] = Filed(F) THEN Filed({}) ELSE save[p]]
    BY DEF DeleteFolder
  <2> HIDE DEF F
  <2>2. /\ save' \in [PostsToSave -> SUBSET SUBSET Folders]
        /\ \A p \in PostsToSave : \A G \in save'[p] : save'[p] = {G} /\ AtMost(G) /\ G \subseteq Existing
    BY <1>1, <2>1, PuttingOutKeeps
  <2> QED
    BY <1>5, <2>2 DEF SavedInOne
<1>8. SocialTyping' /\ NoneRefused'
  BY <1>1, <1>2, <1>3, <1>7 DEF SocialTyping, NoneRefused, Moves
<1> QED
  BY <1>5, <1>6, <1>7, <1>8 DEF SocialInv

LEMMA DropFolderKeeps ==
    ASSUME SocialInv, NEW r \in UserRequests, DropFolder(r)
    PROVE  SocialInv'
<1>1. SocialTyping /\ FoldersAreCreated /\ SavedInOne /\ AsksOfOne /\ NoneRefused
  BY DEF SocialInv
<1>2. /\ UNCHANGED <<created, removed, twins, refused, begun, follows, told, recent, rushed, conduct>>
      /\ Finishes(r) /\ created \subseteq created'
  BY DEF DropFolder, KeepsFollows, followVars
<1>3. /\ Moves(r)
      /\ \A m \in FolderNames : ~ Creating(asking'[r], m)
      /\ \A o \in Others : ~ Telling(asking'[r], o)
  <2>1. created' = created
    BY <1>2
  <2> QED
    BY <1>2, <2>1, OneEnds
<1> DEFINE F == asking[r].folder
<1>4. AtMost(F) /\ F \in SUBSET Folders /\ F \subseteq created
  BY <1>1 DEF AsksOfOne, SocialTyping, Asking
<1>5. /\ folder' = [f \in Folders |-> IF {f} = F THEN {} ELSE folder[f]]
      /\ save' = [p \in PostsToSave |-> IF save[p] = Filed(F) THEN Filed({}) ELSE save[p]]
      /\ swept' = swept \union F
  BY DEF DropFolder
<1> HIDE DEF F
<1>6. /\ folder' \in [Folders -> SUBSET FolderNames]
      /\ \A f \in Folders : folder'[f] = IF f \in F THEN {} ELSE folder[f]
  <2>1. \A f \in Folders : {f} = F <=> f \in F
    BY <1>4 DEF AtMost
  <2>2. \A f \in Folders : folder'[f] = IF f \in F THEN {} ELSE folder[f]
    BY <1>5, <2>1
  <2>3. \A f \in Folders : (IF {f} = F THEN {} ELSE folder[f]) \in SUBSET FolderNames
    BY <1>1 DEF SocialTyping
  <2> QED
    BY <1>5, <2>2, <2>3
<1>7. Existing' = Existing \ F /\ \A n \in FolderNames : FoldersNamed(n)' \subseteq FoldersNamed(n)
  BY <1>6 DEF Existing, FoldersNamed
<1>8. FoldersAreCreated' /\ AsksOfOne' /\ OneCreates' /\ OneTells'
  <2>1. FoldersAreCreated'
    BY <1>1, <1>2, <1>5, <1>7 DEF FoldersAreCreated
  <2>2. twins' = twins /\ rushed' = rushed /\ told' = told
    BY <1>2
  <2> QED
    BY <1>2, <1>3, <1>7, <2>1, <2>2, MovesKeep, NothingCreated, NothingTold DEF CreatesNothing, TellsNothing
<1>9. save' \in [PostsToSave -> SUBSET SUBSET Folders]
  BY <1>1, <1>5, PuttingOutKeeps
<1>10. SavedInOne'
  <2> SUFFICES ASSUME NEW p \in PostsToSave, NEW G \in save'[p]
               PROVE  save'[p] = {G} /\ AtMost(G) /\ G \subseteq Existing'
    BY DEF SavedInOne
  <2>1. CASE save[p] = Filed(F)
    BY <1>5, <2>1 DEF AtMost, Filed
  <2>2. CASE save[p] # Filed(F)
    <3>1. save'[p] = save[p] /\ save[p] = {G} /\ AtMost(G) /\ G \subseteq Existing
      BY <1>1, <1>5, <2>2 DEF SavedInOne
    <3>2. CASE G \intersect F = {}
      BY <1>7, <3>1, <3>2
    <3>3. CASE G \intersect F # {}
      <4>1. G = F
        BY <1>4, <3>1, <3>3 DEF AtMost
      <4> QED
        BY <1>1, <2>2, <3>1, <4>1 DEF Filed, SavedInOne
    <3> QED
      BY <3>2, <3>3
  <2> QED
    BY <2>1, <2>2
<1>11. SocialTyping' /\ NoneRefused'
  BY <1>1, <1>2, <1>3, <1>4, <1>5, <1>6, <1>9 DEF SocialTyping, NoneRefused, Moves
<1> QED
  BY <1>8, <1>10, <1>11 DEF SocialInv

LEMMA RemovePostKeeps ==
    ASSUME SocialInv, NEW p \in PostsToSave, RemovePost(p)
    PROVE  SocialInv'
<1>1. SocialTyping /\ FoldersAreCreated /\ SavedInOne /\ AsksOfOne /\ OneCreates /\ OneTells /\ NoneRefused
  BY DEF SocialInv
<1>2. /\ UNCHANGED <<folder, created, save, twins, refused, swept, asking, begun, follows, told, recent, rushed, conduct>>
      /\ removed' = removed \union {p}
  BY DEF RemovePost, KeepsFollows, followVars
<1>3. FoldersAreCreated' /\ Existing' = Existing /\ \A n \in FolderNames : FoldersNamed(n)' = FoldersNamed(n)
  BY <1>2, FoldersKeep
<1>4. SocialTyping'
  BY <1>1, <1>2 DEF SocialTyping
<1>5. SavedInOne' /\ AsksOfOne' /\ OneCreates' /\ OneTells' /\ NoneRefused'
  BY <1>1, <1>2, <1>3 DEF SavedInOne, AsksOfOne, OneCreates, OneTells, NoneRefused
<1> QED
  BY <1>3, <1>4, <1>5 DEF SocialInv

-----------------------------------------------------------------------------
(* The actions on followers.                                               *)

\* Whom the user follows, and who was told within the hour, says nothing about the invariant.
LEMMA FollowingKeeps ==
    ASSUME SocialInv, follows' \subseteq Others, recent' \subseteq Others,
           UNCHANGED <<folder, created, save, removed, twins, refused, swept, asking, begun, told, rushed, conduct>>
    PROVE  SocialInv'
<1>1. SocialTyping /\ FoldersAreCreated /\ SavedInOne /\ AsksOfOne /\ OneCreates /\ OneTells /\ NoneRefused
  BY DEF SocialInv
<1>2. FoldersAreCreated' /\ Existing' = Existing /\ \A n \in FolderNames : FoldersNamed(n)' = FoldersNamed(n)
  BY FoldersKeep
<1>3. SocialTyping'
  BY <1>1 DEF SocialTyping
<1>4. SavedInOne' /\ AsksOfOne' /\ OneCreates' /\ OneTells' /\ NoneRefused'
  BY <1>1, <1>2 DEF SavedInOne, AsksOfOne, OneCreates, OneTells, NoneRefused
<1> QED
  BY <1>2, <1>3, <1>4 DEF SocialInv

\* What a step leaves alone that is about one follower only.
LEMMA SavesStay ==
    ASSUME SocialInv, NEW r \in UserRequests, Moves(r), KeepsSaves,
           \A n \in FolderNames : ~ Creating(asking'[r], n)
    PROVE  FoldersAreCreated' /\ SavedInOne' /\ AsksOfOne' /\ OneCreates' /\ NoneRefused'
<1>1. SavedInOne /\ NoneRefused /\ UNCHANGED <<folder, created, save, removed, twins, refused, swept>>
  BY DEF SocialInv, KeepsSaves, saveVars
<1>2. created \subseteq created' /\ twins' = twins
  BY <1>1
<1>3. FoldersAreCreated' /\ Existing' = Existing /\ \A n \in FolderNames : FoldersNamed(n)' = FoldersNamed(n)
  BY <1>1, FoldersKeep
<1>4. AsksOfOne' /\ OneCreates'
  BY <1>2, <1>3, MovesKeep, NothingCreated DEF CreatesNothing
<1>5. SavedInOne' /\ NoneRefused'
  BY <1>1, <1>3 DEF SavedInOne, NoneRefused
<1> QED
  BY <1>3, <1>4, <1>5

LEMMA FollowUserKeeps ==
    ASSUME SocialInv, NEW r \in UserRequests, NEW o \in Others, FollowUser(r, o)
    PROVE  SocialInv'
<1>1. /\ UNCHANGED <<folder, created, save, removed, twins, refused, swept, told, recent, rushed, conduct>>
      /\ follows' = follows \union {o} /\ KeepsSaves
  BY DEF FollowUser, KeepsSaves, saveVars
<1>2. /\ Moves(r) /\ begun' \in 0 .. MaxChanges
      /\ \A n \in FolderNames : ~ Creating(asking'[r], n)
      /\ \A u \in Others : ~ Telling(asking'[r], u)
  <2> DEFINE whom == {o}
             none == {}
  <2>1. /\ none \in SUBSET PostsToSave /\ none \in SUBSET FolderNames /\ none \in SUBSET Folders /\ whom \in SUBSET Others
        /\ Asks(r, "look for note", none, none, none, whom)
    BY DEF FollowUser
  <2>2. AtMost(none) /\ none \subseteq created'
    BY DEF AtMost
  <2> HIDE DEF whom, none
  <2> QED
    BY <2>1, <2>2, OneAsks
<1>3. FoldersAreCreated' /\ SavedInOne' /\ AsksOfOne' /\ OneCreates' /\ NoneRefused'
  BY <1>1, <1>2, SavesStay
<1>4. OneTells'
  BY <1>1, <1>2, NothingTold DEF TellsNothing
<1>5. SocialTyping'
  BY <1>1, <1>2 DEF SocialInv, SocialTyping, Moves
<1> QED
  BY <1>3, <1>4, <1>5 DEF SocialInv

LEMMA NotifyNewFollowerKeeps ==
    ASSUME SocialInv, NEW r \in UserRequests, NEW o \in Others, NotifyNewFollower(r, o)
    PROVE  SocialInv'
<1>1. /\ UNCHANGED <<folder, created, save, removed, twins, refused, swept, follows, told, recent, conduct, begun>>
      /\ KeepsSaves /\ asking[r].other = {o} /\ rushed' = (rushed \/ (told[o] = 0 /\ AlsoTells(r, o)))
  BY DEF NotifyNewFollower, KeepsSaves, saveVars
<1>2. SocialTyping /\ OneTells /\ told[o] \in Nat
  BY DEF SocialInv, SocialTyping
<1>3. rushed' \in BOOLEAN /\ (~ rushed' => ~ rushed)
  BY <1>1
<1>4. CASE told[o] > 0
  <2>1. Finishes(r) /\ rushed' = rushed /\ begun' \in 0 .. MaxChanges /\ created' = created
    <3>1. told[o] # 0
      BY <1>2, <1>4
    <3>2. rushed' = rushed
      BY <1>1, <1>2, <3>1 DEF SocialTyping
    <3>3. Finishes(r)
      BY <1>4 DEF NotifyNewFollower
    <3>4. begun' \in 0 .. MaxChanges /\ created' = created
      BY <1>1, <1>2 DEF SocialTyping
    <3> QED
      BY <3>2, <3>3, <3>4
  <2>2. /\ Moves(r)
        /\ \A m \in FolderNames : ~ Creating(asking'[r], m)
        /\ \A u \in Others : ~ Telling(asking'[r], u)
    BY <2>1, OneEnds
  <2> QED
    BY <1>1, <2>1, <2>2, OnlyMoves DEF Only, CreatesNothing, TellsNothing
<1>5. CASE told[o] = 0
  <2>1. Continues(r, "look again")
    <3>1. ~ (told[o] > 0)
      BY <1>5
    <3> QED
      BY <3>1 DEF NotifyNewFollower
  <2>2. /\ Moves(r) /\ asking'[r].other = {o}
        /\ \A m \in FolderNames : ~ Creating(asking'[r], m)
    <3>1. created \subseteq created'
      BY <1>1
    <3> QED
      BY <1>1, <2>1, <3>1, OneGoesOn
  <2>3. FoldersAreCreated' /\ SavedInOne' /\ AsksOfOne' /\ OneCreates' /\ NoneRefused'
    BY <1>1, <2>2, SavesStay
  <2>4. OneTells'
    <3> SUFFICES ASSUME ~ rushed', NEW u \in Others
                 PROVE  /\ told'[u] <= 1
                        /\ \A s \in UserRequests : Telling(asking'[s], u) =>
                             told'[u] = 0 /\ \A q \in UserRequests : Telling(asking'[q], u) => q = s
      BY DEF OneTells
    <3>1. \A s \in UserRequests \ {r} : asking'[s] = asking[s] /\ ~ Telling(asking[s], o)
      BY <1>1, <1>5, <2>2 DEF Moves, AlsoTells, Telling
    <3>2. u # o => ~ Telling(asking'[r], u)
      BY <2>2 DEF Telling
    <3>3. ~ rushed /\ told' = told
      BY <1>1
    <3> QED
      BY <1>2, <1>5, <3>1, <3>2, <3>3 DEF OneTells
  <2>5. SocialTyping'
    BY <1>1, <1>2, <1>3, <2>2 DEF SocialTyping, Moves
  <2> QED
    BY <2>3, <2>4, <2>5 DEF SocialInv
<1> QED
  BY <1>2, <1>4, <1>5

LEMMA LookAgainKeeps ==
    ASSUME SocialInv, NEW r \in UserRequests, NEW o \in Others, LookAgain(r, o)
    PROVE  SocialInv'
<1>1. /\ UNCHANGED <<folder, created, save, removed, twins, refused, swept, follows, told, recent, rushed, conduct, begun>>
      /\ KeepsSaves /\ asking[r].other = {o} /\ asking[r].pc = "look again"
  BY DEF LookAgain, KeepsSaves, saveVars, followVars, StandsAt
<1>2. SocialTyping /\ OneTells /\ begun' \in 0 .. MaxChanges
  BY <1>1 DEF SocialInv, SocialTyping
<1>3. CASE Finishes(r)
  <2>1. created' = created
    BY <1>1
  <2>2. /\ Moves(r)
        /\ \A m \in FolderNames : ~ Creating(asking'[r], m)
        /\ \A u \in Others : ~ Telling(asking'[r], u)
    BY <1>3, <2>1, OneEnds
  <2> QED
    BY <1>1, <1>2, <2>2, OnlyMoves DEF Only, CreatesNothing, TellsNothing
<1>4. CASE Continues(r, "tell")
  <2>1. created \subseteq created'
    BY <1>1
  <2>2. /\ Moves(r) /\ asking'[r].other = {o} /\ asking'[r].pc = "tell"
        /\ \A m \in FolderNames : ~ Creating(asking'[r], m)
    BY <1>1, <1>4, <2>1, OneGoesOn
  <2>3. FoldersAreCreated' /\ SavedInOne' /\ AsksOfOne' /\ OneCreates' /\ NoneRefused'
    BY <1>1, <2>2, SavesStay
  <2>4. \A s \in UserRequests, u \in Others : Telling(asking'[s], u) <=> Telling(asking[s], u)
    BY <1>1, <2>2 DEF Telling, Moves
  <2>5. OneTells'
    BY <1>1, <1>2, <2>4 DEF OneTells
  <2>6. SocialTyping'
    BY <1>1, <1>2, <2>2 DEF SocialTyping, Moves
  <2> QED
    BY <2>3, <2>5, <2>6 DEF SocialInv
<1> QED
  BY <1>3, <1>4 DEF LookAgain

LEMMA TellKeeps ==
    ASSUME SocialInv, NEW r \in UserRequests, NEW o \in Others, Tell(r, o)
    PROVE  SocialInv'
<1>1. /\ UNCHANGED <<folder, created, save, removed, twins, refused, swept, follows, rushed, conduct, begun>>
      /\ KeepsSaves /\ Telling(asking[r], o) /\ Finishes(r) /\ recent' = recent \union {o}
      /\ told' = [told EXCEPT ![o] = @ + 1]
  BY DEF Tell, KeepsSaves, saveVars, StandsAt, Telling
<1>2. SocialTyping /\ OneTells
  BY DEF SocialInv
<1>3. created' = created
  BY <1>1
<1>4. /\ Moves(r)
      /\ \A m \in FolderNames : ~ Creating(asking'[r], m)
      /\ \A u \in Others : ~ Telling(asking'[r], u)
  BY <1>1, <1>3, OneEnds
<1>5. /\ told' \in [Others -> Nat] /\ told'[o] = told[o] + 1
      /\ \A u \in Others \ {o} : told'[u] = told[u]
  BY <1>1, <1>2 DEF SocialTyping
<1>6. FoldersAreCreated' /\ SavedInOne' /\ AsksOfOne' /\ OneCreates' /\ NoneRefused'
  BY <1>1, <1>4, SavesStay
<1>7. OneTells'
  <2> SUFFICES ASSUME ~ rushed, NEW u \in Others
               PROVE  /\ told'[u] <= 1
                      /\ \A s \in UserRequests : Telling(asking'[s], u) =>
                           told'[u] = 0 /\ \A q \in UserRequests : Telling(asking'[q], u) => q = s
    BY <1>1 DEF OneTells
  <2>1. \A s \in UserRequests : Telling(asking'[s], u) => s # r /\ Telling(asking[s], u)
    BY <1>4 DEF Moves
  <2>2. CASE u = o
    <3>1. told[o] = 0 /\ \A q \in UserRequests : Telling(asking[q], o) => q = r
      BY <1>1, <1>2 DEF OneTells
    <3> QED
      BY <1>5, <2>1, <2>2, <3>1
  <2>3. CASE u # o
    BY <1>2, <1>5, <2>1, <2>3 DEF OneTells
  <2> QED
    BY <2>2, <2>3
<1>8. SocialTyping'
  BY <1>1, <1>2, <1>4, <1>5 DEF SocialTyping, Moves
<1> QED
  BY <1>6, <1>7, <1>8 DEF SocialInv

LEMMA AskingDiesKeeps ==
    ASSUME SocialInv, NEW r \in UserRequests, AskingDies(r)
    PROVE  SocialInv'
<1>1. /\ UNCHANGED <<folder, created, save, removed, twins, refused, swept, follows, told, recent, rushed, conduct, begun>>
      /\ Finishes(r) /\ begun' \in 0 .. MaxChanges /\ created' = created
  BY DEF AskingDies, KeepsSaves, saveVars, followVars, SocialInv, SocialTyping
<1>2. /\ Moves(r)
      /\ \A m \in FolderNames : ~ Creating(asking'[r], m)
      /\ \A u \in Others : ~ Telling(asking'[r], u)
  BY <1>1, OneEnds
<1> QED
  BY <1>1, <1>2, OnlyMoves DEF Only, CreatesNothing, TellsNothing

-----------------------------------------------------------------------------
(* The theorems.                                                           *)

LEMMA BookmarkingKeeps ==
    ASSUME SocialInv, Bookmarking
    PROVE  SocialInv'
<1>1. created \subseteq Folders /\ \A c \in Conducts : c.names \subseteq FolderNames
  BY SocialAssumption DEF SocialInv, SocialTyping
<1>2. conduct.names \subseteq FolderNames
  BY <1>1 DEF SocialInv, SocialTyping
<1>3. AtMost({}) /\ \A f \in created : AtMost({f}) /\ {f} \in SUBSET Folders /\ {f} \subseteq created
  BY <1>1 DEF AtMost
<1>4. {} \in SUBSET FolderNames /\ {} \in SUBSET Folders /\ {} \subseteq created
  OBVIOUS
<1>5. ASSUME NEW r \in UserRequests, NEW p \in PostsToSave, NEW n \in conduct.names, SavePost(r, p, {n}, {})
      PROVE  SocialInv'
  <2> DEFINE name == {n}
             none == {}
  <2>1. name \in SUBSET FolderNames /\ none \in SUBSET Folders /\ AtMost(none) /\ none \subseteq created
        /\ SavePost(r, p, name, none)
    BY <1>2, <1>3, <1>5
  <2> HIDE DEF name, none
  <2> QED
    BY <2>1, SavePostKeeps
<1>6. ASSUME NEW r \in UserRequests, NEW p \in PostsToSave, NEW f \in created, SavePost(r, p, {}, {f})
      PROVE  SocialInv'
  <2> DEFINE F == {f}
             none == {}
  <2>1. none \in SUBSET FolderNames /\ SavePost(r, p, none, F)
    BY <1>6
  <2>2. PICK g \in SUBSET Folders : g = F
    BY <1>3
  <2> HIDE DEF F, none
  <2>3. SavePost(r, p, none, g) /\ AtMost(g) /\ g \subseteq created
    BY <1>3, <2>1, <2>2 DEF F
  <2> QED
    BY <2>1, <2>2, <2>3, SavePostKeeps
<1>7. ASSUME NEW r \in UserRequests, NEW p \in PostsToSave, SavePost(r, p, {}, {})
      PROVE  SocialInv'
  <2> DEFINE none == {}
  <2>1. none \in SUBSET FolderNames /\ none \in SUBSET Folders /\ AtMost(none) /\ none \subseteq created
        /\ SavePost(r, p, none, none)
    BY <1>3, <1>7
  <2> HIDE DEF none
  <2> QED
    BY <2>1, SavePostKeeps
<1>8. CASE \E r \in UserRequests, p \in PostsToSave : InsertSave(r, p)
  BY <1>8, InsertSaveKeeps
<1>9. CASE \E r \in UserRequests, n \in FolderNames : CreateFolder(r, n) \/ FindFolderByName(r, n) \/ CreateNamed(r, n)
  BY <1>9, CreateFolderKeeps, FindFolderByNameKeeps, CreateNamedKeeps
<1>10. CASE \E r \in UserRequests : GetFolders(r) \/ EnsureDefaultFolders(r) \/ CreateDefault(r) \/ LookForFolder(r)
  BY <1>10, GetFoldersKeeps, EnsureDefaultFoldersKeeps, CreateDefaultKeeps, LookForFolderKeeps
<1>11. CASE \E r \in UserRequests : DropFolder(r) \/ \E f \in Folders : DeleteFolder(r, f)
  BY <1>11, DropFolderKeeps, DeleteFolderKeeps
<1>12. CASE \E p \in PostsToSave : UnsavePost(p)
  BY <1>12, UnsavePostKeeps
<1> QED
  BY <1>5, <1>6, <1>7, <1>8, <1>9, <1>10, <1>11, <1>12 DEF Bookmarking

LEMMA FollowsAndTellsKeeps ==
    ASSUME SocialInv, FollowsAndTells
    PROVE  SocialInv'
<1>1. CASE \E r \in UserRequests, o \in Others :
             FollowUser(r, o) \/ NotifyNewFollower(r, o) \/ LookAgain(r, o) \/ Tell(r, o)
  BY <1>1, FollowUserKeeps, NotifyNewFollowerKeeps, LookAgainKeeps, TellKeeps
<1>2. CASE \E o \in Others : UnfollowUser(o)
  <2>1. /\ UNCHANGED <<folder, created, save, removed, twins, refused, swept, asking, begun, told, rushed, conduct>>
        /\ follows' \subseteq follows /\ recent' = recent
    BY <1>2 DEF UnfollowUser, KeepsSaves, saveVars
  <2> QED
    BY <2>1, FollowingKeeps DEF SocialInv, SocialTyping
<1> QED
  BY <1>1, <1>2 DEF FollowsAndTells

LEMMA SocialNextKeeps == SocialInv /\ [SocialNext]_socialVars => SocialInv'
<1> SUFFICES ASSUME SocialInv, [SocialNext]_socialVars
             PROVE  SocialInv'
  OBVIOUS
<1>1. CASE UNCHANGED socialVars
  <2>1. /\ UNCHANGED <<folder, created, save, removed, twins, refused, swept, asking, begun, told, rushed, conduct>>
        /\ follows' = follows /\ recent' = recent
    BY <1>1 DEF socialVars, saveVars, followVars
  <2> QED
    BY <2>1, FollowingKeeps DEF SocialInv, SocialTyping
<1>2. CASE Bookmarking \/ FollowsAndTells
  BY <1>2, BookmarkingKeeps, FollowsAndTellsKeeps
<1>3. CASE (\E p \in PostsToSave : RemovePost(p)) \/ (\E r \in UserRequests : AskingDies(r))
  BY <1>3, RemovePostKeeps, AskingDiesKeeps
<1>4. CASE \E o \in Others : HourPasses(o)
  <2>1. /\ UNCHANGED <<folder, created, save, removed, twins, refused, swept, asking, begun, told, rushed, conduct>>
        /\ follows' = follows /\ recent' \subseteq recent
    BY <1>4 DEF HourPasses, KeepsSaves, saveVars
  <2> QED
    BY <2>1, FollowingKeeps DEF SocialInv, SocialTyping
<1> QED
  BY <1>1, <1>2, <1>3, <1>4 DEF SocialNext

LEMMA SocialAlwaysHolds == SocialSpec => []SocialInv
  BY SocialInitHolds, SocialNextKeeps, PTL DEF SocialSpec

LEMMA AtMostOne ==
    ASSUME NEW S, \A x, y \in S : x = y
    PROVE  Cardinality(S) <= 1
<1>1. CASE S = {}
  BY <1>1, FS_EmptySet
<1>2. CASE S # {}
  <2>1. PICK x \in S : S = {x}
    BY <1>2
  <2> QED
    BY <2>1, FS_Singleton
<1> QED
  BY <1>1, <1>2

\* Folders, saves, follows and the requests of a user have their type (core/engagement, core/follows).
THEOREM SocialTypeCorrect == SocialSpec => []SocialTypeOK
<1>1. SocialInv => SocialTypeOK
  BY DEF SocialInv, SocialTyping, SocialTypeOK, Asking
<1> QED
  BY <1>1, SocialAlwaysHolds, PTL

\* Whatever is deleted, looked for and created at a time: a save is in a folder that exists or in
\* none until the user takes it back, and looking first suffices for requests that do not look for
\* the same at a time (bookmark and folder services, follow services).
THEOREM SavesAndFollowsHold == SocialSpec => SavesAndFollowsAreKept
<1>1. SocialInv => \A p \in PostsToSave : \A F \in save[p] : F \subseteq Existing
  BY DEF SocialInv, SavedInOne
<1>2. SocialInv => LookingSuffices
  <2> SUFFICES ASSUME SocialInv
               PROVE  LookingSuffices
    OBVIOUS
  <2>1. ~ rushed => \A o \in Others : told[o] <= 1
    BY DEF SocialInv, OneTells
  <2>2. ~ twins => \A n \in FolderNames : Cardinality(FoldersNamed(n)) <= 1
    BY AtMostOne DEF SocialInv, OneCreates
  <2> QED
    BY <2>1, <2>2 DEF LookingSuffices, SocialInv, NoneRefused
<1>3. SocialInv /\ [SocialNext]_socialVars =>
        [\A p \in PostsToSave : save[p] # NotSaved /\ save'[p] = NotSaved => UnsavePost(p)]_socialVars
  <2> SUFFICES ASSUME SocialInv, SocialNext, NEW p \in PostsToSave, save[p] # NotSaved, save'[p] = NotSaved
               PROVE  UnsavePost(p)
    OBVIOUS
  <2>1. save \in [PostsToSave -> SUBSET SUBSET Folders]
    BY DEF SocialInv, SocialTyping
  <2>2. CASE \E q \in PostsToSave : UnsavePost(q)
    <3>1. PICK q \in PostsToSave : UnsavePost(q)
      BY <2>2
    <3>2. q = p
      BY <2>1, <3>1 DEF UnsavePost
    <3> QED
      BY <3>1, <3>2
  <2>3. CASE \E r \in UserRequests, q \in PostsToSave : InsertSave(r, q)
    BY <2>1, <2>3 DEF InsertSave, Filed, NotSaved
  <2>4. CASE \E r \in UserRequests : DropFolder(r) \/ \E f \in Folders : DeleteFolder(r, f)
    BY <2>4 DEF DropFolder, DeleteFolder, Filed, NotSaved
  <2>5. CASE save' = save
    BY <2>5
  <2>6. \/ \E q \in PostsToSave : UnsavePost(q)
        \/ \E r \in UserRequests, q \in PostsToSave : InsertSave(r, q)
        \/ \E r \in UserRequests : DropFolder(r) \/ \E f \in Folders : DeleteFolder(r, f)
        \/ save' = save
    BY DEF SocialNext, Bookmarking, FollowsAndTells, SavePost, CreateFolder, GetFolders, EnsureDefaultFolders,
       CreateDefault, FindFolderByName, CreateNamed, LookForFolder, RemovePost, FollowUser, UnfollowUser,
       NotifyNewFollower, LookAgain, Tell, HourPasses, AskingDies, KeepsSaves, saveVars
  <2> QED
    BY <2>2, <2>3, <2>4, <2>5, <2>6
<1> QED
  BY <1>1, <1>2, <1>3, SocialAlwaysHolds, PTL DEF SavesAndFollowsAreKept, SavesAreKept, SocialSpec

-----------------------------------------------------------------------------
(***************************************************************************)
(* DeviceTokens.  A registration that is past its locks holds every row    *)
(* that it found and that is still of its user, so that two of one user    *)
(* which found a row in common are never past their locks at a time; and   *)
(* one that is alone brings what it will leave within the limit, whatever  *)
(* others take from the user meanwhile.                                    *)
(***************************************************************************)

Transactions == [pc : {"idle", "lock", "store", "commit"}, user : SUBSET Owners,
                 token : SUBSET Tokens, found : SUBSET Tokens, todo : SUBSET Tokens]

\* A registration is of one user and one token, which it does not delete.
RegistersOne ==
    \A r \in Registrations :
        \/ registration[r] = NotRegistering
        \/ /\ \E u \in Owners : registration[r].user = {u}
           /\ \E t \in Tokens : registration[r].token = {t}
           /\ registration[r].pc = "commit" => registration[r].todo \intersect registration[r].token = {}

\* What a registration found is of its user, and locked unless it is still to be.
FoundIsLocked ==
    \A r \in Registrations : \A t \in registration[r].found :
        /\ row[t].owner = registration[r].user
        /\ holder[t] = {r} \/ (registration[r].pc = "lock" /\ t \in registration[r].todo)

PastAlone ==
    \A u \in Owners \ apart : \A r, q \in Registrations : PastLocks(r, u) /\ PastLocks(q, u) => r = q

OwnsWithin == \A u \in Owners \ apart : Cardinality(Owned(u)) <= TokenLimit

\* What a registration leaves when it commits.
LeavesWithin ==
    \A u \in Owners \ apart : \A r \in Registrations : \A t \in registration[r].token :
        registration[r].pc = "commit" /\ registration[r].user = {u} =>
            Cardinality((Owned(u) \union {t}) \ registration[r].todo) <= TokenLimit

TokensInv == TokensTypeOK /\ RegistersOne /\ FoundIsLocked /\ PastAlone /\ OwnsWithin /\ LeavesWithin

-----------------------------------------------------------------------------

LEMMA OwnedAreTokens ==
    ASSUME NEW u
    PROVE  Owned(u) \subseteq Tokens /\ IsFiniteSet(Owned(u)) /\ Cardinality(Owned(u)) \in Nat
<1>1. Owned(u) \subseteq Tokens
  BY DEF Owned, Rows
<1> QED
  BY <1>1, FS_Subset, FS_CardinalityType, TokensAssumption DEF TokensAssumption

\* Fewer tokens are within the limit too.
LEMMA FewerAreWithin ==
    ASSUME NEW A, NEW B, A \subseteq B, B \subseteq Tokens, Cardinality(B) <= TokenLimit
    PROVE  Cardinality(A) <= TokenLimit
<1>1. IsFiniteSet(B)
  BY FS_Subset, TokensAssumption DEF TokensAssumption
<1>2. IsFiniteSet(A) /\ Cardinality(A) <= Cardinality(B)
  BY <1>1, FS_Subset
<1>3. Cardinality(A) \in Nat /\ Cardinality(B) \in Nat /\ TokenLimit \in Nat
  BY <1>1, <1>2, FS_CardinalityType, TokensAssumption DEF TokensAssumption
<1> QED
  BY <1>2, <1>3

LEMMA MaxWithZero ==
    ASSUME NEW a \in Int
    PROVE  Max({a, 0}) \in {a, 0} /\ Max({a, 0}) >= a
<1>1. \E x \in {a, 0} : \A y \in {a, 0} : x >= y
  <2>1. CASE a >= 0
    BY <2>1
  <2>2. CASE ~ a >= 0
    BY <2>2
  <2> QED
    BY <2>1, <2>2
<1>2. Max({a, 0}) \in {a, 0} /\ \A y \in {a, 0} : Max({a, 0}) >= y
  BY <1>1 DEF Max
<1> QED
  BY <1>2

\* What is left when what may be removed is removed.
LEMMA RemovableSuffices ==
    ASSUME NEW u, NEW t \in Tokens, NEW S \in Removable(u, t)
    PROVE  /\ S \subseteq Owned(u) /\ t \notin S
           /\ Cardinality((Owned(u) \union {t}) \ S) <= TokenLimit
<1> DEFINE All == Owned(u) \union {t}
           a == Cardinality(All) - TokenLimit
<1>1. S \subseteq Owned(u) /\ t \notin S /\ Cardinality(S) = Max({a, 0})
  BY DEF Removable
<1>2. All \subseteq Tokens /\ IsFiniteSet(All) /\ Cardinality(All) \in Nat
  <2>1. All \subseteq Tokens
    BY OwnedAreTokens
  <2> QED
    BY <2>1, FS_Subset, FS_CardinalityType, TokensAssumption DEF TokensAssumption
<1>3. TokenLimit \in Nat
  BY TokensAssumption DEF TokensAssumption
<1>4. a \in Int
  BY <1>2, <1>3
<1> HIDE DEF a
<1>5. Cardinality(S) >= a
  BY <1>1, <1>4, MaxWithZero
<1>6. All \intersect S = S /\ IsFiniteSet(S) /\ Cardinality(S) \in Nat
  BY <1>1, <1>2, FS_Subset, FS_CardinalityType
<1>7. Cardinality(All \ S) = Cardinality(All) - Cardinality(S)
  <2> HIDE DEF All
  <2> QED
    BY <1>2, <1>6, FS_Difference
<1>8. Cardinality(All \ S) <= TokenLimit
  <2> HIDE DEF All
  <2> QED
    BY <1>2, <1>3, <1>5, <1>6, <1>7 DEF a
<1> QED
  BY <1>1, <1>8

LEMMA TokensInitially == TokensInit => TokensInv
<1> SUFFICES ASSUME TokensInit
             PROVE  TokensInv
  OBVIOUS
<1> DEFINE Of(t) == {u \in Owners : <<t, u>> \in setting.owners}
<1>1. /\ setting \in TokenSettings /\ apart = {}
      /\ row = [t \in Tokens |-> IF \E u \in Owners : <<t, u>> \in setting.owners
                                THEN [owner |-> Of(t), active |-> TRUE, born |-> 0] ELSE NoRow]
      /\ registration = [r \in Registrations |-> NotRegistering]
  BY DEF TokensInit
<1>2. TokensTypeOK
  <2>1. row \in [Tokens -> [owner : SUBSET Owners, active : BOOLEAN, born : Nat]]
    BY <1>1 DEF NoRow
  <2>2. \A t \in Tokens : row[t].born <= 0
    BY <1>1 DEF NoRow
  <2>3. registration \in [Registrations -> Transactions]
    BY <1>1 DEF NotRegistering, Transactions
  <2> QED
    BY <2>1, <2>2, <2>3 DEF TokensInit, TokensTypeOK, Transactions, NoPush
<1>3. RegistersOne /\ FoundIsLocked /\ PastAlone /\ LeavesWithin
  BY <1>1 DEF RegistersOne, FoundIsLocked, PastAlone, LeavesWithin, PastLocks, NotRegistering
<1>4. ASSUME NEW u \in Owners
      PROVE  Cardinality(Owned(u)) <= TokenLimit
  <2> DEFINE B == {t \in Tokens : <<t, u>> \in setting.owners}
  <2>1. Owned(u) \subseteq B
    <3> SUFFICES ASSUME NEW t \in Owned(u)
                 PROVE  t \in B
      OBVIOUS
    <3>1. t \in Tokens /\ row[t].owner = {u}
      BY DEF Owned, Rows
    <3>2. row[t].owner \subseteq Of(t)
      BY <1>1, <3>1 DEF NoRow
    <3> QED
      BY <3>1, <3>2
  <2>2. Cardinality(B) <= TokenLimit
    BY <1>1, TokensAssumption DEF TokensAssumption
  <2>3. B \subseteq Tokens
    OBVIOUS
  <2> HIDE DEF B
  <2> QED
    BY <2>1, <2>2, <2>3, FewerAreWithin
<1> QED
  BY <1>2, <1>3, <1>4 DEF TokensInv, OwnsWithin

-----------------------------------------------------------------------------
(* Type correctness, action by action.                                     *)

\* What the transactions of registrations become.
LEMMA MovesOnIsTyped ==
    ASSUME TokensTypeOK, NEW r \in Registrations, NEW pc \in {"idle", "lock", "store", "commit"},
           NEW S \in SUBSET Tokens, MovesOn(r, pc, S)
    PROVE  /\ registration' \in [Registrations -> Transactions]
           /\ registration'[r] = [registration[r] EXCEPT !.pc = pc, !.todo = S]
           /\ \A q \in Registrations \ {r} : registration'[q] = registration[q]
<1>1. registration \in [Registrations -> Transactions]
  BY DEF TokensTypeOK, Transactions
<1>2. registration' = [registration EXCEPT ![r] = [registration[r] EXCEPT !.pc = pc, !.todo = S]]
  BY DEF MovesOn
<1>3. [registration[r] EXCEPT !.pc = pc, !.todo = S] \in Transactions
  BY <1>1 DEF Transactions
<1> DEFINE n == [registration[r] EXCEPT !.pc = pc, !.todo = S]
<1>4. n \in Transactions /\ registration' = [registration EXCEPT ![r] = n]
  BY <1>2, <1>3
<1> HIDE DEF n
<1>5. registration'[r] = n /\ registration' \in [Registrations -> Transactions]
      /\ \A q \in Registrations \ {r} : registration'[q] = registration[q]
  BY <1>1, <1>4
<1> QED
  BY <1>5 DEF n

LEMMA HoldersAreTyped ==
    ASSUME TokensTypeOK, NEW r \in Registrations
    PROVE  /\ Releases(r) \in [Tokens -> SUBSET Registrations]
           /\ \A t \in Tokens : Locks(r, t) =>
                /\ holder' \in [Tokens -> SUBSET Registrations] /\ holder'[t] = {r}
                /\ \A s \in Tokens \ {t} : holder'[s] = holder[s]
  BY DEF TokensTypeOK, Releases, Locks

LEMMA TokensStepIsTyped == TokensTypeOK /\ [TokensNext]_tokenVars => TokensTypeOK'
<1> SUFFICES ASSUME TokensTypeOK, [TokensNext]_tokenVars
             PROVE  TokensTypeOK'
  OBVIOUS
<1>0. /\ row \in [Tokens -> [owner : SUBSET Owners, active : BOOLEAN, born : Nat]]
      /\ \A t \in Tokens : row[t].born <= clock
      /\ registration \in [Registrations -> Transactions]
      /\ clock \in Nat /\ setting.requests \subseteq Registrations
  BY TokensAssumption DEF TokensTypeOK, Transactions, TokensAssumption
<1>1. ASSUME NEW r \in Registrations, NEW u \in Owners, NEW t \in Tokens, Register(r, u, t)
      PROVE  TokensTypeOK'
  <2> DEFINE n == [pc |-> "lock", user |-> {u}, token |-> {t}, found |-> Owned(u), todo |-> Concerns(u, t)]
  <2>1. n \in Transactions
    BY OwnedAreTokens DEF Concerns, Rows, Transactions
  <2>2. registration' = [registration EXCEPT ![r] = n]
    BY <1>1 DEF Register
  <2> HIDE DEF n
  <2>3. registration' \in [Registrations -> Transactions]
    BY <1>0, <2>1, <2>2
  <2> QED
    BY <1>1, <2>3 DEF Register, TokensTypeOK, Transactions
<1>2. ASSUME NEW r \in Registrations, LockRow(r)
      PROVE  TokensTypeOK'
  <2>1. PICK t \in First(registration[r].todo) :
            /\ Available(r, t)
            /\ Locks(r, t) \/ UNCHANGED holder
            /\ MovesOn(r, "lock", registration[r].todo \ {t})
    BY <1>2 DEF LockRow
  <2>2. t \in Tokens /\ registration[r].todo \ {t} \in SUBSET Tokens
    BY <1>0 DEF First, Transactions
  <2>3. registration' \in [Registrations -> Transactions]
    BY <2>1, <2>2, MovesOnIsTyped
  <2>4. holder' \in [Tokens -> SUBSET Registrations]
    BY <2>1, <2>2, HoldersAreTyped DEF TokensTypeOK
  <2> QED
    BY <1>2, <2>3, <2>4 DEF LockRow, TokensTypeOK, Transactions
<1>3. ASSUME NEW r \in Registrations, LockToken(r)
      PROVE  TokensTypeOK'
  <2>1. PICK t \in registration[r].token : Locks(r, t)
    BY <1>3 DEF LockToken
  <2>2. t \in Tokens /\ {} \in SUBSET Tokens
    BY <1>0 DEF Transactions
  <2>3. registration' \in [Registrations -> Transactions]
    BY <1>3, <2>2, MovesOnIsTyped DEF LockToken
  <2>4. holder' \in [Tokens -> SUBSET Registrations]
    BY <2>1, <2>2, HoldersAreTyped
  <2>5. apart' \subseteq Owners
    BY <1>3 DEF LockToken, TokensTypeOK
  <2> QED
    BY <1>3, <2>3, <2>4, <2>5 DEF LockToken, TokensTypeOK, Transactions
<1>4. ASSUME NEW r \in Registrations, Trim(r)
      PROVE  TokensTypeOK'
  <2>1. PICK u \in registration[r].user, t \in registration[r].token : \E S \in Removable(u, t) :
            MovesOn(r, "commit", S)
    BY <1>4 DEF Trim
  <2>2. PICK S \in Removable(u, t) : MovesOn(r, "commit", S)
    BY <2>1
  <2>3. S \in SUBSET Tokens
    BY OwnedAreTokens DEF Removable
  <2>4. registration' \in [Registrations -> Transactions]
    BY <2>2, <2>3, MovesOnIsTyped
  <2> QED
    BY <1>4, <2>4 DEF Trim, TokensTypeOK, Transactions
<1>5. ASSUME NEW r \in Registrations, CommitRegistration(r)
      PROVE  TokensTypeOK'
  <2>1. PICK u \in registration[r].user, new \in registration[r].token :
            row' = [t \in Tokens |-> IF t = new THEN Stored(u, t)
                                     ELSE IF t \in registration[r].todo THEN NoRow ELSE row[t]]
    BY <1>5 DEF CommitRegistration
  <2>2. u \in Owners /\ new \in Tokens
    BY <1>0 DEF Transactions
  <2>3. /\ Stored(u, new) \in [owner : SUBSET Owners, active : BOOLEAN, born : Nat]
        /\ Stored(u, new).born <= clock + 1
    <3>1. row[new].born \in Nat /\ row[new].born <= clock
      BY <1>0, <2>2
    <3> QED
      BY <1>0, <2>2, <3>1 DEF Stored
  <2>4. NoRow \in [owner : SUBSET Owners, active : BOOLEAN, born : Nat] /\ NoRow.born = 0
    BY DEF NoRow
  <2>5. row' \in [Tokens -> [owner : SUBSET Owners, active : BOOLEAN, born : Nat]]
    BY <1>0, <2>1, <2>2, <2>3, <2>4
  <2>6. \A t \in Tokens : row'[t].born <= clock + 1
    <3> SUFFICES ASSUME NEW t \in Tokens
                 PROVE  row'[t].born <= clock + 1
      OBVIOUS
    <3>1. row[t].born \in Nat /\ row[t].born <= clock
      BY <1>0
    <3>2. CASE t = new
      BY <2>1, <2>3, <3>2
    <3>3. CASE t # new /\ t \in registration[r].todo
      BY <1>0, <2>1, <2>4, <3>3
    <3>4. CASE t # new /\ t \notin registration[r].todo
      BY <1>0, <2>1, <3>1, <3>4
    <3> QED
      BY <3>2, <3>3, <3>4
  <2>7. registration' \in [Registrations -> Transactions]
    <3>1. registration' = [q \in Registrations |-> IF q = r THEN NotRegistering ELSE Without(q, registration[r].todo)]
      BY <1>5 DEF CommitRegistration
    <3>2. NotRegistering \in Transactions
      BY DEF NotRegistering, Transactions
    <3>3. \A q \in Registrations : Without(q, registration[r].todo) \in Transactions
      BY <1>0 DEF Without, Transactions
    <3> QED
      BY <3>1, <3>2, <3>3
  <2>8. holder' \in [Tokens -> SUBSET Registrations] /\ clock' = clock + 1 /\ clock' \in Nat
    BY <1>0, <1>5, HoldersAreTyped DEF CommitRegistration
  <2> QED
    BY <1>5, <2>5, <2>6, <2>7, <2>8 DEF CommitRegistration, TokensTypeOK, Transactions
<1>6. ASSUME NEW r \in Registrations, AbortRegistration(r)
      PROVE  TokensTypeOK'
  <2>1. NotRegistering \in Transactions
    BY DEF NotRegistering, Transactions
  <2>2. registration' \in [Registrations -> Transactions] /\ holder' \in [Tokens -> SUBSET Registrations]
    BY <1>0, <1>6, <2>1, HoldersAreTyped DEF AbortRegistration
  <2> QED
    BY <1>6, <2>2 DEF AbortRegistration, TokensTypeOK, Transactions
<1>7. ASSUME NEW t \in Tokens, Uninstall(t)
      PROVE  TokensTypeOK'
  BY <1>7 DEF Uninstall, TokensTypeOK
<1>8. ASSUME NEW u \in Owners, ReadTokens(u)
      PROVE  TokensTypeOK'
  <2>1. push' \in [user : SUBSET Owners, tokens : SUBSET Tokens]
    BY <1>8, OwnedAreTokens DEF ReadTokens
  <2> QED
    BY <1>8, <2>1 DEF ReadTokens, TokensTypeOK
<1>9. CASE SendPush
  <2>1. row' = [t \in Tokens |-> IF t \in push.tokens \intersect rejected /\ row[t] # NoRow
                                THEN [row[t] EXCEPT !.active = FALSE] ELSE row[t]]
    BY <1>9 DEF SendPush
  <2>2. \A t \in Tokens :
            /\ [row[t] EXCEPT !.active = FALSE] \in [owner : SUBSET Owners, active : BOOLEAN, born : Nat]
            /\ [row[t] EXCEPT !.active = FALSE].born = row[t].born
    BY <1>0
  <2>3. row' \in [Tokens -> [owner : SUBSET Owners, active : BOOLEAN, born : Nat]]
        /\ \A t \in Tokens : row'[t].born <= clock
    BY <1>0, <2>1, <2>2
  <2> QED
    BY <1>9, <2>3 DEF SendPush, TokensTypeOK, NoPush
<1>10. CASE UNCHANGED tokenVars
  BY <1>10 DEF tokenVars, TokensTypeOK
<1> QED
  BY <1>0, <1>1, <1>2, <1>3, <1>4, <1>5, <1>6, <1>7, <1>8, <1>9, <1>10 DEF TokensNext

-----------------------------------------------------------------------------
(* The steps of a registration.                                            *)

RegistrationsHold == RegistersOne /\ FoundIsLocked /\ PastAlone /\ OwnsWithin /\ LeavesWithin

\* What a row looks like does not matter, as long as its owner is the same.
LEMMA SameOwners ==
    ASSUME TokensTypeOK, \A t \in Tokens : row'[t].owner = row[t].owner
    PROVE  \A u \in Owners : Owned(u)' = Owned(u)
<1> SUFFICES ASSUME NEW u \in Owners
             PROVE  Owned(u)' = Owned(u)
  OBVIOUS
<1>1. \A t \in Tokens : row[t].owner = {u} => row[t] # NoRow
  BY DEF NoRow
<1>2. \A t \in Tokens : row'[t].owner = {u} => row'[t] # NoRow
  BY DEF NoRow
<1>3. Owned(u) = {t \in Tokens : row[t].owner = {u}}
  BY <1>1 DEF Owned, Rows
<1>4. Owned(u)' = {t \in Tokens : row'[t].owner = {u}}
  BY <1>2 DEF Owned, Rows
<1> QED
  BY <1>3, <1>4

\* Only the transaction of r changes, and it is not past its locks; rows keep their owners.
LEMMA BeforeLocks ==
    ASSUME TokensInv, NEW r \in Registrations, registration'[r].pc \in {"idle", "lock"},
           \A q \in Registrations \ {r} : registration'[q] = registration[q],
           UNCHANGED <<row, apart>>
    PROVE  PastAlone' /\ OwnsWithin' /\ LeavesWithin'
<1>1. \A u \in Owners : Owned(u)' = Owned(u)
  BY DEF Owned, Rows
<1>2. \A u \in Owners : ~ PastLocks(r, u)'
  BY DEF PastLocks
<1>3. \A q \in Registrations, u \in Owners : PastLocks(q, u)' => PastLocks(q, u) /\ q # r
  BY <1>2 DEF PastLocks
<1>4. PastAlone'
  BY <1>3 DEF TokensInv, PastAlone
<1>5. OwnsWithin'
  BY <1>1 DEF TokensInv, OwnsWithin
<1>6. LeavesWithin'
  <2> SUFFICES ASSUME NEW u \in Owners \ apart, NEW q \in Registrations, NEW t \in registration'[q].token,
                      registration'[q].pc = "commit", registration'[q].user = {u}
               PROVE  Cardinality((Owned(u)' \union {t}) \ registration'[q].todo) <= TokenLimit
    BY DEF LeavesWithin
  <2>1. q # r /\ registration'[q] = registration[q]
    OBVIOUS
  <2> QED
    BY <1>1, <2>1 DEF TokensInv, LeavesWithin
<1> QED
  BY <1>4, <1>5, <1>6

LEMMA RegisterKeeps ==
    ASSUME TokensInv, NEW r \in Registrations, NEW u \in Owners, NEW t \in Tokens, Register(r, u, t)
    PROVE  RegistrationsHold'
<1> DEFINE n == [pc |-> "lock", user |-> {u}, token |-> {t}, found |-> Owned(u), todo |-> Concerns(u, t)]
<1>1. registration' = [registration EXCEPT ![r] = n] /\ UNCHANGED <<row, holder, apart>>
  BY DEF Register
<1>2. registration \in [Registrations -> Transactions]
  BY DEF TokensInv, TokensTypeOK, Transactions
<1>3. /\ registration'[r] = n
      /\ \A q \in Registrations \ {r} : registration'[q] = registration[q]
  BY <1>1, <1>2
<1>4. RegistersOne'
  BY <1>3 DEF TokensInv, RegistersOne, NotRegistering
<1>5. FoundIsLocked'
  <2>1. \A s \in Owned(u) : row[s].owner = {u} /\ s \in Concerns(u, t)
    BY DEF Owned, Concerns
  <2> QED
    <3> SUFFICES ASSUME NEW q \in Registrations, NEW s \in registration'[q].found
                 PROVE  /\ row'[s].owner = registration'[q].user
                        /\ holder'[s] = {q} \/ (registration'[q].pc = "lock" /\ s \in registration'[q].todo)
      BY DEF FoundIsLocked
    <3>1. CASE q = r
      <4>1. /\ registration'[q].found = Owned(u) /\ registration'[q].user = {u}
            /\ registration'[q].pc = "lock" /\ registration'[q].todo = Concerns(u, t)
        BY <1>3, <3>1
      <4> QED
        BY <1>1, <2>1, <4>1
    <3>2. CASE q # r
      BY <1>1, <1>3, <3>2 DEF TokensInv, FoundIsLocked
    <3> QED
      BY <3>1, <3>2
<1>6. PastAlone' /\ OwnsWithin' /\ LeavesWithin'
  <2>1. registration'[r].pc \in {"idle", "lock"}
    BY <1>3
  <2> QED
    BY <1>1, <1>3, <2>1, BeforeLocks
<1> QED
  BY <1>4, <1>5, <1>6 DEF RegistrationsHold

LEMMA LockRowKeeps ==
    ASSUME TokensInv, NEW r \in Registrations, LockRow(r)
    PROVE  RegistrationsHold'
<1>1. PICK t \in First(registration[r].todo) :
          /\ Available(r, t)
          /\ IF \E u \in registration[r].user, new \in registration[r].token : t \in Concerns(u, new)
             THEN Locks(r, t) ELSE UNCHANGED holder
          /\ MovesOn(r, "lock", registration[r].todo \ {t})
  BY DEF LockRow
<1>2. registration \in [Registrations -> Transactions] /\ registration[r].pc = "lock"
      /\ UNCHANGED <<row, apart>>
  BY DEF TokensInv, TokensTypeOK, Transactions, LockRow
<1>3. t \in Tokens /\ t \in registration[r].todo /\ registration[r].todo \ {t} \in SUBSET Tokens
  BY <1>2 DEF First, Transactions
<1>4. /\ registration'[r] = [registration[r] EXCEPT !.pc = "lock", !.todo = registration[r].todo \ {t}]
      /\ \A q \in Registrations \ {r} : registration'[q] = registration[q]
  BY <1>1, <1>3, MovesOnIsTyped DEF TokensInv
<1>5. /\ registration'[r].pc = "lock" /\ registration'[r].todo = registration[r].todo \ {t}
      /\ registration'[r].user = registration[r].user /\ registration'[r].token = registration[r].token
      /\ registration'[r].found = registration[r].found
  BY <1>2, <1>4 DEF Transactions
<1>6. \/ Locks(r, t) /\ holder'[t] = {r} /\ \A s \in Tokens \ {t} : holder'[s] = holder[s]
      \/ holder' = holder
  BY <1>1, <1>3, HoldersAreTyped DEF TokensInv
<1>7. holder[t] \subseteq {r} /\ \A q \in Registrations : registration[q].found \subseteq Tokens
  BY <1>1, <1>2 DEF Available, Transactions
<1>8. RegistersOne'
  <2>1. RegistersOne
    BY DEF TokensInv
  <2>2. registration[r] # NotRegistering
    BY <1>2 DEF NotRegistering
  <2>3. (\E u \in Owners : registration[r].user = {u}) /\ (\E s \in Tokens : registration[r].token = {s})
    BY <2>1, <2>2 DEF RegistersOne
  <2>4. (\E u \in Owners : registration'[r].user = {u}) /\ (\E s \in Tokens : registration'[r].token = {s})
        /\ registration'[r].pc # "commit"
    BY <1>4, <1>5, <2>3
  <2>5. \A q \in Registrations \ {r} : registration'[q] = registration[q]
    BY <1>4
  <2> QED
    BY <2>1, <2>4, <2>5 DEF RegistersOne
<1>9. FoundIsLocked'
  <2> SUFFICES ASSUME NEW q \in Registrations, NEW s \in registration'[q].found
               PROVE  /\ row'[s].owner = registration'[q].user
                      /\ holder'[s] = {q} \/ (registration'[q].pc = "lock" /\ s \in registration'[q].todo)
    BY DEF FoundIsLocked
  <2>1. s \in registration[q].found /\ s \in Tokens
    BY <1>4, <1>5, <1>7
  <2>2. /\ row[s].owner = registration[q].user
        /\ holder[s] = {q} \/ (registration[q].pc = "lock" /\ s \in registration[q].todo)
    BY <2>1 DEF TokensInv, FoundIsLocked
  <2>3. row'[s].owner = registration'[q].user
    BY <1>2, <1>4, <1>5, <2>2
  <2>4. CASE q # r
    <3>1. holder[s] = {q} => holder'[s] = {q}
      BY <1>6, <1>7, <2>1, <2>4
    <3> QED
      BY <1>4, <2>2, <2>3, <2>4, <3>1
  <2>5. CASE q = r /\ s # t
    BY <1>5, <1>6, <2>1, <2>2, <2>3, <2>5
  <2>6. CASE q = r /\ s = t
    <3>1. PICK u \in Owners, new \in Tokens : registration[r].user = {u} /\ registration[r].token = {new}
      BY <1>2 DEF TokensInv, RegistersOne, NotRegistering
    <3>2. row[t].owner = {u}
      BY <2>2, <2>6, <3>1
    <3>3. t \in Owned(u)
      BY <1>3, <3>2 DEF Owned, Rows, NoRow
    <3>4. Locks(r, t)
      BY <1>1, <3>1, <3>3 DEF Concerns
    <3>5. holder'[t] = {r}
      BY <1>3, <3>4, HoldersAreTyped DEF TokensInv
    <3> QED
      BY <2>3, <2>6, <3>5
  <2> QED
    BY <2>4, <2>5, <2>6
<1>10. PastAlone' /\ OwnsWithin' /\ LeavesWithin'
  BY <1>2, <1>4, <1>5, BeforeLocks
<1> QED
  BY <1>8, <1>9, <1>10 DEF RegistrationsHold

\* Where the locks count: one who is past them holds what the other, who has locked all it
\* found, found too.
LEMMA LockTokenKeeps ==
    ASSUME TokensInv, NEW r \in Registrations, LockToken(r)
    PROVE  RegistrationsHold'
<1>1. PICK t \in registration[r].token : Available(r, t) /\ Locks(r, t)
  BY DEF LockToken
<1>2. /\ registration \in [Registrations -> Transactions]
      /\ registration[r].pc = "lock" /\ registration[r].todo = {}
      /\ row' = row /\ MovesOn(r, "store", {}) /\ {} \in SUBSET Tokens
      /\ apart' = apart \union {u \in Owners : registration[r].user = {u} /\ \E q \in Registrations \ {r} :
            PastLocks(q, u) /\ registration[q].found \intersect registration[r].found = {}}
  BY DEF TokensInv, TokensTypeOK, Transactions, LockToken
<1>3. /\ registration'[r] = [registration[r] EXCEPT !.pc = "store", !.todo = {}]
      /\ \A q \in Registrations \ {r} : registration'[q] = registration[q]
  BY <1>2, MovesOnIsTyped DEF TokensInv
<1>4. /\ registration'[r].pc = "store"
      /\ registration'[r].user = registration[r].user /\ registration'[r].token = registration[r].token
      /\ registration'[r].found = registration[r].found
  BY <1>2, <1>3 DEF Transactions
<1>5. t \in Tokens /\ \A q \in Registrations : registration[q].found \subseteq Tokens
  BY <1>2 DEF Transactions
<1>6. holder'[t] = {r} /\ \A s \in Tokens \ {t} : holder'[s] = holder[s]
  BY <1>1, <1>5, HoldersAreTyped DEF TokensInv
<1>7. RegistersOne'
  <2>1. RegistersOne
    BY DEF TokensInv
  <2>2. registration[r] # NotRegistering
    BY <1>2 DEF NotRegistering
  <2>3. (\E u \in Owners : registration[r].user = {u}) /\ (\E s \in Tokens : registration[r].token = {s})
    BY <2>1, <2>2 DEF RegistersOne
  <2>4. (\E u \in Owners : registration'[r].user = {u}) /\ (\E s \in Tokens : registration'[r].token = {s})
        /\ registration'[r].pc # "commit"
    BY <1>3, <1>4, <2>3
  <2>5. \A q \in Registrations \ {r} : registration'[q] = registration[q]
    BY <1>3
  <2> QED
    BY <2>1, <2>4, <2>5 DEF RegistersOne
<1>8. FoundIsLocked'
  <2> SUFFICES ASSUME NEW q \in Registrations, NEW s \in registration'[q].found
               PROVE  /\ row'[s].owner = registration'[q].user
                      /\ holder'[s] = {q} \/ (registration'[q].pc = "lock" /\ s \in registration'[q].todo)
    BY DEF FoundIsLocked
  <2>1. s \in registration[q].found /\ s \in Tokens
    BY <1>3, <1>4, <1>5
  <2>2. /\ row[s].owner = registration[q].user
        /\ holder[s] = {q} \/ (registration[q].pc = "lock" /\ s \in registration[q].todo)
    BY <2>1 DEF TokensInv, FoundIsLocked
  <2>3. row'[s].owner = registration'[q].user
    BY <1>2, <1>3, <1>4, <2>2
  <2>4. CASE q # r
    <3>1. holder[s] = {q} => holder'[s] = {q}
      BY <1>1, <1>6, <2>1, <2>4 DEF Available
    <3> QED
      BY <1>3, <2>2, <2>3, <2>4, <3>1
  <2>5. CASE q = r
    BY <1>2, <1>6, <2>1, <2>2, <2>3, <2>5
  <2> QED
    BY <2>4, <2>5
<1>9. ASSUME NEW u \in Owners \ apart', NEW q \in Registrations \ {r}, PastLocks(q, u), registration[r].user = {u}
      PROVE  FALSE
  <2>1. u \in Owners \ apart /\ registration[q].found \intersect registration[r].found # {}
    BY <1>2, <1>9
  <2>2. PICK s : s \in registration[q].found /\ s \in registration[r].found
    BY <2>1
  <2>3. holder[s] = {q}
    BY <1>9, <2>2 DEF TokensInv, FoundIsLocked, PastLocks
  <2>4. holder[s] = {r}
    BY <1>2, <2>2 DEF TokensInv, FoundIsLocked
  <2> QED
    BY <2>3, <2>4
<1>10. PastAlone'
  <2> SUFFICES ASSUME NEW u \in Owners \ apart', NEW p \in Registrations, NEW q \in Registrations,
                      PastLocks(p, u)', PastLocks(q, u)'
               PROVE  p = q
    BY DEF PastAlone
  <2>1. CASE p # r /\ q # r
    <3>1. PastLocks(p, u) /\ PastLocks(q, u) /\ u \in Owners \ apart
      BY <1>2, <1>3, <2>1 DEF PastLocks
    <3> QED
      BY <3>1 DEF TokensInv, PastAlone
  <2>2. CASE p = r /\ q # r
    <3>1. PastLocks(q, u) /\ registration[r].user = {u}
      BY <1>3, <1>4, <2>2 DEF PastLocks
    <3> QED
      BY <1>9, <2>2, <3>1
  <2>3. CASE p # r /\ q = r
    <3>1. PastLocks(p, u) /\ registration[r].user = {u}
      BY <1>3, <1>4, <2>3 DEF PastLocks
    <3> QED
      BY <1>9, <2>3, <3>1
  <2> QED
    BY <2>1, <2>2, <2>3
<1>11. OwnsWithin' /\ LeavesWithin'
  <2>1. \A u \in Owners : Owned(u)' = Owned(u)
    BY <1>2 DEF Owned, Rows
  <2>2. OwnsWithin'
    BY <1>2, <2>1 DEF TokensInv, OwnsWithin
  <2>3. LeavesWithin'
    <3> SUFFICES ASSUME NEW u \in Owners \ apart', NEW q \in Registrations, NEW s \in registration'[q].token,
                        registration'[q].pc = "commit", registration'[q].user = {u}
                 PROVE  Cardinality((Owned(u)' \union {s}) \ registration'[q].todo) <= TokenLimit
      BY DEF LeavesWithin
    <3>1. registration'[q] = registration[q] /\ u \in Owners \ apart
      BY <1>2, <1>3, <1>4
    <3> QED
      BY <2>1, <3>1 DEF TokensInv, LeavesWithin
  <2> QED
    BY <2>2, <2>3
<1> QED
  BY <1>7, <1>8, <1>10, <1>11 DEF RegistrationsHold

LEMMA TrimKeeps ==
    ASSUME TokensInv, NEW r \in Registrations, Trim(r)
    PROVE  RegistrationsHold'
<1>1. PICK u \in registration[r].user, t \in registration[r].token : \E S \in Removable(u, t) :
          MovesOn(r, "commit", S)
  BY DEF Trim
<1>2. PICK S \in Removable(u, t) : MovesOn(r, "commit", S)
  BY <1>1
<1>3. /\ registration \in [Registrations -> Transactions] /\ registration[r].pc = "store"
      /\ UNCHANGED <<row, holder, apart>>
  BY DEF TokensInv, TokensTypeOK, Transactions, Trim
<1>4. registration[r].user = {u} /\ registration[r].token = {t} /\ u \in Owners /\ t \in Tokens
  BY <1>3 DEF TokensInv, RegistersOne, NotRegistering
<1>5. /\ S \subseteq Owned(u) /\ t \notin S /\ S \in SUBSET Tokens
      /\ Cardinality((Owned(u) \union {t}) \ S) <= TokenLimit
  BY <1>4, RemovableSuffices, OwnedAreTokens
<1>6. /\ registration'[r] = [registration[r] EXCEPT !.pc = "commit", !.todo = S]
      /\ \A q \in Registrations \ {r} : registration'[q] = registration[q]
  BY <1>2, <1>5, MovesOnIsTyped DEF TokensInv
<1>7. /\ registration'[r].pc = "commit" /\ registration'[r].todo = S
      /\ registration'[r].user = {u} /\ registration'[r].token = {t}
      /\ registration'[r].found = registration[r].found
  BY <1>3, <1>4, <1>6 DEF Transactions
<1>8. RegistersOne'
  <2>1. \E v \in Owners : registration'[r].user = {v}
    BY <1>4, <1>7
  <2>2. \E s \in Tokens : registration'[r].token = {s}
    BY <1>4, <1>7
  <2>3. registration'[r].todo \intersect registration'[r].token = {}
    BY <1>5, <1>7
  <2>4. RegistersOne
    BY DEF TokensInv
  <2> SUFFICES ASSUME NEW q \in Registrations
               PROVE  \/ registration'[q] = NotRegistering
                      \/ /\ \E v \in Owners : registration'[q].user = {v}
                         /\ \E s \in Tokens : registration'[q].token = {s}
                         /\ registration'[q].pc = "commit" =>
                                registration'[q].todo \intersect registration'[q].token = {}
    BY DEF RegistersOne
  <2>5. CASE q = r
    BY <2>1, <2>2, <2>3, <2>5
  <2>6. CASE q # r
    <3>1. registration'[q] = registration[q]
      BY <1>6, <2>6
    <3> QED
      BY <2>4, <3>1 DEF RegistersOne
  <2> QED
    BY <2>5, <2>6
<1>9. FoundIsLocked'
  <2> SUFFICES ASSUME NEW q \in Registrations, NEW s \in registration'[q].found
               PROVE  /\ row'[s].owner = registration'[q].user
                      /\ holder'[s] = {q} \/ (registration'[q].pc = "lock" /\ s \in registration'[q].todo)
    BY DEF FoundIsLocked
  <2>1. s \in registration[q].found /\ registration'[q].user = registration[q].user
    BY <1>4, <1>6, <1>7
  <2>2. /\ row[s].owner = registration[q].user
        /\ holder[s] = {q} \/ (registration[q].pc = "lock" /\ s \in registration[q].todo)
    BY <2>1 DEF TokensInv, FoundIsLocked
  <2> QED
    BY <1>3, <1>6, <2>1, <2>2
<1>10. PastAlone'
  <2>1. \A q \in Registrations, v \in Owners : PastLocks(q, v)' => PastLocks(q, v)
    BY <1>3, <1>4, <1>6, <1>7 DEF PastLocks
  <2> QED
    BY <1>3, <2>1 DEF TokensInv, PastAlone
<1>11. \A v \in Owners : Owned(v)' = Owned(v)
  BY <1>3 DEF Owned, Rows
<1>12. OwnsWithin'
  BY <1>3, <1>11 DEF TokensInv, OwnsWithin
<1>13. LeavesWithin'
  <2> SUFFICES ASSUME NEW v \in Owners \ apart, NEW q \in Registrations, NEW s \in registration'[q].token,
                      registration'[q].pc = "commit", registration'[q].user = {v}
               PROVE  Cardinality((Owned(v)' \union {s}) \ registration'[q].todo) <= TokenLimit
    BY <1>3 DEF LeavesWithin
  <2>1. CASE q = r
    <3>1. v = u /\ s = t /\ registration'[q].todo = S
      BY <1>7, <2>1
    <3> QED
      BY <1>5, <1>11, <3>1
  <2>2. CASE q # r
    <3>1. registration'[q] = registration[q]
      BY <1>6, <2>2
    <3> QED
      BY <1>11, <3>1 DEF TokensInv, LeavesWithin
  <2> QED
    BY <2>1, <2>2
<1> QED
  BY <1>8, <1>9, <1>10, <1>12, <1>13 DEF RegistrationsHold

\* What the transactions of others become.
LEMMA WithoutIsSame ==
    ASSUME TokensTypeOK, NEW q \in Registrations, NEW S
    PROVE  /\ Without(q, S).pc = registration[q].pc /\ Without(q, S).user = registration[q].user
           /\ Without(q, S).token = registration[q].token /\ Without(q, S).todo = registration[q].todo \ S
           /\ Without(q, S).found = {t \in registration[q].found \ S : row'[t].owner = registration[q].user}
<1>1. registration[q] \in Transactions
  BY DEF TokensTypeOK, Transactions
<1> QED
  BY <1>1 DEF Without, Transactions

LEMMA CommitKeeps ==
    ASSUME TokensInv, NEW r \in Registrations, CommitRegistration(r)
    PROVE  RegistrationsHold'
<1>1. PICK u \in registration[r].user, new \in registration[r].token :
          row' = [t \in Tokens |-> IF t = new THEN Stored(u, t)
                                   ELSE IF t \in registration[r].todo THEN NoRow ELSE row[t]]
  BY DEF CommitRegistration
<1> DEFINE D == registration[r].todo
<1>2. /\ registration \in [Registrations -> Transactions] /\ registration[r].pc = "commit" /\ apart' = apart
      /\ registration' = [q \in Registrations |-> IF q = r THEN NotRegistering ELSE Without(q, D)]
      /\ holder' = [t \in Tokens |-> holder[t] \ {r}]
  BY DEF TokensInv, TokensTypeOK, Transactions, CommitRegistration, Releases
<1>3. /\ registration[r].user = {u} /\ registration[r].token = {new} /\ u \in Owners /\ new \in Tokens
      /\ new \notin D /\ D \subseteq Tokens
  BY <1>2 DEF TokensInv, RegistersOne, NotRegistering, Transactions
<1>4. registration'[r] = NotRegistering
  BY <1>2
<1>5. ASSUME NEW q \in Registrations \ {r}
      PROVE  /\ registration'[q].pc = registration[q].pc /\ registration'[q].user = registration[q].user
             /\ registration'[q].token = registration[q].token /\ registration'[q].todo = registration[q].todo \ D
             /\ registration'[q].found = {t \in registration[q].found \ D : row'[t].owner = registration[q].user}
  <2>1. registration'[q] = Without(q, D)
    BY <1>2
  <2> QED
    BY <2>1, WithoutIsSame DEF TokensInv
<1> HIDE DEF D
<1>6. RegistersOne'
  <2> SUFFICES ASSUME NEW q \in Registrations, q # r
               PROVE  \/ registration'[q] = NotRegistering
                      \/ /\ \E v \in Owners : registration'[q].user = {v}
                         /\ \E t \in Tokens : registration'[q].token = {t}
                         /\ registration'[q].pc = "commit" =>
                                registration'[q].todo \intersect registration'[q].token = {}
    BY <1>4 DEF RegistersOne
  <2>1. CASE registration[q] = NotRegistering
    <3>1. registration'[q] \in Transactions
      BY <1>2 DEF TokensInv, Without, Transactions
    <3>2. /\ registration'[q].pc = "idle" /\ registration'[q].user = {} /\ registration'[q].token = {}
          /\ registration'[q].found = {} /\ registration'[q].todo = {}
      BY <1>5, <2>1 DEF NotRegistering
    <3> QED
      BY <3>1, <3>2 DEF NotRegistering, Transactions
  <2>2. CASE registration[q] # NotRegistering
    <3>1. /\ \E v \in Owners : registration[q].user = {v}
          /\ \E t \in Tokens : registration[q].token = {t}
          /\ registration[q].pc = "commit" => registration[q].todo \intersect registration[q].token = {}
      BY <2>2 DEF TokensInv, RegistersOne
    <3> QED
      BY <1>5, <3>1
  <2> QED
    BY <2>1, <2>2
<1>7. FoundIsLocked'
  <2> SUFFICES ASSUME NEW q \in Registrations, NEW s \in registration'[q].found
               PROVE  /\ row'[s].owner = registration'[q].user
                      /\ holder'[s] = {q} \/ (registration'[q].pc = "lock" /\ s \in registration'[q].todo)
    BY DEF FoundIsLocked
  <2>1. q # r
    BY <1>4 DEF NotRegistering
  <2>2. s \in registration[q].found \ D /\ row'[s].owner = registration'[q].user
    BY <1>5, <2>1
  <2>3. s \in Tokens /\ (holder[s] = {q} \/ (registration[q].pc = "lock" /\ s \in registration[q].todo))
    BY <1>2, <2>2 DEF TokensInv, FoundIsLocked, Transactions
  <2>4. holder[s] = {q} => holder'[s] = {q}
    BY <1>2, <2>1, <2>3
  <2> QED
    BY <1>5, <2>1, <2>2, <2>3, <2>4
<1>8. \A q \in Registrations, v \in Owners : PastLocks(q, v)' => PastLocks(q, v) /\ q # r
  BY <1>4, <1>5 DEF PastLocks, NotRegistering
<1>9. PastAlone'
  BY <1>2, <1>8 DEF TokensInv, PastAlone
<1>10. /\ row'[new].owner = {u}
       /\ \A t \in Tokens \ {new} : row'[t] = IF t \in D THEN NoRow ELSE row[t]
  BY <1>1, <1>3 DEF Stored, D
<1>11. Owned(u)' \subseteq (Owned(u) \union {new}) \ D
  <2> SUFFICES ASSUME NEW t \in Owned(u)', t # new
               PROVE  t \in Owned(u) /\ t \notin D
    BY <1>3
  <2>1. t \in Tokens /\ row'[t].owner = {u} /\ row'[t] # NoRow
    BY DEF Owned, Rows
  <2>2. t \notin D /\ row'[t] = row[t]
    BY <1>10, <2>1
  <2> QED
    BY <2>1, <2>2 DEF Owned, Rows
<1>12. ASSUME NEW v \in Owners \ {u}
       PROVE  Owned(v)' \subseteq Owned(v) \ D
  <2> SUFFICES ASSUME NEW t \in Owned(v)'
               PROVE  t \in Owned(v) /\ t \notin D
    OBVIOUS
  <2>1. t \in Tokens /\ row'[t].owner = {v} /\ row'[t] # NoRow
    BY DEF Owned, Rows
  <2>2. t # new
    BY <1>10, <1>12, <2>1
  <2>3. t \notin D /\ row'[t] = row[t]
    BY <1>10, <2>1, <2>2
  <2> QED
    BY <2>1, <2>3 DEF Owned, Rows
<1>13. OwnsWithin'
  <2> SUFFICES ASSUME NEW v \in Owners \ apart
               PROVE  Cardinality(Owned(v)') <= TokenLimit
    BY <1>2 DEF OwnsWithin
  <2>1. CASE v = u
    <3> DEFINE B == (Owned(u) \union {new}) \ D
    <3>1. Cardinality(B) <= TokenLimit
      BY <1>2, <1>3, <2>1 DEF TokensInv, LeavesWithin, D
    <3>2. Owned(v)' \subseteq B /\ B \subseteq Tokens
      BY <1>3, <1>11, <2>1, OwnedAreTokens
    <3> HIDE DEF B
    <3> QED
      BY <3>1, <3>2, FewerAreWithin
  <2>2. CASE v # u
    <3>1. Owned(v)' \subseteq Owned(v)
      BY <1>12, <2>2
    <3>2. Cardinality(Owned(v)) <= TokenLimit /\ Owned(v) \subseteq Tokens
      BY OwnedAreTokens DEF TokensInv, OwnsWithin
    <3> QED
      BY <3>1, <3>2, FewerAreWithin
  <2> QED
    BY <2>1, <2>2
<1>14. LeavesWithin'
  <2> SUFFICES ASSUME NEW v \in Owners \ apart, NEW q \in Registrations, NEW t \in registration'[q].token,
                      registration'[q].pc = "commit", registration'[q].user = {v}
               PROVE  Cardinality((Owned(v)' \union {t}) \ registration'[q].todo) <= TokenLimit
    BY <1>2 DEF LeavesWithin
  <2>1. q # r
    BY <1>4 DEF NotRegistering
  <2>2. /\ registration[q].pc = "commit" /\ registration[q].user = {v} /\ t \in registration[q].token
        /\ registration'[q].todo = registration[q].todo \ D
    BY <1>5, <2>1
  <2>3. v # u
    <3>1. PastLocks(q, v) /\ registration[r].pc = "commit"
      BY <1>2, <2>2 DEF PastLocks
    <3>2. v = u => PastLocks(r, v)
      BY <1>2, <1>3 DEF PastLocks
    <3> QED
      BY <2>1, <3>1, <3>2 DEF TokensInv, PastAlone
  <2>4. t \notin registration[q].todo /\ t \in Tokens
    BY <1>2, <2>2 DEF TokensInv, RegistersOne, NotRegistering, Transactions
  <2> DEFINE B == (Owned(v) \union {t}) \ registration[q].todo
  <2>5. Cardinality(B) <= TokenLimit
    BY <2>2 DEF TokensInv, LeavesWithin
  <2>6. (Owned(v)' \union {t}) \ registration'[q].todo \subseteq B /\ B \subseteq Tokens
    BY <1>12, <2>2, <2>3, <2>4, OwnedAreTokens
  <2> HIDE DEF B
  <2> QED
    BY <2>5, <2>6, FewerAreWithin
<1> QED
  BY <1>6, <1>7, <1>9, <1>13, <1>14 DEF RegistrationsHold

LEMMA AbortKeeps ==
    ASSUME TokensInv, NEW r \in Registrations, AbortRegistration(r)
    PROVE  RegistrationsHold'
<1>1. /\ registration' = [registration EXCEPT ![r] = NotRegistering]
      /\ holder' = [t \in Tokens |-> holder[t] \ {r}] /\ UNCHANGED <<row, apart>>
  BY DEF AbortRegistration, Releases
<1>2. registration \in [Registrations -> Transactions]
  BY DEF TokensInv, TokensTypeOK, Transactions
<1>3. /\ registration'[r] = NotRegistering
      /\ \A q \in Registrations \ {r} : registration'[q] = registration[q]
  BY <1>1, <1>2
<1>4. RegistersOne'
  BY <1>3 DEF TokensInv, RegistersOne
<1>5. FoundIsLocked'
  <2> SUFFICES ASSUME NEW q \in Registrations, NEW s \in registration'[q].found
               PROVE  /\ row'[s].owner = registration'[q].user
                      /\ holder'[s] = {q} \/ (registration'[q].pc = "lock" /\ s \in registration'[q].todo)
    BY DEF FoundIsLocked
  <2>1. q # r /\ registration'[q] = registration[q]
    BY <1>3 DEF NotRegistering
  <2>2. s \in Tokens
    BY <1>2, <2>1 DEF Transactions
  <2>3. /\ row[s].owner = registration[q].user
        /\ holder[s] = {q} \/ (registration[q].pc = "lock" /\ s \in registration[q].todo)
    BY <2>1 DEF TokensInv, FoundIsLocked
  <2>4. holder[s] = {q} => holder'[s] = {q}
    BY <1>1, <2>1, <2>2
  <2> QED
    BY <1>1, <2>1, <2>3, <2>4
<1>6. registration'[r].pc \in {"idle", "lock"}
  BY <1>3 DEF NotRegistering
<1>7. PastAlone' /\ OwnsWithin' /\ LeavesWithin'
  BY <1>1, <1>3, <1>6, BeforeLocks
<1> QED
  BY <1>4, <1>5, <1>7 DEF RegistrationsHold

\* Messages change neither owners nor registrations.
LEMMA MessagesKeep ==
    ASSUME TokensInv, \A t \in Tokens : row'[t].owner = row[t].owner,
           UNCHANGED <<registration, holder, apart>>
    PROVE  RegistrationsHold'
<1>1. \A u \in Owners : Owned(u)' = Owned(u)
  BY SameOwners DEF TokensInv
<1>2. \A q \in Registrations : registration[q].found \subseteq Tokens
  BY DEF TokensInv, TokensTypeOK
<1>3. RegistersOne' /\ PastAlone'
  BY DEF TokensInv, RegistersOne, PastAlone, PastLocks
<1>4. FoundIsLocked'
  BY <1>2 DEF TokensInv, FoundIsLocked
<1>5. OwnsWithin'
  BY <1>1 DEF TokensInv, OwnsWithin
<1>6. LeavesWithin'
  BY <1>1 DEF TokensInv, LeavesWithin
<1> QED
  BY <1>3, <1>4, <1>5, <1>6 DEF RegistrationsHold

LEMMA TokensStep == TokensInv /\ [TokensNext]_tokenVars => TokensInv'
<1> SUFFICES ASSUME TokensInv, [TokensNext]_tokenVars
             PROVE  RegistrationsHold'
  BY TokensStepIsTyped DEF TokensInv, RegistrationsHold
<1>0. setting.requests \subseteq Registrations
  BY TokensAssumption DEF TokensInv, TokensTypeOK, TokensAssumption
<1>1. ASSUME NEW r \in Registrations, NEW u \in Owners, NEW t \in Tokens, Register(r, u, t)
      PROVE  RegistrationsHold'
  BY <1>1, RegisterKeeps
<1>2. ASSUME NEW r \in Registrations, LockRow(r)
      PROVE  RegistrationsHold'
  BY <1>2, LockRowKeeps
<1>3. ASSUME NEW r \in Registrations, LockToken(r)
      PROVE  RegistrationsHold'
  BY <1>3, LockTokenKeeps
<1>4. ASSUME NEW r \in Registrations, Trim(r)
      PROVE  RegistrationsHold'
  BY <1>4, TrimKeeps
<1>5. ASSUME NEW r \in Registrations, CommitRegistration(r)
      PROVE  RegistrationsHold'
  BY <1>5, CommitKeeps
<1>6. ASSUME NEW r \in Registrations, AbortRegistration(r)
      PROVE  RegistrationsHold'
  BY <1>6, AbortKeeps
<1>7. CASE (\E t \in Tokens : Uninstall(t)) \/ (\E u \in Owners : ReadTokens(u))
  BY <1>7, MessagesKeep DEF Uninstall, ReadTokens
<1>8. CASE SendPush
  <2>1. \A t \in Tokens : row'[t].owner = row[t].owner
    <3>1. \A t \in Tokens : [row[t] EXCEPT !.active = FALSE].owner = row[t].owner
      BY DEF TokensInv, TokensTypeOK
    <3> QED
      BY <1>8, <3>1 DEF SendPush
  <2> QED
    BY <1>8, <2>1, MessagesKeep DEF SendPush
<1>9. CASE UNCHANGED tokenVars
  BY <1>9, MessagesKeep DEF tokenVars
<1> QED
  BY <1>0, <1>1, <1>2, <1>3, <1>4, <1>5, <1>6, <1>7, <1>8, <1>9 DEF TokensNext

LEMMA TokensAlways == TokensSpec => []TokensInv
<1> QED
  BY TokensInitially, TokensStep, PTL DEF TokensSpec

\* The state has its type, for any users, tokens, requests and limit.
THEOREM TokensTypeCorrect == TokensSpec => []TokensTypeOK
<1>1. TokensInv => TokensTypeOK
  BY DEF TokensInv
<1> QED
  BY <1>1, TokensAlways, PTL

\* _lock_registration_rows and _enforce_device_token_limit: a user has no more tokens than the
\* limit, unless registrations without a row in common were past their locks at a time.
THEOREM TheLimitHolds == TokensSpec => []LimitHolds
<1>1. TokensInv => LimitHolds
  BY DEF TokensInv, OwnsWithin, LimitHolds
<1> QED
  BY <1>1, TokensAlways, PTL

-----------------------------------------------------------------------------
(***************************************************************************)
(* Previews.  A task works on an anchor without a usable preview, and what *)
(* it makes is of the media of the anchor that it has seen; an anchor that *)
(* still needs one is known to a task that is queued or under way.         *)
(***************************************************************************)

Thumbs == [of : Media \union {NoMedia}, small : BOOLEAN]
AnchorRows ==
    [state : {"absent", "there", "deleted"}, url : Media \union {NoMedia}, image : Media \union {NoMedia},
     video : Media \union {NoMedia}, thumb : Thumbs]

\* What was made small is of the media.
Made(a) == a.thumb.small => a.thumb.of \in Sources(a)

\* Nobody who reads the row has a preview to make of media that are ready.
Settled(a) == ~ Usable(a) => a.thumb = NoThumb /\ Sources(a) \intersect ready = {}

-----------------------------------------------------------------------------
(* What becomes of the fields of an anchor.                                *)

LEMMA NothingIsNoMedia == PreviewsTypeOK => NoMedia \notin ready /\ NoMedia \notin Media /\ Keep \notin Media
  BY PreviewsAssumption DEF PreviewsTypeOK, PreviewsAssumption

LEMMA ResolvedIsReady ==
    ASSUME PreviewsTypeOK, NEW a \in AnchorRows
    PROVE  /\ Resolved(a) \in Thumbs
           /\ \/ Resolved(a) = NoThumb /\ Sources(a) \intersect ready = {}
              \/ Resolved(a).small /\ Resolved(a).of \in Sources(a)
<1> DEFINE Done(m) == IF m \in ready THEN m ELSE NoMedia
           first == Or(Done(Candidates(a)[1]), Or(Done(Candidates(a)[2]), Done(Candidates(a)[3])))
<1>1. /\ a.url \in Media \union {NoMedia} /\ a.image \in Media \union {NoMedia} /\ a.video \in Media \union {NoMedia}
      /\ ready \subseteq Media /\ NoMedia \notin ready
  BY NothingIsNoMedia DEF AnchorRows, PreviewsTypeOK
<1>2. Resolved(a) = [of |-> first, small |-> first # NoMedia]
  BY DEF Resolved, Thumb
<1>3. \/ first = NoMedia /\ Sources(a) \intersect ready = {}
      \/ first # NoMedia /\ first \in Media /\ first \in Sources(a)
  <2>1. CASE picture.type = "video"
    <3>1. Candidates(a)[1] = a.video /\ Candidates(a)[2] = a.image /\ Candidates(a)[3] = a.url
      BY <2>1 DEF Candidates
    <3> QED
      BY <1>1, <3>1 DEF Or, Sources
  <2>2. CASE picture.type # "video"
    <3>1. Candidates(a)[1] = a.image /\ Candidates(a)[2] = a.url /\ Candidates(a)[3] = a.video
      BY <2>2 DEF Candidates
    <3> QED
      BY <1>1, <3>1 DEF Or, Sources
  <2> QED
    BY <2>1, <2>2
<1> HIDE DEF first
<1>4. Resolved(a) \in Thumbs /\ Resolved(a).of = first /\ (Resolved(a).small <=> first # NoMedia)
  <2>1. PICK b \in BOOLEAN : b <=> first # NoMedia
    <3>1. TRUE \in BOOLEAN /\ FALSE \in BOOLEAN
      OBVIOUS
    <3> QED
      BY <3>1
  <2>2. (first # NoMedia) = b
    BY <2>1
  <2>3. Resolved(a) = [of |-> first, small |-> b]
    BY <1>2, <2>2
  <2> QED
    BY <1>3, <2>1, <2>3 DEF Thumbs
<1>5. first = NoMedia => Resolved(a) = NoThumb
  BY <1>2 DEF NoThumb, Thumb
<1> QED
  BY <1>3, <1>4, <1>5

\* Rows that differ in their thumbnail only.
LEMMA ThumbnailOnly ==
    ASSUME NEW a \in AnchorRows, NEW t \in Thumbs
    PROVE  /\ [a EXCEPT !.thumb = t] \in AnchorRows /\ [a EXCEPT !.thumb = t].thumb = t
           /\ [a EXCEPT !.thumb = t].state = a.state
           /\ Sources([a EXCEPT !.thumb = t]) = Sources(a)
           /\ SourceUrl([a EXCEPT !.thumb = t]) = SourceUrl(a)
<1> DEFINE b == [a EXCEPT !.thumb = t]
<1>1. /\ b \in AnchorRows /\ b.thumb = t /\ b.state = a.state
      /\ b.url = a.url /\ b.image = a.image /\ b.video = a.video
  BY DEF AnchorRows
<1> HIDE DEF b
<1>2. Sources(b) = Sources(a) /\ SourceUrl(b) = SourceUrl(a)
  BY <1>1 DEF Sources, SourceUrl
<1> QED
  BY <1>1, <1>2 DEF b

LEMMA PreviewedIsSettled ==
    ASSUME PreviewsTypeOK, NEW a \in AnchorRows
    PROVE  /\ Previewed(a) \in AnchorRows /\ Previewed(a).state = a.state
           /\ Sources(Previewed(a)) = Sources(a) /\ Settled(Previewed(a))
           /\ \/ Previewed(a).thumb = a.thumb /\ Usable(a)
              \/ Previewed(a).thumb.small /\ Previewed(a).thumb.of \in Sources(a)
              \/ Previewed(a).thumb = NoThumb
<1>1. CASE Usable(a)
  BY <1>1 DEF Previewed, Settled
<1>2. CASE ~ Usable(a)
  <2> DEFINE t == Resolved(a)
             b == [a EXCEPT !.thumb = t]
  <2>1. t \in Thumbs /\ (\/ t = NoThumb /\ Sources(a) \intersect ready = {}
                         \/ t.small /\ t.of \in Sources(a))
    BY ResolvedIsReady
  <2>2. Previewed(a) = b
    BY <1>2 DEF Previewed
  <2> HIDE DEF t
  <2>3. b \in AnchorRows /\ b.thumb = t /\ b.state = a.state /\ Sources(b) = Sources(a)
    BY <2>1, ThumbnailOnly
  <2> HIDE DEF b
  <2>4. CASE t = NoThumb /\ Sources(a) \intersect ready = {}
    BY <2>2, <2>3, <2>4 DEF Settled
  <2>5. CASE t.small /\ t.of \in Sources(a)
    <3>1. Usable(b)
      BY <2>3, <2>5 DEF Usable, NoThumb, Thumb
    <3> QED
      BY <2>2, <2>3, <2>5, <3>1 DEF Settled
  <2> QED
    BY <2>1, <2>4, <2>5
<1> QED
  BY <1>1, <1>2

LEMMA FilledIsSame ==
    ASSUME NEW a \in AnchorRows
    PROVE  /\ Filled(a) \in AnchorRows /\ Filled(a).state = a.state /\ Filled(a).thumb = a.thumb
           /\ Filled(a).url = a.url /\ Sources(Filled(a)) = Sources(a)
<1> DEFINE m == Or(Typed(a), a.url)
<1>1. m \in Media \union {NoMedia} /\ (m = Typed(a) \/ (Typed(a) = NoMedia /\ m = a.url))
  BY DEF Or, Typed, AnchorRows
<1>2. Filled(a) = WithTyped(a, m)
  BY DEF Filled
<1> HIDE DEF m
<1>3. CASE picture.type = "video"
  <2> DEFINE b == [a EXCEPT !.video = m]
  <2>1. b \in AnchorRows /\ b.state = a.state /\ b.thumb = a.thumb /\ b.url = a.url /\ b.image = a.image /\ b.video = m
    BY <1>1 DEF AnchorRows
  <2>2. Filled(a) = b
    BY <1>2, <1>3 DEF WithTyped
  <2> HIDE DEF b
  <2>3. m = a.video \/ (a.video = NoMedia /\ m = a.url)
    BY <1>1, <1>3 DEF Typed
  <2>4. Sources(b) = Sources(a)
    BY <2>1, <2>3 DEF Sources
  <2> QED
    BY <2>1, <2>2, <2>4
<1>4. CASE picture.type # "video"
  <2> DEFINE b == [a EXCEPT !.image = m]
  <2>1. b \in AnchorRows /\ b.state = a.state /\ b.thumb = a.thumb /\ b.url = a.url /\ b.video = a.video /\ b.image = m
    BY <1>1 DEF AnchorRows
  <2>2. Filled(a) = b
    BY <1>2, <1>4 DEF WithTyped
  <2> HIDE DEF b
  <2>3. m = a.image \/ (a.image = NoMedia /\ m = a.url)
    BY <1>1, <1>4 DEF Typed
  <2>4. Sources(b) = Sources(a)
    BY <2>1, <2>3 DEF Sources
  <2> QED
    BY <2>1, <2>2, <2>4
<1> QED
  BY <1>3, <1>4

\* What it keeps of a thumbnail, and of the media.
LEMMA NormalisedIsSettled ==
    ASSUME PreviewsTypeOK, NEW a \in AnchorRows
    PROVE  LET r == NormaliseMediaFields(a) IN
           /\ r \in AnchorRows /\ r.state = a.state /\ Settled(r) /\ Sources(a) \subseteq Sources(r)
           /\ \/ r.thumb = a.thumb /\ (Usable(r) /\ ~ r.thumb.small => Sources(r) = Sources(a))
              \/ r.thumb.small /\ r.thumb.of \in Sources(r)
              \/ r.thumb = NoThumb
<1> DEFINE f == Filled(a)
           url == Or(f.url, Or(Typed(f), Or(Other(f), f.thumb.of)))
           g == [f EXCEPT !.url = url]
<1>1. f \in AnchorRows /\ f.state = a.state /\ f.thumb = a.thumb /\ Sources(f) = Sources(a)
  BY FilledIsSame
<1>2. NormaliseMediaFields(a) = Previewed(g)
  BY DEF NormaliseMediaFields
<1> HIDE DEF f
<1>3. /\ url \in Media \union {NoMedia}
      /\ url \in Sources(f) \/ (Sources(f) = {} /\ url = f.thumb.of)
      /\ f.url # NoMedia => url = f.url
  <2>1. /\ f.url \in Media \union {NoMedia} /\ f.image \in Media \union {NoMedia} /\ f.video \in Media \union {NoMedia}
        /\ f.thumb.of \in Media \union {NoMedia}
    BY <1>1 DEF AnchorRows, Thumbs
  <2> QED
    BY <2>1 DEF Or, Typed, Other, Sources
<1> HIDE DEF url
<1>4. /\ g \in AnchorRows /\ g.state = f.state /\ g.thumb = f.thumb /\ g.url = url
      /\ g.image = f.image /\ g.video = f.video
  BY <1>1, <1>3 DEF AnchorRows
<1> HIDE DEF g
<1>5. Sources(f) \subseteq Sources(g) /\ Sources(g) \subseteq Sources(f) \union {f.thumb.of}
      /\ (Sources(g) = Sources(f) \/ f.thumb.of \in Sources(g))
  BY <1>3, <1>4 DEF Sources
<1>6. ASSUME Usable(Previewed(g)), ~ Previewed(g).thumb.small, Previewed(g).thumb = g.thumb
      PROVE  Sources(Previewed(g)) = Sources(a)
  <2>1. Sources(Previewed(g)) = Sources(g)
    BY <1>4, PreviewedIsSettled
  <2>2. f.thumb.of \notin Sources(g)
    BY <1>4, <1>6, <2>1 DEF Usable
  <2> QED
    BY <1>1, <1>5, <2>1, <2>2
<1> QED
  BY <1>1, <1>2, <1>4, <1>5, <1>6, PreviewedIsSettled

LEMMA UpdatesAreTyped ==
    ASSUME NEW values, NEW nothing, NEW u \in Updates(values, nothing)
    PROVE  /\ u.url \in values \union {nothing} /\ u.image \in values \union {nothing}
           /\ u.video \in values \union {nothing} /\ u.thumb \in values \union {nothing}
  BY DEF Updates

\* Where the URL and the field of the type go, as the other fields are set.
LEMMA MirroredIsRow ==
    ASSUME NEW a \in AnchorRows, NEW b \in AnchorRows, NEW u,
           u.url \in Media \union {NoMedia, Keep}, u.image \in Media \union {NoMedia, Keep},
           u.video \in Media \union {NoMedia, Keep}
    PROVE  Mirrored(a, b, u) \in AnchorRows /\ Mirrored(a, b, u).state = b.state
<1> DEFINE m == Sets(u.url, Typed(b))
           w == WithTyped(b, m)
           url == Sets(Typed(u), w.url)
           r == [w EXCEPT !.url = url]
<1>1. m \in Media \union {NoMedia}
  BY DEF Sets, Typed, AnchorRows
<1> HIDE DEF m
<1>2. w \in AnchorRows /\ w.state = b.state
  <2>1. /\ [b EXCEPT !.video = m] \in AnchorRows /\ [b EXCEPT !.video = m].state = b.state
        /\ [b EXCEPT !.image = m] \in AnchorRows /\ [b EXCEPT !.image = m].state = b.state
    BY <1>1 DEF AnchorRows
  <2> QED
    BY <2>1 DEF WithTyped
<1> HIDE DEF w
<1>3. url \in Media \union {NoMedia}
  BY <1>2 DEF Sets, Typed, AnchorRows
<1> HIDE DEF url
<1>4. r \in AnchorRows /\ r.state = b.state
  BY <1>2, <1>3 DEF AnchorRows
<1>5. Mirrored(a, b, u) = b \/ Mirrored(a, b, u) = r
  BY DEF Mirrored, m, w, url
<1> HIDE DEF r
<1> QED
  BY <1>4, <1>5

LEMMA EditedIsSettled ==
    ASSUME PreviewsTypeOK, NEW a \in AnchorRows, NEW u \in Updates(Media \union {NoMedia}, Keep)
    PROVE  LET r == Edited(a, u) IN
           /\ r \in AnchorRows /\ r.state = a.state /\ (r = a \/ Settled(r))
           /\ Made(a) => Made(r)
           /\ Usable(r) /\ ~ r.thumb.small /\ u.thumb = Keep => r.thumb = a.thumb /\ Sources(r) = Sources(a)
<1> DEFINE set == [a EXCEPT !.url = Sets(u.url, @), !.image = Sets(u.image, @), !.video = Sets(u.video, @)]
           b == Mirrored(a, set, u)
           t == IF u.thumb = Keep THEN (IF Fields(b) = Fields(a) THEN a.thumb ELSE NoThumb) ELSE Thumb(u.thumb, FALSE)
           c == [b EXCEPT !.thumb = t]
<1>1. /\ u.url \in Media \union {NoMedia, Keep} /\ u.image \in Media \union {NoMedia, Keep}
      /\ u.video \in Media \union {NoMedia, Keep} /\ u.thumb \in Media \union {NoMedia, Keep}
  BY UpdatesAreTyped
<1>2. set \in AnchorRows /\ set.state = a.state
  BY <1>1 DEF Sets, AnchorRows
<1>3. b \in AnchorRows /\ b.state = a.state
  <2> HIDE DEF set
  <2> QED
    BY <1>1, <1>2, MirroredIsRow
<1>4. Edited(a, u) = a \/ Edited(a, u) = NormaliseMediaFields(c)
  BY DEF Edited
<1> HIDE DEF b
<1>5. t \in Thumbs
  BY <1>1 DEF Thumb, NoThumb, Thumbs, AnchorRows
<1>6. Fields(b) = Fields(a) => Sources(b) = Sources(a)
  BY DEF Fields, Sources
<1>7. /\ u.thumb = Keep => (t = a.thumb /\ Sources(b) = Sources(a)) \/ t = NoThumb
      /\ u.thumb # Keep => ~ t.small
  BY <1>6 DEF Thumb
<1> HIDE DEF t
<1>8. c \in AnchorRows /\ c.state = a.state /\ c.thumb = t /\ Sources(c) = Sources(b)
  BY <1>3, <1>5, ThumbnailOnly
<1> HIDE DEF c
<1>9. CASE Edited(a, u) = a
  BY <1>9
<1>10. CASE Edited(a, u) = NormaliseMediaFields(c)
  <2> DEFINE r == NormaliseMediaFields(c)
  <2>1. /\ r \in AnchorRows /\ r.state = a.state /\ Settled(r) /\ Sources(c) \subseteq Sources(r)
        /\ \/ r.thumb = t /\ (Usable(r) /\ ~ r.thumb.small => Sources(r) = Sources(c))
           \/ r.thumb.small /\ r.thumb.of \in Sources(r)
           \/ r.thumb = NoThumb
    BY <1>8, NormalisedIsSettled
  <2> HIDE DEF r
  <2>2. NoThumb.small = FALSE /\ ~ (Usable(r) /\ r.thumb = NoThumb)
    BY DEF NoThumb, Thumb, Usable
  <2>3. Made(a) => Made(r)
    BY <1>7, <1>8, <2>1, <2>2 DEF Made
  <2>4. Usable(r) /\ ~ r.thumb.small /\ u.thumb = Keep => r.thumb = a.thumb /\ Sources(r) = Sources(a)
    BY <1>7, <1>8, <2>1, <2>2
  <2> QED
    BY <1>10, <2>1, <2>3, <2>4 DEF r
<1> QED
  BY <1>4, <1>9, <1>10

\* An anchor that is new has no small thumbnail but of its media, and none by itself.
LEMMA NewIsSettled ==
    ASSUME PreviewsTypeOK, NEW u \in Updates(Media, NoMedia),
           NEW r \in {NormaliseMediaFields(Row("there", u.url, u.image, u.video, Thumb(u.thumb, FALSE))),
                      Previewed(Filled(Row("there", u.url, u.image, u.video, Thumb(u.thumb, FALSE))))}
    PROVE  /\ r \in AnchorRows /\ r.state = "there" /\ Settled(r) /\ Made(r)
           /\ Usable(r) /\ ~ r.thumb.small => u.thumb # NoMedia
<1> DEFINE new == Row("there", u.url, u.image, u.video, Thumb(u.thumb, FALSE))
<1>1. /\ u.url \in Media \union {NoMedia} /\ u.image \in Media \union {NoMedia}
      /\ u.video \in Media \union {NoMedia} /\ u.thumb \in Media \union {NoMedia}
  BY UpdatesAreTyped
<1>2. new \in AnchorRows /\ new.state = "there" /\ new.thumb = Thumb(u.thumb, FALSE)
  BY <1>1 DEF Row, Thumb, AnchorRows, Thumbs
<1>3. r = NormaliseMediaFields(new) \/ r = Previewed(Filled(new))
  OBVIOUS
<1> HIDE DEF new
<1>4. /\ r \in AnchorRows /\ r.state = "there" /\ Settled(r)
      /\ \/ r.thumb = new.thumb
         \/ r.thumb.small /\ r.thumb.of \in Sources(r)
         \/ r.thumb = NoThumb
  <2>1. CASE r = NormaliseMediaFields(new)
    BY <1>2, <2>1, NormalisedIsSettled
  <2>2. CASE r = Previewed(Filled(new))
    BY <1>2, <2>2, FilledIsSame, PreviewedIsSettled
  <2> QED
    BY <1>3, <2>1, <2>2
<1>5. ~ new.thumb.small /\ ~ NoThumb.small /\ (u.thumb = NoMedia => new.thumb = NoThumb)
  <2>1. Thumb(u.thumb, FALSE).small = FALSE /\ NoThumb.small = FALSE
    BY DEF NoThumb, Thumb
  <2>2. u.thumb = NoMedia => Thumb(u.thumb, FALSE) = NoThumb
    BY DEF NoThumb
  <2> QED
    BY <1>2, <2>1, <2>2
<1>6. ~ (Usable(r) /\ r.thumb = NoThumb)
  BY DEF Usable
<1> QED
  BY <1>4, <1>5, <1>6 DEF Made

-----------------------------------------------------------------------------
(* The invariant.                                                          *)

Honest == {"waited", "backfilled"} \intersect mishaps = {}
Waits == \E w \in Makers : maker[w].pc = "waiting"

\* What PreviewsAreOfTheirMedia says.
AnchorIsSound ==
    Honest => /\ Made(anchor)
              /\ given = IF Usable(anchor) /\ ~ anchor.thumb.small THEN {anchor.thumb} ELSE {}

\* The anchor stays as it is while a transaction holds its row, which keeps a thumbnail that was
\* given before with the media it was given for.
EditIsSound ==
    Honest /\ Locked =>
        /\ Made(edit.row)
        /\ Usable(edit.row) /\ ~ edit.row.thumb.small /\ ~ edit.gives =>
                edit.row.thumb = anchor.thumb /\ Sources(edit.row) = Sources(anchor)

MakerIsSound(w) ==
    /\ maker[w].pc # "idle" => ~ Usable(maker[w].seen)
    /\ maker[w].pc \in {"publish", "waiting"} =>
            maker[w].makes.small /\ maker[w].makes.of \in Sources(maker[w].seen)

MakersAreSound == \A w \in Makers : MakerIsSound(w)

\* A thumbnail that is none is not there at all.
NoneIsEmpty ==
    mishaps = {} => /\ ~ Usable(anchor) => anchor.thumb = NoThumb
                    /\ Locked /\ ~ Usable(edit.row) => edit.row.thumb = NoThumb

Generates(w) ==
    maker[w].pc = "waiting" \/ (maker[w].pc \in {"resolve", "publish"} /\ maker[w].seen = anchor)

\* Somebody is about to make the preview of an anchor that needs one.
WorkIsKnown ==
    mishaps = {} /\ anchor.state = "there" /\ ~ Usable(anchor) =>
        /\ SourceUrl(anchor) # NoMedia => "generate" \in jobs \/ \E w \in Makers : Generates(w)
        /\ \A m \in Sources(anchor) \intersect ready : m \in jobs \/ Waits

\* The same for what the anchor is about to become: its media announce themselves yet.
EditIsKnown ==
    mishaps = {} /\ Locked /\ edit.row.state = "there" /\ ~ Usable(edit.row) =>
        \A m \in Sources(edit.row) \intersect ready : m \in jobs \/ Waits

PreviewsInv ==
    /\ PreviewsTypeOK /\ AnchorIsSound /\ EditIsSound /\ MakersAreSound
    /\ NoneIsEmpty /\ WorkIsKnown /\ EditIsKnown

-----------------------------------------------------------------------------
(* The steps.  PreviewsType is PreviewsTypeOK by its parts.                *)

MakerStates ==
    [pc : {"idle", "resolve", "publish", "waiting", "backfill"}, seen : AnchorRows, makes : Thumbs]
EditStates == [pc : {"none", "open"}, row : AnchorRows, gives : BOOLEAN]
Mishaps == {"legacy", "lost", "missed", "waited", "backfilled"}

LEMMA PreviewsTypes ==
    PreviewsTypeOK <=>
        /\ anchor \in AnchorRows /\ given \subseteq Thumbs /\ maker \in [Makers -> MakerStates]
        /\ edit \in EditStates /\ ready \subseteq Media /\ jobs \subseteq Media \union {"generate"}
        /\ edits \in 0 .. MaxEdits /\ mishaps \subseteq Mishaps /\ picture \in Pictures
  BY DEF PreviewsTypeOK, AnchorRows, Thumbs, MakerStates, EditStates, Mishaps

LEMMA PreviewsTypesNext ==
    PreviewsTypeOK' <=>
        /\ anchor' \in AnchorRows /\ given' \subseteq Thumbs /\ maker' \in [Makers -> MakerStates]
        /\ edit' \in EditStates /\ ready' \subseteq Media /\ jobs' \subseteq Media \union {"generate"}
        /\ edits' \in 0 .. MaxEdits /\ mishaps' \subseteq Mishaps /\ picture' \in Pictures
  BY DEF PreviewsTypeOK, AnchorRows, Thumbs, MakerStates, EditStates, Mishaps

LEMMA NothingIsUnusable ==
    /\ NoThumb \in Thumbs /\ ~ NoThumb.small
    /\ Absent \in AnchorRows /\ Erased \in AnchorRows
    /\ Erased.state = "deleted" /\ Absent.state = "absent" /\ Sources(Absent) = {} /\ Sources(Erased) = {}
    /\ Absent.thumb = NoThumb /\ Erased.thumb = NoThumb
    /\ \A a : a.thumb = NoThumb => ~ Usable(a) /\ Made(a)
    /\ \A a : a.thumb.small => Usable(a)
<1>1. NoThumb \in Thumbs /\ ~ NoThumb.small
  BY DEF NoThumb, Thumb, Thumbs
<1>2. /\ Absent \in AnchorRows /\ Erased \in AnchorRows
      /\ Erased.state = "deleted" /\ Absent.state = "absent" /\ Sources(Absent) = {} /\ Sources(Erased) = {}
      /\ Absent.thumb = NoThumb /\ Erased.thumb = NoThumb
  BY <1>1 DEF Absent, Erased, Row, AnchorRows, Sources
<1> QED
  BY <1>1, <1>2 DEF Usable, Made

\* A transaction opens with a row that is settled, or the one that is there.
LEMMA OpensIsSound ==
    ASSUME PreviewsInv, NEW newRow \in AnchorRows, NEW gives \in BOOLEAN, Opens(newRow, gives),
           Honest => Made(newRow),
           Usable(newRow) /\ ~ newRow.thumb.small /\ ~ gives =>
                newRow.thumb = anchor.thumb /\ Sources(newRow) = Sources(anchor),
           newRow = anchor \/ Settled(newRow)
    PROVE  PreviewsInv'
<1>1. /\ ~ Locked /\ edits < MaxEdits /\ edits' = edits + 1 /\ edit' = [pc |-> "open", row |-> newRow, gives |-> gives]
      /\ anchor' = anchor /\ ready' = ready /\ jobs' = jobs /\ maker' = maker /\ given' = given
      /\ mishaps' = mishaps /\ picture' = picture
  BY DEF Opens
<1>2. edit' \in EditStates /\ edit'.row = newRow /\ edit'.gives = gives /\ edit'.pc = "open"
  BY <1>1 DEF EditStates
<1>3. PreviewsTypeOK'
  <2>1. edits' \in 0 .. MaxEdits
    BY <1>1, PreviewsTypes, PreviewsAssumption DEF PreviewsInv, PreviewsAssumption
  <2> QED
    BY <1>1, <1>2, <2>1, PreviewsTypes, PreviewsTypesNext DEF PreviewsInv
<1>4. AnchorIsSound' /\ MakersAreSound'
  BY <1>1 DEF PreviewsInv, AnchorIsSound, MakersAreSound, MakerIsSound, Honest
<1>5. EditIsSound'
  BY <1>1, <1>2 DEF EditIsSound, Honest
<1>6. NoneIsEmpty'
  BY <1>1, <1>2 DEF PreviewsInv, NoneIsEmpty, Settled
<1>7. WorkIsKnown'
  BY <1>1 DEF PreviewsInv, WorkIsKnown, Waits, Generates, SourceUrl
<1>8. EditIsKnown'
  <2>1. CASE newRow = anchor
    BY <1>1, <1>2, <2>1 DEF PreviewsInv, WorkIsKnown, EditIsKnown, Waits
  <2>2. CASE Settled(newRow)
    BY <1>1, <1>2, <2>2 DEF EditIsKnown, Settled
  <2> QED
    BY <2>1, <2>2
<1> QED
  BY <1>3, <1>4, <1>5, <1>6, <1>7, <1>8 DEF PreviewsInv


\* A row gets a small thumbnail of what it has.
LEMMA SmallIsUsable ==
    ASSUME NEW a \in AnchorRows, NEW t \in Thumbs, t.small
    PROVE  LET b == [a EXCEPT !.thumb = t] IN
           /\ b \in AnchorRows /\ b.thumb = t /\ b.state = a.state /\ Sources(b) = Sources(a)
           /\ Usable(b) /\ b.thumb.small
  BY ThumbnailOnly, NothingIsUnusable

LEMMA MakerIsTyped ==
    ASSUME PreviewsTypeOK, NEW w \in Makers
    PROVE  /\ maker[w] \in MakerStates /\ maker[w].seen \in AnchorRows /\ maker[w].makes \in Thumbs
           /\ maker[w].pc \in {"idle", "resolve", "publish", "waiting", "backfill"}
  BY PreviewsTypes DEF MakerStates

LEMMA IdleIsTyped == NotMaking \in MakerStates /\ NotMaking.pc = "idle"
  BY NothingIsUnusable DEF NotMaking, MakerStates

\* What a worker turns to, the other workers staying as they are.
LEMMA TurnsToIsSound ==
    ASSUME PreviewsInv, NEW w \in Makers, NEW what \in MakerStates, TurnsTo(w, what),
           what.pc # "idle" => ~ Usable(what.seen),
           what.pc \in {"publish", "waiting"} => what.makes.small /\ what.makes.of \in Sources(what.seen)
    PROVE  /\ maker' \in [Makers -> MakerStates] /\ MakersAreSound'
           /\ maker'[w] = what /\ \A v \in Makers : v # w => maker'[v] = maker[v]
<1>1. maker \in [Makers -> MakerStates]
  BY PreviewsTypes DEF PreviewsInv
<1>2. maker' \in [Makers -> MakerStates] /\ maker'[w] = what /\ \A v \in Makers : v # w => maker'[v] = maker[v]
  BY <1>1 DEF TurnsTo
<1>3. ASSUME NEW v \in Makers
      PROVE  MakerIsSound(v)'
  BY <1>2 DEF MakerIsSound, PreviewsInv, MakersAreSound
<1> QED
  BY <1>2, <1>3 DEF MakersAreSound

\* Who works on an anchor that stays still does, and no more updates wait.
LEMMA OthersWork ==
    ASSUME PreviewsInv, NEW w \in Makers, maker[w].pc # "waiting", anchor' = anchor,
           \A v \in Makers : v # w => maker'[v] = maker[v]
    PROVE  /\ Waits => Waits'
           /\ (\E v \in Makers : Generates(v)) => (\E v \in Makers : Generates(v)') \/ Generates(w)
  BY DEF Waits, Generates

\* The update of a task, or of the command.
LEMMA WritesIsSound ==
    ASSUME PreviewsInv, NEW w \in Makers, NEW chosen \in BOOLEAN, NEW t \in Thumbs, NEW seen \in AnchorRows,
           NEW races \in SUBSET {"missed", "backfilled"}, Writes(w, chosen, t, seen, races),
           maker[w].pc # "waiting", jobs' \subseteq Media \union {"generate"},
           "generate" \in jobs => "generate" \in jobs',
           chosen => t.small /\ t.of \in Sources(seen) /\ ~ Usable(seen),
           chosen /\ "backfilled" \notin races => ~ Usable(anchor) /\ Sources(anchor) = Sources(seen),
           ~ chosen /\ maker[w].pc = "publish" => maker[w].seen # anchor,
           maker[w].pc # "resolve",
           ~ chosen /\ mishaps' = {} => \A m \in jobs \ jobs' :
                /\ ~ Usable(anchor) /\ anchor.state = "there" => m \notin Sources(anchor)
                /\ Locked /\ edit.row.state = "there" /\ ~ Usable(edit.row) => m \notin Sources(edit.row)
    PROVE  PreviewsInv'
<1>1. CASE chosen /\ Locked
  <2> DEFINE what == [pc |-> "waiting", seen |-> seen, makes |-> t]
  <2>1. /\ TurnsTo(w, what) /\ mishaps' = mishaps /\ anchor' = anchor /\ ready' = ready /\ edit' = edit
        /\ edits' = edits /\ given' = given /\ picture' = picture
    BY <1>1 DEF Writes, KeepsRow
  <2>2. what \in MakerStates /\ what.pc = "waiting" /\ what.seen = seen /\ what.makes = t
    BY DEF MakerStates
  <2> HIDE DEF what
  <2>3. maker' \in [Makers -> MakerStates] /\ MakersAreSound' /\ maker'[w] = what
    BY <1>1, <2>1, <2>2, TurnsToIsSound
  <2>4. Waits' /\ Generates(w)'
    BY <2>2, <2>3 DEF Waits, Generates
  <2>5. PreviewsTypeOK'
    BY <2>1, <2>3, PreviewsTypes, PreviewsTypesNext DEF PreviewsInv
  <2>6. AnchorIsSound' /\ EditIsSound' /\ NoneIsEmpty'
    BY <2>1 DEF PreviewsInv, AnchorIsSound, EditIsSound, NoneIsEmpty, Honest, Locked
  <2>7. WorkIsKnown' /\ EditIsKnown'
    BY <2>4 DEF WorkIsKnown, EditIsKnown
  <2> QED
    BY <2>3, <2>5, <2>6, <2>7 DEF PreviewsInv
<1>2. CASE ~ (chosen /\ Locked)
  <2>1. /\ anchor' = (IF chosen THEN [anchor EXCEPT !.thumb = t] ELSE anchor) /\ mishaps' = mishaps \union races
        /\ TurnsTo(w, NotMaking) /\ ready' = ready /\ edit' = edit /\ edits' = edits /\ given' = given
        /\ picture' = picture
    BY <1>2 DEF Writes
  <2>2. /\ maker' \in [Makers -> MakerStates] /\ MakersAreSound' /\ maker'[w] = NotMaking
        /\ \A v \in Makers : v # w => maker'[v] = maker[v]
    BY <2>1, IdleIsTyped, TurnsToIsSound
  <2>3. mishaps' \subseteq Mishaps /\ (mishaps' = {} => mishaps = {}) /\ (Honest' => Honest)
    BY <2>1, PreviewsTypes DEF PreviewsInv, Mishaps, Honest
  <2>4. anchor \in AnchorRows
    BY PreviewsTypes DEF PreviewsInv
  <2>5. CASE chosen
    <3> DEFINE b == [anchor EXCEPT !.thumb = t]
    <3>1. /\ b \in AnchorRows /\ b.thumb = t /\ b.state = anchor.state /\ Sources(b) = Sources(anchor)
          /\ Usable(b) /\ b.thumb.small
      BY <2>4, <2>5, SmallIsUsable
    <3>2. anchor' = b
      BY <2>1, <2>5
    <3> HIDE DEF b
    <3>3. ~ Locked /\ ~ Locked'
      BY <1>2, <2>1, <2>5 DEF Locked
    <3>4. PreviewsTypeOK'
      BY <2>1, <2>2, <2>3, <3>1, <3>2, PreviewsTypes, PreviewsTypesNext DEF PreviewsInv
    <3>5. AnchorIsSound'
      <4>1. Honest' => "backfilled" \notin races
        BY <2>1 DEF Honest
      <4>2. Honest' => given' = {} /\ Made(b)
        BY <2>1, <2>3, <2>5, <3>1, <4>1 DEF PreviewsInv, AnchorIsSound, Made
      <4> QED
        BY <3>1, <3>2, <4>2 DEF AnchorIsSound
    <3>6. EditIsSound' /\ EditIsKnown'
      BY <3>3 DEF EditIsSound, EditIsKnown
    <3>7. NoneIsEmpty' /\ WorkIsKnown'
      BY <3>1, <3>2, <3>3 DEF NoneIsEmpty, WorkIsKnown
    <3> QED
      BY <2>2, <3>4, <3>5, <3>6, <3>7 DEF PreviewsInv
  <2>6. CASE ~ chosen
    <3>1. anchor' = anchor
      BY <2>1, <2>6
    <3>2. PreviewsTypeOK'
      BY <2>1, <2>2, <2>3, <3>1, PreviewsTypes, PreviewsTypesNext DEF PreviewsInv
    <3>3. AnchorIsSound' /\ EditIsSound' /\ NoneIsEmpty'
      BY <2>1, <2>3, <3>1 DEF PreviewsInv, AnchorIsSound, EditIsSound, NoneIsEmpty, Locked
    <3>4. ~ Generates(w)
      BY <2>6 DEF Generates
    <3>5. /\ Waits => Waits'
          /\ (\E v \in Makers : Generates(v)) => (\E v \in Makers : Generates(v)')
      BY <2>2, <3>1, <3>4, OthersWork
    <3>6. WorkIsKnown'
      <4>1. SUFFICES ASSUME mishaps' = {}, anchor.state = "there", ~ Usable(anchor)
                     PROVE  /\ SourceUrl(anchor) # NoMedia => "generate" \in jobs' \/ \E v \in Makers : Generates(v)'
                            /\ \A m \in Sources(anchor) \intersect ready : m \in jobs' \/ Waits'
        BY <2>1, <3>1 DEF WorkIsKnown, SourceUrl
      <4>2. /\ SourceUrl(anchor) # NoMedia => "generate" \in jobs \/ \E v \in Makers : Generates(v)
            /\ \A m \in Sources(anchor) \intersect ready : m \in jobs \/ Waits
        BY <2>3, <4>1 DEF PreviewsInv, WorkIsKnown
      <4> QED
        BY <2>6, <3>5, <4>1, <4>2
    <3>7. EditIsKnown'
      <4>1. SUFFICES ASSUME mishaps' = {}, Locked, edit.row.state = "there", ~ Usable(edit.row),
                            NEW m \in Sources(edit.row) \intersect ready
                     PROVE  m \in jobs' \/ Waits'
        BY <2>1 DEF EditIsKnown, Locked
      <4>2. m \in jobs \/ Waits
        BY <2>3, <4>1 DEF PreviewsInv, EditIsKnown
      <4> QED
        BY <2>6, <3>5, <4>1, <4>2
    <3> QED
      BY <2>2, <3>2, <3>3, <3>6, <3>7 DEF PreviewsInv
  <2> QED
    BY <2>5, <2>6
<1> QED
  BY <1>1, <1>2


-----------------------------------------------------------------------------

LEMMA CreateAnchorIsSound ==
    ASSUME PreviewsInv, NEW u \in Updates(Media, NoMedia), CreateAnchor(u)
    PROVE  PreviewsInv'
<1> DEFINE new == Row("there", u.url, u.image, u.video, Thumb(u.thumb, FALSE))
<1>1. PICK newRow \in {NormaliseMediaFields(new), Previewed(Filled(new))} : Opens(newRow, u.thumb # NoMedia)
  BY DEF CreateAnchor
<1>2. PreviewsTypeOK
  BY DEF PreviewsInv
<1>3. /\ newRow \in AnchorRows /\ Settled(newRow) /\ Made(newRow)
      /\ Usable(newRow) /\ ~ newRow.thumb.small => u.thumb # NoMedia
  BY <1>2, NewIsSettled
<1> HIDE DEF new
<1>4. PICK gives \in BOOLEAN : gives = (u.thumb # NoMedia)
  OBVIOUS
<1> QED
  BY <1>1, <1>3, <1>4, OpensIsSound

LEMMA EditScheduledAnchorIsSound ==
    ASSUME PreviewsInv, NEW u \in Updates(Media \union {NoMedia}, Keep), EditScheduledAnchor(u)
    PROVE  PreviewsInv'
<1>1. PreviewsTypeOK /\ anchor \in AnchorRows
  BY PreviewsTypes DEF PreviewsInv
<1>2. PICK a \in AnchorRows : a = anchor
  BY <1>1
<1> DEFINE newRow == Edited(a, u)
<1>3. /\ newRow \in AnchorRows /\ (newRow = a \/ Settled(newRow)) /\ (Made(a) => Made(newRow))
      /\ Usable(newRow) /\ ~ newRow.thumb.small /\ u.thumb = Keep =>
            newRow.thumb = a.thumb /\ Sources(newRow) = Sources(a)
  BY <1>1, EditedIsSettled
<1>4. Opens(newRow, u.thumb # Keep)
  BY <1>2 DEF EditScheduledAnchor
<1>5. PICK gives \in BOOLEAN : gives = (u.thumb # Keep)
  OBVIOUS
<1>6. Honest => Made(a)
  BY <1>2 DEF PreviewsInv, AnchorIsSound
<1> HIDE DEF newRow
<1> QED
  BY <1>2, <1>3, <1>4, <1>5, <1>6, OpensIsSound

LEMMA SendNowIsSound ==
    ASSUME PreviewsInv, SendNow
    PROVE  PreviewsInv'
<1>1. PICK newRow \in AnchorRows : newRow = anchor
  BY PreviewsTypes DEF PreviewsInv
<1>2. Opens(newRow, FALSE) /\ (Honest => Made(newRow))
  BY <1>1 DEF SendNow, PreviewsInv, AnchorIsSound
<1> QED
  BY <1>1, <1>2, OpensIsSound

LEMMA EraseCreatorIsSound ==
    ASSUME PreviewsInv, EraseCreator
    PROVE  PreviewsInv'
<1>1. Opens(Erased, FALSE)
  BY DEF EraseCreator
<1>2. Made(Erased) /\ ~ Usable(Erased) /\ Settled(Erased) /\ Erased \in AnchorRows
  BY NothingIsUnusable DEF Settled
<1> QED
  BY <1>1, <1>2, OpensIsSound

LEMMA NoEditIsTyped == NoEdit \in EditStates /\ NoEdit.pc = "none"
  BY NothingIsUnusable DEF NoEdit, EditStates

LEMMA AbortIsSound ==
    ASSUME PreviewsInv, Abort
    PROVE  PreviewsInv'
<1>1. /\ edit' = NoEdit /\ anchor' = anchor /\ ready' = ready /\ jobs' = jobs /\ maker' = maker
      /\ edits' = edits /\ given' = given /\ mishaps' = mishaps /\ picture' = picture
  BY DEF Abort
<1>2. ~ Locked' /\ PreviewsTypeOK'
  BY <1>1, NoEditIsTyped, PreviewsTypes, PreviewsTypesNext DEF PreviewsInv, Locked
<1>3. AnchorIsSound' /\ MakersAreSound'
  BY <1>1 DEF PreviewsInv, AnchorIsSound, MakersAreSound, MakerIsSound, Honest
<1>4. EditIsSound' /\ EditIsKnown'
  BY <1>2 DEF EditIsSound, EditIsKnown
<1>5. NoneIsEmpty' /\ WorkIsKnown'
  BY <1>1, <1>2 DEF PreviewsInv, NoneIsEmpty, WorkIsKnown, Waits, Generates, SourceUrl
<1> QED
  BY <1>2, <1>3, <1>4, <1>5 DEF PreviewsInv

\* What is committed may need a thumbnail, which is asked for.
LEMMA ScheduleIsKnown ==
    ASSUME PreviewsTypeOK, NEW a \in AnchorRows, ScheduleAnchorThumbnail(a)
    PROVE  /\ jobs' \subseteq Media \union {"generate"} /\ jobs \subseteq jobs'
           /\ mishaps' \subseteq Mishaps /\ (mishaps' = {} => mishaps = {}) /\ (Honest' <=> Honest)
           /\ mishaps' = {} /\ ~ Usable(a) /\ SourceUrl(a) # NoMedia => "generate" \in jobs'
<1>1. CASE UNCHANGED <<jobs, mishaps>> /\ ~ Wants(a)
  BY <1>1, PreviewsTypes DEF Honest, Wants
<1>2. CASE jobs' = jobs \union {"generate"} /\ UNCHANGED mishaps
  BY <1>2, PreviewsTypes DEF Honest
<1>3. CASE mishaps' = mishaps \union {"lost"} /\ UNCHANGED jobs
  <2>1. mishaps' # {} /\ (Honest' <=> Honest)
    BY <1>3 DEF Honest
  <2> QED
    BY <1>3, <2>1, PreviewsTypes DEF Mishaps
<1> QED
  BY <1>1, <1>2, <1>3 DEF ScheduleAnchorThumbnail

LEMMA CommitIsSound ==
    ASSUME PreviewsInv, Commit
    PROVE  PreviewsInv'
<1>1. PICK newRow \in AnchorRows : newRow = edit.row
  BY PreviewsTypes DEF PreviewsInv, EditStates
<1>2. /\ Locked /\ edit' = NoEdit /\ anchor' = newRow /\ ready' = ready /\ maker' = maker /\ edits' = edits
      /\ picture' = picture
      /\ given' = IF newRow.thumb.small \/ ~ Usable(newRow) THEN {}
                  ELSE IF edit.gives THEN {newRow.thumb}
                  ELSE IF Sources(newRow) = Sources(anchor) THEN given ELSE {}
      /\ IF newRow.state = "deleted" THEN UNCHANGED <<jobs, mishaps>> ELSE ScheduleAnchorThumbnail(newRow)
  BY <1>1 DEF Commit
<1>3. /\ jobs' \subseteq Media \union {"generate"} /\ jobs \subseteq jobs'
      /\ mishaps' \subseteq Mishaps /\ (mishaps' = {} => mishaps = {}) /\ (Honest' <=> Honest)
      /\ mishaps' = {} /\ ~ Usable(newRow) /\ SourceUrl(newRow) # NoMedia /\ newRow.state = "there" =>
            "generate" \in jobs'
  <2>1. CASE newRow.state = "deleted"
    BY <1>2, <2>1, PreviewsTypes DEF PreviewsInv, Honest
  <2>2. CASE newRow.state # "deleted"
    BY <1>2, <2>2, ScheduleIsKnown DEF PreviewsInv
  <2> QED
    BY <2>1, <2>2
<1>4. ~ Locked' /\ EditIsSound' /\ EditIsKnown'
  BY <1>2, NoEditIsTyped DEF Locked, EditIsSound, EditIsKnown
<1>5. PreviewsTypeOK'
  <2>1. newRow.thumb \in Thumbs /\ given \subseteq Thumbs
    BY PreviewsTypes DEF PreviewsInv, AnchorRows
  <2>2. given' \subseteq Thumbs
    BY <1>2, <2>1
  <2> QED
    BY <1>2, <1>3, <2>2, NoEditIsTyped, PreviewsTypes, PreviewsTypesNext DEF PreviewsInv
<1>6. AnchorIsSound'
  <2>1. SUFFICES ASSUME Honest
                 PROVE  /\ Made(newRow)
                        /\ given' = IF Usable(newRow) /\ ~ newRow.thumb.small THEN {newRow.thumb} ELSE {}
    BY <1>2, <1>3 DEF AnchorIsSound
  <2>2. /\ Made(newRow)
        /\ Usable(newRow) /\ ~ newRow.thumb.small /\ ~ edit.gives =>
                newRow.thumb = anchor.thumb /\ Sources(newRow) = Sources(anchor)
        /\ given = IF Usable(anchor) /\ ~ anchor.thumb.small THEN {anchor.thumb} ELSE {}
    BY <1>1, <1>2, <2>1 DEF PreviewsInv, EditIsSound, AnchorIsSound
  <2>3. CASE Usable(newRow) /\ ~ newRow.thumb.small /\ ~ edit.gives
    <3>1. Usable(anchor) /\ ~ anchor.thumb.small
      BY <2>2, <2>3 DEF Usable
    <3> QED
      BY <1>2, <2>2, <2>3, <3>1
  <2> QED
    BY <1>2, <2>2, <2>3
<1>7. MakersAreSound'
  BY <1>2 DEF PreviewsInv, MakersAreSound, MakerIsSound
<1>8. NoneIsEmpty'
  BY <1>1, <1>2, <1>3, <1>4 DEF PreviewsInv, NoneIsEmpty
<1>9. WorkIsKnown'
  <2>1. SUFFICES ASSUME mishaps' = {}, newRow.state = "there", ~ Usable(newRow)
                 PROVE  /\ SourceUrl(newRow) # NoMedia => "generate" \in jobs'
                        /\ \A m \in Sources(newRow) \intersect ready : m \in jobs' \/ Waits'
    BY <1>2 DEF WorkIsKnown, SourceUrl
  <2>2. \A m \in Sources(newRow) \intersect ready : m \in jobs \/ Waits
    BY <1>1, <1>2, <1>3, <2>1 DEF PreviewsInv, EditIsKnown
  <2>3. Waits' <=> Waits
    BY <1>2 DEF Waits
  <2> QED
    BY <1>3, <2>1, <2>2, <2>3
<1> QED
  BY <1>4, <1>5, <1>6, <1>7, <1>8, <1>9 DEF PreviewsInv


-----------------------------------------------------------------------------

LEMMA ThumbnailGeneratedIsSound ==
    ASSUME PreviewsInv, NEW m \in Media, ThumbnailGenerated(m)
    PROVE  PreviewsInv'
<1>1. /\ ready' = ready \union {m} /\ anchor' = anchor /\ maker' = maker /\ edit' = edit /\ edits' = edits
      /\ given' = given /\ picture' = picture
      /\ \/ jobs' = jobs \union {m} /\ mishaps' = mishaps
         \/ mishaps' = mishaps \union {"lost"} /\ jobs' = jobs
  BY DEF ThumbnailGenerated
<1>2. /\ mishaps' \subseteq Mishaps /\ (mishaps' = {} => mishaps = {} /\ jobs' = jobs \union {m})
      /\ (Honest' <=> Honest) /\ jobs' \subseteq Media \union {"generate"}
  BY <1>1, PreviewsTypes DEF PreviewsInv, Mishaps, Honest
<1>3. PreviewsTypeOK'
  BY <1>1, <1>2, PreviewsTypes, PreviewsTypesNext DEF PreviewsInv
<1>4. AnchorIsSound' /\ EditIsSound' /\ MakersAreSound' /\ NoneIsEmpty'
  BY <1>1, <1>2 DEF PreviewsInv, AnchorIsSound, EditIsSound, MakersAreSound, MakerIsSound, NoneIsEmpty, Locked
<1>5. Waits' <=> Waits
  BY <1>1 DEF Waits
<1>6. WorkIsKnown' /\ EditIsKnown'
  BY <1>1, <1>2, <1>5 DEF PreviewsInv, WorkIsKnown, EditIsKnown, Locked, Generates, SourceUrl
<1> QED
  BY <1>3, <1>4, <1>6 DEF PreviewsInv

LEMMA SyncIsSound ==
    ASSUME PreviewsInv, NEW w \in Makers, NEW m \in Media, SyncMediaAnchorThumbnails(w, m)
    PROVE  PreviewsInv'
<1>1. PICK chosen \in BOOLEAN : chosen = NeedsSync(m, anchor)
  BY DEF NeedsSync
<1>2. PICK seen \in AnchorRows : seen = anchor
  BY PreviewsTypes DEF PreviewsInv
<1> DEFINE t == Thumb(m, TRUE)
           races == IF ~ NeedsSync(m, anchor) /\ NeedsSync(m, edit.row) THEN {"missed"} ELSE {}
<1>3. t \in Thumbs /\ t.small /\ t.of = m
  BY DEF Thumb, Thumbs
<1>4. /\ races \in SUBSET {"missed", "backfilled"} /\ "backfilled" \notin races
      /\ races = {} /\ ~ chosen => ~ NeedsSync(m, edit.row)
  BY <1>1
<1>5. /\ m # "generate" /\ maker[w].pc = "idle" /\ jobs' = jobs \ {m} /\ Writes(w, chosen, t, seen, races)
  BY <1>1, <1>2 DEF SyncMediaAnchorThumbnails
<1>6. ~ chosen => mishaps' = mishaps \union races
  BY <1>5 DEF Writes
<1>7. chosen => m \in Sources(seen) /\ ~ Usable(seen)
  <2>1. Thumb(m, FALSE).of = m /\ Thumb(m, FALSE).small = FALSE
    BY DEF Thumb
  <2>2. seen.thumb = Thumb(m, FALSE) /\ m \in Sources(seen) => ~ Usable(seen)
    BY <2>1 DEF Usable
  <2> QED
    BY <1>1, <1>2, <2>2, NothingIsUnusable DEF NeedsSync
<1> HIDE DEF t, races
<1>8. ASSUME ~ chosen, mishaps' = {}
      PROVE  /\ ~ Usable(anchor) /\ anchor.state = "there" => m \notin Sources(anchor)
             /\ Locked /\ edit.row.state = "there" /\ ~ Usable(edit.row) => m \notin Sources(edit.row)
  <2>1. mishaps = {} /\ races = {}
    BY <1>6, <1>8
  <2> QED
    BY <1>1, <1>4, <1>8, <2>1 DEF PreviewsInv, NoneIsEmpty, NeedsSync
<1>9. jobs' \subseteq Media \union {"generate"} /\ ("generate" \in jobs => "generate" \in jobs') /\ jobs \ jobs' \subseteq {m}
  BY <1>5, PreviewsTypes DEF PreviewsInv
<1> QED
  BY <1>2, <1>3, <1>4, <1>5, <1>7, <1>8, <1>9, WritesIsSound

\* A step of a worker that leaves the row alone.
LEMMA KeepsIsSound ==
    ASSUME PreviewsInv, NEW w \in Makers, NEW what \in MakerStates, TurnsTo(w, what), KeepsRow,
           maker[w].pc # "waiting", what.pc # "waiting",
           what.pc # "idle" => ~ Usable(what.seen),
           what.pc = "publish" => what.makes.small /\ what.makes.of \in Sources(what.seen),
           jobs \ {"generate"} \subseteq jobs', jobs' \subseteq jobs \union {"generate"},
           mishaps' = mishaps \/ mishaps' = mishaps \union {"lost"},
           ("generate" \in jobs \/ Generates(w)) /\ mishaps' = {} /\ anchor.state = "there" /\ ~ Usable(anchor)
                /\ SourceUrl(anchor) # NoMedia
                => "generate" \in jobs' \/ (what.pc \in {"resolve", "publish"} /\ what.seen = anchor)
    PROVE  PreviewsInv'
<1>1. /\ anchor' = anchor /\ ready' = ready /\ edit' = edit /\ edits' = edits /\ given' = given
      /\ picture' = picture
  BY DEF KeepsRow
<1>2. /\ maker' \in [Makers -> MakerStates] /\ MakersAreSound' /\ maker'[w] = what
      /\ \A v \in Makers : v # w => maker'[v] = maker[v]
  BY TurnsToIsSound
<1>3. mishaps' \subseteq Mishaps /\ (mishaps' = {} => mishaps = {}) /\ (Honest' <=> Honest)
  BY PreviewsTypes DEF PreviewsInv, Mishaps, Honest
<1>4. PreviewsTypeOK'
  BY <1>1, <1>2, <1>3, PreviewsTypes, PreviewsTypesNext DEF PreviewsInv
<1>5. AnchorIsSound' /\ EditIsSound' /\ NoneIsEmpty'
  BY <1>1, <1>3 DEF PreviewsInv, AnchorIsSound, EditIsSound, NoneIsEmpty, Locked
<1>6. /\ Waits => Waits'
      /\ (\E v \in Makers : Generates(v)) => (\E v \in Makers : Generates(v)') \/ Generates(w)
  BY <1>1, <1>2, OthersWork
<1>7. "generate" \notin Media
  BY PreviewsAssumption DEF PreviewsAssumption
<1>8. WorkIsKnown'
  <2>1. SUFFICES ASSUME mishaps' = {}, anchor.state = "there", ~ Usable(anchor)
                 PROVE  /\ SourceUrl(anchor) # NoMedia => "generate" \in jobs' \/ \E v \in Makers : Generates(v)'
                        /\ \A m \in Sources(anchor) \intersect ready : m \in jobs' \/ Waits'
    BY <1>1 DEF WorkIsKnown, SourceUrl
  <2>2. /\ SourceUrl(anchor) # NoMedia => "generate" \in jobs \/ \E v \in Makers : Generates(v)
        /\ \A m \in Sources(anchor) \intersect ready : m \in jobs \/ Waits
    BY <1>3, <2>1 DEF PreviewsInv, WorkIsKnown
  <2>3. what.pc \in {"resolve", "publish"} /\ what.seen = anchor => Generates(w)'
    BY <1>1, <1>2 DEF Generates
  <2>4. \A m \in Sources(anchor) \intersect ready : m \in Media
    BY PreviewsTypes DEF PreviewsInv
  <2> QED
    BY <1>6, <1>7, <2>1, <2>2, <2>3, <2>4
<1>9. EditIsKnown'
  <2>1. SUFFICES ASSUME mishaps' = {}, Locked, edit.row.state = "there", ~ Usable(edit.row),
                        NEW m \in Sources(edit.row) \intersect ready
                 PROVE  m \in jobs' \/ Waits'
    BY <1>1 DEF EditIsKnown, Locked
  <2>2. (m \in jobs \/ Waits) /\ m \in Media
    BY <1>3, <2>1, PreviewsTypes DEF PreviewsInv, EditIsKnown
  <2> QED
    BY <1>6, <1>7, <2>2
<1> QED
  BY <1>2, <1>4, <1>5, <1>8, <1>9 DEF PreviewsInv

LEMMA MakerIsOfWorker ==
    ASSUME PreviewsInv, NEW w \in Makers
    PROVE  /\ maker[w] \in MakerStates /\ maker[w].seen \in AnchorRows /\ maker[w].makes \in Thumbs
           /\ maker[w].pc # "idle" => ~ Usable(maker[w].seen)
           /\ maker[w].pc \in {"publish", "waiting"} =>
                    maker[w].makes.small /\ maker[w].makes.of \in Sources(maker[w].seen)
  BY MakerIsTyped DEF PreviewsInv, MakersAreSound, MakerIsSound

\* What a worker has read, in the state in which it is read.
LEMMA ReadIsTyped ==
    ASSUME PreviewsInv, NEW pc \in {"resolve", "backfill"}
    PROVE  LET what == [pc |-> pc, seen |-> anchor, makes |-> NoThumb] IN
           what \in MakerStates /\ what.pc = pc /\ what.seen = anchor
  BY PreviewsTypes, NothingIsUnusable DEF PreviewsInv, MakerStates

LEMMA GenerateIsSound ==
    ASSUME PreviewsInv, NEW w \in Makers, GenerateAnchorThumbnail(w)
    PROVE  PreviewsInv'
<1> DEFINE reads == [pc |-> "resolve", seen |-> anchor, makes |-> NoThumb]
<1>1. PICK what : what = IF anchor.state # "there" \/ Usable(anchor) THEN NotMaking ELSE reads
  OBVIOUS
<1>2. /\ maker[w].pc = "idle" /\ jobs' = jobs \ {"generate"} /\ TurnsTo(w, what) /\ mishaps' = mishaps /\ KeepsRow
  BY <1>1 DEF GenerateAnchorThumbnail
<1>3. reads \in MakerStates /\ reads.pc = "resolve" /\ reads.seen = anchor
  BY ReadIsTyped
<1> HIDE DEF reads
<1>4. /\ what \in MakerStates /\ what.pc \in {"idle", "resolve"} /\ (what.pc = "resolve" => ~ Usable(what.seen))
      /\ anchor.state = "there" /\ ~ Usable(anchor) => what.pc = "resolve" /\ what.seen = anchor
  BY <1>1, <1>3, IdleIsTyped
<1> QED
  BY <1>2, <1>4, KeepsIsSound

\* What is made is small, and of the media that were seen.
LEMMA ResolveOrMakeIsSound ==
    ASSUME PreviewsInv, NEW w \in Makers, ResolveOrMake(w)
    PROVE  PreviewsInv'
<1>1. /\ maker[w].seen \in AnchorRows /\ maker[w].pc = "resolve" /\ ~ Usable(maker[w].seen)
  BY MakerIsOfWorker DEF ResolveOrMake
<1>2. PICK seen \in AnchorRows : seen = maker[w].seen
  BY <1>1
<1> DEFINE made == IF Resolved(seen) = NoThumb THEN Thumb(SourceUrl(seen), TRUE) ELSE Resolved(seen)
           publishes == [pc |-> "publish", seen |-> seen, makes |-> made]
<1>3. PICK what : what = IF made.of = NoMedia \/ (Resolved(seen) = NoThumb /\ anchor # seen) THEN NotMaking
                         ELSE publishes
  OBVIOUS
<1>4. TurnsTo(w, what) /\ jobs' = jobs /\ mishaps' = mishaps /\ KeepsRow
  BY <1>2, <1>3 DEF ResolveOrMake
<1>5. \/ Resolved(seen) = NoThumb
      \/ Resolved(seen) # NoThumb /\ Resolved(seen) \in Thumbs /\ Resolved(seen).small /\ Resolved(seen).of \in Sources(seen)
  BY ResolvedIsReady DEF PreviewsInv
<1>6. /\ made \in Thumbs /\ made.small
      /\ made.of # NoMedia => made.of \in Sources(seen)
      /\ made.of = NoMedia => Resolved(seen) = NoThumb /\ SourceUrl(seen) = NoMedia
  <2>1. CASE Resolved(seen) = NoThumb
    <3>1. made = Thumb(SourceUrl(seen), TRUE)
      BY <2>1
    <3>2. SourceUrl(seen) \in Sources(seen) \union {NoMedia} /\ SourceUrl(seen) \in Media \union {NoMedia}
      BY DEF SourceUrl, Or, Sources, AnchorRows
    <3>3. PICK m \in Media \union {NoMedia} : m = SourceUrl(seen)
      BY <3>2
    <3>4. Thumb(m, TRUE) \in Thumbs /\ Thumb(m, TRUE).small /\ Thumb(m, TRUE).of = m
      BY DEF Thumb, Thumbs
    <3>5. made \in Thumbs /\ made.small /\ made.of = SourceUrl(seen)
      BY <3>1, <3>3, <3>4
    <3> QED
      BY <2>1, <3>2, <3>5
  <2>2. CASE Resolved(seen) # NoThumb
    <3>1. made = Resolved(seen)
      BY <2>2
    <3>2. NoMedia \notin Sources(seen)
      BY DEF Sources
    <3> QED
      BY <1>5, <2>2, <3>1, <3>2
  <2> QED
    BY <2>1, <2>2
<1> HIDE DEF made
<1>7. publishes \in MakerStates /\ publishes.pc = "publish" /\ publishes.seen = seen /\ publishes.makes = made
  BY <1>6 DEF MakerStates
<1> HIDE DEF publishes
<1>8. /\ what \in MakerStates /\ what.pc \in {"idle", "publish"}
      /\ what.pc = "publish" => ~ Usable(what.seen) /\ what.makes.small /\ what.makes.of \in Sources(what.seen)
  BY <1>1, <1>2, <1>3, <1>6, <1>7, IdleIsTyped
<1>9. Generates(w) /\ SourceUrl(anchor) # NoMedia => what.pc = "publish" /\ what.seen = anchor
  <2>1. Generates(w) => seen = anchor
    BY <1>1, <1>2 DEF Generates
  <2> QED
    BY <1>3, <1>6, <1>7, <2>1
<1> QED
  BY <1>1, <1>4, <1>8, <1>9, KeepsIsSound

LEMMA PublishIsSound ==
    ASSUME PreviewsInv, NEW w \in Makers, Publish(w)
    PROVE  PreviewsInv'
<1>1. PICK chosen \in BOOLEAN : chosen = CurrentSource(maker[w].seen)
  BY DEF CurrentSource
<1>2. /\ maker[w].pc = "publish" /\ jobs' = jobs /\ Writes(w, chosen, maker[w].makes, maker[w].seen, {})
  BY <1>1 DEF Publish
<1>3. /\ maker[w].seen \in AnchorRows /\ maker[w].makes \in Thumbs /\ ~ Usable(maker[w].seen)
      /\ maker[w].makes.small /\ maker[w].makes.of \in Sources(maker[w].seen)
  BY <1>2, MakerIsOfWorker
<1>4. PICK seen \in AnchorRows, t \in Thumbs : seen = maker[w].seen /\ t = maker[w].makes
  BY <1>3
<1>5. PICK races \in SUBSET {"missed", "backfilled"} : races = {}
  OBVIOUS
<1>6. jobs' \subseteq Media \union {"generate"}
  BY <1>2, PreviewsTypes DEF PreviewsInv
<1>7. chosen <=> anchor = seen
  BY <1>1, <1>4 DEF CurrentSource
<1>8. Writes(w, chosen, t, seen, races)
  BY <1>2, <1>4, <1>5
<1> QED
  BY <1>2, <1>3, <1>4, <1>5, <1>6, <1>7, <1>8, WritesIsSound


LEMMA WaitedForIsSound ==
    ASSUME PreviewsInv, NEW w \in Makers, WaitedFor(w)
    PROVE  PreviewsInv'
<1>1. /\ maker[w].pc = "waiting" /\ ~ Locked /\ anchor' = [anchor EXCEPT !.thumb = maker[w].makes]
      /\ mishaps' = (IF anchor = maker[w].seen THEN mishaps ELSE mishaps \union {"waited"})
      /\ TurnsTo(w, NotMaking) /\ ready' = ready /\ jobs' = jobs /\ edit' = edit /\ edits' = edits
      /\ given' = given /\ picture' = picture
  BY DEF WaitedFor
<1>2. /\ maker[w].seen \in AnchorRows /\ maker[w].makes \in Thumbs /\ ~ Usable(maker[w].seen)
      /\ maker[w].makes.small /\ maker[w].makes.of \in Sources(maker[w].seen)
  BY <1>1, MakerIsOfWorker
<1>3. PICK seen \in AnchorRows, t \in Thumbs : seen = maker[w].seen /\ t = maker[w].makes
  BY <1>2
<1> DEFINE b == [anchor EXCEPT !.thumb = t]
<1>4. anchor \in AnchorRows
  BY PreviewsTypes DEF PreviewsInv
<1>5. /\ b \in AnchorRows /\ b.thumb = t /\ b.state = anchor.state /\ Sources(b) = Sources(anchor)
      /\ Usable(b) /\ b.thumb.small
  BY <1>2, <1>3, <1>4, SmallIsUsable
<1>6. anchor' = b
  BY <1>1, <1>3
<1> HIDE DEF b
<1>7. maker' \in [Makers -> MakerStates] /\ MakersAreSound'
  BY <1>1, IdleIsTyped, TurnsToIsSound
<1>8. mishaps' \subseteq Mishaps /\ (Honest' => Honest /\ anchor = seen)
  BY <1>1, <1>3, PreviewsTypes DEF PreviewsInv, Mishaps, Honest
<1>9. PreviewsTypeOK'
  BY <1>1, <1>5, <1>6, <1>7, <1>8, PreviewsTypes, PreviewsTypesNext DEF PreviewsInv
<1>10. AnchorIsSound'
  <2>1. Honest' => given' = {} /\ Made(b)
    BY <1>1, <1>2, <1>3, <1>5, <1>8 DEF PreviewsInv, AnchorIsSound, Made
  <2> QED
    BY <1>5, <1>6, <2>1 DEF AnchorIsSound
<1>11. ~ Locked' /\ EditIsSound' /\ EditIsKnown'
  BY <1>1 DEF Locked, EditIsSound, EditIsKnown
<1>12. NoneIsEmpty' /\ WorkIsKnown'
  BY <1>5, <1>6, <1>11 DEF NoneIsEmpty, WorkIsKnown
<1> QED
  BY <1>7, <1>9, <1>10, <1>11, <1>12 DEF PreviewsInv

\* A task that fails is lost, or tried again if it has only read the anchor.
LEMMA TaskFailsIsSound ==
    ASSUME PreviewsInv, NEW w \in Makers, TaskFails(w)
    PROVE  PreviewsInv'
<1>1. /\ TurnsTo(w, NotMaking) /\ KeepsRow
      /\ \/ mishaps' = mishaps \union {"lost"} /\ jobs' = jobs
         \/ maker[w].pc = "resolve" /\ jobs' = jobs \union {"generate"} /\ mishaps' = mishaps
  BY DEF TaskFails
<1>2. CASE mishaps' = {}
  <2>1. maker[w].pc = "resolve" /\ jobs' = jobs \union {"generate"} /\ mishaps' = mishaps
    BY <1>1, <1>2
  <2> QED
    BY <1>1, <2>1, IdleIsTyped, KeepsIsSound
<1>3. CASE mishaps' # {} /\ maker[w].pc # "waiting"
  BY <1>1, <1>3, IdleIsTyped, KeepsIsSound
<1>4. CASE mishaps' # {} /\ maker[w].pc = "waiting"
  <2>1. /\ anchor' = anchor /\ ready' = ready /\ edit' = edit /\ edits' = edits /\ given' = given
        /\ picture' = picture /\ jobs' = jobs /\ mishaps' = mishaps \union {"lost"}
    BY <1>1, <1>4 DEF KeepsRow
  <2>2. maker' \in [Makers -> MakerStates] /\ MakersAreSound'
    BY <1>1, IdleIsTyped, TurnsToIsSound
  <2>3. mishaps' \subseteq Mishaps /\ (Honest' <=> Honest)
    BY <2>1, PreviewsTypes DEF PreviewsInv, Mishaps, Honest
  <2>4. PreviewsTypeOK'
    BY <2>1, <2>2, <2>3, PreviewsTypes, PreviewsTypesNext DEF PreviewsInv
  <2>5. AnchorIsSound' /\ EditIsSound'
    BY <2>1, <2>3 DEF PreviewsInv, AnchorIsSound, EditIsSound, Locked
  <2>6. NoneIsEmpty' /\ WorkIsKnown' /\ EditIsKnown'
    BY <1>4 DEF NoneIsEmpty, WorkIsKnown, EditIsKnown
  <2> QED
    BY <2>2, <2>4, <2>5, <2>6 DEF PreviewsInv
<1> QED
  BY <1>2, <1>3, <1>4

LEMMA BeginBackfillIsSound ==
    ASSUME PreviewsInv, NEW w \in Makers, BeginBackfill(w)
    PROVE  PreviewsInv'
<1> DEFINE what == [pc |-> "backfill", seen |-> anchor, makes |-> NoThumb]
<1>1. maker[w].pc = "idle" /\ ~ Usable(anchor) /\ TurnsTo(w, what) /\ jobs' = jobs /\ mishaps' = mishaps /\ KeepsRow
  BY DEF BeginBackfill
<1>2. what \in MakerStates /\ what.pc = "backfill" /\ what.seen = anchor
  BY ReadIsTyped
<1> HIDE DEF what
<1>3. ~ Generates(w)
  BY <1>1 DEF Generates
<1> QED
  BY <1>1, <1>2, <1>3, KeepsIsSound

LEMMA BackfillIsSound ==
    ASSUME PreviewsInv, NEW w \in Makers, Backfill(w)
    PROVE  PreviewsInv'
<1>1. maker[w].pc = "backfill" /\ maker[w].seen \in AnchorRows /\ ~ Usable(maker[w].seen)
  BY MakerIsOfWorker DEF Backfill
<1>2. PICK seen \in AnchorRows : seen = maker[w].seen
  BY <1>1
<1>3. ~ Generates(w)
  BY <1>1 DEF Generates
<1>4. CASE Resolved(seen) = NoThumb
  <2>1. /\ jobs' = jobs \union (IF SourceUrl(seen) = NoMedia THEN {} ELSE {"generate"})
        /\ TurnsTo(w, NotMaking) /\ mishaps' = mishaps /\ KeepsRow
    BY <1>2, <1>4 DEF Backfill
  <2> QED
    BY <1>1, <1>3, <2>1, IdleIsTyped, KeepsIsSound
<1>5. CASE Resolved(seen) # NoThumb
  <2>1. PICK chosen \in BOOLEAN : chosen = (anchor.state = "there" /\ anchor.thumb = seen.thumb)
    OBVIOUS
  <2>2. PICK races \in SUBSET {"missed", "backfilled"} :
            races = IF chosen /\ Sources(anchor) # Sources(seen) THEN {"backfilled"} ELSE {}
    OBVIOUS
  <2>3. PICK t \in Thumbs : t = Resolved(seen) /\ t.small /\ t.of \in Sources(seen)
    BY <1>5, ResolvedIsReady DEF PreviewsInv
  <2>4. jobs' = jobs /\ Writes(w, chosen, t, seen, races)
    BY <1>2, <1>5, <2>1, <2>2, <2>3 DEF Backfill
  <2>5. chosen /\ "backfilled" \notin races => ~ Usable(anchor) /\ Sources(anchor) = Sources(seen)
    BY <1>1, <1>2, <2>1, <2>2 DEF Usable
  <2>6. jobs' \subseteq Media \union {"generate"}
    BY <2>4, PreviewsTypes DEF PreviewsInv
  <2> QED
    BY <1>1, <1>2, <2>3, <2>4, <2>5, <2>6, WritesIsSound
<1> QED
  BY <1>4, <1>5

-----------------------------------------------------------------------------

LEMMA PreviewsInitially == PreviewsInit => PreviewsInv
<1> SUFFICES ASSUME PreviewsInit PROVE PreviewsInv
  OBVIOUS
<1>1. /\ picture \in Pictures /\ ready = {} /\ jobs = {} /\ maker = [w \in Makers |-> NotMaking]
      /\ edit = NoEdit /\ edits = 0 /\ given = {} /\ mishaps = IF picture.legacy THEN {"legacy"} ELSE {}
  BY DEF PreviewsInit
<1>2. ASSUME NEW m \in Media
      PROVE  Legacy(m) \in AnchorRows /\ ~ Usable(Legacy(m)) /\ Made(Legacy(m))
  <2>1. Thumb(m, FALSE) \in Thumbs /\ Thumb(m, FALSE).small = FALSE /\ Thumb(m, FALSE).of = m
    BY DEF Thumb, Thumbs
  <2>2. /\ Legacy(m) \in AnchorRows /\ Legacy(m).thumb = Thumb(m, FALSE) /\ Legacy(m).url = m
    BY <2>1 DEF Legacy, Row, AnchorRows
  <2>3. m \in Sources(Legacy(m))
    BY <2>2, PreviewsAssumption DEF Sources, PreviewsAssumption
  <2> QED
    BY <2>1, <2>2, <2>3 DEF Usable, Made
<1>3. anchor \in AnchorRows /\ ~ Usable(anchor) /\ Made(anchor) /\ (mishaps = {} => anchor = Absent)
  BY <1>1, <1>2, NothingIsUnusable DEF PreviewsInit
<1>4. ~ Locked /\ edit \in EditStates
  BY <1>1, NoEditIsTyped DEF Locked
<1>5. PreviewsTypeOK
  BY <1>1, <1>3, <1>4, IdleIsTyped, PreviewsTypes, PreviewsAssumption DEF PreviewsAssumption, Mishaps
<1>6. AnchorIsSound /\ EditIsSound /\ EditIsKnown
  BY <1>1, <1>3, <1>4 DEF AnchorIsSound, EditIsSound, EditIsKnown
<1>7. MakersAreSound
  BY <1>1, IdleIsTyped DEF MakersAreSound, MakerIsSound
<1>8. NoneIsEmpty /\ WorkIsKnown
  BY <1>3, <1>4, NothingIsUnusable DEF NoneIsEmpty, WorkIsKnown
<1> QED
  BY <1>5, <1>6, <1>7, <1>8 DEF PreviewsInv

LEMMA PreviewsSteps == PreviewsInv /\ [PreviewsNext]_previewVars => PreviewsInv'
<1> SUFFICES ASSUME PreviewsInv, [PreviewsNext]_previewVars
             PROVE  PreviewsInv'
  OBVIOUS
<1>1. ASSUME NEW u \in Updates(Media, NoMedia), CreateAnchor(u) PROVE PreviewsInv'
  BY <1>1, CreateAnchorIsSound
<1>2. ASSUME NEW u \in Updates(Media \union {NoMedia}, Keep), EditScheduledAnchor(u) PROVE PreviewsInv'
  BY <1>2, EditScheduledAnchorIsSound
<1>3. CASE SendNow \/ EraseCreator \/ Commit \/ Abort
  BY <1>3, SendNowIsSound, EraseCreatorIsSound, CommitIsSound, AbortIsSound
<1>4. ASSUME NEW m \in Media, ThumbnailGenerated(m) PROVE PreviewsInv'
  BY <1>4, ThumbnailGeneratedIsSound
<1>5. ASSUME NEW w \in Makers, NEW m \in Media, SyncMediaAnchorThumbnails(w, m) PROVE PreviewsInv'
  BY <1>5, SyncIsSound
<1>6. ASSUME NEW w \in Makers, GenerateAnchorThumbnail(w) \/ ResolveOrMake(w) \/ Publish(w) PROVE PreviewsInv'
  BY <1>6, GenerateIsSound, ResolveOrMakeIsSound, PublishIsSound
<1>7. ASSUME NEW w \in Makers, WaitedFor(w) \/ TaskFails(w) \/ BeginBackfill(w) \/ Backfill(w) PROVE PreviewsInv'
  BY <1>7, WaitedForIsSound, TaskFailsIsSound, BeginBackfillIsSound, BackfillIsSound
<1>8. CASE UNCHANGED previewVars
  <2>1. /\ anchor' = anchor /\ ready' = ready /\ jobs' = jobs /\ maker' = maker /\ edit' = edit /\ edits' = edits
        /\ given' = given /\ mishaps' = mishaps /\ picture' = picture
    BY <1>8 DEF previewVars
  <2>2. PreviewsTypeOK'
    BY <2>1, PreviewsTypes, PreviewsTypesNext DEF PreviewsInv
  <2>3. AnchorIsSound' /\ EditIsSound' /\ MakersAreSound' /\ NoneIsEmpty'
    BY <2>1 DEF PreviewsInv, AnchorIsSound, EditIsSound, MakersAreSound, MakerIsSound, NoneIsEmpty, Honest, Locked
  <2>4. WorkIsKnown' /\ EditIsKnown'
    BY <2>1 DEF PreviewsInv, WorkIsKnown, EditIsKnown, Waits, Generates, Locked, SourceUrl
  <2> QED
    BY <2>2, <2>3, <2>4 DEF PreviewsInv
<1> QED
  BY <1>1, <1>2, <1>3, <1>4, <1>5, <1>6, <1>7, <1>8 DEF PreviewsNext, Administers

\* What the invariant says of an anchor.
LEMMA PreviewsOfInv == PreviewsInv => PreviewsAreExact
<1> SUFFICES ASSUME PreviewsInv PROVE PreviewsAreExact
  OBVIOUS
<1>1. PreviewsAreOfTheirMedia
  BY DEF PreviewsInv, AnchorIsSound, Honest, Made, PreviewsAreOfTheirMedia
<1>2. NoPreviewIsMissing
  <2>1. SUFFICES ASSUME mishaps = {}, jobs = {}, \A w \in Makers : maker[w] = NotMaking, anchor.state = "there",
                        Sources(anchor) \intersect ready # {} \/ SourceUrl(anchor) # NoMedia
                 PROVE  Usable(anchor)
    BY DEF NoPreviewIsMissing
  <2>2. \A w \in Makers : ~ Generates(w)
    BY <2>1, IdleIsTyped DEF Generates
  <2>3. ~ Waits
    BY <2>1, IdleIsTyped DEF Waits
  <2> QED
    BY <2>1, <2>2, <2>3 DEF PreviewsInv, WorkIsKnown
<1> QED
  BY <1>1, <1>2 DEF PreviewsAreExact

LEMMA PreviewsAreInductive == PreviewsSpec => []PreviewsInv
  BY PreviewsInitially, PreviewsSteps, PTL DEF PreviewsSpec

\* Every variable of Previews keeps its type.
THEOREM PreviewsTypeCorrect == PreviewsSpec => []PreviewsTypeOK
<1>1. PreviewsInv => PreviewsTypeOK
  BY DEF PreviewsInv
<1> QED
  BY <1>1, PreviewsAreInductive, PTL

\* A preview is made of the media that the anchor now has, or is what an administrator gave for
\* them, and when all is done none is missing, but for the mishaps that the property names: for
\* any media, workers, changes, and types of anchors.
THEOREM PreviewsStayExact == PreviewsSpec => []PreviewsAreExact
  BY PreviewsOfInv, PreviewsAreInductive, PTL

-----------------------------------------------------------------------------
(***************************************************************************)
(* Lists read page by page.  What makes it inductive, where a cursor names *)
(* a row or a time that no two rows share: whatever is owed to the reader  *)
(* and was not shown follows the last row of its last page, and unless it  *)
(* began anew, nothing that was shown does.  Where it names a number and   *)
(* nothing changes: what was shown is the first part of the list, and has  *)
(* as many rows as the pages read.                                         *)
(***************************************************************************)

(* The order of a list.                                                    *)

LEMMA RowsAreFinite ==
    /\ ListRows \subseteq Nat /\ 0 \notin ListRows /\ IsFiniteSet(ListRows) /\ RowsPerPage \in Nat \ {0}
    /\ MaxRowTime \in Nat /\ MaxListChanges \in Nat
    /\ \A S \in SUBSET ListRows : IsFiniteSet(S) /\ Cardinality(S) \in Nat
<1>1. \A S \in SUBSET ListRows : IsFiniteSet(S) /\ Cardinality(S) \in Nat
  BY ListsAssumption, FS_Subset, FS_CardinalityType
<1> QED
  BY <1>1, ListsAssumption

RowTimes == rowTime \in [ListRows -> Nat]

\* By time, then by id.
LEMMA OrderOfRows ==
    ASSUME RowTimes
    PROVE  /\ \A i \in ListRows : ~ Precedes(i, i)
           /\ \A i, j \in ListRows : i = j \/ Precedes(i, j) \/ Precedes(j, i)
           /\ \A i, j, k \in ListRows : Precedes(i, j) /\ Precedes(j, k) => Precedes(i, k)
           /\ ~ Ties => \A i, j \in ListRows : Precedes(i, j) <=> Earlier(i, j)
<1>1. /\ \A i \in ListRows : i \in Nat /\ rowTime[i] \in Nat
  BY RowsAreFinite DEF RowTimes
<1>2. CASE list.order = "newest"
  BY <1>1, <1>2 DEF Precedes, Earlier, Ties
<1>3. CASE list.order # "newest"
  BY <1>1, <1>3 DEF Precedes, Earlier, Ties
<1> QED
  BY <1>2, <1>3

Before(S, i) == {j \in S : Precedes(j, i)}

\* The first part of a set of rows: what comes before one of its rows is in it.
FirstPart(T, S) == T \subseteq S /\ \A i \in T, j \in S \ T : Precedes(i, j)

LEMMA PageIsFirst ==
    ASSUME RowTimes, NEW S \in SUBSET ListRows
    PROVE  FirstPart(FirstRows(S), S) /\ (S # {} => FirstRows(S) # {})
<1>1. \A i \in S : Before(S, i) \in SUBSET ListRows
  BY DEF Before
<1>2. FirstRows(S) \subseteq S
  BY DEF FirstRows
<1>3. ASSUME NEW i \in FirstRows(S), NEW j \in S \ FirstRows(S), Precedes(j, i)
      PROVE  FALSE
  <2>1. Before(S, j) \subseteq Before(S, i)
    BY <1>2, <1>3, OrderOfRows DEF Before
  <2>2. Cardinality(Before(S, j)) <= Cardinality(Before(S, i))
    BY <1>1, <1>2, <2>1, RowsAreFinite, FS_Subset
  <2>3. Cardinality(Before(S, i)) < RowsPerPage /\ ~ (Cardinality(Before(S, j)) < RowsPerPage)
    BY <1>3 DEF FirstRows, Before
  <2>4. Cardinality(Before(S, i)) \in Nat /\ Cardinality(Before(S, j)) \in Nat
    BY <1>1, <1>2, RowsAreFinite
  <2> QED
    BY <2>2, <2>3, <2>4, RowsAreFinite
<1>4. FirstPart(FirstRows(S), S)
  BY <1>2, <1>3, OrderOfRows DEF FirstPart
<1>5. ASSUME S # {}
      PROVE  FirstRows(S) # {}
  <2> DEFINE N == {Cardinality(Before(S, i)) : i \in S}
  <2>1. N \subseteq Nat /\ N # {}
    BY <1>1, <1>5, RowsAreFinite
  <2>2. PICK n \in N : \A m \in N : n <= m
    <3> HIDE DEF N
    <3> QED
      BY <2>1, LeastExists
  <2>3. PICK i \in S : n = Cardinality(Before(S, i))
    BY <2>2
  <2>4. ASSUME NEW j \in Before(S, i)
        PROVE  FALSE
    <3>1. j \in S /\ j \in ListRows /\ i \in ListRows /\ Precedes(j, i)
      BY <2>4 DEF Before
    <3>2. Before(S, j) \subseteq Before(S, i) /\ j \notin Before(S, j)
      BY <3>1, OrderOfRows DEF Before
    <3>3. Cardinality(Before(S, j)) < Cardinality(Before(S, i))
      <4>1. Before(S, j) # Before(S, i) /\ IsFiniteSet(Before(S, i))
        BY <1>1, <2>4, <3>2, RowsAreFinite
      <4> QED
        BY <3>2, <4>1, FS_Subset, FS_CardinalityType
    <3>4. n <= Cardinality(Before(S, j))
      BY <2>2, <3>1
    <3>5. n \in Nat /\ Cardinality(Before(S, j)) \in Nat
      BY <1>1, <2>1, <3>1, RowsAreFinite
    <3> QED
      BY <2>3, <3>3, <3>4, <3>5
  <2>5. Before(S, i) = {} /\ Cardinality({}) = 0
    BY <2>4, FS_EmptySet
  <2>6. Cardinality(Before(S, i)) < RowsPerPage
    BY <2>5, RowsAreFinite
  <2> QED
    BY <2>6 DEF FirstRows, Before
<1> QED
  BY <1>4, <1>5

\* Of two first parts with as many rows, neither has a row that the other has not.
LEMMA FirstPartsCoincide ==
    ASSUME RowTimes, NEW S \in SUBSET ListRows, NEW T, NEW U, FirstPart(T, S), FirstPart(U, S),
           Cardinality(T) = Cardinality(U)
    PROVE  T = U
<1>1. T \subseteq U \/ U \subseteq T
  BY OrderOfRows DEF FirstPart
<1>2. IsFiniteSet(T) /\ IsFiniteSet(U)
  BY RowsAreFinite DEF FirstPart
<1>3. \A A, B : IsFiniteSet(B) /\ A \subseteq B /\ Cardinality(A) = Cardinality(B) => A = B
  BY FS_Subset
<1> QED
  BY <1>1, <1>2, <1>3

LEMMA SmallerOfTwo ==
    ASSUME NEW a \in Nat, NEW b \in Nat
    PROVE  Min({a, b}) = IF a <= b THEN a ELSE b
  BY DEF Min

-----------------------------------------------------------------------------
(* Types, and what a page leaves.                                          *)

LEMMA KindsOfLists ==
    ASSUME list \in AllKinds
    PROVE  list.cursor \in {"row", "checked row", "time", "number"}
<1> DEFINE Cursors == {"row", "checked row", "time", "number"}
           HasCursor(k) == k.cursor \in Cursors
<1>1. /\ HasCursor(Followers) /\ HasCursor(FollowingList) /\ HasCursor(SavedPosts) /\ HasCursor(HiddenPosts) /\ HasCursor(Reports)
      /\ HasCursor(PostComments) /\ HasCursor(CommentReplies) /\ HasCursor(UserPosts) /\ HasCursor(UserLikedPosts) /\ HasCursor(HelpMessages)
      /\ HasCursor(AllCircles) /\ HasCursor(AnchorHistory)
  BY DEF Kind, Followers, FollowingList, SavedPosts, HiddenPosts, Reports, PostComments, CommentReplies,
         UserPosts, UserLikedPosts, HelpMessages, AllCircles, AnchorHistory
<1>2. /\ HasCursor(CircleFeed) /\ HasCursor(CirclePostComments) /\ HasCursor(AdminUsers) /\ HasCursor(AdminAnchors) /\ HasCursor(AdminCircles)
      /\ HasCursor(AdminCircleMembers) /\ HasCursor(AdminReports) /\ HasCursor(AdminCircleReports) /\ HasCursor(AdminContacts)
      /\ HasCursor(AdminDonations)
  BY DEF Kind, CircleFeed, CirclePostComments, AdminUsers, AdminAnchors, AdminCircles, AdminCircleMembers,
         AdminReports, AdminCircleReports, AdminContacts, AdminDonations
<1>3. HasCursor(list)
  <2> HIDE DEF HasCursor
  <2> QED
    BY <1>1, <1>2 DEF AllKinds
<1> QED
  BY <1>3

ReaderStates == [pc : {"closed", "open", "read", "failed"}, last : ListRows \union {0}, pages : Nat,
                 shown : [ListRows -> 0 .. 2], owed : SUBSET ListRows, anew : BOOLEAN]

ShownAfter(items) == [i \in ListRows |-> IF i \in items /\ reader.shown[i] < 2 THEN reader.shown[i] + 1 ELSE reader.shown[i]]

LEMMA PageShown ==
    ASSUME ListsTypeOK, NEW items \in SUBSET ListRows, NEW more \in BOOLEAN, ShowsPage(items, more)
    PROVE  /\ reader' \in ReaderStates /\ UNCHANGED <<rowState, rowTime, listChanges, list>>
           /\ reader'.pc = (IF more THEN "open" ELSE "read") /\ reader'.pages = reader.pages + 1
           /\ reader'.shown = ShownAfter(items)
           /\ reader'.owed = (IF reader.pc = "closed" THEN Listed ELSE reader.owed)
           /\ reader'.anew = (reader.anew \/ (reader.pc = "open" /\ list.cursor = "row" /\ ~ FoundRow(reader.last)))
           /\ (items # {} => reader'.last \in items /\ \A j \in items \ {reader'.last} : Precedes(j, reader'.last))
<1>1. PICK last \in IF items = {} THEN {reader.last} ELSE LastOf(items) :
        reader' = [pc |-> IF more THEN "open" ELSE "read", last |-> last, pages |-> reader.pages + 1,
                   shown |-> ShownAfter(items),
                   owed |-> IF reader.pc = "closed" THEN Listed ELSE reader.owed,
                   anew |-> reader.anew \/ (reader.pc = "open" /\ list.cursor = "row" /\ ~ FoundRow(reader.last))]
  BY DEF ShowsPage, ShownAfter
<1>2. reader \in ReaderStates
  BY DEF ListsTypeOK, ReaderStates
<1>3. last \in ListRows \union {0} /\ (items # {} => last \in items /\ \A j \in items \ {last} : Precedes(j, last))
  BY <1>2 DEF LastOf, ReaderStates
<1>4. ShownAfter(items) \in [ListRows -> 0 .. 2]
  BY <1>2 DEF ShownAfter, ReaderStates
<1>5. Listed \subseteq ListRows /\ reader.pages + 1 \in Nat /\ reader.owed \subseteq ListRows /\ reader.anew \in BOOLEAN
  BY <1>2 DEF Listed, ReaderStates
<1>6. UNCHANGED <<rowState, rowTime, listChanges, list>>
  BY DEF ShowsPage
<1>7. reader' \in ReaderStates
  BY <1>1, <1>3, <1>4, <1>5 DEF ReaderStates
<1> QED
  BY <1>1, <1>3, <1>6, <1>7

\* The rows that a request reads from.
Source ==
    IF reader.pc = "closed" THEN Listed
    ELSE IF list.cursor = "time" THEN {j \in Listed : Earlier(reader.last, j)} ELSE AfterRow(reader.last)

LEMMA PagesByRow ==
    ASSUME ListsTypeOK, reader.pc \in {"closed", "open"}, ReadByRow \/ ReadByTime
    PROVE  \E items \in SUBSET ListRows, more \in BOOLEAN :
             /\ ShowsPage(items, more) /\ items \subseteq Source
             /\ (~ more => items = Source) /\ (more => items # {})
             /\ list.cursor \in {"row", "checked row", "time"}
             /\ (list.cursor = "checked row" /\ reader.pc = "open" => FoundRow(reader.last))
             /\ ((list.cursor # "time" \/ ~ Ties) => FirstPart(items, Source))
<1>1. RowTimes /\ Listed \subseteq ListRows /\ Source \subseteq Listed
  BY DEF ListsTypeOK, RowTimes, Listed, Source, AfterRow
<1>2. CASE ReadByRow
  <2>1. /\ ShowsPage(FirstRows(Source), FirstRows(Source) # Source) /\ list.cursor \in {"row", "checked row"}
        /\ (list.cursor = "checked row" /\ reader.pc = "open" => FoundRow(reader.last))
    BY <1>2 DEF ReadByRow, Source
  <2>2. FirstPart(FirstRows(Source), Source) /\ (Source # {} => FirstRows(Source) # {})
    BY <1>1, PageIsFirst
  <2> QED
    BY <1>1, <2>1, <2>2 DEF FirstPart
<1>3. CASE ReadByTime
  <2>1. PICK items \in SUBSET Source :
            /\ Cardinality(items) = Min({RowsPerPage, Cardinality(Source)})
            /\ \A i \in items, j \in Source \ items : ~ Earlier(j, i)
            /\ ShowsPage(items, items # {}) /\ list.cursor = "time"
    BY <1>3 DEF ReadByTime, Source
  <2>2. ASSUME items = {}
        PROVE  Source = {}
    <3>1. Cardinality(items) = 0 /\ Cardinality(Source) \in Nat /\ IsFiniteSet(Source)
      BY <1>1, <2>2, RowsAreFinite, FS_EmptySet
    <3>2. Cardinality(Source) = 0
      BY <2>1, <3>1, RowsAreFinite, SmallerOfTwo
    <3> QED
      BY <3>1, <3>2, FS_EmptySet
  <2>3. ASSUME ~ Ties
        PROVE  FirstPart(items, Source)
    BY <1>1, <2>1, <2>3, OrderOfRows DEF FirstPart
  <2> QED
    BY <1>1, <2>1, <2>2, <2>3
<1> QED
  BY <1>2, <1>3

-----------------------------------------------------------------------------
(* The type invariant.                                                     *)

RowStates == {"none", "listed", "left", "gone"}

LEMMA ListsStart == ListsInit => ListsTypeOK
<1> SUFFICES ASSUME ListsInit PROVE ListsTypeOK
  OBVIOUS
<1>1. NoReader \in ReaderStates
  BY DEF NoReader, ReaderStates
<1> QED
  BY <1>1, RowsAreFinite DEF ListsInit, ListsTypeOK, ReaderStates

LEMMA ChangeTyped ==
    ASSUME ListsTypeOK, NEW i \in ListRows, NEW s \in RowStates, ChangesRow(i, s), reader.pc = "closed" \/ MayChange
    PROVE  ListsTypeOK'
<1>1. reader \in ReaderStates /\ reader' \in ReaderStates
  <2>1. reader \in ReaderStates
    BY DEF ListsTypeOK, ReaderStates
  <2>2. CASE reader' = reader
    BY <2>1, <2>2
  <2>3. CASE reader' = [reader EXCEPT !.owed = @ \ {i}]
    BY <2>1, <2>3 DEF ReaderStates
  <2> QED
    BY <2>1, <2>2, <2>3 DEF ChangesRow
<1>2. listChanges' \in 0 .. MaxListChanges
  <2>1. CASE reader.pc = "open"
    BY <2>1, RowsAreFinite DEF ListsTypeOK, ChangesRow, MayChange
  <2>2. CASE reader.pc # "open"
    BY <2>2, RowsAreFinite DEF ChangesRow
  <2> QED
    BY <2>1, <2>2
<1>3. rowState' \in [ListRows -> RowStates] /\ UNCHANGED <<rowTime, list>>
  BY DEF ListsTypeOK, RowStates, ChangesRow
<1> QED
  BY <1>1, <1>2, <1>3 DEF ListsTypeOK, ReaderStates, RowStates

LEMMA PagesByNumber ==
    ASSUME ListsTypeOK, ReadByNumber
    PROVE  \E before \in SUBSET Listed, items \in SUBSET Listed, more \in BOOLEAN :
             /\ list.cursor = "number"
             /\ before \intersect items = {} /\ more = (Listed # before \union items)
             /\ Cardinality(before) = Min({reader.pages * RowsPerPage, Cardinality(Listed)})
             /\ Cardinality(items) = Min({RowsPerPage, Cardinality(Listed \ before)})
             /\ \A i \in before, j \in Listed \ before : ~ Earlier(j, i)
             /\ \A i \in items, j \in Listed \ (before \union items) : ~ Earlier(j, i)
             /\ ShowsPage(items, more)
  BY DEF ReadByNumber

LEMMA PageTyped ==
    ASSUME ListsTypeOK, NEW items \in SUBSET ListRows, NEW more \in BOOLEAN, ShowsPage(items, more)
    PROVE  ListsTypeOK'
<1>1. reader' \in ReaderStates /\ UNCHANGED <<rowState, rowTime, listChanges, list>>
  BY PageShown
<1> QED
  BY <1>1 DEF ListsTypeOK, ReaderStates

LEMMA ListsStep == ListsTypeOK /\ [ListsNext]_listVars => ListsTypeOK'
<1> SUFFICES ASSUME ListsTypeOK, [ListsNext]_listVars PROVE ListsTypeOK'
  OBVIOUS
<1>1. ASSUME NEW i \in ListRows, Add(i) \/ Leave(i) \/ GoAway(i) \/ ComeBack(i)
      PROVE  ListsTypeOK'
  <2>1. \E s \in RowStates : ChangesRow(i, s) /\ (reader.pc = "closed" \/ MayChange)
    BY <1>1 DEF Add, Leave, GoAway, ComeBack, RowStates
  <2> QED
    BY <2>1, ChangeTyped
<1>2. CASE ReadPage
  <2>1. Listed \subseteq ListRows
    BY DEF Listed
  <2>2. CASE ReadByRow \/ ReadByTime
    BY <1>2, <2>2, PagesByRow, PageTyped DEF ReadPage
  <2>3. CASE ReadByNumber
    BY <2>1, <2>3, PagesByNumber, PageTyped
  <2>4. CASE ReadFails
    <3>1. reader \in ReaderStates
      BY DEF ListsTypeOK, ReaderStates
    <3>2. reader' \in ReaderStates
      BY <2>4, <3>1 DEF ReadFails, ReaderStates
    <3> QED
      BY <2>4, <3>2 DEF ReadFails, ListsTypeOK, ReaderStates
  <2> QED
    BY <1>2, <2>2, <2>3, <2>4 DEF ReadPage
<1>3. CASE UNCHANGED listVars
  BY <1>3 DEF listVars, ListsTypeOK
<1> QED
  BY <1>1, <1>2, <1>3 DEF ListsNext

\* The lists and their reader keep their types, for any rows, times, changes and size of pages.
THEOREM ListsTypeCorrect == ListsSpec => []ListsTypeOK
  BY ListsStart, ListsStep, PTL DEF ListsSpec

-----------------------------------------------------------------------------
(* What a list that names rows, or times of which no two are the same,     *)
(* keeps: what the reader is owed was shown or follows its last row, and,  *)
(* unless it began anew, what was shown does not follow that row.          *)

Keyed == list.cursor \in {"row", "checked row"} \/ (list.cursor = "time" /\ ~ Ties)

ClosedIsNew == reader.pc = "closed" => reader = NoReader
OwedAreListed == reader.owed \subseteq Listed
OwedFollow ==
    reader.pc = "open" =>
        /\ reader.last \in ListRows
        /\ \A i \in reader.owed : reader.shown[i] > 0 \/ Precedes(reader.last, i)
OwedAreShown == reader.pc = "read" => \A i \in reader.owed : reader.shown[i] > 0
NoneShownTwice == ~ reader.anew => \A i \in ListRows : reader.shown[i] <= 1
ShownPrecede ==
    reader.pc = "open" /\ ~ reader.anew =>
        \A i \in ListRows : reader.shown[i] > 0 => i = reader.last \/ Precedes(i, reader.last)

KeyedInv == Keyed => OwedFollow /\ OwedAreShown /\ NoneShownTwice /\ ShownPrecede

\* One that names numbers, while nothing changes: the pages read are the first part of it.
Still == list.cursor = "number" /\ ~ Ties /\ listChanges = 0
ShownRows == {i \in ListRows : reader.shown[i] > 0}

NumberedInv ==
    Still =>
        /\ reader.pc \in {"open", "read"} => reader.owed = Listed
        /\ \A i \in ListRows : reader.shown[i] <= 1
        /\ reader.pc = "open" =>
             /\ FirstPart(ShownRows, Listed)
             /\ Cardinality(ShownRows) = Min({reader.pages * RowsPerPage, Cardinality(Listed)})
        /\ reader.pc = "read" => ShownRows = Listed

ListsInv == ListsTypeOK /\ ClosedIsNew /\ OwedAreListed /\ KeyedInv /\ NumberedInv

LEMMA ListsInvStart == ListsInit => ListsInv
<1> SUFFICES ASSUME ListsInit PROVE ListsInv
  OBVIOUS
<1>1. /\ reader = NoReader /\ reader.pc = "closed" /\ reader.owed = {}
      /\ \A i \in ListRows : reader.shown[i] = 0
  BY DEF ListsInit, NoReader
<1>2. OwedFollow /\ OwedAreShown /\ NoneShownTwice /\ ShownPrecede
  BY <1>1 DEF OwedFollow, OwedAreShown, NoneShownTwice, ShownPrecede
<1>3. NumberedInv
  BY <1>1 DEF NumberedInv
<1> QED
  BY <1>1, <1>2, <1>3, ListsStart DEF ListsInv, ClosedIsNew, OwedAreListed, KeyedInv

\* What others do is not owed any more, and not still.
LEMMA ChangeKeepsLists ==
    ASSUME ListsInv, NEW i \in ListRows, Add(i) \/ Leave(i) \/ GoAway(i) \/ ComeBack(i)
    PROVE  ListsInv'
<1>1. PICK s \in RowStates : ChangesRow(i, s) /\ (reader.pc = "closed" \/ MayChange) /\ (s # "listed" => MayChange)
  BY DEF Add, Leave, GoAway, ComeBack, RowStates
<1>2. ListsTypeOK' /\ reader \in ReaderStates
  BY <1>1, ChangeTyped DEF ListsInv, ListsTypeOK, ReaderStates
<1>3. UNCHANGED <<rowTime, list>> /\ rowState' = [rowState EXCEPT ![i] = s]
  BY <1>1 DEF ChangesRow
<1>4. /\ reader'.pc = reader.pc /\ reader'.last = reader.last /\ reader'.shown = reader.shown
      /\ reader'.anew = reader.anew /\ reader'.owed \subseteq reader.owed
      /\ (s = "listed" => reader' = reader) /\ (s # "listed" => i \notin reader'.owed)
  <2>1. CASE reader' = reader /\ s = "listed"
    BY <2>1
  <2>2. CASE reader' = [reader EXCEPT !.owed = @ \ {i}] /\ s # "listed"
    BY <1>2, <2>2 DEF ReaderStates
  <2> QED
    BY <1>1, <2>1, <2>2 DEF ChangesRow
<1>5. ClosedIsNew'
  <2>1. ASSUME reader'.pc = "closed"
        PROVE  reader' = reader
    BY <1>1, <1>4, <2>1 DEF MayChange
  <2> QED
    BY <1>4, <2>1 DEF ListsInv, ClosedIsNew, NoReader
<1>6. OwedAreListed'
  <2>1. \A j \in Listed \ {i} : j \in Listed'
    BY <1>2, <1>3 DEF Listed, ListsInv, ListsTypeOK
  <2>2. s = "listed" => i \in Listed'
    BY <1>3 DEF Listed, ListsInv, ListsTypeOK
  <2> QED
    BY <1>4, <2>1, <2>2 DEF ListsInv, OwedAreListed
<1>7. KeyedInv'
  <2>1. \A j, k : Precedes(j, k)' <=> Precedes(j, k)
    BY <1>3 DEF Precedes, Earlier
  <2>2. Keyed' <=> Keyed
    BY <1>3 DEF Keyed, Ties
  <2>3. ASSUME Keyed
        PROVE  (OwedFollow /\ OwedAreShown /\ NoneShownTwice /\ ShownPrecede)'
    <3>1. OwedFollow /\ OwedAreShown /\ NoneShownTwice /\ ShownPrecede
      BY <2>3 DEF ListsInv, KeyedInv
    <3> QED
      BY <1>4, <2>1, <3>1 DEF OwedFollow, OwedAreShown, NoneShownTwice, ShownPrecede
  <2> QED
    BY <2>2, <2>3 DEF KeyedInv
<1>8. NumberedInv'
  <2>1. CASE reader.pc = "open"
    <3>1. listChanges' # 0
      BY <1>1, <2>1, RowsAreFinite DEF ListsInv, ListsTypeOK, ChangesRow
    <3> QED
      BY <3>1 DEF NumberedInv, Still
  <2>2. CASE reader.pc # "open"
    <3>1. reader.pc = "closed" /\ reader' = reader
      BY <1>1, <1>4, <2>2 DEF MayChange
    <3>2. reader'.pc = "closed" /\ \A j \in ListRows : reader'.shown[j] = 0
      BY <3>1 DEF ListsInv, ClosedIsNew, NoReader
    <3> QED
      BY <3>2 DEF NumberedInv
  <2> QED
    BY <2>1, <2>2
<1> QED
  BY <1>2, <1>5, <1>6, <1>7, <1>8 DEF ListsInv

LEMMA PageKeepsTheRest ==
    ASSUME ListsInv, reader.pc \in {"closed", "open"}, NEW items \in SUBSET Listed, NEW more \in BOOLEAN,
           ShowsPage(items, more)
    PROVE  ListsTypeOK' /\ ClosedIsNew' /\ OwedAreListed'
<1>1. items \in SUBSET ListRows /\ ListsTypeOK
  BY DEF Listed, ListsInv
<1>2. /\ reader'.pc \in {"open", "read"} /\ rowState' = rowState
      /\ reader'.owed = (IF reader.pc = "closed" THEN Listed ELSE reader.owed)
  BY <1>1, PageShown
<1>3. OwedAreListed'
  BY <1>2 DEF OwedAreListed, ListsInv, Listed
<1> QED
  BY <1>1, <1>2, <1>3, PageTyped DEF ClosedIsNew

\* A page of what follows the last row, or of a list that begins, or begins anew.
LEMMA PageKeepsOrder ==
    ASSUME ListsInv, reader.pc \in {"closed", "open"}, Keyed,
           NEW S \in SUBSET Listed, NEW items, NEW more \in BOOLEAN,
           FirstPart(items, S), ~ more => items = S, more => items # {}, ShowsPage(items, more),
           \/ S = Listed /\ (reader.pc = "closed" \/ reader'.anew)
           \/ reader.pc = "open" /\ S = {j \in Listed : Precedes(reader.last, j)}
    PROVE  (OwedFollow /\ OwedAreShown /\ NoneShownTwice /\ ShownPrecede)'
<1>1. /\ items \in SUBSET ListRows /\ items \subseteq S /\ S \subseteq ListRows /\ ListsTypeOK /\ RowTimes
      /\ OwedFollow /\ OwedAreShown /\ NoneShownTwice /\ ShownPrecede /\ ClosedIsNew /\ OwedAreListed
  BY DEF Listed, FirstPart, ListsInv, KeyedInv, ListsTypeOK, RowTimes
<1>2. /\ reader' \in ReaderStates /\ UNCHANGED <<rowState, rowTime, listChanges, list>>
      /\ reader'.pc = (IF more THEN "open" ELSE "read")
      /\ reader'.shown = ShownAfter(items)
      /\ reader'.owed = (IF reader.pc = "closed" THEN Listed ELSE reader.owed)
      /\ (reader.anew => reader'.anew)
      /\ (items # {} => reader'.last \in items /\ \A j \in items \ {reader'.last} : Precedes(j, reader'.last))
  BY <1>1, PageShown
<1>3. reader \in ReaderStates
  BY <1>1 DEF ListsTypeOK, ReaderStates
<1>4. /\ \A i \in ListRows : ~ Precedes(i, i)
      /\ \A i, j, k \in ListRows : Precedes(i, j) /\ Precedes(j, k) => Precedes(i, k)
  BY <1>1, OrderOfRows
<1>5. \A j, k : Precedes(j, k)' <=> Precedes(j, k)
  BY <1>2 DEF Precedes, Earlier
<1>6. /\ \A i \in ListRows : reader.shown[i] \in 0 .. 2 /\ reader'.shown[i] \in 0 .. 2
      /\ \A i \in items : reader'.shown[i] > 0 /\ (reader.shown[i] = 0 => reader'.shown[i] = 1)
      /\ \A i \in ListRows \ items : reader'.shown[i] = reader.shown[i]
  BY <1>1, <1>2, <1>3 DEF ShownAfter, ReaderStates
<1>7. reader.pc = "closed" => ~ reader.anew /\ \A i \in ListRows : reader.shown[i] = 0
  BY <1>1 DEF ClosedIsNew, NoReader
<1>8. \A i \in reader'.owed : i \in ListRows /\ (reader'.shown[i] > 0 \/ (i \in S /\ i \notin items))
  <2> SUFFICES ASSUME NEW i \in reader'.owed PROVE i \in ListRows /\ (reader'.shown[i] > 0 \/ (i \in S /\ i \notin items))
    OBVIOUS
  <2>1. i \in Listed /\ i \in ListRows
    BY <1>1, <1>2 DEF OwedAreListed, Listed
  <2>2. CASE S = Listed
    BY <1>6, <2>1, <2>2
  <2>3. CASE reader.pc = "open" /\ S = {j \in Listed : Precedes(reader.last, j)}
    <3>1. reader.shown[i] > 0 \/ i \in S
      BY <1>1, <1>2, <2>1, <2>3 DEF OwedFollow
    <3> QED
      BY <1>6, <2>1, <3>1
  <2> QED
    BY <2>2, <2>3
<1>9. OwedFollow'
  <2>1. ASSUME more
        PROVE  /\ reader'.last \in ListRows
               /\ \A i \in reader'.owed : reader'.shown[i] > 0 \/ Precedes(reader'.last, i)
    BY <1>1, <1>2, <1>8, <2>1 DEF FirstPart
  <2> QED
    BY <1>2, <1>5, <2>1 DEF OwedFollow
<1>10. OwedAreShown'
  <2>1. ASSUME ~ more
        PROVE  \A i \in reader'.owed : reader'.shown[i] > 0
    BY <1>8, <2>1
  <2> QED
    BY <1>2, <2>1 DEF OwedAreShown
<1>11. ASSUME ~ reader'.anew, NEW i \in items
       PROVE  reader.shown[i] = 0
  <2>1. CASE reader.pc = "closed"
    BY <1>1, <1>7, <2>1
  <2>2. CASE reader.pc = "open"
    <3>1. Precedes(reader.last, i) /\ reader.last \in ListRows /\ i \in ListRows
      BY <1>1, <1>11, <2>2 DEF OwedFollow
    <3>2. ~ (i = reader.last \/ Precedes(i, reader.last))
      BY <1>4, <3>1
    <3> QED
      BY <1>1, <1>2, <1>6, <1>11, <2>2, <3>1, <3>2 DEF ShownPrecede
  <2> QED
    BY <2>1, <2>2
<1>12. NoneShownTwice'
  <2>1. ASSUME ~ reader'.anew, NEW i \in ListRows
        PROVE  reader'.shown[i] <= 1
    BY <1>1, <1>2, <1>6, <1>11, <2>1 DEF NoneShownTwice
  <2> QED
    BY <2>1 DEF NoneShownTwice
<1>13. ShownPrecede'
  <2>1. ASSUME more, ~ reader'.anew, NEW i \in ListRows, reader'.shown[i] > 0
        PROVE  i = reader'.last \/ Precedes(i, reader'.last)
    <3>1. CASE i \in items
      BY <1>2, <3>1
    <3>2. CASE i \notin items
      <4>1. reader.shown[i] > 0 /\ reader.pc = "open" /\ ~ reader.anew
        BY <1>2, <1>6, <1>7, <2>1, <3>2
      <4>2. i = reader.last \/ Precedes(i, reader.last)
        BY <1>1, <4>1 DEF ShownPrecede
      <4>3. reader'.last \in items /\ reader.last \in ListRows
        BY <1>1, <1>2, <2>1, <4>1 DEF OwedFollow
      <4>4. Precedes(reader.last, reader'.last)
        BY <1>1, <2>1, <4>1, <4>3
      <4> QED
        BY <1>1, <1>4, <4>2, <4>3, <4>4
    <3> QED
      BY <3>1, <3>2
  <2> QED
    BY <1>2, <1>5, <2>1 DEF ShownPrecede
<1> QED
  BY <1>9, <1>10, <1>12, <1>13

LEMMA PageByRowKeepsLists ==
    ASSUME ListsInv, reader.pc \in {"closed", "open"}, ReadByRow \/ ReadByTime
    PROVE  ListsInv'
<1>1. PICK items \in SUBSET ListRows, more \in BOOLEAN :
             /\ ShowsPage(items, more) /\ items \subseteq Source
             /\ (~ more => items = Source) /\ (more => items # {})
             /\ list.cursor \in {"row", "checked row", "time"}
             /\ (list.cursor = "checked row" /\ reader.pc = "open" => FoundRow(reader.last))
             /\ ((list.cursor # "time" \/ ~ Ties) => FirstPart(items, Source))
  BY PagesByRow DEF ListsInv
<1>2. Source \subseteq Listed /\ ListsTypeOK /\ RowTimes /\ Listed \subseteq ListRows
  BY DEF Source, AfterRow, ListsInv, ListsTypeOK, RowTimes, Listed
<1>3. UNCHANGED <<rowTime, list>>
  BY <1>1, <1>2, PageShown
<1>4. KeyedInv'
  <2>1. Keyed' <=> Keyed
    BY <1>3 DEF Keyed, Ties
  <2>2. ASSUME Keyed
        PROVE  (OwedFollow /\ OwedAreShown /\ NoneShownTwice /\ ShownPrecede)'
    <3>1. FirstPart(items, Source)
      BY <1>1, <2>2 DEF Keyed
    <3>2. \/ Source = Listed /\ (reader.pc = "closed" \/ reader'.anew)
          \/ reader.pc = "open" /\ Source = {j \in Listed : Precedes(reader.last, j)}
      <4>1. CASE reader.pc = "closed"
        BY <4>1 DEF Source
      <4>2. CASE reader.pc = "open" /\ list.cursor = "time"
        <5>1. reader.last \in ListRows /\ ~ Ties
          BY <2>2, <4>2 DEF ListsInv, KeyedInv, OwedFollow, Keyed
        <5>2. \A j \in Listed : Precedes(reader.last, j) <=> Earlier(reader.last, j)
          BY <1>2, <5>1, OrderOfRows
        <5> QED
          BY <4>2, <5>2 DEF Source
      <4>3. CASE reader.pc = "open" /\ list.cursor # "time" /\ FoundRow(reader.last)
        BY <4>3 DEF Source, AfterRow
      <4>4. CASE reader.pc = "open" /\ list.cursor # "time" /\ ~ FoundRow(reader.last)
        <5>1. list.cursor = "row" /\ Source = Listed
          BY <1>1, <4>4 DEF Source, AfterRow
        <5>2. reader'.anew
          BY <1>1, <1>2, <4>4, <5>1, PageShown
        <5> QED
          BY <5>1, <5>2
      <4> QED
        BY <4>1, <4>2, <4>3, <4>4
    <3> QED
      BY <1>1, <1>2, <2>2, <3>1, <3>2, PageKeepsOrder
  <2> QED
    BY <2>1, <2>2 DEF KeyedInv
<1>5. NumberedInv'
  BY <1>1, <1>3 DEF NumberedInv, Still
<1> QED
  BY <1>1, <1>2, <1>4, <1>5, PageKeepsTheRest DEF ListsInv

\* By numbers, while nothing changes, a page goes on where the last one ended.
LEMMA PageGoesOn ==
    ASSUME ListsInv, Still, reader.pc \in {"closed", "open"},
           NEW before \in SUBSET Listed, NEW items \in SUBSET Listed,
           before \intersect items = {},
           Cardinality(before) = Min({reader.pages * RowsPerPage, Cardinality(Listed)}),
           Cardinality(items) = Min({RowsPerPage, Cardinality(Listed \ before)}),
           \A i \in before, j \in Listed \ before : ~ Earlier(j, i),
           \A i \in items, j \in Listed \ (before \union items) : ~ Earlier(j, i)
    PROVE  /\ before = ShownRows /\ FirstPart(before \union items, Listed)
           /\ Cardinality(before \union items) = Min({(reader.pages + 1) * RowsPerPage, Cardinality(Listed)})
<1>1. Listed \in SUBSET ListRows /\ RowTimes /\ ListsTypeOK /\ NumberedInv /\ ClosedIsNew /\ reader.pages \in Nat /\ ~ Ties
  BY DEF Listed, ListsInv, ListsTypeOK, RowTimes, Still
<1>2. FirstPart(before, Listed)
  BY <1>1, OrderOfRows DEF FirstPart
<1>3. FirstPart(before \union items, Listed)
  <2>1. \A i \in items, j \in Listed \ (before \union items) : Precedes(i, j)
    BY <1>1, OrderOfRows
  <2> QED
    BY <1>2, <2>1 DEF FirstPart
<1>4. FirstPart(ShownRows, Listed) /\ Cardinality(ShownRows) = Cardinality(before)
  <2>1. CASE reader.pc = "open"
    BY <1>1, <2>1 DEF NumberedInv
  <2>2. CASE reader.pc = "closed"
    <3>1. ShownRows = {} /\ reader.pages = 0
      BY <1>1, <2>2 DEF ClosedIsNew, NoReader, ShownRows
    <3>2. Cardinality(ShownRows) = 0
      BY <3>1, FS_EmptySet
    <3>3. Cardinality(Listed) \in Nat /\ reader.pages * RowsPerPage = 0
      BY <1>1, <3>1, RowsAreFinite
    <3>4. Cardinality(before) = 0
      BY <3>3, SmallerOfTwo
    <3> QED
      BY <3>1, <3>2, <3>4 DEF FirstPart
  <2> QED
    BY <2>1, <2>2
<1>5. before = ShownRows
  BY <1>1, <1>2, <1>4, FirstPartsCoincide
<1>6. Cardinality(before \union items) = Min({(reader.pages + 1) * RowsPerPage, Cardinality(Listed)})
  <2> DEFINE n == Cardinality(Listed)
             b == Cardinality(before)
             k == Cardinality(items)
             p == reader.pages * RowsPerPage
  <2>1. IsFiniteSet(Listed) /\ IsFiniteSet(before) /\ IsFiniteSet(items) /\ n \in Nat /\ b \in Nat /\ k \in Nat
    BY <1>1, RowsAreFinite
  <2>2. Cardinality(Listed \ before) = n - b
    <3>1. Listed \intersect before = before
      OBVIOUS
    <3>2. Cardinality(Listed \ before) = Cardinality(Listed) - Cardinality(Listed \intersect before)
      BY <2>1, FS_Difference
    <3> QED
      BY <3>1, <3>2
  <2>3. Cardinality(before \union items) = b + k
    <3>1. Cardinality(before \intersect items) = 0
      BY FS_EmptySet
    <3>2. Cardinality(before \union items) = b + k - Cardinality(before \intersect items)
      BY <2>1, FS_Union
    <3> QED
      BY <2>1, <3>1, <3>2
  <2>4. b <= n
    BY <2>1, FS_Subset
  <2>5. p \in Nat /\ RowsPerPage \in Nat /\ (reader.pages + 1) * RowsPerPage = p + RowsPerPage
    BY <1>1, RowsAreFinite
  <2>6. n - b \in Nat
    BY <2>1, <2>4
  <2>7. b = (IF p <= n THEN p ELSE n) /\ k = (IF RowsPerPage <= n - b THEN RowsPerPage ELSE n - b)
    BY <2>1, <2>2, <2>5, <2>6, SmallerOfTwo
  <2>8. Min({p + RowsPerPage, n}) = (IF p + RowsPerPage <= n THEN p + RowsPerPage ELSE n)
    BY <2>1, <2>5, SmallerOfTwo
  <2>9. b + k = (IF p + RowsPerPage <= n THEN p + RowsPerPage ELSE n)
    <3> HIDE DEF n, b, k, p
    <3> QED
      BY <2>1, <2>5, <2>7
  <2> QED
    BY <2>3, <2>5, <2>8, <2>9
<1> QED
  BY <1>3, <1>5, <1>6

LEMMA PageByNumberKeepsLists ==
    ASSUME ListsInv, reader.pc \in {"closed", "open"}, ReadByNumber
    PROVE  ListsInv'
<1>1. PICK before \in SUBSET Listed, items \in SUBSET Listed, more \in BOOLEAN :
             /\ list.cursor = "number"
             /\ before \intersect items = {} /\ more = (Listed # before \union items)
             /\ Cardinality(before) = Min({reader.pages * RowsPerPage, Cardinality(Listed)})
             /\ Cardinality(items) = Min({RowsPerPage, Cardinality(Listed \ before)})
             /\ \A i \in before, j \in Listed \ before : ~ Earlier(j, i)
             /\ \A i \in items, j \in Listed \ (before \union items) : ~ Earlier(j, i)
             /\ ShowsPage(items, more)
  BY PagesByNumber DEF ListsInv
<1>2. Listed \subseteq ListRows /\ items \in SUBSET ListRows /\ ListsTypeOK /\ ClosedIsNew /\ NumberedInv /\ reader \in ReaderStates
  BY DEF Listed, ListsInv, ListsTypeOK, ReaderStates
<1>3. /\ reader' \in ReaderStates /\ UNCHANGED <<rowState, rowTime, listChanges, list>>
      /\ reader'.pc = (IF more THEN "open" ELSE "read") /\ reader'.pages = reader.pages + 1
      /\ reader'.shown = ShownAfter(items)
      /\ reader'.owed = (IF reader.pc = "closed" THEN Listed ELSE reader.owed)
  BY <1>1, <1>2, PageShown
<1>4. KeyedInv'
  BY <1>1, <1>3 DEF KeyedInv, Keyed
<1>5. NumberedInv'
  <2>1. (Still' <=> Still) /\ Listed' = Listed
    BY <1>3 DEF Still, Ties, Listed
  <2>2. ASSUME Still
        PROVE  /\ (reader'.pc \in {"open", "read"} => reader'.owed = Listed)
               /\ (\A i \in ListRows : reader'.shown[i] <= 1)
               /\ (reader'.pc = "open" =>
                    /\ FirstPart(ShownRows', Listed)
                    /\ Cardinality(ShownRows') = Min({reader'.pages * RowsPerPage, Cardinality(Listed)}))
               /\ (reader'.pc = "read" => ShownRows' = Listed)
    <3>1. /\ before = ShownRows /\ FirstPart(before \union items, Listed)
          /\ Cardinality(before \union items) = Min({(reader.pages + 1) * RowsPerPage, Cardinality(Listed)})
      BY <1>1, <2>2, PageGoesOn
    <3>2. \A i \in ListRows : reader.shown[i] \in 0 .. 1
      BY <1>2, <2>2 DEF NumberedInv, ClosedIsNew, NoReader, ReaderStates
    <3>3. \A i \in items : reader.shown[i] = 0 /\ i \in ListRows
      BY <1>1, <1>2, <3>1, <3>2 DEF ShownRows
    <3>4. \A i \in ListRows : reader'.shown[i] = (IF i \in items THEN 1 ELSE reader.shown[i])
      BY <1>3, <3>2, <3>3 DEF ShownAfter
    <3>5. ShownRows' = before \union items
      BY <1>2, <3>1, <3>2, <3>4 DEF ShownRows
    <3>6. reader'.owed = Listed
      BY <1>2, <1>3, <2>2 DEF NumberedInv
    <3>7. reader'.pc = "read" => before \union items = Listed
      BY <1>1, <1>3
    <3> QED
      BY <1>3, <3>1, <3>2, <3>4, <3>5, <3>6, <3>7
  <2>3. (FirstPart(ShownRows, Listed))' <=> FirstPart(ShownRows', Listed')
    BY <1>3 DEF FirstPart, Precedes, Earlier
  <2> QED
    BY <2>1, <2>2, <2>3 DEF NumberedInv
<1> QED
  BY <1>1, <1>4, <1>5, PageKeepsTheRest DEF ListsInv

LEMMA ListsInvStep == ListsInv /\ [ListsNext]_listVars => ListsInv'
<1> SUFFICES ASSUME ListsInv, [ListsNext]_listVars PROVE ListsInv'
  OBVIOUS
<1>1. ASSUME NEW i \in ListRows, Add(i) \/ Leave(i) \/ GoAway(i) \/ ComeBack(i)
      PROVE  ListsInv'
  BY <1>1, ChangeKeepsLists
<1>2. CASE ReadPage
  <2>1. CASE ReadFails
    <3>1. ListsTypeOK'
      BY <1>2, ListsStep DEF ListsInv, ListsNext
    <3>2. reader \in ReaderStates
      BY DEF ListsInv, ListsTypeOK, ReaderStates
    <3>3. /\ reader'.pc = "failed" /\ reader'.owed = reader.owed /\ reader'.shown = reader.shown
          /\ reader'.anew = reader.anew /\ UNCHANGED <<rowState, rowTime, listChanges, list>>
          /\ list.cursor = "checked row"
      BY <2>1, <3>2 DEF ReadFails, ReaderStates
    <3>4. OwedAreListed'
      BY <3>3 DEF ListsInv, OwedAreListed, Listed
    <3>5. KeyedInv'
      <4>1. NoneShownTwice
        BY <3>3 DEF ListsInv, KeyedInv, Keyed
      <4>2. NoneShownTwice'
        BY <3>3, <4>1 DEF NoneShownTwice
      <4> QED
        BY <3>3, <4>2 DEF KeyedInv, OwedFollow, OwedAreShown, ShownPrecede
    <3>6. NumberedInv'
      BY <3>3 DEF NumberedInv, Still
    <3> QED
      BY <3>1, <3>3, <3>4, <3>5, <3>6 DEF ListsInv, ClosedIsNew
  <2> QED
    BY <1>2, <2>1, PageByRowKeepsLists, PageByNumberKeepsLists DEF ReadPage
<1>3. CASE UNCHANGED listVars
  <2>1. UNCHANGED <<rowState, rowTime, reader, listChanges, list>>
    BY <1>3 DEF listVars
  <2>2. (ListsTypeOK' <=> ListsTypeOK) /\ (ClosedIsNew' <=> ClosedIsNew) /\ (OwedAreListed' <=> OwedAreListed)
    BY <2>1 DEF ListsTypeOK, ClosedIsNew, OwedAreListed, Listed
  <2>3. KeyedInv' <=> KeyedInv
    BY <2>1 DEF KeyedInv, Keyed, Ties, OwedFollow, OwedAreShown, NoneShownTwice, ShownPrecede, Precedes, Earlier
  <2>4. NumberedInv' <=> NumberedInv
    BY <2>1 DEF NumberedInv, Still, Ties, ShownRows, Listed, FirstPart, Precedes, Earlier
  <2> QED
    BY <2>2, <2>3, <2>4 DEF ListsInv
<1> QED
  BY <1>1, <1>2, <1>3 DEF ListsNext

\* Lists, in selectors and services: who reads page by page to the end, with however many
\* rows on a page and whatever others add and take away meanwhile, has seen every row that
\* was listed all the time, and none twice unless the list began anew.
THEOREM ListsAreExact == ListsSpec => []PagesAreExact
<1>1. ListsInv => PagesAreExact
  <2> SUFFICES ASSUME ListsInv, Keeps PROVE PagesAreExact
    BY DEF PagesAreExact
  <2>1. list.cursor \in {"row", "checked row", "time", "number"}
    BY KindsOfLists DEF ListsInv, ListsTypeOK
  <2>2. Keyed \/ Still
    BY <2>1 DEF Keeps, Keyed, Still
  <2>3. CASE Keyed
    BY <2>3 DEF ListsInv, KeyedInv, OwedAreShown, NoneShownTwice, PagesAreExact
  <2>4. CASE Still
    BY <2>4 DEF ListsInv, NumberedInv, ShownRows, PagesAreExact, Listed
  <2> QED
    BY <2>2, <2>3, <2>4
<1> QED
  BY <1>1, ListsInvStart, ListsInvStep, PTL DEF ListsSpec

-----------------------------------------------------------------------------
(***************************************************************************)
(* The content of circles.  What makes it inductive: a report or a review  *)
(* that is fresh, that is, on whose target nobody committed since it read, *)
(* still knows what it read: whether the target is shown, and whether one  *)
(* report more hides it; the rows of what a user has hidden are the newest;*)
(* and a review holds a report that no other review resolves.              *)
(***************************************************************************)

CirclesTyped ==
    /\ circle \in [Circles -> [state : {"absent", "active", "inactive", "deleted"}, name : SUBSET Names]]
    /\ member \subseteq CircleUsers \X Circles /\ ruleSets \in Nat
    /\ creation \in [CircleAdmins -> [pc : {"rest", "adding", "added"}, name : SUBSET Names, rules : BOOLEAN]]

ContentStates == [state : {"missing", "live", "deleted"}, author : SUBSET CircleUsers,
                  by : {"nobody", "author", "reports", "review", "teardown"}]
Complaints == {"none", "pending", "resolved"}
ReportsUnderWay == [pc : {"idle", "reporting"}, target : SUBSET ContentTargets, hides : BOOLEAN, fresh : BOOLEAN]
ReviewsUnderWay == [pc : {"idle", "keep", "remove"}, on : SUBSET (CircleUsers \X ContentTargets),
                    acts : BOOLEAN, fresh : BOOLEAN]

RowsTyped ==
    /\ content \in [ContentTargets -> ContentStates]
    /\ comments \in [CirclePosts -> Nat] /\ counted \in [ContentTargets -> Nat]
    /\ marks \subseteq CircleUsers \X ContentTargets
    /\ complaint \in [CircleUsers -> [ContentTargets -> Complaints]]
    /\ erased \subseteq CircleUsers

TransactionsTyped ==
    /\ reporting \in [CircleUsers -> ReportsUnderWay] /\ reviewing \in [CircleAdmins -> ReviewsUnderWay]
    /\ raced \subseteq ContentTargets /\ restored \subseteq ContentTargets /\ extent \in Extents

ContentTyped == CirclesTyped /\ RowsTyped /\ TransactionsTyped

\* What a user has hidden, and what reviews decided, have invariants of their own.
HiddenRowsTyped ==
    /\ hiddenRows \in [CircleUsers -> Seq(ContentTargets)]
    /\ since \in [CircleUsers -> [ContentTargets -> SUBSET ContentTargets]]
DecidedTyped == decided \in [ContentTargets -> {"nothing", "keep", "remove"}]

LEMMA PartsOfContentTypes ==
    /\ ContentTyped <=> CirclesTyped /\ RowsTyped /\ TransactionsTyped
    /\ ContentTyped' <=> CirclesTyped' /\ RowsTyped' /\ TransactionsTyped'
  BY DEF ContentTyped

LEMMA ContentTypesFollow == ContentTyped /\ HiddenRowsTyped /\ DecidedTyped => ContentTypeOK
  BY DEF ContentTyped, HiddenRowsTyped, DecidedTyped, ContentTypeOK, CirclesTyped, RowsTyped, TransactionsTyped, ContentStates,
         Complaints, ReportsUnderWay, ReviewsUnderWay

LEMMA UsersAndCommentsAreFinite ==
    /\ \A S \in SUBSET CircleUsers : IsFiniteSet(S) /\ Cardinality(S) \in Nat
    /\ \A S \in SUBSET CircleComments : IsFiniteSet(S) /\ Cardinality(S) \in Nat
    /\ \A S \in SUBSET CircleUsers : \A T \in SUBSET S : Cardinality(T) <= Cardinality(S)
    /\ HidesAt \in Nat \ {0}
<1>1. \A S \in SUBSET CircleUsers : IsFiniteSet(S) /\ Cardinality(S) \in Nat
  BY ContentAssumption, FS_Subset, FS_CardinalityType
<1>2. \A S \in SUBSET CircleComments : IsFiniteSet(S) /\ Cardinality(S) \in Nat
  BY ContentAssumption, FS_Subset, FS_CardinalityType
<1>3. \A S \in SUBSET CircleUsers : \A T \in SUBSET S : Cardinality(T) <= Cardinality(S)
  BY <1>1, FS_Subset
<1> QED
  BY <1>1, <1>2, <1>3, ContentAssumption

-----------------------------------------------------------------------------
(* The invariant.                                                          *)

NotMissing(t) == content[t].state # "missing"
HasOneAuthor == \A t \in ContentTargets : content[t].author = {} \/ \E u \in CircleUsers : content[t].author = {u}
MissingIsUnreported == \A t \in ContentTargets : NotMissing(t) \/ \A u \in CircleUsers : complaint[u][t] = "none"
ReportsAreOfOne ==
    \A u \in CircleUsers : reporting[u].pc = "reporting" =>
        \E t \in ContentTargets : reporting[u].target = {t} /\ NotMissing(t)
ReviewsAreOfContent == \A a \in CircleAdmins : \A r \in reviewing[a].on : NotMissing(r[2])

\* No mark is counted less than once.
MarkersOf(t) == {u \in CircleUsers : <<u, t>> \in marks}
MarksAreCounted == \A t \in ContentTargets : Cardinality(MarkersOf(t)) <= counted[t]

\* What is shown has fewer pending reports than hide it, unless it was raced.
PendingAreFew == \A t \in ContentTargets : IsLive(t) /\ t \notin raced => Cardinality(Pending(t)) < HidesAt

ReportsFreshly(u, t) == reporting[u].pc = "reporting" /\ reporting[u].fresh /\ reporting[u].target = {t}
FreshReportsHide ==
    \A u \in CircleUsers, t \in ContentTargets :
        ReportsFreshly(u, t) /\ Cardinality(Pending(t) \union {u}) >= HidesAt => reporting[u].hides

\* What a torn down user wrote is shown only if it was put back.
ErasedAreHidden == \A t \in ContentTargets : IsLive(t) /\ content[t].author \intersect erased # {} => t \in restored

\* While nothing was raced and nobody torn down.
Calm == erased = {} /\ raced = {}
CountsAreExact == \A p \in CirclePosts : comments[p] = Cardinality(LiveComments(p))
FreshReportsKnow == \A u \in CircleUsers, t \in ContentTargets : ReportsFreshly(u, t) => IsLive(t)
FreshReviewsKnow ==
    \A a \in CircleAdmins : reviewing[a].fresh =>
        \A r \in reviewing[a].on :
            /\ reviewing[a].pc = "keep" => (reviewing[a].acts <=> Deleted(r[2]))
            /\ reviewing[a].pc = "remove" => (reviewing[a].acts <=> IsLive(r[2]))
CalmInv == Calm => CountsAreExact /\ FreshReportsKnow /\ FreshReviewsKnow

ContentInv ==
    /\ ContentTyped /\ HasOneAuthor /\ MissingIsUnreported /\ ReportsAreOfOne /\ ReviewsAreOfContent
    /\ MarksAreCounted /\ PendingAreFew /\ FreshReportsHide /\ ErasedAreHidden /\ CalmInv

LEMMA ContentStart == ContentInit => ContentInv
<1> SUFFICES ASSUME ContentInit PROVE ContentInv
  OBVIOUS
<1>1. Cardinality({}) = 0
  BY FS_EmptySet
<1>2. CirclesTyped
  <2>1. (CHOOSE n \in Names : TRUE) \in Names
    BY ContentAssumption
  <2> QED
    BY <2>1 DEF ContentInit, CirclesTyped, CircleRow, NoCircle, Resting
<1>3. RowsTyped
  BY DEF ContentInit, RowsTyped, ContentStates, Complaints, Missing
<1>4. TransactionsTyped
  <2>1. NoReporting \in ReportsUnderWay /\ NoReview \in ReviewsUnderWay
    BY DEF NoReporting, NoReview, ReportsUnderWay, ReviewsUnderWay
  <2> QED
    BY <2>1 DEF ContentInit, TransactionsTyped
<1>5. \A t \in ContentTargets : content[t] = Missing /\ ~ NotMissing(t) /\ ~ IsLive(t) /\ content[t].author = {}
  BY DEF ContentInit, Missing, IsLive, NotMissing
<1>6. /\ \A u \in CircleUsers : reporting[u] = NoReporting /\ reporting[u].pc = "idle"
      /\ \A a \in CircleAdmins : reviewing[a].on = {}
  BY DEF ContentInit, NoReporting, NoReview
<1>7. HasOneAuthor /\ MissingIsUnreported /\ ReportsAreOfOne /\ ReviewsAreOfContent
  BY <1>5, <1>6 DEF HasOneAuthor, MissingIsUnreported, ReportsAreOfOne, ReviewsAreOfContent, ContentInit
<1>8. MarksAreCounted
  <2>1. \A t \in ContentTargets : MarkersOf(t) = {} /\ counted[t] = 0
    BY DEF ContentInit, MarkersOf
  <2> QED
    BY <1>1, <2>1 DEF MarksAreCounted
<1>9. PendingAreFew /\ FreshReportsHide /\ ErasedAreHidden
  BY <1>5, <1>6 DEF PendingAreFew, FreshReportsHide, ReportsFreshly, ErasedAreHidden
<1>10. CalmInv
  <2>1. \A p \in CirclePosts : LiveComments(p) = {} /\ comments[p] = 0
    BY <1>5 DEF LiveComments, ContentInit, ContentTargets
  <2> QED
    BY <1>1, <1>6, <2>1 DEF CalmInv, CountsAreExact, FreshReportsKnow, FreshReviewsKnow, ReportsFreshly
<1> QED
  BY <1>2, <1>3, <1>4, <1>7, <1>8, <1>9, <1>10, PartsOfContentTypes DEF ContentInv

-----------------------------------------------------------------------------
(* Counts.                                                                 *)

LEMMA ContentOfOne ==
    ASSUME RowsTyped, NEW t \in ContentTargets, NEW r, content' = [content EXCEPT ![t] = r]
    PROVE  content'[t] = r /\ \A s \in ContentTargets \ {t} : content'[s] = content[s]
  BY DEF RowsTyped

\* One comment more, or one less, changes the number of its post's comments alone.
LEMMA LiveCommentsFollow ==
    ASSUME RowsTyped, NEW t \in ContentTargets, NEW r \in ContentStates, content' = [content EXCEPT ![t] = r],
           NEW p \in CirclePosts
    PROVE  /\ (IF t \in CircleComments /\ CommentedPost[t] = p
               THEN IF r.state = "live" THEN LiveComments(p)' = LiveComments(p) \union {t}
                    ELSE LiveComments(p)' = LiveComments(p) \ {t}
               ELSE LiveComments(p)' = LiveComments(p))
           /\ (t \in LiveComments(p) <=> t \in CircleComments /\ CommentedPost[t] = p /\ IsLive(t))
           /\ IsFiniteSet(LiveComments(p)) /\ Cardinality(LiveComments(p)) \in Nat
<1>1. content'[t] = r /\ \A s \in ContentTargets \ {t} : content'[s] = content[s]
  BY ContentOfOne
<1>2. CircleComments \subseteq ContentTargets /\ LiveComments(p) \subseteq CircleComments
  BY DEF ContentTargets, LiveComments
<1>3. \A c \in CircleComments : IsLive(c)' <=> (IF c = t THEN r.state = "live" ELSE IsLive(c))
  BY <1>1, <1>2 DEF IsLive
<1>4. LiveComments(p)' = {c \in CircleComments : CommentedPost[c] = p /\ IsLive(c)'}
  BY DEF LiveComments
<1> QED
  BY <1>2, <1>3, <1>4, UsersAndCommentsAreFinite DEF LiveComments

LEMMA CountsGoUp ==
    ASSUME RowsTyped, CountsAreExact, NEW t \in ContentTargets, ~ IsLive(t), NEW r \in ContentStates, r.state = "live",
           content' = [content EXCEPT ![t] = r], comments' = CountUp(t)
    PROVE  CountsAreExact'
<1> SUFFICES ASSUME NEW p \in CirclePosts PROVE comments'[p] = Cardinality(LiveComments(p)')
  BY DEF CountsAreExact
<1>1. comments[p] = Cardinality(LiveComments(p)) /\ comments \in [CirclePosts -> Nat]
  BY DEF CountsAreExact, RowsTyped
<1>2. IsFiniteSet(LiveComments(p)) /\ Cardinality(LiveComments(p)) \in Nat /\ t \notin LiveComments(p)
  BY LiveCommentsFollow
<1>3. CASE t \in CircleComments /\ CommentedPost[t] = p
  <2>1. LiveComments(p)' = LiveComments(p) \union {t}
    BY <1>3, LiveCommentsFollow
  <2>2. Cardinality(LiveComments(p) \union {t}) = Cardinality(LiveComments(p)) + 1
    BY <1>2, FS_AddElement
  <2>3. comments'[p] = comments[p] + 1
    BY <1>1, <1>3 DEF CountUp
  <2> QED
    BY <1>1, <2>1, <2>2, <2>3
<1>4. CASE ~ (t \in CircleComments /\ CommentedPost[t] = p)
  <2>1. LiveComments(p)' = LiveComments(p)
    BY <1>4, LiveCommentsFollow
  <2>2. comments'[p] = comments[p]
    BY <1>1, <1>4 DEF CountUp
  <2> QED
    BY <1>1, <2>1, <2>2
<1> QED
  BY <1>3, <1>4

LEMMA CountsGoDown ==
    ASSUME RowsTyped, CountsAreExact, NEW t \in ContentTargets, IsLive(t), NEW r \in ContentStates, r.state # "live",
           content' = [content EXCEPT ![t] = r], comments' = CountDown(t)
    PROVE  CountsAreExact'
<1> SUFFICES ASSUME NEW p \in CirclePosts PROVE comments'[p] = Cardinality(LiveComments(p)')
  BY DEF CountsAreExact
<1>1. comments[p] = Cardinality(LiveComments(p)) /\ comments \in [CirclePosts -> Nat]
  BY DEF CountsAreExact, RowsTyped
<1>2. IsFiniteSet(LiveComments(p)) /\ Cardinality(LiveComments(p)) \in Nat
  BY LiveCommentsFollow
<1>3. CASE t \in CircleComments /\ CommentedPost[t] = p
  <2>1. LiveComments(p)' = LiveComments(p) \ {t} /\ t \in LiveComments(p)
    BY <1>3, LiveCommentsFollow
  <2>2. Cardinality(LiveComments(p) \ {t}) = Cardinality(LiveComments(p)) - 1
    BY <1>2, <2>1, FS_RemoveElement
  <2>3. Cardinality(LiveComments(p)) # 0
    BY <1>2, <2>1, FS_EmptySet
  <2>4. comments'[p] = comments[p] - 1
    BY <1>1, <1>2, <1>3, <2>3 DEF CountDown
  <2> QED
    BY <1>1, <2>1, <2>2, <2>4
<1>4. CASE ~ (t \in CircleComments /\ CommentedPost[t] = p)
  <2>1. LiveComments(p)' = LiveComments(p)
    BY <1>4, LiveCommentsFollow
  <2>2. comments'[p] = comments[p]
    BY <1>1, <1>4 DEF CountDown
  <2> QED
    BY <1>1, <2>1, <2>2
<1> QED
  BY <1>3, <1>4

LEMMA CountsTyped ==
    ASSUME RowsTyped, NEW t \in ContentTargets
    PROVE  CountUp(t) \in [CirclePosts -> Nat] /\ CountDown(t) \in [CirclePosts -> Nat]
  BY ContentAssumption DEF RowsTyped, CountUp, CountDown

-----------------------------------------------------------------------------
(* Content that is added, marks, and what only begins.                     *)

\* A row that is added.
AddsRow(u, t) ==
    /\ content[t] = Missing /\ WritesRow(t, "live", u) /\ comments' = CountUp(t)
    /\ UNCHANGED <<circleVars, marks, counted, complaint, erased, transactions>>

LEMMA AddingKeepsContent ==
    ASSUME ContentInv, NEW u \in CircleUsers \ erased, NEW t \in ContentTargets, AddsRow(u, t)
    PROVE  ContentInv'
<1> DEFINE r == [state |-> "live", author |-> {u}, by |-> "nobody"]
<1>1. /\ RowsTyped /\ CirclesTyped /\ TransactionsTyped
      /\ UNCHANGED <<circle, member, ruleSets, creation, marks, counted, complaint, erased, reporting, reviewing,
                     raced, restored, extent>>
      /\ content' = [content EXCEPT ![t] = r] /\ r \in ContentStates /\ comments' = CountUp(t)
  BY PartsOfContentTypes DEF ContentInv, AddsRow, WritesRow, circleVars, transactions, ContentStates
<1>2. content'[t] = r /\ \A s \in ContentTargets \ {t} : content'[s] = content[s]
  BY <1>1, ContentOfOne
<1>3. ~ NotMissing(t) /\ ~ IsLive(t) /\ NotMissing(t)' /\ IsLive(t)'
  BY <1>2 DEF AddsRow, Missing, NotMissing, IsLive
<1>4. ContentTyped'
  <2>1. CirclesTyped' /\ TransactionsTyped'
    BY <1>1 DEF CirclesTyped, TransactionsTyped
  <2>2. RowsTyped'
    BY <1>1, CountsTyped DEF RowsTyped
  <2> QED
    BY <2>1, <2>2, PartsOfContentTypes
<1>5. \A s \in ContentTargets : (NotMissing(s) => NotMissing(s)') /\ (s # t => (IsLive(s)' <=> IsLive(s)) /\ (Deleted(s)' <=> Deleted(s)))
  BY <1>2, <1>3 DEF NotMissing, IsLive, Deleted
<1>6. HasOneAuthor'
  BY <1>2 DEF ContentInv, HasOneAuthor
<1>7. MissingIsUnreported' /\ ReportsAreOfOne' /\ ReviewsAreOfContent'
  <2>1. MissingIsUnreported'
    BY <1>1, <1>5 DEF ContentInv, MissingIsUnreported
  <2>2. ReportsAreOfOne'
    BY <1>1, <1>5 DEF ContentInv, ReportsAreOfOne
  <2>3. ReviewsAreOfContent'
    BY <1>1, <1>5 DEF ContentInv, ReviewsAreOfContent, TransactionsTyped, ReviewsUnderWay
  <2> QED
    BY <2>1, <2>2, <2>3
<1>8. MarksAreCounted'
  BY <1>1 DEF ContentInv, MarksAreCounted, MarkersOf
<1>9. PendingAreFew'
  <2>1. \A s \in ContentTargets : Pending(s)' = Pending(s)
    BY <1>1 DEF Pending
  <2>2. Pending(t) = {}
    BY <1>3 DEF Pending, ContentInv, MissingIsUnreported
  <2>3. Cardinality(Pending(t)) = 0
    BY <2>2, FS_EmptySet
  <2>4. Cardinality(Pending(t)) < HidesAt
    BY <2>3, UsersAndCommentsAreFinite
  <2> QED
    BY <1>1, <1>5, <2>1, <2>4 DEF ContentInv, PendingAreFew
<1>10. FreshReportsHide'
  BY <1>1 DEF ContentInv, FreshReportsHide, ReportsFreshly, Pending
<1>11. ErasedAreHidden'
  <2>1. content'[t].author \intersect erased = {}
    BY <1>2
  <2> QED
    BY <1>1, <1>2, <1>5, <2>1 DEF ContentInv, ErasedAreHidden
<1>12. CalmInv'
  <2>1. ASSUME Calm
        PROVE  CountsAreExact' /\ FreshReportsKnow' /\ FreshReviewsKnow'
    <3>1. CountsAreExact /\ FreshReportsKnow /\ FreshReviewsKnow
      BY <2>1 DEF ContentInv, CalmInv
    <3>2. CountsAreExact'
      BY <1>1, <1>3, <3>1, CountsGoUp
    <3>3. FreshReportsKnow'
      BY <1>1, <1>3, <1>5, <3>1 DEF FreshReportsKnow, ReportsFreshly
    <3>4. FreshReviewsKnow'
      <4>1. \A a \in CircleAdmins : \A v \in reviewing[a].on : v[2] \in ContentTargets /\ v[2] # t
        BY <1>1, <1>3 DEF ContentInv, ReviewsAreOfContent, TransactionsTyped, ReviewsUnderWay
      <4>2. \A a \in CircleAdmins : \A v \in reviewing[a].on : (IsLive(v[2])' <=> IsLive(v[2])) /\ (Deleted(v[2])' <=> Deleted(v[2]))
        BY <1>5, <4>1
      <4>3. ASSUME NEW a \in CircleAdmins, reviewing'[a].fresh, NEW v \in reviewing'[a].on
            PROVE  /\ (reviewing'[a].pc = "keep" => (reviewing'[a].acts <=> Deleted(v[2])'))
                   /\ (reviewing'[a].pc = "remove" => (reviewing'[a].acts <=> IsLive(v[2])'))
        BY <1>1, <3>1, <4>2, <4>3 DEF FreshReviewsKnow
      <4> QED
        BY <4>3 DEF FreshReviewsKnow
    <3> QED
      BY <3>2, <3>3, <3>4
  <2> QED
    BY <1>1, <2>1 DEF CalmInv, Calm
<1> QED
  BY <1>4, <1>6, <1>7, <1>8, <1>9, <1>10, <1>11, <1>12 DEF ContentInv

\* What changes neither content nor reports.
LEMMA OthersKeepContent ==
    ASSUME ContentInv, ContentTyped', UNCHANGED <<content, comments, complaint, reporting, reviewing, erased, raced, restored>>,
           MarksAreCounted'
    PROVE  ContentInv'
<1>1. \A t \in ContentTargets : (NotMissing(t)' <=> NotMissing(t)) /\ (IsLive(t)' <=> IsLive(t)) /\ Pending(t)' = Pending(t)
  BY DEF NotMissing, IsLive, Pending
<1>2. \A u \in CircleUsers, t \in ContentTargets : ReportsFreshly(u, t)' <=> ReportsFreshly(u, t)
  BY DEF ReportsFreshly
<1>3. HasOneAuthor' /\ MissingIsUnreported' /\ ReportsAreOfOne' /\ ReviewsAreOfContent'
  BY DEF ContentInv, HasOneAuthor, MissingIsUnreported, ReportsAreOfOne, ReviewsAreOfContent, NotMissing
<1>4. PendingAreFew' /\ FreshReportsHide' /\ ErasedAreHidden'
  BY <1>1, <1>2 DEF ContentInv, PendingAreFew, FreshReportsHide, ErasedAreHidden
<1>5. CalmInv'
  <2>1. (Calm' <=> Calm) /\ (CountsAreExact' <=> CountsAreExact)
    BY DEF Calm, CountsAreExact, LiveComments, IsLive
  <2>2. FreshReportsKnow' <=> FreshReportsKnow
    BY <1>1, <1>2 DEF FreshReportsKnow
  <2>3. FreshReviewsKnow' <=> FreshReviewsKnow
    BY DEF FreshReviewsKnow, Deleted, IsLive
  <2> QED
    BY <2>1, <2>2, <2>3 DEF ContentInv, CalmInv
<1> QED
  BY <1>3, <1>4, <1>5 DEF ContentInv

LEMMA MarkingKeepsContent ==
    ASSUME ContentInv, NEW u \in CircleUsers, NEW t \in ContentTargets, Mark(u, t) \/ Unmark(u, t)
    PROVE  ContentInv'
<1>1. /\ CirclesTyped /\ RowsTyped /\ TransactionsTyped
      /\ UNCHANGED <<circle, member, ruleSets, creation, content, comments, complaint, erased, reporting, reviewing,
                     raced, restored, extent>>
  BY PartsOfContentTypes DEF ContentInv, Mark, Unmark, circleVars, transactions
<1>2. \A s \in ContentTargets : MarkersOf(s) \in SUBSET CircleUsers
  BY DEF MarkersOf
<1>3. \A s \in ContentTargets : IsFiniteSet(MarkersOf(s)) /\ Cardinality(MarkersOf(s)) \in Nat
                               /\ counted[s] \in Nat /\ Cardinality(MarkersOf(s)) <= counted[s]
  BY <1>1, <1>2, UsersAndCommentsAreFinite DEF ContentInv, MarksAreCounted, RowsTyped
<1>4. /\ marks' \subseteq CircleUsers \X ContentTargets /\ counted' \in [ContentTargets -> Nat]
      /\ \A s \in ContentTargets : Cardinality(MarkersOf(s)') <= counted'[s]
  <2>1. CASE Mark(u, t)
    <3>1. marks' = marks \union {<<u, t>>} /\ counted' = [counted EXCEPT ![t] = @ + 1] /\ <<u, t>> \notin marks
      BY <2>1 DEF Mark
    <3>2. MarkersOf(t)' = MarkersOf(t) \union {u} /\ u \notin MarkersOf(t)
      BY <3>1 DEF MarkersOf
    <3>3. Cardinality(MarkersOf(t)') = Cardinality(MarkersOf(t)) + 1
      BY <1>3, <3>2, FS_AddElement
    <3>4. \A s \in ContentTargets \ {t} : MarkersOf(s)' = MarkersOf(s) /\ counted'[s] = counted[s]
      BY <1>1, <3>1 DEF MarkersOf, RowsTyped
    <3>5. counted'[t] = counted[t] + 1 /\ counted' \in [ContentTargets -> Nat]
      BY <1>1, <3>1 DEF RowsTyped
    <3>6. marks' \subseteq CircleUsers \X ContentTargets
      BY <1>1, <3>1 DEF RowsTyped
    <3> QED
      BY <1>3, <3>3, <3>4, <3>5, <3>6
  <2>2. CASE Unmark(u, t)
    <3>1. marks' = marks \ {<<u, t>>} /\ counted' = [counted EXCEPT ![t] = @ - 1] /\ <<u, t>> \in marks
      BY <2>2 DEF Unmark
    <3>2. MarkersOf(t)' = MarkersOf(t) \ {u} /\ u \in MarkersOf(t)
      BY <3>1 DEF MarkersOf
    <3>3. Cardinality(MarkersOf(t)') = Cardinality(MarkersOf(t)) - 1
      BY <1>3, <3>2, FS_RemoveElement
    <3>4. \A s \in ContentTargets \ {t} : MarkersOf(s)' = MarkersOf(s) /\ counted'[s] = counted[s]
      BY <1>1, <3>1 DEF MarkersOf, RowsTyped
    <3>5. Cardinality(MarkersOf(t)) # 0
      BY <1>3, <3>2, FS_EmptySet
    <3>6. counted'[t] = counted[t] - 1 /\ counted[t] - 1 \in Nat
      BY <1>1, <1>3, <3>1, <3>5 DEF RowsTyped
    <3>7. counted' \in [ContentTargets -> Nat]
      BY <1>1, <3>1, <3>6 DEF RowsTyped
    <3>8. marks' \subseteq CircleUsers \X ContentTargets
      BY <1>1, <3>1 DEF RowsTyped
    <3> QED
      BY <1>3, <3>3, <3>4, <3>6, <3>7, <3>8
  <2> QED
    BY <2>1, <2>2
<1>5. ContentTyped'
  <2>1. CirclesTyped' /\ TransactionsTyped'
    BY <1>1 DEF CirclesTyped, TransactionsTyped
  <2>2. RowsTyped'
    BY <1>1, <1>4 DEF RowsTyped
  <2> QED
    BY <2>1, <2>2, PartsOfContentTypes
<1>6. MarksAreCounted'
  BY <1>4 DEF MarksAreCounted
<1> QED
  BY <1>1, <1>5, <1>6, OthersKeepContent

LEMMA HidingAgainKeepsContent ==
    ASSUME ContentInv, NEW u \in CircleUsers, NEW t \in ContentTargets, ReportAgain(u, t)
    PROVE  ContentInv'
<1>1. UNCHANGED <<circle, member, ruleSets, creation, content, comments, marks, counted, complaint, erased,
                  reporting, reviewing, raced, restored, extent>>
  BY DEF ReportAgain, circleVars, transactions
<1>2. ContentTyped'
  BY <1>1 DEF ContentInv, ContentTyped, CirclesTyped, RowsTyped, TransactionsTyped
<1>3. MarksAreCounted'
  BY <1>1 DEF ContentInv, MarksAreCounted, MarkersOf
<1> QED
  BY <1>1, <1>2, <1>3, OthersKeepContent

LEMMA CirclesKeepContent ==
    ASSUME ContentInv, CirclesNext, UNCHANGED <<contentRows, transactions>>
    PROVE  ContentInv'
<1>1. CirclesTyped /\ RowsTyped /\ TransactionsTyped
  BY PartsOfContentTypes DEF ContentInv
<1>2. CirclesTyped'
  <2>1. ASSUME NEW a \in CircleAdmins, NEW n \in Names, LookForName(a, n)
        PROVE  CirclesTyped'
    BY <1>1, <2>1 DEF CirclesTyped, LookForName
  <2>2. ASSUME NEW a \in CircleAdmins, LookForRules(a)
        PROVE  CirclesTyped'
    <3>1. creation[a] \in [pc : {"rest", "adding", "added"}, name : SUBSET Names, rules : BOOLEAN]
      BY <1>1 DEF CirclesTyped
    <3>2. [creation[a] EXCEPT !.pc = "added", !.rules = (ruleSets = 0)]
            \in [pc : {"rest", "adding", "added"}, name : SUBSET Names, rules : BOOLEAN]
      BY <3>1
    <3> QED
      BY <1>1, <2>2, <3>2 DEF CirclesTyped, LookForRules
  <2>3. ASSUME NEW a \in CircleAdmins, CommitCircle(a)
        PROVE  CirclesTyped'
    <3>1. PICK c \in Circles : circle' = [circle EXCEPT ![c] = [state |-> "active", name |-> creation[a].name]]
      BY <2>3 DEF CommitCircle
    <3>2. circle' \in [Circles -> [state : {"absent", "active", "inactive", "deleted"}, name : SUBSET Names]]
      BY <1>1, <3>1 DEF CirclesTyped
    <3>3. /\ creation' \in [CircleAdmins -> [pc : {"rest", "adding", "added"}, name : SUBSET Names, rules : BOOLEAN]]
          /\ ruleSets' \in Nat /\ member' = member
      BY <1>1, <2>3 DEF CommitCircle, CirclesTyped, Resting
    <3> QED
      BY <1>1, <3>2, <3>3 DEF CirclesTyped
  <2>4. ASSUME NEW c \in Circles, NEW n \in Names, EditCircle(c, n)
        PROVE  CirclesTyped'
    BY <1>1, <2>4 DEF CirclesTyped, EditCircle
  <2>5. ASSUME NEW c \in Circles, ActivateCircle(c) \/ DeactivateCircle(c) \/ DeleteCircle(c)
        PROVE  CirclesTyped'
    BY <1>1, <2>5 DEF CirclesTyped, ActivateCircle, DeactivateCircle, DeleteCircle, SetState
  <2>6. ASSUME NEW u \in CircleUsers, NEW c \in Circles, JoinCircle(u, c) \/ LeaveCircle(u, c)
        PROVE  CirclesTyped'
    BY <1>1, <2>6 DEF CirclesTyped, JoinCircle, LeaveCircle
  <2> QED
    BY <2>1, <2>2, <2>3, <2>4, <2>5, <2>6 DEF CirclesNext, ManageCircles, Membership
<1>3. RowsTyped' /\ TransactionsTyped'
  BY <1>1 DEF contentRows, transactions, RowsTyped, TransactionsTyped
<1>4. MarksAreCounted'
  BY DEF ContentInv, MarksAreCounted, MarkersOf, contentRows
<1> QED
  BY <1>2, <1>3, <1>4, PartsOfContentTypes, OthersKeepContent DEF contentRows, transactions

-----------------------------------------------------------------------------
(* Transactions begin, or end without a commit.                            *)

\* What only a transaction of its own changes.
LEMMA BeginningKeepsContent ==
    ASSUME ContentInv, TransactionsTyped', UNCHANGED <<circle, member, ruleSets, creation, content, comments, marks, counted,
                                                       complaint, erased, raced, restored, extent>>,
           ReportsAreOfOne', ReviewsAreOfContent', FreshReportsHide', Calm => FreshReportsKnow' /\ FreshReviewsKnow'
    PROVE  ContentInv'
<1>1. CirclesTyped /\ RowsTyped /\ TransactionsTyped
  BY PartsOfContentTypes DEF ContentInv
<1>2. CirclesTyped' /\ RowsTyped'
  BY <1>1 DEF CirclesTyped, RowsTyped
<1>3. HasOneAuthor' /\ MissingIsUnreported' /\ MarksAreCounted' /\ PendingAreFew' /\ ErasedAreHidden'
  BY DEF ContentInv, HasOneAuthor, MissingIsUnreported, NotMissing, MarksAreCounted, MarkersOf, PendingAreFew, Pending, IsLive,
         ErasedAreHidden
<1>4. CalmInv'
  <2>1. (Calm' <=> Calm) /\ (CountsAreExact' <=> CountsAreExact)
    BY DEF Calm, CountsAreExact, LiveComments, IsLive
  <2> QED
    BY <2>1 DEF ContentInv, CalmInv
<1> QED
  BY <1>2, <1>3, <1>4, PartsOfContentTypes DEF ContentInv

LEMMA ReportBegins ==
    ASSUME ContentInv, NEW u \in CircleUsers, NEW t \in ContentTargets, ReportCircleContent(u, t)
    PROVE  ContentInv'
<1> DEFINE hides == Cardinality(ReportersOf(t) \union {u}) >= HidesAt
<1>1. /\ CirclesTyped /\ RowsTyped /\ TransactionsTyped
      /\ UNCHANGED <<circle, member, ruleSets, creation, content, comments, marks, counted,
                     complaint, erased, reviewing, raced, restored, extent>>
      /\ reporting' = [reporting EXCEPT ![u] = Started(t, hides)] /\ IsLive(t) /\ hides \in BOOLEAN
  BY PartsOfContentTypes DEF ContentInv, ReportCircleContent, MayReport, circleVars, contentRows
<1>2. /\ \A v \in CircleUsers \ {u} : reporting'[v] = reporting[v]
      /\ reporting'[u].pc = "reporting" /\ reporting'[u].target = {t} /\ reporting'[u].hides = hides
      /\ Started(t, hides) \in ReportsUnderWay /\ reporting'[u] = Started(t, hides)
  <2>1. reporting'[u] = Started(t, hides) /\ \A v \in CircleUsers \ {u} : reporting'[v] = reporting[v]
    BY <1>1 DEF TransactionsTyped
  <2>2. Started(t, hides) \in ReportsUnderWay
    BY <1>1 DEF Started, ReportsUnderWay
  <2> HIDE DEF hides
  <2> QED
    BY <2>1, <2>2 DEF Started
<1>3. TransactionsTyped'
  BY <1>1, <1>2 DEF TransactionsTyped
<1>4. ReportsAreOfOne' /\ ReviewsAreOfContent'
  <2>1. NotMissing(t)' /\ \A s \in ContentTargets : NotMissing(s)' <=> NotMissing(s)
    BY <1>1 DEF NotMissing, IsLive
  <2>2. ReportsAreOfOne'
    BY <1>2, <2>1 DEF ContentInv, ReportsAreOfOne
  <2>3. ReviewsAreOfContent'
    BY <1>1 DEF ContentInv, ReviewsAreOfContent, NotMissing
  <2> QED
    BY <2>2, <2>3
<1>5. \A v \in CircleUsers \ {u}, s \in ContentTargets : ReportsFreshly(v, s)' <=> ReportsFreshly(v, s)
  BY <1>2 DEF ReportsFreshly
<1>6. \A s \in ContentTargets : ReportsFreshly(u, s)' => s = t
  BY <1>2 DEF ReportsFreshly
<1>7. FreshReportsHide'
  <2>1. ASSUME Cardinality(Pending(t) \union {u}) >= HidesAt
        PROVE  hides
    <3>1. Pending(t) \union {u} \subseteq ReportersOf(t) \union {u} /\ ReportersOf(t) \union {u} \in SUBSET CircleUsers
      BY DEF Pending, ReportersOf
    <3>2. /\ Cardinality(Pending(t) \union {u}) \in Nat /\ Cardinality(ReportersOf(t) \union {u}) \in Nat
          /\ Cardinality(Pending(t) \union {u}) <= Cardinality(ReportersOf(t) \union {u})
      BY <3>1, UsersAndCommentsAreFinite
    <3> QED
      BY <2>1, <3>2, UsersAndCommentsAreFinite
  <2>2. \A s \in ContentTargets : Pending(s)' = Pending(s)
    BY <1>1 DEF Pending
  <2> HIDE DEF hides
  <2> QED
    BY <1>2, <1>5, <1>6, <2>1, <2>2 DEF ContentInv, FreshReportsHide
<1>8. Calm => FreshReportsKnow' /\ FreshReviewsKnow'
  <2>1. ASSUME Calm
        PROVE  FreshReportsKnow' /\ FreshReviewsKnow'
    <3>1. FreshReportsKnow /\ FreshReviewsKnow
      BY <2>1 DEF ContentInv, CalmInv
    <3>2. \A s \in ContentTargets : IsLive(s)' <=> IsLive(s)
      BY <1>1 DEF IsLive
    <3>3. FreshReportsKnow'
      BY <1>1, <1>5, <1>6, <3>1, <3>2 DEF FreshReportsKnow
    <3>4. FreshReviewsKnow'
      BY <1>1, <3>1 DEF FreshReviewsKnow, IsLive, Deleted
    <3> QED
      BY <3>3, <3>4
  <2> QED
    BY <2>1
<1> QED
  BY <1>1, <1>3, <1>4, <1>7, <1>8, BeginningKeepsContent

LEMMA ReviewBegins ==
    ASSUME ContentInv, NEW a \in CircleAdmins, NEW u \in CircleUsers, NEW t \in ContentTargets,
           NEW decision \in {"keep", "remove"}, OpenReview(a, u, t, decision)
    PROVE  ContentInv'
<1> DEFINE acts == IF decision = "keep" THEN Deleted(t) ELSE IsLive(t)
<1>1. /\ CirclesTyped /\ RowsTyped /\ TransactionsTyped
      /\ UNCHANGED <<circle, member, ruleSets, creation, content, comments, marks, counted,
                     complaint, erased, reporting, raced, restored, extent>>
      /\ reviewing' = [reviewing EXCEPT ![a] = Opened(decision, u, t, acts)] /\ complaint[u][t] = "pending"
      /\ acts \in BOOLEAN
  BY PartsOfContentTypes DEF ContentInv, OpenReview, circleVars, contentRows, Deleted, IsLive
<1>2. /\ \A b \in CircleAdmins \ {a} : reviewing'[b] = reviewing[b]
      /\ reviewing'[a].pc = decision /\ reviewing'[a].on = {<<u, t>>} /\ (reviewing'[a].acts <=> acts)
      /\ reviewing'[a] \in ReviewsUnderWay
  <2>1. reviewing'[a] = Opened(decision, u, t, acts) /\ \A b \in CircleAdmins \ {a} : reviewing'[b] = reviewing[b]
    BY <1>1 DEF TransactionsTyped
  <2>2. Opened(decision, u, t, acts) \in ReviewsUnderWay
    BY <1>1 DEF Opened, ReviewsUnderWay
  <2> HIDE DEF acts
  <2> QED
    BY <1>1, <2>1, <2>2 DEF Opened
<1>3. TransactionsTyped'
  BY <1>1, <1>2 DEF TransactionsTyped
<1>4. NotMissing(t)
  BY <1>1 DEF ContentInv, MissingIsUnreported
<1>5. ReportsAreOfOne' /\ ReviewsAreOfContent'
  <2>1. \A s : NotMissing(s)' <=> NotMissing(s)
    BY <1>1 DEF NotMissing
  <2>2. ReportsAreOfOne'
    BY <1>1, <2>1 DEF ContentInv, ReportsAreOfOne
  <2>3. ASSUME NEW b \in CircleAdmins, NEW r \in reviewing'[b].on
        PROVE  NotMissing(r[2])
    BY <1>2, <1>4, <2>3 DEF ContentInv, ReviewsAreOfContent
  <2> QED
    BY <2>1, <2>2, <2>3 DEF ReviewsAreOfContent
<1>6. FreshReportsHide'
  BY <1>1 DEF ContentInv, FreshReportsHide, ReportsFreshly, Pending
<1>7. Calm => FreshReportsKnow' /\ FreshReviewsKnow'
  <2>1. ASSUME Calm
        PROVE  FreshReportsKnow' /\ FreshReviewsKnow'
    <3>1. FreshReportsKnow /\ FreshReviewsKnow
      BY <2>1 DEF ContentInv, CalmInv
    <3>2. \A s : (IsLive(s)' <=> IsLive(s)) /\ (Deleted(s)' <=> Deleted(s))
      BY <1>1 DEF IsLive, Deleted
    <3>3. FreshReportsKnow'
      BY <1>1, <3>1, <3>2 DEF FreshReportsKnow, ReportsFreshly
    <3>4. ASSUME NEW b \in CircleAdmins, reviewing'[b].fresh, NEW r \in reviewing'[b].on
          PROVE  /\ (reviewing'[b].pc = "keep" => (reviewing'[b].acts <=> Deleted(r[2])))
                 /\ (reviewing'[b].pc = "remove" => (reviewing'[b].acts <=> IsLive(r[2])))
      <4>1. CASE b = a
        <5>1. r[2] = t
          BY <1>2, <3>4, <4>1
        <5> QED
          BY <1>2, <4>1, <5>1
      <4>2. CASE b # a
        BY <1>2, <3>1, <3>4, <4>2 DEF FreshReviewsKnow
      <4> QED
        BY <4>1, <4>2
    <3>5. FreshReviewsKnow'
      BY <3>2, <3>4 DEF FreshReviewsKnow
    <3> QED
      BY <3>3, <3>5
  <2> QED
    BY <2>1
<1> QED
  BY <1>1, <1>3, <1>5, <1>6, <1>7, BeginningKeepsContent

LEMMA ReviewAborts ==
    ASSUME ContentInv, NEW a \in CircleAdmins, AbortReview(a)
    PROVE  ContentInv'
<1>1. /\ CirclesTyped /\ RowsTyped /\ TransactionsTyped
      /\ UNCHANGED <<circle, member, ruleSets, creation, content, comments, marks, counted,
                     complaint, erased, reporting, raced, restored, extent>>
      /\ reviewing' = [reviewing EXCEPT ![a] = NoReview]
  BY PartsOfContentTypes DEF ContentInv, AbortReview, circleVars, contentRows
<1>2. /\ \A b \in CircleAdmins \ {a} : reviewing'[b] = reviewing[b]
      /\ reviewing'[a].on = {} /\ reviewing'[a] \in ReviewsUnderWay
  <2>1. NoReview \in ReviewsUnderWay /\ NoReview.on = {}
    BY DEF NoReview, ReviewsUnderWay
  <2> QED
    BY <1>1, <2>1 DEF TransactionsTyped
<1>3. TransactionsTyped'
  BY <1>1, <1>2 DEF TransactionsTyped
<1>4. \A s : (IsLive(s)' <=> IsLive(s)) /\ (Deleted(s)' <=> Deleted(s)) /\ (NotMissing(s)' <=> NotMissing(s))
  BY <1>1 DEF IsLive, Deleted, NotMissing
<1>5. ReportsAreOfOne' /\ ReviewsAreOfContent' /\ FreshReportsHide'
  <2>1. ReportsAreOfOne'
    BY <1>1, <1>4 DEF ContentInv, ReportsAreOfOne
  <2>2. ReviewsAreOfContent'
    BY <1>2, <1>4 DEF ContentInv, ReviewsAreOfContent
  <2>3. FreshReportsHide'
    BY <1>1 DEF ContentInv, FreshReportsHide, ReportsFreshly, Pending
  <2> QED
    BY <2>1, <2>2, <2>3
<1>6. Calm => FreshReportsKnow' /\ FreshReviewsKnow'
  <2>1. ASSUME Calm
        PROVE  FreshReportsKnow' /\ FreshReviewsKnow'
    <3>1. FreshReportsKnow /\ FreshReviewsKnow
      BY <2>1 DEF ContentInv, CalmInv
    <3>2. FreshReportsKnow'
      BY <1>1, <1>4, <3>1 DEF FreshReportsKnow, ReportsFreshly
    <3>3. FreshReviewsKnow'
      BY <1>2, <1>4, <3>1 DEF FreshReviewsKnow
    <3> QED
      BY <3>2, <3>3
  <2> QED
    BY <2>1
<1> QED
  BY <1>1, <1>3, <1>5, <1>6, BeginningKeepsContent

-----------------------------------------------------------------------------
(* A teardown, and commits.                                                *)

LEMMA TeardownKeepsContent ==
    ASSUME ContentInv, NEW u \in CircleUsers, EraseUser(u)
    PROVE  ContentInv'
<1>1. /\ CirclesTyped /\ RowsTyped /\ TransactionsTyped
      /\ UNCHANGED <<circle, ruleSets, creation, comments, counted, reporting, reviewing, raced, restored, extent>>
      /\ erased' = erased \union {u} /\ member' \subseteq member /\ marks' \subseteq marks
      /\ complaint' = [complaint EXCEPT ![u] = [t \in ContentTargets |-> "none"]]
  BY PartsOfContentTypes DEF ContentInv, EraseUser, transactions
<1>2. \A t \in ContentTargets :
        content'[t] = (IF IsLive(t) /\ content[t].author = {u} THEN Removed(t, "teardown") ELSE content[t])
  BY DEF EraseUser
<1>3. \A t \in ContentTargets :
        /\ Removed(t, "teardown") \in ContentStates /\ Removed(t, "teardown").state = "deleted"
        /\ Removed(t, "teardown").author = content[t].author
  BY <1>1 DEF RowsTyped, ContentStates, Removed, Deleted
<1>4. \A t \in ContentTargets :
        /\ content'[t].author = content[t].author /\ (NotMissing(t) <=> NotMissing(t)')
        /\ (IsLive(t)' => IsLive(t) /\ content[t].author # {u})
  BY <1>2, <1>3 DEF NotMissing, IsLive
<1>5. /\ \A v \in CircleUsers \ {u} : complaint'[v] = complaint[v]
      /\ \A t \in ContentTargets : complaint'[u][t] = "none"
      /\ complaint' \in [CircleUsers -> [ContentTargets -> Complaints]]
  BY <1>1 DEF RowsTyped, Complaints
<1>6. ContentTyped'
  <2>1. content' \in [ContentTargets -> ContentStates]
    <3>1. content' = [t \in ContentTargets |->
            IF IsLive(t) /\ content[t].author = {u} THEN Removed(t, "teardown") ELSE content[t]]
      BY DEF EraseUser
    <3> QED
      BY <1>1, <1>3, <3>1 DEF RowsTyped
  <2>2. CirclesTyped' /\ TransactionsTyped'
    BY <1>1 DEF CirclesTyped, TransactionsTyped
  <2>3. RowsTyped'
    BY <1>1, <1>5, <2>1 DEF RowsTyped
  <2> QED
    BY <2>2, <2>3, PartsOfContentTypes
<1>7. HasOneAuthor' /\ MissingIsUnreported' /\ ReportsAreOfOne' /\ ReviewsAreOfContent'
  <2>1. HasOneAuthor' /\ MissingIsUnreported'
    BY <1>4, <1>5 DEF ContentInv, HasOneAuthor, MissingIsUnreported
  <2>2. ReportsAreOfOne'
    BY <1>1, <1>4 DEF ContentInv, ReportsAreOfOne
  <2>3. ReviewsAreOfContent'
    BY <1>1, <1>4 DEF ContentInv, ReviewsAreOfContent, TransactionsTyped, ReviewsUnderWay
  <2> QED
    BY <2>1, <2>2, <2>3
<1>8. MarksAreCounted'
  <2>1. \A t \in ContentTargets : MarkersOf(t)' \subseteq MarkersOf(t) /\ MarkersOf(t) \in SUBSET CircleUsers
    BY <1>1 DEF MarkersOf
  <2>2. \A t \in ContentTargets : Cardinality(MarkersOf(t)') <= Cardinality(MarkersOf(t))
                                 /\ Cardinality(MarkersOf(t)') \in Nat /\ Cardinality(MarkersOf(t)) \in Nat /\ counted[t] \in Nat
    BY <1>1, <2>1, UsersAndCommentsAreFinite DEF RowsTyped
  <2> QED
    BY <1>1, <2>2 DEF ContentInv, MarksAreCounted
<1>9. \A t \in ContentTargets :
        /\ Pending(t)' \subseteq Pending(t) /\ Pending(t) \in SUBSET CircleUsers
        /\ Cardinality(Pending(t)') <= Cardinality(Pending(t))
        /\ Cardinality(Pending(t)') \in Nat /\ Cardinality(Pending(t)) \in Nat
  <2>1. \A t \in ContentTargets : Pending(t)' \subseteq Pending(t) /\ Pending(t) \in SUBSET CircleUsers
    BY <1>5 DEF Pending
  <2> QED
    BY <2>1, UsersAndCommentsAreFinite
<1>10. PendingAreFew'
  BY <1>1, <1>4, <1>9, UsersAndCommentsAreFinite DEF ContentInv, PendingAreFew
<1>11. FreshReportsHide'
  <2>1. \A v \in CircleUsers, t \in ContentTargets :
          /\ Cardinality(Pending(t)' \union {v}) <= Cardinality(Pending(t) \union {v})
          /\ Cardinality(Pending(t)' \union {v}) \in Nat /\ Cardinality(Pending(t) \union {v}) \in Nat
    <3>1. \A v \in CircleUsers, t \in ContentTargets :
            Pending(t)' \union {v} \in SUBSET (Pending(t) \union {v}) /\ Pending(t) \union {v} \in SUBSET CircleUsers
      BY <1>9
    <3>2. \A S \in SUBSET CircleUsers : \A T \in SUBSET S :
            Cardinality(T) <= Cardinality(S) /\ Cardinality(T) \in Nat /\ Cardinality(S) \in Nat
      BY UsersAndCommentsAreFinite
    <3> QED
      BY <3>1, <3>2
  <2>2. \A v \in CircleUsers, t \in ContentTargets : ReportsFreshly(v, t)' <=> ReportsFreshly(v, t)
    BY <1>1 DEF ReportsFreshly
  <2>3. ASSUME NEW v \in CircleUsers, NEW t \in ContentTargets, ReportsFreshly(v, t)',
               Cardinality(Pending(t)' \union {v}) >= HidesAt
        PROVE  reporting'[v].hides
    <3>1. Cardinality(Pending(t) \union {v}) >= HidesAt
      BY <2>1, <2>3, UsersAndCommentsAreFinite
    <3> QED
      BY <1>1, <2>2, <2>3, <3>1 DEF ContentInv, FreshReportsHide
  <2> QED
    BY <2>3 DEF FreshReportsHide
<1>12. ErasedAreHidden'
  <2>1. ASSUME NEW t \in ContentTargets, IsLive(t)', content'[t].author \intersect erased' # {}
        PROVE  t \in restored'
    <3>1. content[t].author \intersect erased # {}
      BY <1>1, <1>4, <2>1 DEF ContentInv, HasOneAuthor
    <3> QED
      BY <1>1, <1>4, <2>1, <3>1 DEF ContentInv, ErasedAreHidden
  <2> QED
    BY <2>1 DEF ErasedAreHidden
<1>13. CalmInv'
  BY <1>1 DEF CalmInv, Calm
<1> QED
  BY <1>6, <1>7, <1>8, <1>10, <1>11, <1>12, <1>13 DEF ContentInv

\* What a commit on a target leaves: nobody else who read the target is fresh.
ReportGoesOn(u, t) ==
    \/ reporting'[u].pc = "idle"
    \/ /\ reporting'[u].pc = reporting[u].pc /\ reporting'[u].target = reporting[u].target
       /\ reporting'[u].hides = reporting[u].hides
       /\ reporting'[u].fresh <=> reporting[u].fresh /\ reporting[u].target # {t}
ReviewGoesOn(a, t) ==
    \/ reviewing'[a].on = {}
    \/ /\ reviewing'[a].pc = reviewing[a].pc /\ reviewing'[a].on = reviewing[a].on
       /\ reviewing'[a].acts = reviewing[a].acts
       /\ reviewing'[a].fresh <=> reviewing[a].fresh /\ \A r \in reviewing[a].on : r[2] # t

ContentCommitted(t) ==
    /\ content' \in [ContentTargets -> ContentStates] /\ content'[t].author = content[t].author /\ NotMissing(t)'
    /\ \A s \in ContentTargets \ {t} : content'[s] = content[s] /\ \A u \in CircleUsers : complaint'[u][s] = complaint[u][s]
    /\ comments' \in [CirclePosts -> Nat] /\ complaint' \in [CircleUsers -> [ContentTargets -> Complaints]]
    /\ \A u \in CircleUsers : reporting'[u] \in ReportsUnderWay /\ ReportGoesOn(u, t)
    /\ \A a \in CircleAdmins : reviewing'[a] \in ReviewsUnderWay /\ ReviewGoesOn(a, t)
    /\ reporting' \in [CircleUsers -> ReportsUnderWay] /\ reviewing' \in [CircleAdmins -> ReviewsUnderWay]
    /\ raced' \in SUBSET ContentTargets /\ raced \subseteq raced' /\ raced' \subseteq raced \union {t}
    /\ restored' \in SUBSET ContentTargets /\ restored \subseteq restored'
    /\ UNCHANGED <<circle, member, ruleSets, creation, marks, counted, erased, extent>>

LEMMA CommitKeepsContent ==
    ASSUME ContentInv, NEW t \in ContentTargets, NotMissing(t), ContentCommitted(t),
           IsLive(t)' /\ t \notin raced' => Cardinality(Pending(t)') < HidesAt,
           IsLive(t)' => IsLive(t) \/ t \in restored',
           Calm' => CountsAreExact'
    PROVE  ContentInv'
<1>1. CirclesTyped /\ RowsTyped /\ TransactionsTyped
  BY PartsOfContentTypes DEF ContentInv
<1>2. ContentTyped'
  <2>1. CirclesTyped' /\ TransactionsTyped'
    BY <1>1 DEF CirclesTyped, TransactionsTyped, ContentCommitted
  <2>2. RowsTyped'
    BY <1>1 DEF RowsTyped, ContentCommitted
  <2> QED
    BY <2>1, <2>2, PartsOfContentTypes
<1>3. \A s \in ContentTargets :
        /\ content'[s].author = content[s].author /\ (NotMissing(s)' <=> NotMissing(s))
        /\ (s # t => /\ (IsLive(s)' <=> IsLive(s)) /\ (Deleted(s)' <=> Deleted(s)) /\ Pending(s)' = Pending(s))
  BY DEF ContentCommitted, NotMissing, IsLive, Deleted, Pending
<1>4. HasOneAuthor'
  BY <1>3 DEF ContentInv, HasOneAuthor
<1>5. MissingIsUnreported'
  BY <1>3 DEF ContentInv, MissingIsUnreported, ContentCommitted
<1>6. ReportsAreOfOne'
  <2>1. ASSUME NEW u \in CircleUsers, reporting'[u].pc = "reporting"
        PROVE  \E s \in ContentTargets : reporting'[u].target = {s} /\ NotMissing(s)'
    <3>1. reporting[u].pc = "reporting" /\ reporting'[u].target = reporting[u].target
      BY <2>1 DEF ContentCommitted, ReportGoesOn
    <3> QED
      BY <1>3, <3>1 DEF ContentInv, ReportsAreOfOne
  <2> QED
    BY <2>1 DEF ReportsAreOfOne
<1>7. ReviewsAreOfContent'
  <2>1. ASSUME NEW a \in CircleAdmins, NEW r \in reviewing'[a].on
        PROVE  NotMissing(r[2])'
    <3>1. r \in reviewing[a].on
      BY <2>1 DEF ContentCommitted, ReviewGoesOn
    <3>2. NotMissing(r[2]) /\ r[2] \in ContentTargets
      BY <1>1, <3>1 DEF ContentInv, ReviewsAreOfContent, TransactionsTyped, ReviewsUnderWay
    <3> QED
      BY <1>3, <3>2
  <2> QED
    BY <2>1 DEF ReviewsAreOfContent
<1>8. MarksAreCounted'
  BY DEF ContentInv, MarksAreCounted, MarkersOf, ContentCommitted
<1>9. PendingAreFew'
  BY <1>3 DEF ContentInv, PendingAreFew, ContentCommitted
<1>10. \A u \in CircleUsers, s \in ContentTargets :
         ReportsFreshly(u, s)' => ReportsFreshly(u, s) /\ s # t /\ reporting'[u].hides = reporting[u].hides
  BY DEF ContentCommitted, ReportGoesOn, ReportsFreshly
<1>11. FreshReportsHide'
  BY <1>3, <1>10 DEF ContentInv, FreshReportsHide
<1>12. ErasedAreHidden'
  BY <1>3 DEF ContentInv, ErasedAreHidden, ContentCommitted
<1>13. CalmInv'
  <2>1. ASSUME Calm'
        PROVE  FreshReportsKnow' /\ FreshReviewsKnow'
    <3>1. FreshReportsKnow /\ FreshReviewsKnow
      BY <2>1 DEF ContentInv, CalmInv, Calm, ContentCommitted
    <3>2. FreshReportsKnow'
      BY <1>3, <1>10, <3>1 DEF FreshReportsKnow
    <3>3. ASSUME NEW a \in CircleAdmins, reviewing'[a].fresh, NEW r \in reviewing'[a].on
          PROVE  /\ (reviewing'[a].pc = "keep" => (reviewing'[a].acts <=> Deleted(r[2])'))
                 /\ (reviewing'[a].pc = "remove" => (reviewing'[a].acts <=> IsLive(r[2])'))
      <4>1. /\ reviewing'[a].pc = reviewing[a].pc /\ reviewing'[a].acts = reviewing[a].acts
            /\ reviewing[a].fresh /\ r \in reviewing[a].on /\ r[2] # t
        BY <3>3 DEF ContentCommitted, ReviewGoesOn
      <4>2. r[2] \in ContentTargets
        BY <1>1, <4>1 DEF TransactionsTyped, ReviewsUnderWay
      <4>3. (IsLive(r[2])' <=> IsLive(r[2])) /\ (Deleted(r[2])' <=> Deleted(r[2]))
        BY <1>3, <4>1, <4>2
      <4> QED
        BY <3>1, <4>1, <4>3 DEF FreshReviewsKnow
    <3>4. FreshReviewsKnow'
      BY <3>3 DEF FreshReviewsKnow
    <3> QED
      BY <3>2, <3>4
  <2> QED
    BY <2>1 DEF CalmInv
<1> QED
  BY <1>2, <1>4, <1>5, <1>6, <1>7, <1>8, <1>9, <1>11, <1>12, <1>13 DEF ContentInv

LEMMA StaleTransactions ==
    ASSUME TransactionsTyped, NEW t \in ContentTargets
    PROVE  /\ StaleReports(t) \in [CircleUsers -> ReportsUnderWay] /\ StaleReviews(t) \in [CircleAdmins -> ReviewsUnderWay]
           /\ \A u \in CircleUsers :
                /\ StaleReports(t)[u].pc = reporting[u].pc /\ StaleReports(t)[u].target = reporting[u].target
                /\ StaleReports(t)[u].hides = reporting[u].hides
                /\ StaleReports(t)[u].fresh <=> reporting[u].fresh /\ reporting[u].target # {t}
           /\ \A a \in CircleAdmins :
                /\ StaleReviews(t)[a].pc = reviewing[a].pc /\ StaleReviews(t)[a].on = reviewing[a].on
                /\ StaleReviews(t)[a].acts = reviewing[a].acts
                /\ StaleReviews(t)[a].fresh <=> reviewing[a].fresh /\ \A r \in reviewing[a].on : r[2] # t
<1>1. \A u \in CircleUsers : reporting[u] \in ReportsUnderWay
  BY DEF TransactionsTyped
<1>2. \A a \in CircleAdmins : reviewing[a] \in ReviewsUnderWay
  BY DEF TransactionsTyped
<1>3. ASSUME NEW u \in CircleUsers
      PROVE  /\ StaleReports(t)[u] \in ReportsUnderWay
             /\ StaleReports(t)[u].pc = reporting[u].pc /\ StaleReports(t)[u].target = reporting[u].target
             /\ StaleReports(t)[u].hides = reporting[u].hides
             /\ StaleReports(t)[u].fresh <=> reporting[u].fresh /\ reporting[u].target # {t}
  <2>1. StaleReports(t)[u] = [reporting[u] EXCEPT !.fresh = @ /\ reporting[u].target # {t}]
    BY DEF StaleReports
  <2> QED
    BY <1>1, <2>1 DEF ReportsUnderWay
<1>4. ASSUME NEW a \in CircleAdmins
      PROVE  /\ StaleReviews(t)[a] \in ReviewsUnderWay
             /\ StaleReviews(t)[a].pc = reviewing[a].pc /\ StaleReviews(t)[a].on = reviewing[a].on
             /\ StaleReviews(t)[a].acts = reviewing[a].acts
             /\ StaleReviews(t)[a].fresh <=> reviewing[a].fresh /\ \A r \in reviewing[a].on : r[2] # t
  <2>1. StaleReviews(t)[a] = [reviewing[a] EXCEPT !.fresh = @ /\ \A r \in reviewing[a].on : r[2] # t]
    BY DEF StaleReviews
  <2> QED
    BY <1>2, <2>1 DEF ReviewsUnderWay
<1>5. StaleReports(t) \in [CircleUsers -> ReportsUnderWay]
  BY <1>3 DEF StaleReports
<1>6. StaleReviews(t) \in [CircleAdmins -> ReviewsUnderWay]
  BY <1>4 DEF StaleReviews
<1> QED
  BY <1>3, <1>4, <1>5, <1>6

\* The transactions after a commit on a target, of which one may be over.
LEMMA TransactionsGoOn ==
    ASSUME TransactionsTyped, NEW t \in ContentTargets,
           \/ reporting' = StaleReports(t) \/ \E u \in CircleUsers : reporting' = [StaleReports(t) EXCEPT ![u] = NoReporting],
           \/ reviewing' = StaleReviews(t) \/ \E a \in CircleAdmins : reviewing' = [StaleReviews(t) EXCEPT ![a] = NoReview]
    PROVE  /\ \A u \in CircleUsers : reporting'[u] \in ReportsUnderWay /\ ReportGoesOn(u, t)
           /\ \A a \in CircleAdmins : reviewing'[a] \in ReviewsUnderWay /\ ReviewGoesOn(a, t)
           /\ reporting' \in [CircleUsers -> ReportsUnderWay] /\ reviewing' \in [CircleAdmins -> ReviewsUnderWay]
<1>1. NoReporting \in ReportsUnderWay /\ NoReporting.pc = "idle" /\ NoReview \in ReviewsUnderWay /\ NoReview.on = {}
  BY DEF NoReporting, NoReview, ReportsUnderWay, ReviewsUnderWay
<1>2. /\ reporting' \in [CircleUsers -> ReportsUnderWay]
      /\ \A u \in CircleUsers : reporting'[u] = StaleReports(t)[u] \/ reporting'[u] = NoReporting
  BY <1>1, StaleTransactions
<1>3. /\ reviewing' \in [CircleAdmins -> ReviewsUnderWay]
      /\ \A a \in CircleAdmins : reviewing'[a] = StaleReviews(t)[a] \/ reviewing'[a] = NoReview
  BY <1>1, StaleTransactions
<1>4. ASSUME NEW u \in CircleUsers
      PROVE  ReportGoesOn(u, t)
  BY <1>1, <1>2, StaleTransactions DEF ReportGoesOn
<1>5. ASSUME NEW a \in CircleAdmins
      PROVE  ReviewGoesOn(a, t)
  BY <1>1, <1>3, StaleTransactions DEF ReviewGoesOn
<1> QED
  BY <1>2, <1>3, <1>4, <1>5

\* What a commit makes of its target: it takes it off, puts it back, or leaves it.
LEMMA TargetAfter ==
    ASSUME RowsTyped, NEW t \in ContentTargets, NotMissing(t),
           \/ \E who \in {"author", "reports", "review"} : TakesOff(t, who)
           \/ PutsBack(t)
           \/ UNCHANGED <<content, comments>>
    PROVE  /\ content' \in [ContentTargets -> ContentStates] /\ content'[t].author = content[t].author /\ NotMissing(t)'
           /\ \A s \in ContentTargets \ {t} : content'[s] = content[s]
           /\ comments' \in [CirclePosts -> Nat]
<1>1. content[t] \in ContentStates
  BY DEF RowsTyped
<1>2. CASE \E who \in {"author", "reports", "review"} : TakesOff(t, who)
  <2>1. PICK who \in {"author", "reports", "review"} : TakesOff(t, who)
    BY <1>2
  <2>2. /\ Removed(t, who) \in ContentStates /\ Removed(t, who).author = content[t].author
        /\ Removed(t, who).state = "deleted"
    BY <1>1 DEF Removed, ContentStates
  <2>3. content' = [content EXCEPT ![t] = Removed(t, who)] /\ comments' = CountDown(t)
    BY <2>1 DEF TakesOff
  <2>4. content'[t] = Removed(t, who) /\ \A s \in ContentTargets \ {t} : content'[s] = content[s]
    BY <2>3, ContentOfOne
  <2>5. content' \in [ContentTargets -> ContentStates]
    BY <2>2, <2>3 DEF RowsTyped
  <2> QED
    BY <2>2, <2>3, <2>4, <2>5, CountsTyped DEF NotMissing
<1>3. CASE PutsBack(t)
  <2> DEFINE r == [content[t] EXCEPT !.state = "live", !.by = "nobody"]
  <2>1. r \in ContentStates /\ r.author = content[t].author /\ r.state = "live"
    BY <1>1 DEF ContentStates
  <2>2. content' = [content EXCEPT ![t] = r] /\ comments' = CountUp(t)
    BY <1>3 DEF PutsBack, RowsTyped
  <2> HIDE DEF r
  <2>3. content'[t] = r /\ \A s \in ContentTargets \ {t} : content'[s] = content[s]
    BY <2>2, ContentOfOne
  <2>4. content' \in [ContentTargets -> ContentStates]
    BY <2>1, <2>2 DEF RowsTyped
  <2> QED
    BY <2>1, <2>2, <2>3, <2>4, CountsTyped DEF NotMissing
<1>4. CASE UNCHANGED <<content, comments>>
  BY <1>4 DEF RowsTyped, NotMissing
<1> QED
  BY <1>2, <1>3, <1>4

\* The counts after it, if it takes off what is shown, or puts back what is deleted.
LEMMA CountsAfter ==
    ASSUME RowsTyped, CountsAreExact, NEW t \in ContentTargets,
           \/ IsLive(t) /\ \E who \in {"author", "reports", "review"} : TakesOff(t, who)
           \/ Deleted(t) /\ PutsBack(t)
           \/ UNCHANGED <<content, comments>>
    PROVE  CountsAreExact'
<1>1. content[t] \in ContentStates
  BY DEF RowsTyped
<1>2. CASE IsLive(t) /\ \E who \in {"author", "reports", "review"} : TakesOff(t, who)
  <2>1. PICK who \in {"author", "reports", "review"} : TakesOff(t, who)
    BY <1>2
  <2>2. Removed(t, who) \in ContentStates /\ Removed(t, who).state # "live"
    BY <1>1 DEF Removed, ContentStates
  <2>3. content' = [content EXCEPT ![t] = Removed(t, who)] /\ comments' = CountDown(t)
    BY <2>1 DEF TakesOff
  <2> QED
    BY <1>2, <2>2, <2>3, CountsGoDown
<1>3. CASE Deleted(t) /\ PutsBack(t)
  <2> DEFINE r == [content[t] EXCEPT !.state = "live", !.by = "nobody"]
  <2>1. r \in ContentStates /\ r.state = "live"
    BY <1>1 DEF ContentStates
  <2>2. content' = [content EXCEPT ![t] = r] /\ comments' = CountUp(t) /\ ~ IsLive(t)
    BY <1>3 DEF PutsBack, RowsTyped, Deleted, IsLive
  <2> HIDE DEF r
  <2> QED
    BY <2>1, <2>2, CountsGoUp
<1>4. CASE UNCHANGED <<content, comments>>
  BY <1>4 DEF CountsAreExact, LiveComments, IsLive
<1> QED
  BY <1>2, <1>3, <1>4

LEMMA DeletionKeepsContent ==
    ASSUME ContentInv, NEW u \in CircleUsers, NEW t \in CircleComments, DeleteCircleComment(u, t)
    PROVE  ContentInv'
<1>1. CirclesTyped /\ RowsTyped /\ TransactionsTyped /\ t \in ContentTargets
  BY PartsOfContentTypes DEF ContentInv, ContentTargets
<1>2. /\ UNCHANGED <<circle, member, ruleSets, creation, marks, counted, complaint, erased, raced, restored, extent>>
      /\ reporting' = StaleReports(t) /\ reviewing' = StaleReviews(t)
      /\ IsLive(t) /\ TakesOff(t, "author")
  BY DEF DeleteCircleComment, CommitsOn, circleVars
<1>3. NotMissing(t)
  BY <1>2 DEF IsLive, NotMissing
<1>4. /\ content' \in [ContentTargets -> ContentStates] /\ content'[t].author = content[t].author /\ NotMissing(t)'
      /\ \A s \in ContentTargets \ {t} : content'[s] = content[s]
      /\ comments' \in [CirclePosts -> Nat]
  BY <1>1, <1>2, <1>3, TargetAfter
<1>5. ContentCommitted(t)
  <2>1. /\ \A v \in CircleUsers : reporting'[v] \in ReportsUnderWay /\ ReportGoesOn(v, t)
        /\ \A a \in CircleAdmins : reviewing'[a] \in ReviewsUnderWay /\ ReviewGoesOn(a, t)
        /\ reporting' \in [CircleUsers -> ReportsUnderWay] /\ reviewing' \in [CircleAdmins -> ReviewsUnderWay]
    BY <1>1, <1>2, TransactionsGoOn
  <2> QED
    BY <1>1, <1>2, <1>4, <2>1 DEF ContentCommitted, RowsTyped, TransactionsTyped
<1>6. ~ IsLive(t)'
  BY <1>1, <1>2 DEF TakesOff, Removed, IsLive, RowsTyped, ContentStates
<1>7. Calm' => CountsAreExact'
  BY <1>1, <1>2, CountsAfter DEF ContentInv, CalmInv, Calm
<1> QED
  BY <1>1, <1>3, <1>5, <1>6, <1>7, CommitKeepsContent

LEMMA ReportCommits ==
    ASSUME ContentInv, NEW u \in CircleUsers, CommitReport(u)
    PROVE  ContentInv'
<1>1. CirclesTyped /\ RowsTyped /\ TransactionsTyped
  BY PartsOfContentTypes DEF ContentInv
<1>2. PICK t \in ContentTargets : reporting[u].target = {t} /\ NotMissing(t)
  BY DEF ContentInv, ReportsAreOfOne, CommitReport
<1>3. /\ reporting[u].pc = "reporting"
      /\ complaint' = [complaint EXCEPT ![u][t] = "pending"]
      /\ (reporting[u].hides => TakesOff(t, "reports")) /\ (~ reporting[u].hides => UNCHANGED <<content, comments>>)
      /\ reporting' = [StaleReports(t) EXCEPT ![u] = NoReporting] /\ reviewing' = StaleReviews(t)
      /\ raced' = raced \union (IF reporting[u].fresh THEN {} ELSE {t})
      /\ UNCHANGED <<circle, member, ruleSets, creation, marks, counted, erased, restored, extent>>
  BY <1>2 DEF CommitReport, circleVars
<1>4. /\ content' \in [ContentTargets -> ContentStates] /\ content'[t].author = content[t].author /\ NotMissing(t)'
      /\ \A s \in ContentTargets \ {t} : content'[s] = content[s]
      /\ comments' \in [CirclePosts -> Nat]
  <2>1. TakesOff(t, "reports") \/ UNCHANGED <<content, comments>>
    BY <1>3
  <2> QED
    BY <1>1, <1>2, <2>1, TargetAfter
<1>5. /\ complaint' \in [CircleUsers -> [ContentTargets -> Complaints]]
      /\ \A s \in ContentTargets \ {t} : \A v \in CircleUsers : complaint'[v][s] = complaint[v][s]
      /\ complaint'[u][t] = "pending" /\ \A v \in CircleUsers \ {u} : complaint'[v][t] = complaint[v][t]
  BY <1>1, <1>3 DEF RowsTyped, Complaints
<1>6. ContentCommitted(t)
  <2>1. /\ \A v \in CircleUsers : reporting'[v] \in ReportsUnderWay /\ ReportGoesOn(v, t)
        /\ \A a \in CircleAdmins : reviewing'[a] \in ReviewsUnderWay /\ ReviewGoesOn(a, t)
        /\ reporting' \in [CircleUsers -> ReportsUnderWay] /\ reviewing' \in [CircleAdmins -> ReviewsUnderWay]
    BY <1>1, <1>3, TransactionsGoOn
  <2>2. raced' \in SUBSET ContentTargets /\ raced \subseteq raced' /\ raced' \subseteq raced \union {t}
    BY <1>1, <1>3 DEF TransactionsTyped
  <2> QED
    BY <1>1, <1>3, <1>4, <1>5, <2>1, <2>2 DEF ContentCommitted, TransactionsTyped
<1>7. IsLive(t)' => ~ reporting[u].hides /\ IsLive(t)
  <2>1. TakesOff(t, "reports") => ~ IsLive(t)'
    BY <1>1 DEF TakesOff, Removed, IsLive, RowsTyped, ContentStates
  <2>2. UNCHANGED content => (IsLive(t)' <=> IsLive(t))
    BY DEF IsLive
  <2> QED
    BY <1>3, <2>1, <2>2
<1>8. ASSUME IsLive(t)', t \notin raced'
      PROVE  Cardinality(Pending(t)') < HidesAt
  <2>1. reporting[u].fresh /\ ~ reporting[u].hides
    BY <1>3, <1>7, <1>8
  <2>2. Pending(t)' = Pending(t) \union {u}
    BY <1>5 DEF Pending
  <2>3. ~ (Cardinality(Pending(t) \union {u}) >= HidesAt)
    BY <1>2, <1>3, <2>1 DEF ContentInv, FreshReportsHide, ReportsFreshly
  <2>4. Cardinality(Pending(t) \union {u}) \in Nat
    <3>1. Pending(t) \union {u} \in SUBSET CircleUsers
      BY DEF Pending
    <3> QED
      BY <3>1, UsersAndCommentsAreFinite
  <2> QED
    BY <2>2, <2>3, <2>4, UsersAndCommentsAreFinite
<1>9. ASSUME Calm'
      PROVE  CountsAreExact'
  <2>1. Calm /\ reporting[u].fresh
    BY <1>3, <1>9 DEF Calm
  <2>2. CountsAreExact /\ IsLive(t)
    BY <1>2, <1>3, <2>1 DEF ContentInv, CalmInv, FreshReportsKnow, ReportsFreshly
  <2> QED
    BY <1>1, <1>3, <2>2, CountsAfter
<1> QED
  BY <1>2, <1>6, <1>7, <1>8, <1>9, CommitKeepsContent

LEMMA ReviewCommits ==
    ASSUME ContentInv, NEW a \in CircleAdmins, CommitReview(a)
    PROVE  ContentInv'
<1>1. CirclesTyped /\ RowsTyped /\ TransactionsTyped
  BY PartsOfContentTypes DEF ContentInv
<1>2. PICK r \in reviewing[a].on :
        /\ \/ reviewing[a].acts /\ reviewing[a].pc = "remove" /\ TakesOff(r[2], "review") /\ UNCHANGED restored
           \/ reviewing[a].acts /\ reviewing[a].pc = "keep" /\ PutsBack(r[2])
           \/ ~ reviewing[a].acts /\ UNCHANGED <<content, comments, restored>>
        /\ Resolve(r[2])
        /\ reporting' = StaleReports(r[2])
        /\ reviewing' = [StaleReviews(r[2]) EXCEPT ![a] = NoReview]
        /\ raced' = raced \union (IF reviewing[a].fresh THEN {} ELSE {r[2]})
        /\ UNCHANGED <<circle, member, ruleSets, creation, marks, counted, erased, extent>>
  BY DEF CommitReview, circleVars
<1>3. PICK t \in ContentTargets : t = r[2] /\ NotMissing(t)
  BY <1>1 DEF ContentInv, ReviewsAreOfContent, TransactionsTyped, ReviewsUnderWay
<1>4. /\ content' \in [ContentTargets -> ContentStates] /\ content'[t].author = content[t].author /\ NotMissing(t)'
      /\ \A s \in ContentTargets \ {t} : content'[s] = content[s]
      /\ comments' \in [CirclePosts -> Nat]
  <2>1. TakesOff(t, "review") \/ PutsBack(t) \/ UNCHANGED <<content, comments>>
    BY <1>2, <1>3
  <2> QED
    BY <1>1, <1>3, <2>1, TargetAfter
<1>5. /\ complaint' \in [CircleUsers -> [ContentTargets -> Complaints]]
      /\ \A s \in ContentTargets \ {t} : \A v \in CircleUsers : complaint'[v][s] = complaint[v][s]
      /\ \A v \in CircleUsers : complaint'[v][t] # "pending"
  <2>1. complaint' = [v \in CircleUsers |-> [complaint[v] EXCEPT ![t] = IF @ = "pending" THEN "resolved" ELSE @]]
    BY <1>2, <1>3 DEF Resolve
  <2> QED
    BY <1>1, <2>1 DEF RowsTyped, Complaints
<1>6. /\ restored' \in SUBSET ContentTargets /\ restored \subseteq restored' /\ (PutsBack(t) => t \in restored')
  BY <1>1, <1>2, <1>3 DEF PutsBack, TransactionsTyped
<1>7. ContentCommitted(t)
  <2>1. /\ \A v \in CircleUsers : reporting'[v] \in ReportsUnderWay /\ ReportGoesOn(v, t)
        /\ \A b \in CircleAdmins : reviewing'[b] \in ReviewsUnderWay /\ ReviewGoesOn(b, t)
        /\ reporting' \in [CircleUsers -> ReportsUnderWay] /\ reviewing' \in [CircleAdmins -> ReviewsUnderWay]
    BY <1>1, <1>2, <1>3, TransactionsGoOn
  <2>2. raced' \in SUBSET ContentTargets /\ raced \subseteq raced' /\ raced' \subseteq raced \union {t}
    BY <1>1, <1>2, <1>3 DEF TransactionsTyped
  <2> QED
    BY <1>2, <1>4, <1>5, <1>6, <2>1, <2>2 DEF ContentCommitted
<1>8. IsLive(t)' => IsLive(t) \/ t \in restored'
  <2>1. TakesOff(t, "review") => ~ IsLive(t)'
    BY <1>1 DEF TakesOff, Removed, IsLive, RowsTyped, ContentStates
  <2>2. UNCHANGED content => (IsLive(t)' <=> IsLive(t))
    BY DEF IsLive
  <2> QED
    BY <1>2, <1>3, <1>6, <2>1, <2>2
<1>9. Cardinality(Pending(t)') < HidesAt
  <2>1. Pending(t)' = {}
    BY <1>5 DEF Pending
  <2>2. Cardinality(Pending(t)') = 0
    BY <2>1, FS_EmptySet
  <2> QED
    BY <2>2, UsersAndCommentsAreFinite
<1>10. ASSUME Calm'
       PROVE  CountsAreExact'
  <2>1. Calm /\ reviewing[a].fresh
    BY <1>2, <1>10 DEF Calm
  <2>2. /\ CountsAreExact
        /\ (reviewing[a].pc = "keep" => (reviewing[a].acts <=> Deleted(t)))
        /\ (reviewing[a].pc = "remove" => (reviewing[a].acts <=> IsLive(t)))
    BY <1>3, <2>1 DEF ContentInv, CalmInv, FreshReviewsKnow
  <2> QED
    BY <1>1, <1>2, <1>3, <2>2, CountsAfter
<1> QED
  BY <1>3, <1>7, <1>8, <1>9, <1>10, CommitKeepsContent

-----------------------------------------------------------------------------
(* Every step.                                                             *)

LEMMA ContentStep == ContentInv /\ [ContentNext]_contentVars => ContentInv'
<1> SUFFICES ASSUME ContentInv, [ContentNext]_contentVars PROVE ContentInv'
  OBVIOUS
<1>1. /\ extent.written \subseteq ContentTargets /\ extent.marked \subseteq ContentTargets
      /\ extent.reported \subseteq ContentTargets /\ extent.erased \subseteq CircleUsers /\ Home \in Circles
  BY PartsOfContentTypes, ContentAssumption DEF ContentInv, TransactionsTyped
<1>2. CirclePosts \subseteq ContentTargets /\ CircleComments \subseteq ContentTargets /\ Responses \subseteq ContentTargets
  BY DEF ContentTargets
<1>3. ASSUME NEW u \in CircleUsers \ erased,
             \/ Responding(u) \/ WritingComments(u) \/ Marking(u)
             \/ JoinCircle(u, Home) /\ UNCHANGED <<contentRows, transactions>>
             \/ LeaveCircle(u, Home) /\ UNCHANGED <<contentRows, transactions>>
      PROVE  ContentInv'
  <2>1. ASSUME NEW r \in Responses, CreateResponse(u, r)
        PROVE  ContentInv'
    <3>1. CountUp(r) = comments
      BY ContentAssumption DEF CountUp
    <3>2. AddsRow(u, r)
      BY <2>1, <3>1 DEF CreateResponse, AddsRow
    <3> QED
      BY <1>2, <3>2, AddingKeepsContent
  <2>2. ASSUME NEW p \in CirclePosts, CreateCirclePost(u, p)
        PROVE  ContentInv'
    <3>1. CountUp(p) = comments
      BY ContentAssumption DEF CountUp
    <3>2. AddsRow(u, p)
      BY <2>2, <3>1 DEF CreateCirclePost, AddsRow
    <3> QED
      BY <1>2, <3>2, AddingKeepsContent
  <2>3. ASSUME NEW c \in CircleComments, CreateCircleComment(u, c)
        PROVE  ContentInv'
    <3>1. AddsRow(u, c)
      BY <2>3 DEF CreateCircleComment, AddsRow
    <3> QED
      BY <1>2, <3>1, AddingKeepsContent
  <2>4. ASSUME NEW c \in CircleComments, DeleteCircleComment(u, c)
        PROVE  ContentInv'
    BY <2>4, DeletionKeepsContent
  <2>5. ASSUME NEW t \in ContentTargets, Mark(u, t) \/ Unmark(u, t)
        PROVE  ContentInv'
    BY <2>5, MarkingKeepsContent
  <2>6. ASSUME NEW t \in ContentTargets, ReportCircleContent(u, t)
        PROVE  ContentInv'
    BY <2>6, ReportBegins
  <2>7. CASE CommitReport(u)
    BY <2>7, ReportCommits
  <2>9. ASSUME NEW t \in ContentTargets, ReportAgain(u, t)
        PROVE  ContentInv'
    BY <2>9, HidingAgainKeepsContent
  <2>8. CASE (JoinCircle(u, Home) \/ LeaveCircle(u, Home)) /\ UNCHANGED <<contentRows, transactions>>
    <3>1. CirclesNext
      BY <1>1, <2>8 DEF CirclesNext, Membership
    <3> QED
      BY <2>8, <3>1, CirclesKeepContent
  <2> QED
    BY <1>1, <1>3, <2>1, <2>2, <2>3, <2>4, <2>5, <2>6, <2>7, <2>8, <2>9 DEF Responding, WritingComments, Marking
<1>4. CASE Dashboard
  <2>1. ASSUME NEW a \in CircleAdmins, NEW u \in CircleUsers, NEW t \in ContentTargets, NEW decision \in {"keep", "remove"},
               OpenReview(a, u, t, decision)
        PROVE  ContentInv'
    BY <2>1, ReviewBegins
  <2>2. ASSUME NEW a \in CircleAdmins, CommitReview(a) \/ AbortReview(a)
        PROVE  ContentInv'
    BY <2>2, ReviewCommits, ReviewAborts
  <2>3. CASE ManageCircles /\ UNCHANGED <<contentRows, transactions>>
    <3>1. CirclesNext
      BY <2>3 DEF CirclesNext
    <3> QED
      BY <2>3, <3>1, CirclesKeepContent
  <2>4. ASSUME NEW u \in CircleUsers, EraseUser(u)
        PROVE  ContentInv'
    BY <2>4, TeardownKeepsContent
  <2> QED
    BY <1>1, <1>4, <2>1, <2>2, <2>3, <2>4 DEF Dashboard
<1>5. CASE UNCHANGED contentVars
  <2>1. UNCHANGED <<circle, member, ruleSets, creation, content, comments, marks, counted, complaint, erased,
                    reporting, reviewing, raced, restored, extent>>
    BY <1>5 DEF contentVars, circleVars, contentRows, transactions
  <2>2. ContentTyped'
    BY <2>1 DEF ContentInv, ContentTyped, CirclesTyped, RowsTyped, TransactionsTyped
  <2>3. MarksAreCounted'
    BY <2>1 DEF ContentInv, MarksAreCounted, MarkersOf
  <2> QED
    BY <2>1, <2>2, <2>3, OthersKeepContent
<1> QED
  BY <1>3, <1>4, <1>5 DEF ContentNext, Members

-----------------------------------------------------------------------------
(* What users have hidden.  A row that is dropped is the oldest, and all   *)
(* that are left were hidden since.                                        *)

HiddenInOrder(q, f) ==
    /\ Len(q) <= KeepsHidden
    /\ \A i, j \in 1 .. Len(q) : i < j => q[i] # q[j] /\ q[j] \in f[q[i]]
    /\ \A t \in ContentTargets : IsFiniteSet(f[t])
KeptOrCrowdedOut(q, f, t) == (\E i \in 1 .. Len(q) : q[i] = t) \/ Cardinality(f[t]) >= KeepsHidden

HiddenInv ==
    /\ HiddenRowsTyped
    /\ \A u \in CircleUsers :
        /\ HiddenInOrder(hiddenRows[u], since[u])
        /\ u \notin erased =>
            \A t \in ContentTargets : complaint[u][t] # "none" => KeptOrCrowdedOut(hiddenRows[u], since[u], t)

LEMMA RowsAreMany ==
    ASSUME NEW S, IsFiniteSet(S), NEW n \in Nat, NEW q, \A i \in 1 .. n : q[i] \in S,
           \A i, j \in 1 .. n : i < j => q[i] # q[j]
    PROVE  Cardinality(S) >= n
<1> DEFINE g == [i \in 1 .. n |-> q[i]]
<1>1. g \in Injection(1 .. n, S)
  <2>1. g \in [1 .. n -> S]
    OBVIOUS
  <2>2. ASSUME NEW i \in 1 .. n, NEW j \in 1 .. n, g[i] = g[j]
        PROVE  i = j
    <3>1. q[i] = q[j]
      BY <2>2
    <3>2. ~ (i < j) /\ ~ (j < i)
      BY <3>1
    <3> QED
      BY <3>2
  <2> QED
    BY <2>1, <2>2 DEF Injection, IsInjective
<1> HIDE DEF g
<1>2. Cardinality(1 .. n) <= Cardinality(S)
  BY <1>1, FS_Injection
<1>3. Cardinality(1 .. n) = n
  <2>1. Cardinality(1 .. n) = IF 1 > n THEN 0 ELSE n - 1 + 1
    BY FS_Interval
  <2> QED
    BY <2>1
<1>4. Cardinality(S) \in Nat
  BY FS_CardinalityType
<1> QED
  BY <1>2, <1>3, <1>4

\* One target more is hidden, and the oldest row dropped if there is no room.
OneMoreHidden(q, f, t, d, q2, f2) ==
    /\ q2 \in Seq(ContentTargets) /\ Len(q2) = Len(q) - d + 1 /\ q2[Len(q2)] = t
    /\ \A i \in 1 .. Len(q) - d : q2[i] = q[i + d]
    /\ f2 \in [ContentTargets -> SUBSET ContentTargets]
    /\ \A x \in ContentTargets : f2[x] = (IF x = t THEN {} ELSE f[x] \union {t})

LEMMA RowIsAppended ==
    ASSUME NEW q \in Seq(ContentTargets), NEW f \in [ContentTargets -> SUBSET ContentTargets], NEW t \in ContentTargets,
           Len(q) <= KeepsHidden
    PROVE  LET q2 == Append(IF Len(q) < KeepsHidden THEN q ELSE Tail(q), t)
               f2 == [x \in ContentTargets |-> IF x = t THEN {} ELSE f[x] \union {t}]
           IN  \E d \in {0, 1} : (d = 1 <=> Len(q) = KeepsHidden) /\ OneMoreHidden(q, f, t, d, q2, f2)
<1> DEFINE b == IF Len(q) < KeepsHidden THEN q ELSE Tail(q)
           d == IF Len(q) < KeepsHidden THEN 0 ELSE 1
           q2 == Append(b, t)
           f2 == [x \in ContentTargets |-> IF x = t THEN {} ELSE f[x] \union {t}]
<1>1. KeepsHidden \in Nat \ {0} /\ Len(q) \in Nat /\ d \in {0, 1} /\ (d = 1 <=> Len(q) = KeepsHidden)
  BY ContentAssumption, LenProperties
<1>2. b \in Seq(ContentTargets) /\ Len(b) = Len(q) - d /\ \A i \in 1 .. Len(b) : b[i] = q[i + d]
  <2>1. CASE Len(q) < KeepsHidden
    <3>1. b = q /\ d = 0
      BY <2>1
    <3> HIDE DEF b, d
    <3> QED
      BY <1>1, <3>1
  <2>2. CASE ~ (Len(q) < KeepsHidden)
    <3>1. b = Tail(q) /\ d = 1
      BY <2>2
    <3>2. q # <<>>
      BY <1>1, <2>2, EmptySeq
    <3>3. /\ Tail(q) \in Seq(ContentTargets) /\ Len(Tail(q)) = Len(q) - 1
          /\ \A i \in 1 .. Len(Tail(q)) : Tail(q)[i] = q[i + 1]
      BY <3>2, HeadTailProperties
    <3> HIDE DEF b, d
    <3> QED
      BY <3>1, <3>3
  <2> QED
    BY <2>1, <2>2
<1> HIDE DEF b, d
<1>3. /\ q2 \in Seq(ContentTargets) /\ Len(q2) = Len(b) + 1
      /\ \A i \in 1 .. Len(b) : q2[i] = b[i]
      /\ q2[Len(b) + 1] = t
  BY <1>2, AppendProperties
<1>4. f2 \in [ContentTargets -> SUBSET ContentTargets] /\ \A x \in ContentTargets : f2[x] = (IF x = t THEN {} ELSE f[x] \union {t})
  OBVIOUS
<1> HIDE DEF q2, f2
<1>5. OneMoreHidden(q, f, t, d, q2, f2)
  BY <1>1, <1>2, <1>3, <1>4 DEF OneMoreHidden
<1>6. q2 = Append(IF Len(q) < KeepsHidden THEN q ELSE Tail(q), t)
  BY DEF q2, b
<1> QED
  BY <1>1, <1>5, <1>6 DEF f2

LEMMA OneMoreInOrder ==
    ASSUME NEW q \in Seq(ContentTargets), NEW f \in [ContentTargets -> SUBSET ContentTargets], NEW t \in ContentTargets,
           HiddenInOrder(q, f), \A i \in 1 .. Len(q) : q[i] # t,
           NEW d \in {0, 1}, d = 1 <=> Len(q) = KeepsHidden, NEW q2, NEW f2, OneMoreHidden(q, f, t, d, q2, f2)
    PROVE  /\ HiddenInOrder(q2, f2) /\ KeptOrCrowdedOut(q2, f2, t)
           /\ \A x \in ContentTargets : KeptOrCrowdedOut(q, f, x) => KeptOrCrowdedOut(q2, f2, x)
<1>1. KeepsHidden \in Nat \ {0} /\ Len(q) \in Nat /\ Len(q) <= KeepsHidden
  BY ContentAssumption, LenProperties DEF HiddenInOrder
<1>2. /\ Len(q2) = Len(q) - d + 1 /\ q2[Len(q2)] = t /\ \A i \in 1 .. Len(q) - d : q2[i] = q[i + d]
      /\ Len(q2) \in Nat \ {0} /\ Len(q2) <= KeepsHidden
  BY <1>1 DEF OneMoreHidden
<1>3. ASSUME NEW i \in 1 .. Len(q2), i # Len(q2)
      PROVE  i + d \in 1 .. Len(q) /\ q2[i] = q[i + d]
  <2>1. i \in 1 .. Len(q) - d
    BY <1>1, <1>2, <1>3
  <2>2. i + d \in 1 .. Len(q)
    BY <1>1, <2>1
  <2> QED
    BY <1>2, <2>1, <2>2
<1>4. \A x \in ContentTargets : x # t => f2[x] = f[x] \union {t}
  BY DEF OneMoreHidden
<1>5. \A i \in 1 .. Len(q) : q[i] \in ContentTargets /\ q[i] # t
  BY ElementOfSeq
<1>6. ASSUME NEW i \in 1 .. Len(q2), NEW j \in 1 .. Len(q2), i < j
      PROVE  q2[i] # q2[j] /\ q2[j] \in f2[q2[i]]
  <2>1. i + d \in 1 .. Len(q) /\ q2[i] = q[i + d]
    BY <1>2, <1>3, <1>6
  <2>2. f2[q2[i]] = f[q2[i]] \union {t} /\ q2[i] # t
    BY <1>4, <1>5, <2>1
  <2>3. CASE j = Len(q2)
    BY <1>2, <2>2, <2>3
  <2>4. CASE j # Len(q2)
    <3>1. j + d \in 1 .. Len(q) /\ q2[j] = q[j + d] /\ i + d < j + d
      BY <1>3, <1>6, <2>4
    <3>2. q[i + d] # q[j + d] /\ q[j + d] \in f[q[i + d]]
      BY <2>1, <3>1 DEF HiddenInOrder
    <3> QED
      BY <2>1, <2>2, <3>1, <3>2
  <2> QED
    BY <2>3, <2>4
<1>7. \A x \in ContentTargets : IsFiniteSet(f2[x])
  <2> SUFFICES ASSUME NEW x \in ContentTargets PROVE IsFiniteSet(f2[x])
    OBVIOUS
  <2>1. IsFiniteSet({}) /\ IsFiniteSet(f[x] \union {t})
    BY FS_EmptySet, FS_AddElement DEF HiddenInOrder
  <2>2. f2[x] = {} \/ f2[x] = f[x] \union {t}
    BY DEF OneMoreHidden
  <2> QED
    BY <2>1, <2>2
<1>8. HiddenInOrder(q2, f2)
  BY <1>2, <1>6, <1>7 DEF HiddenInOrder
<1>9. KeptOrCrowdedOut(q2, f2, t)
  BY <1>2 DEF KeptOrCrowdedOut
<1>10. ASSUME NEW x \in ContentTargets, x # t, Cardinality(f[x]) >= KeepsHidden
       PROVE  Cardinality(f2[x]) >= KeepsHidden
  <2>1. f[x] \in SUBSET f2[x] /\ IsFiniteSet(f2[x]) /\ IsFiniteSet(f[x])
    BY <1>4, <1>7, <1>10 DEF HiddenInOrder
  <2>2. Cardinality(f[x]) <= Cardinality(f2[x]) /\ Cardinality(f[x]) \in Nat /\ Cardinality(f2[x]) \in Nat
    BY <2>1, FS_Subset, FS_CardinalityType
  <2> QED
    BY <1>1, <1>10, <2>2
<1>11. ASSUME NEW x \in ContentTargets, x # t, NEW i \in 1 .. Len(q), q[i] = x
       PROVE  KeptOrCrowdedOut(q2, f2, x)
  <2>1. CASE i > d
    <3>1. i - d \in 1 .. Len(q2) /\ q2[i - d] = q[(i - d) + d]
      BY <1>1, <1>2, <2>1
    <3>2. (i - d) + d = i
      OBVIOUS
    <3> QED
      BY <1>11, <3>1, <3>2 DEF KeptOrCrowdedOut
  <2>2. CASE ~ (i > d)
    <3>1. i = 1 /\ d = 1 /\ Len(q) = KeepsHidden /\ Len(q2) = KeepsHidden
      BY <1>1, <1>2, <2>2
    <3>2. \A j \in 1 .. Len(q2) : q2[j] \in f2[x]
      <4> SUFFICES ASSUME NEW j \in 1 .. Len(q2) PROVE q2[j] \in f2[x]
        OBVIOUS
      <4>1. f2[x] = f[x] \union {t}
        BY <1>4, <1>11
      <4>2. CASE j = Len(q2)
        BY <1>2, <4>1, <4>2
      <4>3. CASE j # Len(q2)
        <5>1. j + 1 \in 1 .. Len(q) /\ q2[j] = q[j + 1] /\ 1 < j + 1 /\ 1 \in 1 .. Len(q)
          BY <1>1, <1>3, <3>1, <4>3
        <5>2. q[j + 1] \in f[q[1]]
          BY <5>1 DEF HiddenInOrder
        <5> QED
          BY <1>11, <3>1, <4>1, <5>1, <5>2
      <4> QED
        BY <4>2, <4>3
    <3>3. Cardinality(f2[x]) >= Len(q2)
      BY <1>2, <1>6, <1>7, <3>2, RowsAreMany
    <3> QED
      BY <3>1, <3>3 DEF KeptOrCrowdedOut
  <2> QED
    BY <2>1, <2>2
<1>12. ASSUME NEW x \in ContentTargets, KeptOrCrowdedOut(q, f, x)
       PROVE  KeptOrCrowdedOut(q2, f2, x)
  <2>1. CASE x = t
    BY <1>9, <2>1
  <2>2. CASE x # t
    BY <1>10, <1>11, <1>12, <2>2 DEF KeptOrCrowdedOut
  <2> QED
    BY <2>1, <2>2
<1> QED
  BY <1>8, <1>9, <1>12

LEMMA HidesInOrder ==
    ASSUME HiddenRowsTyped, NEW u \in CircleUsers, NEW t \in ContentTargets, HiddenInOrder(hiddenRows[u], since[u]), Hides(u, t)
    PROVE  /\ HiddenRowsTyped' /\ HiddenInOrder(hiddenRows'[u], since'[u]) /\ KeptOrCrowdedOut(hiddenRows'[u], since'[u], t)
           /\ \A x \in ContentTargets :
                KeptOrCrowdedOut(hiddenRows[u], since[u], x) => KeptOrCrowdedOut(hiddenRows'[u], since'[u], x)
           /\ \A v \in CircleUsers \ {u} : hiddenRows'[v] = hiddenRows[v] /\ since'[v] = since[v]
<1>1. /\ hiddenRows[u] \in Seq(ContentTargets) /\ since[u] \in [ContentTargets -> SUBSET ContentTargets]
      /\ Len(hiddenRows[u]) \in Nat /\ DOMAIN hiddenRows[u] = 1 .. Len(hiddenRows[u])
  <2>1. hiddenRows[u] \in Seq(ContentTargets) /\ since[u] \in [ContentTargets -> SUBSET ContentTargets]
    BY DEF HiddenRowsTyped
  <2> QED
    BY <2>1, LenProperties
<1>2. CASE t \in HiddenFor(u)
  <2>1. UNCHANGED <<hiddenRows, since>>
    BY <1>2 DEF Hides
  <2>2. KeptOrCrowdedOut(hiddenRows[u], since[u], t)
    BY <1>1, <1>2 DEF HiddenFor, KeptOrCrowdedOut
  <2> QED
    BY <2>1, <2>2 DEF HiddenRowsTyped
<1>3. CASE t \notin HiddenFor(u)
  <2> DEFINE q2 == Append(IF Len(hiddenRows[u]) < KeepsHidden THEN hiddenRows[u] ELSE Tail(hiddenRows[u]), t)
             f2 == [x \in ContentTargets |-> IF x = t THEN {} ELSE since[u][x] \union {t}]
  <2>1. hiddenRows' = [hiddenRows EXCEPT ![u] = q2] /\ since' = [since EXCEPT ![u] = f2]
    BY <1>3 DEF Hides
  <2>2. PICK d \in {0, 1} : (d = 1 <=> Len(hiddenRows[u]) = KeepsHidden) /\ OneMoreHidden(hiddenRows[u], since[u], t, d, q2, f2)
    <3>1. Len(hiddenRows[u]) <= KeepsHidden
      BY DEF HiddenInOrder
    <3> QED
      BY <1>1, <3>1, RowIsAppended
  <2> HIDE DEF q2, f2
  <2>3. \A i \in 1 .. Len(hiddenRows[u]) : hiddenRows[u][i] # t
    BY <1>1, <1>3 DEF HiddenFor
  <2>4. /\ HiddenInOrder(q2, f2) /\ KeptOrCrowdedOut(q2, f2, t)
        /\ \A x \in ContentTargets : KeptOrCrowdedOut(hiddenRows[u], since[u], x) => KeptOrCrowdedOut(q2, f2, x)
    BY <1>1, <2>2, <2>3, OneMoreInOrder
  <2>5. q2 \in Seq(ContentTargets) /\ f2 \in [ContentTargets -> SUBSET ContentTargets]
    BY <2>2 DEF OneMoreHidden
  <2>6. hiddenRows'[u] = q2 /\ since'[u] = f2 /\ \A v \in CircleUsers \ {u} : hiddenRows'[v] = hiddenRows[v] /\ since'[v] = since[v]
    BY <2>1 DEF HiddenRowsTyped
  <2>7. HiddenRowsTyped'
    BY <2>1, <2>5 DEF HiddenRowsTyped
  <2> QED
    BY <2>4, <2>6, <2>7
<1> QED
  BY <1>2, <1>3

LEMMA HiddenStart == ContentInit => HiddenInv
<1> SUFFICES ASSUME ContentInit PROVE HiddenInv
  OBVIOUS
<1>1. <<>> \in Seq(ContentTargets) /\ Len(<<>>) = 0 /\ IsFiniteSet({}) /\ KeepsHidden \in Nat
  BY EmptySeq, FS_EmptySet, ContentAssumption
<1>2. \A u \in CircleUsers : hiddenRows[u] = <<>> /\ \A t \in ContentTargets : since[u][t] = {} /\ complaint[u][t] = "none"
  BY DEF ContentInit
<1>3. HiddenRowsTyped
  BY <1>1 DEF ContentInit, HiddenRowsTyped
<1>4. ASSUME NEW u \in CircleUsers
      PROVE  HiddenInOrder(hiddenRows[u], since[u])
  <2>1. Len(hiddenRows[u]) = 0 /\ \A t \in ContentTargets : IsFiniteSet(since[u][t])
    BY <1>1, <1>2
  <2> QED
    BY <1>1, <2>1 DEF HiddenInOrder
<1> QED
  BY <1>2, <1>3, <1>4 DEF HiddenInv

\* What hides nothing.
HidesNothing ==
    /\ UNCHANGED <<hiddenRows, since, erased>>
    /\ \A u \in CircleUsers, t \in ContentTargets : complaint'[u][t] # "none" => complaint[u][t] # "none"

LEMMA HidingNothingKeeps == ASSUME HiddenInv, HidesNothing PROVE HiddenInv'
  BY DEF HiddenInv, HidesNothing, HiddenRowsTyped

LEMMA HidingKeepsHidden ==
    ASSUME HiddenInv, NEW u \in CircleUsers, NEW t \in ContentTargets, Hides(u, t), UNCHANGED erased,
           \A v \in CircleUsers, x \in ContentTargets :
                complaint'[v][x] # "none" => complaint[v][x] # "none" \/ (v = u /\ x = t)
    PROVE  HiddenInv'
<1>1. HiddenRowsTyped /\ HiddenInOrder(hiddenRows[u], since[u])
  BY DEF HiddenInv
<1>2. /\ HiddenRowsTyped' /\ HiddenInOrder(hiddenRows'[u], since'[u]) /\ KeptOrCrowdedOut(hiddenRows'[u], since'[u], t)
      /\ \A x \in ContentTargets :
           KeptOrCrowdedOut(hiddenRows[u], since[u], x) => KeptOrCrowdedOut(hiddenRows'[u], since'[u], x)
      /\ \A v \in CircleUsers \ {u} : hiddenRows'[v] = hiddenRows[v] /\ since'[v] = since[v]
  BY <1>1, HidesInOrder
<1>3. ASSUME NEW v \in CircleUsers
      PROVE  /\ HiddenInOrder(hiddenRows'[v], since'[v])
             /\ v \notin erased => \A x \in ContentTargets :
                    complaint'[v][x] # "none" => KeptOrCrowdedOut(hiddenRows'[v], since'[v], x)
  <2>1. CASE v = u
    BY <1>2, <2>1 DEF HiddenInv
  <2>2. CASE v # u
    BY <1>2, <2>2 DEF HiddenInv
  <2> QED
    BY <2>1, <2>2
<1> QED
  BY <1>2, <1>3 DEF HiddenInv

LEMMA TeardownKeepsHidden ==
    ASSUME HiddenInv, NEW u \in CircleUsers, EraseUser(u)
    PROVE  HiddenInv'
<1>1. /\ hiddenRows' = [hiddenRows EXCEPT ![u] = <<>>] /\ since' = since /\ erased' = erased \union {u}
      /\ complaint' = [complaint EXCEPT ![u] = [t \in ContentTargets |-> "none"]]
  BY DEF EraseUser
<1>2. <<>> \in Seq(ContentTargets) /\ Len(<<>>) = 0 /\ KeepsHidden \in Nat
  BY EmptySeq, ContentAssumption
<1>3. HiddenRowsTyped'
  BY <1>1, <1>2 DEF HiddenInv, HiddenRowsTyped
<1>4. ASSUME NEW v \in CircleUsers
      PROVE  /\ HiddenInOrder(hiddenRows'[v], since'[v])
             /\ v \notin erased' => \A x \in ContentTargets :
                    complaint'[v][x] # "none" => KeptOrCrowdedOut(hiddenRows'[v], since'[v], x)
  <2>1. CASE v = u
    <3>1. hiddenRows'[v] = <<>> /\ v \in erased'
      BY <1>1, <2>1 DEF HiddenInv, HiddenRowsTyped
    <3>2. HiddenInOrder(<<>>, since[v])
      BY <1>2 DEF HiddenInv, HiddenInOrder
    <3> QED
      BY <1>1, <3>1, <3>2
  <2>2. CASE v # u
    <3>1. hiddenRows'[v] = hiddenRows[v] /\ \A x : complaint'[v][x] # "none" => complaint[v][x] # "none"
      BY <1>1, <2>2 DEF HiddenInv, HiddenRowsTyped
    <3> QED
      BY <1>1, <3>1 DEF HiddenInv
  <2> QED
    BY <2>1, <2>2
<1> QED
  BY <1>3, <1>4 DEF HiddenInv

LEMMA HiddenStep == ContentTyped /\ HiddenInv /\ [ContentNext]_contentVars => HiddenInv'
<1> SUFFICES ASSUME ContentTyped, HiddenInv, [ContentNext]_contentVars PROVE HiddenInv'
  OBVIOUS
<1>1. /\ RowsTyped /\ TransactionsTyped
      /\ extent.reported \subseteq ContentTargets /\ extent.erased \subseteq CircleUsers
  BY ContentAssumption DEF ContentTyped, TransactionsTyped
<1>2. ASSUME NEW u \in CircleUsers, NEW t \in ContentTargets, ReportAgain(u, t)
      PROVE  HiddenInv'
  BY <1>2, HidingKeepsHidden DEF ReportAgain
<1>3. ASSUME NEW u \in CircleUsers, CommitReport(u)
      PROVE  HiddenInv'
  <2>1. PICK t \in reporting[u].target :
            complaint' = [complaint EXCEPT ![u][t] = "pending"] /\ Hides(u, t) /\ UNCHANGED erased
    BY <1>3 DEF CommitReport
  <2>2. t \in ContentTargets
    BY <1>1 DEF TransactionsTyped, ReportsUnderWay
  <2>3. \A v \in CircleUsers, x \in ContentTargets :
            complaint'[v][x] # "none" => complaint[v][x] # "none" \/ (v = u /\ x = t)
    BY <1>1, <2>1, <2>2 DEF RowsTyped
  <2> QED
    BY <2>1, <2>2, <2>3, HidingKeepsHidden
<1>4. ASSUME NEW u \in CircleUsers, EraseUser(u)
      PROVE  HiddenInv'
  BY <1>4, TeardownKeepsHidden
<1>5. ASSUME NEW a \in CircleAdmins, CommitReview(a)
      PROVE  HidesNothing
  <2>1. PICK r \in reviewing[a].on : Resolve(r[2]) /\ UNCHANGED <<hiddenRows, since, erased>>
    BY <1>5 DEF CommitReview
  <2>2. r[2] \in ContentTargets
    BY <1>1 DEF TransactionsTyped, ReviewsUnderWay
  <2>3. \A v \in CircleUsers, x \in ContentTargets : complaint'[v][x] # "none" => complaint[v][x] # "none"
    BY <1>1, <2>1, <2>2 DEF RowsTyped, Resolve
  <2> QED
    BY <2>1, <2>3 DEF HidesNothing
<1>6. ASSUME NEW u \in CircleUsers \ erased,
             \/ WritingComments(u) \/ Marking(u)
             \/ \E r \in Responses \intersect extent.written : CreateResponse(u, r)
             \/ \E t \in extent.reported : ReportCircleContent(u, t)
             \/ \E p \in CirclePosts \intersect extent.written : CreateCirclePost(u, p)
             \/ UNCHANGED <<contentRows, transactions>>
      PROVE  HidesNothing
  BY <1>6 DEF HidesNothing, WritingComments, Marking, CreateResponse, ReportCircleContent, CreateCirclePost, CreateCircleComment,
              DeleteCircleComment, Mark, Unmark, contentRows
<1>7. ASSUME NEW a \in CircleAdmins, NEW u \in CircleUsers, NEW t \in ContentTargets, NEW decision \in {"keep", "remove"},
             OpenReview(a, u, t, decision) \/ AbortReview(a)
      PROVE  HidesNothing
  BY <1>7 DEF HidesNothing, OpenReview, AbortReview, contentRows
<1>8. CASE UNCHANGED contentVars
  <2>1. HidesNothing
    BY <1>8 DEF contentVars, contentRows, HidesNothing
  <2> QED
    BY <2>1, HidingNothingKeeps
<1>9. CASE Members
  <2>1. PICK u \in CircleUsers \ erased :
            \/ Responding(u) \/ WritingComments(u) \/ Marking(u)
            \/ JoinCircle(u, Home) /\ UNCHANGED <<contentRows, transactions>>
            \/ LeaveCircle(u, Home) /\ UNCHANGED <<contentRows, transactions>>
    BY <1>9 DEF Members
  <2> QED
    BY <1>1, <1>2, <1>3, <1>6, <2>1, HidingNothingKeeps DEF Responding
<1>10. CASE Dashboard
  <2>1. CASE \E a \in CircleAdmins : AbortReview(a)
    <3>1. HidesNothing
      BY <2>1 DEF AbortReview, HidesNothing, contentRows
    <3> QED
      BY <3>1, HidingNothingKeeps
  <2>2. CASE UNCHANGED <<contentRows, transactions>>
    <3>1. HidesNothing
      BY <2>2 DEF HidesNothing, contentRows
    <3> QED
      BY <3>1, HidingNothingKeeps
  <2>3. CASE \E a \in CircleAdmins : CommitReview(a)
    BY <1>5, <2>3, HidingNothingKeeps
  <2>4. CASE \E u \in extent.erased : EraseUser(u)
    BY <1>1, <1>4, <2>4
  <2>5. CASE \E a \in CircleAdmins, u \in CircleUsers, t \in ContentTargets, decision \in {"keep", "remove"} :
                OpenReview(a, u, t, decision)
    BY <1>7, <2>5, HidingNothingKeeps
  <2> QED
    BY <1>10, <2>1, <2>2, <2>3, <2>4, <2>5 DEF Dashboard
<1> QED
  BY <1>8, <1>9, <1>10 DEF ContentNext

-----------------------------------------------------------------------------
(* What reviews decide.  A review holds a report that stays pending until  *)
(* it ends, so no other review of its target commits before.               *)

ReviewIsSound(a) ==
    \/ reviewing[a].on = {}
    \/ \E u \in CircleUsers, t \in ContentTargets :
        /\ reviewing[a].on = {<<u, t>>} /\ complaint[u][t] = "pending" /\ reviewing[a].pc \in {"keep", "remove"}
        /\ reviewing[a].pc = "remove" /\ ~ reviewing[a].acts => ~ IsLive(t)
        /\ reviewing[a].pc = "keep" /\ reviewing[a].fresh /\ erased = {} => (reviewing[a].acts <=> Deleted(t))
HeldByOne == \A a, b \in CircleAdmins : a # b => reviewing[a].on \intersect reviewing[b].on = {}

DecidedStands(t) ==
    /\ decided[t] # "nothing" => NotMissing(t)
    /\ content[t].by # "nobody" => Deleted(t)
    /\ decided[t] = "remove" => ~ IsLive(t)
    /\ decided[t] = "keep" /\ erased = {} /\ content[t].by = "reports" /\ Pending(t) = {} => t \in raced

DecisionInv ==
    /\ DecidedTyped /\ HeldByOne
    /\ \A a \in CircleAdmins : ReviewIsSound(a)
    /\ \A t \in ContentTargets : DecidedStands(t)

LEMMA DecisionsStart == ContentInit => DecisionInv
<1> SUFFICES ASSUME ContentInit PROVE DecisionInv
  OBVIOUS
<1>1. \A a \in CircleAdmins : reviewing[a].on = {}
  BY DEF ContentInit, NoReview
<1>2. \A t \in ContentTargets : content[t].by = "nobody" /\ decided[t] = "nothing"
  BY DEF ContentInit, Missing
<1>3. DecidedTyped
  BY DEF ContentInit, DecidedTyped
<1> QED
  BY <1>1, <1>2, <1>3 DEF DecisionInv, HeldByOne, ReviewIsSound, DecidedStands

\* What decides nothing, and nothing that was decided is about.
DecidesNothing == UNCHANGED <<content, complaint, erased, reviewing, decided, raced>>

LEMMA DecidingNothingKeeps == ASSUME DecisionInv, DecidesNothing PROVE DecisionInv'
<1>1. HeldByOne' /\ DecidedTyped'
  BY DEF DecisionInv, DecidesNothing, HeldByOne, DecidedTyped
<1>2. \A a \in CircleAdmins : ReviewIsSound(a)'
  BY DEF DecisionInv, DecidesNothing, ReviewIsSound, IsLive, Deleted
<1>3. \A t \in ContentTargets : DecidedStands(t)'
  BY DEF DecisionInv, DecidesNothing, DecidedStands, NotMissing, IsLive, Deleted, Pending
<1> QED
  BY <1>1, <1>2, <1>3 DEF DecisionInv

LEMMA AddingKeepsDecisions ==
    ASSUME ContentInv, DecisionInv, NEW u \in CircleUsers, NEW t \in ContentTargets, content[t] = Missing, WritesRow(t, "live", u),
           UNCHANGED <<complaint, erased, reviewing, decided, raced>>
    PROVE  DecisionInv'
<1>1. \A s \in ContentTargets \ {t} : content'[s] = content[s]
  BY DEF WritesRow, ContentInv, ContentTyped, RowsTyped
<1>2. content'[t] = [state |-> "live", author |-> {u}, by |-> "nobody"] /\ decided[t] = "nothing"
  BY DEF WritesRow, ContentInv, ContentTyped, RowsTyped, DecisionInv, DecidedStands, NotMissing, Missing
<1>3. \A v \in CircleUsers : complaint[v][t] = "none"
  BY DEF ContentInv, MissingIsUnreported, NotMissing, Missing
<1>4. HeldByOne' /\ DecidedTyped'
  BY DEF DecisionInv, HeldByOne, DecidedTyped
<1>5. ASSUME NEW a \in CircleAdmins
      PROVE  ReviewIsSound(a)'
  BY <1>1, <1>3 DEF DecisionInv, ReviewIsSound, IsLive, Deleted
<1>6. ASSUME NEW s \in ContentTargets
      PROVE  DecidedStands(s)'
  <2>1. CASE s = t
    BY <1>2, <2>1 DEF DecidedStands
  <2>2. CASE s # t
    BY <1>1, <2>2 DEF DecisionInv, DecidedStands, NotMissing, IsLive, Deleted, Pending
  <2> QED
    BY <2>1, <2>2
<1> QED
  BY <1>4, <1>5, <1>6 DEF DecisionInv

LEMMA OpeningKeepsDecisions ==
    ASSUME TransactionsTyped, DecisionInv, NEW a \in CircleAdmins, NEW u \in CircleUsers, NEW t \in ContentTargets,
           NEW decision \in {"keep", "remove"}, OpenReview(a, u, t, decision)
    PROVE  DecisionInv'
<1> DEFINE acts == IF decision = "keep" THEN Deleted(t) ELSE IsLive(t)
<1>1. /\ UNCHANGED <<content, complaint, erased, decided, raced>> /\ complaint[u][t] = "pending" /\ <<u, t>> \notin Held
      /\ reviewing' = [reviewing EXCEPT ![a] = Opened(decision, u, t, acts)]
  BY DEF OpenReview, contentRows
<1>2. reviewing'[a] = Opened(decision, u, t, acts) /\ \A b \in CircleAdmins \ {a} : reviewing'[b] = reviewing[b]
  BY <1>1 DEF TransactionsTyped
<1>3. \A b \in CircleAdmins : <<u, t>> \notin reviewing[b].on
  BY <1>1 DEF Held
<1>4. reviewing'[a].on = {<<u, t>>} /\ reviewing'[a].pc = decision /\ (reviewing'[a].acts <=> acts)
  <2>1. acts \in BOOLEAN
    BY DEF Deleted, IsLive
  <2> HIDE DEF acts
  <2> QED
    BY <1>2, <2>1 DEF Opened
<1>5. ASSUME NEW b \in CircleAdmins
      PROVE  ReviewIsSound(b)'
  <2>1. CASE b = a
    <3>1. ~ (decision = "keep" /\ decision = "remove")
      OBVIOUS
    <3>2. decision = "keep" => (reviewing'[a].acts <=> Deleted(t))
      BY <1>4
    <3>3. decision = "remove" => (reviewing'[a].acts <=> IsLive(t))
      BY <1>4
    <3>4. (IsLive(t)' <=> IsLive(t)) /\ (Deleted(t)' <=> Deleted(t))
      BY <1>1 DEF IsLive, Deleted
    <3> HIDE DEF acts
    <3>5. \E v \in CircleUsers, s \in ContentTargets :
            /\ reviewing'[a].on = {<<v, s>>} /\ complaint'[v][s] = "pending" /\ reviewing'[a].pc \in {"keep", "remove"}
            /\ reviewing'[a].pc = "remove" /\ ~ reviewing'[a].acts => ~ IsLive(s)'
            /\ reviewing'[a].pc = "keep" /\ reviewing'[a].fresh /\ erased' = {} => (reviewing'[a].acts <=> Deleted(s)')
      <4>1. /\ reviewing'[a].on = {<<u, t>>} /\ complaint'[u][t] = "pending" /\ reviewing'[a].pc \in {"keep", "remove"}
            /\ reviewing'[a].pc = "remove" /\ ~ reviewing'[a].acts => ~ IsLive(t)'
            /\ reviewing'[a].pc = "keep" /\ reviewing'[a].fresh /\ erased' = {} => (reviewing'[a].acts <=> Deleted(t)')
        BY <1>1, <1>4, <3>2, <3>3, <3>4
      <4> QED
        BY <4>1
    <3> QED
      BY <2>1, <3>5 DEF ReviewIsSound
  <2>2. CASE b # a
    BY <1>1, <1>2, <2>2 DEF DecisionInv, ReviewIsSound, IsLive, Deleted
  <2> QED
    BY <2>1, <2>2
<1>6. HeldByOne'
  BY <1>2, <1>3, <1>4 DEF DecisionInv, HeldByOne
<1>7. \A s \in ContentTargets : DecidedStands(s)'
  BY <1>1 DEF DecisionInv, DecidedStands, NotMissing, IsLive, Deleted, Pending
<1>8. DecidedTyped'
  BY <1>1 DEF DecisionInv, DecidedTyped
<1> QED
  BY <1>5, <1>6, <1>7, <1>8 DEF DecisionInv

LEMMA AbortingKeepsDecisions ==
    ASSUME TransactionsTyped, DecisionInv, NEW a \in CircleAdmins, AbortReview(a)
    PROVE  DecisionInv'
<1>1. UNCHANGED <<content, complaint, erased, decided, raced>> /\ reviewing' = [reviewing EXCEPT ![a] = NoReview]
  BY DEF AbortReview, contentRows
<1>2. reviewing'[a].on = {} /\ \A b \in CircleAdmins \ {a} : reviewing'[b] = reviewing[b]
  BY <1>1 DEF TransactionsTyped, NoReview
<1>3. \A b \in CircleAdmins : ReviewIsSound(b)'
  BY <1>1, <1>2 DEF DecisionInv, ReviewIsSound, IsLive, Deleted
<1>4. HeldByOne'
  BY <1>2 DEF DecisionInv, HeldByOne
<1>5. \A s \in ContentTargets : DecidedStands(s)'
  BY <1>1 DEF DecisionInv, DecidedStands, NotMissing, IsLive, Deleted, Pending
<1>6. DecidedTyped'
  BY <1>1 DEF DecisionInv, DecidedTyped
<1> QED
  BY <1>3, <1>4, <1>5, <1>6 DEF DecisionInv

LEMMA TeardownKeepsDecisions ==
    ASSUME ContentTyped, DecisionInv, NEW u \in CircleUsers, EraseUser(u)
    PROVE  DecisionInv'
<1>1. /\ UNCHANGED <<reviewing, decided, raced>> /\ erased' # {} /\ RowsTyped
      /\ complaint' = [complaint EXCEPT ![u] = [t \in ContentTargets |-> "none"]]
  BY DEF EraseUser, transactions, ContentTyped
<1>2. \A t \in ContentTargets :
        content'[t] = (IF IsLive(t) /\ content[t].author = {u} THEN Removed(t, "teardown") ELSE content[t])
  BY DEF EraseUser
<1>3. \A t \in ContentTargets : Removed(t, "teardown").state = "deleted"
  BY <1>1 DEF RowsTyped, ContentStates, Removed, Deleted
<1>4. \A t \in ContentTargets :
        /\ (NotMissing(t) => NotMissing(t)') /\ (IsLive(t)' => IsLive(t))
        /\ (content'[t].by # "nobody" => Deleted(t)' \/ content'[t] = content[t])
  BY <1>2, <1>3 DEF NotMissing, IsLive, Deleted
<1>5. ASSUME NEW a \in CircleAdmins
      PROVE  ReviewIsSound(a)'
  <2>1. CASE reviewing[a].on = {}
    BY <1>1, <2>1 DEF ReviewIsSound
  <2>2. CASE reviewing[a].on # {}
    <3>1. PICK v \in CircleUsers, t \in ContentTargets :
            /\ reviewing[a].on = {<<v, t>>} /\ complaint[v][t] = "pending" /\ reviewing[a].pc \in {"keep", "remove"}
            /\ reviewing[a].pc = "remove" /\ ~ reviewing[a].acts => ~ IsLive(t)
      BY <2>2 DEF DecisionInv, ReviewIsSound
    <3>2. v # u
      <4>1. <<v, t>> \in Held
        BY <3>1 DEF Held
      <4>2. <<v, t>>[1] # u
        BY <4>1 DEF EraseUser
      <4> QED
        BY <4>2
    <3>3. complaint'[v][t] = "pending"
      BY <1>1, <3>1, <3>2 DEF RowsTyped
    <3> QED
      BY <1>1, <1>4, <3>1, <3>3 DEF ReviewIsSound
  <2> QED
    BY <2>1, <2>2
<1>6. HeldByOne' /\ DecidedTyped'
  BY <1>1 DEF DecisionInv, HeldByOne, DecidedTyped
<1>7. ASSUME NEW t \in ContentTargets
      PROVE  DecidedStands(t)'
  <2>1. DecidedStands(t)
    BY DEF DecisionInv
  <2>2. content'[t] = content[t] => (Deleted(t)' <=> Deleted(t))
    BY DEF Deleted
  <2> QED
    BY <1>1, <1>4, <2>1, <2>2 DEF DecidedStands
<1> QED
  BY <1>5, <1>6, <1>7 DEF DecisionInv

\* A commit on a target as far as decisions are concerned.
DecidesOn(t) ==
    /\ \A a \in CircleAdmins : ReviewGoesOn(a, t)
    /\ \A s \in ContentTargets \ {t} :
        content'[s] = content[s] /\ decided'[s] = decided[s] /\ \A u \in CircleUsers : complaint'[u][s] = complaint[u][s]
    /\ DecidedTyped' /\ UNCHANGED erased /\ raced \subseteq raced'
    /\ \A a \in CircleAdmins, u \in CircleUsers : reviewing'[a].on = {<<u, t>>} =>
        (IsLive(t)' => IsLive(t)) /\ (complaint[u][t] = "pending" => complaint'[u][t] = "pending")

LEMMA CommitKeepsDecisions ==
    ASSUME DecisionInv, NEW t \in ContentTargets, DecidesOn(t), DecidedStands(t)'
    PROVE  DecisionInv'
<1>1. ASSUME NEW a \in CircleAdmins
      PROVE  ReviewIsSound(a)'
  <2>1. CASE reviewing'[a].on = {}
    BY <2>1 DEF ReviewIsSound
  <2>2. CASE reviewing'[a].on # {}
    <3>1. /\ reviewing'[a].pc = reviewing[a].pc /\ reviewing'[a].on = reviewing[a].on
          /\ reviewing'[a].acts = reviewing[a].acts
          /\ reviewing'[a].fresh => reviewing[a].fresh /\ \A r \in reviewing[a].on : r[2] # t
      BY <2>2 DEF DecidesOn, ReviewGoesOn
    <3>2. PICK u \in CircleUsers, s \in ContentTargets :
            /\ reviewing[a].on = {<<u, s>>} /\ complaint[u][s] = "pending" /\ reviewing[a].pc \in {"keep", "remove"}
            /\ reviewing[a].pc = "remove" /\ ~ reviewing[a].acts => ~ IsLive(s)
            /\ reviewing[a].pc = "keep" /\ reviewing[a].fresh /\ erased = {} => (reviewing[a].acts <=> Deleted(s))
      BY <2>2, <3>1 DEF DecisionInv, ReviewIsSound
    <3>3. CASE s = t
      <4>1. ~ reviewing'[a].fresh
        <5>1. <<u, s>> \in reviewing[a].on /\ <<u, s>>[2] = t
          BY <3>2, <3>3
        <5> QED
          BY <3>1, <5>1
      <4>2. (IsLive(s)' => IsLive(s)) /\ complaint'[u][s] = "pending"
        BY <3>1, <3>2, <3>3 DEF DecidesOn
      <4> QED
        BY <3>1, <3>2, <4>1, <4>2 DEF ReviewIsSound
    <3>4. CASE s # t
      <4>1. content'[s] = content[s] /\ complaint'[u][s] = "pending" /\ erased' = erased
        BY <3>2, <3>4 DEF DecidesOn
      <4>2. (IsLive(s)' <=> IsLive(s)) /\ (Deleted(s)' <=> Deleted(s))
        BY <4>1 DEF IsLive, Deleted
      <4> QED
        BY <3>1, <3>2, <4>1, <4>2 DEF ReviewIsSound
    <3> QED
      BY <3>3, <3>4
  <2> QED
    BY <2>1, <2>2
<1>2. HeldByOne'
  BY DEF DecisionInv, HeldByOne, DecidesOn, ReviewGoesOn
<1>3. ASSUME NEW s \in ContentTargets \ {t}
      PROVE  DecidedStands(s)'
  <2>1. content'[s] = content[s] /\ decided'[s] = decided[s] /\ Pending(s)' = Pending(s)
    BY DEF DecidesOn, Pending
  <2>2. DecidedStands(s) /\ erased' = erased /\ raced \subseteq raced'
    BY DEF DecisionInv, DecidesOn
  <2> QED
    BY <2>1, <2>2 DEF DecidedStands, NotMissing, IsLive, Deleted
<1> QED
  BY <1>1, <1>2, <1>3 DEF DecisionInv, DecidesOn

LEMMA DeletionKeepsDecisions ==
    ASSUME ContentTyped, DecisionInv, NEW u \in CircleUsers, NEW c \in CircleComments, DeleteCircleComment(u, c)
    PROVE  DecisionInv'
<1>1. /\ RowsTyped /\ TransactionsTyped /\ c \in ContentTargets /\ IsLive(c)
      /\ content' = [content EXCEPT ![c] = Removed(c, "author")]
      /\ reporting' = StaleReports(c) /\ reviewing' = StaleReviews(c) /\ UNCHANGED <<decided, raced, erased, complaint>>
  BY DEF ContentTyped, DeleteCircleComment, TakesOff, CommitsOn, ContentTargets
<1>2. content'[c] = Removed(c, "author") /\ \A s \in ContentTargets \ {c} : content'[s] = content[s]
  BY <1>1 DEF RowsTyped
<1>3. Removed(c, "author").state = "deleted" /\ Removed(c, "author").by = "author"
  BY <1>1 DEF RowsTyped, ContentStates, Removed, IsLive, Deleted
<1>4. ~ IsLive(c)' /\ Deleted(c)' /\ NotMissing(c)' /\ content'[c].by = "author"
  BY <1>2, <1>3 DEF IsLive, Deleted, NotMissing
<1>5. \A a \in CircleAdmins : ReviewGoesOn(a, c)
  BY <1>1, TransactionsGoOn
<1>6. DecidesOn(c)
  BY <1>1, <1>2, <1>4, <1>5 DEF DecidesOn, DecisionInv, DecidedTyped
<1>7. DecidedStands(c)'
  BY <1>4 DEF DecidedStands
<1> QED
  BY <1>1, <1>6, <1>7, CommitKeepsDecisions

LEMMA ReportKeepsDecisions ==
    ASSUME ContentInv, DecisionInv, NEW u \in CircleUsers, CommitReport(u)
    PROVE  DecisionInv'
<1>1. RowsTyped /\ TransactionsTyped
  BY DEF ContentInv, ContentTyped
<1>2. PICK t \in ContentTargets : reporting[u].target = {t} /\ NotMissing(t)
  BY DEF ContentInv, ReportsAreOfOne, CommitReport
<1>3. /\ complaint' = [complaint EXCEPT ![u][t] = "pending"]
      /\ (TakesOff(t, "reports") \/ UNCHANGED <<content, comments>>)
      /\ reporting' = [StaleReports(t) EXCEPT ![u] = NoReporting] /\ reviewing' = StaleReviews(t)
      /\ raced \subseteq raced' /\ UNCHANGED <<decided, erased>>
  BY <1>2 DEF CommitReport
<1>4. /\ NotMissing(t)' /\ \A s \in ContentTargets \ {t} : content'[s] = content[s]
  BY <1>1, <1>2, <1>3, TargetAfter
<1>5. (IsLive(t)' => IsLive(t)) /\ (content'[t].by # "nobody" => Deleted(t)')
  <2>1. TakesOff(t, "reports") => Deleted(t)' /\ ~ IsLive(t)'
    BY <1>1 DEF TakesOff, Removed, IsLive, Deleted, RowsTyped, ContentStates
  <2>2. UNCHANGED content => (IsLive(t)' <=> IsLive(t)) /\ (Deleted(t)' <=> Deleted(t))
    BY DEF IsLive, Deleted
  <2> QED
    BY <1>3, <2>1, <2>2 DEF DecisionInv, DecidedStands
<1>6. /\ \A s \in ContentTargets \ {t} : \A v \in CircleUsers : complaint'[v][s] = complaint[v][s]
      /\ complaint'[u][t] = "pending" /\ \A v \in CircleUsers \ {u} : complaint'[v][t] = complaint[v][t]
  BY <1>1, <1>3 DEF RowsTyped
<1>7. \A a \in CircleAdmins : ReviewGoesOn(a, t)
  BY <1>1, <1>3, TransactionsGoOn
<1>8. DecidesOn(t)
  BY <1>3, <1>4, <1>5, <1>6, <1>7 DEF DecidesOn, DecisionInv, DecidedTyped
<1>9. DecidedStands(t)'
  <2>1. u \in Pending(t)'
    BY <1>6 DEF Pending
  <2>2. DecidedStands(t)
    BY DEF DecisionInv
  <2> QED
    BY <1>3, <1>4, <1>5, <2>1, <2>2 DEF DecidedStands
<1> QED
  BY <1>8, <1>9, CommitKeepsDecisions

LEMMA ReviewKeepsDecisions ==
    ASSUME ContentInv, DecisionInv, NEW a \in CircleAdmins, CommitReview(a)
    PROVE  DecisionInv'
<1>1. RowsTyped /\ TransactionsTyped
  BY DEF ContentInv, ContentTyped
<1>2. PICK r \in reviewing[a].on :
        /\ \/ reviewing[a].acts /\ reviewing[a].pc = "remove" /\ TakesOff(r[2], "review")
           \/ reviewing[a].acts /\ reviewing[a].pc = "keep" /\ PutsBack(r[2])
           \/ ~ reviewing[a].acts /\ UNCHANGED <<content, comments>>
        /\ Resolve(r[2])
        /\ decided' = [decided EXCEPT ![r[2]] = reviewing[a].pc]
        /\ reporting' = StaleReports(r[2])
        /\ reviewing' = [StaleReviews(r[2]) EXCEPT ![a] = NoReview]
        /\ raced' = raced \union (IF reviewing[a].fresh THEN {} ELSE {r[2]})
        /\ UNCHANGED erased
  BY DEF CommitReview
<1>3. PICK u \in CircleUsers, t \in ContentTargets :
        /\ reviewing[a].on = {<<u, t>>} /\ complaint[u][t] = "pending" /\ reviewing[a].pc \in {"keep", "remove"}
        /\ reviewing[a].pc = "remove" /\ ~ reviewing[a].acts => ~ IsLive(t)
        /\ reviewing[a].pc = "keep" /\ reviewing[a].fresh /\ erased = {} => (reviewing[a].acts <=> Deleted(t))
  BY <1>2 DEF DecisionInv, ReviewIsSound
<1>4. r[2] = t
  BY <1>2, <1>3
<1>5. NotMissing(t)
  BY <1>3 DEF ContentInv, MissingIsUnreported
<1>6. NotMissing(t)' /\ \A s \in ContentTargets \ {t} : content'[s] = content[s]
  <2>1. TakesOff(t, "review") \/ PutsBack(t) \/ UNCHANGED <<content, comments>>
    BY <1>2, <1>4
  <2> QED
    BY <1>1, <1>5, <2>1, TargetAfter
<1>7. \A s \in ContentTargets \ {t} : decided'[s] = decided[s] /\ \A v \in CircleUsers : complaint'[v][s] = complaint[v][s]
  <2>1. complaint' = [v \in CircleUsers |-> [complaint[v] EXCEPT ![t] = IF @ = "pending" THEN "resolved" ELSE @]]
    BY <1>2, <1>4 DEF Resolve
  <2>2. decided' = [decided EXCEPT ![t] = reviewing[a].pc]
    BY <1>2, <1>4
  <2> QED
    BY <1>1, <2>1, <2>2 DEF RowsTyped, DecisionInv, DecidedTyped
<1>8. decided'[t] = reviewing[a].pc /\ DecidedTyped'
  BY <1>2, <1>3, <1>4 DEF DecisionInv, DecidedTyped
<1>9. \A b \in CircleAdmins : ReviewGoesOn(b, t)
  BY <1>1, <1>2, <1>4, TransactionsGoOn
<1>10. ASSUME NEW b \in CircleAdmins, NEW v \in CircleUsers, reviewing'[b].on = {<<v, t>>}
       PROVE  FALSE
  <2>1. b # a
    <3>1. StaleReviews(t) \in [CircleAdmins -> ReviewsUnderWay]
      BY <1>1, StaleTransactions
    <3>2. reviewing'[a] = NoReview
      BY <1>2, <1>4, <3>1
    <3>3. reviewing'[a].on = {}
      BY <3>2 DEF NoReview
    <3> QED
      BY <1>10, <3>3
  <2>2. reviewing[b].on = {<<v, t>>}
    BY <1>9, <1>10 DEF ReviewGoesOn
  <2>3. v # u
    BY <1>3, <2>1, <2>2 DEF DecisionInv, HeldByOne
  <2>4. complaint[v][t] = "pending"
    <3>1. PICK w \in CircleUsers, s \in ContentTargets : reviewing[b].on = {<<w, s>>} /\ complaint[w][s] = "pending"
      BY <2>2 DEF DecisionInv, ReviewIsSound
    <3>2. <<v, t>> = <<w, s>>
      BY <2>2, <3>1
    <3> QED
      BY <3>1, <3>2
  <2>5. AwaitsReview(a, b)
    <3>1. v \in Pending(t) \ {u} /\ <<u, t>> \in reviewing[a].on /\ <<u, t>>[1] = u /\ <<u, t>>[2] = t
      BY <1>3, <2>3, <2>4 DEF Pending
    <3> QED
      BY <2>2, <3>1 DEF AwaitsReview
  <2> QED
    BY <2>5 DEF CommitReview
<1>11. DecidesOn(t)
  BY <1>2, <1>6, <1>7, <1>8, <1>9, <1>10 DEF DecidesOn
<1>12. DecidedStands(t)'
  <2>1. DecidedStands(t) /\ (Deleted(t) => ~ IsLive(t))
    BY DEF DecisionInv, Deleted, IsLive
  <2>2. TakesOff(t, "review") => Deleted(t)' /\ ~ IsLive(t)'
    BY <1>1 DEF TakesOff, Removed, IsLive, Deleted, RowsTyped, ContentStates
  <2>3. PutsBack(t) => content'[t].by = "nobody"
    BY <1>1 DEF PutsBack, RowsTyped, ContentStates
  <2>4. UNCHANGED content => /\ (IsLive(t)' <=> IsLive(t)) /\ (Deleted(t)' <=> Deleted(t)) /\ content'[t].by = content[t].by
    BY DEF IsLive, Deleted
  <2>5. CASE reviewing[a].acts /\ reviewing[a].pc = "remove" /\ TakesOff(t, "review")
    BY <1>6, <1>8, <2>2, <2>5 DEF DecidedStands
  <2>6. CASE reviewing[a].acts /\ reviewing[a].pc = "keep" /\ PutsBack(t)
    BY <1>6, <1>8, <2>3, <2>6 DEF DecidedStands
  <2>7. CASE ~ reviewing[a].acts /\ UNCHANGED <<content, comments>>
    <3>1. reviewing[a].pc = "remove" => ~ IsLive(t)'
      BY <1>3, <2>4, <2>7
    <3>2. content'[t].by # "nobody" => Deleted(t)'
      BY <2>1, <2>4, <2>7 DEF DecidedStands
    <3>3. reviewing[a].pc = "keep" /\ erased = {} /\ content'[t].by = "reports" => t \in raced'
      <4>1. reviewing[a].pc = "keep" /\ reviewing[a].fresh /\ erased = {} => ~ Deleted(t)'
        BY <1>3, <2>4, <2>7
      <4>2. ~ reviewing[a].fresh => t \in raced'
        BY <1>2, <1>4
      <4> QED
        BY <3>2, <4>1, <4>2
    <3> QED
      BY <1>2, <1>6, <1>8, <3>1, <3>2, <3>3 DEF DecidedStands
  <2> QED
    BY <1>2, <1>4, <2>5, <2>6, <2>7
<1> QED
  BY <1>11, <1>12, CommitKeepsDecisions

LEMMA DecisionStep == ContentInv /\ DecisionInv /\ [ContentNext]_contentVars => DecisionInv'
<1> SUFFICES ASSUME ContentInv, DecisionInv, [ContentNext]_contentVars PROVE DecisionInv'
  OBVIOUS
<1>1. /\ ContentTyped /\ RowsTyped /\ TransactionsTyped /\ extent.erased \subseteq CircleUsers
      /\ CirclePosts \subseteq ContentTargets /\ CircleComments \subseteq ContentTargets /\ Responses \subseteq ContentTargets
  BY ContentAssumption DEF ContentInv, ContentTyped, TransactionsTyped, ContentTargets
<1>2. ASSUME NEW u \in CircleUsers \ erased,
             \/ \E t \in extent.marked : Mark(u, t) \/ Unmark(u, t)
             \/ \E t \in extent.reported : ReportCircleContent(u, t) \/ ReportAgain(u, t)
             \/ UNCHANGED <<contentRows, transactions>>
      PROVE  DecisionInv'
  <2>1. DecidesNothing
    BY <1>2 DEF DecidesNothing, Mark, Unmark, ReportCircleContent, ReportAgain, contentRows, transactions
  <2> QED
    BY <2>1, DecidingNothingKeeps
<1>3. ASSUME NEW u \in CircleUsers \ erased,
             \/ \E t \in CirclePosts : CreateCirclePost(u, t)
             \/ \E t \in Responses : CreateResponse(u, t)
             \/ \E t \in CircleComments : CreateCircleComment(u, t)
      PROVE  DecisionInv'
  <2>1. PICK t \in ContentTargets : content[t] = Missing /\ WritesRow(t, "live", u)
                                    /\ UNCHANGED <<complaint, erased, reviewing, decided, raced>>
    BY <1>1, <1>3 DEF CreateCirclePost, CreateResponse, CreateCircleComment, transactions
  <2> QED
    BY <2>1, AddingKeepsDecisions
<1>4. ASSUME NEW u \in CircleUsers \ erased,
             CommitReport(u) \/ \E c \in CircleComments : DeleteCircleComment(u, c)
      PROVE  DecisionInv'
  BY <1>1, <1>4, ReportKeepsDecisions, DeletionKeepsDecisions
<1>5. CASE Members
  <2>1. PICK u \in CircleUsers \ erased :
            \/ Responding(u) \/ WritingComments(u) \/ Marking(u)
            \/ JoinCircle(u, Home) /\ UNCHANGED <<contentRows, transactions>>
            \/ LeaveCircle(u, Home) /\ UNCHANGED <<contentRows, transactions>>
    BY <1>5 DEF Members
  <2> QED
    BY <1>2, <1>3, <1>4, <2>1 DEF Responding, WritingComments, Marking
<1>6. CASE Dashboard
  <2>1. CASE \E a \in CircleAdmins : CommitReview(a) \/ AbortReview(a)
    BY <1>1, <2>1, ReviewKeepsDecisions, AbortingKeepsDecisions
  <2>2. CASE UNCHANGED <<contentRows, transactions>>
    <3>1. DecidesNothing
      BY <2>2 DEF DecidesNothing, contentRows, transactions
    <3> QED
      BY <3>1, DecidingNothingKeeps
  <2>3. CASE \E u \in extent.erased : EraseUser(u)
    BY <1>1, <2>3, TeardownKeepsDecisions
  <2>4. CASE \E a \in CircleAdmins, u \in CircleUsers, t \in ContentTargets, decision \in {"keep", "remove"} :
                OpenReview(a, u, t, decision)
    BY <1>1, <2>4, OpeningKeepsDecisions
  <2> QED
    BY <1>6, <2>1, <2>2, <2>3, <2>4 DEF Dashboard
<1>7. CASE UNCHANGED contentVars
  <2>1. DecidesNothing
    BY <1>7 DEF DecidesNothing, contentVars, contentRows, transactions
  <2> QED
    BY <2>1, DecidingNothingKeeps
<1> QED
  BY <1>5, <1>6, <1>7 DEF ContentNext

-----------------------------------------------------------------------------
(* The theorems.                                                           *)

LEMMA ContentAlways == ContentSpec => [](ContentInv /\ HiddenInv /\ DecisionInv)
<1>1. ContentInit => ContentInv /\ HiddenInv /\ DecisionInv
  BY ContentStart, HiddenStart, DecisionsStart
<1>2. ContentInv /\ HiddenInv /\ DecisionInv /\ [ContentNext]_contentVars => (ContentInv /\ HiddenInv /\ DecisionInv)'
  BY ContentStep, HiddenStep, DecisionStep DEF ContentInv
<1> QED
  BY <1>1, <1>2, PTL DEF ContentSpec

\* Circles, their content, reports and reviews keep their types, for any users and rows.
THEOREM ContentTypeCorrect == ContentSpec => []ContentTypeOK
<1>1. ContentInv /\ HiddenInv /\ DecisionInv => ContentTypeOK
  BY ContentTypesFollow DEF ContentInv, HiddenInv, DecisionInv
<1> QED
  BY <1>1, ContentAlways, PTL

\* Circles, comment_services and moderation_services: the number of comments a post shows is
\* that of its comments, for any users, posts and comments, while nothing was raced.
THEOREM CountsStayExact == ContentSpec => []CountsAreExactUnlessRaced
<1>1. ContentInv => CountsAreExactUnlessRaced
  BY DEF ContentInv, CalmInv, Calm, CountsAreExact, CountsAreExactUnlessRaced
<1> QED
  BY <1>1, ContentAlways, PTL

\* Circles, moderation_services and hidden_content: what enough members reported does not stay
\* visible, and no list shows what its viewer reported before as many others were hidden since
\* as rows are kept, or what a torn down user wrote, for any users, content, threshold and
\* number of rows.
THEOREM ReportedStaysHidden == ContentSpec => []ReportedIsHiddenUnlessRaced
<1>1. ContentInv => ReportedIsHidden
  <2> SUFFICES ASSUME ContentInv, NEW t \in ContentTargets, IsLive(t), Cardinality(ReportersOf(t)) >= HidesAt,
                      t \notin raced, \A u \in CircleUsers : complaint[u][t] # "resolved"
               PROVE  FALSE
    BY DEF ReportedIsHidden
  <2>1. \A u \in CircleUsers : complaint[u][t] \in Complaints
    BY PartsOfContentTypes DEF ContentInv, RowsTyped
  <2>2. ReportersOf(t) = Pending(t)
    BY <2>1 DEF ReportersOf, Pending, Complaints
  <2>3. Cardinality(Pending(t)) < HidesAt /\ Cardinality(Pending(t)) \in Nat
    <3>1. Pending(t) \in SUBSET CircleUsers
      BY DEF Pending
    <3> QED
      BY <3>1, UsersAndCommentsAreFinite DEF ContentInv, PendingAreFew
  <2> QED
    BY <2>2, <2>3, UsersAndCommentsAreFinite
<1>2. ContentInv /\ HiddenInv => ShowsNothingHidden
  <2> SUFFICES ASSUME ContentInv, HiddenInv, NEW u \in CircleUsers \ erased, NEW t \in ShownTo(u)
               PROVE  /\ complaint[u][t] # "none" => Cardinality(since[u][t]) >= KeepsHidden
                      /\ content[t].author \intersect erased = {} \/ t \in restored
    BY DEF ShowsNothingHidden
  <2>1. t \in ContentTargets /\ IsLive(t) /\ t \notin HiddenFor(u)
    <3>1. CASE t \in FeedOfCircle(u)
      BY <3>1 DEF FeedOfCircle, ContentTargets
    <3>2. CASE \E p \in CirclePosts : t \in CommentsOfPost(u, p)
      BY <3>2 DEF CommentsOfPost, LiveComments, ContentTargets
    <3>3. CASE t \in AnchorResponses(u)
      BY <3>3 DEF AnchorResponses, ContentTargets
    <3>4. CASE \E r \in Responses : t \in ResponseReplies(u, r)
      BY <3>4 DEF ResponseReplies, ContentTargets
    <3>5. \/ t \in FeedOfCircle(u)
          \/ \E p \in CirclePosts : t \in CommentsOfPost(u, p)
          \/ t \in AnchorResponses(u)
          \/ \E r \in Responses : t \in ResponseReplies(u, r)
      <4>1. \/ t \in FeedOfCircle(u)
            \/ t \in UNION {CommentsOfPost(u, p) : p \in CirclePosts}
            \/ t \in AnchorResponses(u)
            \/ t \in UNION {ResponseReplies(u, r) : r \in Responses}
        BY DEF ShownTo
      <4> QED
        BY <4>1
    <3> QED
      BY <3>1, <3>2, <3>3, <3>4, <3>5
  <2>2. ASSUME complaint[u][t] # "none"
        PROVE  Cardinality(since[u][t]) >= KeepsHidden
    <3>1. KeptOrCrowdedOut(hiddenRows[u], since[u], t)
      BY <2>1, <2>2 DEF HiddenInv
    <3>2. \A i \in 1 .. Len(hiddenRows[u]) : hiddenRows[u][i] # t
      <4>1. hiddenRows[u] \in Seq(ContentTargets)
        BY DEF HiddenInv, HiddenRowsTyped
      <4>2. DOMAIN hiddenRows[u] = 1 .. Len(hiddenRows[u])
        BY <4>1, LenProperties
      <4> QED
        BY <2>1, <4>2 DEF HiddenFor
    <3> QED
      BY <3>1, <3>2 DEF KeptOrCrowdedOut
  <2>3. content[t].author \intersect erased = {} \/ t \in restored
    BY <2>1 DEF ContentInv, ErasedAreHidden
  <2> QED
    BY <2>2, <2>3
<1>3. ContentInv /\ HiddenInv /\ DecisionInv => ReportedIsHiddenUnlessRaced
  BY <1>1, <1>2 DEF ReportedIsHiddenUnlessRaced
<1> QED
  BY <1>3, ContentAlways, PTL

\* core/admin_dashboard/circle_report_services.py: what the last review of a target decided
\* stands, for any users, administrators, content and threshold: no other review that holds a
\* report of the target commits between what a review reads and what it decides.
THEOREM DecisionsHold == ContentSpec => []DecisionsStand
<1>1. DecisionInv => DecisionsStand
  BY DEF DecisionInv, DecidedStands, DecisionsStand
<1> QED
  BY <1>1, ContentAlways, PTL

-----------------------------------------------------------------------------
(***************************************************************************)
(* What a viewer has hidden.  As long as the viewer takes nothing back and *)
(* no request lists its overflow after another trimmed, the rows are a     *)
(* queue: their ids follow one another up to the last row made, and what a *)
(* request has left to trim begins no later than the oldest of them and    *)
(* ends where the newest that are to stay begin.                           *)
(***************************************************************************)

HidingRows == [target : Hideables, id : Nat]
HidingSteps == {"idle", "mark", "expire", "count", "list", "evict", "delete", "unmark", "warm"}
HidingStates == [pc : HidingSteps, todo : Seq(HidingRows), created : BOOLEAN]

\* A request goes on or ends, the others stay where they are.
HidingMoves(r, pc, q) ==
    /\ hiding' \in [HideRequests -> HidingStates]
    /\ hiding'[r].pc = pc /\ hiding'[r].todo = q
    /\ \A o \in HideRequests \ {r} : hiding'[o] = hiding[o]

TodoIsThere == \A r \in HideRequests : hiding[r].pc \in {"mark", "delete", "unmark"} => Len(hiding[r].todo) > 0

HidingTyped == HidingTypeOK /\ TodoIsThere

\* What HidingTypeOK says of everything but the requests.
Cached(S) == S = {} \/ \E T \in SUBSET Hideables : S = {T}
HiddenTyped ==
    /\ hidden \in Seq(HidingRows) /\ rowsMade \in Nat
    /\ \A i, j \in DOMAIN hidden : hidden[i].target = hidden[j].target => i = j
CacheTyped == Cached(cache) /\ lifetime \in {"has", "due", "lost"} /\ (cache = {} => lifetime = "has")
HidingData == HiddenTyped /\ CacheTyped /\ changes \in 0 .. MaxHides /\ overlapped \in BOOLEAN

RowsInOrder == \A i \in 1 .. Len(hidden) : hidden[i].id = rowsMade - Len(hidden) + i
OldRows(q) == \A i \in 1 .. Len(q) : q[i].id = q[1].id + i - 1 /\ q[i].id + HiddenLimit <= rowsMade
OldestFirst(q) == Len(q) > 0 => q[1].id + Len(hidden) <= rowsMade + 1
TrimsInOrder(r) ==
    /\ hiding[r].pc \in {"list", "evict", "delete"} => OldRows(hiding[r].todo)
    /\ hiding[r].pc \in {"evict", "delete"} => OldestFirst(hiding[r].todo)
HidingInOrder == RowsInOrder /\ \A r \in HideRequests : TrimsInOrder(r)

HidingInv == HidingTyped /\ (~ (habit.unhides \/ overlapped) => HidingInOrder)

LEMMA HidingGoesOn ==
    ASSUME hiding \in [HideRequests -> HidingStates], NEW r \in HideRequests, NEW pc \in HidingSteps,
           NEW q \in Seq(HidingRows), HidingGoes(r, pc, q)
    PROVE  HidingMoves(r, pc, q)
<1> DEFINE new == [pc |-> pc, todo |-> q, created |-> hiding[r].created]
<1>1. hiding' = [hiding EXCEPT ![r] = new]
  BY DEF HidingGoes
<1>2. new \in HidingStates /\ new.pc = pc /\ new.todo = q
  <2>1. hiding[r].created \in BOOLEAN
    BY DEF HidingStates
  <2> QED
    BY <2>1 DEF HidingStates
<1> HIDE DEF new
<1> QED
  BY <1>1, <1>2 DEF HidingMoves

LEMMA HidingIsOver ==
    ASSUME hiding \in [HideRequests -> HidingStates], NEW r \in HideRequests, HidingEnds(r)
    PROVE  HidingMoves(r, "idle", << >>)
<1>1. NotHiding \in HidingStates /\ NotHiding.pc = "idle" /\ NotHiding.todo = << >>
  <2>1. << >> \in Seq(HidingRows)
    BY EmptySeq
  <2> QED
    BY <2>1 DEF NotHiding, HidingStates, HidingSteps
<1> QED
  BY <1>1 DEF HidingEnds, HidingMoves

LEMMA OldestRows ==
    ASSUME NEW s \in Seq(HidingRows), NEW n \in 0 .. Len(s)
    PROVE  /\ SubSeq(s, 1, n) \in Seq(HidingRows) /\ Len(SubSeq(s, 1, n)) = n
           /\ \A i \in 1 .. n : SubSeq(s, 1, n)[i] = s[i]
<1>1. \A i \in 1 .. n : s[i] \in HidingRows
  BY ElementOfSeq, LenProperties
<1>2. Len(s) \in Nat
  BY LenProperties
<1> QED
  BY <1>1, <1>2, SubSeqProperties, Z3

LEMMA LastRows ==
    ASSUME NEW s \in Seq(HidingRows), NEW i \in 1 .. Len(s)
    PROVE  /\ SubSeq(s, i + 1, Len(s)) \in Seq(HidingRows) /\ Len(SubSeq(s, i + 1, Len(s))) = Len(s) - i
           /\ \A j \in 1 .. Len(s) - i : SubSeq(s, i + 1, Len(s))[j] = s[i + j]
<1> DEFINE q == SubSeq(s, i + 1, Len(s))
<1>1. Len(s) \in Nat /\ \A j \in 1 .. Len(s) : s[j] \in HidingRows
  BY ElementOfSeq, LenProperties
<1>2. i + 1 \in Int /\ Len(s) \in Int /\ \A j \in i + 1 .. Len(s) : s[j] \in HidingRows
  BY <1>1
<1>3. /\ q \in Seq(HidingRows)
      /\ Len(q) = IF i + 1 <= Len(s) THEN Len(s) - (i + 1) + 1 ELSE 0
      /\ \A j \in 1 .. Len(s) - (i + 1) + 1 : q[j] = s[i + 1 + j - 1]
  BY <1>2, SubSeqProperties
<1>4. \A j \in 1 .. Len(s) - i : j \in 1 .. Len(s) - (i + 1) + 1 /\ i + 1 + j - 1 = i + j
  BY <1>1
<1>5. (IF i + 1 <= Len(s) THEN Len(s) - (i + 1) + 1 ELSE 0) = Len(s) - i
  BY <1>1
<1> HIDE DEF q
<1>6. q \in Seq(HidingRows) /\ Len(q) = Len(s) - i /\ \A j \in 1 .. Len(s) - i : q[j] = s[i + j]
  BY <1>3, <1>4, <1>5
<1> QED
  BY <1>6 DEF q

LEMMA JoinedRows ==
    ASSUME NEW n \in Nat, NEW i \in 1 .. n, NEW s, NEW a, NEW b, NEW t,
           \A j \in 1 .. i - 1 : a[j] = s[j], \A j \in 1 .. n - i : b[j] = s[i + j],
           \A j \in 1 .. (i - 1) + (n - i) : t[j] = IF j <= i - 1 THEN a[j] ELSE b[j - (i - 1)]
    PROVE  \A j \in 1 .. n - 1 : t[j] = IF j < i THEN s[j] ELSE s[j + 1]
<1> SUFFICES ASSUME NEW j \in 1 .. n - 1
             PROVE  t[j] = IF j < i THEN s[j] ELSE s[j + 1]
  OBVIOUS
<1>1. t[j] = IF j <= i - 1 THEN a[j] ELSE b[j - (i - 1)]
  OBVIOUS
<1>2. CASE j < i
  BY <1>1, <1>2
<1>3. CASE j >= i
  <2>1. j - (i - 1) \in 1 .. n - i /\ i + (j - (i - 1)) = j + 1 /\ ~ (j <= i - 1) /\ ~ (j < i)
    BY <1>3
  <2> QED
    BY <2>1, <1>1
<1> QED
  BY <1>2, <1>3

LEMMA RowsWithoutOne ==
    ASSUME NEW s \in Seq(HidingRows), NEW i \in 1 .. Len(s)
    PROVE  LET t == SubSeq(s, 1, i - 1) \o SubSeq(s, i + 1, Len(s))
           IN  /\ t \in Seq(HidingRows) /\ Len(t) = Len(s) - 1
               /\ \A j \in 1 .. Len(s) - 1 : t[j] = IF j < i THEN s[j] ELSE s[j + 1]
<1> DEFINE a == SubSeq(s, 1, i - 1)
           b == SubSeq(s, i + 1, Len(s))
           t == a \o b
<1>1. Len(s) \in Nat /\ i - 1 \in 0 .. Len(s)
  BY LenProperties
<1>2. a \in Seq(HidingRows) /\ Len(a) = i - 1 /\ \A j \in 1 .. i - 1 : a[j] = s[j]
  BY OldestRows, <1>1
<1>3. b \in Seq(HidingRows) /\ Len(b) = Len(s) - i /\ \A j \in 1 .. Len(s) - i : b[j] = s[i + j]
  BY LastRows
<1>4. t \in Seq(HidingRows) /\ Len(t) = Len(a) + Len(b)
      /\ \A j \in 1 .. Len(a) + Len(b) : t[j] = IF j <= Len(a) THEN a[j] ELSE b[j - Len(a)]
  <2> HIDE DEF a, b
  <2> QED
    BY <1>2, <1>3, ConcatProperties
<1> HIDE DEF a, b, t
<1>5. Len(t) = Len(s) - 1
  BY <1>1, <1>2, <1>3, <1>4
<1>6. \A j \in 1 .. Len(s) - 1 : t[j] = IF j < i THEN s[j] ELSE s[j + 1]
  <2>1. \A j \in 1 .. (i - 1) + (Len(s) - i) : t[j] = IF j <= i - 1 THEN a[j] ELSE b[j - (i - 1)]
    BY <1>2, <1>3, <1>4
  <2>2. Len(s) \in Nat /\ i \in 1 .. Len(s)
    BY <1>1
  <2>3. \A j \in 1 .. i - 1 : a[j] = s[j]
    BY <1>2
  <2>4. \A j \in 1 .. Len(s) - i : b[j] = s[i + j]
    BY <1>3
  <2> QED
    BY <2>1, <2>2, <2>3, <2>4, JoinedRows
<1> QED
  BY <1>4, <1>5, <1>6 DEF a, b, t

\* Nothing but types: what each step leaves.
LEMMA HidingIsTyped ==
    ASSUME HidingTyped
    PROVE  /\ hidden \in Seq(HidingRows) /\ rowsMade \in Nat /\ Len(hidden) \in Nat
           /\ \A i \in 1 .. Len(hidden) : hidden[i] \in HidingRows
           /\ \A i, j \in 1 .. Len(hidden) : hidden[i].target = hidden[j].target => i = j
           /\ DOMAIN hidden = 1 .. Len(hidden)
           /\ cache = {} \/ \E S \in SUBSET Hideables : cache = {S}
           /\ hiding \in [HideRequests -> HidingStates]
           /\ \A r \in HideRequests : hiding[r].todo \in Seq(HidingRows) /\ Len(hiding[r].todo) \in Nat
           /\ \A r \in HideRequests : hiding[r].pc \in {"mark", "delete", "unmark"} =>
                Len(hiding[r].todo) > 0 /\ hiding[r].todo[1] \in HidingRows
<1>1. hidden \in Seq(HidingRows) /\ hiding \in [HideRequests -> HidingStates]
  BY DEF HidingTyped, HidingTypeOK, HidingRows, HidingStates, HidingSteps
<1>2. DOMAIN hidden = 1 .. Len(hidden) /\ Len(hidden) \in Nat /\ \A i \in 1 .. Len(hidden) : hidden[i] \in HidingRows
  BY <1>1, LenProperties, ElementOfSeq
<1>3. ASSUME NEW r \in HideRequests
      PROVE  hiding[r].todo \in Seq(HidingRows) /\ Len(hiding[r].todo) \in Nat
  <2>1. hiding[r].todo \in Seq(HidingRows)
    BY <1>1 DEF HidingStates
  <2> QED
    BY <2>1, LenProperties
<1>4. ASSUME NEW r \in HideRequests, hiding[r].pc \in {"mark", "delete", "unmark"}
      PROVE  Len(hiding[r].todo) > 0 /\ hiding[r].todo[1] \in HidingRows
  <2>1. Len(hiding[r].todo) > 0
    BY <1>4 DEF HidingTyped, TodoIsThere
  <2> QED
    BY <2>1, <1>3, ElementOfSeq
<1> QED
  BY <1>1, <1>2, <1>3, <1>4 DEF HidingTyped, HidingTypeOK

LEMMA HidingDataTyped == ASSUME HidingTyped PROVE HidingData
  BY DEF HidingTyped, HidingTypeOK, HidingData, HiddenTyped, CacheTyped, Cached, HidingRows

LEMMA HidingTypeFollows ==
    ASSUME HidingData', NEW r \in HideRequests, NEW pc, NEW q, HidingMoves(r, pc, q), HidingTyped,
           pc \in {"mark", "delete", "unmark"} => Len(q) > 0
    PROVE  HidingTyped'
<1>1. HidingTypeOK'
  BY DEF HidingData, HiddenTyped, CacheTyped, Cached, HidingMoves, HidingTypeOK, HidingRows, HidingStates, HidingSteps
<1>2. TodoIsThere'
  <2> SUFFICES ASSUME NEW o \in HideRequests, hiding'[o].pc \in {"mark", "delete", "unmark"}
               PROVE  Len(hiding'[o].todo) > 0
    BY DEF TodoIsThere
  <2>1. CASE o = r
    BY <2>1 DEF HidingMoves
  <2>2. CASE o # r
    BY <2>2 DEF HidingMoves, HidingTyped, TodoIsThere
  <2> QED
    BY <2>1, <2>2
<1> QED
  BY <1>1, <1>2 DEF HidingTyped

LEMMA OnRedisTyped ==
    ASSUME NEW S, Cached(S), S = {} => cache = {}, CacheTyped, OnRedis(S), lifetime' = lifetime
    PROVE  CacheTyped'
  BY DEF OnRedis, CacheTyped, Cached

LEMMA UnmarkedTyped ==
    ASSUME NEW t, Cached(cache)
    PROVE  Cached(Unmarked(t)) /\ (Unmarked(t) = {} => cache = {})
<1>1. CASE cache = {}
  BY <1>1 DEF Unmarked, Cached
<1>2. ASSUME NEW T \in SUBSET Hideables, cache = {T}
      PROVE  Cached(Unmarked(t)) /\ (Unmarked(t) = {} => cache = {})
  <2>1. Unmarked(t) = {T \ {t}} /\ T \ {t} \in SUBSET Hideables
    BY <1>2 DEF Unmarked
  <2> QED
    BY <2>1 DEF Cached
<1> QED
  BY <1>1, <1>2 DEF Cached

\* A step that leaves the rows alone.
LEMMA QuietKeepsTypes ==
    ASSUME HidingTyped, NEW r \in HideRequests, NEW pc, NEW q, HidingMoves(r, pc, q),
           UNCHANGED <<hidden, rowsMade, changes>>, CacheTyped', overlapped' \in BOOLEAN,
           pc \in {"mark", "delete", "unmark"} => Len(q) > 0
    PROVE  HidingTyped'
<1>1. HidingData'
  BY HidingDataTyped DEF HidingData, HiddenTyped
<1> QED
  BY <1>1, HidingTypeFollows

LEMMA RemovalKeepsTypes ==
    ASSUME HidingTyped, NEW i \in DOMAIN hidden, hidden' = WithoutRow(i), rowsMade' = rowsMade
    PROVE  /\ HiddenTyped' /\ Len(hidden') = Len(hidden) - 1
           /\ \A j \in 1 .. Len(hidden) - 1 : hidden'[j] = IF j < i THEN hidden[j] ELSE hidden[j + 1]
<1>1. /\ hidden \in Seq(HidingRows) /\ rowsMade \in Nat /\ Len(hidden) \in Nat /\ DOMAIN hidden = 1 .. Len(hidden)
      /\ \A j, k \in 1 .. Len(hidden) : hidden[j].target = hidden[k].target => j = k
  BY HidingIsTyped
<1>2. /\ hidden' \in Seq(HidingRows) /\ Len(hidden') = Len(hidden) - 1
      /\ \A j \in 1 .. Len(hidden) - 1 : hidden'[j] = IF j < i THEN hidden[j] ELSE hidden[j + 1]
  <2>1. i \in 1 .. Len(hidden)
    BY <1>1
  <2> QED
    BY <2>1, <1>1, RowsWithoutOne DEF WithoutRow
<1>3. DOMAIN hidden' = 1 .. Len(hidden) - 1
  BY <1>2, LenProperties
<1>4. ASSUME NEW j \in 1 .. Len(hidden) - 1, NEW k \in 1 .. Len(hidden) - 1, hidden'[j].target = hidden'[k].target
      PROVE  j = k
  <2>1. PICK x \in 1 .. Len(hidden) : hidden'[j] = hidden[x] /\ x = IF j < i THEN j ELSE j + 1
    <3>1. CASE j < i
      BY <3>1, <1>1, <1>2
    <3>2. CASE ~ (j < i)
      BY <3>2, <1>1, <1>2
    <3> QED
      BY <3>1, <3>2
  <2>2. PICK y \in 1 .. Len(hidden) : hidden'[k] = hidden[y] /\ y = IF k < i THEN k ELSE k + 1
    <3>1. CASE k < i
      BY <3>1, <1>1, <1>2
    <3>2. CASE ~ (k < i)
      BY <3>2, <1>1, <1>2
    <3> QED
      BY <3>1, <3>2
  <2>3. x = y
    BY <2>1, <2>2, <1>1, <1>4
  <2> QED
    BY <2>1, <2>2, <2>3, <1>1
<1>5. HiddenTyped'
  BY <1>1, <1>2, <1>3, <1>4 DEF HiddenTyped
<1> QED
  BY <1>2, <1>5

LEMMA HideKeepsTypes ==
    ASSUME HidingTyped, NEW r \in HideRequests, NEW t \in Hideables, HideForUser(r, t)
    PROVE  HidingTyped'
<1>1. /\ hidden \in Seq(HidingRows) /\ rowsMade \in Nat /\ Len(hidden) \in Nat /\ DOMAIN hidden = 1 .. Len(hidden)
      /\ \A i \in 1 .. Len(hidden) : hidden[i] \in HidingRows
      /\ \A j, k \in 1 .. Len(hidden) : hidden[j].target = hidden[k].target => j = k
      /\ hiding \in [HideRequests -> HidingStates]
  BY HidingIsTyped
<1>2. HidingData /\ changes' \in 0 .. MaxHides
  BY HidingDataTyped, HidingAssumption DEF HideForUser, HidingData
<1>3. ASSUME NEW i \in DOMAIN hidden, hidden' = hidden, rowsMade' = rowsMade,
             hiding' = [hiding EXCEPT ![r] = [pc |-> "mark", todo |-> <<hidden[i]>>, created |-> FALSE]]
      PROVE  HidingTyped'
  <2>1. <<hidden[i]>> \in Seq(HidingRows) /\ Len(<<hidden[i]>>) = 1
    BY <1>1, <1>3
  <2>2. HidingMoves(r, "mark", <<hidden[i]>>)
    BY <2>1, <1>1, <1>3 DEF HidingMoves, HidingStates, HidingSteps
  <2>3. HidingData'
    BY <1>2, <1>3 DEF HidingData, HiddenTyped, CacheTyped, Cached, HideForUser
  <2> DEFINE q == <<hidden[i]>>
  <2>4. HidingMoves(r, "mark", q) /\ Len(q) > 0
    BY <2>1, <2>2
  <2> HIDE DEF q
  <2> QED
    BY <2>3, <2>4, HidingTypeFollows
<1>4. ASSUME NEW newRow, newRow = HiddenRow(t, rowsMade + 1), t \notin HiddenTargets, rowsMade' = rowsMade + 1, hidden' = Append(hidden, newRow),
             hiding' = [hiding EXCEPT ![r] = [pc |-> "mark", todo |-> <<newRow>>, created |-> TRUE]]
      PROVE  HidingTyped'
  <2>1. newRow \in HidingRows /\ newRow.target = t
    BY <1>1, <1>4 DEF HiddenRow, HidingRows
  <2>2. <<newRow>> \in Seq(HidingRows) /\ Len(<<newRow>>) = 1
    BY <2>1
  <2>3. HidingMoves(r, "mark", <<newRow>>)
    BY <2>2, <1>1, <1>4 DEF HidingMoves, HidingStates, HidingSteps
  <2>4. /\ hidden' \in Seq(HidingRows) /\ Len(hidden') = Len(hidden) + 1
        /\ \A i \in 1 .. Len(hidden) : hidden'[i] = hidden[i]
        /\ hidden'[Len(hidden) + 1] = newRow
    BY <1>1, <1>4, <2>1, AppendProperties
  <2>5. \A i \in 1 .. Len(hidden) : hidden[i].target # t
    BY <1>1, <1>4 DEF HiddenTargets
  <2>6. \A i, j \in 1 .. Len(hidden) + 1 : hidden'[i].target = hidden'[j].target => i = j
    <3> TAKE i, j \in 1 .. Len(hidden) + 1
    <3>1. i \in 1 .. Len(hidden) \/ i = Len(hidden) + 1
      BY <1>1
    <3>2. j \in 1 .. Len(hidden) \/ j = Len(hidden) + 1
      BY <1>1
    <3> QED
      BY <3>1, <3>2, <2>1, <2>4, <2>5, <1>1
  <2>7. DOMAIN hidden' = 1 .. Len(hidden) + 1
    BY <2>4, LenProperties
  <2>8. HiddenTyped'
    BY <2>4, <2>6, <2>7, <1>1, <1>4 DEF HiddenTyped
  <2>9. HidingData'
    BY <2>8, <1>2 DEF HidingData, CacheTyped, Cached, HideForUser
  <2> DEFINE q == <<newRow>>
  <2>10. HidingMoves(r, "mark", q) /\ Len(q) > 0
    BY <2>2, <2>3
  <2> HIDE DEF q
  <2> QED
    BY <2>9, <2>10, HidingTypeFollows
<1> QED
  BY <1>3, <1>4 DEF HideForUser

\* Where each of the other steps takes its request.
LEMMA MarkedMoves ==
    ASSUME HidingTyped, NEW r \in HideRequests, Marked(r)
    PROVE  HidingMoves(r, "count", << >>) \/ HidingMoves(r, "idle", << >>)
<1>1. hiding \in [HideRequests -> HidingStates] /\ << >> \in Seq(HidingRows) /\ "count" \in HidingSteps
  BY HidingIsTyped DEF HidingSteps
<1> QED
  BY <1>1, HidingGoesOn, HidingIsOver DEF Marked

LEMMA MarkMoves ==
    ASSUME HidingTyped, NEW r \in HideRequests, MarkHidden(r)
    PROVE  /\ HidingMoves(r, "expire", << >>) \/ HidingMoves(r, "count", << >>) \/ HidingMoves(r, "idle", << >>)
           /\ HidingTyped'
<1>1. /\ hiding \in [HideRequests -> HidingStates] /\ Len(hiding[r].todo) > 0 /\ hiding[r].todo[1] \in HidingRows
      /\ UNCHANGED <<hidden, rowsMade, changes, overlapped>> /\ overlapped \in BOOLEAN /\ CacheTyped
  BY HidingIsTyped, HidingDataTyped DEF MarkHidden, HidingData
<1>2. CASE Marked(r) /\ UNCHANGED <<cache, lifetime>>
  <2>1. CacheTyped'
    BY <1>1, <1>2 DEF CacheTyped, Cached
  <2> QED
    BY <1>1, <1>2, <2>1, MarkedMoves, QuietKeepsTypes
<1> DEFINE t == Head(hiding[r].todo).target
           S == IF cache = {} THEN {{t}} ELSE {T \union {t} : T \in cache}
<1>3. ASSUME cache' = S, lifetime' = IF cache = {} THEN "due" ELSE lifetime, HidingGoes(r, "expire", << >>)
      PROVE  HidingMoves(r, "expire", << >>) /\ HidingTyped'
  <2>1. t \in Hideables
    <3>1. Head(hiding[r].todo) = hiding[r].todo[1]
      OBVIOUS
    <3> QED
      BY <3>1, <1>1 DEF HidingRows
  <2> HIDE DEF t
  <2>2. \E T \in SUBSET Hideables : S = {T}
    <3>1. CASE cache = {}
      BY <3>1, <2>1
    <3>2. ASSUME NEW T \in SUBSET Hideables, cache = {T}
          PROVE  \E U \in SUBSET Hideables : S = {U}
      <4>1. S = {T \union {t}} /\ T \union {t} \in SUBSET Hideables
        BY <3>2, <2>1
      <4> QED
        BY <4>1
    <3> QED
      BY <3>1, <3>2, <1>1 DEF CacheTyped, Cached
  <2> HIDE DEF S
  <2>3. CacheTyped'
    BY <1>1, <1>3, <2>2 DEF CacheTyped, Cached
  <2>4. HidingMoves(r, "expire", << >>)
    <3>1. << >> \in Seq(HidingRows) /\ "expire" \in HidingSteps
      BY DEF HidingSteps
    <3> QED
      BY <1>1, <1>3, <3>1, HidingGoesOn
  <2> QED
    BY <1>1, <2>3, <2>4, QuietKeepsTypes
<1> QED
  BY <1>2, <1>3 DEF MarkHidden

LEMMA LifetimeMoves ==
    ASSUME HidingTyped, NEW r \in HideRequests, SetLifetime(r)
    PROVE  (HidingMoves(r, "count", << >>) \/ HidingMoves(r, "idle", << >>)) /\ HidingTyped'
<1>1. /\ UNCHANGED <<hidden, rowsMade, cache, changes, overlapped>> /\ overlapped \in BOOLEAN /\ CacheTyped
      /\ Marked(r) /\ lifetime' \in {"has", IF lifetime = "due" THEN "lost" ELSE lifetime}
  BY HidingDataTyped DEF SetLifetime, HidingData
<1>2. CacheTyped'
  BY <1>1 DEF CacheTyped, Cached
<1> QED
  BY <1>1, <1>2, MarkedMoves, QuietKeepsTypes

LEMMA CountMoves ==
    ASSUME HidingTyped, NEW r \in HideRequests, CountOverflow(r)
    PROVE  /\ \/ HidingMoves(r, "idle", << >>)
              \/ /\ Len(hidden) > HiddenLimit
                 /\ HidingMoves(r, "list", SubSeq(hidden, 1, Len(hidden) - HiddenLimit))
           /\ HidingTyped'
<1>1. hiding \in [HideRequests -> HidingStates] /\ Len(hidden) \in Nat /\ hidden \in Seq(HidingRows)
  BY HidingIsTyped
<1>2. CASE Len(hidden) <= HiddenLimit
  <2>1. HidingMoves(r, "idle", << >>)
    BY <1>1, <1>2, HidingIsOver DEF CountOverflow
  <2> QED
    BY <2>1, QuietKeepsTypes, HidingDataTyped DEF CountOverflow, HidingData, CacheTyped, Cached
<1>3. CASE ~ (Len(hidden) <= HiddenLimit)
  <2>1. Len(hidden) - HiddenLimit \in 0 .. Len(hidden) /\ Len(hidden) > HiddenLimit
    BY <1>1, <1>3, HidingAssumption
  <2>2. SubSeq(hidden, 1, Len(hidden) - HiddenLimit) \in Seq(HidingRows) /\ "list" \in HidingSteps
    BY <2>1, <1>1, OldestRows DEF HidingSteps
  <2>3. HidingMoves(r, "list", SubSeq(hidden, 1, Len(hidden) - HiddenLimit))
    BY <1>1, <1>3, <2>2, HidingGoesOn DEF CountOverflow
  <2>4. HidingTyped'
    BY <2>3, QuietKeepsTypes, HidingDataTyped DEF CountOverflow, HidingData, CacheTyped, Cached
  <2> QED
    BY <2>1, <2>3, <2>4
<1> QED
  BY <1>2, <1>3

LEMMA ListMoves ==
    ASSUME HidingTyped, NEW r \in HideRequests, ListStale(r)
    PROVE  /\ \E q \in Seq(HidingRows) :
                /\ HidingMoves(r, "evict", q)
                /\ ~ overlapped' => Len(q) = Len(hiding[r].todo) /\ Len(q) <= Len(hidden)
                        /\ \A i \in 1 .. Len(q) : q[i] = hiding[r].todo[i] /\ q[i] = hidden[i]
           /\ HidingTyped'
<1>1. /\ hiding \in [HideRequests -> HidingStates] /\ Len(hidden) \in Nat /\ hidden \in Seq(HidingRows)
      /\ hiding[r].todo \in Seq(HidingRows) /\ Len(hiding[r].todo) \in Nat
  BY HidingIsTyped
<1> DEFINE all == hiding[r].todo
           q == IF Len(all) <= Len(hidden) THEN SubSeq(hidden, 1, Len(all)) ELSE hidden
<1>2. /\ q \in Seq(HidingRows)
      /\ Len(all) <= Len(hidden) => Len(q) = Len(all) /\ \A i \in 1 .. Len(q) : q[i] = hidden[i]
  <2>1. CASE Len(all) <= Len(hidden)
    <3>1. Len(all) \in 0 .. Len(hidden) /\ q = SubSeq(hidden, 1, Len(all))
      BY <1>1, <2>1
    <3> QED
      BY <3>1, <1>1, OldestRows
  <2>2. CASE ~ (Len(all) <= Len(hidden))
    BY <2>2, <1>1
  <2> QED
    BY <2>1, <2>2
<1>3. HidingGoes(r, "evict", q) /\ "evict" \in HidingSteps
  BY DEF ListStale, HidingSteps
<1>4. ~ overlapped' => Len(all) <= Len(hidden) /\ \A i \in 1 .. Len(all) : hidden[i] = all[i]
  <2>1. ~ overlapped' => \A i \in DOMAIN all : ~ (i > Len(hidden)) /\ hidden[i] = all[i]
    BY DEF ListStale
  <2>2. DOMAIN all = 1 .. Len(all)
    BY <1>1, LenProperties
  <2> HIDE DEF all
  <2>3. ASSUME ~ overlapped', Len(all) > Len(hidden)
        PROVE  FALSE
    <3>1. Len(all) \in DOMAIN all
      BY <1>1, <2>2, <2>3 DEF all
    <3> QED
      BY <3>1, <2>1, <2>3
  <2> QED
    BY <2>1, <2>2, <2>3, <1>1 DEF all
<1> HIDE DEF q
<1>5. HidingMoves(r, "evict", q)
  BY <1>1, <1>2, <1>3, HidingGoesOn
<1>6. HidingTyped'
  <2>1. UNCHANGED <<hidden, rowsMade, changes>> /\ CacheTyped' /\ overlapped' \in BOOLEAN
    BY HidingDataTyped DEF ListStale, HidingData, CacheTyped, Cached
  <2> QED
    BY <2>1, <1>5, QuietKeepsTypes
<1> QED
  BY <1>2, <1>4, <1>5, <1>6

LEMMA EvictMoves ==
    ASSUME HidingTyped, NEW r \in HideRequests, EvictStale(r)
    PROVE  /\ HidingMoves(r, "idle", << >>) \/ HidingMoves(r, "delete", hiding[r].todo)
           /\ HidingTyped'
<1>1. /\ hiding \in [HideRequests -> HidingStates] /\ hiding[r].todo \in Seq(HidingRows) /\ Len(hiding[r].todo) \in Nat
      /\ UNCHANGED <<hidden, rowsMade, lifetime, changes, overlapped>> /\ overlapped \in BOOLEAN
      /\ CacheTyped /\ Cached(cache)
  BY HidingIsTyped, HidingDataTyped DEF EvictStale, HidingData, CacheTyped
<1>2. CASE hiding[r].todo = << >>
  <2>1. HidingMoves(r, "idle", << >>) /\ CacheTyped'
    BY <1>1, <1>2, HidingIsOver DEF EvictStale, CacheTyped, Cached
  <2> QED
    BY <2>1, <1>1, QuietKeepsTypes
<1>3. CASE hiding[r].todo # << >>
  <2>1. HidingMoves(r, "delete", hiding[r].todo)
    BY <1>1, <1>3, HidingGoesOn DEF EvictStale, HidingSteps
  <2>2. CacheTyped'
    <3> DEFINE S == Unmarked(Head(hiding[r].todo).target)
    <3>1. Cached(S) /\ (S = {} => cache = {}) /\ OnRedis(S)
      BY <1>1, <1>3, UnmarkedTyped DEF EvictStale
    <3> HIDE DEF S
    <3> QED
      BY <1>1, <3>1, OnRedisTyped
  <2>3. Len(hiding[r].todo) > 0
    BY <1>1, <1>3, EmptySeq, LenProperties
  <2> QED
    BY <2>1, <2>2, <2>3, <1>1, QuietKeepsTypes
<1> QED
  BY <1>2, <1>3

LEMMA DeleteMoves ==
    ASSUME HidingTyped, NEW r \in HideRequests, DeleteStale(r)
    PROVE  /\ HidingMoves(r, "evict", Tail(hiding[r].todo)) /\ UNCHANGED <<rowsMade, overlapped>>
           /\ Len(hiding[r].todo) > 0 /\ Len(Tail(hiding[r].todo)) = Len(hiding[r].todo) - 1
           /\ \A i \in 1 .. Len(hiding[r].todo) - 1 : Tail(hiding[r].todo)[i] = hiding[r].todo[i + 1]
           /\ \/ /\ hidden' = hidden
                 /\ \A i \in 1 .. Len(hidden) : hidden[i].id # hiding[r].todo[1].id
              \/ \E i \in 1 .. Len(hidden) :
                    /\ hidden[i].id = hiding[r].todo[1].id /\ Len(hidden') = Len(hidden) - 1
                    /\ \A j \in 1 .. Len(hidden) - 1 : hidden'[j] = IF j < i THEN hidden[j] ELSE hidden[j + 1]
           /\ HidingTyped'
<1>1. /\ hiding \in [HideRequests -> HidingStates] /\ hiding[r].todo \in Seq(HidingRows)
      /\ Len(hiding[r].todo) \in Nat /\ Len(hiding[r].todo) > 0 /\ DOMAIN hidden = 1 .. Len(hidden)
  BY HidingIsTyped DEF DeleteStale
<1>2. hiding[r].todo # << >>
  BY <1>1, EmptySeq, LenProperties
<1>3. /\ Tail(hiding[r].todo) \in Seq(HidingRows) /\ Len(Tail(hiding[r].todo)) = Len(hiding[r].todo) - 1
      /\ \A i \in 1 .. Len(hiding[r].todo) - 1 : Tail(hiding[r].todo)[i] = hiding[r].todo[i + 1]
  BY <1>1, <1>2, HeadTailProperties
<1>4. HidingMoves(r, "evict", Tail(hiding[r].todo))
  BY <1>1, <1>3, HidingGoesOn DEF DeleteStale, HidingSteps
<1>5. Head(hiding[r].todo) = hiding[r].todo[1]
  BY <1>1
<1>6. UNCHANGED <<rowsMade, cache, lifetime, changes, overlapped>> /\ HidingData
  BY HidingDataTyped DEF DeleteStale
<1>7. ASSUME hidden' = hidden
      PROVE  HidingTyped'
  BY <1>4, <1>6, <1>7, QuietKeepsTypes DEF HidingData, CacheTyped, Cached
<1>8. ASSUME NEW i \in DOMAIN hidden, hidden' = WithoutRow(i)
      PROVE  /\ HidingTyped' /\ Len(hidden') = Len(hidden) - 1
             /\ \A j \in 1 .. Len(hidden) - 1 : hidden'[j] = IF j < i THEN hidden[j] ELSE hidden[j + 1]
  <2>1. /\ HiddenTyped' /\ Len(hidden') = Len(hidden) - 1
        /\ \A j \in 1 .. Len(hidden) - 1 : hidden'[j] = IF j < i THEN hidden[j] ELSE hidden[j + 1]
    BY <1>8, <1>6, RemovalKeepsTypes
  <2>2. HidingData'
    BY <2>1, <1>6 DEF HidingData, CacheTyped, Cached
  <2> QED
    BY <2>1, <2>2, <1>4, HidingTypeFollows
<1> QED
  BY <1>1, <1>3, <1>4, <1>5, <1>6, <1>7, <1>8 DEF DeleteStale

LEMMA UnhideKeepsTypes ==
    ASSUME HidingTyped, NEW r \in HideRequests, NEW t \in Hideables, UnhideForUser(r, t)
    PROVE  HidingTyped'
<1>1. PICK i \in DOMAIN hidden : hidden' = WithoutRow(i) /\ HidingGoes(r, "unmark", <<hidden[i]>>)
  BY DEF UnhideForUser
<1>2. HiddenTyped' /\ rowsMade' = rowsMade
  BY <1>1, RemovalKeepsTypes DEF UnhideForUser
<1>7. HidingData /\ changes' \in 0 .. MaxHides
  BY HidingDataTyped, HidingAssumption DEF UnhideForUser, HidingData
<1>3. HidingData'
  BY <1>2, <1>7 DEF HidingData, CacheTyped, Cached, UnhideForUser
<1>4. hiding \in [HideRequests -> HidingStates] /\ hidden[i] \in HidingRows
  BY HidingIsTyped
<1>5. <<hidden[i]>> \in Seq(HidingRows) /\ Len(<<hidden[i]>>) = 1
  BY <1>4
<1>6. HidingMoves(r, "unmark", <<hidden[i]>>)
  BY <1>1, <1>4, <1>5, HidingGoesOn DEF HidingSteps
<1> QED
  BY <1>3, <1>5, <1>6, HidingTypeFollows

LEMMA UnmarkMoves ==
    ASSUME HidingTyped, NEW r \in HideRequests, UnmarkHidden(r)
    PROVE  HidingMoves(r, "idle", << >>) /\ HidingTyped'
<1>1. HidingMoves(r, "idle", << >>)
  BY HidingIsTyped, HidingIsOver DEF UnmarkHidden
<1> DEFINE S == Unmarked(Head(hiding[r].todo).target)
<1>3. UNCHANGED <<hidden, rowsMade, lifetime, changes, overlapped>> /\ overlapped \in BOOLEAN /\ CacheTyped /\ Cached(cache)
  BY HidingDataTyped DEF UnmarkHidden, HidingData, CacheTyped
<1>4. Cached(S) /\ (S = {} => cache = {}) /\ OnRedis(S)
  BY <1>3, UnmarkedTyped DEF UnmarkHidden
<1> HIDE DEF S
<1>2. CacheTyped' /\ UNCHANGED <<hidden, rowsMade, changes, overlapped>> /\ overlapped \in BOOLEAN
  BY <1>3, <1>4, OnRedisTyped
<1> QED
  BY <1>1, <1>2, QuietKeepsTypes

LEMMA ContainsMoves ==
    ASSUME HidingTyped, NEW r \in HideRequests, ContainsHidden(r)
    PROVE  HidingMoves(r, "warm", hidden) /\ HidingTyped'
<1>1. HidingMoves(r, "warm", hidden)
  BY HidingIsTyped, HidingGoesOn DEF ContainsHidden, HidingSteps
<1>2. CacheTyped' /\ UNCHANGED <<hidden, rowsMade, changes, overlapped>> /\ overlapped \in BOOLEAN
  BY HidingDataTyped DEF ContainsHidden, HidingData, CacheTyped, Cached
<1> QED
  BY <1>1, <1>2, QuietKeepsTypes

LEMMA WarmMoves ==
    ASSUME HidingTyped, NEW r \in HideRequests, WarmCache(r)
    PROVE  HidingMoves(r, "idle", << >>) /\ HidingTyped'
<1>1. HidingMoves(r, "idle", << >>)
  BY HidingIsTyped, HidingIsOver DEF WarmCache
<1> DEFINE S == {hiding[r].todo[i].target : i \in DOMAIN hiding[r].todo}
<1>2. S \in SUBSET Hideables
  <2>1. hiding[r].todo \in Seq(HidingRows)
    BY HidingIsTyped
  <2>2. \A i \in DOMAIN hiding[r].todo : hiding[r].todo[i] \in HidingRows
    BY <2>1, ElementOfSeq, LenProperties
  <2> QED
    BY <2>2 DEF HidingRows
<1>3. (cache' = {S} /\ lifetime' = "has") \/ UNCHANGED <<cache, lifetime>>
  BY DEF WarmCache
<1> HIDE DEF S
<1>4. Cached({S})
  BY <1>2 DEF Cached
<1>5. CacheTyped' /\ UNCHANGED <<hidden, rowsMade, changes, overlapped>> /\ overlapped \in BOOLEAN
  BY <1>3, <1>4, HidingDataTyped DEF WarmCache, HidingData, CacheTyped, Cached
<1> QED
  BY <1>1, <1>5, QuietKeepsTypes

LEMMA ExpiryKeepsTypes ==
    ASSUME HidingTyped, SetExpires
    PROVE  HidingTyped'
<1>1. HidingTypeOK'
  BY DEF HidingTyped, HidingTypeOK, SetExpires
<1> QED
  BY <1>1 DEF HidingTyped, TodoIsThere, SetExpires

LEMMA HidingKeepsTypes ==
    ASSUME HidingTyped, HidingNext
    PROVE  HidingTyped'
<1>1. ASSUME NEW r \in HideRequests, HidingProceeds(r)
      PROVE  HidingTyped'
  BY <1>1, MarkMoves, LifetimeMoves, CountMoves, ListMoves, EvictMoves, DeleteMoves, UnmarkMoves, WarmMoves DEF HidingProceeds
<1>2. CASE HidePosts
  BY <1>2, HideKeepsTypes, UnhideKeepsTypes DEF HidePosts
<1>3. ASSUME NEW r \in HideRequests, ContainsHidden(r)
      PROVE  HidingTyped'
  BY <1>3, ContainsMoves
<1>4. CASE SetExpires
  BY <1>4, ExpiryKeepsTypes
<1> QED
  BY <1>1, <1>2, <1>3, <1>4 DEF HidingNext

\* A step that leaves the rows alone and neither lists nor trims.
LEMMA QuietKeepsOrder ==
    ASSUME HidingInOrder, NEW r \in HideRequests, NEW pc, NEW q, HidingMoves(r, pc, q), UNCHANGED <<hidden, rowsMade>>,
           pc \in {"list", "evict", "delete"} => OldRows(q),
           pc \in {"evict", "delete"} => OldestFirst(q)
    PROVE  HidingInOrder'
<1>1. RowsInOrder'
  BY DEF HidingInOrder, RowsInOrder
<1>2. ASSUME NEW o \in HideRequests
      PROVE  TrimsInOrder(o)'
  <2>1. CASE o = r
    BY <2>1 DEF HidingMoves, TrimsInOrder, OldRows, OldestFirst
  <2>2. CASE o # r
    <3>1. hiding'[o] = hiding[o] /\ TrimsInOrder(o)
      BY <2>2 DEF HidingMoves, HidingInOrder
    <3> QED
      BY <3>1 DEF TrimsInOrder, OldRows, OldestFirst
  <2> QED
    BY <2>1, <2>2
<1> QED
  BY <1>1, <1>2 DEF HidingInOrder

\* A row is added at the end, and the newest that are to stay begin one later.
LEMMA HideKeepsOrder ==
    ASSUME HidingTyped, HidingInOrder, NEW r \in HideRequests, NEW t \in Hideables, HideForUser(r, t)
    PROVE  HidingInOrder' /\ \A i \in 1 .. Len(hidden) : i \in DOMAIN hidden' /\ hidden'[i] = hidden[i]
<1>1. /\ hidden \in Seq(HidingRows) /\ rowsMade \in Nat /\ Len(hidden) \in Nat /\ DOMAIN hidden = 1 .. Len(hidden)
      /\ \A i \in 1 .. Len(hidden) : hidden[i] \in HidingRows
      /\ hiding \in [HideRequests -> HidingStates]
      /\ \A o \in HideRequests : hiding[o].todo \in Seq(HidingRows) /\ Len(hiding[o].todo) \in Nat
  BY HidingIsTyped
<1>2. ASSUME NEW i \in DOMAIN hidden, hidden' = hidden, rowsMade' = rowsMade,
             hiding' = [hiding EXCEPT ![r] = [pc |-> "mark", todo |-> <<hidden[i]>>, created |-> FALSE]]
      PROVE  HidingInOrder' /\ \A j \in 1 .. Len(hidden) : j \in DOMAIN hidden' /\ hidden'[j] = hidden[j]
  <2>1. <<hidden[i]>> \in Seq(HidingRows)
    BY <1>1
  <2>2. HidingMoves(r, "mark", <<hidden[i]>>)
    BY <2>1, <1>1, <1>2 DEF HidingMoves, HidingStates, HidingSteps
  <2> QED
    BY <2>2, <1>1, <1>2, QuietKeepsOrder
<1>3. ASSUME NEW newRow, newRow = HiddenRow(t, rowsMade + 1), rowsMade' = rowsMade + 1, hidden' = Append(hidden, newRow),
             hiding' = [hiding EXCEPT ![r] = [pc |-> "mark", todo |-> <<newRow>>, created |-> TRUE]]
      PROVE  HidingInOrder' /\ \A j \in 1 .. Len(hidden) : j \in DOMAIN hidden' /\ hidden'[j] = hidden[j]
  <2>1. newRow \in HidingRows /\ newRow.id = rowsMade + 1
    BY <1>1, <1>3 DEF HiddenRow, HidingRows
  <2>2. /\ hidden' \in Seq(HidingRows) /\ Len(hidden') = Len(hidden) + 1
        /\ \A i \in 1 .. Len(hidden) : hidden'[i] = hidden[i]
        /\ hidden'[Len(hidden) + 1] = newRow
    BY <1>1, <1>3, <2>1, AppendProperties
  <2>3. RowsInOrder'
    <3>1. rowsMade' = rowsMade + 1 /\ Len(hidden') = Len(hidden) + 1
      BY <2>2, <1>3
    <3>2. ASSUME NEW i \in 1 .. Len(hidden')
          PROVE  hidden'[i].id = rowsMade' - Len(hidden') + i
      <4>1. CASE i = Len(hidden) + 1
        BY <4>1, <3>1, <2>1, <2>2, <1>1
      <4>2. CASE i \in 1 .. Len(hidden)
        <5>1. hidden'[i].id = rowsMade - Len(hidden) + i
          BY <4>2, <2>2 DEF HidingInOrder, RowsInOrder
        <5> QED
          BY <5>1, <4>2, <3>1, <1>1
      <4> QED
        BY <4>1, <4>2, <3>1, <1>1
    <3> QED
      BY <3>2 DEF RowsInOrder
  <2>4. ASSUME NEW o \in HideRequests
        PROVE  TrimsInOrder(o)'
    <3>1. CASE o = r
      <4>1. hiding'[o].pc = "mark"
        BY <3>1, <1>1, <1>3
      <4> QED
        BY <4>1 DEF TrimsInOrder
    <3>2. CASE o # r
      <4>1. hiding'[o] = hiding[o] /\ TrimsInOrder(o)
        BY <3>2, <1>1, <1>3 DEF HidingInOrder
      <4>2. Len(hiding[o].todo) \in Nat /\ \A i \in 1 .. Len(hiding[o].todo) : hiding[o].todo[i] \in HidingRows
        BY <1>1, ElementOfSeq
      <4>3. OldRows(hiding[o].todo) => OldRows(hiding[o].todo)'
        <5> SUFFICES ASSUME OldRows(hiding[o].todo), NEW i \in 1 .. Len(hiding[o].todo)
                     PROVE  /\ hiding[o].todo[i].id = hiding[o].todo[1].id + i - 1
                            /\ hiding[o].todo[i].id + HiddenLimit <= rowsMade + 1
          BY <4>1, <1>3 DEF OldRows
        <5>1. hiding[o].todo[i].id \in Nat
          BY <4>2 DEF HidingRows
        <5> QED
          BY <5>1, <1>1, HidingAssumption DEF OldRows
      <4>4. OldestFirst(hiding[o].todo) => OldestFirst(hiding[o].todo)'
        <5> SUFFICES ASSUME OldestFirst(hiding[o].todo), Len(hiding[o].todo) > 0
                     PROVE  hiding[o].todo[1].id + (Len(hidden) + 1) <= rowsMade + 1 + 1
          BY <4>1, <2>2, <1>3 DEF OldestFirst
        <5>1. hiding[o].todo[1].id \in Nat
          BY <4>2 DEF HidingRows
        <5> QED
          BY <5>1, <1>1 DEF OldestFirst
      <4> QED
        BY <4>1, <4>3, <4>4 DEF TrimsInOrder
    <3> QED
      BY <3>1, <3>2
  <2>5. HidingInOrder'
    BY <2>3, <2>4 DEF HidingInOrder
  <2> QED
    BY <2>2, <2>5, <1>1, LenProperties
<1> QED
  BY <1>2, <1>3 DEF HideForUser

\* What is deleted is the oldest row, and beyond the newest that are to stay.
LEMMA DeleteKeepsOrder ==
    ASSUME HidingTyped, HidingInOrder, NEW r \in HideRequests, DeleteStale(r)
    PROVE  /\ HidingInOrder'
           /\ \/ hidden' = hidden
              \/ Len(hidden) - 1 >= HiddenLimit /\ \A j \in 2 .. Len(hidden) : j - 1 \in DOMAIN hidden' /\ hidden'[j - 1] = hidden[j]
<1>1. /\ rowsMade \in Nat /\ Len(hidden) \in Nat
      /\ \A i \in 1 .. Len(hidden) : hidden[i] \in HidingRows
      /\ \A o \in HideRequests : hiding[o].todo \in Seq(HidingRows) /\ Len(hiding[o].todo) \in Nat
  BY HidingIsTyped
<1> DEFINE q == hiding[r].todo
           p == Tail(q)
<1>2. /\ HidingMoves(r, "evict", p) /\ rowsMade' = rowsMade /\ Len(q) > 0 /\ Len(p) = Len(q) - 1
      /\ \A i \in 1 .. Len(q) - 1 : p[i] = q[i + 1]
  BY DeleteMoves
<1>3. /\ OldRows(q) /\ OldestFirst(q) /\ Len(q) \in Nat /\ \A i \in 1 .. Len(q) : q[i] \in HidingRows /\ q[i].id \in Nat
  <2>1. hiding[r].pc = "delete" /\ TrimsInOrder(r)
    BY DEF DeleteStale, HidingInOrder
  <2>2. \A i \in 1 .. Len(q) : q[i] \in HidingRows
    BY <1>1, ElementOfSeq
  <2> QED
    BY <2>1, <2>2, <1>1 DEF TrimsInOrder, HidingRows
<1>4. OldRows(p) /\ (Len(p) > 0 => p[1].id = q[1].id + 1)
  <2>1. Len(p) = Len(q) - 1 /\ \A i \in 1 .. Len(p) : p[i] = q[i + 1]
    BY <1>2
  <2> HIDE DEF p, q
  <2>2. Len(p) > 0 => p[1].id = q[1].id + 1
    <3> SUFFICES ASSUME Len(p) > 0
                 PROVE  p[1].id = q[1].id + 1
      OBVIOUS
    <3>1. 1 \in 1 .. Len(p) /\ 2 \in 1 .. Len(q) /\ 1 + 1 = 2
      BY <1>3, <2>1
    <3>2. p[1] = q[2] /\ q[2].id = q[1].id + 2 - 1
      BY <3>1, <2>1, <1>3 DEF OldRows
    <3>3. q[1].id \in Nat
      BY <3>1, <1>3
    <3> QED
      BY <3>2, <3>3
  <2>3. ASSUME NEW i \in 1 .. Len(p)
        PROVE  p[i].id = p[1].id + i - 1 /\ p[i].id + HiddenLimit <= rowsMade
    <3>1. i + 1 \in 1 .. Len(q) /\ Len(p) > 0 /\ 1 \in 1 .. Len(q)
      BY <1>3, <2>1
    <3>2. q[i + 1].id = q[1].id + (i + 1) - 1 /\ q[i + 1].id + HiddenLimit <= rowsMade /\ p[i] = q[i + 1]
      BY <3>1, <2>1, <1>3 DEF OldRows
    <3>3. q[1].id \in Nat
      BY <3>1, <1>3
    <3> QED
      BY <3>1, <3>2, <3>3, <2>2
  <2> QED
    BY <2>2, <2>3 DEF OldRows
<1>5. q[1].id + HiddenLimit <= rowsMade /\ q[1].id + Len(hidden) <= rowsMade + 1 /\ q[1].id \in Nat
  <2>1. 1 \in 1 .. Len(q)
    BY <1>2, <1>3
  <2> QED
    BY <2>1, <1>2, <1>3 DEF OldRows, OldestFirst
<1> HIDE DEF p, q
<1>6. CASE hidden' = hidden /\ \A i \in 1 .. Len(hidden) : hidden[i].id # q[1].id
  <2>1. q[1].id + Len(hidden) <= rowsMade
    <3>1. CASE Len(hidden) = 0
      BY <3>1, <1>1, <1>5, HidingAssumption
    <3>2. CASE Len(hidden) > 0
      <4>1. 1 \in 1 .. Len(hidden)
        BY <3>2, <1>1
      <4>2. hidden[1].id = rowsMade - Len(hidden) + 1 /\ hidden[1].id # q[1].id
        BY <4>1, <1>6 DEF HidingInOrder, RowsInOrder
      <4> QED
        BY <4>2, <1>1, <1>5
    <3> QED
      BY <3>1, <3>2, <1>1
  <2>2. OldestFirst(p)
    BY <2>1, <1>1, <1>4, <1>5 DEF OldestFirst
  <2>3. HidingInOrder'
    BY <1>2, <1>4, <1>6, <2>2, QuietKeepsOrder
  <2> QED
    BY <2>3, <1>6
<1>7. ASSUME NEW i \in 1 .. Len(hidden), hidden[i].id = q[1].id, Len(hidden') = Len(hidden) - 1,
             \A j \in 1 .. Len(hidden) - 1 : hidden'[j] = IF j < i THEN hidden[j] ELSE hidden[j + 1]
      PROVE  /\ HidingInOrder' /\ Len(hidden) - 1 >= HiddenLimit
             /\ \A j \in 2 .. Len(hidden) : j - 1 \in DOMAIN hidden' /\ hidden'[j - 1] = hidden[j]
  <2>1. i = 1 /\ Len(hidden) - 1 >= HiddenLimit
    <3>1. hidden[i].id = rowsMade - Len(hidden) + i
      BY DEF HidingInOrder, RowsInOrder
    <3>2. HiddenLimit \in Nat
      BY HidingAssumption
    <3>3. q[1].id = rowsMade - Len(hidden) + i /\ q[1].id \in Nat
      BY <3>1, <1>7, <1>5
    <3>4. i = 1
      BY <3>3, <1>1, <1>5
    <3> QED
      BY <3>2, <3>3, <3>4, <1>1, <1>5
  <2>2. \A j \in 1 .. Len(hidden) - 1 : hidden'[j] = hidden[j + 1]
    BY <2>1, <1>7
  <2>3. hidden' \in Seq(HidingRows)
    <3>1. HidingTyped'
      BY DeleteMoves
    <3> QED
      BY <3>1 DEF HidingTyped, HidingTypeOK, HidingRows
  <2>4. \A j \in 2 .. Len(hidden) : j - 1 \in DOMAIN hidden' /\ hidden'[j - 1] = hidden[j]
    <3>1. DOMAIN hidden' = 1 .. Len(hidden) - 1
      BY <2>3, <1>7, LenProperties
    <3> SUFFICES ASSUME NEW j \in 2 .. Len(hidden)
                 PROVE  j - 1 \in DOMAIN hidden' /\ hidden'[j - 1] = hidden[j]
      OBVIOUS
    <3>2. j - 1 \in 1 .. Len(hidden) - 1 /\ (j - 1) + 1 = j
      BY <1>1
    <3> QED
      BY <3>1, <3>2, <2>2
  <2>5. RowsInOrder'
    <3> SUFFICES ASSUME NEW j \in 1 .. Len(hidden) - 1
                 PROVE  hidden'[j].id = rowsMade - (Len(hidden) - 1) + j
      BY <1>2, <1>7 DEF RowsInOrder
    <3>1. j + 1 \in 1 .. Len(hidden) /\ hidden'[j] = hidden[j + 1]
      BY <2>2, <1>1
    <3>2. hidden[j + 1].id = rowsMade - Len(hidden) + (j + 1)
      BY <3>1 DEF HidingInOrder, RowsInOrder
    <3> QED
      BY <3>1, <3>2, <1>1
  <2>6. ASSUME NEW o \in HideRequests
        PROVE  TrimsInOrder(o)'
    <3>1. CASE o = r
      <4>1. Len(p) > 0 => p[1].id + (Len(hidden) - 1) <= rowsMade + 1
        BY <1>1, <1>4, <1>5
      <4>2. hiding'[r].todo = p
        BY <1>2 DEF HidingMoves
      <4>3. /\ \A j \in 1 .. Len(p) : p[j].id = p[1].id + j - 1 /\ p[j].id + HiddenLimit <= rowsMade'
            /\ Len(p) > 0 => p[1].id + Len(hidden') <= rowsMade' + 1
        BY <4>1, <1>2, <1>4, <1>7 DEF OldRows, OldestFirst
      <4> QED
        BY <4>2, <4>3, <3>1 DEF TrimsInOrder, OldRows, OldestFirst
    <3>2. CASE o # r
      <4>1. hiding'[o] = hiding[o] /\ TrimsInOrder(o)
        BY <3>2, <1>2 DEF HidingMoves, HidingInOrder
      <4>2. Len(hiding[o].todo) > 0 => hiding[o].todo[1].id \in Nat
        <5>1. Len(hiding[o].todo) > 0 => 1 \in 1 .. Len(hiding[o].todo)
          BY <1>1
        <5>2. \A j \in 1 .. Len(hiding[o].todo) : hiding[o].todo[j] \in HidingRows
          BY <1>1, ElementOfSeq
        <5> QED
          BY <5>1, <5>2 DEF HidingRows
      <4>3. OldRows(hiding[o].todo) => OldRows(hiding[o].todo)'
        BY <4>1, <1>2 DEF OldRows
      <4>4. OldestFirst(hiding[o].todo) => OldestFirst(hiding[o].todo)'
        <5> SUFFICES ASSUME OldestFirst(hiding[o].todo), Len(hiding[o].todo) > 0
                     PROVE  hiding[o].todo[1].id + (Len(hidden) - 1) <= rowsMade + 1
          BY <4>1, <1>2, <1>7 DEF OldestFirst
        <5> QED
          BY <4>2, <1>1 DEF OldestFirst
      <4> QED
        BY <4>1, <4>3, <4>4 DEF TrimsInOrder
    <3> QED
      BY <3>1, <3>2
  <2>7. HidingInOrder'
    BY <2>5, <2>6 DEF HidingInOrder
  <2> QED
    BY <2>1, <2>4, <2>7
<1> QED
  <2>1. \/ hidden' = hidden /\ \A i \in 1 .. Len(hidden) : hidden[i].id # q[1].id
        \/ \E i \in 1 .. Len(hidden) :
             /\ hidden[i].id = q[1].id /\ Len(hidden') = Len(hidden) - 1
             /\ \A j \in 1 .. Len(hidden) - 1 : hidden'[j] = IF j < i THEN hidden[j] ELSE hidden[j + 1]
    BY DeleteMoves DEF q
  <2> QED
    BY <2>1, <1>6, <1>7

LEMMA HidingInvStart == HidingInit => HidingInv
<1> SUFFICES ASSUME HidingInit
             PROVE  HidingInv
  OBVIOUS
<1> DEFINE before == habit.before
<1>1. before \in Seq(Hideables) /\ \A i, j \in DOMAIN before : before[i] = before[j] => i = j
  BY HidingAssumption DEF HidingInit
<1>2. Len(before) \in Nat /\ DOMAIN before = 1 .. Len(before) /\ \A i \in 1 .. Len(before) : before[i] \in Hideables
  BY <1>1, ElementOfSeq, LenProperties
<1>3. hidden = [i \in 1 .. Len(before) |-> HiddenRow(before[i], i)] /\ rowsMade = Len(before)
  BY DEF HidingInit
<1> HIDE DEF before
<1>4. \A i \in 1 .. Len(before) : hidden[i] \in HidingRows /\ hidden[i].target = before[i] /\ hidden[i].id = i
  BY <1>2, <1>3 DEF HiddenRow, HidingRows
<1>5. hidden \in Seq(HidingRows) /\ Len(hidden) = Len(before) /\ DOMAIN hidden = 1 .. Len(before)
  <2>1. hidden \in [1 .. Len(before) -> HidingRows]
    BY <1>3, <1>4
  <2> QED
    BY <2>1, <1>2, IsASeq, LenProperties
<1>6. NotHiding \in HidingStates /\ NotHiding.pc = "idle"
  <2>1. << >> \in Seq(HidingRows)
    BY EmptySeq
  <2> QED
    BY <2>1 DEF NotHiding, HidingStates, HidingSteps
<1>7. HidingTypeOK
  <2>1. hiding \in [HideRequests -> HidingStates]
    BY <1>6 DEF HidingInit
  <2>2. HidingData
    <3>1. HiddenTyped
      BY <1>1, <1>2, <1>3, <1>4, <1>5 DEF HiddenTyped
    <3>2. cache = {} /\ lifetime = "has" /\ changes = 0 /\ overlapped = FALSE
      BY DEF HidingInit
    <3>3. MaxHides \in Nat
      BY HidingAssumption
    <3>4. CacheTyped
      BY <3>2 DEF CacheTyped, Cached
    <3>5. changes \in 0 .. MaxHides
      BY <3>2, <3>3
    <3>6. overlapped \in BOOLEAN
      BY <3>2
    <3> QED
      BY <3>1, <3>4, <3>5, <3>6 DEF HidingData
  <2> QED
    BY <2>1, <2>2 DEF HidingData, HiddenTyped, CacheTyped, Cached, HidingTypeOK, HidingStates, HidingSteps, HidingRows
<1>8. TodoIsThere /\ \A r \in HideRequests : TrimsInOrder(r)
  BY <1>6 DEF HidingInit, TodoIsThere, TrimsInOrder
<1>9. RowsInOrder
  BY <1>2, <1>3, <1>4, <1>5 DEF RowsInOrder
<1> QED
  BY <1>7, <1>8, <1>9 DEF HidingInv, HidingTyped, HidingInOrder

\* Every step of a viewer who takes nothing back leaves the rows in order.
LEMMA HidingKeepsOrder ==
    ASSUME HidingTyped, HidingInOrder, HidingNext, ~ (habit.unhides \/ overlapped')
    PROVE  /\ HidingInOrder'
           /\ \A i \in DOMAIN hidden :
                (\A j \in DOMAIN hidden' : hidden'[j] # hidden[i]) => Len(hidden) - i >= HiddenLimit
<1> DEFINE Newest == \A i \in DOMAIN hidden :
                        (\A j \in DOMAIN hidden' : hidden'[j] # hidden[i]) => Len(hidden) - i >= HiddenLimit
<1>1. /\ rowsMade \in Nat /\ Len(hidden) \in Nat /\ hidden \in Seq(HidingRows) /\ DOMAIN hidden = 1 .. Len(hidden)
      /\ \A i \in 1 .. Len(hidden) : hidden[i] \in HidingRows
      /\ \A o \in HideRequests : hiding[o].todo \in Seq(HidingRows) /\ Len(hiding[o].todo) \in Nat
      /\ HiddenLimit \in Nat
  BY HidingIsTyped, HidingAssumption
<1>2. ASSUME hidden' = hidden
      PROVE  Newest
  BY <1>2
<1>3. ASSUME NEW r \in HideRequests,
             MarkHidden(r) \/ SetLifetime(r) \/ UnmarkHidden(r) \/ WarmCache(r) \/ ContainsHidden(r)
      PROVE  HidingInOrder' /\ Newest
  <2>1. UNCHANGED <<hidden, rowsMade>>
    BY <1>3 DEF MarkHidden, SetLifetime, UnmarkHidden, WarmCache, ContainsHidden
  <2>2. \/ HidingMoves(r, "expire", << >>) \/ HidingMoves(r, "count", << >>)
        \/ HidingMoves(r, "idle", << >>) \/ HidingMoves(r, "warm", hidden)
    BY <1>3, MarkMoves, LifetimeMoves, UnmarkMoves, WarmMoves, ContainsMoves
  <2>3. HidingInOrder'
    BY <2>1, <2>2, QuietKeepsOrder
  <2> QED
    BY <2>1, <2>3, <1>2
<1>4. ASSUME NEW r \in HideRequests, CountOverflow(r)
      PROVE  HidingInOrder' /\ Newest
  <2>1. UNCHANGED <<hidden, rowsMade>>
    BY <1>4 DEF CountOverflow
  <2>2. CASE HidingMoves(r, "idle", << >>)
    BY <2>1, <2>2, <1>2, QuietKeepsOrder
  <2>3. ASSUME NEW q, q = SubSeq(hidden, 1, Len(hidden) - HiddenLimit), HidingMoves(r, "list", q), Len(hidden) > HiddenLimit
        PROVE  HidingInOrder' /\ Newest
    <3>1. Len(hidden) - HiddenLimit \in 0 .. Len(hidden)
      BY <2>3, <1>1
    <3>2. Len(q) = Len(hidden) - HiddenLimit /\ \A i \in 1 .. Len(q) : q[i] = hidden[i]
      BY <3>1, <2>3, <1>1, OldestRows
    <3>3. ASSUME NEW i \in 1 .. Len(q)
          PROVE  q[i].id = q[1].id + i - 1 /\ q[i].id + HiddenLimit <= rowsMade
      <4>1. i \in 1 .. Len(hidden) /\ 1 \in 1 .. Len(hidden) /\ 1 \in 1 .. Len(q) /\ i <= Len(hidden) - HiddenLimit
        BY <3>2, <1>1
      <4>2. hidden[i].id = rowsMade - Len(hidden) + i /\ hidden[1].id = rowsMade - Len(hidden) + 1
        BY <4>1 DEF HidingInOrder, RowsInOrder
      <4>3. q[i].id = rowsMade - Len(hidden) + i /\ q[1].id = rowsMade - Len(hidden) + 1
        BY <4>1, <4>2, <3>2
      <4> QED
        BY <4>1, <4>3, <1>1
    <3>4. OldRows(q)
      BY <3>3 DEF OldRows
    <3>5. HidingInOrder'
      BY <2>1, <2>3, <3>4, QuietKeepsOrder
    <3> QED
      BY <2>1, <3>5, <1>2
  <2> QED
    BY <2>2, <2>3, <1>4, CountMoves
<1>5. ASSUME NEW r \in HideRequests, ListStale(r)
      PROVE  HidingInOrder' /\ Newest
  <2>1. UNCHANGED <<hidden, rowsMade>>
    BY <1>5 DEF ListStale
  <2>2. PICK q \in Seq(HidingRows) :
            /\ HidingMoves(r, "evict", q) /\ Len(q) = Len(hiding[r].todo) /\ Len(q) <= Len(hidden)
            /\ \A i \in 1 .. Len(q) : q[i] = hiding[r].todo[i] /\ q[i] = hidden[i]
    BY <1>5, ListMoves
  <2>3. OldRows(hiding[r].todo)
    BY <1>5 DEF ListStale, HidingInOrder, TrimsInOrder
  <2>4. OldRows(q)
    <3> SUFFICES ASSUME NEW i \in 1 .. Len(q)
                 PROVE  q[i].id = q[1].id + i - 1 /\ q[i].id + HiddenLimit <= rowsMade
      BY DEF OldRows
    <3>1. 1 \in 1 .. Len(q)
      BY <2>2, <1>1
    <3>2. q[i] = hiding[r].todo[i] /\ q[1] = hiding[r].todo[1] /\ i \in 1 .. Len(hiding[r].todo)
      BY <3>1, <2>2
    <3> QED
      BY <3>2, <2>3 DEF OldRows
  <2>5. OldestFirst(q)
    <3> SUFFICES ASSUME Len(q) > 0
                 PROVE  q[1].id + Len(hidden) <= rowsMade + 1
      BY DEF OldestFirst
    <3>1. 1 \in 1 .. Len(q) /\ 1 \in 1 .. Len(hidden)
      BY <2>2, <1>1
    <3>2. q[1] = hidden[1] /\ hidden[1].id = rowsMade - Len(hidden) + 1
      BY <3>1, <2>2 DEF HidingInOrder, RowsInOrder
    <3> QED
      BY <3>2, <1>1
  <2>6. HidingInOrder'
    BY <2>1, <2>2, <2>4, <2>5, QuietKeepsOrder
  <2> QED
    BY <2>1, <2>6, <1>2
<1>6. ASSUME NEW r \in HideRequests, EvictStale(r)
      PROVE  HidingInOrder' /\ Newest
  <2>1. UNCHANGED <<hidden, rowsMade>> /\ OldRows(hiding[r].todo) /\ OldestFirst(hiding[r].todo)
    BY <1>6 DEF EvictStale, HidingInOrder, TrimsInOrder
  <2>2. HidingMoves(r, "idle", << >>) \/ HidingMoves(r, "delete", hiding[r].todo)
    BY <1>6, EvictMoves
  <2>3. HidingInOrder'
    BY <2>1, <2>2, QuietKeepsOrder
  <2> QED
    BY <2>1, <2>3, <1>2
<1>7. ASSUME NEW r \in HideRequests, DeleteStale(r)
      PROVE  HidingInOrder' /\ Newest
  <2>1. /\ HidingInOrder'
        /\ \/ hidden' = hidden
           \/ Len(hidden) - 1 >= HiddenLimit /\ \A j \in 2 .. Len(hidden) : j - 1 \in DOMAIN hidden' /\ hidden'[j - 1] = hidden[j]
    BY <1>7, DeleteKeepsOrder
  <2>2. ASSUME Len(hidden) - 1 >= HiddenLimit,
               \A j \in 2 .. Len(hidden) : j - 1 \in DOMAIN hidden' /\ hidden'[j - 1] = hidden[j]
        PROVE  Newest
    <3> SUFFICES ASSUME NEW i \in 1 .. Len(hidden), \A j \in DOMAIN hidden' : hidden'[j] # hidden[i]
                 PROVE  Len(hidden) - i >= HiddenLimit
      BY <1>1
    <3>1. i \notin 2 .. Len(hidden)
      BY <2>2
    <3> QED
      BY <3>1, <2>2, <1>1
  <2> QED
    BY <2>1, <2>2, <1>2
<1>8. ASSUME NEW r \in HideRequests, NEW t \in Hideables, HideForUser(r, t)
      PROVE  HidingInOrder' /\ Newest
  BY <1>8, <1>1, HideKeepsOrder
<1>9. ASSUME SetExpires
      PROVE  HidingInOrder' /\ Newest
  <2>1. UNCHANGED <<hidden, rowsMade, hiding>>
    BY <1>9 DEF SetExpires
  <2>2. HidingInOrder'
    BY <2>1 DEF HidingInOrder, RowsInOrder, TrimsInOrder, OldRows, OldestFirst
  <2> QED
    BY <2>1, <2>2, <1>2
<1> HIDE DEF Newest
<1>10. HidingInOrder' /\ Newest
  <2>1. ASSUME NEW r \in HideRequests, HidingProceeds(r)
        PROVE  HidingInOrder' /\ Newest
    BY <2>1, <1>3, <1>4, <1>5, <1>6, <1>7 DEF HidingProceeds
  <2>2. CASE HidePosts
    BY <2>2, <1>8 DEF HidePosts
  <2>3. ASSUME NEW r \in HideRequests, ContainsHidden(r)
        PROVE  HidingInOrder' /\ Newest
    BY <2>3, <1>3
  <2>4. HidePosts \/ (\E r \in HideRequests : ContainsHidden(r) \/ HidingProceeds(r)) \/ SetExpires
    BY DEF HidingNext
  <2>5. CASE \E r \in HideRequests : ContainsHidden(r) \/ HidingProceeds(r)
    <3>1. PICK r \in HideRequests : ContainsHidden(r) \/ HidingProceeds(r)
      BY <2>5
    <3>2. CASE ContainsHidden(r)
      BY <3>2, <2>3
    <3>3. CASE HidingProceeds(r)
      BY <3>3, <2>1
    <3> QED
      BY <3>1, <3>2, <3>3
  <2> QED
    BY <2>2, <2>4, <2>5, <1>9
<1> QED
  BY <1>10 DEF Newest

LEMMA HabitStays ==
    ASSUME HidingNext
    PROVE  habit' = habit /\ (overlapped => overlapped')
<1>1. ASSUME NEW r \in HideRequests, HidingProceeds(r)
      PROVE  habit' = habit /\ (overlapped => overlapped')
  <2>1. CASE ListStale(r)
    BY <2>1 DEF ListStale
  <2>2. CASE DeleteStale(r)
    BY <2>2 DEF DeleteStale
  <2>3. CASE MarkHidden(r) \/ SetLifetime(r) \/ UnmarkHidden(r) \/ WarmCache(r)
    BY <2>3 DEF MarkHidden, SetLifetime, UnmarkHidden, WarmCache
  <2>4. CASE CountOverflow(r) \/ EvictStale(r)
    BY <2>4 DEF CountOverflow, EvictStale
  <2> QED
    BY <2>1, <2>2, <2>3, <2>4, <1>1 DEF HidingProceeds
<1>2. CASE HidePosts
  BY <1>2 DEF HidePosts, HideForUser, UnhideForUser
<1>3. ASSUME NEW r \in HideRequests, ContainsHidden(r)
      PROVE  habit' = habit /\ (overlapped => overlapped')
  BY <1>3 DEF ContainsHidden
<1>4. CASE SetExpires
  BY <1>4 DEF SetExpires
<1> QED
  BY <1>1, <1>2, <1>3, <1>4 DEF HidingNext

\* What a step that is no listing does to the history.
LEMMA OnlyListingOverlaps ==
    ASSUME HidingNext
    PROVE  overlapped' = overlapped \/ hidden' = hidden
<1>1. ASSUME NEW r \in HideRequests, HidingProceeds(r)
      PROVE  overlapped' = overlapped \/ hidden' = hidden
  <2>1. CASE ListStale(r)
    BY <2>1 DEF ListStale
  <2>2. CASE DeleteStale(r)
    BY <2>2 DEF DeleteStale
  <2>3. CASE MarkHidden(r) \/ SetLifetime(r) \/ UnmarkHidden(r) \/ WarmCache(r)
    BY <2>3 DEF MarkHidden, SetLifetime, UnmarkHidden, WarmCache
  <2>4. CASE CountOverflow(r) \/ EvictStale(r)
    BY <2>4 DEF CountOverflow, EvictStale
  <2> QED
    BY <2>1, <2>2, <2>3, <2>4, <1>1 DEF HidingProceeds
<1>2. CASE HidePosts
  BY <1>2 DEF HidePosts, HideForUser, UnhideForUser
<1>3. ASSUME NEW r \in HideRequests, ContainsHidden(r)
      PROVE  overlapped' = overlapped \/ hidden' = hidden
  BY <1>3 DEF ContainsHidden
<1>4. CASE SetExpires
  BY <1>4 DEF SetExpires
<1> QED
  BY <1>1, <1>2, <1>3, <1>4 DEF HidingNext

LEMMA HidingInvStep == HidingInv /\ [HidingNext]_hidingVars => HidingInv'
<1>1. CASE HidingInv /\ HidingNext
  <2>1. HidingTyped'
    BY <1>1, HidingKeepsTypes DEF HidingInv
  <2>2. ASSUME ~ (habit'.unhides \/ overlapped')
        PROVE  HidingInOrder'
    BY <1>1, <2>2, HabitStays, HidingKeepsOrder DEF HidingInv
  <2> QED
    BY <2>1, <2>2 DEF HidingInv
<1>2. CASE HidingInv /\ UNCHANGED hidingVars
  BY <1>2 DEF hidingVars, HidingInv, HidingTyped, HidingTypeOK, TodoIsThere, HidingInOrder, RowsInOrder, TrimsInOrder, OldRows, OldestFirst
<1> QED
  BY <1>1, <1>2

\* Hidden content, hidden_content: the types of the rows, the set in Redis and the requests, for
\* any targets, requests, limit and number of changes.
THEOREM HidingTypeCorrect == HidingSpec => []HidingTypeOK
<1>1. HidingInv => HidingTypeOK
  BY DEF HidingInv, HidingTyped
<1> QED
  BY <1>1, HidingInvStart, HidingInvStep, PTL DEF HidingSpec

\* Hidden content, hidden_content._trim_hidden_rows: only what is older than the newest rows up to
\* the limit goes, however many requests hide, count, list and delete at a time, if the viewer
\* takes nothing back and none lists its overflow after another trimmed.
THEOREM NewestStay == HidingSpec => NewestStayHidden
<1> DEFINE Newest == ~ (habit.unhides \/ overlapped) => \A i \in DOMAIN hidden :
                        (\A j \in DOMAIN hidden' : hidden'[j] # hidden[i]) => Len(hidden) - i >= HiddenLimit
<1>1. HidingInv /\ [HidingNext]_hidingVars => [Newest]_hidingVars
  <2> SUFFICES ASSUME HidingInv, HidingNext, ~ (habit.unhides \/ overlapped)
               PROVE  Newest
    OBVIOUS
  <2>1. CASE hidden' = hidden
    BY <2>1
  <2>2. CASE overlapped' = overlapped
    BY <2>2, HidingKeepsOrder DEF HidingInv
  <2> QED
    BY <2>1, <2>2, OnlyListingOverlaps
<1> QED
  BY <1>1, HidingInvStart, HidingInvStep, PTL DEF HidingSpec, NewestStayHidden

=============================================================================
