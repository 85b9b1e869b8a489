------------------------------- MODULE Lists --------------------------------
(***************************************************************************)
(* Lists that a client reads page by page while others change them.        *)
(* Followers, saved and hidden posts, reports, comments and the posts of a *)
(* profile name the last row of a page as the cursor; the next page is     *)
(* what comes after that row, by its time and then its id, if the query    *)
(* for it still finds it, and else begins anew.  Circles and anchors give  *)
(* a time as the cursor.  The feed and the comments of a circle and all    *)
(* lists of the dashboard are read by number of page, ordered by time.     *)
(*                                                                         *)
(* Every page is a request of its own; rows that are added are the latest. *)
(***************************************************************************)
EXTENDS Naturals, FiniteSets, FiniteSetsExt

CONSTANTS
    ListRows,       \* ids, a set of numbers: UUIDs, which say nothing of the time
    MaxRowTime,     \* bound: times
    MaxListChanges, \* bound: what others change while the client reads
    RowsPerPage

\* How a list is ordered, what its cursor names, and whether a row that the query for the
\* cursor does not find is erased, or may come back.
Kind(order, cursor, erases) == [order |-> order, cursor |-> cursor, erases |-> erases]

Followers == Kind("newest", "row", TRUE)
FollowingList == Kind("newest", "row", TRUE)
SavedPosts == Kind("newest", "row", TRUE)
HiddenPosts == Kind("newest", "row", TRUE)
Reports == Kind("newest", "row", TRUE)
PostComments == Kind("newest", "row", FALSE)
CommentReplies == Kind("oldest", "row", FALSE)
UserPosts == Kind("newest", "row", FALSE)
UserLikedPosts == Kind("newest", "row", FALSE)
HelpMessages == Kind("oldest", "checked row", TRUE)
AllCircles == Kind("newest", "time", FALSE)
AnchorHistory == Kind("newest", "time", FALSE)
CircleFeed == Kind("newest", "number", FALSE)
CirclePostComments == Kind("oldest", "number", FALSE)
AdminUsers == Kind("newest", "number", FALSE)
AdminAnchors == Kind("newest", "number", FALSE)
AdminCircles == Kind("newest", "number", FALSE)
AdminCircleMembers == Kind("newest", "number", TRUE)
AdminReports == Kind("newest", "number", TRUE)
AdminCircleReports == Kind("newest", "number", TRUE)
AdminContacts == Kind("newest", "number", TRUE)
AdminDonations == Kind("newest", "number", TRUE)

AllKinds == {
    Followers, FollowingList, SavedPosts, HiddenPosts, Reports, PostComments, CommentReplies,
    UserPosts, UserLikedPosts, HelpMessages, AllCircles, AnchorHistory, CircleFeed,
    CirclePostComments, AdminUsers, AdminAnchors, AdminCircles, AdminCircleMembers,
    AdminReports, AdminCircleReports, AdminContacts, AdminDonations}

ASSUME ListsAssumption ==
    /\ ListRows \subseteq Nat \ {0} /\ IsFiniteSet(ListRows) /\ RowsPerPage \in Nat \ {0}
    /\ MaxRowTime \in Nat /\ MaxListChanges \in Nat

VARIABLES
    rowState,   \* "none", "listed"; "left" the list, but found as a cursor; "gone"
    rowTime,    \* when each row was added
    reader,     \* the client: the row and the number of its last page, how often each row
                \* was shown, the rows owed to it, whether it began anew
    listChanges, \* changes since the client began
    list        \* fixed from the start

listVars == <<rowState, rowTime, reader, listChanges, list>>

Listed == {i \in ListRows : rowState[i] = "listed"}
NoReader == [pc |-> "closed", last |-> 0, pages |-> 0, shown |-> [i \in ListRows |-> 0],
             owed |-> {}, anew |-> FALSE]

ListsInit ==
    /\ list \in AllKinds
    /\ rowTime \in [ListRows -> 1 .. MaxRowTime]
    /\ rowState = [i \in ListRows |-> "none"] /\ reader = NoReader /\ listChanges = 0

-----------------------------------------------------------------------------
(* What others do.                                                         *)

ChangesRow(i, s) ==
    /\ listChanges' = IF reader.pc = "open" THEN listChanges + 1 ELSE 0
    /\ rowState' = [rowState EXCEPT ![i] = s]
    /\ reader' = IF s = "listed" THEN reader ELSE [reader EXCEPT !.owed = @ \ {i}]
    /\ UNCHANGED <<rowTime, list>>
MayChange == reader.pc = "open" /\ listChanges < MaxListChanges

Add(i) ==
    /\ reader.pc = "closed" \/ MayChange
    /\ rowState[i] = "none" /\ \A j \in ListRows : rowState[j] # "none" => rowTime[j] <= rowTime[i]
    /\ ChangesRow(i, "listed")

\* Someone is deactivated, a post is hidden by the viewer, a report is decided: the row stays.
Leave(i) == MayChange /\ rowState[i] = "listed" /\ ChangesRow(i, "left")

\* Someone is unfollowed, a post is not saved any more: the row is erased.  Posts and
\* comments that are deleted, or whose author is deactivated, are left out by every query.
GoAway(i) == MayChange /\ rowState[i] \in {"listed", "left"} /\ ChangesRow(i, "gone")

ComeBack(i) ==
    /\ MayChange
    /\ rowState[i] = "left" \/ (rowState[i] = "gone" /\ ~ list.erases)
    /\ ChangesRow(i, "listed")

-----------------------------------------------------------------------------
(* Pages.                                                                  *)

Earlier(i, j) == IF list.order = "newest" THEN rowTime[i] > rowTime[j] ELSE rowTime[i] < rowTime[j]
Precedes(i, j) ==
    \/ Earlier(i, j)
    \/ rowTime[i] = rowTime[j] /\ IF list.order = "newest" THEN i > j ELSE i < j

FirstRows(S) == {i \in S : Cardinality({j \in S : Precedes(j, i)}) < RowsPerPage}
LastOf(S) == {i \in S : \A j \in S \ {i} : Precedes(j, i)}

FoundRow(i) == rowState[i] \in {"listed", "left"}

\* Mutant, used by no specification, as are all that are marked so: a plausible bug
\* in the definition that follows.
AfterByTime(i) == IF FoundRow(i) THEN {j \in Listed : Earlier(i, j)} ELSE Listed

\* The cursor is looked up by its id; without it nothing is left out.
AfterRow(i) == IF FoundRow(i) THEN {j \in Listed : Precedes(i, j)} ELSE Listed

ShowsPage(items, more) ==
    /\ \E last \in IF items = {} THEN {reader.last} ELSE LastOf(items) :
        reader' = [pc |-> IF more THEN "open" ELSE "read", last |-> last, pages |-> reader.pages + 1,
                   shown |-> [i \in ListRows |-> IF i \in items /\ reader.shown[i] < 2 THEN reader.shown[i] + 1
                                                ELSE reader.shown[i]],
                   owed |-> IF reader.pc = "closed" THEN Listed ELSE reader.owed,
                   anew |-> reader.anew \/ (reader.pc = "open" /\ list.cursor = "row" /\ ~ FoundRow(reader.last))]
    /\ UNCHANGED <<rowState, rowTime, listChanges, list>>

\* One row more is read than is shown, to know whether there are more.
ReadByRow ==
    /\ list.cursor = "row" \/ (list.cursor = "checked row" /\ (reader.pc = "open" => FoundRow(reader.last)))
    /\ LET S == IF reader.pc = "closed" THEN Listed ELSE AfterRow(reader.last) IN
        ShowsPage(FirstRows(S), FirstRows(S) # S)

\* INVALID_PAGINATION_CURSOR.
ReadFails ==
    /\ list.cursor = "checked row" /\ reader.pc = "open" /\ ~ FoundRow(reader.last)
    /\ reader' = [reader EXCEPT !.pc = "failed"]
    /\ UNCHANGED <<rowState, rowTime, listChanges, list>>

\* The answer does not say whether there are more: the client goes on to an empty page.
ReadByTime ==
    /\ list.cursor = "time"
    /\ LET S == IF reader.pc = "closed" THEN Listed ELSE {j \in Listed : Earlier(reader.last, j)} IN
        \E items \in SUBSET S :
            /\ Cardinality(items) = Min({RowsPerPage, Cardinality(S)})
            /\ \A i \in items, j \in S \ items : ~ Earlier(j, i)
            /\ ShowsPage(items, items # {})

\* Rows of the same time come in any order, on every page anew.
ReadByNumber ==
    /\ list.cursor = "number"
    /\ \E before \in SUBSET Listed, items \in SUBSET Listed :
        /\ before \intersect items = {}
        /\ Cardinality(before) = Min({reader.pages * RowsPerPage, Cardinality(Listed)})
        /\ Cardinality(items) = Min({RowsPerPage, Cardinality(Listed \ before)})
        /\ \A i \in before, j \in Listed \ before : ~ Earlier(j, i)
        /\ \A i \in items, j \in Listed \ (before \union items) : ~ Earlier(j, i)
        /\ ShowsPage(items, Listed # before \union items)

ReadPage ==
    /\ reader.pc \in {"closed", "open"}
    /\ ReadByRow \/ ReadFails \/ ReadByTime \/ ReadByNumber

-----------------------------------------------------------------------------

ListsNext ==
    \/ \E i \in ListRows : Add(i) \/ Leave(i) \/ GoAway(i) \/ ComeBack(i)
    \/ ReadPage

ListsSpec == ListsInit /\ [][ListsNext]_listVars

-----------------------------------------------------------------------------

ListsTypeOK ==
    /\ rowState \in [ListRows -> {"none", "listed", "left", "gone"}]
    /\ rowTime \in [ListRows -> 1 .. MaxRowTime]
    /\ reader \in [pc : {"closed", "open", "read", "failed"}, last : ListRows \union {0}, pages : Nat,
            shown : [ListRows -> 0 .. 2], owed : SUBSET ListRows, anew : BOOLEAN]
    /\ listChanges \in 0 .. MaxListChanges /\ list \in AllKinds

Ties == \E i, j \in ListRows : i # j /\ rowTime[i] = rowTime[j]

\* What a list can keep: one that names a row always; one that names a time, if no two rows
\* have the same; one that names a number, if moreover nothing changes.
Keeps ==
    CASE list.cursor \in {"row", "checked row"} -> TRUE
      [] list.cursor = "time" -> ~ Ties
      [] list.cursor = "number" -> ~ Ties /\ listChanges = 0

\* The lists, in selectors and services: who reads page by page to the end has seen every row
\* that was listed all the time, whatever came and went, and none twice, unless the list
\* began anew because its cursor was gone.
PagesAreExact ==
    Keeps =>
        /\ reader.pc = "read" => \A i \in reader.owed : reader.shown[i] > 0
        /\ ~ reader.anew => \A i \in ListRows : reader.shown[i] <= 1

=============================================================================
