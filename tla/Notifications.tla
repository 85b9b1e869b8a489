---------------------------- MODULE Notifications ----------------------------
(***************************************************************************)
(* Notifications in the app (core/notifications): the fan-out of a circle  *)
(* post to the members, likes that are gathered for five minutes in Redis, *)
(* the daily digest by e-mail, and the recipient who pages through them.   *)
(*                                                                         *)
(* A notification is looked for before it is added, with no constraint     *)
(* behind it: what is sent twice within the hour is dropped.  Tasks are    *)
(* acknowledged before they run, so one whose worker dies is lost.  Each   *)
(* part (fan-out, likes, digest, pages) is explored together with what the *)
(* recipients do, and not with the other parts; they meet in the rows.     *)
(***************************************************************************)
EXTENDS Naturals, FiniteSets

CONSTANTS
    Receivers,        \* who are notified of what the others do
    NotedPosts,     \* what they are notified of
    AuthorOf,       \* the author of each post
    MaxNotes,       \* bound: rows; a later row has a greater number
    FanoutRetries,     \* retries of the fan-out (3)
    MaxCuts,        \* bound: how often the digest is cut off
    PageSize,
    Parts           \* what to explore: a part, who receives from whom (in the parts that are
                    \* not about how), which mutes and preferences there may be, whether
                    \* posts are deleted, and how many rows are added

Ids == 1 .. MaxNotes

ASSUME NotificationsAssumption ==
    /\ IsFiniteSet(Receivers) /\ AuthorOf \in [NotedPosts -> Receivers]
    /\ MaxNotes \in Nat /\ FanoutRetries \in Nat /\ MaxCuts \in Nat /\ PageSize \in Nat \ {0}
    /\ Parts \subseteq [name : {"fanout", "likes", "digest", "pages"}, receives : SUBSET (Receivers \X Receivers),
            mutes : SUBSET (Receivers \X Receivers), choosy : SUBSET Receivers, deletes : BOOLEAN, rows : 1 .. MaxNotes]
    /\ \A q \in Parts : q.receives # {} => q.name \in {"digest", "pages"}

VARIABLES
    note,       \* the rows
    muted,      \* pairs of a user and a sender the user muted
    off,        \* users whose preferences turn these notifications off
    gone,       \* deleted posts
    fanout,     \* the fan-out task of each post
    batch,      \* Redis: who liked each post within the window
    liking,     \* the progress of each user's like
    likers,     \* history: who ever liked each post
    crossed,    \* history: posts whose likes were handled at the same time
    digest,     \* the progress of the digest
    mailed,     \* history: how many digests each row was in
    cuts,       \* history: how often the digest was cut off
    page,       \* the recipient who pages
    part        \* fixed from the start

taskVars == <<fanout, batch, liking, likers, crossed, digest, mailed, cuts>>
noteVars == <<note, muted, off, gone, taskVars, page, part>>

NoNote == [state |-> "none", user |-> {}, kind |-> "post", post |-> {}, sender |-> {},
           read |-> FALSE, recent |-> FALSE, digested |-> FALSE, count |-> 0]
NewNote(u, kind, p, sender, count) ==
    [state |-> "active", user |-> {u}, kind |-> kind, post |-> {p}, sender |-> {sender},
     read |-> FALSE, recent |-> TRUE, digested |-> FALSE, count |-> count]

NoTask == [state |-> "none", tries |-> 0, todo |-> {}, skipped |-> {}]
NotLiking == [pc |-> "idle", post |-> {}, count |-> 0, found |-> {}, fresh |-> FALSE]
NoDigest == [pc |-> "idle", ids |-> {}]
NoPage == [pc |-> "closed", of |-> {}, read |-> FALSE, last |-> 0, listed |-> {}, owed |-> {}]

NotificationsInit ==
    /\ note = [i \in Ids |-> NoNote]
    /\ off = {} /\ gone = {}
    /\ fanout = [p \in NotedPosts |-> NoTask]
    /\ batch = [p \in NotedPosts |-> {}] /\ liking = [u \in Receivers |-> NotLiking]
    /\ likers = [p \in NotedPosts |-> {}] /\ crossed = {}
    /\ digest = NoDigest /\ mailed = [i \in Ids |-> 0] /\ cuts = 0
    /\ page = NoPage
    /\ part \in Parts /\ muted \in SUBSET part.mutes

-----------------------------------------------------------------------------
(* create_notification.                                                    *)

FreeRows == {i \in 1 .. part.rows : note[i].state = "none"}
Active(i) == note[i].state = "active"
NotesOf(u) == {i \in Ids : Active(i) /\ note[i].user = {u}}

Wanted(u, sender) == <<u, sender>> \notin muted /\ u \notin off

\* The same notification within the hour, whatever became of it.
Duplicate(u, kind, p) ==
    \E i \in Ids : note[i].recent /\ note[i].user = {u} /\ note[i].kind = kind /\ note[i].post = {p}

Insert(u, kind, p, sender, count) ==
    \E i \in FreeRows :
        /\ \A j \in FreeRows : i <= j
        /\ note' = [note EXCEPT ![i] = NewNote(u, kind, p, sender, count)]

-----------------------------------------------------------------------------
(* The fan-out of a circle post.                                           *)

Turns(p, task) == fanout' = [fanout EXCEPT ![p] = task]

PublishPost(p) ==
    /\ fanout[p] = NoTask /\ p \notin gone
    /\ Turns(p, [NoTask EXCEPT !.state = "queued"])
    /\ UNCHANGED <<note, muted, off, gone, batch, liking, likers, crossed, digest, mailed, cuts, page, part>>

Task(p, state) == fanout[p].state = state
KeepsTheRest == UNCHANGED <<muted, off, gone, batch, liking, likers, crossed, digest, mailed, cuts, page, part>>

\* Every try goes through all members.
StartFanout(p) ==
    /\ Task(p, "queued")
    /\ Turns(p, IF p \in gone THEN [fanout[p] EXCEPT !.state = "done", !.skipped = Receivers]
               ELSE [state |-> "running", tries |-> fanout[p].tries, todo |-> Receivers \ {AuthorOf[p]}, skipped |-> {}])
    /\ UNCHANGED note /\ KeepsTheRest

\* Mutant, used by no specification, as are all that are marked so: a plausible bug
\* in the definition that follows.
NotifyMemberAgain(p, u) ==
    /\ Task(p, "running") /\ u \in fanout[p].todo
    /\ IF Wanted(u, AuthorOf[p]) THEN Insert(u, "post", p, AuthorOf[p], 1) ELSE UNCHANGED note
    /\ Turns(p, [fanout[p] EXCEPT !.todo = @ \ {u},
                    !.skipped = IF Wanted(u, AuthorOf[p]) THEN @ ELSE @ \union {u}])
    /\ KeepsTheRest

NotifyMember(p, u) ==
    /\ Task(p, "running") /\ u \in fanout[p].todo
    /\ IF Wanted(u, AuthorOf[p]) /\ ~ Duplicate(u, "post", p)
       THEN Insert(u, "post", p, AuthorOf[p], 1) ELSE UNCHANGED note
    /\ Turns(p, [fanout[p] EXCEPT !.todo = @ \ {u},
                    !.skipped = IF Wanted(u, AuthorOf[p]) THEN @ ELSE @ \union {u}])
    /\ KeepsTheRest

FinishFanout(p) ==
    /\ Task(p, "running") /\ fanout[p].todo = {}
    /\ Turns(p, [fanout[p] EXCEPT !.state = "done"])
    /\ UNCHANGED note /\ KeepsTheRest

\* A failure or the soft time limit; retried after at most 4 minutes, 3 times.
FailFanout(p) ==
    /\ Task(p, "running")
    /\ Turns(p, IF fanout[p].tries < FanoutRetries
               THEN [state |-> "queued", tries |-> fanout[p].tries + 1, todo |-> {}, skipped |-> fanout[p].skipped]
               ELSE [fanout[p] EXCEPT !.state = "failed", !.todo = {}])
    /\ UNCHANGED note /\ KeepsTheRest

\* The worker dies: the message was acknowledged.
LoseFanout(p) ==
    /\ Task(p, "running")
    /\ Turns(p, [fanout[p] EXCEPT !.state = "lost", !.todo = {}])
    /\ UNCHANGED note /\ KeepsTheRest

Fanout ==
    \E p \in NotedPosts :
        \/ PublishPost(p) \/ StartFanout(p) \/ FinishFanout(p) \/ FailFanout(p) \/ LoseFanout(p)
        \/ \E u \in Receivers : NotifyMember(p, u)

-----------------------------------------------------------------------------
(* Likes: the set in Redis, then the rows as the transaction of the like   *)
(* reads them, then what it writes and commits.                            *)

LikesOf(p) == {u \in Receivers : liking[u].post = {p}}
KeepsOthers == UNCHANGED <<muted, off, gone, fanout, digest, mailed, cuts, page, part>>

Likes(u, progress) == liking' = [liking EXCEPT ![u] = progress]

AddLike(u, p) ==
    /\ liking[u] = NotLiking /\ u # AuthorOf[p] /\ p \notin gone
    /\ <<AuthorOf[p], u>> \notin muted
    /\ batch' = [batch EXCEPT ![p] = @ \union {u}]
    /\ likers' = [likers EXCEPT ![p] = @ \union {u}]
    /\ Likes(u, [NotLiking EXCEPT !.pc = "added", !.post = {p}])
    /\ crossed' = IF LikesOf(p) = {} THEN crossed ELSE crossed \union {p}
    /\ UNCHANGED note /\ KeepsOthers

\* The newest unread row about the likes of the post, if any.
Unread(p) == {i \in Ids : note[i].kind = "like" /\ note[i].post = {p} /\ ~ note[i].read}
Newest(S) == {i \in S : \A j \in S : j <= i}

ReadLikes(u) ==
    /\ liking[u].pc = "added"
    /\ \E p \in liking[u].post :
        Likes(u, [pc |-> "read", post |-> {p}, count |-> Cardinality(batch[p]),
                  found |-> Newest(Unread(p)), fresh |-> ~ Duplicate(AuthorOf[p], "like", p)])
    /\ UNCHANGED <<note, batch, likers, crossed>> /\ KeepsOthers

\* Rows are removed only when their account is.
CommitLike(u) ==
    /\ liking[u].pc = "read"
    /\ \E p \in liking[u].post :
        \/ /\ liking[u].found # {}
           /\ note' = [i \in Ids |-> IF i \in liking[u].found
                    THEN [note[i] EXCEPT !.count = liking[u].count, !.sender = {u}] ELSE note[i]]
        \/ /\ liking[u].found = {} /\ liking[u].fresh /\ Wanted(AuthorOf[p], u)
           /\ Insert(AuthorOf[p], "like", p, u, liking[u].count)
        \/ /\ liking[u].found = {} /\ ~ (liking[u].fresh /\ Wanted(AuthorOf[p], u))
           /\ UNCHANGED note
    /\ Likes(u, NotLiking)
    /\ UNCHANGED <<batch, likers, crossed>> /\ KeepsOthers

\* Five minutes after the last like.
WindowEnds(p) ==
    /\ batch[p] # {} /\ LikesOf(p) = {}
    /\ batch' = [batch EXCEPT ![p] = {}]
    /\ UNCHANGED <<note, liking, likers, crossed>> /\ KeepsOthers

Liking == \E u \in Receivers, p \in NotedPosts : AddLike(u, p)

LikeSteps ==
    \/ Liking
    \/ \E u \in Receivers : ReadLikes(u) \/ CommitLike(u)
    \/ \E p \in NotedPosts : WindowEnds(p)

-----------------------------------------------------------------------------
(* The daily digest of one recipient.                                      *)

Undigested(u) == {i \in NotesOf(u) : ~ note[i].digested}
KeepsAll == UNCHANGED <<muted, off, gone, fanout, batch, liking, likers, crossed, page, part>>

FetchDigest(u) ==
    /\ digest.pc = "idle" /\ Undigested(u) # {}
    /\ digest' = [pc |-> "queue", ids |-> Undigested(u)]
    /\ UNCHANGED <<note, mailed, cuts>> /\ KeepsAll

QueueDigest ==
    /\ digest.pc = "queue"
    /\ digest' = [digest EXCEPT !.pc = "mark"]
    /\ mailed' = [i \in Ids |-> mailed[i] + (IF i \in digest.ids THEN 1 ELSE 0)]
    /\ UNCHANGED <<note, cuts>> /\ KeepsAll

MarkDigested ==
    /\ digest.pc = "mark"
    /\ note' = [i \in Ids |-> IF i \in digest.ids THEN [note[i] EXCEPT !.digested = TRUE] ELSE note[i]]
    /\ digest' = NoDigest
    /\ UNCHANGED <<mailed, cuts>> /\ KeepsAll

\* The broker refuses the e-mail, the time limit cuts the task off, or the worker dies.
CutDigest ==
    /\ digest.pc # "idle" /\ cuts < MaxCuts
    /\ digest' = NoDigest /\ cuts' = cuts + 1
    /\ UNCHANGED <<note, mailed>> /\ KeepsAll

Digest == (\E u \in Receivers : FetchDigest(u)) \/ QueueDigest \/ MarkDigested \/ CutDigest

-----------------------------------------------------------------------------
(* Pages: unread rows first, then the newest.                              *)

KeepsRows == UNCHANGED <<note, muted, off, gone, taskVars, part>>

Visible(u) == {i \in NotesOf(u) : \A s \in note[i].sender : <<u, s>> \notin muted}

Before(i, j) ==
    \/ note[j].read /\ ~ note[i].read
    \/ note[i].read = note[j].read /\ i > j

\* What comes after the last row of the page before, as it was when it was listed.
After(u) ==
    {i \in Visible(u) :
        (note[i].read /\ ~ page.read) \/ (note[i].read = page.read /\ i < page.last)}

\* The first PageSize of them; there are more, or this is the end.
FirstOf(S) == {i \in S : Cardinality({j \in S : Before(j, i)}) < PageSize}

Shows(u, S, owed) ==
    \/ /\ S = {} /\ page' = [pc |-> "end", of |-> {u}, read |-> FALSE, last |-> 0, listed |-> page.listed, owed |-> owed]
    \/ \E last \in FirstOf(S) :
        /\ \A i \in FirstOf(S) \ {last} : Before(i, last)
        /\ page' = [pc |-> IF FirstOf(S) = S THEN "end" ELSE "open", of |-> {u}, read |-> note[last].read,
                     last |-> last, listed |-> page.listed \union FirstOf(S), owed |-> owed]

FirstPage(u) == page.pc = "closed" /\ Shows(u, Visible(u), Visible(u)) /\ KeepsRows
NextPage(u) == page.pc = "open" /\ page.of = {u} /\ Shows(u, After(u), page.owed) /\ KeepsRows

-----------------------------------------------------------------------------
(* Recipients, and time.                                                   *)

Changes(i, row) == note' = [note EXCEPT ![i] = row] /\ UNCHANGED <<muted, off, gone, taskVars, page, part>>

MarkRead(i) == Active(i) /\ ~ note[i].read /\ Changes(i, [note[i] EXCEPT !.read = TRUE])

MarkAllRead(u) ==
    /\ \E i \in NotesOf(u) : ~ note[i].read
    /\ note' = [i \in Ids |-> IF i \in NotesOf(u) THEN [note[i] EXCEPT !.read = TRUE] ELSE note[i]]
    /\ UNCHANGED <<muted, off, gone, taskVars, page, part>>

DeleteNote(i) == Active(i) /\ Changes(i, [note[i] EXCEPT !.state = "deleted"])

\* After 90 days; its number is not used again.
CleanUp(i) ==
    /\ note[i].state = "deleted" /\ ~ note[i].recent
    /\ Changes(i, [NoNote EXCEPT !.state = "removed", !.digested = note[i].digested])

\* Replaces the list of muted senders.
UpdateMutes(u, senders) ==
    /\ muted' = {m \in muted : m[1] # u} \union {<<u, s>> : s \in senders \ {u}}
    /\ page' = IF page.of # {u} THEN page
               ELSE [page EXCEPT !.owed = {i \in @ : \A s \in note[i].sender : <<u, s>> \notin muted'}]
    /\ UNCHANGED <<note, off, gone, taskVars, part>>

UpdatePreferences(u) ==
    /\ off' = IF u \in off THEN off \ {u} ELSE off \union {u}
    /\ UNCHANGED <<note, muted, gone, taskVars, page, part>>

\* Posts are deleted by a time in their row, for which no signal removes notifications.
DeleteNotedPost(p) ==
    /\ p \notin gone
    /\ gone' = gone \union {p}
    /\ UNCHANGED <<note, muted, off, taskVars, page, part>>

\* An hour has passed.  All tries of a fan-out end within it.
GetsOld(i) ==
    /\ note[i].recent /\ \A p \in note[i].post : ~ Task(p, "queued") /\ ~ Task(p, "running")
    /\ \A u \in Receivers : i \notin liking[u].found
    /\ Changes(i, [note[i] EXCEPT !.recent = FALSE])

\* Something else happens that notifies the user, in the parts that are not about it.
Receives(u, sender) ==
    /\ \E p \in NotedPosts : Insert(u, "like", p, sender, 1)
    /\ UNCHANGED <<muted, off, gone, taskVars, page, part>>

Recipients ==
    \/ \E i \in Ids : MarkRead(i) \/ DeleteNote(i) \/ CleanUp(i)
    \/ part.receives = {} /\ \E i \in Ids : GetsOld(i)
    \/ \E u \in Receivers : MarkAllRead(u)
    \/ part.deletes /\ \E p \in NotedPosts : DeleteNotedPost(p)
    \/ \E u \in part.choosy :
        UpdatePreferences(u) \/ \E senders \in SUBSET Receivers :
            (\A s \in senders : <<u, s>> \in part.mutes) /\ UpdateMutes(u, senders)
    \/ \E r \in part.receives : Receives(r[1], r[2])

NotificationsNext ==
    \/ part.name = "fanout" /\ Fanout
    \/ part.name = "likes" /\ LikeSteps
    \/ part.name = "digest" /\ Digest
    \/ part.name = "pages" /\ \E u \in Receivers : FirstPage(u) \/ NextPage(u)
    \/ Recipients

NotificationsSpec == NotificationsInit /\ [][NotificationsNext]_noteVars

-----------------------------------------------------------------------------

NotificationsTypeOK ==
    /\ note \in [Ids -> [state : {"none", "active", "deleted", "removed"}, user : SUBSET Receivers,
            kind : {"post", "like"}, post : SUBSET NotedPosts, sender : SUBSET Receivers, read : BOOLEAN,
            recent : BOOLEAN, digested : BOOLEAN, count : 0 .. Cardinality(Receivers)]]
    /\ muted \subseteq Receivers \X Receivers /\ off \subseteq Receivers /\ gone \subseteq NotedPosts
    /\ fanout \in [NotedPosts -> [state : {"none", "queued", "running", "done", "failed", "lost"},
            tries : 0 .. FanoutRetries, todo : SUBSET Receivers, skipped : SUBSET Receivers]]
    /\ batch \in [NotedPosts -> SUBSET Receivers] /\ likers \in [NotedPosts -> SUBSET Receivers]
    /\ liking \in [Receivers -> [pc : {"idle", "added", "read"}, post : SUBSET NotedPosts,
            count : 0 .. Cardinality(Receivers), found : SUBSET Ids, fresh : BOOLEAN]]
    /\ crossed \subseteq NotedPosts
    /\ digest \in [pc : {"idle", "queue", "mark"}, ids : SUBSET Ids]
    /\ mailed \in [Ids -> Nat] /\ cuts \in 0 .. MaxCuts
    /\ page \in [pc : {"closed", "open", "end"}, of : SUBSET Receivers, read : BOOLEAN,
            last : 0 .. MaxNotes, listed : SUBSET Ids, owed : SUBSET Ids]
    /\ part \in Parts

ToldOf(p, u) == {i \in Ids : note[i].kind = "post" /\ note[i].post = {p} /\ note[i].user = {u}}

\* However often the fan-out of a post is tried, a member gets one notification of it at
\* most; once it is done, every member has, or had, one unless the member did not want it.
FanoutReachesEachOnce ==
    \A p \in NotedPosts : \A u \in Receivers \ {AuthorOf[p]} :
        /\ \A i, j \in ToldOf(p, u) : i = j
        /\ Task(p, "done") /\ ToldOf(p, u) = {} =>
                u \in fanout[p].skipped \/ \E i \in Ids : note[i].state = "removed"

\* A recipient has one unread notification of the likes of a post, which names no more
\* users than liked it, unless likes were handled at the same time.
LikesAreGathered ==
    \A p \in NotedPosts :
        /\ part.name = "likes" /\ p \notin crossed => \A i, j \in Unread(p) : i = j
        /\ \A i \in Unread(p) : part.name = "likes" => note[i].count <= Cardinality(likers[p])

\* What is marked as sent in a digest was in one, and what was not cut off is sent once.
DigestsAreExact ==
    \A i \in Ids : (note[i].digested => mailed[i] > 0) /\ mailed[i] <= 1 + cuts

\* Whoever pages to the end has seen every notification that was there at the start, if
\* it was neither deleted nor its sender muted since, whatever was read on the way.
PagesMissNothing ==
    page.pc = "end" =>
        \A u \in page.of : page.owed \intersect Visible(u) \subseteq page.listed

\* A fan-out that is tried again tells a member once, the likes of a post are gathered in one
\* notification, a digest is sent once, and pages miss nothing.
NotificationsAreExact == FanoutReachesEachOnce /\ LikesAreGathered /\ DigestsAreExact /\ PagesMissNothing

\* What the code says and does not do.

\* core/notifications/signals.py: "We soft-delete matching notifications so the row is
\* preserved for analytics but is invisible to the user."
NotesOfDeletedPostsAreHidden ==
    \A i \in Ids : Active(i) => note[i].post \intersect gone = {}

\* core/notifications/services.py: "neither can overwrite the other": once all likes were
\* handled, the notification of those within the window says how many there were.
LastCountIsComplete ==
    \A p \in NotedPosts : LikesOf(p) = {} /\ batch[p] # {} =>
        \A i \in Newest(Unread(p)) : note[i].recent => note[i].count >= Cardinality(batch[p])

=============================================================================
