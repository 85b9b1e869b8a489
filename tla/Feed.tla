-------------------------------- MODULE Feed --------------------------------
(***************************************************************************)
(* The feeds of posts.  The home feed of a session is a ranking shuffled   *)
(* for that session, in which posts that were shown before the session are *)
(* demoted; who follows creators reads it blended with a stream of theirs. *)
(* A page is put together so that neighbours differ in author and kind: a  *)
(* post that does not fit waits, and the cursor carries it to the next     *)
(* page, next to the position in each stream up to which posts were        *)
(* consumed.  What was shown before is one value of the cache, read when a *)
(* page is computed and written when it is answered.  The discovery feeds  *)
(* have no session, and the feed of followed creators no assembly.         *)
(*                                                                         *)
(* Scores, what is listed and who is followed change between pages.        *)
(***************************************************************************)
EXTENDS Integers, FiniteSets, FiniteSetsExt, SequencesExt

CONSTANTS
    Posts,      \* ids, a set of numbers: UUIDs, which say nothing of the time
    AuthorOf,   \* [Posts -> authors]
    TypeOf,     \* [Posts -> types of post]
    CreatedAt,  \* [Posts -> times]
    Readers,    \* the devices of one user
    Shuffles,   \* [Posts -> Nat \ {0}]: the factors that sessions may draw
    PageSize,
    MaxWaiting, \* MAX_CARRY
    PerAuthor,  \* CREATOR_DIVERSITY_MAX_PER_WINDOW
    Recent,     \* CREATOR_DIVERSITY_WINDOW
    KindRun,    \* FEED_MAX_SAME_KIND_RUN
    SeenWindow, \* FEED_SEEN_WINDOW_HOURS
    SessionAge, \* SESSION_MAX_AGE_SECONDS
    MaxTime,    \* bound: times, of which every session has its own
    MaxChanges, \* bound: what changes while the feeds are read
    Plans       \* the cases to explore: the feed, the posts it is narrowed to and whether they are of one
                \* type, the readers, whom the user follows, what changes, and whether the cache fails

VARIABLES
    score,      \* [Posts -> Nat]: final_score; the likes of the user in the feed of followed creators
    listed,     \* the posts that are neither deleted, suppressed nor hidden
    following,  \* the authors the user follows
    history,    \* the served history in the cache
    clock,
    feed,       \* [Readers -> the cursor of a reader, and what was shown]
    changed,    \* how much was changed
    plan        \* the case explored, fixed at the start

feedVars == <<score, listed, following, history, clock, feed, changed, plan>>

Authors == {AuthorOf[p] : p \in Posts}
Nowhere == <<>>
Nothing == [base |-> [p \in Posts |-> 0], own |-> [p \in Posts |-> 0], session |-> 0]
Unopened ==
    [step |-> "closed", start |-> 0, shuffle |-> [p \in Posts |-> 1], ranked |-> Nowhere, followed |-> Nowhere,
     slot |-> 0, carry |-> <<>>, page |-> <<>>, more |-> FALSE, loaded |-> Nothing, frozen |-> {},
     shown |-> [p \in Posts |-> 0], moved |-> {}, loosened |-> {}, disturbed |-> FALSE]

FeedInit ==
    /\ plan \in Plans
    /\ score = [p \in Posts |-> 1]
    /\ listed = Posts /\ following = plan.follows
    /\ history = Nothing /\ clock = 0
    /\ feed = [r \in Readers |-> Unopened]
    /\ changed = 0

-----------------------------------------------------------------------------
(* The order of the streams and the position in them.                      *)

Later(a, b) == IF a > b THEN a ELSE b
Below(a, b) == \E i \in 1..3 : a[i] < b[i] /\ \A j \in 1..(i - 1) : a[j] = b[j]

\* A post that was shown before has a part of its score.
FeedScore(shuffle, seen, p) == score[p] * shuffle[p] * (IF p \in seen THEN 1 ELSE 4)

Ranked(shuffle, seen, p) == <<FeedScore(shuffle, seen, p), CreatedAt[p], p>>
FollowedRank(seen, p) == <<IF p \in seen THEN 0 ELSE 1, CreatedAt[p], p>>

Affinity(a) == FoldSet(LAMBDA p, n : n + score[p], 0, {p \in Posts : AuthorOf[p] = a})
ByAffinity(p) == <<CreatedAt[p], Affinity(AuthorOf[p]), p>>

\* The posts of a stream below the position, in order.
Stream(posts, rank, position) ==
    SetToSortSeq({p \in posts : position = Nowhere \/ Below(rank[p], position)},
        LAMBDA p, q : Below(rank[q], rank[p]))

-----------------------------------------------------------------------------
(* A page: what waits comes first if it fits, then what is next in the     *)
(* stream; the rule of types is given up before the rule of authors.       *)

Fits(page, p, run) ==
    LET same == {i \in 1..Len(page) : i > Len(page) - (Recent - 1) /\ AuthorOf[page[i]] = AuthorOf[p]}
    IN /\ page # <<>> => AuthorOf[page[Len(page)]] # AuthorOf[p]
       /\ Cardinality(same) < PerAuthor
       /\ run > 0 /\ Len(page) >= run => \E i \in (Len(page) - run + 1)..Len(page) : TypeOf[page[i]] # TypeOf[p]

TakeWaiting(s, run) ==
    LET i == CHOOSE i \in 1..Len(s.waiting) :
            Fits(s.page, s.waiting[i], run) /\ \A j \in 1..(i - 1) : ~ Fits(s.page, s.waiting[j], run)
    IN [s EXCEPT !.page = Append(@, s.waiting[i]), !.waiting = RemoveAt(@, i)]

FitsWaiting(s, run) == \E i \in 1..Len(s.waiting) : Fits(s.page, s.waiting[i], run)

Consume(s, p, run) ==
    IF Fits(s.page, p, run)
    THEN [s EXCEPT !.page = Append(@, p), !.consumed = @ + 1]
    ELSE [s EXCEPT !.waiting = Append(@, p), !.consumed = @ + 1]

AssembleNext(s, fresh, run) ==
    CASE Len(s.page) = PageSize -> s
      [] Len(s.page) < PageSize /\ FitsWaiting(s, run) -> TakeWaiting(s, run)
      [] Len(s.page) < PageSize /\ ~ FitsWaiting(s, run) /\ s.consumed < Len(fresh) /\ Len(s.waiting) < MaxWaiting ->
            Consume(s, fresh[s.consumed + 1], run)
      [] OTHER ->
            IF FitsWaiting(s, 0) THEN TakeWaiting(s, 0)
            ELSE IF s.waiting # <<>>
                 THEN [s EXCEPT !.page = Append(@, s.waiting[1]), !.waiting = Tail(@)]
                 ELSE s

AssemblePage(carried, fresh, run) ==
    FoldLeft(LAMBDA s, i : AssembleNext(s, fresh, run), [page |-> <<>>, waiting |-> carried, consumed |-> 0],
        [i \in 1..(PageSize + Len(fresh)) |-> i])

\* Three of discovery, then one of the followed creators, and what there is when one ends.
DiscoveryShare == 3
BlendPeriod == 4
BlendNext(s, discovery, followed) ==
    IF followed # <<>> /\ s.followed < Len(followed) /\ (s.slot % BlendPeriod >= DiscoveryShare \/ s.discovery = Len(discovery))
    THEN [s EXCEPT !.posts = Append(@, followed[s.followed + 1]), !.followed = @ + 1, !.slot = @ + 1]
    ELSE IF s.discovery < Len(discovery)
         THEN [s EXCEPT !.posts = Append(@, discovery[s.discovery + 1]), !.discovery = @ + 1, !.slot = @ + 1]
         ELSE s
Blend(discovery, followed, slot) ==
    FoldLeft(LAMBDA s, i : BlendNext(s, discovery, followed),
        [posts |-> <<>>, discovery |-> 0, followed |-> 0, slot |-> slot],
        [i \in 1..(Len(discovery) + Len(followed)) |-> i]).posts

-----------------------------------------------------------------------------
(* The served history.                                                     *)

KeepsHistory == plan.feed \in {"new", "returning"}
HasSession == plan.feed \in {"new", "returning", "public"}

\* What another session served is history for this one.
LoadHistory(start) ==
    IF history.session = start THEN history
    ELSE [base |-> [p \in Posts |-> Later(history.base[p], history.own[p])],
          own |-> [p \in Posts |-> 0], session |-> start]

ServedBefore(loaded, start) ==
    {p \in Posts : loaded.base[p] # 0 /\ start - SeenWindow <= loaded.base[p] /\ loaded.base[p] < start}

\* Stamped no earlier than the session began; what no session can still ask for is dropped.
RecordPage(loaded, start, page) ==
    LET now == Later(clock, start)
    IN [base |-> [p \in Posts |-> IF loaded.base[p] >= now - (SeenWindow + SessionAge) THEN loaded.base[p] ELSE 0],
        own |-> [p \in Posts |-> IF p \in ToSet(page) THEN now ELSE loaded.own[p]],
        session |-> loaded.session]

-----------------------------------------------------------------------------
(* A page that is requested.                                               *)

\* A cursor whose session is too old opens a new one, at the first page.
Expired(f) == HasSession /\ clock - f.start > SessionAge

Evenly == [p \in Posts |-> 1]
Fresh(shuffle) == [Unopened EXCEPT !.start = IF HasSession THEN clock + 1 ELSE 0, !.shuffle = shuffle]

CarriedPosts(f, posts) == SelectSeq(f.carry, LAMBDA p : p \in posts)
Answer(f, page, waiting, more) ==
    [f EXCEPT !.step = IF page = <<>> THEN "ended" ELSE "answering", !.page = page, !.carry = waiting, !.more = more]

\* The position of a stream is the last post that was consumed from it.
RankedPosition(f, seen, consumed) ==
    IF consumed = <<>> THEN f.ranked ELSE Ranked(f.shuffle, seen, Last(consumed))
FollowedPosition(f, seen, consumed) ==
    IF consumed = <<>> THEN f.followed ELSE FollowedRank(seen, Last(consumed))

\* Mutant, used by no specification, as are all that are marked so: a plausible bug in the definition that
\* follows.  The position is taken from what was shown, not from what was consumed.
RankedPageFromShown(f, seen, posts, run) ==
    LET carried == CarriedPosts(f, posts)
        fresh == Stream(posts \ ToSet(carried), [p \in Posts |-> Ranked(f.shuffle, seen, p)], f.ranked)
        made == AssemblePage(carried, fresh, run)
    IN [Answer(f, made.page, made.waiting, made.waiting # <<>> \/ made.consumed < Len(fresh)) EXCEPT
            !.ranked = RankedPosition(f, seen, made.page)]

\* The feeds of one stream.
RankedPage(f, seen, posts, run) ==
    LET carried == CarriedPosts(f, posts)
        fresh == Stream(posts \ ToSet(carried), [p \in Posts |-> Ranked(f.shuffle, seen, p)], f.ranked)
        made == AssemblePage(carried, fresh, run)
    IN [Answer(f, made.page, made.waiting, made.waiting # <<>> \/ made.consumed < Len(fresh)) EXCEPT
            !.ranked = RankedPosition(f, seen, SubSeq(fresh, 1, made.consumed))]

\* In the categories a new user chose, or all; in a category, of a type, or found by a search.
Matching == listed \cap plan.matches
NewUserPage(f, seen) == RankedPage(f, seen, Matching, KindRun)
PublicPage(f) == RankedPage(f, {}, listed, KindRun)
DiscoverPage(f) == RankedPage(f, {}, Matching, IF plan.oneType THEN 0 ELSE KindRun)

\* The feed of a user who is no longer new.
ReturningPage(f, seen) ==
    LET theirs == {p \in listed : AuthorOf[p] \in following}
        carried == CarriedPosts(f, listed)
        discovery == Stream(listed \ (theirs \cup ToSet(carried)), [p \in Posts |-> Ranked(f.shuffle, seen, p)], f.ranked)
        followed == Stream(theirs \ ToSet(carried), [p \in Posts |-> FollowedRank(seen, p)], f.followed)
        fresh == Blend(discovery, followed, f.slot)
        made == AssemblePage(carried, fresh, KindRun)
        consumed == SubSeq(fresh, 1, made.consumed)
    IN [Answer(f, made.page, made.waiting, made.waiting # <<>> \/ made.consumed < Len(fresh)) EXCEPT
            !.ranked = RankedPosition(f, seen, SelectSeq(consumed, LAMBDA p : p \notin theirs)),
            !.followed = FollowedPosition(f, seen, SelectSeq(consumed, LAMBDA p : p \in theirs)),
            !.slot = (f.slot + made.consumed) % BlendPeriod]

\* The feed of followed creators.
FollowingPage(f) ==
    LET posts == Stream({p \in listed : AuthorOf[p] \in following}, [p \in Posts |-> ByAffinity(p)], f.ranked)
        page == IF Len(posts) > PageSize THEN SubSeq(posts, 1, PageSize) ELSE posts
    IN [Answer(f, page, <<>>, Len(posts) > PageSize) EXCEPT
            !.ranked = IF page = <<>> THEN @ ELSE ByAffinity(Last(page))]

PageOf(f, seen) ==
    CASE plan.feed = "following" -> FollowingPage(f)
      [] plan.feed = "returning" -> ReturningPage(f, seen)
      [] plan.feed = "new" -> NewUserPage(f, seen)
      [] plan.feed = "public" -> PublicPage(f)
      [] plan.feed = "discover" -> DiscoverPage(f)

\* What was shown before stays as it was when the session opened: the rest is noted.
ReadPage(r) ==
    \E opens \in BOOLEAN, reads \in BOOLEAN,
       shuffle \in IF HasSession THEN Shuffles ELSE {Evenly} :
        LET f == IF opens THEN Fresh(shuffle) ELSE feed[r]
            loaded == IF reads THEN LoadHistory(f.start) ELSE [Nothing EXCEPT !.session = f.start]
            seen == IF KeepsHistory THEN ServedBefore(loaded, f.start) ELSE {}
        IN /\ r \in plan.readers /\ feed[r].step # "answering"
           /\ feed[r].step \in {"closed", "ended"} => opens
           /\ Expired(feed[r]) => opens
           /\ opens => IF HasSession THEN clock < MaxTime ELSE feed[r].step = "closed"
           /\ ~ opens => shuffle = feed[r].shuffle
           /\ ~ reads => plan.outages /\ KeepsHistory
           /\ clock' = IF opens THEN Later(clock, f.start) ELSE clock
           /\ feed' = [feed EXCEPT ![r] = PageOf(
                [f EXCEPT !.loaded = loaded,
                          !.frozen = IF opens THEN seen ELSE @,
                          !.loosened = IF opens THEN {} ELSE @ \cup SymDiff(seen, f.frozen),
                          !.disturbed = @ \/ ~ reads], seen)]
           /\ UNCHANGED <<score, listed, following, history, changed, plan>>

\* The page is recorded, unless the cache fails, and answered.
AnswerPage(r) ==
    /\ feed[r].step = "answering"
    /\ \E writes \in BOOLEAN :
        /\ ~ writes => plan.outages /\ KeepsHistory
        /\ history' = IF KeepsHistory /\ writes THEN RecordPage(feed[r].loaded, feed[r].start, feed[r].page) ELSE history
    /\ feed' = [q \in Readers |->
        IF q = r
        THEN [feed[r] EXCEPT !.step = IF feed[r].more THEN "open" ELSE "ended",
                             !.shown = [p \in Posts |-> @[p] + (IF p \in ToSet(feed[r].page) THEN 1 ELSE 0)],
                             !.page = <<>>, !.loaded = Nothing]
        ELSE [feed[q] EXCEPT !.disturbed = @ \/ (KeepsHistory /\ feed[q].step \in {"open", "answering"})]]
    /\ UNCHANGED <<score, listed, following, clock, changed, plan>>

-----------------------------------------------------------------------------
(* What changes while the pages are read.                                  *)

Changes(what, posts) ==
    /\ what \in plan.changes /\ changed < MaxChanges
    /\ changed' = changed + 1
    /\ feed' = [r \in Readers |-> [feed[r] EXCEPT !.moved = @ \cup posts]]
    /\ UNCHANGED <<history, clock, plan>>

OthersOf(a) == {p \in Posts : AuthorOf[p] = a}

\* Likes, comments, shares, reports and age.
Rescore(p) ==
    /\ score' = [score EXCEPT ![p] = 3 - @]
    /\ Changes("scores", IF plan.feed = "following" THEN OthersOf(AuthorOf[p]) ELSE {p})
    /\ UNCHANGED <<listed, following>>

\* Deleted, hidden or suppressed, and back.
Delist(p) ==
    /\ p \in listed /\ listed' = listed \ {p}
    /\ Changes("listed", {p}) /\ UNCHANGED <<score, following>>
Relist(p) ==
    /\ p \notin listed /\ listed' = listed \cup {p}
    /\ Changes("listed", {p}) /\ UNCHANGED <<score, following>>

Follow(a) ==
    /\ a \notin following /\ following' = following \cup {a}
    /\ Changes("follows", OthersOf(a)) /\ UNCHANGED <<score, listed>>
Unfollow(a) ==
    /\ a \in following /\ following' = following \ {a}
    /\ Changes("follows", OthersOf(a)) /\ UNCHANGED <<score, listed>>

TimePasses ==
    /\ clock < MaxTime /\ HasSession
    /\ clock' = clock + 1
    /\ UNCHANGED <<score, listed, following, history, feed, changed, plan>>

FeedNext ==
    \/ \E r \in Readers : ReadPage(r) \/ AnswerPage(r)
    \/ \E p \in Posts : Rescore(p) \/ Delist(p) \/ Relist(p)
    \/ \E a \in Authors : Follow(a) \/ Unfollow(a)
    \/ TimePasses

FeedSpec == FeedInit /\ [][FeedNext]_feedVars

-----------------------------------------------------------------------------

TypeOK ==
    /\ plan \in Plans /\ score \in [Posts -> {1, 2}] /\ listed \subseteq Posts
    /\ following \subseteq Authors /\ clock \in 0..MaxTime /\ changed \in 0..MaxChanges
    /\ history.base \in [Posts -> 0..MaxTime] /\ history.own \in [Posts -> 0..MaxTime]
    /\ \A r \in Readers :
        /\ feed[r].step \in {"closed", "open", "answering", "ended"}
        /\ feed[r].slot \in 0..(BlendPeriod - 1) /\ feed[r].shown \in [Posts -> Nat]
        /\ ToSet(feed[r].carry) \cup ToSet(feed[r].page) \subseteq Posts
        /\ Len(feed[r].carry) <= MaxWaiting /\ Len(feed[r].page) <= PageSize

\* What a feed shows of the posts that did not change while it was read.
Eligible(p) ==
    /\ p \in listed
    /\ plan.feed = "following" => AuthorOf[p] \in following
    /\ plan.feed \in {"new", "discover"} => p \in plan.matches
IsExactFor(f, p) ==
    /\ f.shown[p] <= 1
    /\ f.step = "ended" /\ Eligible(p) => f.shown[p] = 1

\* A session read to its end shows every post exactly once: none is lost between the position, the posts that
\* wait and the other stream, and none comes again, however others are rescored, hidden or followed meanwhile.
\* The posts whose demotion was undone are left out when another session of the user was answered meanwhile or
\* the cache failed: see ShowsEveryPostOnce.
SessionsAreExact ==
    \A r \in Readers : \A p \in Posts \ feed[r].moved :
        (feed[r].disturbed /\ p \in feed[r].loosened) \/ IsExactFor(feed[r], p)

\* Violated: "a session must show every eligible post exactly once - no repeats while scrolling, and nothing
\* silently lost".  A second session of the same user that shows a post again stamps it anew, and the first
\* session, which had demoted it, now finds it above its position.
ShowsEveryPostOnce ==
    \A r \in Readers : \A p \in Posts \ feed[r].moved : IsExactFor(feed[r], p)

=============================================================================
