----------------------------- MODULE MCPlatform -----------------------------
(* Small instances of the components that share no state with each other,  *)
(* in one run: the focus, fixed from the start, says which of them moves.  *)
(* Those that theorems are about are extended, the feed is instantiated.   *)
EXTENDS Integers, FiniteSets, StripeWebhooks, Community, MediaUploads, Social, DeviceTokens, Previews, Notifications, Lists,
        CircleContent, Hiding, TLC

CONSTANT Focuses

VARIABLES
    focus,
    score, listed, following, history, time, feed, changed, reading

feedVars == <<score, listed, following, history, time, feed, changed, reading>>
vars == <<focus, contentVars, noteVars, tokenVars, mediaVars, hidingVars, donationVars, listVars, communityVars, socialVars, feedVars, previewVars>>

-----------------------------------------------------------------------------
(* Circles: one post with two comments, two responses of which one replies *)
(* to the other, two members and two administrators.                       *)

Extent(taken, posts, marked, reported, managed) ==
    [erased |-> taken, written |-> posts, marked |-> marked, reported |-> reported, managed |-> managed]

ThreadsOfResponses == "r1" :> {} @@ "r2" :> {"r1"}
ExtentsOfContent ==
    {Extent({}, {"p", "c1", "c2"}, {}, {"c1"}, FALSE), Extent({"u1"}, {"p", "c1"}, {"c1", "p"}, {}, FALSE),
     Extent({}, {"p"}, {"p"}, {}, TRUE), Extent({"u1"}, {"p", "c1", "c2"}, {}, {"c1"}, FALSE),
     Extent({}, {"r1", "r2"}, {}, {"r1", "r2"}, FALSE)}
PostOfComments == "c1" :> "p" @@ "c2" :> "p"

-----------------------------------------------------------------------------
(* Notifications: one post and its author, and two others.                 *)

Part(name, receives, mutes, choosy, deletes, rows) ==
    [name |-> name, receives |-> receives, mutes |-> mutes, choosy |-> choosy, deletes |-> deletes, rows |-> rows]

AuthorOfNoted == "p" :> "u1"
PartsOfNotifications ==
    {Part("fanout", {}, {<<"u2", "u1">>}, {"u2"}, TRUE, 3), Part("likes", {}, {<<"u1", "u2">>}, {}, FALSE, 2),
     Part("digest", {<<"u1", "u2">>}, {}, {}, FALSE, 3),
     Part("pages", {<<"u1", "u2">>, <<"u1", "u3">>}, {<<"u1", "u2">>}, {"u1"}, FALSE, 3)}

-----------------------------------------------------------------------------
(* Device tokens: registrations of a user who has none or two, or who      *)
(* takes the token of another.                                             *)

Setting(owners, requests, rounds, pushes) ==
    [owners |-> owners, requests |-> requests, rounds |-> rounds, pushes |-> pushes]

Key == "t1" :> 2 @@ "t2" :> 1 @@ "t3" :> 3
SettingsOfTokens ==
    {Setting({}, {"q1", "q2", "q3"}, 1, FALSE),
     Setting({<<"t1", "u1">>, <<"t3", "u1">>}, {"q1", "q2", "q3"}, 1, FALSE),
     Setting({<<"t1", "u1">>, <<"t2", "u1">>, <<"t3", "u2">>}, {"q1", "q2"}, 2, TRUE)}

-----------------------------------------------------------------------------
(* Media uploads: one upload in an orderly course, one whose work outlives *)
(* the limit, and a video that is confirmed twice at a time.               *)

Course(videos, late, twice) == [videos |-> videos, late |-> late, twice |-> twice]

UploadCourses == {Course({}, FALSE, FALSE), Course({}, TRUE, FALSE), Course({"f"}, FALSE, TRUE)}

-----------------------------------------------------------------------------
(* Hidden content: a viewer who takes back what was hidden, and one who    *)
(* hides two targets at a time at the limit.                               *)

Habit(before, unhides) == [before |-> before, unhides |-> unhides]

HabitsOfViewers == {Habit(<<"a">>, TRUE), Habit(<<"a", "b">>, FALSE)}

-----------------------------------------------------------------------------
(* Stripe: two single donations and a subscription, two of the three by    *)
(* one supporter.                                                          *)

Circumstances(donations, inOrder, workers, failing, invoices) ==
    [donations |-> donations, ordered |-> inOrder, workers |-> workers, failing |-> failing, invoices |-> invoices]

Supporter == "one" :> "s1" @@ "two" :> "s1" @@ "monthly" :> "s2"
DonationSetups ==
    {Circumstances({"one", "two"}, FALSE, {"w1"}, TRUE, 0),
     Circumstances({"one"}, FALSE, {"w1", "w2"}, TRUE, 0),
     Circumstances({"one", "two"}, TRUE, {"w1", "w2"}, FALSE, 0),
     Circumstances({"monthly"}, TRUE, {"w1"}, TRUE, 2),
     Circumstances({"one", "monthly"}, TRUE, {"w1", "w2"}, FALSE, 1),
     Circumstances({"monthly"}, FALSE, {"w1", "w2"}, FALSE, 1),
     Circumstances({"monthly"}, FALSE, {"w1"}, TRUE, 1)}

-----------------------------------------------------------------------------
(* The community: one post, a comment on it and a reply.                   *)

Scope(comments_, reports_, actions) == [comments |-> comments_, reports |-> reports_, actions |-> actions]

Parent == "c1" :> "p" @@ "c2" :> "c1"
CommunityScopes ==
    {Scope({}, {<<"u1", "p", "x">>, <<"u1", "p", "y">>, <<"u2", "p", "x">>}, {"dismiss", "hide", "restore"}),
     Scope({}, {"u1", "u2", "u3"} \X {"p"} \X {"x"}, {"restore"}),
     Scope({"c1"}, {"u1", "u2"} \X {"c1"} \X {"x"}, {"warn", "api"}),
     Scope({"c1", "c2"}, {<<"u1", "c1", "x">>}, {"hide", "delete"})}

-----------------------------------------------------------------------------
(* Saves and follows: two requests at a time of a user who saves a post in *)
(* two folders, who follows another, or whose saved post is deleted.       *)

Conduct(posts, names, others, deletes) == [posts |-> posts, names |-> names, others |-> others, deletes |-> deletes]

ConductsOfTwo == {Conduct({"p"}, {"All", "n"}, {}, FALSE), Conduct({}, {}, {"o"}, FALSE), Conduct({"p"}, {}, {}, TRUE)}

-----------------------------------------------------------------------------
(* Feeds: five posts of two authors and two types, read three at a time,   *)
(* by one device, or by two of the same user.                              *)

Reading(kind, posts, readers, authors, changes_, outages) ==
    [feed |-> kind, matches |-> posts, oneType |-> posts = {1, 2, 4}, readers |-> readers, follows |-> authors,
     changes |-> changes_, outages |-> outages]

FE == INSTANCE Feed WITH clock <- time, plan <- reading,
    Posts <- 1..5, AuthorOf <- <<"x", "x", "x", "y", "y">>, TypeOf <- <<"video", "video", "text", "video", "text">>,
    CreatedAt <- <<2, 1, 3, 2, 2>>, Readers <- {"a", "b"}, Shuffles <- {<<1, 1, 1, 1, 1>>, <<1, 2, 3, 1, 2>>},
    PageSize <- 3, MaxWaiting <- 2, PerAuthor <- 2, Recent <- 10, KindRun <- 1,
    SeenWindow <- 3, SessionAge <- 2, MaxTime <- 3, MaxChanges <- 1,
    Plans <- {Reading("new", 2..5, {"a"}, {}, {"scores"}, TRUE), Reading("new", 1..5, {"a", "b"}, {}, {}, FALSE),
              Reading("returning", 1..5, {"a"}, {"y"}, {"scores", "follows"}, FALSE),
              Reading("public", 1..5, {"a"}, {}, {"listed"}, FALSE),
              Reading("discover", 1..5, {"a"}, {}, {"scores", "listed"}, FALSE),
              Reading("discover", {1, 2, 4}, {"a"}, {}, {"scores", "listed"}, FALSE),
              Reading("following", 1..5, {"a"}, {"x", "y"}, {"scores", "listed", "follows"}, FALSE)}

-----------------------------------------------------------------------------
(* Previews: one anchor, two media, two workers.                           *)

Picture(type, fields, failing, legacy) == [type |-> type, fields |-> fields, failing |-> failing, legacy |-> legacy]

PicturesOfAnchors ==
    {Picture("image", {"url", "thumb"}, FALSE, FALSE), Picture("image", {"url", "image"}, FALSE, FALSE),
     Picture("video", {"video", "image"}, FALSE, FALSE), Picture("image", {"image"}, TRUE, FALSE),
     Picture("image", {"url"}, FALSE, TRUE), Picture("video", {"video", "thumb"}, FALSE, TRUE)}

-----------------------------------------------------------------------------

Init ==
    /\ focus \in Focuses
    /\ ContentInit /\ (focus # "content" => extent = Extent({}, {"r1", "r2"}, {}, {"r1", "r2"}, FALSE))
    /\ NotificationsInit /\ (focus # "notifications" => part.name = "digest" /\ muted = {})
    /\ TokensInit /\ (focus # "tokens" => setting.pushes)
    /\ MediaInit /\ (focus # "media" => ~ course.late /\ ~ course.twice)
    /\ HidingInit /\ (focus # "hiding" => habit.unhides)
    /\ DonationsInit /\ (focus # "donations" => setup = Circumstances({"one", "two"}, FALSE, {"w1"}, TRUE, 0))
    /\ ListsInit /\ (focus # "lists" => list = Followers /\ rowTime = [i \in 1..3 |-> 1])
    /\ CommunityInit /\ (focus # "community" => scope.comments = {"c1"})
    /\ SocialInit /\ (focus # "social" => conduct.others # {})
    /\ FE!FeedInit /\ (focus # "feed" => reading.feed = "public")
    /\ PreviewsInit /\ (focus # "previews" => picture.failing)

In(f, others) == focus = f /\ UNCHANGED <<focus, others>>
InContent == In("content", <<noteVars, tokenVars, mediaVars, hidingVars, donationVars, listVars, communityVars, socialVars, feedVars, previewVars>>)
InNotes == In("notifications", <<contentVars, tokenVars, mediaVars, hidingVars, donationVars, listVars, communityVars, socialVars, feedVars, previewVars>>)
InTokens == In("tokens", <<contentVars, noteVars, mediaVars, hidingVars, donationVars, listVars, communityVars, socialVars, feedVars, previewVars>>)
InMedia == In("media", <<contentVars, noteVars, tokenVars, hidingVars, donationVars, listVars, communityVars, socialVars, feedVars, previewVars>>)
InHiding == In("hiding", <<contentVars, noteVars, tokenVars, mediaVars, donationVars, listVars, communityVars, socialVars, feedVars, previewVars>>)
InDonations == In("donations", <<contentVars, noteVars, tokenVars, mediaVars, hidingVars, listVars, communityVars, socialVars, feedVars, previewVars>>)
InLists == In("lists", <<contentVars, noteVars, tokenVars, mediaVars, hidingVars, donationVars, communityVars, socialVars, feedVars, previewVars>>)
InCommunity == In("community", <<contentVars, noteVars, tokenVars, mediaVars, hidingVars, donationVars, listVars, socialVars, feedVars, previewVars>>)
InSocial == In("social", <<contentVars, noteVars, tokenVars, mediaVars, hidingVars, donationVars, listVars, communityVars, feedVars, previewVars>>)
InFeed == In("feed", <<contentVars, noteVars, tokenVars, mediaVars, hidingVars, donationVars, listVars, communityVars, socialVars, previewVars>>)
InPreviews == In("previews", <<contentVars, noteVars, tokenVars, mediaVars, hidingVars, donationVars, listVars, communityVars, socialVars, feedVars>>)

Next ==
    \/ InContent /\ ContentNext
    \/ InNotes /\ NotificationsNext
    \/ InTokens /\ TokensNext
    \/ InMedia /\ MediaNext
    \/ InHiding /\ HidingNext
    \/ InDonations /\ DonationsNext
    \/ InLists /\ ListsNext
    \/ InCommunity /\ CommunityNext
    \/ InSocial /\ SocialNext
    \/ InFeed /\ FE!FeedNext
    \/ InPreviews /\ PreviewsNext

Spec == Init /\ [][Next]_vars

\* Fairness of MediaUploads.
MediaIsServed ==
    /\ \A f \in Files : WF_vars(InMedia /\ GetsStale(f)) /\ SF_vars(InMedia /\ Heal(f))
                        /\ SF_vars(InMedia /\ DeleteAbandoned(f)) /\ SF_vars(InMedia /\ MarkAbandoned(f))
    /\ \A r \in Requests : WF_vars(InMedia /\ (UploadRequestDies(r) \/ \E f \in Files : Handle(r, f) \/ CreatePost(r, f)))
    /\ WF_vars(InMedia /\ (\E m \in queue : SkipTask(m) \/ \E w \in CeleryWorkers : StartTask(w, m)))
    /\ \A w \in CeleryWorkers : WF_vars(InMedia /\ (\E m \in celery[w] : Work(w, m)))
    /\ SF_vars(InMedia /\ SelectStale) /\ SF_vars(InMedia /\ ResolveReferenced)

\* Fairness of Hiding.
SetsExpire ==
    /\ WF_vars(InHiding /\ SetExpires)
    /\ \A r \in HideRequests : WF_vars(InHiding /\ HidingProceeds(r))

FairSpec == Spec /\ MediaIsServed /\ SetsExpire

-----------------------------------------------------------------------------

TypeOK ==
    CASE focus = "content" -> ContentTypeOK
      [] focus = "notifications" -> NotificationsTypeOK
      [] focus = "tokens" -> TokensTypeOK
      [] focus = "media" -> MediaTypeOK
      [] focus = "hiding" -> HidingTypeOK
      [] focus = "donations" -> DonationsTypeOK
      [] focus = "lists" -> ListsTypeOK
      [] focus = "community" -> CommunityTypeOK
      [] focus = "social" -> SocialTypeOK
      [] focus = "feed" -> FE!TypeOK
      [] focus = "previews" -> PreviewsTypeOK

\* Media, confirm_upload and tasks: whatever fails, an upload comes to an end, which is final.
UploadsEnd == EveryUploadEnds /\ EndedIsFinal

\* Feed, strategies and assembly: a session read to its end shows every post once.
SessionsAreExact == FE!SessionsAreExact

\* Feed: "a session must show every eligible post exactly once", two sessions of a user too.
ShowsEveryPostOnce == FE!ShowsEveryPostOnce

=============================================================================
