------------------------------ MODULE Previews ------------------------------
(***************************************************************************)
(* The preview of an anchor with media: the thumbnail that an              *)
(* administrator gives (create_anchor and edit_scheduled_anchor of         *)
(* core/admin_dashboard/anchor_services.py), that the pipeline made of the *)
(* media (core/media/thumbnails.py), or that a task makes of the image     *)
(* (generate_anchor_thumbnail of core/media/tasks.py).                     *)
(*                                                                         *)
(* A task reads the anchor, works, and then updates it where it is still   *)
(* as it was.  That update joins the creator of the anchor, so PostgreSQL  *)
(* chooses its row by what is committed when it begins: if it has to wait  *)
(* for the transaction that holds the row, it then writes whatever the row *)
(* has become, and a row that only becomes a match is missed.              *)
(***************************************************************************)
EXTENDS Naturals

CONSTANTS
    Media,          \* files of this deployment, and their URLs
    Makers,         \* Celery workers, one of which may be the backfill command
    MaxEdits,       \* bound: changes by administrators
    Pictures        \* the type of the anchor, the fields that administrators set, whether
                    \* tasks are lost, and whether the anchor is older than thumbnails

NoMedia == "no media"
Keep == "keep"

ASSUME PreviewsAssumption ==
    /\ {NoMedia, Keep, "generate"} \intersect Media = {} /\ MaxEdits \in Nat
    /\ Pictures \subseteq [type : {"image", "video"}, fields : SUBSET {"url", "image", "video", "thumb"},
            failing : BOOLEAN, legacy : BOOLEAN]

VARIABLES
    anchor,     \* its row: media_url, anchor_image, anchor_video, anchor_thumbnail
    ready,      \* media with a thumbnail
    jobs,       \* tasks: "generate", and the media whose anchors are to be synced
    maker,      \* what each worker has read, and is going to write
    edit,       \* the transaction that holds the row
    edits,      \* so far
    given,      \* history: the thumbnail an administrator gave for the present media
    mishaps,    \* history: what makes a preview wrong, or leaves it out
    picture

previewVars == <<anchor, ready, jobs, maker, edit, edits, given, mishaps, picture>>

\* A thumbnail: the URL of a file, or of what was made small of it.
Thumb(m, made) == [of |-> m, small |-> made]
NoThumb == Thumb(NoMedia, FALSE)

Row(state, url, image, video, thumb) ==
    [state |-> state, url |-> url, image |-> image, video |-> video, thumb |-> thumb]
Absent == Row("absent", NoMedia, NoMedia, NoMedia, NoThumb)
Erased == Row("deleted", NoMedia, NoMedia, NoMedia, NoThumb)
Legacy(m) ==
    IF picture.type = "video" THEN Row("there", m, NoMedia, m, Thumb(m, FALSE))
    ELSE Row("there", m, m, NoMedia, Thumb(m, FALSE))

Fields(a) == <<a.url, a.image, a.video>>
Sources(a) == {a.url, a.image, a.video} \ {NoMedia}

NotMaking == [pc |-> "idle", seen |-> Absent, makes |-> NoThumb]
NoEdit == [pc |-> "none", row |-> Absent, gives |-> FALSE]
Locked == edit.pc # "none"

PreviewsInit ==
    /\ picture \in Pictures
    /\ IF picture.legacy THEN \E m \in Media : anchor = Legacy(m) ELSE anchor = Absent
    /\ ready = {} /\ jobs = {} /\ maker = [w \in Makers |-> NotMaking] /\ edit = NoEdit /\ edits = 0
    /\ given = {} /\ mishaps = IF picture.legacy THEN {"legacy"} ELSE {}

-----------------------------------------------------------------------------
(* The fields of an anchor.                                                *)

\* The first of two that is set, as "or" has it.
Or(m, other) == IF m # NoMedia THEN m ELSE other

\* anchor_thumbnail_candidates.
Candidates(a) == IF picture.type = "video" THEN <<a.video, a.image, a.url>> ELSE <<a.image, a.url, a.video>>

\* resolve_media_thumbnail_url: what the pipeline made of the first that it is done with.
Resolved(a) ==
    LET Done(m) == IF m \in ready THEN m ELSE NoMedia
        c == Candidates(a)
        m == Or(Done(c[1]), Or(Done(c[2]), Done(c[3])))
    IN Thumb(m, m # NoMedia)

\* has_usable_anchor_thumbnail: there is one, and it is not just the media.
Usable(a) == a.thumb # NoThumb /\ (a.thumb.small \/ a.thumb.of \notin Sources(a))

\* can_generate_anchor_thumbnail, generate_anchor_thumbnail: the image to read from storage.
SourceUrl(a) == IF picture.type = "image" THEN Or(a.image, a.url) ELSE a.image
Wants(a) == ~ Usable(a) /\ SourceUrl(a) # NoMedia

\* _typed_media_fields: the field of the type of the anchor, and the generic URL as that.
Typed(a) == IF picture.type = "video" THEN a.video ELSE a.image
Other(a) == IF picture.type = "video" THEN a.image ELSE a.video
WithTyped(a, m) == IF picture.type = "video" THEN [a EXCEPT !.video = m] ELSE [a EXCEPT !.image = m]

Filled(a) == WithTyped(a, Or(Typed(a), a.url))

Previewed(a) == IF Usable(a) THEN a ELSE [a EXCEPT !.thumb = Resolved(a)]

NormaliseMediaFields(a) ==
    LET f == Filled(a) IN Previewed([f EXCEPT !.url = Or(@, Or(Typed(f), Or(Other(f), f.thumb.of)))])

Sets(value, old) == IF value = Keep THEN old ELSE value

\* The URL and its typed mirror stay together when only one is edited.
Mirrored(a, b, u) ==
    IF Typed(a) # a.url \/ (u.url # Keep /\ Typed(u) # Keep) THEN b
    ELSE [WithTyped(b, Sets(u.url, Typed(b))) EXCEPT !.url = Sets(Typed(u), @)]

\* edit_scheduled_anchor: what is not given anew goes with the media it was of.
Edited(a, u) ==
    LET set == [a EXCEPT !.url = Sets(u.url, @), !.image = Sets(u.image, @), !.video = Sets(u.video, @)]
        b == Mirrored(a, set, u)
        kept == IF Fields(b) = Fields(a) THEN a.thumb ELSE NoThumb
    IN IF {u.url, u.image, u.video, u.thumb} = {Keep} THEN a
       ELSE NormaliseMediaFields([b EXCEPT !.thumb = IF u.thumb = Keep THEN kept ELSE Thumb(u.thumb, FALSE)])

\* What a call may give: values for the fields, and nothing for the others.
Updates(values, nothing) ==
    LET Values(f) == (IF f \in picture.fields THEN values ELSE {}) \union {nothing}
    IN [url : Values("url"), image : Values("image"), video : Values("video"), thumb : Values("thumb")]

-----------------------------------------------------------------------------
(* Administrators.                                                         *)

Opens(row, gives) ==
    /\ ~ Locked /\ edits < MaxEdits /\ edits' = edits + 1
    /\ edit' = [pc |-> "open", row |-> row, gives |-> gives]
    /\ UNCHANGED <<anchor, ready, jobs, maker, given, mishaps, picture>>

\* From the dashboard, or from the circle, which does not make up a URL.
CreateAnchor(u) ==
    /\ anchor.state = "absent" /\ Or(u.url, Typed(u)) # NoMedia
    /\ LET new == Row("there", u.url, u.image, u.video, Thumb(u.thumb, FALSE)) IN
       \E row \in {NormaliseMediaFields(new), Previewed(Filled(new))} : Opens(row, u.thumb # NoMedia)

EditScheduledAnchor(u) == anchor.state = "there" /\ Opens(Edited(anchor, u), u.thumb # Keep)

\* Posting it asks for a thumbnail again.
SendNow == anchor.state = "there" /\ Opens(anchor, FALSE)

\* Its creator is purged.
EraseCreator == anchor.state = "there" /\ Opens(Erased, FALSE)

\* Mutant, used by no specification, as are all that are marked so: a plausible bug in the
\* definition that follows.
ScheduleNothing(a) == UNCHANGED <<jobs, mishaps>>

\* _schedule_anchor_thumbnail, on commit; publishing the task may fail.
ScheduleAnchorThumbnail(a) ==
    \/ ~ Wants(a) /\ UNCHANGED <<jobs, mishaps>>
    \/ Wants(a) /\ jobs' = jobs \union {"generate"} /\ UNCHANGED mishaps
    \/ Wants(a) /\ picture.failing /\ mishaps' = mishaps \union {"lost"} /\ UNCHANGED jobs

Commit ==
    /\ Locked /\ edit' = NoEdit /\ anchor' = edit.row
    /\ IF edit.row.state = "deleted" THEN UNCHANGED <<jobs, mishaps>> ELSE ScheduleAnchorThumbnail(edit.row)
    /\ given' = IF edit.row.thumb.small \/ ~ Usable(edit.row) THEN {}
                ELSE IF edit.gives THEN {edit.row.thumb}
                ELSE IF Sources(edit.row) = Sources(anchor) THEN given ELSE {}
    /\ UNCHANGED <<ready, maker, edits, picture>>

Abort == Locked /\ edit' = NoEdit /\ UNCHANGED <<anchor, ready, jobs, maker, edits, given, mishaps, picture>>

-----------------------------------------------------------------------------
(* Tasks.                                                                  *)

TurnsTo(w, what) == maker' = [maker EXCEPT ![w] = what]
KeepsRow == UNCHANGED <<anchor, ready, edit, edits, given, picture>>

\* The pipeline has made a thumbnail (_generate_image_thumbnail, _generate_video_thumbnail).
ThumbnailGenerated(m) ==
    /\ m \notin ready /\ ready' = ready \union {m}
    /\ \/ jobs' = jobs \union {m} /\ UNCHANGED mishaps
       \/ picture.failing /\ mishaps' = mishaps \union {"lost"} /\ UNCHANGED jobs
    /\ UNCHANGED <<anchor, maker, edit, edits, given, picture>>

\* An update of the anchor, if it is chosen: at once, or when the transaction that holds it ends.
Writes(w, chosen, thumb, seen, races) ==
    IF chosen /\ Locked
    THEN /\ TurnsTo(w, [pc |-> "waiting", seen |-> seen, makes |-> thumb])
         /\ UNCHANGED mishaps /\ KeepsRow
    ELSE /\ anchor' = IF chosen THEN [anchor EXCEPT !.thumb = thumb] ELSE anchor
         /\ mishaps' = mishaps \union races
         /\ TurnsTo(w, NotMaking) /\ UNCHANGED <<ready, edit, edits, given, picture>>

\* sync_anchor_thumbnails.
NeedsSync(m, a) == a.state = "there" /\ m \in Sources(a) /\ a.thumb \in {NoThumb, Thumb(m, FALSE)}

SyncMediaAnchorThumbnails(w, m) ==
    /\ m \in jobs \ {"generate"} /\ maker[w].pc = "idle" /\ jobs' = jobs \ {m}
    /\ Writes(w, NeedsSync(m, anchor), Thumb(m, TRUE), anchor,
              IF ~ NeedsSync(m, anchor) /\ NeedsSync(m, edit.row) THEN {"missed"} ELSE {})

GenerateAnchorThumbnail(w) ==
    /\ "generate" \in jobs /\ maker[w].pc = "idle" /\ jobs' = jobs \ {"generate"}
    /\ TurnsTo(w, IF anchor.state # "there" \/ Usable(anchor) THEN NotMaking
                  ELSE [pc |-> "resolve", seen |-> anchor, makes |-> NoThumb])
    /\ UNCHANGED mishaps /\ KeepsRow

\* The media has one by now, or one is made and uploaded, unless the anchor has changed.
ResolveOrMake(w) ==
    /\ maker[w].pc = "resolve"
    /\ LET seen == maker[w].seen
           made == IF Resolved(seen) = NoThumb THEN Thumb(SourceUrl(seen), TRUE) ELSE Resolved(seen)
       IN TurnsTo(w, IF made.of = NoMedia \/ (Resolved(seen) = NoThumb /\ anchor # seen) THEN NotMaking
                     ELSE [pc |-> "publish", seen |-> seen, makes |-> made])
    /\ UNCHANGED <<jobs, mishaps>> /\ KeepsRow

\* Mutant.
CurrentByThumbnail(seen) == anchor.state = "there" /\ anchor.thumb = seen.thumb

\* current_source.
CurrentSource(seen) == anchor = seen

Publish(w) ==
    /\ maker[w].pc = "publish" /\ UNCHANGED jobs
    /\ Writes(w, CurrentSource(maker[w].seen), maker[w].makes, maker[w].seen, {})

\* The row is free: it is written whatever it has become.
WaitedFor(w) ==
    /\ maker[w].pc = "waiting" /\ ~ Locked
    /\ anchor' = [anchor EXCEPT !.thumb = maker[w].makes]
    /\ mishaps' = IF anchor = maker[w].seen THEN mishaps ELSE mishaps \union {"waited"}
    /\ TurnsTo(w, NotMaking) /\ UNCHANGED <<ready, jobs, edit, edits, given, picture>>

\* An exception, after which the task may be tried again, or the loss of the worker.
TaskFails(w) ==
    /\ picture.failing /\ maker[w].pc # "idle" /\ TurnsTo(w, NotMaking) /\ KeepsRow
    /\ \/ mishaps' = mishaps \union {"lost"} /\ UNCHANGED jobs
       \/ maker[w].pc = "resolve" /\ jobs' = jobs \union {"generate"} /\ UNCHANGED mishaps

-----------------------------------------------------------------------------
(* The command backfill_anchor_thumbnails.                                 *)

BeginBackfill(w) ==
    /\ picture.legacy \/ picture.failing
    /\ maker[w].pc = "idle" /\ anchor.state = "there" /\ ~ Usable(anchor) /\ Sources(anchor) # {}
    /\ TurnsTo(w, [pc |-> "backfill", seen |-> anchor, makes |-> NoThumb])
    /\ UNCHANGED <<jobs, mishaps>> /\ KeepsRow

\* Its update asks for the thumbnail to be as it was, not for the media.
Backfill(w) ==
    /\ maker[w].pc = "backfill"
    /\ LET seen == maker[w].seen
           chosen == anchor.state = "there" /\ anchor.thumb = seen.thumb
       IN IF Resolved(seen) = NoThumb
          THEN /\ jobs' = jobs \union (IF SourceUrl(seen) = NoMedia THEN {} ELSE {"generate"})
               /\ TurnsTo(w, NotMaking) /\ UNCHANGED mishaps /\ KeepsRow
          ELSE /\ UNCHANGED jobs
               /\ Writes(w, chosen, Resolved(seen), seen,
                         IF chosen /\ Sources(anchor) # Sources(seen) THEN {"backfilled"} ELSE {})

-----------------------------------------------------------------------------

Administers ==
    \/ \E u \in Updates(Media, NoMedia) : CreateAnchor(u)
    \/ \E u \in Updates(Media \union {NoMedia}, Keep) : EditScheduledAnchor(u)
    \/ SendNow \/ EraseCreator \/ Commit \/ Abort

PreviewsNext ==
    \/ Administers
    \/ \E m \in Media : ThumbnailGenerated(m) \/ \E w \in Makers : SyncMediaAnchorThumbnails(w, m)
    \/ \E w \in Makers :
        \/ GenerateAnchorThumbnail(w) \/ ResolveOrMake(w) \/ Publish(w) \/ WaitedFor(w) \/ TaskFails(w)
        \/ BeginBackfill(w) \/ Backfill(w)

PreviewsSpec == PreviewsInit /\ [][PreviewsNext]_previewVars

-----------------------------------------------------------------------------
(* Properties.                                                             *)

\* The state has its type.
PreviewsTypeOK ==
    /\ LET Thumbs == [of : Media \union {NoMedia}, small : BOOLEAN]
           Rows == [state : {"absent", "there", "deleted"}, url : Media \union {NoMedia},
                    image : Media \union {NoMedia}, video : Media \union {NoMedia}, thumb : Thumbs]
       IN /\ anchor \in Rows /\ given \subseteq Thumbs
          /\ maker \in [Makers -> [pc : {"idle", "resolve", "publish", "waiting", "backfill"}, seen : Rows, makes : Thumbs]]
          /\ edit \in [pc : {"none", "open"}, row : Rows, gives : BOOLEAN]
    /\ ready \subseteq Media /\ jobs \subseteq Media \union {"generate"} /\ edits \in 0 .. MaxEdits
    /\ mishaps \subseteq {"legacy", "lost", "missed", "waited", "backfilled"} /\ picture \in Pictures

\* edit_scheduled_anchor and generate_anchor_thumbnail: "Only the source snapshot that requested
\* the work is allowed to publish its result".  A preview is made of the media the anchor now
\* has, or is what an administrator gave for it, which no task replaces; unless an update waited
\* for a change, or the backfill did not see it.
PreviewsAreOfTheirMedia ==
    {"waited", "backfilled"} \intersect mishaps = {} =>
        /\ anchor.thumb.small => anchor.thumb.of \in Sources(anchor)
        /\ given = IF Usable(anchor) /\ ~ anchor.thumb.small THEN {anchor.thumb} ELSE {}

\* _schedule_anchor_thumbnail and sync_anchor_thumbnails: when all is done, an anchor whose media
\* has a thumbnail, or is an image to make one of, has a preview, unless a task was lost or the
\* thumbnail of a media was announced while the change that adds it was under way.
NoPreviewIsMissing ==
    (mishaps = {} /\ ~ Locked /\ jobs = {} /\ \A w \in Makers : maker[w] = NotMaking) =>
        (anchor.state = "there" /\ (Sources(anchor) \intersect ready # {} \/ SourceUrl(anchor) # NoMedia)
            => Usable(anchor))

\* The preview of an anchor is of its media, and none is missing in the end.
PreviewsAreExact == PreviewsAreOfTheirMedia /\ NoPreviewIsMissing

=============================================================================
