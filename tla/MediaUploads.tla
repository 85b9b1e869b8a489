---------------------------- MODULE MediaUploads ----------------------------
(***************************************************************************)
(* Uploads of images and videos (core/media): a row that tracks the upload *)
(* and an object in the storage bucket.  The client puts the object there  *)
(* and confirms it, a chain of Celery tasks verifies and optimizes it      *)
(* (core/media/tasks), content uses it by its id or just by its URL, and a *)
(* scheduled cleanup removes what was abandoned.                           *)
(*                                                                         *)
(* No operation locks the row: each reads it, works, and saves its status  *)
(* whatever it has become.  Tasks are acknowledged before they run, so one *)
(* whose worker dies is lost.  Thumbnails are left out.                    *)
(***************************************************************************)
EXTENDS Naturals, FiniteSets

CONSTANTS
    Files,          \* the uploads
    Requests,       \* the requests that confirm, upload directly or post
    CeleryWorkers,  \* Celery worker processes
    MaxRetries,     \* bound: retries of a task after a transient failure
    Courses         \* the circumstances to consider; see CoursesAssumption

\* The uploads that are videos; whether tasks, or clients, may still be at work on an
\* upload that is stale, and whether an upload is confirmed twice at a time.
ASSUME CoursesAssumption ==
    Courses \subseteq [videos : SUBSET Files, late : BOOLEAN, twice : BOOLEAN]
ASSUME RetriesAssumption == MaxRetries \in Nat

VARIABLES
    upload,     \* the row of each upload
    stale,      \* whether the row was not saved for MEDIA_STALE_UPLOAD_MINUTES
    stored,     \* bucket: the object of each upload
    held,       \* content: the uploads whose URL some content holds
    posted,     \* content: the uploads that are attached to a post by their id
    request,    \* the progress of each request
    queue,      \* broker: the task messages
    celery,     \* the progress of each worker
    cleaner,    \* the progress of the cleanup
    course      \* the circumstances, fixed from the start

contentUse == <<held, posted>>
mediaVars == <<upload, stale, stored, contentUse, request, queue, celery, cleaner, course>>

Status == {"none", "pending", "processing", "ready", "failed"}
Unfinished == {"pending", "processing"}
Tasks == {"process", "optimize", "thumbnail", "finalize"}
Rest == [pc |-> "rest", batch |-> {}, referenced |-> {}, file |-> {}]

\* A message carries the request that started its chain of tasks.
Message(task, f, r, tries) == [task |-> task, file |-> f, chain |-> r, tries |-> tries]
Doing(pc, f) == [pc |-> pc, file |-> {f}]
Done == [pc |-> "done", file |-> {}]

MediaInit ==
    /\ upload = [f \in Files |-> "none"] /\ stale = [f \in Files |-> FALSE]
    /\ stored = [f \in Files |-> "none"]
    /\ held = {} /\ posted = {}
    /\ request = [r \in Requests |-> [pc |-> "idle", file |-> {}]]
    /\ queue = {}
    /\ celery = [w \in CeleryWorkers |-> {}]
    /\ cleaner = Rest
    /\ course \in Courses

-----------------------------------------------------------------------------

Saves(f, s) == upload' = [upload EXCEPT ![f] = s] /\ stale' = [stale EXCEPT ![f] = FALSE]
Puts(f, object) == stored' = [stored EXCEPT ![f] = object]
Goes(r, step) == request' = [request EXCEPT ![r] = step]
OnStep(r, pc, f) == request[r] = Doing(pc, f)

\* Whether a task or a request is on its way that concerns the upload.
InFlight(f) ==
    \/ \E m \in queue : m.file = f
    \/ \E w \in CeleryWorkers : \E m \in celery[w] : m.file = f
    \/ \E r \in Requests : f \in request[r].file

\* Clients that are not late use an upload before it is stale.
InTime(f) == course.late \/ ~ stale[f]

-----------------------------------------------------------------------------
(* Clients and web requests.                                               *)

GenerateUploadUrl(f) ==
    /\ upload[f] = "none"
    /\ Saves(f, "pending")
    /\ UNCHANGED <<stored, contentUse, request, queue, celery, cleaner, course>>

\* The signed URL expires when the row becomes stale.
ClientUploads(f) ==
    /\ upload[f] = "pending" /\ ~ stale[f] /\ stored[f] = "none"
    /\ Puts(f, "original")
    /\ UNCHANGED <<upload, stale, contentUse, request, queue, celery, cleaner, course>>

\* Covers, anchors and circle posts keep the URL of what was uploaded.
Link(f) ==
    /\ stored[f] # "none" /\ upload[f] # "failed" /\ InTime(f)
    /\ held' = held \union {f}
    /\ UNCHANGED <<upload, stale, stored, posted, request, queue, celery, cleaner, course>>

\* upload_media, up to the row.
UploadMedia(r, f) ==
    /\ request[r].pc = "idle" /\ upload[f] = "none"
    /\ Puts(f, "original")
    /\ Saves(f, "processing")
    /\ Goes(r, Doing("queue", f))
    /\ UNCHANGED <<contentUse, queue, celery, cleaner, course>>

Confirmable(f) == upload[f] = "pending"

\* confirm_upload, from the row it reads.
BeginConfirm(r, f) ==
    /\ request[r].pc = "idle" /\ Confirmable(f) /\ InTime(f)
    /\ course.twice \/ ~ InFlight(f)
    /\ Goes(r, Doing("verify", f))
    /\ UNCHANGED <<upload, stale, stored, contentUse, queue, celery, cleaner, course>>

\* The object is there, and may be what was declared.
Verifiable(f) == stored[f] # "none"

VerifyOk(r, f) ==
    /\ OnStep(r, "verify", f) /\ Verifiable(f)
    /\ Saves(f, "processing")
    /\ Goes(r, Doing("queue", f))
    /\ UNCHANGED <<stored, contentUse, queue, celery, cleaner, course>>

\* No object, one that is not what was declared, or a failure of the storage.
VerifyFails(r, f) ==
    /\ OnStep(r, "verify", f)
    /\ Saves(f, "failed")
    /\ Goes(r, Doing("delete", f))
    /\ UNCHANGED <<stored, contentUse, queue, celery, cleaner, course>>

\* _delete_uploaded_object swallows its errors.
DeleteObject(r, f) ==
    /\ OnStep(r, "delete", f)
    /\ Puts(f, "none") \/ UNCHANGED stored
    /\ Goes(r, Done)
    /\ UNCHANGED <<upload, stale, contentUse, queue, celery, cleaner, course>>

QueueProcessing(r, f) ==
    /\ OnStep(r, "queue", f)
    /\ \/ queue' = queue \union {Message("process", f, r, 0)} /\ UNCHANGED <<upload, stale>>
       \/ Saves(f, "failed") /\ UNCHANGED queue
    /\ Goes(r, Done)
    /\ UNCHANGED <<stored, contentUse, celery, cleaner, course>>

\* create_post checks that the uploads are ready, and attaches them later.
BeginPost(r, f) ==
    /\ request[r].pc = "idle" /\ upload[f] = "ready"
    /\ Goes(r, Doing("post", f))
    /\ UNCHANGED <<upload, stale, stored, contentUse, queue, celery, cleaner, course>>

CreatePost(r, f) ==
    /\ OnStep(r, "post", f)
    /\ posted' = posted \union {f}
    /\ Goes(r, Done)
    /\ UNCHANGED <<upload, stale, stored, held, queue, celery, cleaner, course>>

UploadRequestDies(r) ==
    /\ request[r].file # {}
    /\ Goes(r, Done)
    /\ UNCHANGED <<upload, stale, stored, contentUse, queue, celery, cleaner, course>>

-----------------------------------------------------------------------------
(* Tasks.  A worker is the set of what it does: nothing or one message.    *)

Free(w) == celery[w] = {}
Takes(w, m) == celery' = [celery EXCEPT ![w] = {m}]
Frees(w) == celery' = [celery EXCEPT ![w] = {}]

Following(m) ==
    CASE m.task = "process" -> "optimize"
      [] m.task = "optimize" /\ m.file \notin course.videos -> "thumbnail"
      [] OTHER -> "finalize"
SendNext(m) == queue' = queue \union {Message(Following(m), m.file, m.chain, 0)}

\* What a task does not work on when it reads the row: it leaves it to the next stage.
Skipped(m) ==
    upload[m.file] = "failed" \/ (m.task = "process" /\ upload[m.file] = "ready")

StartTask(w, m) ==
    /\ Free(w) /\ ~ Skipped(m)
    /\ Takes(w, m)
    /\ queue' = queue \ {m}
    /\ UNCHANGED <<upload, stale, stored, contentUse, request, cleaner, course>>

SkipTask(m) ==
    /\ Skipped(m)
    /\ queue' = (queue \ {m}) \union
                  (IF m.task \in {"process", "finalize"} THEN {}
                   ELSE {Message(Following(m), m.file, m.chain, 0)})
    /\ UNCHANGED <<upload, stale, stored, contentUse, request, celery, cleaner, course>>

\* process_media_upload queues the chain, after it has saved the status of a row that is
\* still pending; a broker that refuses it fails the upload.
QueueChain(w, m) ==
    /\ m.task = "process"
    /\ \/ SendNext(m)
          /\ IF upload[m.file] = "pending" THEN Saves(m.file, "processing")
                                           ELSE UNCHANGED <<upload, stale>>
       \/ Saves(m.file, "failed") /\ UNCHANGED queue
    /\ Frees(w)
    /\ UNCHANGED <<stored, contentUse, request, cleaner, course>>

\* The object is downloaded, optimized and put back, and then the row is saved.
PutOptimized(w, m) ==
    /\ m.task = "optimize" /\ stored[m.file] # "none"
    /\ Puts(m.file, "optimized")
    /\ Takes(w, [m EXCEPT !.task = "optimized"])
    /\ UNCHANGED <<upload, stale, contentUse, request, queue, cleaner, course>>

SaveOptimized(w, m) ==
    /\ m.task = "optimized"
    /\ stale' = [stale EXCEPT ![m.file] = FALSE]
    /\ SendNext([m EXCEPT !.task = "optimize"])
    /\ Frees(w)
    /\ UNCHANGED <<upload, stored, contentUse, request, cleaner, course>>

\* Best effort.
GenerateThumbnail(w, m) ==
    /\ m.task = "thumbnail"
    /\ stale' = [stale EXCEPT ![m.file] = FALSE] \/ UNCHANGED stale
    /\ SendNext(m)
    /\ Frees(w)
    /\ UNCHANGED <<upload, stored, contentUse, request, cleaner, course>>

FinalizeMediaReady(w, m) ==
    /\ m.task = "finalize"
    /\ Saves(m.file, "ready")
    /\ Frees(w)
    /\ UNCHANGED <<stored, contentUse, request, queue, cleaner, course>>

Retried(m) ==
    [m EXCEPT !.task = IF @ = "optimized" THEN "optimize" ELSE @, !.tries = @ + 1]

\* _handle_stage_failure of a transient failure, of the storage or the database.
RetryStage(w, m) ==
    /\ m.task \in {"optimize", "optimized", "finalize"} /\ m.tries < MaxRetries
    /\ queue' = queue \union {Retried(m)}
    /\ Frees(w)
    /\ UNCHANGED <<upload, stale, stored, contentUse, request, cleaner, course>>

\* Mutant, used by no specification, as are all that are marked so: a plausible bug
\* in the definition that follows.
LogAndGoOn(w, m) ==
    /\ m.task \in {"optimize", "optimized"}
    /\ SendNext([m EXCEPT !.task = "optimize"])
    /\ Frees(w)
    /\ UNCHANGED <<upload, stale, stored, contentUse, request, cleaner, course>>

\* Of any other failure.
FailStage(w, m) ==
    /\ m.task \in {"optimize", "optimized", "finalize"}
    /\ Saves(m.file, "failed")
    /\ Frees(w)
    /\ UNCHANGED <<stored, contentUse, request, queue, cleaner, course>>

\* When the retries are exhausted Celery raises the failure itself, not the exception
\* that is handled, and the upload is not marked.  So it is when the worker dies.
LoseTask(w, m) ==
    /\ m \in celery[w]
    /\ Frees(w)
    /\ UNCHANGED <<upload, stale, stored, contentUse, request, queue, cleaner, course>>

Work(w, m) ==
    \/ QueueChain(w, m) \/ PutOptimized(w, m) \/ SaveOptimized(w, m)
    \/ GenerateThumbnail(w, m) \/ FinalizeMediaReady(w, m)
    \/ RetryStage(w, m) \/ FailStage(w, m) \/ LoseTask(w, m)

-----------------------------------------------------------------------------
(* The cleanup: one run at a time.                                         *)

\* Mutant.
AbandonedPending == {f \in Files : upload[f] = "pending" /\ stale[f]}

Abandoned == {f \in Files : upload[f] \in Unfinished /\ stale[f]}

SelectStale ==
    /\ cleaner.pc = "rest" /\ Abandoned # {}
    /\ cleaner' = [Rest EXCEPT !.pc = "resolve", !.batch = Abandoned]
    /\ UNCHANGED <<upload, stale, stored, contentUse, request, queue, celery, course>>

\* Mutant.
ResolveNothing ==
    /\ cleaner.pc = "resolve"
    /\ cleaner' = [cleaner EXCEPT !.pc = "sweep"]
    /\ UNCHANGED <<upload, stale, stored, contentUse, request, queue, celery, course>>

\* Posts that hold an upload by its id are not looked at: it is ready.
ResolveReferenced ==
    /\ cleaner.pc = "resolve"
    /\ cleaner' = [cleaner EXCEPT !.pc = "sweep", !.referenced = cleaner.batch \intersect held]
    /\ UNCHANGED <<upload, stale, stored, contentUse, request, queue, celery, course>>

Swept(f) ==
    cleaner' = IF cleaner.batch = {f} THEN Rest
               ELSE [cleaner EXCEPT !.pc = "sweep", !.batch = @ \ {f}, !.file = {}]

Heal(f) ==
    /\ cleaner.pc = "sweep" /\ f \in cleaner.batch \intersect cleaner.referenced
    /\ Saves(f, "ready")
    /\ Swept(f)
    /\ UNCHANGED <<stored, contentUse, request, queue, celery, course>>

\* A failure to delete the object is swallowed.
DeleteAbandoned(f) ==
    /\ cleaner.pc = "sweep" /\ f \in cleaner.batch \ cleaner.referenced
    /\ Puts(f, "none") \/ UNCHANGED stored
    /\ cleaner' = [cleaner EXCEPT !.pc = "mark", !.file = {f}]
    /\ UNCHANGED <<upload, stale, contentUse, request, queue, celery, course>>

MarkAbandoned(f) ==
    /\ cleaner.pc = "mark" /\ cleaner.file = {f}
    /\ Saves(f, "failed")
    /\ Swept(f)
    /\ UNCHANGED <<stored, contentUse, request, queue, celery, course>>

CleanupDies ==
    /\ cleaner # Rest
    /\ cleaner' = Rest
    /\ UNCHANGED <<upload, stale, stored, contentUse, request, queue, celery, course>>

\* Time passes without a save of the row.
GetsStale(f) ==
    /\ upload[f] \in Unfinished /\ ~ stale[f]
    /\ course.late \/ ~ InFlight(f)
    /\ stale' = [stale EXCEPT ![f] = TRUE]
    /\ UNCHANGED <<upload, stored, contentUse, request, queue, celery, cleaner, course>>

-----------------------------------------------------------------------------

Handle(r, f) ==
    \/ VerifyOk(r, f) \/ VerifyFails(r, f) \/ DeleteObject(r, f)
    \/ QueueProcessing(r, f)

Uploading(r, f) == GenerateUploadUrl(f) \/ UploadMedia(r, f)
Attaching(r, f) == BeginPost(r, f) \/ CreatePost(r, f)

Sweep(f) == Heal(f) \/ DeleteAbandoned(f) \/ MarkAbandoned(f)

MediaNext ==
    \/ \E f \in Files :
         \/ ClientUploads(f) \/ Link(f) \/ GetsStale(f) \/ Sweep(f)
         \/ \E r \in Requests :
              Uploading(r, f) \/ BeginConfirm(r, f) \/ Handle(r, f) \/ Attaching(r, f)
    \/ \E r \in Requests : UploadRequestDies(r)
    \/ \E m \in queue : SkipTask(m) \/ \E w \in CeleryWorkers : StartTask(w, m)
    \/ \E w \in CeleryWorkers : \E m \in celery[w] : Work(w, m)
    \/ SelectStale \/ ResolveReferenced \/ CleanupDies

MediaSpec == MediaInit /\ [][MediaNext]_mediaVars

\* Time passes, requests and tasks end, messages are delivered, and of the runs of the
\* cleanup, which is started every few minutes, some get to each upload.
MediaFairness ==
    /\ \A f \in Files : WF_mediaVars(GetsStale(f)) /\ SF_mediaVars(Heal(f)) /\ SF_mediaVars(DeleteAbandoned(f))
                                              /\ SF_mediaVars(MarkAbandoned(f))
    /\ \A r \in Requests : WF_mediaVars(UploadRequestDies(r) \/ \E f \in Files : Handle(r, f) \/ CreatePost(r, f))
    /\ WF_mediaVars(\E m \in queue : SkipTask(m) \/ \E w \in CeleryWorkers : StartTask(w, m))
    /\ \A w \in CeleryWorkers : WF_mediaVars(\E m \in celery[w] : Work(w, m))
    /\ SF_mediaVars(SelectStale) /\ SF_mediaVars(ResolveReferenced)

FairMediaSpec == MediaSpec /\ MediaFairness

-----------------------------------------------------------------------------
(* Properties.                                                             *)

MediaTypeOK ==
    /\ upload \in [Files -> Status] /\ stale \in [Files -> BOOLEAN]
    /\ stored \in [Files -> {"none", "original", "optimized"}]
    /\ held \subseteq Files /\ posted \subseteq Files
    /\ \A r \in Requests : request[r].file \subseteq Files
    /\ queue \subseteq [task : Tasks, file : Files, chain : Requests, tries : 0 .. MaxRetries]
    /\ \A w \in CeleryWorkers : Cardinality(celery[w]) <= 1
    /\ cleaner.batch \subseteq Files /\ cleaner.referenced \subseteq cleaner.batch \union held

Orderly == ~ course.late /\ ~ course.twice

\* "Mark processed media READY once every prior pipeline stage has succeeded"
\* (finalize_media_ready): what is ready has an object, an optimized one unless content
\* that used it too early made it ready; and what is posted keeps it.
ReadyIsUsable ==
    Orderly => \A f \in Files :
        /\ upload[f] = "ready" => stored[f] = "optimized" \/ (stored[f] # "none" /\ f \in held)
        /\ f \in posted => upload[f] = "ready"

\* What the client is told at the end does not change: a failed upload does not come back,
\* and nothing takes back one that is ready.
EndedIsFinal ==
    [][Orderly => \A f \in Files : upload[f] \in {"ready", "failed"} => upload'[f] = upload[f]]_mediaVars

\* "Remove abandoned GCS uploads - but never a blob still referenced by content"
\* (cleanup_stale_media_uploads).  An upload that a post holds by its id is not looked for: it is
\* spared because it is ready, which a second confirmation of the upload can take back.
CleanupSparesWhatIsUsed ==
    [][~ course.late => \A f \in held \union (IF course.twice THEN {} ELSE posted) :
         DeleteAbandoned(f) => stored'[f] = stored[f]]_mediaVars

\* Whatever fails or dies, the client that waits for an upload learns of its end.
EveryUploadEnds == \A f \in Files : upload[f] \in Unfinished ~> upload[f] \in {"ready", "failed"}

=============================================================================
