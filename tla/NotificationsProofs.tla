-------------------------- MODULE NotificationsProofs --------------------------
(***************************************************************************)
(* Rows are added, change, and are removed, whatever part is explored;     *)
(* what each part promises follows from an invariant of its own, for any   *)
(* members, posts, rows, retries and cuts.                                 *)
(***************************************************************************)
EXTENDS Notifications, FiniteSetTheorems, TLAPS

Notes ==
    [state : {"none", "active", "deleted", "removed"}, user : SUBSET Receivers, kind : {"post", "like"},
     post : SUBSET NotedPosts, sender : SUBSET Receivers, read : BOOLEAN, recent : BOOLEAN,
     digested : BOOLEAN, count : 0 .. Cardinality(Receivers)]
Fanouts ==
    [state : {"none", "queued", "running", "done", "failed", "lost"}, tries : 0 .. FanoutRetries,
     todo : SUBSET Receivers, skipped : SUBSET Receivers]
LikeStates ==
    [pc : {"idle", "added", "read"}, post : SUBSET NotedPosts, count : 0 .. Cardinality(Receivers),
     found : SUBSET Ids, fresh : BOOLEAN]
DigestStates == [pc : {"idle", "queue", "mark"}, ids : SUBSET Ids]
PageStates ==
    [pc : {"closed", "open", "end"}, of : SUBSET Receivers, read : BOOLEAN, last : 0 .. MaxNotes,
     listed : SUBSET Ids, owed : SUBSET Ids]

LEMMA NotesTypes ==
    NotificationsTypeOK <=>
        /\ note \in [Ids -> Notes] /\ muted \subseteq Receivers \X Receivers /\ off \subseteq Receivers
        /\ gone \subseteq NotedPosts /\ fanout \in [NotedPosts -> Fanouts]
        /\ batch \in [NotedPosts -> SUBSET Receivers] /\ likers \in [NotedPosts -> SUBSET Receivers]
        /\ liking \in [Receivers -> LikeStates] /\ crossed \subseteq NotedPosts /\ digest \in DigestStates
        /\ mailed \in [Ids -> Nat] /\ cuts \in 0 .. MaxCuts /\ page \in PageStates /\ part \in Parts
  BY DEF NotificationsTypeOK, Notes, Fanouts, LikeStates, DigestStates, PageStates

LEMMA NotesTypesNext ==
    NotificationsTypeOK' <=>
        /\ note' \in [Ids -> Notes] /\ muted' \subseteq Receivers \X Receivers /\ off' \subseteq Receivers
        /\ gone' \subseteq NotedPosts /\ fanout' \in [NotedPosts -> Fanouts]
        /\ batch' \in [NotedPosts -> SUBSET Receivers] /\ likers' \in [NotedPosts -> SUBSET Receivers]
        /\ liking' \in [Receivers -> LikeStates] /\ crossed' \subseteq NotedPosts /\ digest' \in DigestStates
        /\ mailed' \in [Ids -> Nat] /\ cuts' \in 0 .. MaxCuts /\ page' \in PageStates /\ part' \in Parts
  BY DEF NotificationsTypeOK, Notes, Fanouts, LikeStates, DigestStates, PageStates

LEMMA ReceiversAreFinite ==
    /\ \A S \in SUBSET Receivers : IsFiniteSet(S) /\ Cardinality(S) \in 0 .. Cardinality(Receivers)
    /\ Cardinality(Receivers) \in Nat
    /\ \A p \in NotedPosts : AuthorOf[p] \in Receivers /\ 1 \in 0 .. Cardinality(Receivers)
<1>1. IsFiniteSet(Receivers) /\ Cardinality(Receivers) \in Nat
  BY FS_CardinalityType, NotificationsAssumption DEF NotificationsAssumption
<1>2. ASSUME NEW S \in SUBSET Receivers
      PROVE  IsFiniteSet(S) /\ Cardinality(S) \in Nat /\ Cardinality(S) <= Cardinality(Receivers)
  BY <1>1, FS_Subset, FS_CardinalityType
<1>3. ASSUME NEW p \in NotedPosts
      PROVE  AuthorOf[p] \in Receivers /\ 1 <= Cardinality(Receivers)
  <2>1. AuthorOf[p] \in Receivers
    BY NotificationsAssumption DEF NotificationsAssumption
  <2>2. Cardinality(Receivers) # 0
    BY <1>1, <2>1, FS_EmptySet
  <2> QED
    BY <1>1, <2>1, <2>2
<1> QED
  BY <1>1, <1>2, <1>3

LEMMA NothingIsNoted ==
    /\ NoNote \in Notes /\ NoTask \in Fanouts /\ NotLiking \in LikeStates /\ NoDigest \in DigestStates
    /\ NoPage \in PageStates
    /\ NoNote.state = "none" /\ NoNote.post = {} /\ ~ NoNote.digested /\ ~ NoNote.recent /\ NoNote.kind = "post"
    /\ NoTask.state = "none" /\ NotLiking.pc = "idle" /\ NotLiking.post = {} /\ NotLiking.found = {}
    /\ NoDigest.pc = "idle" /\ NoDigest.ids = {}
    /\ NoPage.pc = "closed" /\ NoPage.of = {} /\ NoPage.listed = {} /\ NoPage.owed = {}
<1>1. Cardinality(Receivers) \in Nat /\ FanoutRetries \in Nat /\ MaxNotes \in Nat
  BY ReceiversAreFinite, NotificationsAssumption DEF NotificationsAssumption
<1> QED
  BY <1>1 DEF NoNote, NoTask, NotLiking, NoDigest, NoPage, Notes, Fanouts, LikeStates, DigestStates, PageStates

LEMMA NewNoteIsTyped ==
    ASSUME NEW u \in Receivers, NEW kind \in {"post", "like"}, NEW p \in NotedPosts, NEW sender \in Receivers,
           NEW count \in 0 .. Cardinality(Receivers)
    PROVE  LET n == NewNote(u, kind, p, sender, count) IN
           /\ n \in Notes /\ n.state = "active" /\ n.user = {u} /\ n.kind = kind /\ n.post = {p}
           /\ n.recent /\ ~ n.read /\ ~ n.digested /\ n.count = count
  BY DEF NewNote, Notes

\* A row is added where there is none.
LEMMA InsertAdds ==
    ASSUME NotificationsTypeOK, NEW u \in Receivers, NEW kind \in {"post", "like"}, NEW p \in NotedPosts,
           NEW sender \in Receivers, NEW count \in 0 .. Cardinality(Receivers), Insert(u, kind, p, sender, count)
    PROVE  /\ note' \in [Ids -> Notes]
           /\ \E i \in Ids : /\ note[i].state = "none" /\ note'[i] = NewNote(u, kind, p, sender, count)
                             /\ \A j \in Ids \ {i} : note'[j] = note[j]
<1>1. note \in [Ids -> Notes] /\ part.rows \in 1 .. MaxNotes /\ MaxNotes \in Nat
  BY NotesTypes, NotificationsAssumption DEF NotificationsAssumption
<1>2. PICK i \in FreeRows : note' = [note EXCEPT ![i] = NewNote(u, kind, p, sender, count)]
  BY DEF Insert
<1>3. i \in Ids /\ note[i].state = "none"
  BY <1>1, <1>2 DEF FreeRows, Ids
<1> QED
  BY <1>1, <1>2, <1>3, NewNoteIsTyped

-----------------------------------------------------------------------------
(* How rows change.                                                        *)

\* They stay what they are of, and of whom; what is read stays read, what is not active stays so.
Steady ==
    \A i \in Ids :
        /\ note'[i].kind = note[i].kind /\ note'[i].post = note[i].post /\ note'[i].user = note[i].user
        /\ note'[i].recent = note[i].recent /\ (note'[i].state = "none" <=> note[i].state = "none")
        /\ note[i].state = "removed" => note'[i].state = "removed"
        /\ note'[i].state = "active" => note[i].state = "active"
        /\ note[i].read => note'[i].read
SameCounts == \A i \in Ids : note'[i].count = note[i].count /\ note'[i].sender = note[i].sender
SameDigested == \A i \in Ids : note'[i].digested = note[i].digested

Others == UNCHANGED <<muted, off, gone, taskVars, page, part>>

LEMMA SameIsSteady == note' = note => Steady /\ SameCounts /\ SameDigested
  BY DEF Steady, SameCounts, SameDigested

LEMMA ReadOrDeletedIsSteady ==
    ASSUME NotificationsTypeOK, NEW i \in Ids, MarkRead(i) \/ DeleteNote(i)
    PROVE  note' \in [Ids -> Notes] /\ Steady /\ SameCounts /\ SameDigested /\ Others
<1>1. note \in [Ids -> Notes] /\ note[i] \in Notes /\ note[i].state = "active"
  BY NotesTypes DEF MarkRead, DeleteNote, Active
<1>2. PICK n : /\ n = [note[i] EXCEPT !.read = TRUE] \/ n = [note[i] EXCEPT !.state = "deleted"]
               /\ note' = [note EXCEPT ![i] = n]
  BY DEF MarkRead, DeleteNote, Changes
<1>3. /\ n \in Notes /\ n.kind = note[i].kind /\ n.post = note[i].post /\ n.user = note[i].user
      /\ n.recent = note[i].recent /\ n.state # "none" /\ (note[i].read => n.read)
      /\ n.count = note[i].count /\ n.sender = note[i].sender /\ n.digested = note[i].digested
  BY <1>1, <1>2 DEF Notes
<1>4. note' \in [Ids -> Notes] /\ note'[i] = n /\ \A j \in Ids \ {i} : note'[j] = note[j]
  BY <1>1, <1>2, <1>3
<1> HIDE <1>2
<1>5. Steady
  BY <1>1, <1>3, <1>4 DEF Steady
<1>6. SameCounts /\ SameDigested
  BY <1>3, <1>4 DEF SameCounts, SameDigested
<1>7. Others
  BY DEF MarkRead, DeleteNote, Changes, Others
<1> QED
  BY <1>4, <1>5, <1>6, <1>7
LEMMA MarkAllReadIsSteady ==
    ASSUME NotificationsTypeOK, NEW u \in Receivers, MarkAllRead(u)
    PROVE  note' \in [Ids -> Notes] /\ Steady /\ SameCounts /\ SameDigested /\ Others
<1>1. note \in [Ids -> Notes] /\ note' = [i \in Ids |-> IF i \in NotesOf(u) THEN [note[i] EXCEPT !.read = TRUE] ELSE note[i]]
  BY NotesTypes DEF MarkAllRead
<1>2. ASSUME NEW i \in Ids
      PROVE  /\ note'[i] \in Notes /\ note'[i].kind = note[i].kind /\ note'[i].post = note[i].post
             /\ note'[i].user = note[i].user /\ note'[i].recent = note[i].recent /\ note'[i].state = note[i].state
             /\ (note[i].read => note'[i].read) /\ note'[i].count = note[i].count
             /\ note'[i].sender = note[i].sender /\ note'[i].digested = note[i].digested
  BY <1>1 DEF Notes
<1>3. note' \in [Ids -> Notes]
  BY <1>1, <1>2
<1> QED
  BY <1>2, <1>3 DEF Steady, SameCounts, SameDigested, MarkAllRead, Others

LEMMA MarkDigestedIsSteady ==
    ASSUME NotificationsTypeOK, MarkDigested
    PROVE  /\ note' \in [Ids -> Notes] /\ Steady /\ SameCounts
           /\ \A i \in Ids : note'[i].digested <=> i \in digest.ids \/ note[i].digested
<1>1. /\ note \in [Ids -> Notes]
      /\ note' = [i \in Ids |-> IF i \in digest.ids THEN [note[i] EXCEPT !.digested = TRUE] ELSE note[i]]
  BY NotesTypes DEF MarkDigested
<1>2. ASSUME NEW i \in Ids
      PROVE  /\ note'[i] \in Notes /\ note'[i].kind = note[i].kind /\ note'[i].post = note[i].post
             /\ note'[i].user = note[i].user /\ note'[i].recent = note[i].recent /\ note'[i].state = note[i].state
             /\ note'[i].read = note[i].read /\ note'[i].count = note[i].count
             /\ note'[i].sender = note[i].sender /\ (note'[i].digested <=> i \in digest.ids \/ note[i].digested)
  BY <1>1 DEF Notes
<1>3. note' \in [Ids -> Notes]
  BY <1>1, <1>2
<1> QED
  BY <1>2, <1>3 DEF Steady, SameCounts

\* The likes of a post are gathered in the rows that were found.
GathersIn(u) ==
    note' = [i \in Ids |-> IF i \in liking[u].found
                THEN [note[i] EXCEPT !.count = liking[u].count, !.sender = {u}] ELSE note[i]]

LEMMA GatheringIsSteady ==
    ASSUME NotificationsTypeOK, NEW u \in Receivers, GathersIn(u)
    PROVE  /\ note' \in [Ids -> Notes] /\ Steady /\ SameDigested
           /\ \A i \in Ids : /\ note'[i].read = note[i].read
                             /\ note'[i].count = IF i \in liking[u].found THEN liking[u].count ELSE note[i].count
<1>1. note \in [Ids -> Notes] /\ liking[u].count \in 0 .. Cardinality(Receivers)
  BY NotesTypes DEF LikeStates
<1>2. PICK c \in 0 .. Cardinality(Receivers) : c = liking[u].count
  BY <1>1
<1>3. ASSUME NEW i \in Ids
      PROVE  /\ note'[i] \in Notes /\ note'[i].kind = note[i].kind /\ note'[i].post = note[i].post
             /\ note'[i].user = note[i].user /\ note'[i].recent = note[i].recent /\ note'[i].state = note[i].state
             /\ note'[i].read = note[i].read /\ note'[i].digested = note[i].digested
             /\ note'[i].count = IF i \in liking[u].found THEN c ELSE note[i].count
  <2>1. note[i] \in Notes /\ note'[i] = IF i \in liking[u].found THEN [note[i] EXCEPT !.count = c, !.sender = {u}] ELSE note[i]
    BY <1>1, <1>2 DEF GathersIn
  <2> DEFINE n == [note[i] EXCEPT !.count = c, !.sender = {u}]
  <2>2. /\ n \in Notes /\ n.kind = note[i].kind /\ n.post = note[i].post /\ n.user = note[i].user
        /\ n.recent = note[i].recent /\ n.state = note[i].state /\ n.read = note[i].read
        /\ n.digested = note[i].digested /\ n.count = c
    BY <2>1 DEF Notes
  <2> HIDE DEF n
  <2>3. CASE i \in liking[u].found
    BY <2>1, <2>2, <2>3 DEF n
  <2>4. CASE i \notin liking[u].found
    BY <2>1, <2>4
  <2> QED
    BY <2>3, <2>4
<1>4. note' \in [Ids -> Notes]
  BY <1>3 DEF GathersIn
<1> QED
  BY <1>2, <1>3, <1>4 DEF Steady, SameDigested

\* A row that is removed is of nothing any more.
LEMMA CleanUpRemoves ==
    ASSUME NotificationsTypeOK, NEW i \in Ids, CleanUp(i)
    PROVE  /\ note' \in [Ids -> Notes] /\ Others /\ SameDigested /\ ~ note[i].recent /\ note[i].state = "deleted"
           /\ note'[i].state = "removed" /\ note'[i].post = {} /\ note'[i].kind = "post" /\ ~ note'[i].recent
           /\ \A j \in Ids \ {i} : note'[j] = note[j]
<1>1. note \in [Ids -> Notes] /\ note[i] \in Notes /\ note[i].digested \in BOOLEAN
  BY NotesTypes DEF Notes
<1>2. PICK d \in BOOLEAN : d = note[i].digested
  BY <1>1
<1> DEFINE n == [NoNote EXCEPT !.state = "removed", !.digested = d]
<1>3. /\ n \in Notes /\ n.state = "removed" /\ n.post = {} /\ n.kind = "post" /\ ~ n.recent /\ n.digested = d
  BY NothingIsNoted DEF Notes
<1>4. note' = [note EXCEPT ![i] = n] /\ Others /\ ~ note[i].recent /\ note[i].state = "deleted"
  BY <1>2 DEF CleanUp, Changes, Others
<1> HIDE DEF n
<1>5. note' \in [Ids -> Notes] /\ note'[i] = n /\ \A j \in Ids \ {i} : note'[j] = note[j]
  BY <1>1, <1>3, <1>4
<1>6. SameDigested
  BY <1>2, <1>3, <1>5 DEF SameDigested
<1> QED
  BY <1>3, <1>4, <1>5, <1>6

LEMMA GetsOldIsAlone ==
    ASSUME NotificationsTypeOK, NEW i \in Ids, GetsOld(i)
    PROVE  /\ note' \in [Ids -> Notes] /\ Others /\ SameDigested /\ SameCounts
           /\ note'[i].kind = note[i].kind /\ note'[i].post = note[i].post /\ note'[i].user = note[i].user
           /\ note'[i].state = note[i].state /\ note'[i].read = note[i].read
           /\ \A p \in note[i].post : fanout[p].state \notin {"queued", "running"}
           /\ \A j \in Ids \ {i} : note'[j] = note[j]
<1>1. note \in [Ids -> Notes] /\ note[i] \in Notes
  BY NotesTypes
<1> DEFINE n == [note[i] EXCEPT !.recent = FALSE]
<1>2. /\ n \in Notes /\ n.kind = note[i].kind /\ n.post = note[i].post /\ n.user = note[i].user
      /\ n.state = note[i].state /\ n.read = note[i].read /\ n.count = note[i].count
      /\ n.sender = note[i].sender /\ n.digested = note[i].digested
  BY <1>1 DEF Notes
<1>3. /\ note' = [note EXCEPT ![i] = n] /\ Others
      /\ \A p \in note[i].post : fanout[p].state \notin {"queued", "running"}
  BY DEF GetsOld, Changes, Others, Task
<1> HIDE DEF n
<1>4. note' \in [Ids -> Notes] /\ note'[i] = n /\ \A j \in Ids \ {i} : note'[j] = note[j]
  BY <1>1, <1>2, <1>3
<1>5. SameDigested /\ SameCounts
  BY <1>2, <1>4 DEF SameDigested, SameCounts
<1> QED
  BY <1>2, <1>3, <1>4, <1>5
-----------------------------------------------------------------------------
(* Every variable keeps its type.  Each lemma says how its action changes  *)
(* the rows as well.                                                       *)

LEMMA FanoutStepIsTyped ==
    ASSUME NotificationsTypeOK, NEW p \in NotedPosts, NEW task \in Fanouts, Turns(p, task), KeepsTheRest
    PROVE  /\ note' \in [Ids -> Notes] => NotificationsTypeOK'
           /\ fanout'[p] = task /\ \A q \in NotedPosts \ {p} : fanout'[q] = fanout[q]
           /\ digest' = digest /\ mailed' = mailed /\ cuts' = cuts /\ page' = page /\ part' = part
<1>1. /\ muted' = muted /\ off' = off /\ gone' = gone /\ batch' = batch /\ liking' = liking /\ likers' = likers
      /\ crossed' = crossed /\ digest' = digest /\ mailed' = mailed /\ cuts' = cuts /\ page' = page /\ part' = part
  BY DEF KeepsTheRest
<1>2. /\ fanout' \in [NotedPosts -> Fanouts] /\ fanout'[p] = task
      /\ \A q \in NotedPosts \ {p} : fanout'[q] = fanout[q]
  BY NotesTypes DEF Turns
<1> QED
  BY <1>1, <1>2, NotesTypes, NotesTypesNext

\* What a fan-out turns to when nobody is notified.
LEMMA FanoutTurns ==
    ASSUME NotificationsTypeOK, NEW p \in NotedPosts,
           PublishPost(p) \/ StartFanout(p) \/ FinishFanout(p) \/ FailFanout(p) \/ LoseFanout(p)
    PROVE  \E task \in Fanouts :
            /\ Turns(p, task) /\ KeepsTheRest /\ note' = note
            /\ \/ fanout[p].state = "none" /\ task.state = "queued"
               \/ fanout[p].state = "queued" /\ task.state = "running" /\ task.todo = Receivers \ {AuthorOf[p]}
               \/ fanout[p].state = "queued" /\ task.state = "done" /\ task.skipped = Receivers
               \/ /\ fanout[p].state = "running" /\ task.state = "done" /\ fanout[p].todo = {}
                  /\ task.skipped = fanout[p].skipped
               \/ fanout[p].state = "running" /\ task.state \in {"queued", "failed", "lost"}
<1>1. fanout[p] \in Fanouts /\ fanout[p].tries \in 0 .. FanoutRetries /\ FanoutRetries \in Nat
  BY NotesTypes, NotificationsAssumption DEF Fanouts, NotificationsAssumption
<1>2. CASE PublishPost(p)
  <2> DEFINE task == [NoTask EXCEPT !.state = "queued"]
  <2>1. task \in Fanouts /\ task.state = "queued"
    BY NothingIsNoted DEF Fanouts
  <2>2. Turns(p, task) /\ KeepsTheRest /\ note' = note /\ fanout[p].state = "none"
    BY <1>2, NothingIsNoted DEF PublishPost, KeepsTheRest
  <2> HIDE DEF task
  <2> QED
    BY <2>1, <2>2
<1>3. CASE StartFanout(p)
  <2>1. PICK rest \in SUBSET Receivers, nobody \in SUBSET Receivers, everybody \in SUBSET Receivers :
            rest = Receivers \ {AuthorOf[p]} /\ nobody = {} /\ everybody = Receivers
    OBVIOUS
  <2> DEFINE none == [fanout[p] EXCEPT !.state = "done", !.skipped = everybody]
             all == [state |-> "running", tries |-> fanout[p].tries, todo |-> rest, skipped |-> nobody]
  <2>2. none \in Fanouts /\ none.state = "done" /\ none.skipped = everybody
    BY <1>1 DEF Fanouts
  <2>3. all \in Fanouts /\ all.state = "running" /\ all.todo = rest
    BY <1>1 DEF Fanouts
  <2>4. /\ Turns(p, none) \/ Turns(p, all)
        /\ KeepsTheRest /\ note' = note /\ fanout[p].state = "queued"
    BY <1>3, <2>1 DEF StartFanout, Task
  <2> HIDE DEF none, all
  <2> QED
    BY <2>1, <2>2, <2>3, <2>4
<1>4. CASE FinishFanout(p)
  <2> DEFINE task == [fanout[p] EXCEPT !.state = "done"]
  <2>1. task \in Fanouts /\ task.state = "done" /\ task.skipped = fanout[p].skipped
    BY <1>1 DEF Fanouts
  <2>2. Turns(p, task) /\ KeepsTheRest /\ note' = note /\ fanout[p].state = "running" /\ fanout[p].todo = {}
    BY <1>4 DEF FinishFanout, Task
  <2> HIDE DEF task
  <2> QED
    BY <2>1, <2>2
<1>5. CASE FailFanout(p)
  <2> DEFINE again == [state |-> "queued", tries |-> fanout[p].tries + 1, todo |-> {}, skipped |-> fanout[p].skipped]
             fails == [fanout[p] EXCEPT !.state = "failed", !.todo = {}]
  <2>1. fanout[p].tries < FanoutRetries => again \in Fanouts /\ again.state = "queued"
    BY <1>1 DEF Fanouts
  <2>3. fails \in Fanouts /\ fails.state = "failed"
    BY <1>1 DEF Fanouts
  <2>2. /\ (fanout[p].tries < FanoutRetries /\ Turns(p, again)) \/ Turns(p, fails)
        /\ KeepsTheRest /\ note' = note /\ fanout[p].state = "running"
    BY <1>5 DEF FailFanout, Task
  <2> HIDE DEF again, fails
  <2> QED
    BY <2>1, <2>2, <2>3
<1>6. CASE LoseFanout(p)
  <2> DEFINE task == [fanout[p] EXCEPT !.state = "lost", !.todo = {}]
  <2>1. task \in Fanouts /\ task.state = "lost"
    BY <1>1 DEF Fanouts
  <2>2. Turns(p, task) /\ KeepsTheRest /\ note' = note /\ fanout[p].state = "running"
    BY <1>6 DEF LoseFanout, Task
  <2> HIDE DEF task
  <2> QED
    BY <2>1, <2>2
<1> QED
  BY <1>2, <1>3, <1>4, <1>5, <1>6

\* A member is notified, or was before, or does not want to be.
LEMMA NotifyTurns ==
    ASSUME NotificationsTypeOK, NEW p \in NotedPosts, NEW u \in Receivers, NotifyMember(p, u)
    PROVE  \E task \in Fanouts :
            /\ Turns(p, task) /\ KeepsTheRest /\ fanout[p].state = "running" /\ task.state = "running"
            /\ task.todo = fanout[p].todo \ {u}
            /\ \/ Insert(u, "post", p, AuthorOf[p], 1) /\ ~ Duplicate(u, "post", p) /\ task.skipped = fanout[p].skipped
               \/ note' = note /\ Duplicate(u, "post", p) /\ task.skipped = fanout[p].skipped
               \/ note' = note /\ task.skipped = fanout[p].skipped \union {u}
<1>1. fanout[p] \in Fanouts
  BY NotesTypes
<1>2. PICK S : S = IF Wanted(u, AuthorOf[p]) THEN fanout[p].skipped ELSE fanout[p].skipped \union {u}
  OBVIOUS
<1> DEFINE task == [fanout[p] EXCEPT !.todo = @ \ {u}, !.skipped = S]
<1>3. /\ Turns(p, task) /\ KeepsTheRest /\ fanout[p].state = "running"
      /\ IF Wanted(u, AuthorOf[p]) /\ ~ Duplicate(u, "post", p)
         THEN Insert(u, "post", p, AuthorOf[p], 1) ELSE note' = note
  BY <1>2 DEF NotifyMember, Task
<1>4. S \in SUBSET Receivers
  BY <1>1, <1>2 DEF Fanouts
<1>5. task \in Fanouts /\ task.state = fanout[p].state /\ task.todo = fanout[p].todo \ {u} /\ task.skipped = S
  BY <1>1, <1>4 DEF Fanouts
<1> HIDE DEF task
<1> QED
  BY <1>2, <1>3, <1>5

LEMMA FanoutTypes ==
    ASSUME NotificationsTypeOK, Fanout
    PROVE  NotificationsTypeOK'
<1>1. PICK p \in NotedPosts :
        \/ PublishPost(p) \/ StartFanout(p) \/ FinishFanout(p) \/ FailFanout(p) \/ LoseFanout(p)
        \/ \E u \in Receivers : NotifyMember(p, u)
  BY DEF Fanout
<1>2. CASE PublishPost(p) \/ StartFanout(p) \/ FinishFanout(p) \/ FailFanout(p) \/ LoseFanout(p)
  <2>1. PICK task \in Fanouts : Turns(p, task) /\ KeepsTheRest /\ note' = note
    BY <1>2, FanoutTurns
  <2> QED
    BY <2>1, FanoutStepIsTyped, NotesTypes
<1>3. ASSUME NEW u \in Receivers, NotifyMember(p, u)
      PROVE  NotificationsTypeOK'
  <2>1. PICK task \in Fanouts :
            Turns(p, task) /\ KeepsTheRest /\ (note' = note \/ Insert(u, "post", p, AuthorOf[p], 1))
    BY <1>3, NotifyTurns
  <2>2. note' \in [Ids -> Notes]
    BY <2>1, NotesTypes, InsertAdds, ReceiversAreFinite
  <2> QED
    BY <2>1, <2>2, FanoutStepIsTyped
<1> QED
  BY <1>1, <1>2, <1>3
\* The steps of a like, and what they do to its post.
LEMMA AddTurns ==
    ASSUME NotificationsTypeOK, NEW u \in Receivers, NEW p \in NotedPosts, AddLike(u, p)
    PROVE  /\ NotificationsTypeOK' /\ note' = note /\ KeepsOthers /\ liking[u] = NotLiking
           /\ liking'[u].pc = "added" /\ liking'[u].post = {p} /\ liking'[u].found = {}
           /\ \A v \in Receivers \ {u} : liking'[v] = liking[v]
           /\ batch'[p] = batch[p] \union {u} /\ \A q \in NotedPosts \ {p} : batch'[q] = batch[q]
           /\ likers'[p] = likers[p] \union {u} /\ \A q \in NotedPosts \ {p} : likers'[q] = likers[q]
           /\ crossed' = IF LikesOf(p) = {} THEN crossed ELSE crossed \union {p}
<1> DEFINE likes == [NotLiking EXCEPT !.pc = "added", !.post = {p}]
<1>1. /\ liking \in [Receivers -> LikeStates] /\ batch \in [NotedPosts -> SUBSET Receivers]
      /\ likers \in [NotedPosts -> SUBSET Receivers] /\ crossed \subseteq NotedPosts
  BY NotesTypes
<1>2. likes \in LikeStates /\ likes.pc = "added" /\ likes.post = {p} /\ likes.found = {}
  BY NothingIsNoted DEF LikeStates
<1>3. /\ liking' = [liking EXCEPT ![u] = likes] /\ note' = note /\ KeepsOthers /\ liking[u] = NotLiking
      /\ batch' = [batch EXCEPT ![p] = @ \union {u}] /\ likers' = [likers EXCEPT ![p] = @ \union {u}]
      /\ crossed' = IF LikesOf(p) = {} THEN crossed ELSE crossed \union {p}
  BY DEF AddLike, Likes
<1> HIDE DEF likes
<1>4. /\ liking' \in [Receivers -> LikeStates] /\ batch' \in [NotedPosts -> SUBSET Receivers]
      /\ likers' \in [NotedPosts -> SUBSET Receivers] /\ crossed' \subseteq NotedPosts
  BY <1>1, <1>2, <1>3
<1>5. NotificationsTypeOK'
  BY <1>3, <1>4, NotesTypes, NotesTypesNext DEF KeepsOthers
<1> QED
  BY <1>1, <1>2, <1>3, <1>5

LEMMA ReadTurns ==
    ASSUME NotificationsTypeOK, NEW u \in Receivers, ReadLikes(u)
    PROVE  \E p \in liking[u].post :
            /\ p \in NotedPosts /\ NotificationsTypeOK' /\ note' = note /\ KeepsOthers
            /\ liking[u].pc = "added" /\ liking'[u].pc = "read" /\ liking'[u].post = {p}
            /\ liking'[u].count = Cardinality(batch[p]) /\ liking'[u].found = Newest(Unread(p))
            /\ \A v \in Receivers \ {u} : liking'[v] = liking[v]
            /\ batch' = batch /\ likers' = likers /\ crossed' = crossed
<1>1. liking \in [Receivers -> LikeStates] /\ batch \in [NotedPosts -> SUBSET Receivers] /\ liking[u].post \subseteq NotedPosts
  BY NotesTypes DEF LikeStates
<1>2. PICK p \in liking[u].post :
        Likes(u, [pc |-> "read", post |-> {p}, count |-> Cardinality(batch[p]),
                  found |-> Newest(Unread(p)), fresh |-> ~ Duplicate(AuthorOf[p], "like", p)])
  BY DEF ReadLikes
<1>3. p \in NotedPosts /\ Cardinality(batch[p]) \in 0 .. Cardinality(Receivers) /\ Newest(Unread(p)) \subseteq Ids
  BY <1>1, ReceiversAreFinite DEF Newest, Unread
<1>4. PICK c \in 0 .. Cardinality(Receivers), f \in SUBSET Ids, b \in BOOLEAN :
        c = Cardinality(batch[p]) /\ f = Newest(Unread(p)) /\ b = (~ Duplicate(AuthorOf[p], "like", p))
  BY <1>3
<1> DEFINE likes == [pc |-> "read", post |-> {p}, count |-> c, found |-> f, fresh |-> b]
<1>5. likes \in LikeStates /\ likes.pc = "read" /\ likes.post = {p} /\ likes.count = c /\ likes.found = f
  BY <1>3 DEF LikeStates
<1>6. /\ liking' = [liking EXCEPT ![u] = likes] /\ note' = note /\ KeepsOthers /\ liking[u].pc = "added"
      /\ batch' = batch /\ likers' = likers /\ crossed' = crossed
  BY <1>2, <1>4 DEF ReadLikes, Likes
<1> HIDE DEF likes
<1>7. liking' \in [Receivers -> LikeStates] /\ liking'[u] = likes /\ \A v \in Receivers \ {u} : liking'[v] = liking[v]
  BY <1>1, <1>5, <1>6
<1>8. NotificationsTypeOK'
  BY <1>6, <1>7, NotesTypes, NotesTypesNext DEF KeepsOthers
<1> QED
  BY <1>3, <1>4, <1>5, <1>6, <1>7, <1>8

LEMMA CommitTurns ==
    ASSUME NotificationsTypeOK, NEW u \in Receivers, CommitLike(u)
    PROVE  \E p \in liking[u].post :
            /\ p \in NotedPosts /\ NotificationsTypeOK' /\ KeepsOthers /\ liking[u].pc = "read"
            /\ liking'[u] = NotLiking /\ \A v \in Receivers \ {u} : liking'[v] = liking[v]
            /\ batch' = batch /\ likers' = likers /\ crossed' = crossed
            /\ liking[u].count \in 0 .. Cardinality(Receivers)
            /\ \/ GathersIn(u)
               \/ liking[u].found = {} /\ Insert(AuthorOf[p], "like", p, u, liking[u].count)
               \/ note' = note
<1>1. /\ liking \in [Receivers -> LikeStates] /\ liking[u].post \subseteq NotedPosts
      /\ liking[u].count \in 0 .. Cardinality(Receivers)
  BY NotesTypes DEF LikeStates
<1>2. PICK p \in liking[u].post :
        \/ GathersIn(u)
        \/ liking[u].found = {} /\ Insert(AuthorOf[p], "like", p, u, liking[u].count)
        \/ note' = note
  BY DEF CommitLike, GathersIn
<1>3. p \in NotedPosts /\ AuthorOf[p] \in Receivers
  BY <1>1, ReceiversAreFinite
<1>4. /\ liking' = [liking EXCEPT ![u] = NotLiking] /\ KeepsOthers /\ liking[u].pc = "read"
      /\ batch' = batch /\ likers' = likers /\ crossed' = crossed
  BY DEF CommitLike, Likes
<1>5. /\ liking' \in [Receivers -> LikeStates] /\ liking'[u] = NotLiking
      /\ \A v \in Receivers \ {u} : liking'[v] = liking[v]
  BY <1>1, <1>4, NothingIsNoted
<1>6. note' \in [Ids -> Notes]
  <2>1. PICK c \in 0 .. Cardinality(Receivers) : c = liking[u].count
    BY <1>1
  <2>2. CASE GathersIn(u)
    BY <2>2, GatheringIsSteady
  <2>3. CASE Insert(AuthorOf[p], "like", p, u, liking[u].count)
    BY <1>3, <2>1, <2>3, InsertAdds
  <2>4. CASE note' = note
    BY <2>4, NotesTypes
  <2> QED
    BY <1>2, <2>2, <2>3, <2>4
<1>7. NotificationsTypeOK'
  BY <1>4, <1>5, <1>6, NotesTypes, NotesTypesNext DEF KeepsOthers
<1> QED
  BY <1>1, <1>2, <1>3, <1>4, <1>5, <1>7

LEMMA WindowTurns ==
    ASSUME NotificationsTypeOK, NEW p \in NotedPosts, WindowEnds(p)
    PROVE  /\ NotificationsTypeOK' /\ note' = note /\ KeepsOthers
           /\ liking' = liking /\ likers' = likers /\ crossed' = crossed
           /\ batch'[p] = {} /\ \A q \in NotedPosts \ {p} : batch'[q] = batch[q]
<1>1. /\ note' = note /\ KeepsOthers /\ liking' = liking /\ likers' = likers /\ crossed' = crossed
      /\ batch' = [batch EXCEPT ![p] = {}]
  BY DEF WindowEnds
<1>2. batch' \in [NotedPosts -> SUBSET Receivers]
  BY <1>1, NotesTypes
<1>3. NotificationsTypeOK'
  BY <1>1, <1>2, NotesTypes, NotesTypesNext DEF KeepsOthers
<1> QED
  BY <1>1, <1>3, NotesTypes

LEMMA LikeStepsAreTyped ==
    ASSUME NotificationsTypeOK, LikeSteps
    PROVE  NotificationsTypeOK' /\ KeepsOthers
<1>1. ASSUME NEW u \in Receivers, NEW p \in NotedPosts, AddLike(u, p) PROVE NotificationsTypeOK' /\ KeepsOthers
  BY <1>1, AddTurns
<1>2. ASSUME NEW u \in Receivers, ReadLikes(u) PROVE NotificationsTypeOK' /\ KeepsOthers
  BY <1>2, ReadTurns
<1>3. ASSUME NEW u \in Receivers, CommitLike(u) PROVE NotificationsTypeOK' /\ KeepsOthers
  BY <1>3, CommitTurns
<1>4. ASSUME NEW p \in NotedPosts, WindowEnds(p) PROVE NotificationsTypeOK' /\ KeepsOthers
  BY <1>4, WindowTurns
<1> QED
  BY <1>1, <1>2, <1>3, <1>4 DEF LikeSteps, Liking
LEMMA DigestIsTyped ==
    ASSUME NotificationsTypeOK, Digest
    PROVE  NotificationsTypeOK' /\ KeepsAll
<1>1. /\ note \in [Ids -> Notes] /\ digest \in DigestStates /\ mailed \in [Ids -> Nat] /\ cuts \in 0 .. MaxCuts
      /\ MaxCuts \in Nat
  BY NotesTypes, NotificationsAssumption DEF NotificationsAssumption
<1>2. KeepsAll
  BY DEF Digest, FetchDigest, QueueDigest, MarkDigested, CutDigest
<1>3. ASSUME NEW u \in Receivers, FetchDigest(u)
      PROVE  note' \in [Ids -> Notes] /\ digest' \in DigestStates /\ mailed' \in [Ids -> Nat] /\ cuts' \in 0 .. MaxCuts
  <2>1. Undigested(u) \in SUBSET Ids
    BY DEF Undigested, NotesOf
  <2> QED
    BY <1>1, <1>3, <2>1 DEF FetchDigest, DigestStates
<1>4. CASE QueueDigest
  <2>1. digest' = [pc |-> "mark", ids |-> digest.ids] /\ digest.ids \in SUBSET Ids
    BY <1>1, <1>4 DEF QueueDigest, DigestStates
  <2>2. digest' \in DigestStates
    BY <2>1 DEF DigestStates
  <2>3. mailed' \in [Ids -> Nat]
    BY <1>1, <1>4 DEF QueueDigest
  <2> QED
    BY <1>1, <1>2, <1>4, <2>2, <2>3, NotesTypes, NotesTypesNext DEF KeepsAll, QueueDigest
<1>5. CASE MarkDigested
  BY <1>1, <1>2, <1>5, MarkDigestedIsSteady, NothingIsNoted, NotesTypes, NotesTypesNext DEF KeepsAll, MarkDigested
<1>6. CASE CutDigest
  <2>1. digest' = NoDigest /\ cuts' \in 0 .. MaxCuts /\ note' = note /\ mailed' = mailed
    BY <1>1, <1>6 DEF CutDigest
  <2> QED
    BY <1>1, <1>2, <2>1, NothingIsNoted, NotesTypes, NotesTypesNext DEF KeepsAll
<1> QED
  BY <1>2, <1>3, <1>4, <1>5, <1>6, NotesTypes, NotesTypesNext DEF KeepsAll, Digest

\* What is shown of the rows that are to come: nothing, or the first of them.
LEMMA ShowsTurns ==
    ASSUME NotificationsTypeOK, NEW u \in Receivers, NEW S \in SUBSET Ids, NEW owed \in SUBSET Ids, Shows(u, S, owed)
    PROVE  /\ page' \in PageStates /\ page'.of = {u} /\ page'.owed = owed /\ page'.pc \in {"open", "end"}
           /\ \/ S = {} /\ page'.pc = "end" /\ page'.listed = page.listed
              \/ \E last \in FirstOf(S) :
                    /\ \A i \in FirstOf(S) \ {last} : Before(i, last)
                    /\ page'.pc = "end" => FirstOf(S) = S
                    /\ page'.read = note[last].read /\ page'.last = last
                    /\ page'.listed = page.listed \union FirstOf(S)
<1>1. note \in [Ids -> Notes] /\ page \in PageStates /\ page.listed \in SUBSET Ids /\ MaxNotes \in Nat
  BY NotesTypes, NotificationsAssumption DEF PageStates, NotificationsAssumption
<1>2. CASE S = {} /\ page' = [pc |-> "end", of |-> {u}, read |-> FALSE, last |-> 0, listed |-> page.listed, owed |-> owed]
  BY <1>1, <1>2 DEF PageStates
<1>3. ASSUME NEW last \in FirstOf(S), \A i \in FirstOf(S) \ {last} : Before(i, last),
             page' = [pc |-> IF FirstOf(S) = S THEN "end" ELSE "open", of |-> {u}, read |-> note[last].read,
                      last |-> last, listed |-> page.listed \union FirstOf(S), owed |-> owed]
      PROVE  /\ page' \in PageStates /\ page'.of = {u} /\ page'.owed = owed /\ page'.pc \in {"open", "end"}
             /\ page'.pc = "end" => FirstOf(S) = S
             /\ page'.read = note[last].read /\ page'.last = last
             /\ page'.listed = page.listed \union FirstOf(S)
  <2>1. last \in Ids /\ FirstOf(S) \in SUBSET Ids
    BY DEF FirstOf
  <2>2. last \in 0 .. MaxNotes /\ note[last].read \in BOOLEAN
    BY <1>1, <2>1 DEF Ids, Notes
  <2>3. PICK b \in BOOLEAN, pc \in {"open", "end"}, L \in SUBSET Ids :
            b = note[last].read /\ pc = (IF FirstOf(S) = S THEN "end" ELSE "open") /\ L = page.listed \union FirstOf(S)
    BY <1>1, <2>1, <2>2
  <2>4. page' = [pc |-> pc, of |-> {u}, read |-> b, last |-> last, listed |-> L, owed |-> owed]
    BY <1>3, <2>3
  <2>5. /\ page' \in PageStates /\ page'.of = {u} /\ page'.owed = owed /\ page'.pc = pc
        /\ page'.read = b /\ page'.last = last /\ page'.listed = L
    BY <2>2, <2>4 DEF PageStates
  <2> QED
    BY <2>3, <2>5
<1> QED
  BY <1>2, <1>3 DEF Shows

LEMMA PagesAreTyped ==
    ASSUME NotificationsTypeOK, NEW u \in Receivers, FirstPage(u) \/ NextPage(u)
    PROVE  NotificationsTypeOK' /\ KeepsRows
<1>1. /\ Visible(u) \in SUBSET Ids /\ After(u) \in SUBSET Ids /\ page.owed \in SUBSET Ids
  BY NotesTypes DEF Visible, After, NotesOf, PageStates
<1>2. PICK S \in SUBSET Ids, owed \in SUBSET Ids : Shows(u, S, owed)
  BY <1>1 DEF FirstPage, NextPage
<1>3. KeepsRows
  BY DEF FirstPage, NextPage
<1>4. page' \in PageStates
  BY <1>2, ShowsTurns
<1> QED
  BY <1>3, <1>4, NotesTypes, NotesTypesNext DEF KeepsRows, taskVars

LEMMA OthersAreTyped ==
    ASSUME NotificationsTypeOK, note' \in [Ids -> Notes], Others
    PROVE  NotificationsTypeOK'
  BY NotesTypes, NotesTypesNext DEF Others, taskVars

\* A recipient mutes senders, and is not owed what they sent.
LEMMA MutesTurn ==
    ASSUME NotificationsTypeOK, NEW u \in Receivers, NEW senders \in SUBSET Receivers, UpdateMutes(u, senders)
    PROVE  /\ NotificationsTypeOK' /\ UNCHANGED <<note, off, gone, taskVars, part>>
           /\ \A v \in Receivers \ {u} : \A s : <<v, s>> \in muted' <=> <<v, s>> \in muted
           /\ page'.pc = page.pc /\ page'.of = page.of /\ page'.read = page.read /\ page'.last = page.last
           /\ page'.listed = page.listed /\ page'.owed \subseteq page.owed
           /\ page.of = {u} => \A i \in page'.owed : \A s \in note[i].sender : <<u, s>> \notin muted'
           /\ page.of # {u} => page' = page
<1>1. muted \subseteq Receivers \X Receivers /\ page \in PageStates
  BY NotesTypes
<1>2. /\ muted' = {m \in muted : m[1] # u} \union {<<u, s>> : s \in senders \ {u}}
      /\ UNCHANGED <<note, off, gone, taskVars, part>>
      /\ page' = IF page.of # {u} THEN page
                 ELSE [page EXCEPT !.owed = {i \in @ : \A s \in note[i].sender : <<u, s>> \notin muted'}]
  BY DEF UpdateMutes
<1>3. muted' \subseteq Receivers \X Receivers
  BY <1>1, <1>2
<1>4. ASSUME NEW v \in Receivers \ {u}, NEW s
      PROVE  <<v, s>> \in muted' <=> <<v, s>> \in muted
  BY <1>1, <1>2
<1>5. PICK owed : owed = {i \in page.owed : \A s \in note[i].sender : <<u, s>> \notin muted'}
  OBVIOUS
<1>6. page.owed \in SUBSET Ids /\ owed \in SUBSET Ids
  BY <1>1, <1>5 DEF PageStates
<1>7. CASE page.of # {u}
  BY <1>1, <1>2, <1>3, <1>4, <1>7, NotesTypes, NotesTypesNext DEF taskVars
<1>8. CASE page.of = {u}
  <2>1. page' = [page EXCEPT !.owed = owed]
    BY <1>2, <1>5, <1>8
  <2>2. /\ page' \in PageStates /\ page'.pc = page.pc /\ page'.of = page.of /\ page'.read = page.read
        /\ page'.last = page.last /\ page'.listed = page.listed /\ page'.owed = owed
    BY <1>1, <1>6, <2>1 DEF PageStates
  <2> QED
    BY <1>2, <1>3, <1>4, <1>5, <1>8, <2>2, NotesTypes, NotesTypesNext DEF taskVars
<1> QED
  BY <1>7, <1>8

\* The parts in which something else notifies a recipient.
LEMMA ReceivesAdds ==
    ASSUME NotificationsTypeOK, NEW r \in part.receives, Receives(r[1], r[2])
    PROVE  /\ note' \in [Ids -> Notes] /\ Others /\ part.name \in {"digest", "pages"}
           /\ \E p \in NotedPosts, i \in Ids :
                /\ note[i].state = "none" /\ note'[i] = NewNote(r[1], "like", p, r[2], 1) /\ r[1] \in Receivers
                /\ r[2] \in Receivers /\ \A j \in Ids \ {i} : note'[j] = note[j]
<1>1. /\ part \in Parts /\ part.receives \subseteq Receivers \X Receivers
      /\ part.receives # {} => part.name \in {"digest", "pages"}
  BY NotesTypes, NotificationsAssumption DEF NotificationsAssumption
<1>2. r[1] \in Receivers /\ r[2] \in Receivers
  BY <1>1
<1>3. PICK p \in NotedPosts : Insert(r[1], "like", p, r[2], 1)
  BY DEF Receives
<1>4. 1 \in 0 .. Cardinality(Receivers) /\ "like" \in {"post", "like"}
  BY ReceiversAreFinite
<1>5. /\ note' \in [Ids -> Notes]
      /\ \E i \in Ids : /\ note[i].state = "none" /\ note'[i] = NewNote(r[1], "like", p, r[2], 1)
                        /\ \A j \in Ids \ {i} : note'[j] = note[j]
  BY <1>2, <1>3, <1>4, InsertAdds
<1> QED
  BY <1>1, <1>2, <1>5 DEF Receives, Others

\* What recipients and time do.
LEMMA RecipientsTurn ==
    ASSUME NotificationsTypeOK, Recipients
    PROVE  /\ NotificationsTypeOK'
           /\ \/ Steady /\ SameCounts /\ SameDigested /\ Others
              \/ \E i \in Ids : CleanUp(i)
              \/ \E i \in Ids : GetsOld(i)
              \/ \E u \in Receivers, senders \in SUBSET Receivers : UpdateMutes(u, senders)
              \/ note' = note /\ UNCHANGED <<muted, taskVars, page, part>>
              \/ \E r \in part.receives : Receives(r[1], r[2])
<1>1. part.choosy \subseteq Receivers
  BY NotesTypes, NotificationsAssumption DEF NotificationsAssumption
<1>2. ASSUME NEW i \in Ids, MarkRead(i) \/ DeleteNote(i)
      PROVE  NotificationsTypeOK' /\ Steady /\ SameCounts /\ SameDigested /\ Others
  BY <1>2, ReadOrDeletedIsSteady, OthersAreTyped
<1>3. ASSUME NEW u \in Receivers, MarkAllRead(u)
      PROVE  NotificationsTypeOK' /\ Steady /\ SameCounts /\ SameDigested /\ Others
  BY <1>3, MarkAllReadIsSteady, OthersAreTyped
<1>4. ASSUME NEW i \in Ids, CleanUp(i) PROVE NotificationsTypeOK'
  BY <1>4, CleanUpRemoves, OthersAreTyped
<1>5. ASSUME NEW i \in Ids, GetsOld(i) PROVE NotificationsTypeOK'
  BY <1>5, GetsOldIsAlone, OthersAreTyped
<1>6. ASSUME NEW u \in part.choosy, UpdatePreferences(u)
      PROVE  NotificationsTypeOK' /\ note' = note /\ UNCHANGED <<muted, taskVars, page, part>>
  <2>1. off' \subseteq Receivers /\ note' = note /\ UNCHANGED <<muted, gone, taskVars, page, part>>
    BY <1>1, <1>6, NotesTypes DEF UpdatePreferences
  <2> QED
    BY <2>1, NotesTypes, NotesTypesNext DEF taskVars
<1>7. ASSUME NEW p \in NotedPosts, DeleteNotedPost(p)
      PROVE  NotificationsTypeOK' /\ note' = note /\ UNCHANGED <<muted, taskVars, page, part>>
  <2>1. gone' \subseteq NotedPosts /\ note' = note /\ UNCHANGED <<muted, off, taskVars, page, part>>
    BY <1>7, NotesTypes DEF DeleteNotedPost
  <2> QED
    BY <2>1, NotesTypes, NotesTypesNext DEF taskVars
<1>8. ASSUME NEW u \in part.choosy, NEW senders \in SUBSET Receivers, UpdateMutes(u, senders)
      PROVE  NotificationsTypeOK' /\ \E v \in Receivers, S \in SUBSET Receivers : UpdateMutes(v, S)
  BY <1>1, <1>8, MutesTurn
<1>9. ASSUME NEW r \in part.receives, Receives(r[1], r[2]) PROVE NotificationsTypeOK'
  BY <1>9, ReceivesAdds, OthersAreTyped
<1> QED
  BY <1>2, <1>3, <1>4, <1>5, <1>6, <1>7, <1>8, <1>9 DEF Recipients

LEMMA NotificationsInitTyped == NotificationsInit => NotificationsTypeOK
<1> SUFFICES ASSUME NotificationsInit PROVE NotificationsTypeOK
  OBVIOUS
<1>1. part \in Parts /\ muted \subseteq Receivers \X Receivers
  <2>1. part \in Parts /\ muted \subseteq part.mutes
    BY DEF NotificationsInit
  <2>2. part.mutes \subseteq Receivers \X Receivers
    BY <2>1, NotificationsAssumption DEF NotificationsAssumption
  <2> QED
    BY <2>1, <2>2
<1>2. cuts \in 0 .. MaxCuts /\ mailed \in [Ids -> Nat]
  BY NotificationsAssumption DEF NotificationsInit, NotificationsAssumption
<1>3. batch \in [NotedPosts -> SUBSET Receivers] /\ likers \in [NotedPosts -> SUBSET Receivers]
  BY DEF NotificationsInit
<1>4. /\ note \in [Ids -> Notes] /\ fanout \in [NotedPosts -> Fanouts] /\ liking \in [Receivers -> LikeStates]
      /\ digest \in DigestStates /\ page \in PageStates
  BY NothingIsNoted DEF NotificationsInit
<1> QED
  BY <1>1, <1>2, <1>3, <1>4, NotesTypes DEF NotificationsInit

LEMMA NotificationsStepTyped == NotificationsTypeOK /\ [NotificationsNext]_noteVars => NotificationsTypeOK'
<1> SUFFICES ASSUME NotificationsTypeOK, [NotificationsNext]_noteVars PROVE NotificationsTypeOK'
  OBVIOUS
<1>1. CASE Fanout
  BY <1>1, FanoutTypes
<1>2. CASE LikeSteps
  BY <1>2, LikeStepsAreTyped
<1>3. CASE Digest
  BY <1>3, DigestIsTyped
<1>4. ASSUME NEW u \in Receivers, FirstPage(u) \/ NextPage(u) PROVE NotificationsTypeOK'
  BY <1>4, PagesAreTyped
<1>5. CASE Recipients
  BY <1>5, RecipientsTurn
<1>6. CASE UNCHANGED noteVars
  BY <1>6, NotesTypes, NotesTypesNext DEF noteVars, taskVars
<1> QED
  BY <1>1, <1>2, <1>3, <1>4, <1>5, <1>6 DEF NotificationsNext
-----------------------------------------------------------------------------
(* What the rows, and each of the parts, keep to.                          *)

UnusedAreBlank == \A i \in Ids : note[i].state = "none" => note[i].post = {}

\* Nobody is told twice, since a row stays recent while its fan-out may be tried again;
\* whom a try has passed was told, or did not want to be.
SomeRemoved == \E i \in Ids : note[i].state = "removed"
Reached(p, u) == ToldOf(p, u) # {} \/ u \in fanout[p].skipped \/ SomeRemoved
FanoutOf(p) ==
    /\ fanout[p].state = "none" => \A u \in Receivers : ToldOf(p, u) = {}
    /\ fanout[p].state \in {"queued", "running"} => \A u \in Receivers : \A i \in ToldOf(p, u) : note[i].recent
    /\ \A u \in Receivers : \A i, j \in ToldOf(p, u) : i = j
    /\ fanout[p].state = "running" => \A u \in (Receivers \ {AuthorOf[p]}) \ fanout[p].todo : Reached(p, u)
    /\ fanout[p].state = "done" => \A u \in Receivers \ {AuthorOf[p]} : Reached(p, u)
FanoutsInvariant == \A p \in NotedPosts : FanoutOf(p)

\* A like that found no row to gather in is, unless it crossed another, the only one that may add one.
LikeOf(p, u) ==
    /\ liking[u].pc \in {"added", "read"}
    /\ liking[u].pc = "read" =>
        /\ liking[u].count <= Cardinality(likers[p])
        /\ \A i \in liking[u].found : note[i].state # "none" /\ note[i].post \subseteq {p}
        /\ p \notin crossed /\ liking[u].found = {} => Unread(p) = {}
LikesAt(p) ==
    /\ batch[p] \subseteq likers[p]
    /\ \A i \in Unread(p) : note[i].count <= Cardinality(likers[p])
    /\ p \notin crossed => \A u, v \in LikesOf(p) : u = v
    /\ p \notin crossed => \A i, j \in Unread(p) : i = j
    /\ \A u \in LikesOf(p) : LikeOf(p, u)
LikesInvariant ==
    part.name = "likes" =>
        /\ \A p \in NotedPosts : LikesAt(p)
        /\ \A u \in Receivers : \A p \in liking[u].post : liking[u].post = {p}

\* Each cut can make a row be sent once more.
Sent(i) == note[i].digested \/ (digest.pc = "mark" /\ i \in digest.ids)
DigestOf(i) ==
    /\ note[i].state = "none" => mailed[i] = 0 /\ i \notin digest.ids
    /\ i \in digest.ids => ~ note[i].digested
    /\ Sent(i) => mailed[i] > 0
    /\ mailed[i] <= cuts + (IF Sent(i) THEN 1 ELSE 0)
DigestInvariant == (digest.pc = "idle" => digest.ids = {}) /\ \A i \in Ids : DigestOf(i)

\* What the recipient is owed was listed, or comes after the last row that was.
OwedTo(u, i) ==
    /\ note[i].state # "none"
    /\ i \in NotesOf(u) => i \in Visible(u) /\ (i \in page.listed \/ (page.pc = "open" /\ i \in After(u)))
PagesInvariant ==
    /\ page.pc = "closed" \/ part.name # "pages" => page = NoPage
    /\ page.pc # "closed" => \E u \in Receivers : page.of = {u}
    /\ \A u \in page.of : \A i \in page.owed : OwedTo(u, i)

NotificationsInvariant ==
    NotificationsTypeOK /\ UnusedAreBlank /\ FanoutsInvariant /\ LikesInvariant /\ DigestInvariant /\ PagesInvariant
-----------------------------------------------------------------------------
(* How every step changes the rows.                                        *)

Adds(i, u, kind, p, sender, count) ==
    /\ note[i].state = "none" /\ note'[i] = NewNote(u, kind, p, sender, count)
    /\ \A j \in Ids \ {i} : note'[j] = note[j]

AddsSome(kind) ==
    \E i \in Ids, u \in Receivers, p \in NotedPosts, sender \in Receivers, count \in 0 .. Cardinality(Receivers) :
        Adds(i, u, kind, p, sender, count)

LEMMA InsertIsAdding ==
    ASSUME NotificationsTypeOK, NEW u \in Receivers, NEW kind \in {"post", "like"}, NEW p \in NotedPosts,
           NEW sender \in Receivers, NEW count \in 0 .. Cardinality(Receivers), Insert(u, kind, p, sender, count)
    PROVE  (\E i \in Ids : Adds(i, u, kind, p, sender, count)) /\ AddsSome(kind)
  BY InsertAdds DEF Adds, AddsSome

LEMMA RecipientRows ==
    ASSUME NotificationsTypeOK, Recipients
    PROVE  /\ Steady \/ (\E i \in Ids : CleanUp(i)) \/ (\E i \in Ids : GetsOld(i)) \/ AddsSome("like")
           /\ UNCHANGED taskVars /\ part' = part
<1>1. ASSUME NEW i \in Ids, CleanUp(i) \/ GetsOld(i) PROVE UNCHANGED taskVars /\ part' = part
  BY <1>1, CleanUpRemoves, GetsOldIsAlone DEF Others
<1>2. ASSUME NEW u \in Receivers, NEW senders \in SUBSET Receivers, UpdateMutes(u, senders)
      PROVE  Steady /\ UNCHANGED taskVars /\ part' = part
  BY <1>2, MutesTurn, SameIsSteady
<1>3. ASSUME NEW r \in part.receives, Receives(r[1], r[2])
      PROVE  AddsSome("like") /\ UNCHANGED taskVars /\ part' = part
  <2>1. 1 \in 0 .. Cardinality(Receivers)
    BY <1>3, ReceivesAdds, ReceiversAreFinite
  <2> QED
    BY <1>3, <2>1, ReceivesAdds DEF AddsSome, Adds, Others
<1> QED
  BY <1>1, <1>2, <1>3, RecipientsTurn, SameIsSteady DEF Others

LEMMA LikeRows ==
    ASSUME NotificationsTypeOK, LikeSteps
    PROVE  Steady \/ AddsSome("like")
<1>1. ASSUME NEW u \in Receivers, CommitLike(u) PROVE Steady \/ AddsSome("like")
  <2>1. PICK p \in liking[u].post :
            /\ p \in NotedPosts /\ liking[u].count \in 0 .. Cardinality(Receivers)
            /\ GathersIn(u) \/ Insert(AuthorOf[p], "like", p, u, liking[u].count) \/ note' = note
    BY <1>1, CommitTurns
  <2>2. PICK c \in 0 .. Cardinality(Receivers), a \in Receivers : c = liking[u].count /\ a = AuthorOf[p]
    BY <2>1, ReceiversAreFinite
  <2>3. ASSUME Insert(a, "like", p, u, c) PROVE AddsSome("like")
    BY <2>1, <2>3, InsertIsAdding
  <2> QED
    BY <2>1, <2>2, <2>3, GatheringIsSteady, SameIsSteady
<1> QED
  BY <1>1, AddTurns, ReadTurns, WindowTurns, SameIsSteady DEF LikeSteps, Liking

LEMMA DigestRows ==
    ASSUME NotificationsTypeOK, Digest
    PROVE  Steady /\ SameCounts
  BY MarkDigestedIsSteady, SameIsSteady DEF Digest, FetchDigest, QueueDigest, CutDigest

LEMMA FanoutRows ==
    ASSUME NotificationsTypeOK, Fanout
    PROVE  KeepsTheRest /\ (note' = note \/ AddsSome("post"))
<1>1. PICK p \in NotedPosts :
        \/ PublishPost(p) \/ StartFanout(p) \/ FinishFanout(p) \/ FailFanout(p) \/ LoseFanout(p)
        \/ \E u \in Receivers : NotifyMember(p, u)
  BY DEF Fanout
<1>2. ASSUME NEW u \in Receivers, NotifyMember(p, u) PROVE KeepsTheRest /\ (note' = note \/ AddsSome("post"))
  <2>1. 1 \in 0 .. Cardinality(Receivers) /\ AuthorOf[p] \in Receivers
    BY ReceiversAreFinite
  <2>2. KeepsTheRest /\ (note' = note \/ Insert(u, "post", p, AuthorOf[p], 1))
    BY <1>2, NotifyTurns
  <2> QED
    BY <2>1, <2>2, InsertIsAdding
<1> QED
  BY <1>1, <1>2, FanoutTurns

LEMMA AddingFillsTheRow ==
    ASSUME NEW i \in Ids, NEW u \in Receivers, NEW kind \in {"post", "like"}, NEW p \in NotedPosts,
           NEW sender \in Receivers, NEW count \in 0 .. Cardinality(Receivers), Adds(i, u, kind, p, sender, count)
    PROVE  /\ note[i].state = "none" /\ note'[i].state = "active" /\ note'[i].user = {u} /\ note'[i].kind = kind
           /\ note'[i].post = {p} /\ note'[i].recent /\ ~ note'[i].read /\ ~ note'[i].digested
           /\ note'[i].count = count /\ \A j \in Ids \ {i} : note'[j] = note[j]
  BY NewNoteIsTyped DEF Adds

LEMMA UnusedStayBlank ==
    ASSUME NotificationsTypeOK, UnusedAreBlank, [NotificationsNext]_noteVars
    PROVE  UnusedAreBlank'
<1>1. \/ Steady \/ (\E i \in Ids : CleanUp(i)) \/ (\E i \in Ids : GetsOld(i))
      \/ AddsSome("like") \/ AddsSome("post")
  <2>1. CASE UNCHANGED noteVars
    BY <2>1, SameIsSteady DEF noteVars
  <2>2. ASSUME NEW u \in Receivers, FirstPage(u) \/ NextPage(u) PROVE Steady
    BY <2>2, SameIsSteady DEF FirstPage, NextPage, KeepsRows
  <2> QED
    BY <2>1, <2>2, RecipientRows, LikeRows, DigestRows, FanoutRows, SameIsSteady DEF NotificationsNext
<1>2. CASE Steady
  BY <1>2 DEF Steady, UnusedAreBlank
<1>3. ASSUME NEW i \in Ids, CleanUp(i) PROVE UnusedAreBlank'
  BY <1>3, CleanUpRemoves DEF UnusedAreBlank
<1>4. ASSUME NEW i \in Ids, GetsOld(i) PROVE UnusedAreBlank'
  BY <1>4, GetsOldIsAlone DEF UnusedAreBlank
<1>5. ASSUME NEW kind \in {"post", "like"}, AddsSome(kind) PROVE UnusedAreBlank'
  <2>1. PICK i \in Ids : note'[i].state = "active" /\ \A j \in Ids \ {i} : note'[j] = note[j]
    BY <1>5, AddingFillsTheRow DEF AddsSome
  <2> QED
    BY <2>1 DEF UnusedAreBlank
<1> QED
  BY <1>1, <1>2, <1>3, <1>4, <1>5

-----------------------------------------------------------------------------
(* The fan-out of a post.                                                  *)

\* A step in which nobody else is told of the post.
TellsNobody(p) ==
    /\ \A u \in Receivers : /\ ToldOf(p, u)' \subseteq ToldOf(p, u)
                            /\ ToldOf(p, u)' = {} => ToldOf(p, u) = {} \/ SomeRemoved'
    /\ SomeRemoved => SomeRemoved'
    /\ fanout[p].state \in {"queued", "running"} =>
            \A u \in Receivers : \A i \in ToldOf(p, u) : note[i].recent => note'[i].recent

LEMMA OthersTellNobody ==
    ASSUME NotificationsTypeOK, UnusedAreBlank, NEW p \in NotedPosts,
           Steady \/ (\E i \in Ids : CleanUp(i)) \/ (\E i \in Ids : GetsOld(i)) \/ AddsSome("like")
    PROVE  TellsNobody(p)
<1>1. CASE Steady
  BY <1>1 DEF Steady, TellsNobody, ToldOf, SomeRemoved
<1>2. ASSUME NEW i \in Ids, CleanUp(i) PROVE TellsNobody(p)
  <2>1. /\ note'[i].post = {} /\ note'[i].state = "removed" /\ ~ note'[i].recent /\ ~ note[i].recent
        /\ \A j \in Ids \ {i} : note'[j] = note[j]
    BY <1>2, CleanUpRemoves
  <2>2. SomeRemoved'
    BY <2>1 DEF SomeRemoved
  <2> QED
    BY <2>1, <2>2 DEF TellsNobody, ToldOf
<1>3. ASSUME NEW i \in Ids, GetsOld(i) PROVE TellsNobody(p)
  BY <1>3, GetsOldIsAlone DEF TellsNobody, ToldOf, SomeRemoved
<1>4. CASE AddsSome("like")
  <2>1. PICK i \in Ids : note[i].state = "none" /\ note'[i].kind = "like" /\ \A j \in Ids \ {i} : note'[j] = note[j]
    BY <1>4, AddingFillsTheRow DEF AddsSome
  <2>2. note[i].post = {} /\ note[i].state # "removed"
    BY <2>1 DEF UnusedAreBlank
  <2> QED
    BY <2>1, <2>2 DEF TellsNobody, ToldOf, SomeRemoved
<1> QED
  BY <1>1, <1>2, <1>3, <1>4

LEMMA FanoutRests ==
    ASSUME NEW p \in NotedPosts, FanoutOf(p), TellsNobody(p), fanout'[p] = fanout[p]
    PROVE  FanoutOf(p)'
<1>1. ASSUME NEW u \in Receivers, Reached(p, u) PROVE Reached(p, u)'
  BY <1>1 DEF Reached, TellsNobody
<1>2. \A u \in Receivers : ToldOf(p, u)' \subseteq ToldOf(p, u)
  BY DEF TellsNobody
<1>3. (fanout[p].state = "none" => \A u \in Receivers : ToldOf(p, u) = {})'
  BY <1>2 DEF FanoutOf
<1>4. (fanout[p].state \in {"queued", "running"} => \A u \in Receivers : \A i \in ToldOf(p, u) : note[i].recent)'
  BY <1>2 DEF FanoutOf, TellsNobody
<1>5. (\A u \in Receivers : \A i, j \in ToldOf(p, u) : i = j)'
  BY <1>2 DEF FanoutOf
<1>6. (fanout[p].state = "running" => \A u \in (Receivers \ {AuthorOf[p]}) \ fanout[p].todo : Reached(p, u))'
  BY <1>1 DEF FanoutOf
<1>7. (fanout[p].state = "done" => \A u \in Receivers \ {AuthorOf[p]} : Reached(p, u))'
  BY <1>1 DEF FanoutOf
<1> QED
  BY <1>3, <1>4, <1>5, <1>6, <1>7 DEF FanoutOf
\* A step of the fan-out of the post in which nobody is told.
LEMMA FanoutProceeds ==
    ASSUME NotificationsTypeOK, NEW p \in NotedPosts, FanoutOf(p),
           PublishPost(p) \/ StartFanout(p) \/ FinishFanout(p) \/ FailFanout(p) \/ LoseFanout(p)
    PROVE  FanoutOf(p)'
<1>1. PICK task \in Fanouts :
        /\ fanout'[p] = task /\ note' = note
        /\ \/ fanout[p].state = "none" /\ task.state = "queued"
           \/ fanout[p].state = "queued" /\ task.state = "running" /\ task.todo = Receivers \ {AuthorOf[p]}
           \/ fanout[p].state = "queued" /\ task.state = "done" /\ task.skipped = Receivers
           \/ /\ fanout[p].state = "running" /\ task.state = "done" /\ fanout[p].todo = {}
              /\ task.skipped = fanout[p].skipped
           \/ fanout[p].state = "running" /\ task.state \in {"queued", "failed", "lost"}
  BY FanoutTurns, FanoutStepIsTyped
<1>2. (\A u \in Receivers : ToldOf(p, u)' = ToldOf(p, u)) /\ (SomeRemoved' <=> SomeRemoved)
  BY <1>1 DEF ToldOf, SomeRemoved
<1>3. (fanout[p].state = "none" => \A u \in Receivers : ToldOf(p, u) = {})'
  BY <1>1
<1>4. (fanout[p].state \in {"queued", "running"} => \A u \in Receivers : \A i \in ToldOf(p, u) : note[i].recent)'
  BY <1>1, <1>2 DEF FanoutOf
<1>5. (\A u \in Receivers : \A i, j \in ToldOf(p, u) : i = j)'
  BY <1>2 DEF FanoutOf
<1>6. (fanout[p].state = "running" => \A u \in (Receivers \ {AuthorOf[p]}) \ fanout[p].todo : Reached(p, u))'
  BY <1>1
<1>7. (fanout[p].state = "done" => \A u \in Receivers \ {AuthorOf[p]} : Reached(p, u))'
  BY <1>1, <1>2 DEF FanoutOf, Reached
<1> QED
  BY <1>3, <1>4, <1>5, <1>6, <1>7 DEF FanoutOf

\* A member is told once.
LEMMA TellingReaches ==
    ASSUME NotificationsTypeOK, UnusedAreBlank, NEW p \in NotedPosts, FanoutOf(p),
           NEW u \in Receivers, NotifyMember(p, u)
    PROVE  FanoutOf(p)'
<1>1. PICK task \in Fanouts :
        /\ Turns(p, task) /\ KeepsTheRest /\ fanout[p].state = "running" /\ task.state = "running"
        /\ task.todo = fanout[p].todo \ {u}
        /\ \/ Insert(u, "post", p, AuthorOf[p], 1) /\ ~ Duplicate(u, "post", p) /\ task.skipped = fanout[p].skipped
           \/ note' = note /\ Duplicate(u, "post", p) /\ task.skipped = fanout[p].skipped
           \/ note' = note /\ task.skipped = fanout[p].skipped \union {u}
  BY NotifyTurns
<1>2. /\ fanout'[p].state = "running" /\ fanout'[p].todo = fanout[p].todo \ {u}
      /\ fanout[p].skipped \subseteq fanout'[p].skipped
      /\ u \notin fanout'[p].skipped => fanout'[p].skipped = fanout[p].skipped
  BY <1>1, FanoutStepIsTyped
<1>3. CASE Insert(u, "post", p, AuthorOf[p], 1) /\ ~ Duplicate(u, "post", p)
  <2>1. PICK i \in Ids : Adds(i, u, "post", p, AuthorOf[p], 1)
    BY <1>3, InsertIsAdding, ReceiversAreFinite
  <2>2. /\ note[i].state = "none" /\ note'[i].user = {u} /\ note'[i].kind = "post" /\ note'[i].post = {p}
        /\ note'[i].state = "active" /\ note'[i].recent /\ \A j \in Ids \ {i} : note'[j] = note[j]
    BY <2>1, AddingFillsTheRow, ReceiversAreFinite
  <2>3. note[i].post = {}
    BY <2>2 DEF UnusedAreBlank
  <2>4. ToldOf(p, u) = {}
    BY <1>1, <1>3 DEF FanoutOf, ToldOf, Duplicate
  <2>5. ToldOf(p, u)' = {i} /\ \A v \in Receivers \ {u} : ToldOf(p, v)' = ToldOf(p, v)
    BY <2>2, <2>3, <2>4 DEF ToldOf
  <2>6. SomeRemoved => SomeRemoved'
    BY <2>2 DEF SomeRemoved
  <2>7. \A v \in Receivers : Reached(p, v) \/ v = u => Reached(p, v)'
    BY <1>2, <2>5, <2>6 DEF Reached
  <2>8. \A v \in Receivers : \A j \in ToldOf(p, v)' : note'[j].recent
    BY <1>1, <2>2, <2>5 DEF FanoutOf, ToldOf
  <2> QED
    BY <1>1, <1>2, <2>5, <2>7, <2>8 DEF FanoutOf
<1>4. CASE note' = note /\ (Duplicate(u, "post", p) \/ u \in fanout'[p].skipped)
  <2>1. (\A v \in Receivers : ToldOf(p, v)' = ToldOf(p, v)) /\ (SomeRemoved' <=> SomeRemoved)
    BY <1>4 DEF ToldOf, SomeRemoved
  <2>2. Reached(p, u)'
    BY <1>4, <2>1 DEF Reached, Duplicate, ToldOf
  <2>3. \A v \in Receivers : Reached(p, v) \/ v = u => Reached(p, v)'
    BY <1>2, <2>1, <2>2 DEF Reached
  <2> QED
    BY <1>1, <1>2, <1>4, <2>1, <2>3 DEF FanoutOf
<1> QED
  BY <1>1, <1>3, <1>4, FanoutStepIsTyped

LEMMA FanoutsStep ==
    ASSUME NotificationsTypeOK, UnusedAreBlank, FanoutsInvariant, [NotificationsNext]_noteVars
    PROVE  FanoutsInvariant'
<1>1. ASSUME NEW p \in NotedPosts PROVE FanoutOf(p)'
  <2>1. FanoutOf(p)
    BY DEF FanoutsInvariant
  <2>2. CASE Fanout
    <3>1. PICK q \in NotedPosts :
            \/ PublishPost(q) \/ StartFanout(q) \/ FinishFanout(q) \/ FailFanout(q) \/ LoseFanout(q)
            \/ \E u \in Receivers : NotifyMember(q, u)
      BY <2>2 DEF Fanout
    <3>2. CASE q = p
      BY <2>1, <3>1, <3>2, FanoutProceeds, TellingReaches
    <3>3. ASSUME q # p PROVE TellsNobody(p) /\ fanout'[p] = fanout[p]
      <4>1. fanout'[p] = fanout[p]
        BY <3>1, <3>3, FanoutTurns, NotifyTurns, FanoutStepIsTyped
      <4>2. ASSUME NEW u \in Receivers, Insert(u, "post", q, AuthorOf[q], 1) PROVE TellsNobody(p)
        <5>1. PICK i \in Ids : Adds(i, u, "post", q, AuthorOf[q], 1)
          BY <4>2, InsertIsAdding, ReceiversAreFinite
        <5>2. note[i].state = "none" /\ note'[i].post = {q} /\ \A j \in Ids \ {i} : note'[j] = note[j]
          BY <5>1, AddingFillsTheRow, ReceiversAreFinite
        <5> QED
          BY <3>3, <5>2 DEF TellsNobody, ToldOf, SomeRemoved, UnusedAreBlank
      <4>3. note' = note => TellsNobody(p)
        BY SameIsSteady, OthersTellNobody
      <4> QED
        BY <3>1, <4>1, <4>2, <4>3, FanoutTurns, NotifyTurns
    <3> QED
      BY <2>1, <3>2, <3>3, FanoutRests
  <2>3. CASE LikeSteps
    BY <2>1, <2>3, LikeRows, LikeStepsAreTyped, OthersTellNobody, FanoutRests DEF KeepsOthers
  <2>4. CASE Digest
    BY <2>1, <2>4, DigestRows, DigestIsTyped, OthersTellNobody, FanoutRests DEF KeepsAll
  <2>5. ASSUME NEW u \in Receivers, FirstPage(u) \/ NextPage(u) PROVE FanoutOf(p)'
    BY <2>1, <2>5, PagesAreTyped, SameIsSteady, OthersTellNobody, FanoutRests DEF KeepsRows, taskVars
  <2>6. CASE Recipients
    BY <2>1, <2>6, RecipientRows, OthersTellNobody, FanoutRests DEF taskVars
  <2>7. CASE UNCHANGED noteVars
    BY <2>1, <2>7, SameIsSteady, OthersTellNobody, FanoutRests DEF noteVars, taskVars
  <2> QED
    BY <2>2, <2>3, <2>4, <2>5, <2>6, <2>7 DEF NotificationsNext
<1> QED
  BY <1>1 DEF FanoutsInvariant
-----------------------------------------------------------------------------
(* The digest.                                                             *)

\* What leaves the digest alone adds rows that are in none.
KeepsDigest ==
    /\ digest' = digest /\ mailed' = mailed /\ cuts' = cuts
    /\ \A i \in Ids : /\ note[i].state # "none" => note'[i].digested = note[i].digested
                      /\ note[i].state = "none" => ~ note'[i].digested
                      /\ note'[i].state = "none" => note[i].state = "none"

LEMMA RowsKeepDigest ==
    ASSUME NotificationsTypeOK, DigestInvariant, digest' = digest, mailed' = mailed, cuts' = cuts,
           \/ (Steady /\ SameDigested) \/ (\E i \in Ids : CleanUp(i)) \/ (\E i \in Ids : GetsOld(i))
           \/ AddsSome("like") \/ AddsSome("post")
    PROVE  KeepsDigest
<1>1. \A i \in Ids : note[i].state = "none" => ~ note[i].digested
  <2> SUFFICES ASSUME NEW i \in Ids, note[i].state = "none", note[i].digested PROVE FALSE
    OBVIOUS
  <2>1. mailed[i] = 0 /\ mailed[i] > 0
    BY DEF DigestInvariant, DigestOf, Sent
  <2> QED
    BY <2>1
<1>2. CASE Steady /\ SameDigested
  BY <1>1, <1>2 DEF Steady, SameDigested, KeepsDigest
<1>3. ASSUME NEW i \in Ids, CleanUp(i) PROVE KeepsDigest
  BY <1>1, <1>3, CleanUpRemoves DEF SameDigested, KeepsDigest
<1>4. ASSUME NEW i \in Ids, GetsOld(i) PROVE KeepsDigest
  BY <1>1, <1>4, GetsOldIsAlone DEF SameDigested, KeepsDigest
<1>5. ASSUME NEW kind \in {"post", "like"}, AddsSome(kind) PROVE KeepsDigest
  <2>1. PICK i \in Ids : /\ note[i].state = "none" /\ note'[i].state = "active" /\ ~ note'[i].digested
                         /\ \A j \in Ids \ {i} : note'[j] = note[j]
    BY <1>5, AddingFillsTheRow DEF AddsSome
  <2> QED
    BY <1>1, <2>1 DEF KeepsDigest
<1> QED
  BY <1>2, <1>3, <1>4, <1>5

LEMMA DigestRests ==
    ASSUME NotificationsTypeOK, DigestInvariant, KeepsDigest
    PROVE  DigestInvariant'
<1>1. ASSUME NEW i \in Ids PROVE DigestOf(i)'
  <2>1. DigestOf(i)
    BY DEF DigestInvariant
  <2>2. mailed[i] \in Nat /\ cuts \in Nat
    BY NotesTypes, NotificationsAssumption DEF NotificationsAssumption
  <2>3. CASE note[i].state # "none"
    BY <2>1, <2>3 DEF KeepsDigest, DigestOf, Sent
  <2>4. CASE note[i].state = "none"
    BY <2>1, <2>2, <2>4 DEF KeepsDigest, DigestOf, Sent
  <2> QED
    BY <2>3, <2>4
<1> QED
  BY <1>1 DEF DigestInvariant, KeepsDigest

LEMMA DigestProceeds ==
    ASSUME NotificationsTypeOK, DigestInvariant, Digest
    PROVE  DigestInvariant'
<1>1. digest \in DigestStates /\ mailed \in [Ids -> Nat] /\ cuts \in Nat /\ note \in [Ids -> Notes]
  BY NotesTypes, NotificationsAssumption DEF NotificationsAssumption
<1>2. ASSUME NEW u \in Receivers, FetchDigest(u) PROVE DigestInvariant'
  <2>1. PICK S : S = Undigested(u)
    OBVIOUS
  <2>2. /\ digest.pc = "idle" /\ digest'.pc = "queue" /\ digest'.ids = S /\ note' = note /\ mailed' = mailed /\ cuts' = cuts
    BY <1>2, <2>1 DEF FetchDigest
  <2>3. \A i \in S : note[i].state = "active" /\ ~ note[i].digested
    BY <2>1 DEF Undigested, NotesOf, Active
  <2>4. ASSUME NEW i \in Ids PROVE DigestOf(i)'
    BY <2>2, <2>3 DEF DigestInvariant, DigestOf, Sent
  <2> QED
    BY <2>2, <2>4 DEF DigestInvariant
<1>3. CASE QueueDigest
  <2>1. digest' = [pc |-> "mark", ids |-> digest.ids] /\ digest.pc = "queue" /\ note' = note /\ cuts' = cuts
    BY <1>1, <1>3 DEF QueueDigest, DigestStates
  <2>2. digest'.pc = "mark" /\ digest'.ids = digest.ids
    BY <2>1
  <2>3. ASSUME NEW i \in Ids PROVE DigestOf(i)'
    <3>1. mailed'[i] = (IF i \in digest.ids THEN mailed[i] + 1 ELSE mailed[i]) /\ mailed[i] \in Nat
      BY <1>1, <1>3 DEF QueueDigest
    <3>2. DigestOf(i)
      BY DEF DigestInvariant
    <3>3. CASE i \in digest.ids
      BY <1>1, <2>1, <2>2, <3>1, <3>2, <3>3 DEF DigestOf, Sent
    <3>4. CASE i \notin digest.ids
      BY <2>1, <2>2, <3>1, <3>2, <3>4 DEF DigestOf, Sent
    <3> QED
      BY <3>3, <3>4
  <2> QED
    BY <2>2, <2>3 DEF DigestInvariant
<1>4. CASE MarkDigested
  <2>1. /\ Steady /\ \A i \in Ids : note'[i].digested <=> i \in digest.ids \/ note[i].digested
    BY <1>4, MarkDigestedIsSteady
  <2>2. digest.pc = "mark" /\ digest'.pc = "idle" /\ digest'.ids = {} /\ mailed' = mailed /\ cuts' = cuts
    BY <1>4, NothingIsNoted DEF MarkDigested
  <2>3. ASSUME NEW i \in Ids PROVE DigestOf(i)'
    BY <2>1, <2>2 DEF DigestInvariant, DigestOf, Sent, Steady
  <2> QED
    BY <2>2, <2>3 DEF DigestInvariant
<1>5. CASE CutDigest
  <2>1. digest'.pc = "idle" /\ digest'.ids = {} /\ mailed' = mailed /\ cuts' = cuts + 1 /\ note' = note
    BY <1>5, NothingIsNoted DEF CutDigest
  <2>2. ASSUME NEW i \in Ids PROVE DigestOf(i)'
    <3>1. DigestOf(i) /\ mailed[i] \in Nat
      BY <1>1 DEF DigestInvariant
    <3>2. (Sent(i)' => note[i].digested) /\ mailed[i] <= cuts + 1
      BY <1>1, <2>1, <3>1 DEF DigestOf, Sent
    <3>3. (Sent(i) => mailed[i] > 0)'
      BY <2>1, <3>1, <3>2 DEF DigestOf, Sent
    <3>4. (mailed[i] <= cuts + (IF Sent(i) THEN 1 ELSE 0))'
      BY <1>1, <2>1, <3>1, <3>2
    <3> QED
      BY <2>1, <3>1, <3>3, <3>4 DEF DigestOf
  <2> QED
    BY <2>1, <2>2 DEF DigestInvariant
<1> QED
  BY <1>2, <1>3, <1>4, <1>5 DEF Digest

\* The likes that are gathered in a row do not change whether it was sent.
LEMMA LikeRowsKeepDigest ==
    ASSUME NotificationsTypeOK, DigestInvariant, LikeSteps
    PROVE  KeepsDigest
<1>1. ASSUME NEW u \in Receivers, CommitLike(u) PROVE (Steady /\ SameDigested) \/ AddsSome("like")
  <2>1. PICK p \in liking[u].post :
            /\ p \in NotedPosts /\ liking[u].count \in 0 .. Cardinality(Receivers)
            /\ GathersIn(u) \/ Insert(AuthorOf[p], "like", p, u, liking[u].count) \/ note' = note
    BY <1>1, CommitTurns
  <2>2. PICK c \in 0 .. Cardinality(Receivers), a \in Receivers : c = liking[u].count /\ a = AuthorOf[p]
    BY <2>1, ReceiversAreFinite
  <2>3. ASSUME Insert(a, "like", p, u, c) PROVE AddsSome("like")
    BY <2>1, <2>3, InsertIsAdding
  <2> QED
    BY <2>1, <2>2, <2>3, GatheringIsSteady, SameIsSteady
<1>2. (Steady /\ SameDigested) \/ AddsSome("like")
  BY <1>1, AddTurns, ReadTurns, WindowTurns, SameIsSteady DEF LikeSteps, Liking
<1> QED
  BY <1>2, LikeStepsAreTyped, RowsKeepDigest DEF KeepsOthers

LEMMA DigestStep ==
    ASSUME NotificationsTypeOK, DigestInvariant, [NotificationsNext]_noteVars
    PROVE  DigestInvariant'
<1>1. CASE Fanout
  <2>1. digest' = digest /\ mailed' = mailed /\ cuts' = cuts
    BY <1>1, FanoutRows DEF KeepsTheRest
  <2> QED
    BY <1>1, <2>1, FanoutRows, SameIsSteady, RowsKeepDigest, DigestRests
<1>2. CASE LikeSteps
  BY <1>2, LikeRowsKeepDigest, DigestRests
<1>3. CASE Digest
  BY <1>3, DigestProceeds
<1>4. ASSUME NEW u \in Receivers, FirstPage(u) \/ NextPage(u) PROVE DigestInvariant'
  BY <1>4, PagesAreTyped, SameIsSteady, RowsKeepDigest, DigestRests DEF KeepsRows, taskVars
<1>5. CASE Recipients
  <2>1. digest' = digest /\ mailed' = mailed /\ cuts' = cuts
    BY <1>5, RecipientRows DEF taskVars
  <2>2. ASSUME NEW u \in Receivers, NEW senders \in SUBSET Receivers, UpdateMutes(u, senders)
        PROVE  Steady /\ SameDigested
    BY <2>2, MutesTurn, SameIsSteady
  <2>3. ASSUME NEW r \in part.receives, Receives(r[1], r[2]) PROVE AddsSome("like")
    <3>1. 1 \in 0 .. Cardinality(Receivers)
      BY <2>3, ReceivesAdds, ReceiversAreFinite
    <3> QED
      BY <2>3, <3>1, ReceivesAdds DEF AddsSome, Adds
  <2> QED
    BY <1>5, <2>1, <2>2, <2>3, RecipientsTurn, SameIsSteady, RowsKeepDigest, DigestRests
<1>6. CASE UNCHANGED noteVars
  BY <1>6, SameIsSteady, RowsKeepDigest, DigestRests DEF noteVars, taskVars
<1> QED
  BY <1>1, <1>2, <1>3, <1>4, <1>5, <1>6 DEF NotificationsNext
-----------------------------------------------------------------------------
(* The likes of a post.                                                    *)

\* Rows about likes neither are added nor turn unread, and keep their counts.
QuietRows ==
    \A i \in Ids :
        /\ \A p \in NotedPosts : i \in Unread(p)' => i \in Unread(p) /\ note'[i].count = note[i].count
        /\ note[i].state # "none" => note'[i].state # "none" /\ note'[i].post \subseteq note[i].post

LEMMA RecipientsAreQuiet ==
    ASSUME NotificationsTypeOK, Recipients, part.name = "likes"
    PROVE  QuietRows /\ UNCHANGED taskVars /\ part' = part
<1>1. UNCHANGED taskVars /\ part' = part
  BY RecipientRows
<1>2. CASE Steady /\ SameCounts
  <2>1. ASSUME NEW i \in Ids, NEW p \in NotedPosts, i \in Unread(p)'
        PROVE  i \in Unread(p) /\ note'[i].count = note[i].count
    BY <1>2, <2>1 DEF Steady, SameCounts, Unread
  <2>2. ASSUME NEW i \in Ids, note[i].state # "none"
        PROVE  note'[i].state # "none" /\ note'[i].post \subseteq note[i].post
    BY <1>2, <2>2 DEF Steady
  <2> QED
    BY <1>1, <2>1, <2>2 DEF QuietRows
<1>3. ASSUME NEW i \in Ids, CleanUp(i) PROVE QuietRows
  BY <1>3, CleanUpRemoves DEF QuietRows, Unread
<1>4. ASSUME NEW i \in Ids, GetsOld(i) PROVE QuietRows
  BY <1>4, GetsOldIsAlone DEF QuietRows, Unread, SameCounts
<1>5. ASSUME NEW r \in part.receives, Receives(r[1], r[2]) PROVE FALSE
  BY <1>5, ReceivesAdds
<1> QED
  BY <1>1, <1>2, <1>3, <1>4, <1>5, RecipientsTurn, MutesTurn, SameIsSteady

LEMMA LikesRest ==
    ASSUME NotificationsTypeOK, LikesInvariant, QuietRows, UNCHANGED <<batch, liking, likers, crossed, part>>
    PROVE  LikesInvariant'
<1> SUFFICES ASSUME part.name = "likes" PROVE LikesInvariant'
  BY DEF LikesInvariant
<1>1. ASSUME NEW p \in NotedPosts PROVE LikesAt(p)'
  <2>1. LikesAt(p)
    BY DEF LikesInvariant
  <2>2. LikesOf(p)' = LikesOf(p) /\ Unread(p)' \subseteq Unread(p) /\ \A i \in Unread(p)' : note'[i].count = note[i].count
    BY DEF LikesOf, QuietRows, Unread
  <2>3. ASSUME NEW u \in Receivers, LikeOf(p, u) PROVE LikeOf(p, u)'
    <3>1. (liking[u].pc = "read" => \A i \in liking[u].found : note[i].state # "none" /\ note[i].post \subseteq {p})'
      <4> SUFFICES ASSUME liking[u].pc = "read", NEW i \in liking[u].found
                   PROVE  note'[i].state # "none" /\ note'[i].post \subseteq {p}
        OBVIOUS
      <4>1. note[i].state # "none" /\ note[i].post \subseteq {p}
        BY <2>3 DEF LikeOf
      <4>2. i \in Ids
        BY NotesTypes DEF LikeStates
      <4> QED
        BY <4>1, <4>2 DEF QuietRows
    <3> QED
      BY <2>2, <2>3, <3>1 DEF LikeOf
  <2>4. \A u \in LikesOf(p)' : LikeOf(p, u)'
    BY <2>1, <2>2, <2>3 DEF LikesAt, LikesOf
  <2> QED
    BY <2>1, <2>2, <2>4 DEF LikesAt
<1> QED
  BY <1>1 DEF LikesInvariant
\* What one user does to a post's likes leaves those of the other posts alone.
LEMMA OthersLikesRest ==
    ASSUME NotificationsTypeOK, NEW p \in NotedPosts, LikesAt(p),
           batch'[p] = batch[p], likers'[p] = likers[p], p \in crossed' <=> p \in crossed,
           LikesOf(p)' = LikesOf(p), \A u \in LikesOf(p) : liking'[u] = liking[u],
           Unread(p)' \subseteq Unread(p), \A i \in Unread(p) : note'[i].count = note[i].count,
           \A i \in Ids : note[i].state # "none" => note'[i].state # "none" /\ note'[i].post \subseteq note[i].post
    PROVE  LikesAt(p)'
<1>1. ASSUME NEW u \in LikesOf(p) PROVE LikeOf(p, u)'
  <2>1. LikeOf(p, u) /\ liking'[u] = liking[u]
    BY DEF LikesAt
  <2>2. u \in Receivers /\ liking[u].found \subseteq Ids
    BY NotesTypes DEF LikesOf, LikeStates
  <2>3. (liking[u].pc = "read" => \A i \in liking[u].found : note[i].state # "none" /\ note[i].post \subseteq {p})'
    BY <2>1, <2>2 DEF LikeOf
  <2>4. (liking[u].pc = "read" => (p \notin crossed /\ liking[u].found = {} => Unread(p) = {}))'
    BY <2>1 DEF LikeOf
  <2> QED
    BY <2>1, <2>3, <2>4 DEF LikeOf
<1> QED
  BY <1>1 DEF LikesAt

LEMMA MoreLikers ==
    ASSUME NotificationsTypeOK, NEW p \in NotedPosts, NEW S \in SUBSET likers[p]
    PROVE  /\ Cardinality(S) <= Cardinality(likers[p]) /\ Cardinality(S) \in Nat /\ Cardinality(likers[p]) \in Nat
<1>1. likers[p] \in SUBSET Receivers
  BY NotesTypes
<1>2. IsFiniteSet(likers[p]) /\ Cardinality(likers[p]) \in 0 .. Cardinality(Receivers) /\ Cardinality(Receivers) \in Nat
  BY <1>1, ReceiversAreFinite
<1> QED
  BY <1>2, FS_Subset, FS_CardinalityType

LEMMA MoreLikersNext ==
    ASSUME NotificationsTypeOK', NEW p \in NotedPosts, NEW S \in SUBSET likers'[p]
    PROVE  /\ Cardinality(S) <= Cardinality(likers'[p]) /\ Cardinality(S) \in Nat /\ Cardinality(likers'[p]) \in Nat
<1>1. likers'[p] \in SUBSET Receivers
  BY NotesTypesNext
<1>2. IsFiniteSet(likers'[p]) /\ Cardinality(likers'[p]) \in 0 .. Cardinality(Receivers) /\ Cardinality(Receivers) \in Nat
  BY <1>1, ReceiversAreFinite
<1> QED
  BY <1>2, FS_Subset, FS_CardinalityType

LEMMA AddingKeepsLikes ==
    ASSUME NotificationsTypeOK, UnusedAreBlank, LikesInvariant, part.name = "likes",
           NEW u \in Receivers, NEW p \in NotedPosts, AddLike(u, p)
    PROVE  LikesInvariant'
<1>1. /\ NotificationsTypeOK' /\ note' = note /\ part' = part /\ liking[u].post = {}
      /\ liking'[u].pc = "added" /\ liking'[u].post = {p}
      /\ \A v \in Receivers \ {u} : liking'[v] = liking[v]
      /\ batch'[p] = batch[p] \union {u} /\ \A q \in NotedPosts \ {p} : batch'[q] = batch[q]
      /\ likers'[p] = likers[p] \union {u} /\ \A q \in NotedPosts \ {p} : likers'[q] = likers[q]
      /\ crossed' = IF LikesOf(p) = {} THEN crossed ELSE crossed \union {p}
  BY AddTurns, NothingIsNoted DEF KeepsOthers
<1>2. /\ LikesOf(p)' = LikesOf(p) \union {u} /\ u \notin LikesOf(p)
      /\ \A q \in NotedPosts \ {p} : LikesOf(q)' = LikesOf(q) /\ u \notin LikesOf(q)
      /\ \A q \in NotedPosts : Unread(q)' = Unread(q)
  BY <1>1 DEF LikesOf, Unread
<1>3. ASSUME NEW q \in NotedPosts, q # p PROVE LikesAt(q)'
  <2>1. LikesAt(q) /\ \A v \in LikesOf(q) : liking'[v] = liking[v]
    BY <1>1, <1>2, <1>3 DEF LikesInvariant, LikesOf
  <2> QED
    BY <1>1, <1>2, <1>3, <2>1, OthersLikesRest
<1>4. LikesAt(p)'
  <2>1. LikesAt(p)
    BY DEF LikesInvariant
  <2>2. \A c \in Nat : c <= Cardinality(likers[p]) => c <= Cardinality(likers'[p])
    <3>1. likers[p] \subseteq likers'[p]
      BY <1>1
    <3>2. /\ Cardinality(likers[p]) <= Cardinality(likers'[p])
          /\ Cardinality(likers[p]) \in Nat /\ Cardinality(likers'[p]) \in Nat
      BY <1>1, <3>1, MoreLikersNext
    <3> QED
      BY <3>2
  <2>3. \A i \in Unread(p)' : note'[i].count <= Cardinality(likers'[p])
    <3> SUFFICES ASSUME NEW i \in Unread(p) PROVE note[i].count <= Cardinality(likers'[p])
      BY <1>1, <1>2
    <3>1. note[i].count \in Nat
      BY NotesTypes, ReceiversAreFinite DEF Unread, Notes
    <3> QED
      BY <2>1, <2>2, <3>1 DEF LikesAt
  <2>4. ASSUME NEW v \in LikesOf(p) PROVE LikeOf(p, v)'
    <3>1. v \in Receivers /\ v # u /\ LikeOf(p, v) /\ liking'[v] = liking[v] /\ liking[v].count \in Nat
      BY <1>1, <1>2, <2>1, NotesTypes, ReceiversAreFinite DEF LikesAt, LikesOf, LikeStates
    <3> QED
      BY <1>1, <1>2, <2>2, <3>1 DEF LikeOf
  <2>5. LikeOf(p, u)'
    BY <1>1 DEF LikeOf
  <2>6. p \notin crossed' => \A v, w \in LikesOf(p)' : v = w
    BY <1>1, <1>2
  <2> QED
    BY <1>1, <1>2, <2>1, <2>3, <2>4, <2>5, <2>6 DEF LikesAt
<1> QED
  BY <1>1, <1>3, <1>4 DEF LikesInvariant

LEMMA ReadingKeepsLikes ==
    ASSUME NotificationsTypeOK, UnusedAreBlank, LikesInvariant, part.name = "likes",
           NEW u \in Receivers, ReadLikes(u)
    PROVE  LikesInvariant'
<1>1. PICK p \in liking[u].post :
        /\ p \in NotedPosts /\ NotificationsTypeOK' /\ note' = note /\ part' = part
        /\ liking'[u].pc = "read" /\ liking'[u].post = {p}
        /\ liking'[u].count = Cardinality(batch[p]) /\ liking'[u].found = Newest(Unread(p))
        /\ \A v \in Receivers \ {u} : liking'[v] = liking[v]
        /\ batch' = batch /\ likers' = likers /\ crossed' = crossed
  BY ReadTurns DEF KeepsOthers
<1>2. liking[u].post = {p}
  BY <1>1 DEF LikesInvariant
<1>3. \A q \in NotedPosts : LikesOf(q)' = LikesOf(q) /\ Unread(q)' = Unread(q) /\ (q # p => u \notin LikesOf(q))
  BY <1>1, <1>2 DEF LikesOf, Unread
<1>4. ASSUME NEW q \in NotedPosts, q # p PROVE LikesAt(q)'
  <2>1. LikesAt(q) /\ \A v \in LikesOf(q) : liking'[v] = liking[v]
    BY <1>1, <1>3, <1>4 DEF LikesInvariant, LikesOf
  <2> QED
    BY <1>1, <1>3, <2>1, OthersLikesRest
<1>5. LikesAt(p)'
  <2>1. LikesAt(p) /\ batch[p] \in SUBSET likers[p]
    BY <1>1 DEF LikesInvariant, LikesAt
  <2>2. LikeOf(p, u)'
    <3>1. Cardinality(batch[p]) <= Cardinality(likers[p])
      BY <1>1, <2>1, MoreLikers
    <3>2. \A i \in Newest(Unread(p)) : note[i].state # "none" /\ note[i].post = {p}
      BY DEF Newest, Unread, UnusedAreBlank
    <3>3. p \notin crossed /\ Newest(Unread(p)) = {} => Unread(p) = {}
      <4> SUFFICES ASSUME p \notin crossed, NEW i \in Unread(p) PROVE i \in Newest(Unread(p))
        OBVIOUS
      <4>1. i \in Nat /\ \A j \in Unread(p) : j = i
        BY <2>1, NotificationsAssumption DEF LikesAt, Unread, Ids, NotificationsAssumption
      <4> QED
        BY <4>1 DEF Newest
    <3> QED
      BY <1>1, <1>3, <3>1, <3>2, <3>3 DEF LikeOf
  <2>3. \A v \in LikesOf(p) \ {u} : LikeOf(p, v)'
    BY <1>1, <1>3, <2>1 DEF LikesAt, LikeOf, LikesOf
  <2> QED
    BY <1>1, <1>3, <2>1, <2>2, <2>3 DEF LikesAt
<1> QED
  BY <1>1, <1>4, <1>5 DEF LikesInvariant
\* The likes of a post when a like has ended, with the rows as it left them.
LEMMA LikeEnds ==
    ASSUME NotificationsTypeOK, LikesInvariant, part.name = "likes",
           NEW u \in Receivers, NEW p \in NotedPosts, liking[u].post = {p},
           liking'[u] = NotLiking, \A v \in Receivers \ {u} : liking'[v] = liking[v],
           UNCHANGED <<batch, likers, crossed, part>>,
           \A q \in NotedPosts \ {p} : Unread(q)' \subseteq Unread(q) /\ \A i \in Unread(q)' : note'[i].count = note[i].count,
           \A i \in Unread(p)' : note'[i].count <= Cardinality(likers[p]),
           p \notin crossed => \A i, j \in Unread(p)' : i = j,
           \A i \in Ids : note[i].state # "none" => note'[i].state # "none" /\ note'[i].post \subseteq note[i].post
    PROVE  LikesInvariant'
<1>1. /\ LikesOf(p)' = LikesOf(p) \ {u} /\ u \in LikesOf(p)
      /\ \A q \in NotedPosts \ {p} : LikesOf(q)' = LikesOf(q) /\ u \notin LikesOf(q)
  BY NothingIsNoted DEF LikesOf
<1>2. ASSUME NEW q \in NotedPosts, q # p PROVE LikesAt(q)'
  <2>1. LikesAt(q) /\ \A v \in LikesOf(q) : v \in Receivers /\ liking'[v] = liking[v]
    BY <1>1, <1>2 DEF LikesInvariant, LikesOf
  <2>2. \A v \in LikesOf(q)' : LikeOf(q, v)'
    <3> SUFFICES ASSUME NEW v \in LikesOf(q) PROVE LikeOf(q, v)'
      BY <1>1, <1>2
    <3>1. LikeOf(q, v) /\ liking'[v] = liking[v] /\ liking[v].found \subseteq Ids
      BY <2>1, NotesTypes DEF LikesAt, LikeStates
    <3>2. (liking[v].pc = "read" => \A i \in liking[v].found : note[i].state # "none" /\ note[i].post \subseteq {q})'
      BY <3>1 DEF LikeOf
    <3>3. (liking[v].pc = "read" => (q \notin crossed /\ liking[v].found = {} => Unread(q) = {}))'
      BY <1>2, <3>1 DEF LikeOf
    <3> QED
      BY <3>1, <3>2, <3>3 DEF LikeOf
  <2>3. \A i \in Unread(q)' : note'[i].count <= Cardinality(likers'[q])
    BY <1>2, <2>1 DEF LikesAt
  <2>4. q \notin crossed' => \A i, j \in Unread(q)' : i = j
    BY <1>2, <2>1 DEF LikesAt
  <2>5. batch'[q] \subseteq likers'[q] /\ (q \notin crossed' => \A v, w \in LikesOf(q)' : v = w)
    BY <1>1, <1>2, <2>1 DEF LikesAt
  <2> QED
    BY <2>2, <2>3, <2>4, <2>5 DEF LikesAt
<1>3. LikesAt(p)'
  <2>1. LikesAt(p)
    BY DEF LikesInvariant
  <2>2. \A v \in LikesOf(p)' : LikeOf(p, v)'
    <3> SUFFICES ASSUME NEW v \in LikesOf(p), v # u PROVE LikeOf(p, v)'
      BY <1>1
    <3>1. v \in Receivers /\ LikeOf(p, v) /\ liking'[v] = liking[v] /\ liking[v].found \subseteq Ids
      BY <2>1, NotesTypes DEF LikesAt, LikesOf, LikeStates
    <3>2. p \in crossed
      BY <1>1, <2>1 DEF LikesAt
    <3>3. (liking[v].pc = "read" => \A i \in liking[v].found : note[i].state # "none" /\ note[i].post \subseteq {p})'
      BY <3>1 DEF LikeOf
    <3> QED
      BY <3>1, <3>2, <3>3 DEF LikeOf
  <2> QED
    BY <1>1, <2>1, <2>2 DEF LikesAt
<1>4. ASSUME NEW v \in Receivers, NEW q \in liking'[v].post PROVE liking'[v].post = {q}
  BY <1>4, NothingIsNoted DEF LikesInvariant
<1> QED
  BY <1>2, <1>3, <1>4 DEF LikesInvariant

LEMMA CommittingKeepsLikes ==
    ASSUME NotificationsTypeOK, UnusedAreBlank, LikesInvariant, part.name = "likes",
           NEW u \in Receivers, CommitLike(u)
    PROVE  LikesInvariant'
<1>1. PICK p \in liking[u].post :
        /\ p \in NotedPosts /\ KeepsOthers /\ liking[u].pc = "read"
        /\ liking'[u] = NotLiking /\ \A v \in Receivers \ {u} : liking'[v] = liking[v]
        /\ batch' = batch /\ likers' = likers /\ crossed' = crossed
        /\ liking[u].count \in 0 .. Cardinality(Receivers)
        /\ \/ GathersIn(u)
           \/ liking[u].found = {} /\ Insert(AuthorOf[p], "like", p, u, liking[u].count)
           \/ note' = note
  BY CommitTurns
<1>2. liking[u].post = {p} /\ UNCHANGED <<batch, likers, crossed, part>>
  BY <1>1 DEF LikesInvariant, KeepsOthers
<1>3. LikesAt(p) /\ LikeOf(p, u) /\ \A q \in NotedPosts : LikesAt(q)
  BY <1>1, <1>2 DEF LikesInvariant, LikesAt, LikesOf
<1>4. /\ \A i \in Unread(p) : note[i].count <= Cardinality(likers[p])
      /\ p \notin crossed => \A i, j \in Unread(p) : i = j
  BY <1>3 DEF LikesAt
<1> DEFINE Left(q) == Unread(q)' \subseteq Unread(q) /\ \A i \in Unread(q)' : note'[i].count = note[i].count
           OK == /\ \A q \in NotedPosts \ {p} : Left(q)
                 /\ \A i \in Unread(p)' : note'[i].count <= Cardinality(likers[p])
                 /\ p \notin crossed => \A i, j \in Unread(p)' : i = j
                 /\ \A i \in Ids : note[i].state # "none" => note'[i].state # "none" /\ note'[i].post \subseteq note[i].post
<1>5. ASSUME GathersIn(u) PROVE OK
  <2>1. /\ Steady /\ \A i \in Ids : /\ note'[i].read = note[i].read
                                    /\ note'[i].count = IF i \in liking[u].found THEN liking[u].count ELSE note[i].count
    BY <1>5, GatheringIsSteady
  <2>2. /\ liking[u].count <= Cardinality(likers[p])
        /\ \A i \in liking[u].found : note[i].post \subseteq {p}
    BY <1>1, <1>3 DEF LikeOf
  <2>3. \A q \in NotedPosts : Unread(q)' = Unread(q)
    BY <2>1 DEF Unread, Steady
  <2>4. \A q \in NotedPosts \ {p} : \A i \in Unread(q) : i \in Ids /\ i \notin liking[u].found
    BY <2>2 DEF Unread
  <2>5. \A q \in NotedPosts \ {p} : Left(q)
    BY <2>1, <2>3, <2>4
  <2>6. \A i \in Unread(p)' : note'[i].count <= Cardinality(likers[p])
    BY <1>4, <1>1, <2>1, <2>2, <2>3 DEF Unread
  <2>7. p \notin crossed => \A i, j \in Unread(p)' : i = j
    BY <1>4, <1>1, <2>3
  <2>8. \A i \in Ids : note[i].state # "none" => note'[i].state # "none" /\ note'[i].post \subseteq note[i].post
    BY <2>1 DEF Steady
  <2> QED
    BY <2>5, <2>6, <2>7, <2>8
<1>6. ASSUME liking[u].found = {}, Insert(AuthorOf[p], "like", p, u, liking[u].count)
      PROVE  OK
  <2>1. PICK c \in 0 .. Cardinality(Receivers), a \in Receivers : c = liking[u].count /\ a = AuthorOf[p]
    BY <1>1, ReceiversAreFinite
  <2>2. PICK i \in Ids : Adds(i, a, "like", p, u, c)
    BY <1>1, <1>6, <2>1, InsertIsAdding
  <2>3. /\ note[i].state = "none" /\ note'[i].post = {p} /\ note'[i].count = c /\ note'[i].kind = "like"
        /\ note'[i].state = "active" /\ ~ note'[i].read /\ \A j \in Ids \ {i} : note'[j] = note[j]
    BY <1>1, <2>1, <2>2, AddingFillsTheRow
  <2>4. note[i].post = {} /\ c <= Cardinality(likers[p]) /\ (p \notin crossed => Unread(p) = {})
    BY <1>1, <1>3, <1>6, <2>1, <2>3 DEF UnusedAreBlank, LikeOf
  <2>5. Unread(p)' = Unread(p) \union {i} /\ \A q \in NotedPosts \ {p} : Unread(q)' = Unread(q) /\ i \notin Unread(q)
    BY <2>3, <2>4 DEF Unread
  <2>6. \A q \in NotedPosts \ {p} : Left(q)
    BY <2>3, <2>5 DEF Unread
  <2>7. \A j \in Unread(p)' : note'[j].count <= Cardinality(likers[p])
    BY <1>4, <1>1, <2>3, <2>4, <2>5 DEF Unread
  <2>8. p \notin crossed => \A j, k \in Unread(p)' : j = k
    BY <2>4, <2>5
  <2>9. \A j \in Ids : note[j].state # "none" => note'[j].state # "none" /\ note'[j].post \subseteq note[j].post
    BY <2>3
  <2> QED
    BY <2>6, <2>7, <2>8, <2>9
<1>7. ASSUME note' = note PROVE OK
  <2>1. \A q \in NotedPosts : Unread(q)' = Unread(q)
    BY <1>7 DEF Unread
  <2> QED
    BY <1>4, <1>1, <1>7, <2>1 DEF Unread
<1>8. OK
  BY <1>1, <1>5, <1>6, <1>7
<1> QED
  BY <1>1, <1>2, <1>8, LikeEnds

LEMMA LikesStep ==
    ASSUME NotificationsTypeOK, UnusedAreBlank, LikesInvariant, [NotificationsNext]_noteVars
    PROVE  LikesInvariant'
<1>1. part' = part
  <2>1. ASSUME NEW u \in Receivers, FirstPage(u) \/ NextPage(u) PROVE part' = part
    BY <2>1, PagesAreTyped DEF KeepsRows
  <2> QED
    BY <2>1, RecipientRows, FanoutRows, LikeStepsAreTyped, DigestIsTyped
    DEF NotificationsNext, noteVars, KeepsTheRest, KeepsOthers, KeepsAll
<1> SUFFICES ASSUME part.name = "likes" PROVE LikesInvariant'
  BY <1>1 DEF LikesInvariant
<1>2. ASSUME NEW p \in NotedPosts, WindowEnds(p) PROVE LikesInvariant'
  <2>1. /\ note' = note /\ liking' = liking /\ likers' = likers /\ crossed' = crossed
        /\ batch'[p] = {} /\ \A q \in NotedPosts \ {p} : batch'[q] = batch[q]
    BY <1>2, WindowTurns
  <2>2. ASSUME NEW q \in NotedPosts PROVE LikesAt(q)'
    <3>1. LikesAt(q) /\ LikesOf(q)' = LikesOf(q) /\ Unread(q)' = Unread(q)
      BY <2>1 DEF LikesInvariant, LikesOf, Unread
    <3>2. batch'[q] \subseteq likers'[q]
      BY <2>1, <3>1 DEF LikesAt
    <3>3. \A u \in LikesOf(q)' : LikeOf(q, u)'
      BY <2>1, <3>1 DEF LikesAt, LikeOf
    <3> QED
      BY <2>1, <3>1, <3>2, <3>3 DEF LikesAt
  <2> QED
    BY <1>1, <2>1, <2>2 DEF LikesInvariant
<1>3. CASE LikeSteps
  BY <1>2, <1>3, AddingKeepsLikes, ReadingKeepsLikes, CommittingKeepsLikes DEF LikeSteps, Liking
<1>4. CASE Recipients
  BY <1>4, RecipientsAreQuiet, LikesRest DEF taskVars
<1>5. CASE UNCHANGED noteVars
  <2>1. QuietRows
    BY <1>5 DEF noteVars, QuietRows, Unread
  <2> QED
    BY <1>5, <2>1, LikesRest DEF noteVars, taskVars
<1> QED
  BY <1>3, <1>4, <1>5 DEF NotificationsNext
-----------------------------------------------------------------------------
(* Pages.                                                                  *)

\* Rows are in a strict total order.
LEMMA RowsAreOrdered ==
    ASSUME NotificationsTypeOK
    PROVE  /\ \A i, j \in Ids : i = j \/ Before(i, j) \/ Before(j, i)
           /\ \A i \in Ids : ~ Before(i, i)
           /\ \A i, j, k \in Ids : Before(i, j) /\ Before(j, k) => Before(i, k)
<1>1. \A i \in Ids : i \in Nat /\ note[i].read \in BOOLEAN
  BY NotesTypes, NotificationsAssumption DEF NotificationsAssumption, Ids, Notes
<1> QED
  BY <1>1 DEF Before

\* What is not among the first comes after all of them.
LEMMA TheRestIsAfter ==
    ASSUME NotificationsTypeOK, NEW S \in SUBSET Ids, NEW i \in S, i \notin FirstOf(S), NEW last \in FirstOf(S)
    PROVE  Before(last, i)
<1> SUFFICES ASSUME Before(i, last) PROVE FALSE
  BY RowsAreOrdered DEF FirstOf
<1> DEFINE Ahead(k) == {j \in S : Before(j, k)}
<1>1. IsFiniteSet(S)
  <2>1. IsFiniteSet(Ids)
    BY FS_Interval, NotificationsAssumption DEF NotificationsAssumption, Ids
  <2> QED
    BY <2>1, FS_Subset
<1>2. Ahead(i) \subseteq Ahead(last)
  <2>1. last \in S
    BY DEF FirstOf
  <2> QED
    BY <2>1, RowsAreOrdered
<1>3. IsFiniteSet(Ahead(last)) /\ IsFiniteSet(Ahead(i))
  BY <1>1, FS_Subset
<1> HIDE DEF Ahead
<1>4. Cardinality(Ahead(i)) <= Cardinality(Ahead(last)) /\ Cardinality(Ahead(i)) \in Nat /\ Cardinality(Ahead(last)) \in Nat
  BY <1>2, <1>3, FS_Subset, FS_CardinalityType
<1>5. Cardinality(Ahead(last)) < PageSize
  BY DEF FirstOf, Ahead
<1>6. ~ (Cardinality(Ahead(i)) < PageSize)
  BY DEF FirstOf, Ahead
<1>7. PageSize \in Nat
  BY NotificationsAssumption DEF NotificationsAssumption
<1> QED
  BY <1>4, <1>5, <1>6, <1>7

\* What is owed stays owed by the rows that do not show what was hidden.
KeepsWhatIsOwed ==
    \A i \in Ids : note[i].state # "none" =>
        /\ note'[i].state # "none" /\ (note'[i].state = "active" => note[i].state = "active")
        /\ note'[i].state = "active" =>
            /\ note'[i].user = note[i].user /\ note'[i].sender = note[i].sender /\ (note[i].read => note'[i].read)

LEMMA RowsKeepWhatIsOwed ==
    ASSUME NotificationsTypeOK,
           \/ (Steady /\ SameCounts) \/ (\E i \in Ids : CleanUp(i)) \/ (\E i \in Ids : GetsOld(i))
           \/ AddsSome("like") \/ AddsSome("post")
    PROVE  KeepsWhatIsOwed
<1>1. CASE Steady /\ SameCounts
  BY <1>1 DEF Steady, SameCounts, KeepsWhatIsOwed
<1>2. ASSUME NEW i \in Ids, CleanUp(i) PROVE KeepsWhatIsOwed
  BY <1>2, CleanUpRemoves DEF KeepsWhatIsOwed
<1>3. ASSUME NEW i \in Ids, GetsOld(i) PROVE KeepsWhatIsOwed
  BY <1>3, GetsOldIsAlone DEF KeepsWhatIsOwed, SameCounts
<1>4. ASSUME NEW kind \in {"post", "like"}, AddsSome(kind) PROVE KeepsWhatIsOwed
  <2>1. PICK i \in Ids : note[i].state = "none" /\ \A j \in Ids \ {i} : note'[j] = note[j]
    BY <1>4, AddingFillsTheRow DEF AddsSome
  <2> QED
    BY <2>1 DEF KeepsWhatIsOwed
<1> QED
  BY <1>1, <1>2, <1>3, <1>4

LEMMA PageStays ==
    ASSUME NotificationsTypeOK, NotificationsTypeOK', PagesInvariant, KeepsWhatIsOwed, page' = page, part' = part, muted' = muted
    PROVE  PagesInvariant'
<1>1. ASSUME NEW u \in page.of, NEW i \in page.owed PROVE OwedTo(u, i)'
  <2>1. OwedTo(u, i) /\ i \in Ids /\ page.read \in BOOLEAN /\ note[i].read \in BOOLEAN /\ note'[i].read \in BOOLEAN
    BY NotesTypes, NotesTypesNext DEF PagesInvariant, PageStates, Notes
  <2>2. note'[i].state # "none"
    BY <2>1 DEF OwedTo, KeepsWhatIsOwed
  <2>3. ASSUME i \in NotesOf(u)'
        PROVE  /\ i \in NotesOf(u) /\ note'[i].sender = note[i].sender /\ (note[i].read => note'[i].read)
    BY <2>1, <2>3 DEF OwedTo, KeepsWhatIsOwed, NotesOf, Active
  <2>4. ASSUME i \in NotesOf(u)' PROVE i \in Visible(u)'
    BY <2>1, <2>3, <2>4 DEF OwedTo, Visible
  <2>5. ASSUME i \in NotesOf(u)', i \in After(u) PROVE i \in After(u)'
    BY <2>1, <2>3, <2>4, <2>5 DEF After
  <2> QED
    BY <2>1, <2>2, <2>3, <2>4, <2>5 DEF OwedTo
<1> QED
  BY <1>1 DEF PagesInvariant

\* A page is shown of rows of which all that is owed and was not listed is one.
LEMMA ShowingListsOrLeaves ==
    ASSUME NotificationsTypeOK, NEW u \in Receivers, NEW S \in SUBSET Ids, NEW owed \in SUBSET Ids, Shows(u, S, owed),
           part' = part, part.name = "pages", note' = note, muted' = muted,
           \A i \in owed : note[i].state # "none" /\ (i \in NotesOf(u) => i \in Visible(u) /\ (i \in page.listed \/ i \in S))
    PROVE  PagesInvariant'
<1>1. /\ page'.of = {u} /\ page'.owed = owed /\ page'.pc \in {"open", "end"}
      /\ \/ S = {} /\ page'.pc = "end" /\ page'.listed = page.listed
         \/ \E last \in FirstOf(S) :
               /\ page'.pc = "end" => FirstOf(S) = S
               /\ page'.read = note[last].read /\ page'.last = last
               /\ page'.listed = page.listed \union FirstOf(S)
  BY ShowsTurns
<1>2. NotesOf(u)' = NotesOf(u) /\ Visible(u)' = Visible(u)
  BY DEF NotesOf, Visible, Active
<1>3. ASSUME NEW i \in owed PROVE OwedTo(u, i)'
  <2>1. CASE S = {} /\ page'.pc = "end" /\ page'.listed = page.listed
    BY <1>2, <2>1 DEF OwedTo
  <2>2. ASSUME NEW last \in FirstOf(S), page'.pc = "end" => FirstOf(S) = S,
               page'.read = note[last].read, page'.last = last, page'.listed = page.listed \union FirstOf(S)
        PROVE  OwedTo(u, i)'
    <3>1. ASSUME i \in NotesOf(u), i \notin page'.listed PROVE page'.pc = "open" /\ i \in After(u)'
      <4>1. i \in S /\ i \notin FirstOf(S) /\ page'.pc = "open"
        BY <1>1, <2>2, <3>1
      <4>2. Before(last, i)
        BY <2>2, <4>1, TheRestIsAfter
      <4>3. i \in Ids /\ last \in Ids /\ note[i].read \in BOOLEAN /\ note[last].read \in BOOLEAN
        BY <2>2, NotesTypes DEF FirstOf, Notes
      <4> QED
        BY <1>2, <2>2, <3>1, <4>1, <4>2, <4>3, NotificationsAssumption DEF Before, After, Ids, NotificationsAssumption
    <3> QED
      BY <1>2, <3>1 DEF OwedTo
  <2> QED
    BY <1>1, <2>1, <2>2
<1> QED
  BY <1>1, <1>3 DEF PagesInvariant

LEMMA PagesStep ==
    ASSUME NotificationsTypeOK, PagesInvariant, [NotificationsNext]_noteVars
    PROVE  PagesInvariant'
<1>1. NotificationsTypeOK'
  BY NotificationsStepTyped
<1>2. CASE Fanout
  BY <1>1, <1>2, FanoutRows, SameIsSteady, RowsKeepWhatIsOwed, PageStays DEF KeepsTheRest
<1>3. CASE part.name = "likes" /\ LikeSteps
  <2>1. page = NoPage /\ page' = page /\ part' = part
    BY <1>3, LikeStepsAreTyped DEF KeepsOthers, PagesInvariant
  <2> QED
    BY <1>3, <2>1, NothingIsNoted DEF PagesInvariant
<1>4. CASE Digest
  BY <1>1, <1>4, DigestRows, DigestIsTyped, RowsKeepWhatIsOwed, PageStays DEF KeepsAll
<1>5. ASSUME part.name = "pages", NEW u \in Receivers, FirstPage(u) \/ NextPage(u) PROVE PagesInvariant'
  <2>1. KeepsRows /\ Visible(u) \in SUBSET Ids /\ After(u) \in SUBSET Ids /\ page.owed \in SUBSET Ids
    BY <1>5, PagesAreTyped, NotesTypes DEF Visible, After, NotesOf, PageStates
  <2>2. CASE FirstPage(u)
    <3>1. Shows(u, Visible(u), Visible(u)) /\ \A i \in Visible(u) : note[i].state # "none"
      BY <2>2 DEF FirstPage, Visible, NotesOf, Active
    <3> QED
      BY <1>5, <2>1, <3>1, ShowingListsOrLeaves DEF KeepsRows
  <2>3. CASE NextPage(u)
    <3>1. Shows(u, After(u), page.owed) /\ \A i \in page.owed : OwedTo(u, i)
      BY <2>3 DEF NextPage, PagesInvariant
    <3> QED
      BY <1>5, <2>1, <3>1, ShowingListsOrLeaves DEF KeepsRows, OwedTo
  <2> QED
    BY <1>5, <2>2, <2>3
<1>6. CASE Recipients
  <2>1. ASSUME NEW u \in Receivers, NEW senders \in SUBSET Receivers, UpdateMutes(u, senders) PROVE PagesInvariant'
    <3>1. /\ note' = note /\ part' = part /\ \A v \in Receivers \ {u} : \A s : <<v, s>> \in muted' <=> <<v, s>> \in muted
          /\ page'.pc = page.pc /\ page'.of = page.of /\ page'.read = page.read /\ page'.last = page.last
          /\ page'.listed = page.listed /\ page'.owed \subseteq page.owed
          /\ page.of = {u} => \A i \in page'.owed : \A s \in note[i].sender : <<u, s>> \notin muted'
          /\ page.of # {u} => page' = page
      BY <2>1, MutesTurn
    <3>2. ASSUME NEW v \in page.of, NEW i \in page'.owed PROVE OwedTo(v, i)'
      <4>1. OwedTo(v, i) /\ v \in Receivers
        BY <3>1, NotesTypes DEF PagesInvariant, PageStates
      <4>2. NotesOf(v)' = NotesOf(v)
        BY <3>1 DEF NotesOf, Active
      <4>3. ASSUME i \in Visible(v) PROVE i \in Visible(v)'
        <5>1. CASE v # u
          BY <3>1, <4>1, <4>2, <4>3, <5>1 DEF Visible
        <5>2. CASE v = u
          <6>1. page.of = {u}
            BY <5>2, NothingIsNoted DEF PagesInvariant
          <6> QED
            BY <3>1, <4>2, <4>3, <5>2, <6>1 DEF Visible
        <5> QED
          BY <5>1, <5>2
      <4>4. ASSUME i \in After(v) PROVE i \in After(v)'
        BY <3>1, <4>3, <4>4 DEF After
      <4> QED
        BY <3>1, <4>1, <4>2, <4>3, <4>4 DEF OwedTo
    <3>3. page = NoPage => page' = page
      <4>1. page = NoPage => page.of # {u}
        BY NothingIsNoted
      <4> QED
        BY <3>1, <4>1
    <3> QED
      BY <3>1, <3>2, <3>3 DEF PagesInvariant
  <2>2. ASSUME NEW r \in part.receives, Receives(r[1], r[2]) PROVE AddsSome("like") /\ Others
    <3>1. 1 \in 0 .. Cardinality(Receivers)
      BY <2>2, ReceivesAdds, ReceiversAreFinite
    <3> QED
      BY <2>2, <3>1, ReceivesAdds DEF AddsSome, Adds
  <2>3. ASSUME NEW i \in Ids, CleanUp(i) \/ GetsOld(i) PROVE Others
    BY <2>3, CleanUpRemoves, GetsOldIsAlone
  <2> QED
    BY <1>1, <1>6, <2>1, <2>2, <2>3, RecipientsTurn, SameIsSteady, RowsKeepWhatIsOwed, PageStays DEF Others
<1>7. CASE UNCHANGED noteVars
  BY <1>1, <1>7, SameIsSteady, RowsKeepWhatIsOwed, PageStays DEF noteVars
<1> QED
  BY <1>2, <1>3, <1>4, <1>5, <1>6, <1>7 DEF NotificationsNext
-----------------------------------------------------------------------------

LEMMA NotificationsInvariantInit == NotificationsInit => NotificationsInvariant
<1> SUFFICES ASSUME NotificationsInit PROVE NotificationsInvariant
  OBVIOUS
<1>1. NotificationsTypeOK
  BY NotificationsInitTyped
<1>2. /\ \A i \in Ids : note[i] = NoNote /\ mailed[i] = 0
      /\ \A p \in NotedPosts : fanout[p] = NoTask /\ batch[p] = {} /\ likers[p] = {}
      /\ \A u \in Receivers : liking[u] = NotLiking
      /\ digest = NoDigest /\ page = NoPage /\ cuts = 0
  BY DEF NotificationsInit
<1>3. UnusedAreBlank
  BY <1>2, NothingIsNoted DEF UnusedAreBlank
<1>4. FanoutsInvariant
  BY <1>2, NothingIsNoted DEF FanoutsInvariant, FanoutOf, ToldOf
<1>5. LikesInvariant
  BY <1>2, NothingIsNoted DEF LikesInvariant, LikesAt, LikesOf, Unread
<1>6. DigestInvariant
  BY <1>2, NothingIsNoted DEF DigestInvariant, DigestOf, Sent
<1>7. PagesInvariant
  BY <1>2, NothingIsNoted DEF PagesInvariant
<1> QED
  BY <1>1, <1>3, <1>4, <1>5, <1>6, <1>7 DEF NotificationsInvariant

LEMMA NotificationsInvariantStep == NotificationsInvariant /\ [NotificationsNext]_noteVars => NotificationsInvariant'
<1> SUFFICES ASSUME NotificationsInvariant, [NotificationsNext]_noteVars PROVE NotificationsInvariant'
  OBVIOUS
<1> USE DEF NotificationsInvariant
<1>1. NotificationsTypeOK'
  BY NotificationsStepTyped
<1>2. UnusedAreBlank'
  BY UnusedStayBlank
<1>3. FanoutsInvariant'
  BY FanoutsStep
<1>4. LikesInvariant'
  BY LikesStep
<1>5. DigestInvariant'
  BY DigestStep
<1>6. PagesInvariant'
  BY PagesStep
<1> QED
  BY <1>1, <1>2, <1>3, <1>4, <1>5, <1>6

LEMMA NotificationsInvariantIsEnough == NotificationsInvariant => NotificationsAreExact
<1> SUFFICES ASSUME NotificationsInvariant PROVE NotificationsAreExact
  OBVIOUS
<1>1. FanoutReachesEachOnce
  <2>1. FanoutsInvariant
    BY DEF NotificationsInvariant
  <2>2. ASSUME NEW p \in NotedPosts, NEW u \in Receivers \ {AuthorOf[p]}
        PROVE  /\ \A i, j \in ToldOf(p, u) : i = j
               /\ Task(p, "done") /\ ToldOf(p, u) = {} =>
                    u \in fanout[p].skipped \/ \E i \in Ids : note[i].state = "removed"
    BY <2>1 DEF FanoutsInvariant, FanoutOf, Reached, SomeRemoved, Task
  <2> QED
    BY <2>2 DEF FanoutReachesEachOnce
<1>2. LikesAreGathered
  BY DEF NotificationsInvariant, LikesInvariant, LikesAt, LikesAreGathered
<1>3. DigestsAreExact
  <2>1. ASSUME NEW i \in Ids PROVE (note[i].digested => mailed[i] > 0) /\ mailed[i] <= 1 + cuts
    <3>1. DigestOf(i) /\ mailed[i] \in Nat /\ cuts \in Nat
      BY NotesTypes, NotificationsAssumption DEF NotificationsInvariant, DigestInvariant, NotificationsAssumption
    <3> QED
      BY <3>1 DEF DigestOf, Sent
  <2> QED
    BY <2>1 DEF DigestsAreExact
<1>4. PagesMissNothing
  <2>1. ASSUME page.pc = "end", NEW u \in page.of, NEW i \in page.owed, i \in Visible(u) PROVE i \in page.listed
    BY <2>1 DEF NotificationsInvariant, PagesInvariant, OwedTo, Visible
  <2> QED
    BY <2>1 DEF PagesMissNothing
<1> QED
  BY <1>1, <1>2, <1>3, <1>4 DEF NotificationsAreExact

\* Every variable keeps its type: core/notifications/models.py, tasks.py and services.py.
THEOREM NotificationsTypeCorrect == NotificationsSpec => []NotificationsTypeOK
<1>1. NotificationsInvariant => NotificationsTypeOK
  BY DEF NotificationsInvariant
<1> QED
  BY <1>1, NotificationsInvariantInit, NotificationsInvariantStep, PTL DEF NotificationsSpec

\* However the fan-out is retried, likes cross, the digest is cut off and rows are read, deleted
\* and removed: nobody is told of a post twice and nobody is passed over, likes gather in one row,
\* a row is sent once for each cut at most, and pages miss nothing that stayed (create_notification,
\* the fan-out and digest tasks, and the queries of the list in core/notifications).
THEOREM NotificationsStayExact == NotificationsSpec => []NotificationsAreExact
<1> QED
  BY NotificationsInvariantInit, NotificationsInvariantStep, NotificationsInvariantIsEnough, PTL
  DEF NotificationsSpec

================================================================================
