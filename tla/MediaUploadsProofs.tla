------------------------- MODULE MediaUploadsProofs -------------------------
(***************************************************************************)
(* What is ready can be used, what has ended stays so, and the cleanup     *)
(* spares what content holds: for any uploads, requests, workers and       *)
(* retries.  What makes it inductive is what the code does without a lock  *)
(* on the row: one request, message or worker at a time carries an upload  *)
(* on its way, at a step that the row agrees with, and nothing is at work  *)
(* on an upload that is stale.                                             *)
(***************************************************************************)
EXTENDS MediaUploads, TLAPS

\* What a request is at.
AtWork == {"verify", "delete", "queue", "post"}
Steps == {[pc |-> "idle", file |-> {}], Done} \union {Doing(pc, f) : pc \in AtWork, f \in Files}
Messages == [task : Tasks \union {"optimized"}, file : Files, chain : Requests, tries : Nat]
Cleanings == [pc : {"rest", "resolve", "sweep", "mark"}, batch : SUBSET Files, referenced : SUBSET Files, file : SUBSET Files]
Objects == {"none", "original", "optimized"}

Rows == upload \in [Files -> Status] /\ stale \in [Files -> BOOLEAN] /\ stored \in [Files -> Objects]

Typing ==
    /\ Rows
    /\ request \in [Requests -> Steps]
    /\ queue \subseteq Messages
    /\ celery \in [CeleryWorkers -> SUBSET Messages]
    /\ \A w \in CeleryWorkers : \A m, n \in celery[w] : m = n
    /\ cleaner \in Cleanings
    /\ held \subseteq Files /\ posted \subseteq Files
    /\ course \in Courses

\* Nothing is at work on an upload that is stale; the cleanup has only stale ones, and knows
\* which of them content holds.
Calm(f) ==
    /\ stale[f] => upload[f] \in Unfinished /\ ~ InFlight(f)
    /\ f \in cleaner.batch => stale[f]
    /\ f \in cleaner.batch /\ cleaner.pc \in {"sweep", "mark"} => (f \in cleaner.referenced <=> f \in held)
    /\ f \in cleaner.file => cleaner.pc = "mark" /\ f \in cleaner.batch /\ f \notin held

\* What is true of an upload while a request or a task is at the step.
Stage(step, f) ==
    /\ step = "verify" => upload[f] = "pending"
    /\ step = "delete" => upload[f] = "failed"
    /\ step = "post" => upload[f] = "ready"
    /\ step \in {"queue", "process", "optimize"} => upload[f] = "processing" /\ stored[f] # "none"
    /\ step \in {"optimized", "thumbnail", "finalize"} => upload[f] = "processing" /\ stored[f] = "optimized"

Requested(r, f) == \E step \in AtWork \ {"post"} : OnStep(r, step, f)
Queued(m, f) == m \in queue /\ m.file = f
Worked(w, m, f) == m \in celery[w] /\ m.file = f

\* One request, message or worker at a time carries an upload on its way.
OneAtATime(f) ==
    /\ \A r, s \in Requests : Requested(r, f) /\ Requested(s, f) => r = s
    /\ \A m, n \in Messages : Queued(m, f) /\ Queued(n, f) => m = n
    /\ \A v, w \in CeleryWorkers : \A m, n \in Messages : Worked(v, m, f) /\ Worked(w, n, f) => v = w
    /\ \A r \in Requests, m \in Messages : Requested(r, f) => ~ Queued(m, f)
    /\ \A r \in Requests, w \in CeleryWorkers, m \in Messages : Requested(r, f) => ~ Worked(w, m, f)
    /\ \A m, n \in Messages, w \in CeleryWorkers : Queued(m, f) => ~ Worked(w, n, f)

OnItsWay(f) ==
    /\ \A r \in Requests, step \in AtWork : OnStep(r, step, f) => Stage(step, f)
    /\ \A m \in Messages : Queued(m, f) => Stage(m.task, f)
    /\ \A w \in CeleryWorkers, m \in Messages : Worked(w, m, f) => Stage(m.task, f)

Usable(f) ==
    /\ upload[f] = "ready" => stored[f] = "optimized" \/ (stored[f] # "none" /\ f \in held)
    /\ f \in posted => upload[f] = "ready"
    /\ f \in held /\ upload[f] # "failed" => stored[f] # "none"

Sound(f) == OneAtATime(f) /\ OnItsWay(f) /\ Usable(f)

IInv ==
    /\ Typing
    /\ ~ course.late => \A f \in Files : Calm(f)
    /\ Orderly => \A f \in Files : Sound(f)

-----------------------------------------------------------------------------
(* Requests, messages and the cleanup as the invariant sees them.          *)

LEMMA Circumstances ==
    ASSUME Typing
    PROVE  course.late \in BOOLEAN /\ course.twice \in BOOLEAN /\ MaxRetries \in Nat
  BY CoursesAssumption, RetriesAssumption DEF Typing

LEMMA DoingIs ==
    ASSUME NEW pc, NEW f, NEW step, NEW g
    PROVE  /\ Doing(pc, f) = Doing(step, g) <=> pc = step /\ f = g
           /\ Doing(pc, f).pc = pc /\ Doing(pc, f).file = {f}
           /\ pc # "done" => Doing(pc, f) # Done
           /\ Doing(pc, f) # [pc |-> "idle", file |-> {}]
  <1>1. Doing(pc, f).pc = pc /\ Doing(pc, f).file = {f} /\ Doing(step, g).pc = step /\ Doing(step, g).file = {g}
    BY DEF Doing
  <1>2. Done.pc = "done" /\ Done.file = {}
    BY DEF Done
  <1>3. f \in {f} /\ f \notin {}
    OBVIOUS
  <1>4. [pc |-> "idle", file |-> {}].file = {}
    OBVIOUS
  <1>5. Doing(pc, f) = Doing(step, g) => pc = step /\ f = g
    BY <1>1, <1>3
  <1> QED
    BY <1>1, <1>2, <1>3, <1>4, <1>5

LEMMA StepsAre ==
    /\ Done \in Steps /\ \A pc \in AtWork, f \in Files : Doing(pc, f) \in Steps
    /\ \A x \in Steps : x.file # {} => \E pc \in AtWork, f \in Files : x = Doing(pc, f)
  BY DEF Steps, Done

LEMMA WorkOn ==
    ASSUME NEW x \in Steps, NEW f \in Files
    PROVE  f \in x.file <=> \E step \in AtWork : x = Doing(step, f)
<1>1. CASE x.file = {}
  BY <1>1, DoingIs
<1>2. CASE x.file # {}
  <2>1. PICK pc \in AtWork, g \in Files : x = Doing(pc, g)
    BY <1>2, StepsAre
  <2>2. x.file = {g}
    BY <2>1, DoingIs
  <2> QED
    BY <2>1, <2>2, DoingIs
<1> QED
  BY <1>1, <1>2

\* Something is on its way that concerns the upload.
LEMMA InFlightIs ==
    ASSUME Typing, NEW f \in Files
    PROVE  InFlight(f) <=>
             \/ \E m \in Messages : Queued(m, f)
             \/ \E w \in CeleryWorkers, m \in Messages : Worked(w, m, f)
             \/ \E r \in Requests, step \in AtWork : OnStep(r, step, f)
<1>1. \A r \in Requests : f \in request[r].file <=> \E step \in AtWork : OnStep(r, step, f)
  BY WorkOn DEF Typing, OnStep
<1>2. (\E m \in queue : m.file = f) <=> \E m \in Messages : Queued(m, f)
  BY DEF Typing, Queued
<1>3. (\E w \in CeleryWorkers : \E m \in celery[w] : m.file = f) <=>
          \E w \in CeleryWorkers, m \in Messages : Worked(w, m, f)
  BY DEF Typing, Worked
<1> QED
  BY <1>1, <1>2, <1>3 DEF InFlight

-----------------------------------------------------------------------------
(* A step concerns one upload, and leaves the others as they are.          *)

SameRow(g) ==
    /\ upload'[g] = upload[g] /\ stored'[g] = stored[g] /\ stale'[g] = stale[g]
    /\ g \in held' <=> g \in held
    /\ g \in posted' <=> g \in posted

SameWork(g) ==
    /\ \A r \in Requests, step \in AtWork : OnStep(r, step, g)' <=> OnStep(r, step, g)
    /\ \A m \in Messages : Queued(m, g)' <=> Queued(m, g)
    /\ \A w \in CeleryWorkers, m \in Messages : Worked(w, m, g)' <=> Worked(w, m, g)

LEMMA SameKeeps ==
    ASSUME Typing, Typing', NEW g \in Files, SameRow(g), SameWork(g)
    PROVE  /\ InFlight(g)' <=> InFlight(g)
           /\ cleaner' = cleaner /\ Calm(g) => Calm(g)'
           /\ Sound(g) => Sound(g)'
<1>1. InFlight(g)' <=> InFlight(g)
  <2>1. \A r \in Requests : g \in request'[r].file <=> g \in request[r].file
    BY WorkOn DEF Typing, SameWork, OnStep
  <2>2. (\E m \in queue' : m.file = g) <=> (\E m \in queue : m.file = g)
    BY DEF Typing, SameWork, Queued
  <2>3. (\E w \in CeleryWorkers : \E m \in celery'[w] : m.file = g) <=>
          (\E w \in CeleryWorkers : \E m \in celery[w] : m.file = g)
    BY DEF Typing, SameWork, Worked
  <2> QED
    BY <2>1, <2>2, <2>3 DEF InFlight
<1>2. cleaner' = cleaner /\ Calm(g) => Calm(g)'
  BY <1>1 DEF Calm, SameRow
<1>3. OneAtATime(g) => OneAtATime(g)'
  <2>1. \A r \in Requests : Requested(r, g)' <=> Requested(r, g)
    BY DEF SameWork, Requested, AtWork
  <2> QED
    BY <2>1 DEF SameWork, OneAtATime
<1>4. OnItsWay(g) => OnItsWay(g)'
  BY DEF SameWork, SameRow, OnItsWay, Stage
<1>5. Usable(g) => Usable(g)'
  BY DEF SameRow, Usable
<1> QED
  BY <1>1, <1>2, <1>3, <1>4, <1>5 DEF Sound

LEMMA FileStep ==
    ASSUME IInv, Typing', NEW f \in Files, cleaner' = cleaner, course' = course,
           \A g \in Files \ {f} : SameRow(g) /\ SameWork(g),
           ~ course.late => ~ stale[f] /\ ~ stale'[f],
           Orderly => Sound(f)'
    PROVE  IInv'
<1>1. ASSUME ~ course.late, NEW g \in Files
      PROVE  Calm(g)'
  <2>1. CASE g # f
    BY <1>1, <2>1, SameKeeps DEF IInv
  <2>2. CASE g = f
    BY <1>1, <2>2 DEF IInv, Calm
  <2> QED
    BY <2>1, <2>2
<1>2. ASSUME Orderly, NEW g \in Files
      PROVE  Sound(g)'
  <2>1. CASE g # f
    BY <1>2, <2>1, SameKeeps DEF IInv
  <2> QED
    BY <1>2, <2>1
<1> QED
  BY <1>1, <1>2 DEF IInv, Orderly

-----------------------------------------------------------------------------
(* Tasks.                                                                  *)

\* A task on m leaves everything else alone.
Effect(m) ==
    /\ UNCHANGED <<request, held, posted, cleaner, course>> /\ Rows'
    /\ \A g \in Files \ {m.file} : upload'[g] = upload[g] /\ stored'[g] = stored[g] /\ stale'[g] = stale[g]
    /\ ~ stale[m.file] => ~ stale'[m.file]

\* At most one message follows m, at a step that its upload is at.
Follow(m, S) ==
    /\ \A n \in S : n.file = m.file
    /\ \A n, x \in S : n = x
    /\ Orderly /\ Stage(m.task, m.file) => Usable(m.file)' /\ \A n \in S : Stage(n.task, m.file)'

\* A worker puts one message in the place of the one it has, or frees itself and sends one.
LEMMA TaskStep ==
    ASSUME IInv, NEW w \in CeleryWorkers, NEW m \in celery[w],
           NEW S \in SUBSET Messages, NEW Q \in SUBSET Messages,
           celery' = [celery EXCEPT ![w] = S], queue' = queue \union Q,
           Effect(m),
           S = {} \/ Q = {}, Follow(m, S \union Q)
    PROVE  IInv'
<1> DEFINE f == m.file
<1>0. /\ UNCHANGED <<request, held, posted, cleaner, course>> /\ Rows'
      /\ \A g \in Files \ {f} : upload'[g] = upload[g] /\ stored'[g] = stored[g] /\ stale'[g] = stale[g]
      /\ ~ stale[f] => ~ stale'[f]
      /\ \A n \in S \union Q : n.file = f
      /\ \A n, x \in S \union Q : n = x
      /\ Orderly /\ Stage(m.task, f) => Usable(f)' /\ \A n \in S \union Q : Stage(n.task, f)'
  BY DEF Effect, Follow
<1>1. m \in Messages /\ f \in Files /\ m.task \in Tasks \union {"optimized"} /\ celery[w] = {m}
  <2>1. m \in Messages /\ \A n \in celery[w] : n = m
    BY DEF IInv, Typing
  <2> QED
    BY <2>1 DEF Messages
<1>2. celery'[w] = S /\ \A v \in CeleryWorkers : v # w => celery'[v] = celery[v]
  BY DEF IInv, Typing
<1>3. Typing'
  BY <1>0, <1>2 DEF IInv, Typing
<1>4. ASSUME NEW g \in Files \ {f}
      PROVE  SameRow(g) /\ SameWork(g)
  <2>1. SameRow(g)
    BY <1>0, <1>4 DEF SameRow
  <2>2. \A x \in Messages : Queued(x, g)' <=> Queued(x, g)
    BY <1>0, <1>4 DEF Queued
  <2>3. \A v \in CeleryWorkers, x \in Messages : Worked(v, x, g)' <=> Worked(v, x, g)
    BY <1>0, <1>1, <1>2, <1>4 DEF Worked
  <2>4. \A r \in Requests, step \in AtWork : OnStep(r, step, g)' <=> OnStep(r, step, g)
    BY <1>0 DEF OnStep
  <2> QED
    BY <2>1, <2>2, <2>3, <2>4 DEF SameWork
<1>5. ASSUME ~ course.late
      PROVE  ~ stale[f] /\ ~ stale'[f]
  <2>1. Worked(w, m, f)
    BY DEF Worked
  <2>2. InFlight(f)
    BY <1>1, <2>1, InFlightIs DEF IInv
  <2> QED
    BY <1>0, <1>1, <1>5, <2>2 DEF IInv, Calm
<1>6. ASSUME Orderly
      PROVE  Sound(f)'
  <2>1. Sound(f) /\ Worked(w, m, f)
    BY <1>1, <1>6 DEF IInv, Worked
  <2>2. Stage(m.task, f)
    BY <1>1, <2>1 DEF Sound, OnItsWay
  <2>3. Usable(f)' /\ \A n \in S \union Q : Stage(n.task, f)'
    BY <1>0, <1>6, <2>2
  <2>4. /\ \A r \in Requests : ~ Requested(r, f)
        /\ \A x \in Messages : ~ Queued(x, f)
        /\ \A v \in CeleryWorkers, x \in Messages : Worked(v, x, f) => v = w
    BY <1>1, <2>1 DEF Sound, OneAtATime
  <2>5. /\ \A r \in Requests : ~ Requested(r, f)'
        /\ \A x \in Messages : Queued(x, f)' => x \in Q
        /\ \A v \in CeleryWorkers, x \in Messages : Worked(v, x, f)' => v = w /\ x \in S
    BY <1>0, <1>1, <1>2, <2>4 DEF Requested, OnStep, Queued, Worked
  <2>6. OneAtATime(f)'
    BY <1>0, <2>5 DEF OneAtATime
  <2>7. \A r \in Requests : ~ OnStep(r, "post", f)
    BY <1>1, <2>1, <2>2 DEF Sound, OnItsWay, Stage, Tasks, AtWork
  <2>8. \A r \in Requests, step \in AtWork : ~ OnStep(r, step, f)'
    BY <1>0, <2>5, <2>7 DEF OnStep, Requested, AtWork
  <2> QED
    BY <2>3, <2>5, <2>6, <2>8 DEF Sound, OnItsWay
<1> QED
  BY <1>0, <1>1, <1>3, <1>4, <1>5, <1>6, FileStep

\* A task ends, and others follow it or not.
LEMMA TaskEnds ==
    ASSUME IInv, NEW w \in CeleryWorkers, NEW m \in celery[w], NEW Q \in SUBSET Messages,
           celery' = [celery EXCEPT ![w] = {}], queue' = queue \union Q, Effect(m), Follow(m, Q)
    PROVE  IInv'
<1> DEFINE S == {}
<1>1. /\ S \in SUBSET Messages /\ celery' = [celery EXCEPT ![w] = S] /\ S = {}
      /\ S \union Q = Q
  OBVIOUS
<1> HIDE DEF S
<1>2. Follow(m, S \union Q)
  BY <1>1
<1> QED
  BY <1>1, <1>2, TaskStep

\* A task ends and sends the next.
LEMMA TaskSends ==
    ASSUME IInv, NEW w \in CeleryWorkers, NEW m \in celery[w], NEW n \in Messages,
           celery' = [celery EXCEPT ![w] = {}], queue' = queue \union {n}, Effect(m), n.file = m.file,
           Orderly /\ Stage(m.task, m.file) => Usable(m.file)' /\ Stage(n.task, m.file)'
    PROVE  IInv'
<1> DEFINE Q == {n}
<1>1. Q \in SUBSET Messages /\ queue' = queue \union Q /\ Follow(m, Q)
  BY DEF Follow
<1> HIDE DEF Q
<1> QED
  BY <1>1, TaskEnds

\* A task ends, and nothing follows it.
LEMMA TaskIsOver ==
    ASSUME IInv, NEW w \in CeleryWorkers, NEW m \in celery[w],
           celery' = [celery EXCEPT ![w] = {}], queue' = queue, Effect(m),
           Orderly /\ Stage(m.task, m.file) => Usable(m.file)'
    PROVE  IInv'
<1> DEFINE Q == {}
<1>1. Q \in SUBSET Messages /\ queue' = queue \union Q /\ Follow(m, Q)
  BY DEF Follow
<1> HIDE DEF Q
<1> QED
  BY <1>1, TaskEnds

\* A task goes on.
LEMMA TaskGoesOn ==
    ASSUME IInv, NEW w \in CeleryWorkers, NEW m \in celery[w], NEW n \in Messages,
           celery' = [celery EXCEPT ![w] = {n}], queue' = queue, Effect(m), n.file = m.file,
           Orderly /\ Stage(m.task, m.file) => Usable(m.file)' /\ Stage(n.task, m.file)'
    PROVE  IInv'
<1> DEFINE S == {n}
           Q == {}
<1>1. /\ S \in SUBSET Messages /\ Q \in SUBSET Messages /\ Q = {} /\ S \union Q = S
      /\ queue' = queue \union Q /\ celery' = [celery EXCEPT ![w] = S]
  OBVIOUS
<1>2. Follow(m, S)
  BY DEF Follow
<1> HIDE DEF S, Q
<1>3. Follow(m, S \union Q)
  BY <1>1, <1>2
<1> QED
  BY <1>1, <1>3, TaskStep

LEMMA SavesTheRow ==
    ASSUME Rows, NEW f \in Files, NEW s \in Status, Saves(f, s), stored' = stored
    PROVE  /\ Rows' /\ upload'[f] = s /\ ~ stale'[f]
           /\ \A g \in Files \ {f} : upload'[g] = upload[g] /\ stored'[g] = stored[g] /\ stale'[g] = stale[g]
  BY DEF Rows, Saves

LEMMA SendsNext ==
    ASSUME NEW m \in Messages, SendNext(m)
    PROVE  \E n \in Messages :
             /\ queue' = queue \union {n} /\ n.file = m.file
             /\ m.task = "process" => n.task = "optimize"
             /\ m.task = "optimize" => n.task \in {"thumbnail", "finalize"}
             /\ m.task = "thumbnail" => n.task = "finalize"
<1> DEFINE n == Message(Following(m), m.file, m.chain, 0)
<1>1. /\ m.task = "process" => Following(m) = "optimize"
      /\ m.task = "optimize" => Following(m) \in {"thumbnail", "finalize"}
      /\ m.task = "thumbnail" => Following(m) = "finalize"
      /\ Following(m) \in Tasks
  BY DEF Following, Tasks
<1>2. n \in Messages /\ n.task = Following(m) /\ n.file = m.file
  BY <1>1 DEF Message, Messages
<1>3. queue' = queue \union {n}
  BY DEF SendNext
<1> HIDE DEF n
<1> QED
  BY <1>1, <1>2, <1>3

LEMMA TaskOf ==
    ASSUME NEW m \in Messages, NEW task \in Tasks \union {"optimized"}
    PROVE  /\ [m EXCEPT !.task = task] \in Messages
           /\ [m EXCEPT !.task = task].task = task /\ [m EXCEPT !.task = task].file = m.file
  BY DEF Messages

LEMMA RetriedIs ==
    ASSUME NEW m \in Messages
    PROVE  /\ Retried(m) \in Messages /\ Retried(m).file = m.file
           /\ Retried(m).task = IF m.task = "optimized" THEN "optimize" ELSE m.task
<1> DEFINE task == IF m.task = "optimized" THEN "optimize" ELSE m.task
<1>1. task \in Tasks \union {"optimized"} /\ m.tries + 1 \in Nat
  BY DEF Messages, Tasks
<1>2. Retried(m) = [m EXCEPT !.task = task, !.tries = m.tries + 1]
  BY DEF Retried
<1>3. m = [task |-> m.task, file |-> m.file, chain |-> m.chain, tries |-> m.tries]
  BY DEF Messages
<1>4. Retried(m) = [task |-> task, file |-> m.file, chain |-> m.chain, tries |-> m.tries + 1]
  BY <1>2, <1>3
<1>5. m.file \in Files /\ m.chain \in Requests
  BY DEF Messages
<1> HIDE DEF task
<1>6. Retried(m) \in Messages /\ Retried(m).file = m.file /\ Retried(m).task = task
  BY <1>1, <1>4, <1>5 DEF Messages
<1> QED
  BY <1>6 DEF task

\* What a task does to its upload leaves it usable, if it was on its way.
LEMMA TaskKeepsUsable ==
    ASSUME NEW f, NEW step \in Tasks \union {"optimized"}, Usable(f), Stage(step, f),
           UNCHANGED <<held, posted>>,
           \/ upload'[f] = upload[f] /\ stored'[f] = stored[f]
           \/ upload'[f] = upload[f] /\ stored'[f] = "optimized"
           \/ upload'[f] = "failed"
           \/ upload'[f] = "ready" /\ stored'[f] = "optimized"
    PROVE  Usable(f)'
  BY DEF Usable, Stage, Tasks

LEMMA WorkKeeps ==
    ASSUME IInv, NEW w \in CeleryWorkers, NEW m \in celery[w], Work(w, m)
    PROVE  IInv'
<1> DEFINE f == m.file
<1>1. m \in Messages /\ f \in Files /\ m.task \in Tasks \union {"optimized"}
  <2>1. m \in Messages
    BY DEF IInv, Typing
  <2> QED
    BY <2>1 DEF Messages
<1>2. Rows /\ (Orderly => Usable(f))
  BY <1>1 DEF IInv, Typing, Sound
<1>3. CASE QueueChain(w, m)
  <2>1. /\ m.task = "process" /\ celery' = [celery EXCEPT ![w] = {}]
        /\ UNCHANGED <<stored, held, posted, request, cleaner, course>>
    BY <1>3 DEF QueueChain, Frees, contentUse
  <2>2. CASE SendNext(m) /\ IF upload[f] = "pending" THEN Saves(f, "processing") ELSE UNCHANGED <<upload, stale>>
    <3>1. PICK n \in Messages : queue' = queue \union {n} /\ n.file = f /\ n.task = "optimize"
      BY <1>1, <2>1, <2>2, SendsNext
    <3>2. /\ Rows' /\ (~ stale[f] => ~ stale'[f])
          /\ \A g \in Files \ {f} : upload'[g] = upload[g] /\ stored'[g] = stored[g] /\ stale'[g] = stale[g]
          /\ upload[f] # "pending" => upload'[f] = upload[f]
      <4>1. CASE upload[f] = "pending"
        BY <1>1, <1>2, <2>1, <2>2, <4>1, SavesTheRow DEF Status
      <4>2. CASE upload[f] # "pending"
        BY <1>2, <2>1, <2>2, <4>2 DEF Rows
      <4> QED
        BY <4>1, <4>2
    <3>3. ASSUME Orderly, Stage(m.task, f)
          PROVE  Usable(f)' /\ Stage(n.task, f)'
      <4>1. upload[f] = "processing" /\ stored[f] # "none" /\ upload'[f] = upload[f] /\ stored'[f] = stored[f]
        BY <2>1, <3>2, <3>3 DEF Stage
      <4>2. Usable(f)'
        BY <1>1, <1>2, <2>1, <3>3, <4>1, TaskKeepsUsable
      <4> QED
        BY <3>1, <4>1, <4>2 DEF Stage
    <3> QED
      BY <1>1, <2>1, <3>1, <3>2, <3>3, TaskSends DEF Effect
  <2>3. CASE Saves(f, "failed") /\ UNCHANGED queue
    <3>1. /\ Rows' /\ upload'[f] = "failed" /\ ~ stale'[f]
          /\ \A g \in Files \ {f} : upload'[g] = upload[g] /\ stored'[g] = stored[g] /\ stale'[g] = stale[g]
      BY <1>1, <1>2, <2>1, <2>3, SavesTheRow DEF Status
    <3>2. Orderly /\ Stage(m.task, f) => Usable(f)'
      BY <1>1, <1>2, <2>1, <3>1, TaskKeepsUsable
    <3> QED
      BY <1>1, <2>1, <2>3, <3>1, <3>2, TaskIsOver DEF Effect
  <2> QED
    BY <1>3, <2>2, <2>3 DEF QueueChain
<1>4. CASE PutOptimized(w, m)
  <2> DEFINE n == [m EXCEPT !.task = "optimized"]
  <2>1. n \in Messages /\ n.task = "optimized" /\ n.file = f
    BY <1>1, TaskOf
  <2>2. /\ m.task = "optimize" /\ celery' = [celery EXCEPT ![w] = {n}] /\ UNCHANGED queue
        /\ stored' = [stored EXCEPT ![f] = "optimized"]
        /\ UNCHANGED <<upload, stale, held, posted, request, cleaner, course>>
    BY <1>4 DEF PutOptimized, Puts, Takes, contentUse
  <2> HIDE DEF n
  <2>3. Rows' /\ stored'[f] = "optimized" /\ \A g \in Files \ {f} : stored'[g] = stored[g]
    BY <1>1, <1>2, <2>2 DEF Rows, Objects
  <2>4. ASSUME Orderly, Stage(m.task, f)
        PROVE  Usable(f)' /\ Stage("optimized", f)'
    <3>1. upload[f] = "processing" /\ upload'[f] = upload[f]
      BY <2>2, <2>4 DEF Stage
    <3>2. Usable(f)'
      BY <1>1, <1>2, <2>2, <2>3, <2>4, <3>1, TaskKeepsUsable
    <3> QED
      BY <2>3, <3>1, <3>2 DEF Stage
  <2> QED
    BY <1>1, <2>1, <2>2, <2>3, <2>4, TaskGoesOn DEF Effect
<1>5. CASE SaveOptimized(w, m)
  <2> DEFINE x == [m EXCEPT !.task = "optimize"]
  <2>1. x \in Messages /\ x.task = "optimize" /\ x.file = f
    BY <1>1, TaskOf DEF Tasks
  <2>2. /\ m.task = "optimized" /\ celery' = [celery EXCEPT ![w] = {}] /\ SendNext(x)
        /\ stale' = [stale EXCEPT ![f] = FALSE]
        /\ UNCHANGED <<upload, stored, held, posted, request, cleaner, course>>
    BY <1>5 DEF SaveOptimized, Frees, contentUse
  <2> HIDE DEF x
  <2>3. PICK n \in Messages : queue' = queue \union {n} /\ n.file = f /\ n.task \in {"thumbnail", "finalize"}
    BY <2>1, <2>2, SendsNext
  <2>4. Rows' /\ ~ stale'[f] /\ \A g \in Files \ {f} : stale'[g] = stale[g]
    BY <1>1, <1>2, <2>2 DEF Rows
  <2>5. ASSUME Orderly, Stage(m.task, f)
        PROVE  Usable(f)' /\ Stage(n.task, f)'
    <3>1. Usable(f)'
      BY <1>1, <1>2, <2>2, <2>5, TaskKeepsUsable
    <3> QED
      BY <2>2, <2>3, <2>5, <3>1 DEF Stage
  <2> QED
    BY <1>1, <2>2, <2>3, <2>4, <2>5, TaskSends DEF Effect
<1>6. CASE GenerateThumbnail(w, m)
  <2>1. /\ m.task = "thumbnail" /\ celery' = [celery EXCEPT ![w] = {}] /\ SendNext(m)
        /\ stale' = [stale EXCEPT ![f] = FALSE] \/ stale' = stale
        /\ UNCHANGED <<upload, stored, held, posted, request, cleaner, course>>
    BY <1>6 DEF GenerateThumbnail, Frees, contentUse
  <2>2. PICK n \in Messages : queue' = queue \union {n} /\ n.file = f /\ n.task = "finalize"
    BY <1>1, <2>1, SendsNext
  <2>3. Rows' /\ (~ stale[f] => ~ stale'[f]) /\ \A g \in Files \ {f} : stale'[g] = stale[g]
    BY <1>1, <1>2, <2>1 DEF Rows
  <2>4. ASSUME Orderly, Stage(m.task, f)
        PROVE  Usable(f)' /\ Stage(n.task, f)'
    <3>1. Usable(f)'
      BY <1>1, <1>2, <2>1, <2>4, TaskKeepsUsable
    <3> QED
      BY <2>1, <2>2, <2>4, <3>1 DEF Stage
  <2> QED
    BY <1>1, <2>1, <2>2, <2>3, <2>4, TaskSends DEF Effect
<1>7. CASE FinalizeMediaReady(w, m)
  <2>1. /\ m.task = "finalize" /\ celery' = [celery EXCEPT ![w] = {}] /\ UNCHANGED queue /\ Saves(f, "ready")
        /\ UNCHANGED <<stored, held, posted, request, cleaner, course>>
    BY <1>7 DEF FinalizeMediaReady, Frees, contentUse
  <2>2. /\ Rows' /\ upload'[f] = "ready" /\ ~ stale'[f]
        /\ \A g \in Files \ {f} : upload'[g] = upload[g] /\ stored'[g] = stored[g] /\ stale'[g] = stale[g]
    BY <1>1, <1>2, <2>1, SavesTheRow DEF Status
  <2>3. Orderly /\ Stage(m.task, f) => Usable(f)'
    BY <1>1, <1>2, <2>1, <2>2, TaskKeepsUsable DEF Stage
  <2> QED
    BY <1>1, <2>1, <2>2, <2>3, TaskIsOver DEF Effect
<1>8. CASE RetryStage(w, m)
  <2>1. /\ m.task \in {"optimize", "optimized", "finalize"}
        /\ celery' = [celery EXCEPT ![w] = {}] /\ queue' = queue \union {Retried(m)}
        /\ UNCHANGED <<upload, stale, stored, held, posted, request, cleaner, course>>
    BY <1>8 DEF RetryStage, Frees, contentUse
  <2>2. PICK n \in Messages : /\ queue' = queue \union {n} /\ n.file = f
                              /\ n.task = IF m.task = "optimized" THEN "optimize" ELSE m.task
    BY <1>1, <2>1, RetriedIs
  <2>3. Rows'
    BY <1>2, <2>1 DEF Rows
  <2>4. ASSUME Orderly, Stage(m.task, f)
        PROVE  Usable(f)' /\ Stage(n.task, f)'
    <3>1. Usable(f)'
      BY <1>1, <1>2, <2>1, <2>4, TaskKeepsUsable
    <3> QED
      BY <2>1, <2>2, <2>4, <3>1 DEF Stage
  <2> QED
    BY <1>1, <2>1, <2>2, <2>3, <2>4, TaskSends DEF Effect
<1>9. CASE FailStage(w, m)
  <2>1. /\ celery' = [celery EXCEPT ![w] = {}] /\ UNCHANGED queue /\ Saves(f, "failed")
        /\ UNCHANGED <<stored, held, posted, request, cleaner, course>>
    BY <1>9 DEF FailStage, Frees, contentUse
  <2>2. /\ Rows' /\ upload'[f] = "failed" /\ ~ stale'[f]
        /\ \A g \in Files \ {f} : upload'[g] = upload[g] /\ stored'[g] = stored[g] /\ stale'[g] = stale[g]
    BY <1>1, <1>2, <2>1, SavesTheRow DEF Status
  <2>3. Orderly /\ Stage(m.task, f) => Usable(f)'
    BY <1>1, <1>2, <2>1, <2>2, TaskKeepsUsable
  <2> QED
    BY <1>1, <2>1, <2>2, <2>3, TaskIsOver DEF Effect
<1>10. CASE LoseTask(w, m)
  <2>1. /\ celery' = [celery EXCEPT ![w] = {}] /\ UNCHANGED queue
        /\ UNCHANGED <<upload, stale, stored, held, posted, request, cleaner, course>>
    BY <1>10 DEF LoseTask, Frees, contentUse
  <2>2. Rows'
    BY <1>2, <2>1 DEF Rows
  <2>3. Orderly /\ Stage(m.task, f) => Usable(f)'
    BY <1>1, <1>2, <2>1, TaskKeepsUsable
  <2> QED
    BY <1>1, <2>1, <2>2, <2>3, TaskIsOver DEF Effect
<1> QED
  BY <1>3, <1>4, <1>5, <1>6, <1>7, <1>8, <1>9, <1>10 DEF Work

\* A message is taken by a worker, or is passed on.
LEMMA StartKeeps ==
    ASSUME IInv, NEW w \in CeleryWorkers, NEW m \in queue, StartTask(w, m)
    PROVE  IInv'
<1> DEFINE f == m.file
<1>1. m \in Messages /\ f \in Files
  BY DEF IInv, Typing, Messages
<1>2. /\ celery[w] = {} /\ celery' = [celery EXCEPT ![w] = {m}] /\ queue' = queue \ {m}
      /\ UNCHANGED <<upload, stale, stored, held, posted, request, cleaner, course>>
  BY DEF StartTask, Free, Takes, contentUse
<1>3. celery'[w] = {m} /\ \A v \in CeleryWorkers : v # w => celery'[v] = celery[v]
  BY <1>2 DEF IInv, Typing
<1>4. Typing'
  BY <1>1, <1>2, <1>3 DEF IInv, Typing, Rows
<1>5. ASSUME NEW g \in Files \ {f}
      PROVE  SameRow(g) /\ SameWork(g)
  <2>1. SameRow(g)
    BY <1>2 DEF SameRow
  <2>2. \A x \in Messages : Queued(x, g)' <=> Queued(x, g)
    BY <1>2, <1>5 DEF Queued
  <2>3. \A v \in CeleryWorkers, x \in Messages : Worked(v, x, g)' <=> Worked(v, x, g)
    BY <1>2, <1>3, <1>5 DEF Worked
  <2>4. \A r \in Requests, step \in AtWork : OnStep(r, step, g)' <=> OnStep(r, step, g)
    BY <1>2 DEF OnStep
  <2> QED
    BY <2>1, <2>2, <2>3, <2>4 DEF SameWork
<1>6. Queued(m, f)
  BY DEF Queued
<1>7. ASSUME ~ course.late
      PROVE  ~ stale[f] /\ ~ stale'[f]
  <2>1. InFlight(f)
    BY <1>1, <1>6, InFlightIs DEF IInv
  <2> QED
    BY <1>1, <1>2, <1>7, <2>1 DEF IInv, Calm
<1>8. ASSUME Orderly
      PROVE  Sound(f)'
  <2>1. Sound(f)
    BY <1>1, <1>8 DEF IInv
  <2>2. /\ \A r \in Requests : ~ Requested(r, f)
        /\ \A x \in Messages : Queued(x, f) => x = m
        /\ \A v \in CeleryWorkers, x \in Messages : ~ Worked(v, x, f)
    BY <1>1, <1>6, <2>1 DEF Sound, OneAtATime
  <2>3. /\ \A r \in Requests : ~ Requested(r, f)'
        /\ \A x \in Messages : ~ Queued(x, f)'
        /\ \A v \in CeleryWorkers, x \in Messages : Worked(v, x, f)' => v = w /\ x = m
    BY <1>2, <1>3, <2>2 DEF Requested, OnStep, Queued, Worked
  <2>4. OneAtATime(f)'
    BY <2>3 DEF OneAtATime
  <2>5. OnItsWay(f)'
    BY <1>1, <1>2, <1>6, <2>1, <2>3 DEF Sound, OnItsWay, Stage, OnStep
  <2>6. Usable(f)'
    BY <1>2, <2>1 DEF Sound, Usable
  <2> QED
    BY <2>4, <2>5, <2>6 DEF Sound
<1> QED
  BY <1>1, <1>2, <1>4, <1>5, <1>7, <1>8, FileStep

\* An upload on its way is not passed over by its task.
LEMMA SkipKeeps ==
    ASSUME IInv, NEW m \in queue, SkipTask(m)
    PROVE  IInv'
<1> DEFINE f == m.file
           Q == IF m.task \in {"process", "finalize"} THEN {} ELSE {Message(Following(m), f, m.chain, 0)}
<1>1. m \in Messages /\ f \in Files
  BY DEF IInv, Typing, Messages
<1>2. /\ queue' = (queue \ {m}) \union Q /\ Skipped(m)
      /\ UNCHANGED <<upload, stale, stored, held, posted, request, celery, cleaner, course>>
  BY DEF SkipTask, contentUse
<1>3. Following(m) \in Tasks
  BY DEF Following, Tasks
<1>4. \A n \in Q : n \in Messages /\ n.file = f
  BY <1>1, <1>3 DEF Message, Messages
<1> HIDE DEF Q
<1>5. Typing'
  BY <1>1, <1>2, <1>4 DEF IInv, Typing, Rows
<1>6. ASSUME NEW g \in Files \ {f}
      PROVE  SameRow(g) /\ SameWork(g)
  <2>1. SameRow(g)
    BY <1>2 DEF SameRow
  <2>2. \A x \in Messages : Queued(x, g)' <=> Queued(x, g)
    BY <1>2, <1>4, <1>6 DEF Queued
  <2>3. \A v \in CeleryWorkers, x \in Messages : Worked(v, x, g)' <=> Worked(v, x, g)
    BY <1>2 DEF Worked
  <2>4. \A r \in Requests, step \in AtWork : OnStep(r, step, g)' <=> OnStep(r, step, g)
    BY <1>2 DEF OnStep
  <2> QED
    BY <2>1, <2>2, <2>3, <2>4 DEF SameWork
<1>7. Queued(m, f)
  BY DEF Queued
<1>8. ASSUME ~ course.late
      PROVE  ~ stale[f] /\ ~ stale'[f]
  <2>1. InFlight(f)
    BY <1>1, <1>7, InFlightIs DEF IInv
  <2> QED
    BY <1>1, <1>2, <1>8, <2>1 DEF IInv, Calm
<1>9. ~ Orderly
  <2> SUFFICES ASSUME Orderly
               PROVE  FALSE
    OBVIOUS
  <2>1. Stage(m.task, f)
    BY <1>1, <1>7 DEF IInv, Sound, OnItsWay
  <2>2. m.task \in Tasks \union {"optimized"}
    BY <1>1 DEF Messages
  <2>3. upload[f] = "processing"
    BY <2>1, <2>2 DEF Stage, Tasks
  <2> QED
    BY <1>2, <2>3 DEF Skipped
<1> QED
  BY <1>1, <1>2, <1>5, <1>6, <1>8, <1>9, FileStep

-----------------------------------------------------------------------------
(* Requests.                                                               *)

\* A request takes up an upload, goes on with it, or lets it go.
Turns(r, f, x) ==
    /\ request' = [request EXCEPT ![r] = x]
    /\ request[r].file = {} \/ \E step \in AtWork : OnStep(r, step, f)
    /\ x = Done \/ \E step \in AtWork : x = Doing(step, f)

LEMMA TurnsWork ==
    ASSUME Typing, NEW r \in Requests, NEW f \in Files, NEW x, Turns(r, f, x)
    PROVE  /\ request' \in [Requests -> Steps]
           /\ \A g \in Files \ {f}, s \in Requests, step \in AtWork : OnStep(s, step, g)' <=> OnStep(s, step, g)
           /\ \A s \in Requests, step \in AtWork : s # r => (OnStep(s, step, f)' <=> OnStep(s, step, f))
           /\ \A step \in AtWork : OnStep(r, step, f)' <=> x = Doing(step, f)
<1>1. x \in Steps
  BY StepsAre DEF Turns
<1>2. /\ request' \in [Requests -> Steps] /\ request'[r] = x
      /\ \A s \in Requests : s # r => request'[s] = request[s]
  BY <1>1 DEF Typing, Turns
<1>3. ASSUME NEW g \in Files \ {f}, NEW step \in AtWork
      PROVE  ~ OnStep(r, step, g) /\ ~ OnStep(r, step, g)'
  <2>1. x # Doing(step, g)
    BY <1>3, DoingIs DEF Turns, AtWork
  <2>2. request[r] # Doing(step, g)
    BY <1>3, DoingIs DEF Turns, OnStep
  <2> QED
    BY <1>2, <2>1, <2>2 DEF OnStep
<1>4. \A s \in Requests, g \in Files, step \in AtWork : s # r => (OnStep(s, step, g)' <=> OnStep(s, step, g))
  BY <1>2 DEF OnStep
<1>5. \A step \in AtWork : OnStep(r, step, f)' <=> x = Doing(step, f)
  BY <1>2 DEF OnStep
<1> QED
  BY <1>2, <1>3, <1>4, <1>5

\* Nothing but the request is at work on the upload.
Alone(r, f) ==
    /\ \A s \in Requests, step \in AtWork : OnStep(s, step, f) => s = r
    /\ \A m \in Messages : ~ Queued(m, f) /\ \A w \in CeleryWorkers : ~ Worked(w, m, f)

LEMMA WhoIsAlone ==
    ASSUME IInv, Orderly, NEW r \in Requests, NEW f \in Files,
           Requested(r, f) \/ ~ InFlight(f) \/ upload[f] = "none"
    PROVE  Alone(r, f)
<1>1. Sound(f) /\ Typing
  BY DEF IInv
<1>2. CASE Requested(r, f)
  <2>1. \A s \in Requests : ~ OnStep(s, "post", f)
    <3>1. upload[f] # "ready"
      BY <1>1, <1>2 DEF Sound, OnItsWay, Requested, Stage, AtWork
    <3> QED
      BY <1>1, <3>1 DEF Sound, OnItsWay, Stage, AtWork
  <2>2. \A s \in Requests, step \in AtWork : OnStep(s, step, f) => Requested(s, f)
    BY <2>1 DEF Requested, AtWork
  <2> QED
    BY <1>1, <1>2, <2>2 DEF Sound, OneAtATime, Alone
<1>3. CASE ~ InFlight(f)
  BY <1>1, <1>3, InFlightIs DEF Alone
<1>4. CASE upload[f] = "none"
  <2>1. \A s \in Requests, step \in AtWork : ~ OnStep(s, step, f)
    BY <1>1, <1>4 DEF Sound, OnItsWay, Stage, AtWork
  <2>2. \A m \in Messages : m.task \in Tasks \union {"optimized"}
    BY DEF Messages
  <2>3. \A m \in Messages : ~ Queued(m, f) /\ \A w \in CeleryWorkers : ~ Worked(w, m, f)
    BY <1>1, <1>4, <2>2 DEF Sound, OnItsWay, Stage, Tasks
  <2> QED
    BY <2>1, <2>3 DEF Alone
<1> QED
  BY <1>2, <1>3, <1>4

\* A request on its own leaves its upload to itself, to one message, or to nobody.
Leaves(f, x, Q) ==
    /\ x = Done \/ Q = {}
    /\ \A step \in AtWork : x = Doing(step, f) => Stage(step, f)'
    /\ \A n \in Q : Stage(n.task, f)'
    /\ \A m, n \in Q : m = n
    /\ Usable(f)'

LEMMA RequestStep ==
    ASSUME IInv, NEW r \in Requests, NEW f \in Files, NEW x, NEW Q \in SUBSET Messages,
           Turns(r, f, x), queue' = queue \union Q, \A n \in Q : n.file = f,
           UNCHANGED <<celery, held, posted, cleaner, course>>, Rows',
           \A g \in Files \ {f} : upload'[g] = upload[g] /\ stored'[g] = stored[g] /\ stale'[g] = stale[g],
           ~ course.late => ~ stale[f] /\ ~ stale'[f],
           Orderly => Alone(r, f) /\ Leaves(f, x, Q)
    PROVE  IInv'
<1>1. /\ request' \in [Requests -> Steps]
      /\ \A g \in Files \ {f}, s \in Requests, step \in AtWork : OnStep(s, step, g)' <=> OnStep(s, step, g)
      /\ \A s \in Requests, step \in AtWork : s # r => (OnStep(s, step, f)' <=> OnStep(s, step, f))
      /\ \A step \in AtWork : OnStep(r, step, f)' <=> x = Doing(step, f)
  BY TurnsWork DEF IInv
<1>2. Typing'
  BY <1>1 DEF IInv, Typing
<1>3. ASSUME NEW g \in Files \ {f}
      PROVE  SameRow(g) /\ SameWork(g)
  <2>1. SameRow(g)
    BY <1>3 DEF SameRow
  <2>2. \A m \in Messages : Queued(m, g)' <=> Queued(m, g)
    BY <1>3 DEF Queued
  <2>3. \A w \in CeleryWorkers, m \in Messages : Worked(w, m, g)' <=> Worked(w, m, g)
    BY DEF Worked
  <2> QED
    BY <1>1, <1>3, <2>1, <2>2, <2>3 DEF SameWork
<1>4. ASSUME Orderly
      PROVE  Sound(f)'
  <2>1. /\ \A s \in Requests, step \in AtWork : OnStep(s, step, f)' => s = r /\ x = Doing(step, f)
        /\ \A m \in Messages : Queued(m, f)' => m \in Q
        /\ \A m \in Messages, w \in CeleryWorkers : ~ Worked(w, m, f)'
    BY <1>1, <1>4 DEF Alone, Queued, Worked
  <2>2. \A s \in Requests : Requested(s, f)' => s = r /\ Q = {}
    <3>1. \A step \in AtWork : x = Doing(step, f) => Q = {}
      BY <1>4, DoingIs DEF Leaves, AtWork
    <3> QED
      BY <2>1, <3>1 DEF Requested, AtWork
  <2>3. OneAtATime(f)'
    BY <1>4, <2>1, <2>2 DEF OneAtATime, Leaves
  <2>4. OnItsWay(f)'
    BY <1>4, <2>1 DEF OnItsWay, Leaves
  <2> QED
    BY <1>4, <2>3, <2>4 DEF Sound, Leaves
<1> QED
  BY <1>2, <1>3, <1>4, FileStep

\* A request on its own that sends nothing.
LEMMA RequestTurns ==
    ASSUME IInv, NEW r \in Requests, NEW f \in Files, NEW x, Turns(r, f, x),
           UNCHANGED <<queue, celery, held, posted, cleaner, course>>, Rows',
           \A g \in Files \ {f} : upload'[g] = upload[g] /\ stored'[g] = stored[g] /\ stale'[g] = stale[g],
           ~ course.late => ~ stale[f] /\ ~ stale'[f],
           Orderly => Alone(r, f) /\ Usable(f)' /\ \A step \in AtWork : x = Doing(step, f) => Stage(step, f)'
    PROVE  IInv'
<1> DEFINE Q == {}
<1>1. Q \in SUBSET Messages /\ queue' = queue \union Q /\ \A n \in Q : n.file = f
  OBVIOUS
<1>2. Orderly => Alone(r, f) /\ Leaves(f, x, Q)
  BY DEF Leaves
<1> HIDE DEF Q
<1> QED
  BY <1>1, <1>2, RequestStep

\* A request to post neither moves the row nor is moved by it.
LEMMA PostStep ==
    ASSUME IInv, NEW r \in Requests, NEW f \in Files, NEW x, Turns(r, f, x),
           UNCHANGED <<upload, stale, stored, queue, celery, held, cleaner, course>>,
           ~ course.late => ~ stale[f],
           posted' = posted \/ (posted' = posted \union {f} /\ (Orderly => upload[f] = "ready")),
           x = Done \/ (x = Doing("post", f) /\ upload[f] = "ready")
    PROVE  IInv'
<1>1. /\ request' \in [Requests -> Steps]
      /\ \A g \in Files \ {f}, s \in Requests, step \in AtWork : OnStep(s, step, g)' <=> OnStep(s, step, g)
      /\ \A s \in Requests, step \in AtWork : s # r => (OnStep(s, step, f)' <=> OnStep(s, step, f))
      /\ \A step \in AtWork : OnStep(r, step, f)' <=> x = Doing(step, f)
  BY TurnsWork DEF IInv
<1>2. Typing' /\ (~ course.late => ~ stale'[f])
  BY <1>1 DEF IInv, Typing, Rows
<1>3. /\ \A g, m : Queued(m, g)' <=> Queued(m, g)
      /\ \A g, w, m : Worked(w, m, g)' <=> Worked(w, m, g)
  BY DEF Queued, Worked
<1>4. ASSUME NEW g \in Files \ {f}
      PROVE  SameRow(g) /\ SameWork(g)
  BY <1>1, <1>3, <1>4 DEF SameRow, SameWork
<1>5. ASSUME Orderly
      PROVE  Sound(f)'
  <2>1. Sound(f)
    BY <1>5 DEF IInv
  <2>2. \A s \in Requests, step \in AtWork :
            OnStep(s, step, f)' => OnStep(s, step, f) \/ (step = "post" /\ upload[f] = "ready")
    <3>1. \A step \in AtWork : x = Doing(step, f) => step = "post" /\ upload[f] = "ready"
      BY DoingIs DEF AtWork
    <3> QED
      BY <1>1, <3>1
  <2>3. \A s \in Requests : Requested(s, f)' => Requested(s, f)
    BY <2>2 DEF Requested, AtWork
  <2>4. OneAtATime(f)'
    BY <1>3, <2>1, <2>3 DEF Sound, OneAtATime
  <2>5. OnItsWay(f)'
    BY <1>3, <2>1, <2>2 DEF Sound, OnItsWay, Stage
  <2>6. Usable(f)'
    BY <1>5, <2>1 DEF Sound, Usable
  <2> QED
    BY <2>4, <2>5, <2>6 DEF Sound
<1> QED
  BY <1>2, <1>4, <1>5, FileStep

LEMMA AtWorkIsCalm ==
    ASSUME IInv, ~ course.late, NEW r \in Requests, NEW f \in Files, NEW step \in AtWork, OnStep(r, step, f)
    PROVE  ~ stale[f]
<1>1. InFlight(f)
  BY InFlightIs DEF IInv
<1> QED
  BY <1>1 DEF IInv, Calm

LEMMA IdleHasNothing ==
    ASSUME IInv, NEW r \in Requests, request[r].pc = "idle"
    PROVE  request[r].file = {}
<1>1. request[r] \in Steps
  BY DEF IInv, Typing
<1>2. \A pc \in AtWork, f \in Files : request[r] # Doing(pc, f)
  BY DoingIs DEF AtWork
<1> QED
  BY <1>1, <1>2, StepsAre

LEMMA RequestKeeps ==
    ASSUME IInv, NEW r \in Requests, NEW f \in Files,
           UploadMedia(r, f) \/ BeginConfirm(r, f) \/ Handle(r, f) \/ Attaching(r, f)
    PROVE  IInv'
<1> USE DEF Goes, contentUse
<1>1. /\ Rows /\ Typing /\ (Orderly => Sound(f))
      /\ ~ course.late => Calm(f)
      /\ Orderly => ~ course.late /\ ~ course.twice
  BY DEF IInv, Typing, Orderly
<1>2. CASE UploadMedia(r, f)
  <2> DEFINE x == Doing("queue", f)
  <2>1. /\ request[r].file = {} /\ upload[f] = "none" /\ request' = [request EXCEPT ![r] = x]
        /\ stored' = [stored EXCEPT ![f] = "original"] /\ Saves(f, "processing")
        /\ UNCHANGED <<queue, celery, held, posted, cleaner, course>>
    BY <1>2, IdleHasNothing DEF UploadMedia, Puts
  <2>2. /\ Rows' /\ upload'[f] = "processing" /\ stored'[f] = "original" /\ ~ stale'[f]
        /\ \A g \in Files \ {f} : upload'[g] = upload[g] /\ stored'[g] = stored[g] /\ stale'[g] = stale[g]
    BY <1>1, <2>1 DEF Rows, Saves, Status, Objects
  <2>3. Turns(r, f, x)
    BY <2>1 DEF Turns, AtWork
  <2>4. ~ course.late => ~ stale[f]
    BY <1>1, <2>1 DEF Calm, Unfinished
  <2>5. Orderly => Usable(f)' /\ \A step \in AtWork : x = Doing(step, f) => Stage(step, f)'
    <3>1. Stage("queue", f)'
      BY <2>2 DEF Stage
    <3>2. \A step \in AtWork : x = Doing(step, f) => step = "queue"
      BY DoingIs
    <3>3. Orderly => Usable(f)'
      BY <1>1, <2>1, <2>2 DEF Sound, Usable
    <3> QED
      BY <3>1, <3>2, <3>3
  <2>6. Orderly => Alone(r, f)
    BY <2>1, WhoIsAlone
  <2> HIDE DEF x
  <2> QED
    BY <2>1, <2>2, <2>3, <2>4, <2>5, <2>6, RequestTurns
<1>3. CASE BeginConfirm(r, f)
  <2> DEFINE x == Doing("verify", f)
  <2>1. /\ request[r].file = {} /\ upload[f] = "pending" /\ request' = [request EXCEPT ![r] = x]
        /\ ~ course.late => ~ stale[f]
        /\ course.twice \/ ~ InFlight(f)
        /\ UNCHANGED <<upload, stale, stored, queue, celery, held, posted, cleaner, course>>
    BY <1>3, IdleHasNothing DEF BeginConfirm, Confirmable, InTime
  <2>2. Rows' /\ Turns(r, f, x)
    BY <1>1, <2>1 DEF Rows, Turns, AtWork
  <2>3. Orderly => Usable(f)' /\ \A step \in AtWork : x = Doing(step, f) => Stage(step, f)'
    <3>1. Stage("verify", f)'
      BY <2>1 DEF Stage
    <3>2. \A step \in AtWork : x = Doing(step, f) => step = "verify"
      BY DoingIs
    <3>3. Orderly => Usable(f)'
      BY <1>1, <2>1 DEF Sound, Usable
    <3> QED
      BY <3>1, <3>2, <3>3
  <2>4. Orderly => Alone(r, f)
    BY <1>1, <2>1, WhoIsAlone
  <2> HIDE DEF x
  <2> QED
    BY <2>1, <2>2, <2>3, <2>4, RequestTurns
<1>4. CASE Handle(r, f)
  <2>1. PICK pc \in AtWork \ {"post"} : OnStep(r, pc, f)
    BY <1>4 DEF Handle, VerifyOk, VerifyFails, DeleteObject, QueueProcessing, AtWork
  <2>2. (~ course.late => ~ stale[f]) /\ (Orderly => Alone(r, f))
    BY <2>1, AtWorkIsCalm, WhoIsAlone DEF Requested
  <2>3. CASE VerifyOk(r, f)
    <3> DEFINE x == Doing("queue", f)
    <3>1. /\ stored[f] # "none" /\ Saves(f, "processing") /\ request' = [request EXCEPT ![r] = x]
          /\ UNCHANGED <<stored, queue, celery, held, posted, cleaner, course>>
          /\ OnStep(r, "verify", f)
      BY <2>3 DEF VerifyOk, Verifiable
    <3>2. /\ Rows' /\ upload'[f] = "processing" /\ ~ stale'[f]
          /\ \A g \in Files \ {f} : upload'[g] = upload[g] /\ stored'[g] = stored[g] /\ stale'[g] = stale[g]
      BY <1>1, <3>1, SavesTheRow DEF Status
    <3>3. Turns(r, f, x)
      BY <2>1, <3>1 DEF Turns, AtWork
    <3>4. Orderly => Usable(f)' /\ \A step \in AtWork : x = Doing(step, f) => Stage(step, f)'
      <4>1. Stage("queue", f)'
        BY <3>1, <3>2 DEF Stage
      <4>2. \A step \in AtWork : x = Doing(step, f) => step = "queue"
        BY DoingIs
      <4>3. Orderly => upload[f] = "pending"
        BY <1>1, <3>1 DEF Sound, OnItsWay, Stage, AtWork
      <4>4. Orderly => Usable(f)'
        BY <1>1, <3>1, <3>2, <4>3 DEF Sound, Usable
      <4> QED
        BY <4>1, <4>2, <4>4
    <3> HIDE DEF x
    <3> QED
      BY <2>2, <3>1, <3>2, <3>3, <3>4, RequestTurns
  <2>4. CASE VerifyFails(r, f)
    <3> DEFINE x == Doing("delete", f)
    <3>1. /\ Saves(f, "failed") /\ request' = [request EXCEPT ![r] = x]
          /\ UNCHANGED <<stored, queue, celery, held, posted, cleaner, course>>
          /\ OnStep(r, "verify", f)
      BY <2>4 DEF VerifyFails
    <3>2. /\ Rows' /\ upload'[f] = "failed" /\ ~ stale'[f]
          /\ \A g \in Files \ {f} : upload'[g] = upload[g] /\ stored'[g] = stored[g] /\ stale'[g] = stale[g]
      BY <1>1, <3>1, SavesTheRow DEF Status
    <3>3. Turns(r, f, x)
      BY <2>1, <3>1 DEF Turns, AtWork
    <3>4. Orderly => Usable(f)' /\ \A step \in AtWork : x = Doing(step, f) => Stage(step, f)'
      <4>1. Stage("delete", f)'
        BY <3>1, <3>2 DEF Stage
      <4>2. \A step \in AtWork : x = Doing(step, f) => step = "delete"
        BY DoingIs
      <4>3. Orderly => upload[f] = "pending"
        BY <1>1, <3>1 DEF Sound, OnItsWay, Stage, AtWork
      <4>4. Orderly => Usable(f)'
        BY <1>1, <3>1, <3>2, <4>3 DEF Sound, Usable
      <4> QED
        BY <4>1, <4>2, <4>4
    <3> HIDE DEF x
    <3> QED
      BY <2>2, <3>1, <3>2, <3>3, <3>4, RequestTurns
  <2>5. CASE DeleteObject(r, f)
    <3> DEFINE x == Done
    <3>1. /\ OnStep(r, "delete", f) /\ request' = [request EXCEPT ![r] = x]
          /\ stored' = [stored EXCEPT ![f] = "none"] \/ stored' = stored
          /\ UNCHANGED <<upload, stale, queue, celery, held, posted, cleaner, course>>
      BY <2>5 DEF DeleteObject, Puts
    <3>2. Rows' /\ \A g \in Files \ {f} : stored'[g] = stored[g]
      BY <1>1, <3>1 DEF Rows, Objects
    <3>3. Turns(r, f, x) /\ \A step \in AtWork : x # Doing(step, f)
      BY <2>1, <3>1, DoingIs DEF Turns, AtWork
    <3>4. Orderly => Usable(f)'
      <4>1. Orderly => upload[f] = "failed"
        BY <1>1, <3>1 DEF Sound, OnItsWay, Stage, AtWork
      <4> QED
        BY <1>1, <3>1, <4>1 DEF Sound, Usable
    <3> HIDE DEF x
    <3> QED
      BY <2>2, <3>1, <3>2, <3>3, <3>4, RequestTurns
  <2>6. CASE QueueProcessing(r, f)
    <3> DEFINE n == Message("process", f, r, 0)
               x == Done
    <3>1. /\ OnStep(r, "queue", f) /\ request' = [request EXCEPT ![r] = x]
          /\ UNCHANGED <<stored, celery, held, posted, cleaner, course>>
          /\ \/ queue' = queue \union {n} /\ UNCHANGED <<upload, stale>>
             \/ Saves(f, "failed") /\ UNCHANGED queue
      BY <2>6 DEF QueueProcessing
    <3>2. n \in Messages /\ n.file = f /\ n.task = "process"
      BY DEF Message, Messages, Tasks
    <3>3. Turns(r, f, x) /\ \A step \in AtWork : x # Doing(step, f)
      BY <2>1, <3>1, DoingIs DEF Turns, AtWork
    <3>4. Orderly => upload[f] = "processing" /\ stored[f] # "none" /\ Usable(f)
      BY <1>1, <3>1 DEF Sound, OnItsWay, Stage, AtWork
    <3> HIDE DEF n, x
    <3>5. CASE queue' = queue \union {n} /\ UNCHANGED <<upload, stale>>
      <4> DEFINE Q == {n}
      <4>1. Q \in SUBSET Messages /\ queue' = queue \union Q /\ \A y \in Q : y.file = f
        BY <3>2, <3>5
      <4>2. Rows'
        BY <1>1, <3>1, <3>5 DEF Rows
      <4>3. Orderly => Leaves(f, x, Q)
        <5>1. x = Done
          BY DEF x
        <5>2. Orderly => Stage("process", f)' /\ Usable(f)'
          BY <3>1, <3>4, <3>5 DEF Stage, Usable
        <5> QED
          BY <3>2, <3>3, <5>1, <5>2 DEF Leaves
      <4> HIDE DEF Q
      <4> QED
        BY <2>2, <3>1, <3>3, <3>5, <4>1, <4>2, <4>3, RequestStep
    <3>6. CASE Saves(f, "failed") /\ UNCHANGED queue
      <4>1. /\ Rows' /\ upload'[f] = "failed" /\ ~ stale'[f]
            /\ \A g \in Files \ {f} : upload'[g] = upload[g] /\ stored'[g] = stored[g] /\ stale'[g] = stale[g]
        BY <1>1, <3>1, <3>6, SavesTheRow DEF Status
      <4>2. Orderly => Usable(f)'
        BY <3>1, <3>4, <4>1 DEF Usable
      <4> QED
        BY <2>2, <3>1, <3>3, <3>6, <4>1, <4>2, RequestTurns
    <3> QED
      BY <3>1, <3>5, <3>6
  <2> QED
    BY <1>4, <2>3, <2>4, <2>5, <2>6 DEF Handle
<1>5. CASE BeginPost(r, f)
  <2> DEFINE x == Doing("post", f)
  <2>1. /\ request[r].file = {} /\ upload[f] = "ready" /\ request' = [request EXCEPT ![r] = x]
        /\ UNCHANGED <<upload, stale, stored, queue, celery, held, posted, cleaner, course>>
    BY <1>5, IdleHasNothing DEF BeginPost
  <2>2. ~ course.late => ~ stale[f]
    BY <1>1, <2>1 DEF Calm, Unfinished
  <2>3. Turns(r, f, x) /\ (x = Done \/ (x = Doing("post", f) /\ upload[f] = "ready"))
    BY <2>1 DEF Turns, AtWork
  <2> HIDE DEF x
  <2> QED
    BY <2>1, <2>2, <2>3, PostStep
<1>6. CASE CreatePost(r, f)
  <2> DEFINE x == Done
  <2>1. /\ OnStep(r, "post", f) /\ request' = [request EXCEPT ![r] = x] /\ posted' = posted \union {f}
        /\ UNCHANGED <<upload, stale, stored, queue, celery, held, cleaner, course>>
    BY <1>6 DEF CreatePost
  <2>2. (~ course.late => ~ stale[f]) /\ (Orderly => upload[f] = "ready")
    BY <1>1, <2>1, AtWorkIsCalm DEF AtWork, Sound, OnItsWay, Stage
  <2>3. Turns(r, f, x) /\ (x = Done \/ (x = Doing("post", f) /\ upload[f] = "ready"))
    BY <2>1 DEF Turns, AtWork
  <2> HIDE DEF x
  <2> QED
    BY <2>1, <2>2, <2>3, PostStep
<1> QED
  BY <1>2, <1>3, <1>4, <1>5, <1>6 DEF Attaching

LEMMA RequestDiesKeeps ==
    ASSUME IInv, NEW r \in Requests, UploadRequestDies(r)
    PROVE  IInv'
<1> DEFINE x == Done
<1>1. /\ request[r].file # {} /\ request' = [request EXCEPT ![r] = x]
      /\ UNCHANGED <<upload, stale, stored, held, posted, queue, celery, cleaner, course>>
  BY DEF UploadRequestDies, Goes, contentUse
<1>2. PICK step \in AtWork, f \in Files : OnStep(r, step, f)
  BY <1>1, StepsAre DEF IInv, Typing, OnStep
<1>3. Turns(r, f, x) /\ x = Done
  BY <1>1, <1>2 DEF Turns
<1>4. ~ course.late => ~ stale[f]
  BY <1>2, AtWorkIsCalm
<1> HIDE DEF x
<1> QED
  BY <1>1, <1>3, <1>4, PostStep

-----------------------------------------------------------------------------
(* Clients, time and the cleanup.                                          *)

LEMMA WorkStays ==
    ASSUME UNCHANGED <<request, queue, celery>>
    PROVE  \A g : SameWork(g) /\ (InFlight(g)' <=> InFlight(g))
  BY DEF SameWork, OnStep, Queued, Worked, InFlight

LEMMA SoundStays ==
    ASSUME NEW f, Sound(f), UNCHANGED <<request, queue, celery>>,
           \A step : Stage(step, f) /\ step \in AtWork \union Tasks \union {"optimized"} => Stage(step, f)',
           Usable(f)'
    PROVE  Sound(f)'
<1>1. OneAtATime(f)'
  BY DEF Sound, OneAtATime, Requested, OnStep, Queued, Worked
<1>2. \A m \in Messages : m.task \in AtWork \union Tasks \union {"optimized"}
  BY DEF Messages
<1>3. OnItsWay(f)'
  BY <1>2 DEF Sound, OnItsWay, OnStep, Queued, Worked
<1> QED
  BY <1>1, <1>3 DEF Sound

LEMMA ClientKeeps ==
    ASSUME IInv, NEW f \in Files, GenerateUploadUrl(f) \/ ClientUploads(f) \/ Link(f)
    PROVE  IInv'
<1> USE DEF contentUse
<1>1. /\ Rows /\ Typing /\ (Orderly => Sound(f))
      /\ ~ course.late => Calm(f)
  BY DEF IInv, Typing
<1>2. UNCHANGED <<request, queue, celery, posted, cleaner, course>> /\ (held' = held \/ held' = held \union {f})
  BY DEF GenerateUploadUrl, ClientUploads, Link
<1>3. /\ Rows' /\ (~ course.late => ~ stale[f] /\ ~ stale'[f])
      /\ \A g \in Files \ {f} : upload'[g] = upload[g] /\ stored'[g] = stored[g] /\ stale'[g] = stale[g]
      /\ (Sound(f) => Usable(f)')
      /\ \A step : Stage(step, f) /\ step \in AtWork \union Tasks \union {"optimized"} => Stage(step, f)'
  <2>1. CASE GenerateUploadUrl(f)
    <3>1. upload[f] = "none" /\ Saves(f, "pending") /\ UNCHANGED <<stored, held>>
      BY <2>1 DEF GenerateUploadUrl
    <3>2. /\ Rows' /\ upload'[f] = "pending" /\ ~ stale'[f]
          /\ \A g \in Files \ {f} : upload'[g] = upload[g] /\ stored'[g] = stored[g] /\ stale'[g] = stale[g]
      BY <1>1, <3>1, SavesTheRow DEF Status
    <3>3. ~ course.late => ~ stale[f]
      BY <1>1, <3>1 DEF Calm, Unfinished
    <3>4. Sound(f) => Usable(f)'
      BY <1>2, <3>1, <3>2 DEF Sound, Usable
    <3>5. \A step \in AtWork \union Tasks \union {"optimized"} : ~ Stage(step, f)
      BY <3>1 DEF AtWork, Tasks, Stage
    <3> QED
      BY <3>2, <3>3, <3>4, <3>5
  <2>2. CASE ClientUploads(f)
    <3>1. /\ upload[f] = "pending" /\ ~ stale[f] /\ stored' = [stored EXCEPT ![f] = "original"]
          /\ UNCHANGED <<upload, stale, held>>
      BY <2>2 DEF ClientUploads, Puts
    <3>2. Rows' /\ stored'[f] = "original" /\ \A g \in Files \ {f} : stored'[g] = stored[g]
      BY <1>1, <3>1 DEF Rows, Objects
    <3> QED
      BY <1>2, <3>1, <3>2 DEF Sound, Usable, Stage
  <2>3. CASE Link(f)
    <3>1. /\ stored[f] # "none" /\ (course.late \/ ~ stale[f])
          /\ UNCHANGED <<upload, stale, stored>>
      BY <2>3 DEF Link, InTime
    <3>2. Rows'
      BY <1>1, <3>1 DEF Rows
    <3> QED
      BY <1>2, <3>1, <3>2 DEF Sound, Usable, Stage
  <2> QED
    BY <2>1, <2>2, <2>3
<1>4. Typing'
  BY <1>1, <1>2, <1>3 DEF Typing
<1>5. \A g \in Files \ {f} : SameRow(g) /\ SameWork(g)
  BY <1>2, <1>3, WorkStays DEF SameRow
<1>6. Orderly => Sound(f)'
  BY <1>1, <1>2, <1>3, SoundStays
<1> QED
  BY <1>2, <1>3, <1>4, <1>5, <1>6, FileStep

\* The cleanup and time touch no work.
LEMMA RowStep ==
    ASSUME IInv, UNCHANGED <<request, queue, celery, held, posted, course>>, Rows', cleaner' \in Cleanings,
           ~ course.late => \A f \in Files : Calm(f)',
           Orderly => \A f \in Files :
             /\ Usable(f)'
             /\ \A step : Stage(step, f) /\ step \in AtWork \union Tasks \union {"optimized"} => Stage(step, f)'
    PROVE  IInv'
<1>1. Typing'
  BY DEF IInv, Typing
<1>2. Orderly => \A f \in Files : Sound(f)'
  BY SoundStays DEF IInv
<1> QED
  BY <1>1, <1>2 DEF IInv, Orderly

LEMMA TimeKeeps ==
    ASSUME IInv, NEW f \in Files, GetsStale(f)
    PROVE  IInv'
<1>1. /\ upload[f] \in Unfinished /\ ~ stale[f] /\ (course.late \/ ~ InFlight(f))
      /\ stale' = [stale EXCEPT ![f] = TRUE]
      /\ UNCHANGED <<upload, stored, held, posted, request, queue, celery, cleaner, course>>
  BY DEF GetsStale, contentUse
<1>2. /\ Rows' /\ cleaner' \in Cleanings /\ \A g \in Files \ {f} : stale'[g] = stale[g]
      /\ \A g : InFlight(g)' <=> InFlight(g)
  BY <1>1, WorkStays DEF IInv, Typing, Rows
<1>3. ASSUME ~ course.late, NEW g \in Files
      PROVE  Calm(g)'
  <2>1. Calm(g)
    BY <1>3 DEF IInv
  <2>2. CASE g = f
    BY <1>1, <1>2, <1>3, <2>1, <2>2 DEF Calm
  <2>3. CASE g # f
    BY <1>1, <1>2, <2>1, <2>3 DEF Calm
  <2> QED
    BY <2>2, <2>3
<1>4. Orderly => \A g \in Files :
             /\ Usable(g)'
             /\ \A step : Stage(step, g) /\ step \in AtWork \union Tasks \union {"optimized"} => Stage(step, g)'
  BY <1>1 DEF IInv, Sound, Usable, Stage
<1> QED
  BY <1>1, <1>2, <1>3, <1>4, RowStep

\* Whatever the cleanup does with its batch, if it leaves the rows alone.
LEMMA CleanupKeeps ==
    ASSUME IInv, SelectStale \/ ResolveReferenced \/ CleanupDies
    PROVE  IInv'
<1>1. UNCHANGED <<upload, stale, stored, held, posted, request, queue, celery, course>>
  BY DEF SelectStale, ResolveReferenced, CleanupDies, contentUse
<1>2. /\ Rows' /\ cleaner \in Cleanings
      /\ \A g : InFlight(g)' <=> InFlight(g)
  BY <1>1, WorkStays DEF IInv, Typing, Rows
<1>3. Orderly => \A g \in Files :
             /\ Usable(g)'
             /\ \A step : Stage(step, g) /\ step \in AtWork \union Tasks \union {"optimized"} => Stage(step, g)'
  BY <1>1 DEF IInv, Sound, Usable, Stage
<1>4. Rest \in Cleanings /\ Rest.batch = {} /\ Rest.file = {} /\ Rest.pc = "rest"
  BY DEF Rest, Cleanings
<1>5. CASE SelectStale
  <2> DEFINE c == [Rest EXCEPT !.pc = "resolve", !.batch = Abandoned]
  <2>1. c \in Cleanings /\ c.pc = "resolve" /\ c.batch = Abandoned /\ c.file = {}
    BY DEF Rest, Cleanings, Abandoned
  <2>2. cleaner' = c
    BY <1>5 DEF SelectStale
  <2> HIDE DEF c
  <2>3. ASSUME ~ course.late, NEW g \in Files
        PROVE  Calm(g)'
    <3>1. Calm(g)
      BY <2>3 DEF IInv
    <3> QED
      BY <1>1, <1>2, <2>1, <2>2, <3>1 DEF Calm, Abandoned
  <2> QED
    BY <1>1, <1>2, <1>3, <2>1, <2>2, <2>3, RowStep
<1>6. CASE ResolveReferenced
  <2> DEFINE c == [cleaner EXCEPT !.pc = "sweep", !.referenced = cleaner.batch \intersect held]
  <2>1. /\ c \in Cleanings /\ c.pc = "sweep" /\ c.batch = cleaner.batch
        /\ c.referenced = cleaner.batch \intersect held /\ c.file = cleaner.file
    BY <1>2 DEF Cleanings
  <2>2. cleaner' = c /\ cleaner.pc = "resolve"
    BY <1>6 DEF ResolveReferenced
  <2> HIDE DEF c
  <2>3. ASSUME ~ course.late, NEW g \in Files
        PROVE  Calm(g)'
    <3>1. Calm(g)
      BY <2>3 DEF IInv
    <3> QED
      BY <1>1, <1>2, <2>1, <2>2, <3>1 DEF Calm
  <2> QED
    BY <1>1, <1>2, <1>3, <2>1, <2>2, <2>3, RowStep
<1>7. CASE CleanupDies
  <2>1. cleaner' = Rest
    BY <1>7 DEF CleanupDies
  <2>2. ASSUME ~ course.late, NEW g \in Files
        PROVE  Calm(g)'
    <3>1. Calm(g)
      BY <2>2 DEF IInv
    <3> QED
      BY <1>1, <1>2, <1>4, <2>1, <3>1 DEF Calm
  <2> QED
    BY <1>1, <1>2, <1>3, <1>4, <2>1, <2>2, RowStep
<1> QED
  BY <1>5, <1>6, <1>7

\* The cleanup is through with an upload.
LEMMA SweptIs ==
    ASSUME cleaner \in Cleanings, NEW f, Swept(f)
    PROVE  /\ cleaner' \in Cleanings /\ cleaner'.file = {}
           /\ \A g : g \in cleaner'.batch <=> g \in cleaner.batch /\ g # f /\ cleaner'.pc = "sweep"
           /\ cleaner'.batch # {} => cleaner'.referenced = cleaner.referenced
<1>1. CASE cleaner.batch = {f}
  <2>1. cleaner' = Rest
    BY <1>1 DEF Swept
  <2>2. Rest \in Cleanings /\ Rest.batch = {} /\ Rest.file = {} /\ Rest.pc = "rest"
    BY DEF Rest, Cleanings
  <2> QED
    BY <1>1, <2>1, <2>2
<1>2. CASE cleaner.batch # {f}
  <2> DEFINE c == [cleaner EXCEPT !.pc = "sweep", !.batch = cleaner.batch \ {f}, !.file = {}]
  <2>1. /\ c \in Cleanings /\ c.pc = "sweep" /\ c.batch = cleaner.batch \ {f}
        /\ c.referenced = cleaner.referenced /\ c.file = {}
    BY DEF Cleanings
  <2>2. cleaner' = c
    BY <1>2 DEF Swept
  <2> HIDE DEF c
  <2> QED
    BY <2>1, <2>2
<1> QED
  BY <1>1, <1>2

LEMMA SweepKeeps ==
    ASSUME IInv, NEW f \in Files, Sweep(f)
    PROVE  IInv'
<1> USE DEF contentUse
<1>1. /\ Rows /\ cleaner \in Cleanings
      /\ ~ course.late => \A g \in Files : Calm(g)
      /\ Orderly => ~ course.late /\ \A g \in Files : Sound(g)
  BY DEF IInv, Typing, Orderly
<1>2. UNCHANGED <<request, queue, celery, held, posted, course>>
  BY DEF Sweep, Heal, DeleteAbandoned, MarkAbandoned
<1>3. \A g : InFlight(g)' <=> InFlight(g)
  BY <1>2, WorkStays
<1>4. ASSUME ~ course.late, f \in cleaner.batch
      PROVE  upload[f] \in Unfinished /\ ~ InFlight(f)
  BY <1>1, <1>4 DEF Calm
\* No request and no task is at work on what is swept.
<1>5. ASSUME Orderly, f \in cleaner.batch, NEW g \in Files,
             g # f => upload'[g] = upload[g] /\ stored'[g] = stored[g], Usable(f)'
      PROVE  Sound(g)'
  <2>1. CASE g = f
    <3>1. /\ \A r \in Requests, step \in AtWork : ~ OnStep(r, step, f)
          /\ \A m \in Messages : ~ Queued(m, f) /\ \A w \in CeleryWorkers : ~ Worked(w, m, f)
      BY <1>1, <1>4, <1>5, InFlightIs DEF IInv
    <3>2. /\ \A r \in Requests, step \in AtWork : ~ OnStep(r, step, f)'
          /\ \A m \in Messages : ~ Queued(m, f)' /\ \A w \in CeleryWorkers : ~ Worked(w, m, f)'
      BY <1>2, <3>1 DEF OnStep, Queued, Worked
    <3>3. \A r \in Requests : ~ Requested(r, f)'
      BY <3>2 DEF Requested, AtWork
    <3> QED
      BY <1>5, <2>1, <3>2, <3>3 DEF Sound, OneAtATime, OnItsWay
  <2>2. CASE g # f
    <3>1. Usable(g)'
      BY <1>1, <1>2, <1>5, <2>2 DEF Sound, Usable
    <3> QED
      BY <1>1, <1>2, <1>5, <2>2, <3>1, SoundStays DEF Stage
  <2> QED
    BY <2>1, <2>2
<1>6. CASE Heal(f)
  <2>1. /\ cleaner.pc = "sweep" /\ f \in cleaner.batch /\ f \in cleaner.referenced
        /\ Saves(f, "ready") /\ Swept(f) /\ UNCHANGED stored
    BY <1>6 DEF Heal
  <2>2. /\ Rows' /\ upload'[f] = "ready" /\ ~ stale'[f]
        /\ \A g \in Files \ {f} : upload'[g] = upload[g] /\ stored'[g] = stored[g] /\ stale'[g] = stale[g]
    BY <1>1, <2>1, SavesTheRow DEF Status
  <2>3. ASSUME ~ course.late, NEW g \in Files
        PROVE  Calm(g)'
    BY <1>1, <1>2, <1>3, <2>1, <2>2, <2>3, SweptIs DEF Calm
  <2>4. ASSUME Orderly
        PROVE  Usable(f)'
    <3>1. f \in held /\ upload[f] \in Unfinished
      BY <1>1, <1>4, <2>1, <2>4 DEF Calm
    <3> QED
      BY <1>1, <1>2, <2>1, <2>2, <2>4, <3>1 DEF Sound, Usable, Unfinished
  <2>5. Typing'
    BY <1>1, <1>2, <2>1, <2>2, SweptIs DEF IInv, Typing
  <2> QED
    BY <1>1, <1>2, <1>5, <2>1, <2>2, <2>3, <2>4, <2>5 DEF IInv, Orderly
<1>7. CASE MarkAbandoned(f)
  <2>1. /\ cleaner.pc = "mark" /\ cleaner.file = {f}
        /\ Saves(f, "failed") /\ Swept(f) /\ UNCHANGED stored
    BY <1>7 DEF MarkAbandoned
  <2>2. /\ Rows' /\ upload'[f] = "failed" /\ ~ stale'[f]
        /\ \A g \in Files \ {f} : upload'[g] = upload[g] /\ stored'[g] = stored[g] /\ stale'[g] = stale[g]
    BY <1>1, <2>1, SavesTheRow DEF Status
  <2>3. ASSUME ~ course.late, NEW g \in Files
        PROVE  Calm(g)'
    BY <1>1, <1>2, <1>3, <2>1, <2>2, <2>3, SweptIs DEF Calm
  <2>4. ASSUME Orderly
        PROVE  Usable(f)' /\ f \in cleaner.batch
    <3>1. f \in cleaner.batch
      BY <1>1, <2>1, <2>4 DEF Calm
    <3>2. upload[f] \in Unfinished
      BY <1>1, <1>4, <2>4, <3>1
    <3> QED
      BY <1>1, <1>2, <2>2, <2>4, <3>1, <3>2 DEF Sound, Usable, Unfinished
  <2>5. Typing'
    BY <1>1, <1>2, <2>1, <2>2, SweptIs DEF IInv, Typing
  <2> QED
    BY <1>1, <1>2, <1>5, <2>1, <2>2, <2>3, <2>4, <2>5 DEF IInv, Orderly
<1>8. CASE DeleteAbandoned(f)
  <2> DEFINE c == [cleaner EXCEPT !.pc = "mark", !.file = {f}]
  <2>1. /\ c \in Cleanings /\ c.pc = "mark" /\ c.file = {f}
        /\ c.batch = cleaner.batch /\ c.referenced = cleaner.referenced
    BY <1>1 DEF Cleanings
  <2>2. /\ cleaner.pc = "sweep" /\ f \in cleaner.batch /\ f \notin cleaner.referenced
        /\ stored' = [stored EXCEPT ![f] = "none"] \/ stored' = stored
        /\ cleaner' = c /\ UNCHANGED <<upload, stale>>
    BY <1>8 DEF DeleteAbandoned, Puts
  <2> HIDE DEF c
  <2>3. Rows' /\ \A g \in Files \ {f} : stored'[g] = stored[g]
    BY <1>1, <2>2 DEF Rows, Objects
  <2>4. ASSUME ~ course.late, NEW g \in Files
        PROVE  Calm(g)'
    BY <1>1, <1>2, <1>3, <2>1, <2>2, <2>4 DEF Calm
  <2>5. ASSUME Orderly
        PROVE  Usable(f)'
    <3>1. f \notin held /\ upload[f] \in Unfinished
      BY <1>1, <1>4, <2>2, <2>5 DEF Calm
    <3> QED
      BY <1>1, <1>2, <2>2, <2>5, <3>1 DEF Sound, Usable, Unfinished
  <2>6. Typing'
    BY <1>1, <1>2, <2>1, <2>2, <2>3 DEF IInv, Typing
  <2> QED
    BY <1>1, <1>2, <1>5, <2>2, <2>3, <2>4, <2>5, <2>6 DEF IInv, Orderly
<1> QED
  BY <1>6, <1>7, <1>8 DEF Sweep

-----------------------------------------------------------------------------
(* The theorems.                                                           *)

LEMMA InitHolds == MediaInit => IInv
<1> SUFFICES ASSUME MediaInit
             PROVE  IInv
  OBVIOUS
<1>1. /\ \A f \in Files : upload[f] = "none" /\ stale[f] = FALSE /\ stored[f] = "none"
      /\ Rows /\ held = {} /\ posted = {} /\ queue = {} /\ course \in Courses
      /\ \A r \in Requests : request[r] = [pc |-> "idle", file |-> {}]
      /\ \A w \in CeleryWorkers : celery[w] = {}
  BY DEF MediaInit, Rows, Objects, Status
<1>2. request \in [Requests -> Steps] /\ celery \in [CeleryWorkers -> SUBSET Messages]
  BY DEF MediaInit, Steps
<1>3. cleaner \in Cleanings /\ cleaner.batch = {} /\ cleaner.file = {}
  BY DEF MediaInit, Rest, Cleanings
<1>4. Typing
  BY <1>1, <1>2, <1>3 DEF Typing
<1>5. ASSUME NEW f \in Files
      PROVE  /\ \A r \in Requests, step \in AtWork : ~ OnStep(r, step, f)
             /\ \A m \in Messages : ~ Queued(m, f) /\ \A w \in CeleryWorkers : ~ Worked(w, m, f)
  BY <1>1, DoingIs DEF OnStep, Queued, Worked
<1>6. ASSUME NEW f \in Files
      PROVE  Calm(f)
  BY <1>1, <1>3 DEF Calm
<1>7. ASSUME NEW f \in Files
      PROVE  Sound(f)
  <2>1. \A r \in Requests : ~ Requested(r, f)
    BY <1>5 DEF Requested
  <2> QED
    BY <1>1, <1>5, <2>1 DEF Sound, OneAtATime, OnItsWay, Usable
<1> QED
  BY <1>4, <1>6, <1>7 DEF IInv

LEMMA NextKeeps == IInv /\ [MediaNext]_mediaVars => IInv'
<1> SUFFICES ASSUME IInv, [MediaNext]_mediaVars
             PROVE  IInv'
  OBVIOUS
<1>1. ASSUME NEW f \in Files, ClientUploads(f) \/ Link(f) \/ GetsStale(f) \/ Sweep(f)
      PROVE  IInv'
  BY <1>1, ClientKeeps, TimeKeeps, SweepKeeps
<1>2. ASSUME NEW f \in Files, NEW r \in Requests,
             Uploading(r, f) \/ BeginConfirm(r, f) \/ Handle(r, f) \/ Attaching(r, f)
      PROVE  IInv'
  BY <1>2, ClientKeeps, RequestKeeps DEF Uploading
<1>3. ASSUME NEW r \in Requests, UploadRequestDies(r)
      PROVE  IInv'
  BY <1>3, RequestDiesKeeps
<1>4. ASSUME NEW m \in queue, SkipTask(m) \/ \E w \in CeleryWorkers : StartTask(w, m)
      PROVE  IInv'
  BY <1>4, SkipKeeps, StartKeeps
<1>5. ASSUME NEW w \in CeleryWorkers, NEW m \in celery[w], Work(w, m)
      PROVE  IInv'
  BY <1>5, WorkKeeps
<1>6. ASSUME SelectStale \/ ResolveReferenced \/ CleanupDies
      PROVE  IInv'
  BY <1>6, CleanupKeeps
<1>7. ASSUME UNCHANGED mediaVars
      PROVE  IInv'
  <2>1. UNCHANGED <<upload, stale, stored, held, posted, request, queue, celery, cleaner, course>>
    BY <1>7 DEF mediaVars, contentUse
  <2>2. Rows' /\ cleaner' \in Cleanings /\ \A g : InFlight(g)' <=> InFlight(g)
    BY <2>1, WorkStays DEF IInv, Typing, Rows
  <2>3. ~ course.late => \A f \in Files : Calm(f)'
    BY <2>1, <2>2 DEF IInv, Calm
  <2>4. Orderly => \A f \in Files :
             /\ Usable(f)'
             /\ \A step : Stage(step, f) /\ step \in AtWork \union Tasks \union {"optimized"} => Stage(step, f)'
    BY <2>1 DEF IInv, Sound, Usable, Stage
  <2> QED
    BY <2>1, <2>2, <2>3, <2>4, RowStep
<1> QED
  BY <1>1, <1>2, <1>3, <1>4, <1>5, <1>6, <1>7 DEF MediaNext

LEMMA Invariance == MediaSpec => []IInv
  BY InitHolds, NextKeeps, PTL DEF MediaSpec

\* What is ready has an object that content can show, and what is posted is ready, for any
\* uploads, requests, workers and retries.
THEOREM UploadsAreUsable == MediaSpec => []ReadyIsUsable
<1>1. IInv => ReadyIsUsable
  BY DEF IInv, Sound, Usable, ReadyIsUsable
<1> QED
  BY <1>1, Invariance, PTL

\* The cleanup deletes no object that content holds, even if an upload is confirmed twice at a
\* time, nor one that is posted, if not.
THEOREM CleanupSpares == MediaSpec => CleanupSparesWhatIsUsed
<1>1. ASSUME IInv, ~ course.late, NEW f \in held \union (IF course.twice THEN {} ELSE posted),
             DeleteAbandoned(f)
      PROVE  FALSE
  <2>1. /\ f \in Files /\ (f \notin held => f \in posted /\ Orderly)
    BY <1>1 DEF IInv, Typing, Orderly
  <2>2. cleaner.pc = "sweep" /\ f \in cleaner.batch /\ f \notin cleaner.referenced
    BY <1>1 DEF DeleteAbandoned
  <2>3. f \notin held /\ upload[f] \in Unfinished
    BY <1>1, <2>1, <2>2 DEF IInv, Calm
  <2>4. upload[f] = "ready"
    BY <1>1, <2>1, <2>3 DEF IInv, Sound, Usable
  <2> QED
    BY <2>3, <2>4 DEF Unfinished
<1>2. IInv /\ [MediaNext]_mediaVars =>
        [~ course.late => \A f \in held \union (IF course.twice THEN {} ELSE posted) :
           DeleteAbandoned(f) => stored'[f] = stored[f]]_mediaVars
  BY <1>1
<1> QED
  BY <1>2, Invariance, PTL DEF MediaSpec, CleanupSparesWhatIsUsed

\* Only rows that have not ended are saved.
LEMMA EndsStay ==
    ASSUME IInv, Orderly, MediaNext, NEW f \in Files, upload[f] \in {"ready", "failed"}
    PROVE  upload'[f] = upload[f]
<1> USE DEF contentUse
<1>1. Rows /\ Typing /\ \A g \in Files : Calm(g) /\ Sound(g)
  BY DEF IInv, Typing, Orderly
<1>2. ASSUME NEW g \in Files, upload[g] \notin {"ready", "failed"}, NEW s, Saves(g, s)
      PROVE  upload'[f] = upload[f]
  BY <1>1, <1>2 DEF Saves, Rows
<1>3. ASSUME NEW g \in Files, ClientUploads(g) \/ Link(g) \/ GetsStale(g)
      PROVE  upload'[f] = upload[f]
  BY <1>3 DEF ClientUploads, Link, GetsStale
<1>4. ASSUME NEW g \in Files, Sweep(g)
      PROVE  upload'[f] = upload[f]
  <2>1. CASE DeleteAbandoned(g)
    BY <2>1 DEF DeleteAbandoned
  <2>2. CASE Heal(g)
    BY <1>1, <1>2, <2>2 DEF Heal, Calm, Unfinished
  <2>3. CASE MarkAbandoned(g)
    BY <1>1, <1>2, <2>3 DEF MarkAbandoned, Calm, Unfinished
  <2> QED
    BY <1>4, <2>1, <2>2, <2>3 DEF Sweep
<1>5. ASSUME NEW g \in Files, NEW r \in Requests, Uploading(r, g) \/ BeginConfirm(r, g) \/ Attaching(r, g)
      PROVE  upload'[f] = upload[f]
  BY <1>2, <1>5 DEF Uploading, GenerateUploadUrl, UploadMedia, BeginConfirm, Attaching, BeginPost, CreatePost
<1>6. ASSUME NEW g \in Files, NEW r \in Requests, Handle(r, g)
      PROVE  upload'[f] = upload[f]
  <2>1. \A step \in AtWork : OnStep(r, step, g) => Stage(step, g)
    BY <1>1 DEF Sound, OnItsWay
  <2>2. CASE VerifyOk(r, g) \/ VerifyFails(r, g)
    BY <1>2, <2>1, <2>2 DEF VerifyOk, VerifyFails, Stage, AtWork
  <2>3. CASE QueueProcessing(r, g)
    BY <1>2, <2>1, <2>3 DEF QueueProcessing, Stage, AtWork
  <2>4. CASE DeleteObject(r, g)
    BY <2>4 DEF DeleteObject
  <2> QED
    BY <1>6, <2>2, <2>3, <2>4 DEF Handle
<1>7. ASSUME NEW w \in CeleryWorkers, NEW m \in celery[w], Work(w, m)
      PROVE  upload'[f] = upload[f]
  <2>1. m \in Messages /\ m.file \in Files /\ Stage(m.task, m.file)
    BY <1>1 DEF Typing, Messages, Sound, OnItsWay, Worked
  <2>2. CASE QueueChain(w, m)
    BY <1>2, <2>1, <2>2 DEF QueueChain, Stage
  <2>3. CASE FinalizeMediaReady(w, m) \/ FailStage(w, m)
    BY <1>2, <2>1, <2>3 DEF FinalizeMediaReady, FailStage, Stage
  <2>4. CASE PutOptimized(w, m) \/ SaveOptimized(w, m) \/ GenerateThumbnail(w, m) \/ RetryStage(w, m) \/ LoseTask(w, m)
    BY <2>4 DEF PutOptimized, SaveOptimized, GenerateThumbnail, RetryStage, LoseTask
  <2> QED
    BY <1>7, <2>2, <2>3, <2>4 DEF Work
<1>8. CASE \/ \E r \in Requests : UploadRequestDies(r)
           \/ \E m \in queue : SkipTask(m) \/ \E w \in CeleryWorkers : StartTask(w, m)
           \/ SelectStale \/ ResolveReferenced \/ CleanupDies
  BY <1>8 DEF UploadRequestDies, SkipTask, StartTask, SelectStale, ResolveReferenced, CleanupDies
<1> QED
  BY <1>3, <1>4, <1>5, <1>6, <1>7, <1>8 DEF MediaNext

\* An upload that was told to be ready, or to have failed, stays so.
THEOREM EndsAreFinal == MediaSpec => EndedIsFinal
<1>1. IInv /\ [MediaNext]_mediaVars =>
        [Orderly => \A f \in Files : upload[f] \in {"ready", "failed"} => upload'[f] = upload[f]]_mediaVars
  BY EndsStay
<1> QED
  BY <1>1, Invariance, PTL DEF MediaSpec, EndedIsFinal

=============================================================================
