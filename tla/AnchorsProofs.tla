--------------------------- MODULE AnchorsProofs ---------------------------
(***************************************************************************)
(* Members are told of a posting at most once, for any anchors, workers    *)
(* and circumstances, whatever fails.  What makes it inductive: a posting  *)
(* that a worker has yet to tell is on the list of no other worker, has    *)
(* been counted and was told to nobody, and so is every posting to come.   *)
(*                                                                         *)
(* And an anchor is posted and expires in time when nothing fails: every   *)
(* message that counts is about the time its row now says, or about a      *)
(* posting of this instant.                                                *)
(***************************************************************************)
EXTENDS Anchors, TLAPS

Messages == [task : {"none", "post", "expire"}, anchor : Anchors \union {0},
             eta : Nat, id : Nat]
Rows == [pc : {"idle", "post", "check"}, message : Messages,
         pending : SUBSET (Anchors \X Nat), expires : Nat]

Typing ==
    /\ setup \in Setups
    /\ now \in Nat /\ issued \in Nat
    /\ queue \subseteq Messages /\ \A m \in queue : m.anchor \in Anchors
    /\ worker \in [Workers -> Rows]
    /\ \A w \in Workers : At(w, "post") => worker[w].message.anchor \in Anchors
    /\ posts \in [Anchors -> Nat]
    /\ told \in [Anchors -> [1 .. MaxPosts -> Nat]]

\* What a worker has yet to tell was counted and not told.
PendingIsUntold ==
    \A w \in Workers : \A a \in Anchors, n \in Nat :
        <<a, n>> \in worker[w].pending =>
            n <= posts[a] /\ (n \in 1 .. MaxPosts => told[a][n] = 0)

\* No two workers have to tell of one posting.
PendingIsExclusive ==
    \A v, w \in Workers : v # w => worker[v].pending \intersect worker[w].pending = {}

FutureIsUntold ==
    \A a \in Anchors : \A n \in 1 .. MaxPosts : n > posts[a] => told[a][n] = 0

Untold == PendingIsUntold /\ PendingIsExclusive /\ FutureIsUntold /\ ToldOnce

IInv == Typing /\ Untold

-----------------------------------------------------------------------------
(* Typing.                                                                 *)

LEMMA SetupType ==
    ASSUME setup \in Setups
    PROVE  /\ setup.anchors \subseteq Anchors
           /\ setup.end \in Nat
  BY SetupAssumption

LEMMA ConstantsType == Duration \in Nat /\ MaxPosts \in Nat
  BY DurationAssumption

LEMMA ExpiryType ==
    ASSUME now \in Nat, NEW a \in Anchors
    PROVE  Expiry(a) \in Messages /\ Expiry(a).anchor \in Anchors
  BY ConstantsType DEF Expiry, ExpireMessage, Messages

LEMMA CountedType ==
    ASSUME posts \in [Anchors -> Nat], NEW S, Counted(S)
    PROVE  posts' \in [Anchors -> Nat]
  BY DEF Counted

LEMMA ToldType ==
    ASSUME told \in [Anchors -> [1 .. MaxPosts -> Nat]], NEW a \in Anchors,
           NEW k \in 1 .. MaxPosts
    PROVE  told[a][k] \in Nat
  OBVIOUS

\* Writing one count of what was told writes no other, and none beyond the bound.
LEMMA TellingOne ==
    ASSUME told \in [Anchors -> [1 .. MaxPosts -> Nat]],
           NEW a \in Anchors, NEW k \in Nat, NEW x \in Nat,
           told' = [told EXCEPT ![a][k] = x]
    PROVE  /\ told' \in [Anchors -> [1 .. MaxPosts -> Nat]]
           /\ \A b \in Anchors : \A n \in 1 .. MaxPosts :
                told'[b][n] = IF b = a /\ n = k THEN x ELSE told[b][n]
<1> DEFINE r == [told[a] EXCEPT ![k] = x]
<1>1. told' = [told EXCEPT ![a] = r]
  OBVIOUS
<1>2. /\ r \in [1 .. MaxPosts -> Nat]
      /\ \A n \in 1 .. MaxPosts : r[n] = IF n = k THEN x ELSE told[a][n]
  OBVIOUS
<1> HIDE DEF r
<1>3. told' \in [Anchors -> [1 .. MaxPosts -> Nat]]
  BY <1>1, <1>2
<1>4. \A b \in Anchors : told'[b] = IF b = a THEN r ELSE told[b]
  BY <1>1
<1> QED
  BY <1>2, <1>3, <1>4

LEMMA TellingNone ==
    ASSUME told \in [Anchors -> [1 .. MaxPosts -> Nat]],
           NEW a \in Anchors, NEW k, NEW x, k \notin 1 .. MaxPosts,
           told' = [told EXCEPT ![a][k] = x]
    PROVE  told' = told
<1>1. [told[a] EXCEPT ![k] = x] = told[a]
  OBVIOUS
<1> QED
  BY <1>1

LEMMA RequestTyping ==
    ASSUME Typing, NEW a \in setup.anchors, Request(a)
    PROVE  Typing'
<1> a \in Anchors
  BY SetupType DEF Typing
<1> USE DEF Typing, At, vars, celery, history
<1>1. CASE CreateDraft(a)
  BY <1>1 DEF CreateDraft
<1>2. CASE SendNow(a)
  <2>1. posts' \in [Anchors -> Nat] /\ Expiry(a) \in Messages /\ Expiry(a).anchor \in Anchors
    BY <1>2, CountedType, ExpiryType DEF SendNow
  <2>2. PICK n \in 0 .. 1 : told' = [told EXCEPT ![a][posts[a] + 1] = n]
    BY <1>2 DEF SendNow
  <2>3. UNCHANGED <<setup, now, issued, worker>> /\ queue' = queue \union {Expiry(a)}
    BY <1>2 DEF SendNow
  <2> DEFINE k == posts[a] + 1
  <2>4. k \in Nat /\ n \in Nat /\ told' = [told EXCEPT ![a][k] = n]
    BY <2>2
  <2>5. told' \in [Anchors -> [1 .. MaxPosts -> Nat]]
    <3> HIDE DEF k, Typing
    <3>1. told \in [Anchors -> [1 .. MaxPosts -> Nat]]
      BY DEF Typing
    <3> QED
      BY <2>4, <3>1, TellingOne
  <2> QED
    BY <2>1, <2>3, <2>5
<1>3. CASE SendNowFails(a)
  <2>1. Expiry(a) \in Messages /\ Expiry(a).anchor \in Anchors
    BY ExpiryType
  <2> QED
    BY <1>3, <2>1 DEF SendNowFails
<1>4. CASE CancelScheduled(a) \/ DeleteAnchor(a) \/ HideAnchor(a) \/ RestoreAnchor(a)
  BY <1>4 DEF CancelScheduled, DeleteAnchor, HideAnchor, RestoreAnchor
<1>6. CASE CreatorLeaves(a) \/ CreatorReturns(a) \/ CreatorIsPurged(a)
  BY <1>6 DEF CreatorLeaves, CreatorReturns, CreatorIsPurged
<1>5. ASSUME NEW t \in now .. setup.end,
             ScheduleAnchor(a, t) \/ ScheduleAnchorFails(a, t) \/ CreateAnchor(a, t)
      PROVE  Typing'
  <2>1. PostMessage(a, t, issued + 1) \in Messages /\ PostMessage(a, t, issued + 1).anchor = a
    BY SetupType DEF PostMessage, Messages
  <2>2. CASE ScheduleAnchor(a, t)
    BY <2>1, <2>2 DEF ScheduleAnchor, SendPost
  <2>3. CASE ScheduleAnchorFails(a, t)
    BY <2>1, <2>3 DEF ScheduleAnchorFails, SendPost
  <2>4. CASE CreateAnchor(a, t)
    BY <2>1, <2>4, CountedType DEF CreateAnchor, SendPost
  <2> QED
    BY <1>5, <2>2, <2>3, <2>4
<1> QED
  BY <1>1, <1>2, <1>3, <1>4, <1>5, <1>6 DEF Request

LEMMA TaskTyping ==
    ASSUME Typing, NEW m \in queue, Task(m)
    PROVE  Typing'
<1> m \in Messages /\ m.anchor \in Anchors
  BY DEF Typing
<1> USE DEF Typing, At, vars, celery, history
<1>1. CASE DropRevoked(m) \/ SkipPost(m) \/ ExpireAnchor(m)
  BY <1>1 DEF DropRevoked, SkipPost, ExpireAnchor
<1>2. ASSUME NEW w \in Workers, PostScheduled(w, m)
      PROVE  Typing'
  <2> DEFINE r == [pc |-> "post", message |-> m, pending |-> {<<m.anchor, posts[m.anchor] + 1>>},
                   expires |-> now + Duration]
  <2>1. posts' \in [Anchors -> Nat]
    BY <1>2, CountedType DEF PostScheduled
  <2>2. r \in Rows
    BY ConstantsType DEF Rows
  <2>3. worker' = [worker EXCEPT ![w] = r] /\ UNCHANGED <<setup, now, issued, queue, told>>
    BY <1>2 DEF PostScheduled, Goes
  <2> HIDE DEF Rows
  <2>4. worker' \in [Workers -> Rows]
    BY <2>2, <2>3
  <2>5. \A v \in Workers : worker'[v].pc = "post" => worker'[v].message.anchor \in Anchors
    BY <2>3
  <2> QED
    BY <2>1, <2>3, <2>4, <2>5
<1> QED
  BY <1>1, <1>2 DEF Task

LEMMA CheckTyping ==
    ASSUME Typing, NEW w \in Workers, NEW S \in SUBSET setup.anchors, CheckScheduled(w, S)
    PROVE  Typing'
<1> S \subseteq Anchors
  BY SetupType DEF Typing
<1> USE DEF Typing, At
<1> DEFINE P == {<<a, posts[a] + 1>> : a \in S}
           r == [Idle EXCEPT !.pc = "check", !.pending = P]
<1>1. posts' \in [Anchors -> Nat]
  BY CountedType DEF CheckScheduled
<1>2. NoMessage \in Messages
  BY DEF NoMessage, Messages
<1>3. r \in Rows
  <2>1. P \subseteq Anchors \X Nat
    OBVIOUS
  <2> HIDE DEF P
  <2> QED
    BY <1>2, <2>1 DEF Rows, Idle
<1>4. worker' = [worker EXCEPT ![w] = r] /\ UNCHANGED <<setup, now, issued, told>>
  BY DEF CheckScheduled, Goes
<1>5. queue' \subseteq Messages /\ \A m \in queue' : m.anchor \in Anchors
  BY ExpiryType DEF CheckScheduled
<1> HIDE DEF Rows
<1>6. worker' \in [Workers -> Rows]
  BY <1>3, <1>4
<1>7. \A v \in Workers : worker'[v].pc = "post" => worker'[v].message.anchor \in Anchors
  BY <1>4 DEF Idle
<1> QED
  BY <1>1, <1>4, <1>5, <1>6, <1>7

LEMMA IdleType == Idle \in Rows /\ Idle.pc # "post"
  BY DEF Idle, Rows, Messages, NoMessage

LEMMA WorkerTyping ==
    ASSUME Typing, NEW w \in Workers, Tell(w) \/ Finish(w) \/ Crash(w)
    PROVE  Typing'
<1> USE DEF Typing, At
<1>1. CASE Tell(w)
  <2>1. PICK p \in worker[w].pending :
          /\ told' = [told EXCEPT ![p[1]][p[2]] = @ + 1] \/ UNCHANGED told
          /\ worker' = [worker EXCEPT ![w] = [worker[w] EXCEPT !.pending = @ \ {p}]]
    BY <1>1 DEF Tell, Goes
  <2>2. UNCHANGED <<setup, now, issued, queue, posts>>
    BY <1>1 DEF Tell
  <2> DEFINE r == [worker[w] EXCEPT !.pending = @ \ {p}]
  <2>3. r \in Rows /\ r.pc = worker[w].pc /\ r.message = worker[w].message
    BY DEF Rows
  <2>4. PICK a \in Anchors, k \in Nat : p = <<a, k>>
    BY DEF Rows
  <2> DEFINE x == told[a][k] + 1
  <2>5. (told' = [told EXCEPT ![a][k] = x]) \/ UNCHANGED told
    BY <2>1, <2>4
  <2>6. k \in 1 .. MaxPosts => x \in Nat
    BY ToldType
  <2> HIDE DEF x
  <2>7. told' \in [Anchors -> [1 .. MaxPosts -> Nat]]
    BY <2>5, <2>6, TellingOne, TellingNone
  <2> HIDE DEF r
  <2>8. worker' = [worker EXCEPT ![w] = r]
    BY <2>1 DEF r
  <2>9. worker' \in [Workers -> Rows]
    BY <2>3, <2>8
  <2>10. \A v \in Workers : worker'[v].pc = "post" => worker'[v].message.anchor \in Anchors
    BY <2>3, <2>8
  <2> QED
    BY <2>2, <2>7, <2>9, <2>10
<1>2. CASE Finish(w) \/ Crash(w)
  <2>1. worker' = [worker EXCEPT ![w] = Idle] /\ UNCHANGED <<setup, now, issued, posts, told>>
    BY <1>2 DEF Finish, Crash, Goes, history
  <2>2. worker' \in [Workers -> Rows]
    BY <2>1, IdleType
  <2>3. \A v \in Workers : worker'[v].pc = "post" => worker'[v].message.anchor \in Anchors
    BY <2>1, IdleType
  <2>4. queue' \subseteq Messages /\ \A m \in queue' : m.anchor \in Anchors
    <3>1. CASE At(w, "post") /\ Finish(w)
      <4>1. worker[w].expires \in Nat /\ worker[w].message.anchor \in Anchors
        BY <3>1 DEF Rows
      <4> QED
        BY <3>1, <4>1 DEF Finish, ExpireMessage, Messages
    <3>2. CASE ~ (At(w, "post") /\ Finish(w))
      BY <1>2, <3>2 DEF Finish, Crash
    <3> QED
      BY <3>1, <3>2
  <2> QED
    BY <2>1, <2>2, <2>3, <2>4
<1> QED
  BY <1>1, <1>2

\* Type correctness of every step.
LEMMA StepTyping ==
    ASSUME Typing, [Next]_vars
    PROVE  Typing'
<1>1. ASSUME NEW S \in SUBSET setup.anchors, CheckScheduledFails(S)
      PROVE  Typing'
  <2>1. queue' \subseteq Messages /\ \A m \in queue' : m.anchor \in Anchors
    BY <1>1, ExpiryType, SetupType DEF CheckScheduledFails, Typing
  <2> QED
    BY <1>1, <2>1 DEF CheckScheduledFails, Typing, At, history
<1>2. CASE PurgeExpired \/ Restart \/ Tick \/ UNCHANGED vars
  BY <1>2 DEF PurgeExpired, Restart, Tick, vars, celery, history, Typing, At
<1> QED
  BY <1>1, <1>2, RequestTyping, TaskTyping, CheckTyping, WorkerTyping DEF Next, Check

-----------------------------------------------------------------------------
(* Who was told.                                                           *)

\* Nobody is told and no worker gets anything to tell: counting a posting and dropping
\* what a worker had to tell do no harm.
LEMMA NobodyTold ==
    ASSUME Typing, Untold, UNCHANGED told,
           posts' \in [Anchors -> Nat], \A a \in Anchors : posts'[a] >= posts[a],
           \A w \in Workers : worker'[w].pending \subseteq worker[w].pending
    PROVE  Untold'
<1> USE DEF Untold, Typing
<1>1. PendingIsUntold'
  <2> SUFFICES ASSUME NEW w \in Workers, NEW a \in Anchors, NEW n \in Nat,
                      <<a, n>> \in worker'[w].pending
               PROVE  n <= posts'[a] /\ (n \in 1 .. MaxPosts => told[a][n] = 0)
    BY DEF PendingIsUntold
  <2>1. n <= posts[a] /\ (n \in 1 .. MaxPosts => told[a][n] = 0)
    BY DEF PendingIsUntold
  <2> QED
    BY <2>1
<1>2. PendingIsExclusive'
  BY DEF PendingIsExclusive
<1>3. FutureIsUntold'
  <2> SUFFICES ASSUME NEW a \in Anchors, NEW n \in 1 .. MaxPosts, n > posts'[a]
               PROVE  told[a][n] = 0
    BY DEF FutureIsUntold
  <2>1. n > posts[a]
    BY ConstantsType
  <2> QED
    BY <2>1 DEF FutureIsUntold
<1>4. ToldOnce'
  BY DEF ToldOnce
<1> QED
  BY <1>1, <1>2, <1>3, <1>4

LEMMA CountedValue ==
    ASSUME posts \in [Anchors -> Nat], NEW S, Counted(S)
    PROVE  \A a \in Anchors : posts'[a] = IF a \in S THEN posts[a] + 1 ELSE posts[a]
  BY DEF Counted

\* A worker posts some anchors and has to tell of those postings.
LEMMA PostingsTaken ==
    ASSUME Typing, Untold, UNCHANGED told, NEW S \in SUBSET Anchors, Counted(S),
           NEW w \in Workers,
           worker'[w].pending = {<<a, posts[a] + 1>> : a \in S},
           \A v \in Workers \ {w} : worker'[v] = worker[v]
    PROVE  Untold'
<1> USE DEF Untold, Typing
<1> DEFINE P == worker'[w].pending
<1>1. \A a \in Anchors, n \in Nat : <<a, n>> \in P <=> a \in S /\ n = posts[a] + 1
  OBVIOUS
<1>2. \A p \in P : \E a \in Anchors : p = <<a, posts[a] + 1>>
  OBVIOUS
<1>3. \A a \in Anchors : posts'[a] = IF a \in S THEN posts[a] + 1 ELSE posts[a]
  BY CountedValue
<1> HIDE DEF P
<1>4. PendingIsUntold'
  <2> SUFFICES ASSUME NEW v \in Workers, NEW a \in Anchors, NEW n \in Nat,
                      <<a, n>> \in worker'[v].pending
               PROVE  n <= posts'[a] /\ (n \in 1 .. MaxPosts => told[a][n] = 0)
    BY DEF PendingIsUntold
  <2>1. CASE v = w
    BY <1>1, <1>3, <2>1 DEF P, FutureIsUntold
  <2>2. CASE v # w
    <3>1. n <= posts[a] /\ (n \in 1 .. MaxPosts => told[a][n] = 0)
      BY <2>2 DEF PendingIsUntold
    <3> QED
      BY <1>3, <3>1
  <2> QED
    BY <2>1, <2>2
<1>5. PendingIsExclusive'
  <2>1. \A v \in Workers \ {w} : worker[v].pending \intersect P = {}
    BY <1>2 DEF PendingIsUntold
  <2> QED
    BY <2>1 DEF P, PendingIsExclusive
<1>6. FutureIsUntold'
  <2> SUFFICES ASSUME NEW a \in Anchors, NEW n \in 1 .. MaxPosts, n > posts'[a]
               PROVE  told[a][n] = 0
    BY DEF FutureIsUntold
  <2>1. posts[a] \in Nat /\ n \in Nat
    BY ConstantsType
  <2>2. n > posts[a]
    <3>1. CASE a \in S
      BY <1>3, <2>1, <3>1
    <3>2. CASE a \notin S
      BY <1>3, <3>2
    <3> QED
      BY <3>1, <3>2
  <2> QED
    BY <2>2 DEF FutureIsUntold
<1>7. ToldOnce'
  BY DEF ToldOnce
<1> QED
  BY <1>4, <1>5, <1>6, <1>7

\* The dashboard posts an anchor and tells the members, or fails to.
LEMMA SendNowUntold ==
    ASSUME Typing, Untold, NEW a \in Anchors, SendNow(a)
    PROVE  Untold'
<1> DEFINE k == posts[a] + 1
<1>1. PICK x \in 0 .. 1 : told' = [told EXCEPT ![a][k] = x]
  BY DEF SendNow
<1>2. UNCHANGED worker /\ posts \in [Anchors -> Nat]
  BY DEF SendNow, Typing
<1>3. \A b \in Anchors : posts'[b] = IF b = a THEN posts[b] + 1 ELSE posts[b]
  BY <1>2, CountedValue DEF SendNow
<1>4. k \in Nat /\ x \in Nat /\ told \in [Anchors -> [1 .. MaxPosts -> Nat]]
  BY <1>2 DEF Typing
<1>5. \A b \in Anchors : \A n \in 1 .. MaxPosts :
        told'[b][n] = IF b = a /\ n = k THEN x ELSE told[b][n]
  <2> HIDE DEF k
  <2> QED
    BY <1>1, <1>4, TellingOne
<1> USE DEF Untold
<1>6. PendingIsUntold'
  <2> SUFFICES ASSUME NEW v \in Workers, NEW b \in Anchors, NEW n \in Nat,
                      <<b, n>> \in worker[v].pending
               PROVE  n <= posts'[b] /\ (n \in 1 .. MaxPosts => told'[b][n] = 0)
    BY <1>2 DEF PendingIsUntold
  <2>1. n <= posts[b] /\ (n \in 1 .. MaxPosts => told[b][n] = 0)
    BY DEF PendingIsUntold
  <2> QED
    BY <1>2, <1>3, <1>5, <2>1
<1>7. PendingIsExclusive'
  BY <1>2 DEF PendingIsExclusive
<1>8. FutureIsUntold'
  <2> SUFFICES ASSUME NEW b \in Anchors, NEW n \in 1 .. MaxPosts, n > posts'[b]
               PROVE  told'[b][n] = 0
    BY DEF FutureIsUntold
  <2>1. n > posts[b] /\ ~ (b = a /\ n = k)
    BY <1>2, <1>3, ConstantsType
  <2> QED
    BY <1>5, <2>1 DEF FutureIsUntold
<1>9. ToldOnce'
  BY <1>1, <1>5 DEF ToldOnce
<1> QED
  BY <1>6, <1>7, <1>8, <1>9

\* A worker tells of a posting, or fails to.
LEMMA TellUntold ==
    ASSUME Typing, Untold, NEW w \in Workers, Tell(w)
    PROVE  Untold'
<1>1. PICK p \in worker[w].pending :
        /\ told' = [told EXCEPT ![p[1]][p[2]] = @ + 1] \/ UNCHANGED told
        /\ worker' = [worker EXCEPT ![w] = [worker[w] EXCEPT !.pending = @ \ {p}]]
  BY DEF Tell, Goes
<1>2. UNCHANGED posts
  BY DEF Tell
<1>3. worker[w] \in Rows /\ worker \in [Workers -> Rows]
  BY DEF Typing
<1>4. /\ worker'[w].pending = worker[w].pending \ {p}
      /\ \A v \in Workers \ {w} : worker'[v] = worker[v]
  BY <1>1, <1>3 DEF Rows
<1>5. PICK a \in Anchors, k \in Nat : p = <<a, k>>
  BY <1>1, <1>3 DEF Rows
<1>6. posts \in [Anchors -> Nat] /\ told \in [Anchors -> [1 .. MaxPosts -> Nat]]
  BY DEF Typing
<1>7. CASE UNCHANGED told
  BY <1>2, <1>4, <1>6, <1>7, NobodyTold
<1>8. CASE told' = [told EXCEPT ![a][k] = told[a][k] + 1] /\ k \notin 1 .. MaxPosts
  <2>1. UNCHANGED told
    BY <1>6, <1>8, TellingNone
  <2> QED
    BY <1>7, <2>1
<1>9. CASE told' = [told EXCEPT ![a][k] = told[a][k] + 1] /\ k \in 1 .. MaxPosts
  <2> USE DEF Untold
  <2>1. k <= posts[a] /\ told[a][k] = 0
    BY <1>1, <1>5, <1>9 DEF PendingIsUntold
  <2>2. \A b \in Anchors : \A n \in 1 .. MaxPosts :
          told'[b][n] = IF b = a /\ n = k THEN 1 ELSE told[b][n]
    <3>1. told' = [told EXCEPT ![a][k] = 1]
      BY <1>9, <2>1
    <3> QED
      BY <1>6, <3>1, TellingOne
  <2>3. \A v \in Workers : /\ worker'[v].pending \subseteq worker[v].pending
                           /\ <<a, k>> \notin worker'[v].pending
    BY <1>1, <1>4, <1>5 DEF PendingIsExclusive
  <2>4. PendingIsUntold'
    <3> SUFFICES ASSUME NEW v \in Workers, NEW b \in Anchors, NEW n \in Nat,
                        <<b, n>> \in worker'[v].pending
                 PROVE  n <= posts[b] /\ (n \in 1 .. MaxPosts => told'[b][n] = 0)
      BY <1>2 DEF PendingIsUntold
    <3>1. n <= posts[b] /\ (n \in 1 .. MaxPosts => told[b][n] = 0)
      BY <2>3 DEF PendingIsUntold
    <3>2. ~ (b = a /\ n = k)
      BY <2>3
    <3> QED
      BY <2>2, <3>1, <3>2
  <2>5. PendingIsExclusive'
    BY <2>3 DEF PendingIsExclusive
  <2>6. FutureIsUntold'
    <3> SUFFICES ASSUME NEW b \in Anchors, NEW n \in 1 .. MaxPosts, n > posts[b]
                 PROVE  told'[b][n] = 0
      BY <1>2 DEF FutureIsUntold
    <3>1. ~ (b = a /\ n = k)
      BY <1>6, <2>1, ConstantsType
    <3> QED
      BY <2>2, <3>1 DEF FutureIsUntold
  <2>7. ToldOnce'
    BY <2>2 DEF ToldOnce
  <2> QED
    BY <2>4, <2>5, <2>6, <2>7
<1> QED
  BY <1>1, <1>5, <1>7, <1>8, <1>9

LEMMA StepUntold ==
    ASSUME IInv, [Next]_vars
    PROVE  Untold'
<1> Typing /\ Untold
  BY DEF IInv
<1>1. posts \in [Anchors -> Nat] /\ worker \in [Workers -> Rows]
  BY DEF Typing
<1>2. CASE UNCHANGED <<posts, told, worker>>
  BY <1>1, <1>2, NobodyTold
<1>3. ASSUME NEW a \in setup.anchors, Request(a)
      PROVE  Untold'
  <2> a \in Anchors
    BY SetupType DEF Typing
  <2>1. CASE SendNow(a)
    BY <2>1, SendNowUntold
  <2>2. ASSUME NEW t, CreateAnchor(a, t)
        PROVE  Untold'
    <3>1. Counted({a}) \/ UNCHANGED posts
      BY <2>2 DEF CreateAnchor
    <3>2. posts' \in [Anchors -> Nat] /\ \A b \in Anchors : posts'[b] >= posts[b]
      BY <1>1, <3>1, CountedType, CountedValue
    <3>3. UNCHANGED <<told, worker>>
      BY <2>2 DEF CreateAnchor
    <3> QED
      BY <3>2, <3>3, NobodyTold
  <2>3. CASE UNCHANGED <<posts, told, worker>>
    BY <1>2, <2>3
  <2> QED
    BY <1>3, <2>1, <2>2, <2>3
    DEF Request, CreateDraft, SendNowFails, CancelScheduled, DeleteAnchor, HideAnchor,
        RestoreAnchor, CreatorLeaves, CreatorReturns, CreatorIsPurged, ScheduleAnchor,
        ScheduleAnchorFails, celery, history
<1>4. ASSUME NEW m \in queue, Task(m)
      PROVE  Untold'
  <2>1. CASE DropRevoked(m) \/ SkipPost(m) \/ ExpireAnchor(m)
    BY <1>2, <2>1 DEF DropRevoked, SkipPost, ExpireAnchor, history
  <2>2. ASSUME NEW w \in Workers, PostScheduled(w, m)
        PROVE  Untold'
    <3> DEFINE S == {m.anchor}
    <3>1. S \in SUBSET Anchors
      BY DEF Typing
    <3>2. Counted(S) /\ UNCHANGED told
      BY <2>2 DEF PostScheduled
    <3>3. /\ worker'[w].pending = {<<m.anchor, posts[m.anchor] + 1>>}
          /\ \A v \in Workers \ {w} : worker'[v] = worker[v]
      BY <1>1, <2>2 DEF PostScheduled, Goes
    <3>4. worker'[w].pending = {<<a, posts[a] + 1>> : a \in S}
      BY <3>3
    <3> HIDE DEF S
    <3> QED
      BY <3>1, <3>2, <3>3, <3>4, PostingsTaken
  <2> QED
    BY <1>4, <2>1, <2>2 DEF Task
<1>5. ASSUME NEW w \in Workers, NEW S \in SUBSET setup.anchors, CheckScheduled(w, S)
      PROVE  Untold'
  <2>1. S \in SUBSET Anchors
    BY SetupType DEF Typing
  <2>2. Counted(S) /\ UNCHANGED told
    BY <1>5 DEF CheckScheduled
  <2> DEFINE P == {<<a, posts[a] + 1>> : a \in S}
  <2>3. worker' = [worker EXCEPT ![w] = [Idle EXCEPT !.pc = "check", !.pending = P]]
    BY <1>5 DEF CheckScheduled, Goes
  <2>4. /\ worker'[w].pending = P
        /\ \A v \in Workers \ {w} : worker'[v] = worker[v]
    <3> HIDE DEF P
    <3> QED
      BY <1>1, <2>3 DEF Idle
  <2> QED
    BY <2>1, <2>2, <2>4, PostingsTaken
<1>6. ASSUME NEW w \in Workers, Finish(w) \/ Crash(w)
      PROVE  Untold'
  <2>1. worker' = [worker EXCEPT ![w] = Idle] /\ UNCHANGED <<posts, told>>
    BY <1>6 DEF Finish, Crash, Goes, history
  <2>2. \A v \in Workers : worker'[v].pending \subseteq worker[v].pending
    BY <1>1, <2>1 DEF Idle
  <2> QED
    BY <1>1, <2>1, <2>2, NobodyTold
<1>7. ASSUME \/ \E S \in SUBSET setup.anchors : CheckScheduledFails(S)
             \/ PurgeExpired \/ Restart \/ Tick \/ UNCHANGED vars
      PROVE  Untold'
  BY <1>2, <1>7 DEF CheckScheduledFails, PurgeExpired, Restart, Tick, vars, celery, history
<1> QED
  BY <1>3, <1>4, <1>5, <1>6, <1>7, TellUntold DEF Next, Check

-----------------------------------------------------------------------------

LEMMA InitUntold ==
    ASSUME Init
    PROVE  IInv
<1>1. Typing
  BY ConstantsType, IdleType DEF Init, Typing, At
<1>2. Untold
  BY DEF Init, Idle, Untold, PendingIsUntold, PendingIsExclusive, FutureIsUntold, ToldOnce
<1> QED
  BY <1>1, <1>2 DEF IInv

\* "Double-notification is not a risk" (check_scheduled_anchors): whichever task, check
\* or request posts an anchor, and whatever is sent twice, fails or dies in between,
\* members are told of a posting at most once.
THEOREM ToldOnceHolds == Spec => []ToldOnce
<1>1. Init => IInv
  BY InitUntold
<1>2. IInv /\ [Next]_vars => IInv'
  <2> SUFFICES ASSUME IInv, [Next]_vars
               PROVE  IInv'
    OBVIOUS
  <2>1. Typing'
    BY StepTyping DEF IInv
  <2>2. Untold'
    BY StepUntold
  <2> QED
    BY <2>1, <2>2 DEF IInv
<1>3. IInv => ToldOnce
  BY DEF IInv, Untold
<1> QED
  BY <1>1, <1>2, <1>3, PTL DEF Spec

-----------------------------------------------------------------------------
(* When nothing fails.  An unrevoked post message is the one its anchor    *)
(* waits for, or the anchor was posted this instant; an expiry on its way  *)
(* is that of the last posting; time does not pass while either is due.    *)

AnchorRow == [status : Status, due : Nat, published : Nat, expires : Nat, task : Nat,
        deleted : BOOLEAN]

RowTyping ==
    /\ row \in [Anchors -> AnchorRow]
    /\ \A a \in Anchors : row[a].status = "none" => row[a].task = 0

MessageTyping ==
    \A m \in queue : /\ m.task \in {"post", "expire"}
                     /\ m.task = "post" => m.id > 0
                     /\ m.task = "expire" => m.id = 0

PostedJustNow(a) == row[a].status = "posted" /\ row[a].expires = now + Duration

PostsAreAwaited ==
    \A m \in queue : m.task = "post" /\ m.id \notin revoked =>
        \/ m.id = row[m.anchor].task /\ m.eta = row[m.anchor].due
        \/ m.eta <= now /\ PostedJustNow(m.anchor)

ExpiriesAreLast ==
    \A m \in queue : m.task = "expire" =>
        \/ row[m.anchor].status = "purged"
        \/ row[m.anchor].status = "posted" /\ m.eta = row[m.anchor].expires

PostersAreQuick ==
    \A w \in Workers : At(w, "post") =>
        /\ worker[w].expires = now + Duration
        /\ PostedJustNow(worker[w].message.anchor)

ExpiredIsOver == \A a \in Anchors : row[a].status = "expired" => now >= row[a].expires

Timely == PostsAreAwaited /\ ExpiriesAreLast /\ PostersAreQuick /\ ExpiredIsOver

TInv == RowTyping /\ MessageTyping /\ (~ setup.failing => Timely)

\* What a step may do to the row, the messages and the workers of an anchor at one
\* instant.
TaskStep(a) ==
    \/ row'[a].task = row[a].task /\ row'[a].due = row[a].due
    \/ row[a].task = 0 \/ row[a].task \in revoked'
    \/ row[a].due <= now /\ PostedJustNow(a)'

StatusStep(a) ==
    \/ row'[a].status = row[a].status /\ row'[a].expires = row[a].expires
    \/ row[a].status \notin {"posted", "purged"} /\ row'[a].status # "expired"
    \/ row'[a].status = "purged" /\ row[a].expires < now

Sent(m) ==
    \/ m.task = "post" /\ m.id = row'[m.anchor].task /\ m.eta = row'[m.anchor].due
    \/ /\ m.task = "expire"
       /\ row'[m.anchor].status = "posted" /\ m.eta = row'[m.anchor].expires

Posts(w) ==
    \/ At(w, "post") /\ worker'[w] = worker[w]
    \/ worker'[w].expires = now + Duration /\ PostedJustNow(worker[w].message.anchor)'

LEMMA InstantStep ==
    ASSUME Typing, Typing', MessageTyping, Timely, UNCHANGED now,
           row \in [Anchors -> AnchorRow], revoked \subseteq revoked',
           \A a \in Anchors : TaskStep(a) /\ StatusStep(a),
           \A m \in queue' : m \in queue \/ Sent(m),
           \A w \in Workers : worker'[w].pc = "post" => Posts(w)
    PROVE  Timely'
<1>0. /\ now \in Nat /\ Duration \in Nat /\ now' = now
      /\ \A a \in Anchors : row[a] \in AnchorRow /\ row[a].expires \in Nat
      /\ \A m \in queue : m.anchor \in Anchors
      /\ \A w \in Workers : worker[w].pc = "post" => worker[w].message.anchor \in Anchors
  BY ConstantsType DEF Typing, AnchorRow, At
<1>1. \A a \in Anchors : PostedJustNow(a) => PostedJustNow(a)'
  BY <1>0 DEF StatusStep, PostedJustNow
<1>2. PostsAreAwaited'
  <2> SUFFICES ASSUME NEW m \in queue', m.task = "post", m.id \notin revoked'
               PROVE  \/ m.id = row'[m.anchor].task /\ m.eta = row'[m.anchor].due
                      \/ m.eta <= now /\ PostedJustNow(m.anchor)'
    BY <1>0 DEF PostsAreAwaited
  <2>1. CASE m \in queue
    <3>1. m.id > 0 /\ m.anchor \in Anchors /\ m.id \notin revoked
      BY <1>0, <2>1 DEF MessageTyping
    <3>2. CASE m.id = row[m.anchor].task /\ m.eta = row[m.anchor].due
      BY <3>1, <3>2 DEF TaskStep
    <3>3. CASE m.eta <= now /\ PostedJustNow(m.anchor)
      BY <1>1, <3>1, <3>3
    <3> QED
      BY <2>1, <3>1, <3>2, <3>3 DEF Timely, PostsAreAwaited
  <2>2. CASE Sent(m)
    BY <2>2 DEF Sent
  <2> QED
    BY <2>1, <2>2
<1>3. ExpiriesAreLast'
  <2> SUFFICES ASSUME NEW m \in queue', m.task = "expire"
               PROVE  \/ row'[m.anchor].status = "purged"
                      \/ row'[m.anchor].status = "posted" /\ m.eta = row'[m.anchor].expires
    BY DEF ExpiriesAreLast
  <2>1. CASE m \in queue
    BY <1>0, <2>1 DEF Timely, ExpiriesAreLast, StatusStep
  <2>2. CASE Sent(m)
    BY <2>2 DEF Sent
  <2> QED
    BY <2>1, <2>2
<1>4. PostersAreQuick'
  <2> SUFFICES ASSUME NEW w \in Workers, worker'[w].pc = "post"
               PROVE  /\ worker'[w].expires = now + Duration
                      /\ PostedJustNow(worker[w].message.anchor)'
    BY <1>0 DEF PostersAreQuick, At
  <2>1. CASE At(w, "post") /\ worker'[w] = worker[w]
    <3>1. worker[w].expires = now + Duration /\ PostedJustNow(worker[w].message.anchor)
      BY <2>1 DEF Timely, PostersAreQuick
    <3> QED
      BY <1>0, <1>1, <2>1, <3>1 DEF PostedJustNow
  <2> QED
    BY <2>1 DEF Posts
<1>5. ExpiredIsOver'
  BY <1>0 DEF Timely, ExpiredIsOver, StatusStep
<1> QED
  BY <1>2, <1>3, <1>4, <1>5 DEF Timely

\* An expiry that is due is that of the last posting, and leaves none behind.
LEMMA ExpireStep ==
    ASSUME Typing, Typing', MessageTyping, Timely, ~ setup.failing,
           row \in [Anchors -> AnchorRow], NEW m \in queue, ExpireAnchor(m)
    PROVE  Timely'
<1>0. /\ m.anchor \in Anchors /\ now \in Nat /\ Duration \in Nat \ {0}
      /\ \A a \in Anchors : row[a] \in AnchorRow /\ row[a].expires \in Nat
      /\ \A k \in queue : k.anchor \in Anchors /\ k \in Messages
      /\ \A w \in Workers : worker[w].pc = "post" => worker[w].message.anchor \in Anchors
  BY DurationAssumption DEF Typing, AnchorRow, At
<1>1. /\ m.task = "expire" /\ m.eta <= now
      /\ queue' = queue \ {m} /\ UNCHANGED <<now, revoked, worker>>
  BY DEF ExpireAnchor, Ready
<1>2. CASE ~ Seen(m.anchor, {"posted"})
  <2>1. UNCHANGED row
    BY <1>2 DEF ExpireAnchor
  <2> QED
    BY <1>1, <2>1, InstantStep DEF TaskStep, StatusStep, Posts, At
<1>3. CASE Seen(m.anchor, {"posted"})
  <2> DEFINE a == m.anchor
             r == [row[a] EXCEPT !.status = "expired"]
  <2>1. /\ r.status = "expired" /\ r.expires = row[a].expires /\ r.task = row[a].task
        /\ r.due = row[a].due
    BY <1>0 DEF AnchorRow
  <2>2. row' = [row EXCEPT ![a] = r]
    BY <1>3 DEF ExpireAnchor, Becomes
  <2> HIDE DEF r
  <2>3. row'[a] = r /\ \A b \in Anchors : b # a => row'[b] = row[b]
    BY <1>0, <2>2
  <2>4. row[a].status = "posted" /\ row[a].expires = m.eta /\ row[a].expires <= now
    BY <1>1, <1>3 DEF Timely, ExpiriesAreLast, Seen, Is
  <2>5. ~ PostedJustNow(a)
    BY <1>0, <2>4 DEF PostedJustNow
  <2>6. \A k \in queue' : k.task = "expire" => k.anchor # a
    <3> SUFFICES ASSUME NEW k \in queue', k.task = "expire", k.anchor = a
                 PROVE  FALSE
      OBVIOUS
    <3>1. k.eta = m.eta /\ k.id = m.id
      BY <1>1, <2>4 DEF Timely, ExpiriesAreLast, MessageTyping
    <3>2. k = m
      BY <1>0, <1>1, <3>1 DEF Messages
    <3> QED
      BY <1>1, <3>2
  <2>7. PostsAreAwaited'
    BY <1>0, <1>1, <2>1, <2>3, <2>5 DEF Timely, PostsAreAwaited, PostedJustNow
  <2>8. ExpiriesAreLast'
    BY <1>0, <1>1, <2>3, <2>6 DEF Timely, ExpiriesAreLast
  <2>9. PostersAreQuick'
    BY <1>0, <1>1, <2>3, <2>5 DEF Timely, PostersAreQuick, PostedJustNow, At
  <2>10. ExpiredIsOver'
    BY <1>0, <1>1, <2>1, <2>3, <2>4 DEF Timely, ExpiredIsOver
  <2> QED
    BY <2>7, <2>8, <2>9, <2>10 DEF Timely
<1> QED
  BY <1>2, <1>3

\* Time passes only when nothing is due and no worker is at work.
LEMMA TickStep ==
    ASSUME Typing, Timely, ~ setup.failing, row \in [Anchors -> AnchorRow], Tick
    PROVE  Timely'
<1>1. /\ now' = now + 1 /\ UNCHANGED <<row, queue, revoked, worker>>
      /\ \A m \in queue : m.eta > now
      /\ \A w \in Workers : worker[w].pc = "idle"
  BY DEF Tick, celery, At
<1>2. /\ now \in Nat /\ \A a \in Anchors : row[a].expires \in Nat
      /\ \A m \in queue : m.eta \in Nat
  BY DEF Typing, AnchorRow, Messages
<1>3. PostsAreAwaited' /\ ExpiriesAreLast'
  BY <1>1, <1>2 DEF Timely, PostsAreAwaited, ExpiriesAreLast
<1>4. PostersAreQuick' /\ ExpiredIsOver'
  BY <1>1, <1>2 DEF Timely, PostersAreQuick, ExpiredIsOver, At
<1> QED
  BY <1>3, <1>4 DEF Timely

LEMMA RowFields ==
    ASSUME row \in [Anchors -> AnchorRow], NEW a \in Anchors, NEW r \in AnchorRow, Becomes(a, r)
    PROVE  /\ row' \in [Anchors -> AnchorRow]
           /\ row'[a] = r
           /\ \A b \in Anchors : b # a => row'[b] = row[b]
  BY DEF Becomes

LEMMA NoneIsRow == None \in AnchorRow /\ None.task = 0
  BY DEF None, AnchorRow, Status

LEMMA PostedRow ==
    ASSUME now \in Nat, NEW r \in AnchorRow
    PROVE  /\ Posted(r) \in AnchorRow
           /\ Posted(r).status = "posted" /\ Posted(r).expires = now + Duration
           /\ Posted(r).task = 0 /\ Posted(r).due = r.due
<1> DEFINE e == now + Duration
           p == [r EXCEPT !.status = "posted", !.published = now, !.expires = e, !.task = 0]
<1>1. e \in Nat /\ "posted" \in Status
  BY ConstantsType DEF Status
<1>2. Posted(r) = p
  BY DEF Posted
<1> HIDE DEF e
<1>3. p \in AnchorRow /\ p.status = "posted" /\ p.expires = e /\ p.task = 0 /\ p.due = r.due
  BY <1>1 DEF AnchorRow
<1> HIDE DEF p
<1> QED
  BY <1>2, <1>3 DEF e

\* A row that is edited; the step keeps the typing and, if nothing fails, the times.
LEMMA EditStep ==
    ASSUME Typing, Typing', RowTyping, MessageTyping, ~ setup.failing => Timely,
           UNCHANGED <<now, setup, worker>>, ~ setup.failing => revoked \subseteq revoked',
           NEW a \in Anchors, NEW r \in AnchorRow, Becomes(a, r),
           r.status = "none" => r.task = 0,
           ~ setup.failing =>
             /\ \/ r.task = row[a].task /\ r.due = row[a].due
                \/ row[a].task = 0 \/ row[a].task \in revoked'
             /\ \/ r.status = row[a].status /\ r.expires = row[a].expires
                \/ row[a].status \notin {"posted", "purged"} /\ r.status # "expired",
           \A m \in queue' : m \in queue \/
             /\ m.anchor = a
             /\ \/ m.task = "post" /\ m.id = r.task /\ m.eta = r.due /\ m.id > 0
                \/ m.task = "expire" /\ m.id = 0 /\ r.status = "posted" /\ m.eta = r.expires
    PROVE  RowTyping' /\ MessageTyping' /\ (~ setup.failing => Timely')
<1>1. /\ row \in [Anchors -> AnchorRow] /\ row' \in [Anchors -> AnchorRow]
      /\ row'[a] = r /\ \A b \in Anchors : b # a => row'[b] = row[b]
  BY RowFields DEF RowTyping
<1>2. RowTyping' /\ MessageTyping'
  BY <1>1 DEF RowTyping, MessageTyping
<1>3. ASSUME ~ setup.failing PROVE Timely'
  <2>1. \A b \in Anchors : TaskStep(b) /\ StatusStep(b)
    BY <1>1, <1>3 DEF TaskStep, StatusStep
  <2>2. \A m \in queue' : m \in queue \/ Sent(m)
    BY <1>1 DEF Sent
  <2>3. \A w \in Workers : worker'[w].pc = "post" => Posts(w)
    BY DEF Posts, At
  <2> QED
    BY <1>1, <1>3, <2>1, <2>2, <2>3, InstantStep
<1> QED
  BY <1>2, <1>3

\* A transaction that is rolled back: what was sent to the broker stays there, but then
\* something fails.
LEMMA NoEdit ==
    ASSUME RowTyping, MessageTyping, UNCHANGED <<row, setup>>, setup.failing,
           \A m \in queue' : m \in queue \/
             \/ m.task = "post" /\ m.id > 0
             \/ m.task = "expire" /\ m.id = 0
    PROVE  RowTyping' /\ MessageTyping' /\ (~ setup.failing => Timely')
  BY DEF RowTyping, MessageTyping

LEMMA RevokeFact ==
    ASSUME NEW a \in Anchors, Revoke(a), ~ setup.failing
    PROVE  revoked \subseteq revoked' /\ (row[a].task = 0 \/ row[a].task \in revoked')
  BY DEF Revoke

LEMMA PostFact ==
    ASSUME NEW a, NEW t
    PROVE  LET m == PostMessage(a, t, issued + 1) IN
           m.task = "post" /\ m.anchor = a /\ m.id = issued + 1 /\ m.eta = t
  BY DEF PostMessage

LEMMA ExpiryFact ==
    ASSUME NEW a
    PROVE  LET m == Expiry(a) IN
           m.task = "expire" /\ m.anchor = a /\ m.id = 0 /\ m.eta = now + Duration
  BY DEF Expiry, ExpireMessage

LEMMA RequestTimely ==
    ASSUME Typing, Typing', RowTyping, MessageTyping, ~ setup.failing => Timely,
           NEW a \in setup.anchors, Request(a)
    PROVE  RowTyping' /\ MessageTyping' /\ (~ setup.failing => Timely')
<1> DEFINE Goal == RowTyping' /\ MessageTyping' /\ (~ setup.failing => Timely')
<1>0. /\ a \in Anchors /\ row[a] \in AnchorRow /\ now \in Nat /\ issued \in Nat
      /\ Duration \in Nat /\ setup.end \in Nat
      /\ row[a].status = "none" => row[a].task = 0
  BY SetupType, ConstantsType DEF Typing, RowTyping
<1>1. CASE CreateDraft(a)
  <2> DEFINE e == now + Duration
             r == [None EXCEPT !.status = "draft", !.published = now, !.expires = e]
  <2>0. e \in Nat /\ "draft" \in Status
    BY <1>0 DEF Status
  <2>1. r \in AnchorRow /\ r.status = "draft"
    <3> HIDE DEF e
    <3> QED
      BY <1>0, <2>0, NoneIsRow DEF AnchorRow
  <2>2. /\ Becomes(a, r) /\ row[a].status = "none"
        /\ UNCHANGED <<now, setup, worker, queue, revoked>>
    BY <1>1 DEF CreateDraft, celery
  <2> HIDE DEF r
  <2> QED
    BY <1>0, <2>1, <2>2, EditStep
<1>2. CASE SendNow(a)
  <2> DEFINE r == Posted(row[a])
  <2>1. /\ r \in AnchorRow /\ r.status = "posted" /\ r.expires = now + Duration
    BY <1>0, PostedRow
  <2>2. /\ Becomes(a, r) /\ row[a].status \in {"draft", "scheduled", "expired", "cancelled"}
        /\ UNCHANGED <<now, setup, worker>> /\ queue' = queue \union {Expiry(a)} /\ Revoke(a)
    BY <1>2 DEF SendNow, Unposted, Seen, Is
  <2> HIDE DEF r
  <2>3. \A m \in queue' : m \in queue \/
          /\ m.anchor = a
          /\ m.task = "expire" /\ m.id = 0 /\ r.status = "posted" /\ m.eta = r.expires
    BY <2>1, <2>2, ExpiryFact
  <2> QED
    BY <1>0, <2>1, <2>2, <2>3, RevokeFact, EditStep
<1>3. CASE SendNowFails(a)
  BY <1>3, ExpiryFact, NoEdit DEF SendNowFails
<1>4. CASE CancelScheduled(a)
  <2> DEFINE r == [row[a] EXCEPT !.status = "cancelled", !.task = 0]
  <2>1. r \in AnchorRow /\ r.status = "cancelled"
    BY <1>0 DEF AnchorRow, Status
  <2>2. /\ Becomes(a, r) /\ row[a].status \in {"draft", "scheduled"}
        /\ UNCHANGED <<now, setup, worker, queue>> /\ Revoke(a)
    BY <1>4 DEF CancelScheduled, Seen, Is
  <2> HIDE DEF r
  <2> QED
    BY <1>0, <2>1, <2>2, RevokeFact, EditStep
<1>5. CASE DeleteAnchor(a)
  <2> DEFINE r == [row[a] EXCEPT !.deleted = TRUE, !.task = 0]
  <2>1. /\ r \in AnchorRow /\ r.status = row[a].status /\ r.expires = row[a].expires
        /\ r.task = 0
    BY <1>0 DEF AnchorRow
  <2>2. Becomes(a, r) /\ UNCHANGED <<now, setup, worker, queue>> /\ Revoke(a)
    BY <1>5 DEF DeleteAnchor
  <2> HIDE DEF r
  <2> QED
    BY <1>0, <2>1, <2>2, RevokeFact, EditStep
<1>6. ASSUME NEW deleted \in BOOLEAN, Becomes(a, [row[a] EXCEPT !.deleted = deleted]),
             UNCHANGED <<now, celery, setup>>
      PROVE  Goal
  <2> DEFINE r == [row[a] EXCEPT !.deleted = deleted]
  <2>1. /\ r \in AnchorRow /\ r.status = row[a].status /\ r.expires = row[a].expires
        /\ r.task = row[a].task /\ r.due = row[a].due
    BY <1>0 DEF AnchorRow
  <2>2. Becomes(a, r) /\ UNCHANGED <<now, setup, worker, queue, revoked>>
    BY <1>6 DEF celery
  <2> HIDE DEF r
  <2> QED
    BY <1>0, <2>1, <2>2, EditStep
<1>7. CASE HideAnchor(a) \/ RestoreAnchor(a) \/ CreatorIsPurged(a)
  BY <1>6, <1>7 DEF HideAnchor, RestoreAnchor, CreatorIsPurged, celery
<1>8. ASSUME NEW t \in now .. setup.end, ScheduleAnchor(a, t)
      PROVE  Goal
  <2> DEFINE i == issued + 1
             r == [row[a] EXCEPT !.status = "scheduled", !.due = t, !.task = i]
  <2>0. i \in Nat /\ t \in Nat /\ "scheduled" \in Status
    BY <1>0 DEF Status
  <2>1. /\ r \in AnchorRow /\ r.status = "scheduled" /\ r.task = i /\ r.due = t
    <3> HIDE DEF i
    <3> QED
      BY <1>0, <2>0 DEF AnchorRow
  <2>2. /\ Becomes(a, r) /\ row[a].status \in {"draft", "scheduled", "expired", "cancelled"}
        /\ UNCHANGED <<now, setup, worker>> /\ Revoke(a)
        /\ queue' = queue \union {PostMessage(a, t, issued + 1)}
    BY <1>8 DEF ScheduleAnchor, Unposted, Seen, Is, SendPost, history
  <2> HIDE DEF r
  <2>3. \A m \in queue' : m \in queue \/
          /\ m.anchor = a
          /\ m.task = "post" /\ m.id = r.task /\ m.eta = r.due /\ m.id > 0
    BY <1>0, <2>1, <2>2, PostFact
  <2> QED
    BY <1>0, <2>1, <2>2, <2>3, RevokeFact, EditStep
<1>9. ASSUME NEW t \in now .. setup.end, ScheduleAnchorFails(a, t)
      PROVE  Goal
  BY <1>0, <1>9, PostFact, NoEdit DEF ScheduleAnchorFails, SendPost
<1>10. ASSUME NEW t \in now .. setup.end, CreateAnchor(a, t)
       PROVE  Goal
  <2>1. /\ row[a].status = "none" /\ row[a].task = 0
        /\ UNCHANGED <<now, setup, worker, revoked>>
    BY <1>0, <1>10 DEF CreateAnchor
  <2>2. CASE Becomes(a, Posted(None)) /\ UNCHANGED queue
    <3> DEFINE r == Posted(None)
    <3>1. r \in AnchorRow /\ r.status = "posted"
      BY <1>0, PostedRow, NoneIsRow
    <3>2. Becomes(a, r) /\ UNCHANGED queue
      BY <2>2
    <3> HIDE DEF r
    <3> QED
      BY <1>0, <2>1, <3>1, <3>2, EditStep
  <2>3. CASE /\ Becomes(a, [None EXCEPT !.status = "scheduled", !.due = t, !.published = t,
                                        !.expires = t + Duration, !.task = issued + 1])
             /\ SendPost(a, t)
    <3> DEFINE i == issued + 1
               e == t + Duration
               r == [None EXCEPT !.status = "scheduled", !.due = t, !.published = t,
                                 !.expires = e, !.task = i]
    <3>0. i \in Nat /\ e \in Nat /\ t \in Nat /\ "scheduled" \in Status
      BY <1>0 DEF Status
    <3>1. /\ r \in AnchorRow /\ r.status = "scheduled" /\ r.task = i /\ r.due = t
      <4> HIDE DEF i, e
      <4> QED
        BY <1>0, <3>0, NoneIsRow DEF AnchorRow
    <3>2. Becomes(a, r) /\ queue' = queue \union {PostMessage(a, t, issued + 1)}
      BY <2>3 DEF SendPost
    <3> HIDE DEF r
    <3>3. \A m \in queue' : m \in queue \/
            /\ m.anchor = a
            /\ m.task = "post" /\ m.id = r.task /\ m.eta = r.due /\ m.id > 0
      BY <1>0, <3>1, <3>2, PostFact
    <3> QED
      BY <1>0, <2>1, <3>1, <3>2, <3>3, EditStep
  <2> QED
    BY <1>10, <2>2, <2>3 DEF CreateAnchor
<1>11. CASE CreatorLeaves(a) \/ CreatorReturns(a)
  <2>1. UNCHANGED <<now, row, queue, revoked, worker, setup>>
    BY <1>11 DEF CreatorLeaves, CreatorReturns, celery
  <2>2. RowTyping' /\ MessageTyping'
    BY <2>1 DEF RowTyping, MessageTyping
  <2>3. ~ setup.failing => Timely'
    BY <2>1 DEF Timely, PostsAreAwaited, ExpiriesAreLast, PostersAreQuick, ExpiredIsOver,
                PostedJustNow, At
  <2> QED
    BY <2>2, <2>3
<1> HIDE DEF Goal
<1> QED
  BY <1>1, <1>2, <1>3, <1>4, <1>5, <1>7, <1>8, <1>9, <1>10, <1>11 DEF Request, Goal

LEMMA TaskTimely ==
    ASSUME Typing, Typing', RowTyping, MessageTyping, ~ setup.failing => Timely,
           NEW m \in queue, Task(m)
    PROVE  RowTyping' /\ MessageTyping' /\ (~ setup.failing => Timely')
<1> DEFINE Goal == RowTyping' /\ MessageTyping' /\ (~ setup.failing => Timely')
           a == m.anchor
<1>0. /\ a \in Anchors /\ row[a] \in AnchorRow /\ now \in Nat /\ Duration \in Nat
      /\ row \in [Anchors -> AnchorRow] /\ worker \in [Workers -> Rows]
  BY ConstantsType DEF Typing, RowTyping
<1>1. CASE DropRevoked(m) \/ SkipPost(m)
  <2>1. queue' \subseteq queue /\ UNCHANGED <<now, row, revoked, worker, setup>>
    BY <1>1 DEF DropRevoked, SkipPost
  <2>2. RowTyping' /\ MessageTyping'
    BY <2>1 DEF RowTyping, MessageTyping
  <2>3. ~ setup.failing => Timely'
    BY <1>0, <2>1, InstantStep DEF TaskStep, StatusStep, Posts, At
  <2> QED
    BY <2>2, <2>3
<1>2. CASE ExpireAnchor(m)
  <2>1. RowTyping'
    <3> DEFINE r == [row[a] EXCEPT !.status = "expired"]
    <3>1. r \in AnchorRow /\ r.status = "expired"
      BY <1>0 DEF AnchorRow, Status
    <3>2. UNCHANGED row \/ Becomes(a, r)
      BY <1>2 DEF ExpireAnchor
    <3> HIDE DEF r
    <3> QED
      BY <1>0, <3>1, <3>2, RowFields DEF RowTyping
  <2>2. MessageTyping'
    BY <1>2 DEF ExpireAnchor, MessageTyping
  <2> QED
    BY <1>0, <1>2, <2>1, <2>2, ExpireStep
<1>3. ASSUME NEW w \in Workers, PostScheduled(w, m)
      PROVE  Goal
  <2> DEFINE r == Posted(row[a])
             state == [pc |-> "post", message |-> m, pending |-> {<<a, posts[a] + 1>>},
                       expires |-> now + Duration]
  <2>1. /\ r \in AnchorRow /\ r.status = "posted" /\ r.expires = now + Duration
    BY <1>0, PostedRow
  <2>2. /\ Becomes(a, r) /\ Goes(w, state) /\ row[a].status = "scheduled"
        /\ m.task = "post" /\ m.eta <= now /\ m.id \notin revoked
        /\ UNCHANGED <<now, setup, queue, revoked>>
    BY <1>3 DEF PostScheduled, Seen, Is, Ready
  <2>3. state.message = m /\ state.expires = now + Duration
    OBVIOUS
  <2> HIDE DEF r, state
  <2>4. /\ worker'[w] = state /\ \A v \in Workers : v # w => worker'[v] = worker[v]
    BY <1>0, <2>2 DEF Goes
  <2>5. /\ row' \in [Anchors -> AnchorRow]
        /\ row'[a] = r /\ \A b \in Anchors : b # a => row'[b] = row[b]
    BY <1>0, <2>1, <2>2, RowFields
  <2>6. RowTyping' /\ MessageTyping'
    BY <2>1, <2>2, <2>5 DEF RowTyping, MessageTyping
  <2>7. ASSUME ~ setup.failing PROVE Timely'
    <3>1. row[a].due <= now
      BY <2>2, <2>7 DEF Timely, PostsAreAwaited, PostedJustNow
    <3>2. PostedJustNow(a)'
      BY <2>1, <2>2, <2>5 DEF PostedJustNow
    <3>3. \A b \in Anchors : TaskStep(b) /\ StatusStep(b)
      BY <2>1, <2>2, <2>5, <3>1, <3>2 DEF TaskStep, StatusStep
    <3>4. \A v \in Workers : worker'[v].pc = "post" => Posts(v)
      <4>1. worker'[w].expires = now + Duration /\ PostedJustNow(worker[w].message.anchor)'
        BY <2>3, <2>4, <3>2 DEF PostedJustNow
      <4> QED
        BY <2>4, <4>1 DEF Posts, At
    <3> QED
      BY <1>0, <2>2, <2>7, <3>3, <3>4, InstantStep
  <2> QED
    BY <2>6, <2>7
<1> HIDE DEF Goal
<1> QED
  BY <1>1, <1>2, <1>3 DEF Task, Goal

LEMMA CheckTimely ==
    ASSUME Typing, Typing', RowTyping, MessageTyping, ~ setup.failing => Timely,
           NEW w \in Workers, NEW S \in SUBSET setup.anchors, CheckScheduled(w, S)
    PROVE  RowTyping' /\ MessageTyping' /\ (~ setup.failing => Timely')
<1>0. /\ S \subseteq Anchors /\ now \in Nat /\ Duration \in Nat
      /\ row \in [Anchors -> AnchorRow] /\ worker \in [Workers -> Rows]
      /\ \A a \in Anchors : row[a] \in AnchorRow
  BY SetupType, ConstantsType DEF Typing, RowTyping
<1>1. /\ \A a \in S : row[a].status = "scheduled" /\ row[a].due <= now
      /\ row' = [a \in Anchors |-> IF a \in S THEN Posted(row[a]) ELSE row[a]]
      /\ queue' = queue \union {Expiry(a) : a \in S}
      /\ UNCHANGED <<now, revoked, setup>>
  BY DEF CheckScheduled, Overdue, Seen, Is
<1>2. \A a \in Anchors :
        IF a \in S THEN /\ row'[a] \in AnchorRow /\ row'[a].status = "posted"
                        /\ row'[a].expires = now + Duration
                   ELSE row'[a] = row[a]
  BY <1>0, <1>1, PostedRow
<1>3. \A m \in queue' : m \in queue \/
        \E a \in S : m.anchor = a /\ m.task = "expire" /\ m.id = 0 /\ m.eta = now + Duration
  BY <1>1, ExpiryFact
<1>4. RowTyping'
  BY <1>0, <1>1, <1>2 DEF RowTyping
<1>5. MessageTyping'
  BY <1>3 DEF MessageTyping
<1>6. ASSUME ~ setup.failing PROVE Timely'
  <2>1. \A a \in Anchors : TaskStep(a) /\ StatusStep(a)
    BY <1>0, <1>1, <1>2 DEF TaskStep, StatusStep, PostedJustNow
  <2>2. \A m \in queue' : m \in queue \/ Sent(m)
    BY <1>0, <1>2, <1>3 DEF Sent
  <2>3. \A v \in Workers : worker'[v].pc = "post" => Posts(v)
    <3> DEFINE state == [Idle EXCEPT !.pc = "check", !.pending = {<<a, posts[a] + 1>> : a \in S}]
    <3>1. Goes(w, state)
      BY DEF CheckScheduled
    <3>2. state.pc = "check"
      BY DEF Idle
    <3> HIDE DEF state
    <3> QED
      BY <1>0, <3>1, <3>2 DEF Goes, Posts, At
  <2> QED
    BY <1>0, <1>1, <1>6, <2>1, <2>2, <2>3, InstantStep
<1> QED
  BY <1>4, <1>5, <1>6

LEMMA WorkerTimely ==
    ASSUME Typing, Typing', RowTyping, MessageTyping, ~ setup.failing => Timely,
           NEW w \in Workers, Tell(w) \/ Finish(w) \/ Crash(w)
    PROVE  RowTyping' /\ MessageTyping' /\ (~ setup.failing => Timely')
<1>0. /\ now \in Nat /\ row \in [Anchors -> AnchorRow] /\ worker \in [Workers -> Rows]
      /\ worker[w] \in Rows /\ UNCHANGED <<now, row, revoked, setup>>
  BY DEF Typing, RowTyping, Tell, Finish, Crash, history
<1>1. \A m \in queue' : m \in queue \/
        /\ At(w, "post") /\ m.anchor = worker[w].message.anchor
        /\ m.task = "expire" /\ m.id = 0 /\ m.eta = worker[w].expires
  BY DEF Tell, Finish, Crash, ExpireMessage, history
<1>2. RowTyping' /\ MessageTyping'
  BY <1>0, <1>1 DEF RowTyping, MessageTyping
<1>3. ASSUME ~ setup.failing PROVE Timely'
  <2>1. \A m \in queue' : m \in queue \/ Sent(m)
    BY <1>0, <1>1, <1>3 DEF Sent, Timely, PostersAreQuick, PostedJustNow
  <2>2. \A a \in Anchors : TaskStep(a) /\ StatusStep(a)
    BY <1>0 DEF TaskStep, StatusStep
  <2>3. \A v \in Workers : worker'[v].pc = "post" => Posts(v)
    <3>1. CASE Tell(w)
      <4>1. PICK p \in worker[w].pending : Goes(w, [worker[w] EXCEPT !.pending = @ \ {p}])
        BY <3>1 DEF Tell
      <4> DEFINE state == [worker[w] EXCEPT !.pending = @ \ {p}]
      <4>2. /\ state.pc = worker[w].pc /\ state.message = worker[w].message
            /\ state.expires = worker[w].expires
        BY <1>0 DEF Rows
      <4>3. Goes(w, state)
        BY <4>1
      <4> HIDE DEF state
      <4>4. worker'[w] = state /\ \A v \in Workers : v # w => worker'[v] = worker[v]
        BY <1>0, <4>3 DEF Goes
      <4>5. ASSUME At(w, "post")
            PROVE  /\ state.expires = now + Duration
                   /\ row'[state.message.anchor].status = "posted"
                   /\ row'[state.message.anchor].expires = now' + Duration
        BY <1>0, <1>3, <4>2, <4>5 DEF Timely, PostersAreQuick, PostedJustNow
      <4>6. worker'[w].pc = "post" => Posts(w)
        BY <4>2, <4>4, <4>5 DEF Posts, At, PostedJustNow
      <4>7. \A v \in Workers : v # w => (worker'[v].pc = "post" => Posts(v))
        BY <4>4 DEF Posts, At
      <4> QED
        BY <4>6, <4>7
    <3>2. CASE Finish(w) \/ Crash(w)
      BY <1>0, <3>2, IdleType DEF Finish, Crash, Goes, Posts, At
    <3> QED
      BY <3>1, <3>2
  <2> QED
    BY <1>0, <1>3, <2>1, <2>2, <2>3, InstantStep
<1> QED
  BY <1>2, <1>3

LEMMA OtherTimely ==
    ASSUME Typing, Typing', RowTyping, MessageTyping, ~ setup.failing => Timely,
           \/ \E S \in SUBSET setup.anchors : CheckScheduledFails(S)
           \/ PurgeExpired \/ Restart \/ Tick \/ UNCHANGED vars
    PROVE  RowTyping' /\ MessageTyping' /\ (~ setup.failing => Timely')
<1>0. /\ now \in Nat /\ row \in [Anchors -> AnchorRow]
      /\ \A a \in Anchors : row[a] \in AnchorRow
      /\ Retention \in Nat
  BY DurationAssumption DEF Typing, RowTyping
<1>1. ASSUME NEW S \in SUBSET setup.anchors, CheckScheduledFails(S)
      PROVE  RowTyping' /\ MessageTyping' /\ (~ setup.failing => Timely')
  <2>1. \A m \in queue' : m \in queue \/ (m.task = "expire" /\ m.id = 0)
    <3>1. queue' = queue \union {Expiry(a) : a \in S}
      BY <1>1 DEF CheckScheduledFails
    <3>2. \A a \in S : Expiry(a).task = "expire" /\ Expiry(a).id = 0
      BY ExpiryFact
    <3> SUFFICES ASSUME NEW m \in queue', m \notin queue
                 PROVE  m.task = "expire" /\ m.id = 0
      OBVIOUS
    <3>3. PICK a \in S : m = Expiry(a)
      BY <3>1
    <3> QED
      BY <3>2, <3>3
  <2>2. UNCHANGED <<row, setup>> /\ setup.failing
    BY <1>1 DEF CheckScheduledFails
  <2> QED
    BY <2>1, <2>2, NoEdit
<1>2. CASE PurgeExpired
  <2>1. /\ UNCHANGED <<now, queue, revoked, worker, setup>>
        /\ row' \in [Anchors -> AnchorRow]
        /\ \A a \in Anchors :
             \/ row'[a] = row[a]
             \/ /\ row'[a].status = "purged" /\ row[a].expires < now
                /\ row'[a].task = row[a].task /\ row'[a].due = row[a].due
    <3> DEFINE P(a) == [row[a] EXCEPT !.status = "purged"]
               old == {a \in Anchors : Seen(a, Status \ {"none", "purged"})
                                       /\ row[a].expires + Retention < now}
    <3>1. \A a \in Anchors :
            P(a) \in AnchorRow /\ P(a).status = "purged" /\ P(a).task = row[a].task
              /\ P(a).due = row[a].due
      BY <1>0 DEF AnchorRow, Status
    <3>2. \A a \in old : row[a].expires < now
      <4>1. \A a \in Anchors : row[a].expires \in Nat
        BY <1>0 DEF AnchorRow
      <4> QED
        BY <1>0, <4>1
    <3>3. row' = [a \in Anchors |-> IF a \in old THEN P(a) ELSE row[a]]
      BY <1>2 DEF PurgeExpired
    <3>4. UNCHANGED <<now, queue, revoked, worker, setup>>
      BY <1>2 DEF PurgeExpired, celery
    <3> HIDE DEF P, old
    <3> QED
      BY <1>0, <3>1, <3>2, <3>3, <3>4
  <2>2. RowTyping' /\ MessageTyping'
    BY <2>1 DEF RowTyping, MessageTyping
  <2>3. \A a \in Anchors : TaskStep(a) /\ StatusStep(a)
    BY <2>1 DEF TaskStep, StatusStep
  <2>4. \A w \in Workers : worker'[w].pc = "post" => Posts(w)
    BY <2>1 DEF Posts, At
  <2>5. ~ setup.failing => Timely'
    BY <1>0, <2>1, <2>3, <2>4, InstantStep
  <2> QED
    BY <2>2, <2>5
<1>3. CASE Restart
  BY <1>3 DEF Restart, RowTyping, MessageTyping
<1>4. CASE Tick
  <2>1. UNCHANGED <<row, queue, setup>>
    BY <1>4 DEF Tick, celery
  <2>2. RowTyping' /\ MessageTyping'
    BY <2>1 DEF RowTyping, MessageTyping
  <2> QED
    BY <1>0, <1>4, <2>1, <2>2, TickStep
<1>5. CASE UNCHANGED vars
  BY <1>5 DEF vars, celery, RowTyping, MessageTyping, Timely, PostsAreAwaited, ExpiriesAreLast,
              PostersAreQuick, ExpiredIsOver, PostedJustNow, At
<1> QED
  BY <1>1, <1>2, <1>3, <1>4, <1>5

LEMMA StepTimely ==
    ASSUME Typing, TInv, [Next]_vars
    PROVE  TInv'
<1>1. Typing' /\ RowTyping /\ MessageTyping /\ (~ setup.failing => Timely)
  BY StepTyping DEF TInv
<1>2. UNCHANGED setup
  BY DEF Next, Request, CreateDraft, SendNow, SendNowFails, CancelScheduled, DeleteAnchor,
         HideAnchor, RestoreAnchor, CreatorLeaves, CreatorReturns, CreatorIsPurged,
         ScheduleAnchor, ScheduleAnchorFails, CreateAnchor, Task, DropRevoked, SkipPost,
         ExpireAnchor, PostScheduled, Check, CheckScheduled, Tell, Finish, Crash,
         CheckScheduledFails, PurgeExpired, Restart, Tick, vars
<1>3. RowTyping' /\ MessageTyping' /\ (~ setup.failing => Timely')
  <2>1. ASSUME NEW a \in setup.anchors, Request(a)
        PROVE  RowTyping' /\ MessageTyping' /\ (~ setup.failing => Timely')
    BY <1>1, <2>1, RequestTimely
  <2>2. ASSUME NEW m \in queue, Task(m)
        PROVE  RowTyping' /\ MessageTyping' /\ (~ setup.failing => Timely')
    BY <1>1, <2>2, TaskTimely
  <2>3. ASSUME NEW w \in Workers, Check(w)
        PROVE  RowTyping' /\ MessageTyping' /\ (~ setup.failing => Timely')
    BY <1>1, <2>3, CheckTimely DEF Check
  <2>4. ASSUME NEW w \in Workers, Tell(w) \/ Finish(w) \/ Crash(w)
        PROVE  RowTyping' /\ MessageTyping' /\ (~ setup.failing => Timely')
    BY <1>1, <2>4, WorkerTimely
  <2>5. ASSUME \/ \E S \in SUBSET setup.anchors : CheckScheduledFails(S)
               \/ PurgeExpired \/ Restart \/ Tick \/ UNCHANGED vars
        PROVE  RowTyping' /\ MessageTyping' /\ (~ setup.failing => Timely')
    BY <1>1, <2>5, OtherTimely
  <2> QED
    BY <2>1, <2>2, <2>3, <2>4, <2>5 DEF Next
<1> QED
  BY <1>2, <1>3 DEF TInv

LEMMA InitTimely ==
    ASSUME Init
    PROVE  TInv
<1>1. RowTyping
  BY NoneIsRow DEF Init, RowTyping
<1>2. MessageTyping /\ Timely
  BY DEF Init, MessageTyping, Timely, PostsAreAwaited, ExpiriesAreLast, PostersAreQuick,
         ExpiredIsOver, At, Idle, None
<1> QED
  BY <1>1, <1>2 DEF TInv

LEMMA TimelyHolds == Spec => [](Typing /\ TInv)
<1>1. Init => Typing /\ TInv
  BY InitUntold, InitTimely DEF IInv
<1>2. Typing /\ TInv /\ [Next]_vars => Typing' /\ TInv'
  BY StepTyping, StepTimely
<1> QED
  BY <1>1, <1>2, PTL DEF Spec

\* An anchor expires when its time is over, counted from its last posting, unless
\* something fails: the expiry that an earlier posting left behind is gone when the anchor
\* is posted again (expire_anchor, which does not look at the time).
THEOREM ExpiriesHold == Spec => []ExpiresAfterItsTime
<1>1. TInv => ExpiresAfterItsTime
  BY DEF TInv, Timely, ExpiredIsOver, ExpiresAfterItsTime, Is
<1> QED
  BY <1>1, TimelyHolds, PTL

\* Unless an administrator sends it now or something fails, no task and no check posts an
\* anchor before the time it is scheduled for last (post_scheduled_anchor looks at the
\* status only): what was scheduled before was revoked or is that very time's.
THEOREM PostingsHold == Spec => PostedWhenScheduled
<1> DEFINE Early(a) == posts'[a] > posts[a] /\ Is(a, {"scheduled"})
<1>1. ASSUME Typing, TInv, [Next]_vars, ~ setup.failing, NEW a \in Anchors, Early(a)
      PROVE  now >= row[a].due \/ SendNow(a)
  <2>0. /\ posts \in [Anchors -> Nat] /\ row[a].status = "scheduled"
        /\ now \in Nat /\ row[a].due \in Nat /\ posts[a] \in Nat /\ posts' # posts
    BY <1>1 DEF Typing, TInv, RowTyping, AnchorRow, Is
  <2>1. ASSUME NEW S, Counted(S)
        PROVE  a \in S
    BY <1>1, <2>0, <2>1, CountedValue
  <2>2. ASSUME NEW b \in setup.anchors, Request(b)
        PROVE  SendNow(a)
    <3>1. CASE SendNow(b)
      BY <2>1, <3>1 DEF SendNow
    <3>2. ASSUME NEW t \in now .. setup.end, CreateAnchor(b, t)
          PROVE  FALSE
      BY <2>0, <2>1, <3>2 DEF CreateAnchor
    <3> QED
      BY <2>0, <2>2, <3>1, <3>2
      DEF Request, CreateDraft, SendNowFails, CancelScheduled, DeleteAnchor, HideAnchor,
          RestoreAnchor, CreatorLeaves, CreatorReturns, CreatorIsPurged, ScheduleAnchor,
          ScheduleAnchorFails, history
  <2>3. ASSUME NEW m \in queue, Task(m)
        PROVE  now >= row[a].due
    <3>1. PICK w \in Workers : PostScheduled(w, m)
      BY <2>0, <2>3 DEF Task, DropRevoked, SkipPost, ExpireAnchor, history
    <3>2. a = m.anchor /\ m.task = "post" /\ m.eta <= now /\ m.id \notin revoked
      BY <2>1, <3>1 DEF PostScheduled, Ready
    <3>3. m.eta = row[a].due
      BY <1>1, <2>0, <3>2 DEF TInv, Timely, PostsAreAwaited, PostedJustNow
    <3> QED
      BY <2>0, <3>2, <3>3
  <2>4. ASSUME NEW w \in Workers, Check(w)
        PROVE  now >= row[a].due
    BY <2>0, <2>1, <2>4 DEF Check, CheckScheduled, Overdue, Seen
  <2> QED
    BY <1>1, <2>0, <2>2, <2>3, <2>4
    DEF Next, Tell, Finish, Crash, CheckScheduledFails, PurgeExpired, Restart, Tick, vars,
        history
<1>2. Typing /\ TInv /\ [Next]_vars =>
        [setup.failing \/ \A a \in Anchors : Early(a) => now >= row[a].due \/ SendNow(a)]_vars
  BY <1>1
<1> QED
  BY <1>2, TimelyHolds, PTL DEF Spec, PostedWhenScheduled

=============================================================================
