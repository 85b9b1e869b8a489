------------------------------- MODULE Hiding -------------------------------
(***************************************************************************)
(* What one viewer has hidden (core/engagement/hidden_content.py): rows in *)
(* the database, of which a limited number is kept, and a set in Redis     *)
(* that answers whether a target is hidden (core/engagement/cache.py).     *)
(* The set holds a sentinel from its first write on, which says that it is *)
(* complete; it is filled from the rows when it is read without one.       *)
(*                                                                         *)
(* The statements of a request commit one by one, and commands to Redis    *)
(* follow them; nothing of another viewer is touched.                      *)
(***************************************************************************)
EXTENDS Integers, Sequences, FiniteSets

CONSTANTS
    Hideables,      \* what can be hidden: posts, comments, circle content
    HideRequests,   \* the viewer's requests at a time
    HiddenLimit,    \* HIDDEN_CONTENT_LIMIT (1000)
    MaxHides,       \* bound: what the viewer hides and takes back
    Habits          \* what to explore: what is hidden to begin with, and whether the viewer
                    \* also takes back what was hidden

ASSUME HidingAssumption ==
    /\ HiddenLimit \in Nat \ {0} /\ MaxHides \in Nat
    /\ Habits \subseteq [before : Seq(Hideables), unhides : BOOLEAN]
    /\ \A h \in Habits : \A i, j \in DOMAIN h.before : h.before[i] = h.before[j] => i = j

VARIABLES
    hidden,     \* the rows, oldest first: the target of each, and its id
    rowsMade,   \* rows made so far, which the ids number
    cache,      \* {} or {S}: no set in Redis, or one that holds the sentinel and S
    lifetime,   \* of the set: it has one, is to be given one, or a request failed to give it one
    hiding,     \* the progress of each request
    changes,    \* changes so far
    overlapped, \* history: a request listed its overflow among other rows than it counted
    habit       \* fixed from the start

hidingVars == <<hidden, rowsMade, cache, lifetime, hiding, changes, overlapped, habit>>

NotHiding == [pc |-> "idle", todo |-> <<>>, created |-> FALSE]
HiddenTargets == {hidden[i].target : i \in DOMAIN hidden}

HiddenRow(t, id) == [target |-> t, id |-> id]
WithoutRow(i) == SubSeq(hidden, 1, i - 1) \o SubSeq(hidden, i + 1, Len(hidden))

HidingInit ==
    /\ habit \in Habits
    /\ hidden = [i \in 1 .. Len(habit.before) |-> HiddenRow(habit.before[i], i)]
    /\ rowsMade = Len(habit.before) /\ cache = {} /\ lifetime = "has"
    /\ hiding = [r \in HideRequests |-> NotHiding]
    /\ changes = 0 /\ overlapped = FALSE

HidingGoes(r, pc, todo) == hiding' = [hiding EXCEPT ![r] = [pc |-> pc, todo |-> todo, created |-> @.created]]
HidingEnds(r) == hiding' = [hiding EXCEPT ![r] = NotHiding]

\* Every command to Redis may fail; no request fails with it.
OnRedis(update) == cache' = update \/ UNCHANGED cache

\* The set without a target; the sentinel stays.
Unmarked(t) == {S \ {t} : S \in cache}

-----------------------------------------------------------------------------
(* Hiding: the row, the set, and what is beyond the limit.                 *)

HideForUser(r, t) ==
    /\ hiding[r] = NotHiding /\ changes < MaxHides
    /\ changes' = changes + 1
    /\ \/ \E i \in DOMAIN hidden :
            /\ hidden[i].target = t
            /\ hiding' = [hiding EXCEPT ![r] = [pc |-> "mark", todo |-> <<hidden[i]>>, created |-> FALSE]]
            /\ UNCHANGED <<hidden, rowsMade>>
       \/ /\ t \notin HiddenTargets
          /\ rowsMade' = rowsMade + 1 /\ hidden' = Append(hidden, HiddenRow(t, rowsMade'))
          /\ hiding' = [hiding EXCEPT ![r] = [pc |-> "mark", todo |-> <<HiddenRow(t, rowsMade')>>, created |-> TRUE]]
    /\ UNCHANGED <<cache, lifetime, overlapped, habit>>

Marked(r) == IF hiding[r].created THEN HidingGoes(r, "count", <<>>) ELSE HidingEnds(r)

\* A set that is not there comes to be one, with the sentinel, this one member and no lifetime.
\* What follows on a command that failed is left out.
MarkHidden(r) ==
    /\ hiding[r].pc = "mark"
    /\ \/ LET t == Head(hiding[r].todo).target IN
            /\ cache' = IF cache = {} THEN {{t}} ELSE {S \union {t} : S \in cache}
            /\ lifetime' = IF cache = {} THEN "due" ELSE lifetime
            /\ HidingGoes(r, "expire", <<>>)
       \/ Marked(r) /\ UNCHANGED <<cache, lifetime>>
    /\ UNCHANGED <<hidden, rowsMade, changes, overlapped, habit>>

SetLifetime(r) ==
    /\ hiding[r].pc = "expire"
    /\ lifetime' \in {"has", IF lifetime = "due" THEN "lost" ELSE lifetime}
    /\ Marked(r)
    /\ UNCHANGED <<hidden, rowsMade, cache, changes, overlapped, habit>>

\* Counted, and then listed, by two queries.
CountOverflow(r) ==
    /\ hiding[r].pc = "count"
    /\ IF Len(hidden) <= HiddenLimit THEN HidingEnds(r) ELSE HidingGoes(r, "list", SubSeq(hidden, 1, Len(hidden) - HiddenLimit))
    /\ UNCHANGED <<hidden, rowsMade, cache, lifetime, changes, overlapped, habit>>

ListStale(r) ==
    /\ hiding[r].pc = "list"
    /\ LET overflow == hiding[r].todo IN
        /\ HidingGoes(r, "evict", IF Len(overflow) <= Len(hidden) THEN SubSeq(hidden, 1, Len(overflow)) ELSE hidden)
        /\ overlapped' = (overlapped \/ \E i \in DOMAIN overflow : i > Len(hidden) \/ hidden[i] # overflow[i])
    /\ UNCHANGED <<hidden, rowsMade, cache, lifetime, changes, habit>>

EvictStale(r) ==
    /\ hiding[r].pc = "evict"
    /\ IF hiding[r].todo = <<>> THEN HidingEnds(r) /\ UNCHANGED cache
       ELSE OnRedis(Unmarked(Head(hiding[r].todo).target)) /\ HidingGoes(r, "delete", hiding[r].todo)
    /\ UNCHANGED <<hidden, rowsMade, lifetime, changes, overlapped, habit>>

DeleteStale(r) ==
    /\ hiding[r].pc = "delete"
    /\ LET oldest == Head(hiding[r].todo) IN
        \/ \E i \in DOMAIN hidden : hidden[i].id = oldest.id /\ hidden' = WithoutRow(i)
        \/ (\A i \in DOMAIN hidden : hidden[i].id # oldest.id) /\ UNCHANGED hidden
    /\ HidingGoes(r, "evict", Tail(hiding[r].todo))
    /\ UNCHANGED <<rowsMade, cache, lifetime, changes, overlapped, habit>>

UnhideForUser(r, t) ==
    /\ hiding[r] = NotHiding /\ changes < MaxHides
    /\ changes' = changes + 1
    /\ \E i \in DOMAIN hidden :
        hidden[i].target = t /\ hidden' = WithoutRow(i) /\ HidingGoes(r, "unmark", <<hidden[i]>>)
    /\ UNCHANGED <<rowsMade, cache, lifetime, overlapped, habit>>

UnmarkHidden(r) ==
    /\ hiding[r].pc = "unmark"
    /\ OnRedis(Unmarked(Head(hiding[r].todo).target))
    /\ HidingEnds(r)
    /\ UNCHANGED <<hidden, rowsMade, lifetime, changes, overlapped, habit>>

-----------------------------------------------------------------------------
(* Reading: a set without the sentinel is filled from the rows first.      *)

ContainsHidden(r) ==
    /\ hiding[r] = NotHiding /\ cache = {}
    /\ HidingGoes(r, "warm", hidden)
    /\ UNCHANGED <<hidden, rowsMade, cache, lifetime, changes, overlapped, habit>>

\* Mutant, used by no specification, as are all that are marked so: a plausible bug
\* in the definition that follows.
WarmWithoutLifetime(r) ==
    /\ hiding[r].pc = "warm"
    /\ \/ /\ cache' = {{hiding[r].todo[i].target : i \in DOMAIN hiding[r].todo}}
          /\ lifetime' = "due"
       \/ UNCHANGED <<cache, lifetime>>
    /\ HidingEnds(r)
    /\ UNCHANGED <<hidden, rowsMade, changes, overlapped, habit>>

\* The set, its members and its lifetime by one transaction.
WarmCache(r) ==
    /\ hiding[r].pc = "warm"
    /\ \/ cache' = {{hiding[r].todo[i].target : i \in DOMAIN hiding[r].todo}} /\ lifetime' = "has"
       \/ UNCHANGED <<cache, lifetime>>
    /\ HidingEnds(r)
    /\ UNCHANGED <<hidden, rowsMade, changes, overlapped, habit>>

\* What a read answers that finds the set; without Redis it asks the rows.
AnswersHidden(t) == IF cache = {} THEN t \in HiddenTargets ELSE \E S \in cache : t \in S

\* Mutant.
SetExpiresNever ==
    /\ cache # {} /\ lifetime = "has" /\ UNCHANGED cache
    /\ UNCHANGED <<hidden, rowsMade, lifetime, hiding, changes, overlapped, habit>>

\* CACHE_TTL after its last write, if it was given one.
SetExpires ==
    /\ cache # {} /\ lifetime = "has" /\ cache' = {}
    /\ UNCHANGED <<hidden, rowsMade, lifetime, hiding, changes, overlapped, habit>>

-----------------------------------------------------------------------------

HidingProceeds(r) ==
    \/ MarkHidden(r) \/ SetLifetime(r) \/ CountOverflow(r) \/ ListStale(r) \/ EvictStale(r) \/ DeleteStale(r)
    \/ UnmarkHidden(r) \/ WarmCache(r)

\* What the viewer asks for.
HidePosts ==
    \E r \in HideRequests, t \in Hideables : HideForUser(r, t) \/ (habit.unhides /\ UnhideForUser(r, t))

HidingNext ==
    \/ HidePosts
    \/ \E r \in HideRequests : ContainsHidden(r) \/ HidingProceeds(r)
    \/ SetExpires

HidingSpec == HidingInit /\ [][HidingNext]_hidingVars

\* Requests come to their end, and Redis drops what has expired.
FairHidingSpec ==
    HidingSpec /\ WF_hidingVars(SetExpires) /\ \A r \in HideRequests : WF_hidingVars(HidingProceeds(r))

-----------------------------------------------------------------------------

HidingTypeOK ==
    /\ hidden \in Seq([target : Hideables, id : Nat]) /\ rowsMade \in Nat
    /\ \A i, j \in DOMAIN hidden : hidden[i].target = hidden[j].target => i = j
    /\ cache = {} \/ \E S \in SUBSET Hideables : cache = {S}
    /\ lifetime \in {"has", "due", "lost"} /\ (cache = {} => lifetime = "has")
    /\ hiding \in [HideRequests -> [pc : {"idle", "mark", "expire", "count", "list", "evict", "delete", "unmark", "warm"},
            todo : Seq([target : Hideables, id : Nat]), created : BOOLEAN]]
    /\ changes \in 0 .. MaxHides /\ overlapped \in BOOLEAN

\* However many requests hide at a time, only what is older than the newest HiddenLimit goes, if
\* the viewer takes nothing back and no request lists its overflow after another trimmed.
NewestStayHidden ==
    [][~ (habit.unhides \/ overlapped) => \A i \in DOMAIN hidden :
            (\A j \in DOMAIN hidden' : hidden'[j] # hidden[i]) => Len(hidden) - i >= HiddenLimit]_hidingVars

\* A set that was written over what came later, or lost a write, does not answer for ever:
\* once the viewer changes nothing more, reads come to say what the rows say, unless the set
\* was left without a lifetime by a request that failed to give it one.
AnswersCatchUp == <>[](lifetime = "lost" \/ \A t \in Hideables : AnswersHidden(t) <=> t \in HiddenTargets)

\* Both: an answer that is out of date does not stay so, and only the oldest rows are trimmed.
StaleAnswersEnd == AnswersCatchUp /\ NewestStayHidden

\* What the code says and does not do.

\* core/engagement/cache.py: a set with the sentinel is taken for complete ("rehydration from
\* PostgreSQL to Redis using sentinel values"): while no request is under way, reads say what
\* the rows say.
HiddenStaysHidden ==
    (\A r \in HideRequests : hiding[r] = NotHiding) => \A t \in HiddenTargets : AnswersHidden(t)

\* core/engagement/hidden_content.py: "Keep only the newest 1,000 hidden rows for a viewer."
OnlyOldestAreTrimmed ==
    [][~ habit.unhides => \A i \in DOMAIN hidden :
            (\A j \in DOMAIN hidden' : hidden'[j] # hidden[i]) => Len(hidden) - i >= HiddenLimit]_hidingVars

=============================================================================
