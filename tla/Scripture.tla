------------------------------ MODULE Scripture ------------------------------
(***************************************************************************)
(* The texts of the Bible: one book, its chapters imported from a network  *)
(* of content servers into the database (core/scripture/importer.py), and  *)
(* what is not imported fetched for readers, behind a cache                *)
(* (core/scripture/services.py).                                           *)
(*                                                                         *)
(* An import is a command or a task.  It saves a chapter in a transaction, *)
(* may be cut off at any step, and goes on from the last chapter if it is  *)
(* told to resume.  Two locks in the cache keep imports, and fetches of    *)
(* one text, from overlapping; both expire.                                *)
(***************************************************************************)
EXTENDS Naturals, Sequences, FiniteSets, FiniteSetsExt

CONSTANTS
    Translations,
    Last,           \* the chapters of the book, by the list in the code
    Enough,         \* a translation with more than so many chapters counts as imported (30000 verses)
    Imports,        \* at a time
    MaxImports,     \* bound: imports imported
    Readers,        \* requests for one text, at a time
    Plans           \* what to explore, fixed from the start

ASSUME ScriptureAssumption ==
    /\ Last \in Nat \ {0} /\ Enough \in Nat /\ MaxImports \in Nat
    /\ Plans \subseteq [offered : [Translations -> 0 .. Last],  \* chapters the servers have
                        name : 1 .. 2,      \* of the two names of the book, which they know it by
                        orders : SUBSET Seq(Translations), fails : BOOLEAN,
                        imports : SUBSET Imports, readers : SUBSET Readers, verse : BOOLEAN]

VARIABLES
    stored,     \* BibleVerse: the chapters of each translation
    blank,      \* history: the chapters of each that had no verses when they were last fetched
    recorded,   \* BibleTranslation.verse_count
    chapters,   \* ScriptureBook.chapters
    active,     \* lock:scripture_import_active
    import,     \* the progress of each import
    imported,      \* imports so far
    cached,     \* the text is in the cache
    lock,       \* who took the lock of the text
    reader,     \* the progress of each reader
    overlapped, \* history: an import began while another was under way
    crowded,    \* history: a reader lost patience, or the lock, before a fetch was over
    plan

scriptureVars == <<stored, blank, recorded, chapters, active, import, imported, cached, lock, reader, overlapped, crowded, plan>>
readerVars == <<cached, lock, reader, crowded>>
importVars == <<stored, blank, recorded, chapters, active, import, imported, overlapped>>

NoImport == [pc |-> "idle", resume |-> FALSE, todo |-> <<>>, name |-> 1, limit |-> 0, chapter |-> 1,
             found |-> FALSE, clean |-> TRUE]

ScriptureInit ==
    /\ plan \in Plans
    /\ stored = [t \in Translations |-> {}] /\ blank = stored /\ recorded = [t \in Translations |-> 0] /\ chapters = Last
    /\ active = FALSE /\ import = [i \in Imports |-> NoImport] /\ imported = 0 /\ overlapped = FALSE
    /\ cached = FALSE /\ lock = {} /\ reader = [r \in Readers |-> [pc |-> "idle", acquired |-> FALSE]] /\ crowded = FALSE

-----------------------------------------------------------------------------
(* Imports.                                                                *)

Under(i) == Head(import[i].todo)
Does(i, pc) == import[i].pc = pc
Turns(i, state) == import' = [import EXCEPT ![i] = state]
GoesTo(i, pc) == Turns(i, [import[i] EXCEPT !.pc = pc])

\* run_import looks at the lock before it takes it.
StartImport(i, resume, order) ==
    /\ Does(i, "idle") /\ imported < MaxImports /\ ~ active
    /\ Turns(i, [pc |-> "take lock", resume |-> resume, todo |-> order, name |-> 1, limit |-> 0, chapter |-> 1,
                 found |-> FALSE, clean |-> TRUE])
    /\ imported' = imported + 1
    /\ overlapped' = (overlapped \/ \E j \in Imports \ {i} : ~ Does(j, "idle"))
    /\ UNCHANGED <<stored, blank, recorded, chapters, active>>

TakeImportLock(i) ==
    /\ Does(i, "take lock") /\ active' = TRUE /\ GoesTo(i, "seed")
    /\ UNCHANGED <<stored, blank, recorded, chapters, imported, overlapped>>

\* _seed_books puts the number of chapters right.
SeedBooks(i) ==
    /\ Does(i, "seed") /\ chapters' = Last /\ GoesTo(i, "next")
    /\ UNCHANGED <<stored, blank, recorded, active, imported, overlapped>>

EndImport(i) == active' = FALSE /\ Turns(i, NoImport)

IsFullyImported(t) == recorded[t] > Enough

\* The run ends with its translations, or when an hour is over.
NextTranslation(i) ==
    /\ Does(i, "next")
    /\ \/ EndImport(i)
       \/ /\ import[i].todo # <<>>
          /\ Turns(i, IF import[i].resume /\ IsFullyImported(Under(i)) THEN [import[i] EXCEPT !.todo = Tail(@)]
                      ELSE [pc |-> "book", resume |-> import[i].resume, todo |-> import[i].todo, name |-> 1,
                            limit |-> chapters, chapter |-> import[i].chapter, found |-> import[i].found,
                            clean |-> (chapters = Last)])
          /\ UNCHANGED active
    /\ UNCHANGED <<stored, blank, recorded, chapters, imported, overlapped>>

\* A resumed import begins with the latest chapter that is there.
FromLatest(t) == IF stored[t] = {} THEN 1 ELSE Max(stored[t])

\* One that finds chapters takes the book for known by its first name.
BeginBook(i) ==
    /\ Does(i, "book")
    /\ \E resumes \in BOOLEAN :
        /\ resumes = (import[i].resume /\ stored[Under(i)] # {})
        /\ Turns(i, [pc |-> IF resumes THEN "delete" ELSE "fetch", resume |-> import[i].resume, todo |-> import[i].todo,
                     name |-> import[i].name, limit |-> import[i].limit,
                     chapter |-> IF resumes THEN FromLatest(Under(i)) ELSE 1, found |-> resumes,
                     clean |-> import[i].clean /\ (resumes => plan.name = 1)])
    /\ UNCHANGED <<stored, blank, recorded, chapters, active, imported, overlapped>>

DeleteLatest(i) ==
    /\ Does(i, "delete")
    /\ stored' = [stored EXCEPT ![Under(i)] = @ \ {import[i].chapter}]
    /\ GoesTo(i, "fetch")
    /\ UNCHANGED <<blank, recorded, chapters, active, imported, overlapped>>

IsOffered(i) == import[i].name = plan.name /\ import[i].chapter <= plan.offered[Under(i)]

\* Mutant, used by no specification, as are all that are marked so: a plausible bug
\* in the definition that follows.
FetchOrSkip(i) ==
    /\ Does(i, "fetch")
    /\ \/ IF import[i].chapter > import[i].limit \/ ~ IsOffered(i) THEN GoesTo(i, "end of book")
          ELSE Turns(i, [import[i] EXCEPT !.pc = "save", !.found = TRUE])
       \/ plan.fails /\ import[i].chapter <= import[i].limit
          /\ Turns(i, [import[i] EXCEPT !.chapter = @ + 1, !.clean = FALSE])
    /\ UNCHANGED <<stored, blank, recorded, chapters, active, imported, overlapped>>

\* A chapter that is not there ends the book, and so does an answer that makes no sense; when
\* the retries are used up the import ends.
FetchChapterData(i) ==
    /\ Does(i, "fetch")
    /\ \/ /\ IF import[i].chapter > import[i].limit \/ ~ IsOffered(i) THEN GoesTo(i, "end of book")
             ELSE Turns(i, [import[i] EXCEPT !.pc = "save", !.found = TRUE])
          /\ UNCHANGED active
       \/ /\ plan.fails /\ import[i].chapter <= import[i].limit
          /\ \/ Turns(i, [import[i] EXCEPT !.pc = "end of book", !.clean = FALSE]) /\ UNCHANGED active
             \/ EndImport(i)
    /\ UNCHANGED <<stored, blank, recorded, chapters, imported, overlapped>>

\* An answer without verses is an answer: nothing is saved, and the next chapter is asked for.
PassOver(i) ==
    /\ Does(i, "fetch") /\ plan.fails /\ import[i].chapter <= import[i].limit
    /\ blank' = [blank EXCEPT ![Under(i)] = @ \union {import[i].chapter}]
    /\ Turns(i, [import[i] EXCEPT !.chapter = @ + 1, !.found = TRUE, !.clean = @ /\ IsOffered(i)])
    /\ UNCHANGED <<stored, recorded, chapters, active, imported, overlapped>>

SaveVersesBulk(i) ==
    /\ Does(i, "save")
    /\ stored' = [stored EXCEPT ![Under(i)] = @ \union {import[i].chapter}]
    /\ blank' = [blank EXCEPT ![Under(i)] = @ \ {import[i].chapter}]
    /\ Turns(i, [import[i] EXCEPT !.pc = "fetch", !.chapter = @ + 1])
    /\ UNCHANGED <<recorded, chapters, active, imported, overlapped>>

\* The book keeps the number of chapters this translation had; without any, the other name is
\* tried.
EndOfBook(i) ==
    /\ Does(i, "end of book")
    /\ chapters' = IF import[i].chapter > 1 THEN import[i].chapter - 1 ELSE chapters
    /\ IF ~ import[i].found /\ import[i].name = 1 THEN Turns(i, [import[i] EXCEPT !.pc = "book", !.name = 2])
       ELSE GoesTo(i, "record")
    /\ UNCHANGED <<stored, blank, recorded, active, imported, overlapped>>

UpdateTranslationMetadata(i) ==
    /\ Does(i, "record")
    /\ recorded' = [recorded EXCEPT ![Under(i)] = Cardinality(stored[Under(i)])]
    /\ Turns(i, [import[i] EXCEPT !.pc = "next", !.todo = Tail(@)])
    /\ UNCHANGED <<stored, blank, chapters, active, imported, overlapped>>

\* The worker dies; what it holds stays.
ImportDies(i) ==
    /\ plan.fails /\ ~ Does(i, "idle")
    /\ Turns(i, NoImport)
    /\ UNCHANGED <<stored, blank, recorded, chapters, active, imported, overlapped>>

\* After an hour, though an import may take longer.
ImportLockExpires == active /\ active' = FALSE /\ UNCHANGED <<stored, blank, recorded, chapters, import, imported, overlapped>>

ImportStep(i) ==
    \/ \E resume \in BOOLEAN, order \in plan.orders : StartImport(i, resume, order)
    \/ TakeImportLock(i) \/ SeedBooks(i) \/ NextTranslation(i) \/ BeginBook(i) \/ DeleteLatest(i)
    \/ FetchChapterData(i) \/ PassOver(i) \/ SaveVersesBulk(i) \/ EndOfBook(i) \/ UpdateTranslationMetadata(i) \/ ImportDies(i)

-----------------------------------------------------------------------------
(* Readers of a text that is not imported: fetch_verse and fetch_chapter.  *)

NoReader == [pc |-> "idle", acquired |-> FALSE]
ReaderAt(r, pc) == reader[r].pc = pc
ReadsOn(r, pc) == reader' = [reader EXCEPT ![r].pc = pc]
Returns(r) == reader' = [reader EXCEPT ![r] = NoReader]

LookInCache(r) ==
    /\ ReaderAt(r, "idle") /\ ~ cached /\ ReadsOn(r, "lock")
    /\ UNCHANGED <<cached, lock, crowded>>

\* The lock is added unless it is there.
TakeLock(r) ==
    /\ ReaderAt(r, "lock")
    /\ IF lock = {} THEN reader' = [reader EXCEPT ![r] = [pc |-> "fetch", acquired |-> TRUE]] /\ lock' = {r}
       ELSE ReadsOn(r, "wait") /\ UNCHANGED lock
    /\ UNCHANGED <<cached, crowded>>

\* For some seconds; then the reader fetches all the same.
Wait(r) ==
    /\ ReaderAt(r, "wait")
    /\ \/ cached /\ Returns(r) /\ UNCHANGED crowded
       \/ ReadsOn(r, "fetch") /\ crowded' = TRUE
    /\ UNCHANGED <<cached, lock>>

Onwards(r, got) ==
    IF reader[r].acquired THEN ReadsOn(r, IF got THEN "release and fill" ELSE "release")
    ELSE IF got THEN ReadsOn(r, "fill") ELSE Returns(r)

\* Verses are put into the cache before the lock is given back, a chapter after.
Fetch(r) ==
    /\ ReaderAt(r, "fetch")
    /\ \/ plan.verse /\ cached' = TRUE /\ Onwards(r, FALSE)
       \/ ~ plan.verse /\ Onwards(r, TRUE) /\ UNCHANGED cached
       \/ plan.fails /\ Onwards(r, FALSE) /\ UNCHANGED cached
    /\ UNCHANGED <<lock, crowded>>

\* Whosever it is by now.
ReleaseLock(r) ==
    /\ \/ ReaderAt(r, "release") /\ Returns(r)
       \/ ReaderAt(r, "release and fill") /\ ReadsOn(r, "fill")
    /\ lock' = {}
    /\ UNCHANGED <<cached, crowded>>

FillCache(r) == ReaderAt(r, "fill") /\ cached' = TRUE /\ Returns(r) /\ UNCHANGED <<lock, crowded>>

ReaderDies(r) == plan.fails /\ ~ ReaderAt(r, "idle") /\ Returns(r) /\ UNCHANGED <<cached, lock, crowded>>

TextExpires == cached /\ cached' = FALSE /\ UNCHANGED <<lock, reader, crowded>>

LockExpires ==
    /\ lock # {} /\ lock' = {}
    /\ crowded' = (crowded \/ \E r \in Readers : reader[r].acquired)
    /\ UNCHANGED <<cached, reader>>

-----------------------------------------------------------------------------

Importing == (\E i \in plan.imports : ImportStep(i)) \/ ImportLockExpires

Reading ==
    \/ \E r \in plan.readers :
        \/ LookInCache(r) \/ TakeLock(r) \/ Wait(r) \/ Fetch(r) \/ ReleaseLock(r) \/ FillCache(r) \/ ReaderDies(r)
    \/ TextExpires \/ LockExpires

ScriptureNext ==
    \/ Importing /\ UNCHANGED readerVars /\ UNCHANGED plan
    \/ Reading /\ UNCHANGED importVars /\ UNCHANGED plan

ScriptureSpec == ScriptureInit /\ [][ScriptureNext]_scriptureVars

-----------------------------------------------------------------------------

ScriptureTypeOK ==
    /\ {stored, blank} \subseteq [Translations -> SUBSET (1 .. Last)] /\ recorded \in [Translations -> 0 .. Last]
    /\ chapters \in 1 .. Last /\ active \in BOOLEAN /\ cached \in BOOLEAN /\ lock \subseteq Readers
    /\ overlapped \in BOOLEAN /\ crowded \in BOOLEAN /\ imported \in 0 .. MaxImports
    /\ import \in [Imports -> [pc : {"idle", "take lock", "seed", "next", "book", "delete", "fetch", "save",
                                    "end of book", "record"},
            resume : BOOLEAN, todo : Seq(Translations), name : 1 .. 2, limit : 0 .. Last, chapter : 1 .. Last + 1,
            found : BOOLEAN, clean : BOOLEAN]]
    /\ reader \in [Readers -> [pc : {"idle", "lock", "wait", "fetch", "release", "release and fill", "fill"},
            acquired : BOOLEAN]]
    /\ plan \in Plans

\* import_bible, "Resume gracefully from the last imported chapter": wherever imports fail or are
\* cut off, a chapter that is missing before one that is there had no verses when it was asked
\* for; and one that ends without a failure has all that are offered but for such ones, unless
\* imports overlapped.
ImportsAreWhole ==
    ~ overlapped =>
        /\ \A t \in Translations : \A c \in stored[t] :
            c <= plan.offered[t] /\ 1 .. c \subseteq stored[t] \union blank[t]
        /\ \A i \in Imports : Does(i, "record") /\ import[i].clean =>
            1 .. plan.offered[Under(i)] \subseteq stored[Under(i)] \union blank[Under(i)]

\* ScriptureService, "Waiting for lock [...] to avoid dogpiling": one reader at a time fetches a
\* text, until one has waited long enough or the lock expires in the middle of a fetch.
FetchesTakeTurns == ~ crowded => Cardinality({r \in Readers : ReaderAt(r, "fetch")}) <= 1

\* What an import leaves out or cuts is what a server did not have, failed to give or was not
\* asked for again; and readers of a text that is not cached fetch it in turns.
TextsAreWhole == ImportsAreWhole /\ FetchesTakeTurns

=============================================================================
