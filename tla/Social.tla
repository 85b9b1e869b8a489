------------------------------- MODULE Social -------------------------------
(***************************************************************************)
(* Who follows whom, and what a user saves in which folder                 *)
(* (core/follows, core/engagement).  A user saves and follows with several *)
(* requests at a time, whose statements commit one by one.  One row for a  *)
(* follower and a followed, and one for a user and a saved post, are held  *)
(* by constraints; the names of folders, and that a new follower is told   *)
(* once a day, by looking first.                                           *)
(***************************************************************************)
EXTENDS Naturals, FiniteSets, FiniteSetsExt

CONSTANTS
    UserRequests, \* of the user, at a time
    PostsToSave,
    FolderNames, \* by _folder_name_key; "All" is among them
    MaxFolders, \* bound: folders that were ever created
    Others,     \* whom the user follows
    MaxChanges, \* bound: what the user begins
    Conducts    \* what to explore: posts and others that take part, and whether posts are deleted

Folders == 1 .. MaxFolders

ASSUME SocialAssumption ==
    /\ MaxFolders \in Nat /\ MaxChanges \in Nat /\ "All" \in FolderNames
    /\ Conducts \subseteq [posts : SUBSET PostsToSave, names : SUBSET FolderNames, others : SUBSET Others, deletes : BOOLEAN]

VARIABLES
    folder,     \* the name of each folder, {} when there is none
    created,    \* folders that were ever created
    save,       \* the row of each post: none, or its folder, of which there may be none
    removed,    \* deleted posts
    follows,    \* whom the user follows
    told,       \* how often each was told of the new follower within the day
    recent,     \* who was told of it within the hour
    asking,     \* the progress of each request
    begun,      \* what was begun
    twins,      \* history: two requests looked for the same folder at a time
    rushed,     \* history: two requests told the same user at a time
    refused,    \* history: posts said to be saved that were not
    swept,      \* history: folders deleted while a request was to use them
    conduct     \* fixed from the start

saveVars == <<folder, created, save, removed, twins, refused, swept>>
followVars == <<follows, told, recent, rushed>>
socialVars == <<saveVars, followVars, asking, begun, conduct>>

NoAsking == [pc |-> "idle", post |-> {}, name |-> {}, folder |-> {}, other |-> {}]
NotSaved == {}
Filed(f) == {f}        \* f holds a folder or none

SocialInit ==
    /\ conduct \in Conducts
    /\ folder = [f \in Folders |-> {}] /\ created = {}
    /\ save = [p \in PostsToSave |-> NotSaved] /\ removed = {}
    /\ follows = {} /\ told = [o \in Others |-> 0] /\ recent = {}
    /\ asking = [r \in UserRequests |-> NoAsking] /\ begun = 0
    /\ twins = FALSE /\ rushed = FALSE /\ refused = {} /\ swept = {}

StandsAt(r, pc) == asking[r].pc = pc
Continues(r, pc) == asking' = [asking EXCEPT ![r].pc = pc]
Finishes(r) == asking' = [asking EXCEPT ![r] = NoAsking]
Asks(r, pc, post, name, f, other) ==
    /\ asking[r] = NoAsking /\ begun < MaxChanges /\ begun' = begun + 1
    /\ asking' = [asking EXCEPT ![r] = [pc |-> pc, post |-> post, name |-> name, folder |-> f, other |-> other]]

KeepsFollows == UNCHANGED <<followVars, conduct>>
KeepsSaves == UNCHANGED <<saveVars, conduct>>
KeepsFolders == UNCHANGED <<folder, created, swept>>

-----------------------------------------------------------------------------
(* Folders.                                                                *)

Existing == {f \in Folders : folder[f] # {}}
FoldersNamed(n) == {f \in Existing : folder[f] = {n}}
Creates(n) ==
    /\ Existing # Folders /\ created # Folders
    /\ LET f == Min(Folders \ created) IN
        folder' = [folder EXCEPT ![f] = {n}] /\ created' = created \union {f}

\* Others that are about to create a folder of this name too.
AlsoCreates(r, n) ==
    \E q \in UserRequests \ {r} :
        \/ asking[q].pc = "create" /\ asking[q].name = {n}
        \/ asking[q].pc = "default" /\ n = "All"

SavePost(r, p, name, f) ==
    /\ p \in conduct.posts \ removed
    /\ Asks(r, "look for default", {p}, name, f, {})
    /\ UNCHANGED saveVars /\ KeepsFollows

GetFolders(r) ==
    /\ Asks(r, "look for default", {}, {}, {}, {})
    /\ UNCHANGED saveVars /\ KeepsFollows

CreateFolder(r, n) ==
    /\ Asks(r, "look for name", {}, {n}, {}, {})
    /\ UNCHANGED saveVars /\ KeepsFollows

AfterDefault(r) ==
    CASE asking[r].name # {} -> Continues(r, "look for name")
      [] asking[r].folder # {} -> Continues(r, "look for folder")
      [] asking[r].post # {} -> Continues(r, "insert")
      [] OTHER -> Finishes(r)

EnsureDefaultFolders(r) ==
    /\ StandsAt(r, "look for default")
    /\ IF Existing # {} THEN AfterDefault(r) /\ UNCHANGED twins
       ELSE Continues(r, "default") /\ twins' = (twins \/ AlsoCreates(r, "All"))
    /\ UNCHANGED <<save, removed, refused, begun>> /\ KeepsFolders /\ KeepsFollows

CreateDefault(r) ==
    /\ StandsAt(r, "default") /\ Creates("All") /\ AfterDefault(r)
    /\ UNCHANGED <<save, removed, refused, begun, swept, twins>> /\ KeepsFollows

\* The oldest folder of this name, whatever its case and spaces.
FindFolderByName(r, n) ==
    /\ StandsAt(r, "look for name") /\ asking[r].name = {n}
    /\ IF FoldersNamed(n) = {}
       THEN Continues(r, "create") /\ twins' = (twins \/ AlsoCreates(r, n))
       ELSE /\ asking' = [asking EXCEPT ![r] = IF asking[r].post = {} THEN NoAsking
                    ELSE [@ EXCEPT !.pc = "insert", !.folder = {Min(FoldersNamed(n))}]]
            /\ UNCHANGED twins
    /\ UNCHANGED <<save, removed, refused, begun>> /\ KeepsFolders /\ KeepsFollows

CreateNamed(r, n) ==
    /\ StandsAt(r, "create") /\ asking[r].name = {n} /\ Creates(n)
    /\ asking' = [asking EXCEPT ![r] = IF asking[r].post = {} THEN NoAsking
            ELSE [@ EXCEPT !.pc = "insert", !.folder = created' \ created]]
    /\ UNCHANGED <<save, removed, refused, begun, swept, twins>> /\ KeepsFollows

LookForFolder(r) ==
    /\ StandsAt(r, "look for folder")
    /\ IF asking[r].folder \subseteq Existing THEN Continues(r, "insert") ELSE Finishes(r)
    /\ UNCHANGED <<saveVars, begun>> /\ KeepsFollows

\* Whatever the constraint that fails, the answer is that the post was saved before.
InsertSave(r, p) ==
    /\ StandsAt(r, "insert") /\ asking[r].post = {p}
    /\ IF save[p] = NotSaved /\ asking[r].folder \subseteq Existing
       THEN save' = [save EXCEPT ![p] = Filed(asking[r].folder)] /\ UNCHANGED refused
       ELSE refused' = (IF save[p] = NotSaved THEN refused \union {p} ELSE refused) /\ UNCHANGED save
    /\ Finishes(r)
    /\ UNCHANGED <<removed, begun, twins>> /\ KeepsFolders /\ KeepsFollows

\* Several at a time, by bulk_remove_bookmarks.
UnsavePost(p) ==
    /\ save[p] # NotSaved
    /\ save' = [save EXCEPT ![p] = NotSaved]
    /\ UNCHANGED <<folder, created, removed, twins, refused, swept, asking, begun>> /\ KeepsFollows

\* What is in the folder is first put out of it, and once more by the database.
DeleteFolder(r, f) ==
    /\ f \in Existing /\ Asks(r, "delete folder", {}, {}, {f}, {})
    /\ save' = [p \in PostsToSave |-> IF save[p] = Filed({f}) THEN Filed({}) ELSE save[p]]
    /\ UNCHANGED <<removed, twins, refused>> /\ KeepsFolders /\ KeepsFollows

\* Mutant, used by no specification, as are all that are marked so: a plausible bug
\* in the definition that follows.
DropFolderAndSaves(r) ==
    /\ StandsAt(r, "delete folder")
    /\ folder' = [f \in Folders |-> IF {f} = asking[r].folder THEN {} ELSE folder[f]]
    /\ save' = [p \in PostsToSave |-> IF save[p] = Filed(asking[r].folder) THEN NotSaved ELSE save[p]]
    /\ swept' = swept \union asking[r].folder
    /\ Finishes(r)
    /\ UNCHANGED <<created, removed, twins, refused, begun>> /\ KeepsFollows

DropFolder(r) ==
    /\ StandsAt(r, "delete folder")
    /\ folder' = [f \in Folders |-> IF {f} = asking[r].folder THEN {} ELSE folder[f]]
    /\ save' = [p \in PostsToSave |-> IF save[p] = Filed(asking[r].folder) THEN Filed({}) ELSE save[p]]
    /\ swept' = swept \union asking[r].folder
    /\ Finishes(r)
    /\ UNCHANGED <<created, removed, twins, refused, begun>> /\ KeepsFollows

\* The rows of a deleted post stay, out of sight.
RemovePost(p) ==
    /\ conduct.deletes /\ p \in conduct.posts \ removed
    /\ removed' = removed \union {p}
    /\ UNCHANGED <<folder, created, save, twins, refused, swept, asking, begun>> /\ KeepsFollows

-----------------------------------------------------------------------------
(* Follows.                                                                *)

FollowUser(r, o) ==
    /\ o \notin follows
    /\ Asks(r, "look for note", {}, {}, {}, {o})
    /\ follows' = follows \union {o}
    /\ UNCHANGED <<told, recent, rushed>> /\ KeepsSaves

UnfollowUser(o) ==
    /\ o \in follows /\ follows' = follows \ {o}
    /\ UNCHANGED <<told, recent, rushed, asking, begun>> /\ KeepsSaves

AlsoTells(r, o) == \E q \in UserRequests \ {r} : asking[q].pc \in {"look again", "tell"} /\ asking[q].other = {o}

\* Mutant.
NotifyOnceAnHour(r, o) ==
    /\ StandsAt(r, "look for note") /\ asking[r].other = {o}
    /\ IF o \in recent THEN Finishes(r) ELSE Continues(r, "look again")
    /\ rushed' = (rushed \/ (told[o] = 0 /\ AlsoTells(r, o)))
    /\ UNCHANGED <<follows, told, recent, begun>> /\ KeepsSaves

NotifyNewFollower(r, o) ==
    /\ StandsAt(r, "look for note") /\ asking[r].other = {o}
    /\ IF told[o] > 0 THEN Finishes(r) ELSE Continues(r, "look again")
    /\ rushed' = (rushed \/ (told[o] = 0 /\ AlsoTells(r, o)))
    /\ UNCHANGED <<follows, told, recent, begun>> /\ KeepsSaves

\* create_notification looks for the same within the hour.
LookAgain(r, o) ==
    /\ StandsAt(r, "look again") /\ asking[r].other = {o}
    /\ IF o \in recent THEN Finishes(r) ELSE Continues(r, "tell")
    /\ UNCHANGED <<followVars, begun>> /\ KeepsSaves

Tell(r, o) ==
    /\ StandsAt(r, "tell") /\ asking[r].other = {o}
    /\ told' = [told EXCEPT ![o] = @ + 1] /\ recent' = recent \union {o}
    /\ Finishes(r)
    /\ UNCHANGED <<follows, rushed, begun>> /\ KeepsSaves

HourPasses(o) ==
    /\ o \in recent /\ recent' = recent \ {o}
    /\ UNCHANGED <<follows, told, rushed, asking, begun>> /\ KeepsSaves

AskingDies(r) ==
    /\ asking[r] # NoAsking /\ Finishes(r)
    /\ UNCHANGED <<followVars, begun>> /\ KeepsSaves

-----------------------------------------------------------------------------

\* What each request of the API begins, and how it goes on.
Bookmarking ==
    \/ \E r \in UserRequests :
        \/ \E p \in PostsToSave :
            \/ \E n \in conduct.names : SavePost(r, p, {n}, {})
            \/ \E f \in created : SavePost(r, p, {}, {f})
            \/ SavePost(r, p, {}, {}) \/ InsertSave(r, p)
        \/ \E n \in FolderNames : CreateFolder(r, n) /\ n \in conduct.names
        \/ \E n \in FolderNames : FindFolderByName(r, n) \/ CreateNamed(r, n)
        \/ conduct.posts # {} /\ GetFolders(r)
        \/ EnsureDefaultFolders(r) \/ CreateDefault(r) \/ LookForFolder(r)
        \/ \E f \in Folders : DeleteFolder(r, f)
        \/ DropFolder(r)
    \/ \E p \in PostsToSave : UnsavePost(p)

FollowsAndTells ==
    \/ \E r \in UserRequests, o \in Others :
        (o \in conduct.others /\ FollowUser(r, o)) \/ NotifyNewFollower(r, o) \/ LookAgain(r, o) \/ Tell(r, o)
    \/ \E o \in Others : UnfollowUser(o)

SocialNext ==
    \/ Bookmarking \/ FollowsAndTells
    \/ \E p \in PostsToSave : RemovePost(p)
    \/ \E r \in UserRequests : AskingDies(r)
    \/ \E o \in Others : HourPasses(o)

SocialSpec == SocialInit /\ [][SocialNext]_socialVars

-----------------------------------------------------------------------------

SocialTypeOK ==
    /\ folder \in [Folders -> SUBSET FolderNames] /\ created \subseteq Folders
    /\ save \in [PostsToSave -> SUBSET SUBSET Folders] /\ removed \subseteq PostsToSave
    /\ follows \subseteq Others /\ told \in [Others -> Nat] /\ recent \subseteq Others
    /\ asking \in [UserRequests -> [
            pc : {"idle", "look for default", "default", "look for name", "create", "look for folder",
                  "insert", "delete folder", "look for note", "look again", "tell"},
            post : SUBSET PostsToSave, name : SUBSET FolderNames, folder : SUBSET Folders, other : SUBSET Others]]
    /\ begun \in 0 .. MaxChanges /\ {twins, rushed} \subseteq BOOLEAN
    /\ refused \subseteq PostsToSave /\ swept \subseteq Folders /\ conduct \in Conducts

\* Whatever folders come and go, a save is in one that exists or in none, and only the user
\* who unsaves it takes it away.
SavesAreKept ==
    /\ [](\A p \in PostsToSave : \A F \in save[p] : F \subseteq Existing)
    /\ [][\A p \in PostsToSave : save[p] # NotSaved /\ save'[p] = NotSaved => UnsavePost(p)]_socialVars

\* A user is told of a new follower once a day, however often the follower comes and goes,
\* unless two requests told at a time; no two folders have the same name, unless two requests
\* looked for it at a time; and who is told that a post was saved before has it saved, unless a
\* folder was deleted meanwhile.
LookingSuffices ==
    /\ ~ rushed => \A o \in Others : told[o] <= 1
    /\ ~ twins => \A n \in FolderNames : Cardinality(FoldersNamed(n)) <= 1
    /\ swept = {} => refused = {}

\* Folders and follows: a save outlives its folder, and what is held by looking first is kept
\* unless two looked at a time.
SavesAndFollowsAreKept == SavesAreKept /\ []LookingSuffices

=============================================================================
