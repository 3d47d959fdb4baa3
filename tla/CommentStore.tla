---------------------------- MODULE CommentStore ----------------------------
(***************************************************************************)
(* The comment store of one page: storage.py's CommentStoragePool.newblob, *)
(* the path to it from the 'Post Comment' button (comments.post and        *)
(* Model.post_comment), and the page view that lists the store             *)
(* (comments.showcomments).  A comment is a blob named by the hash of its  *)
(* text, so the same comment sent twice is the same file.  Requests run in *)
(* several worker processes at once over one file system; a worker keeps   *)
(* what it listed in its storage pools until Model.finish() flushes them.  *)
(*                                                                         *)
(* Faults names the failures of the system that a run allows: an error of  *)
(* mkdir, open ("create"), write, fsync ("sync") or close, a write that    *)
(* stores only part of the blob ("short"), and the death of a worker in    *)
(* the middle of a request ("crash": the pre-fork server kills workers     *)
(* that overrun, and an exception that is not a WikiErr ends one).         *)
(***************************************************************************)
EXTENDS Naturals, FiniteSets

CONSTANTS Workers,  \* the processes that handle requests
          Blobs,    \* the comments that can be posted to the page
          NoBlob,   \* what a worker that posts nothing holds
          Depth,    \* how many directories lead to the page's comments
          Faults    \* the failures that may happen

ASSUME NoBlobAssumption == NoBlob \notin Blobs
ASSUME DepthAssumption == Depth \in Nat \ {0}
ASSUME FaultsAssumption ==
    Faults \subseteq {"mkdir", "create", "write", "short", "sync", "close", "crash"}

VARIABLES dirs,     \* how many of the directories exist, from the root down
          file,     \* the file of each blob: absent, empty, part or full
          pc,       \* where each worker is in its request
          blob,     \* the blob a worker posts
          lvl,      \* the directory makedirs() is at
          met,      \* whether the request has met an error of the system
          listing,  \* the names a worker listed, {} before it does
          listed,   \* whether the pool holds a listing
          todo,     \* the names showcomments() has yet to load
          shown,    \* the comments loaded whole
          must,     \* the comments complete when the request began
          told,     \* the comments some poster was told are posted
          cut       \* the comments whose writer stopped short of the end

poolVars == <<listing, listed>>
showVars == <<todo, shown, must>>
vars == <<dirs, file, pc, blob, lvl, met, listing, listed, todo, shown, must,
          told, cut>>

Posting == {"where", "descend", "mkdir", "create", "write", "sync", "close"}
Answers == {"good", "bad", "page", "interr"}
Writing == {"write", "sync", "close"}
Phases  == {"idle", "list", "load"} \cup Posting \cup Answers

TypeOK ==
    /\ dirs \in 0 .. Depth
    /\ file \in [Blobs -> {"absent", "empty", "part", "full"}]
    /\ pc \in [Workers -> Phases]
    /\ blob \in [Workers -> Blobs \cup {NoBlob}]
    /\ \A w \in Workers : pc[w] \in Posting => blob[w] \in Blobs
    /\ lvl \in [Workers -> 1 .. Depth]
    /\ met \in [Workers -> BOOLEAN]
    /\ listing \in [Workers -> SUBSET Blobs]
    /\ listed \in [Workers -> BOOLEAN]
    /\ todo \in [Workers -> SUBSET Blobs]
    /\ shown \in [Workers -> SUBSET Blobs]
    /\ must \in [Workers -> SUBSET Blobs]
    /\ told \subseteq Blobs
    /\ cut \subseteq Blobs

Init ==
    /\ dirs = 0
    /\ file = [b \in Blobs |-> "absent"]
    /\ pc = [w \in Workers |-> "idle"]
    /\ blob = [w \in Workers |-> NoBlob]
    /\ lvl = [w \in Workers |-> 1]
    /\ met = [w \in Workers |-> FALSE]
    /\ listing = [w \in Workers |-> {}]
    /\ listed = [w \in Workers |-> FALSE]
    /\ todo = [w \in Workers |-> {}]
    /\ shown = [w \in Workers |-> {}]
    /\ must = [w \in Workers |-> {}]
    /\ told = {}
    /\ cut = {}

Complete == {b \in Blobs : file[b] = "full"}
Present == {b \in Blobs : file[b] # "absent"}

Go(w, phase) == pc' = [pc EXCEPT ![w] = phase]

\* A system call of w fails although the file system would have allowed it:
\* the exception ends newblob(), and the poster sees the posted-bad page.
Fail(w, fault) ==
    /\ fault \in Faults
    /\ met' = [met EXCEPT ![w] = TRUE]
    /\ Go(w, "bad")

-----------------------------------------------------------------------------
(* A POST: newblob() *)

StartPost(w, b) ==
    /\ pc[w] = "idle"
    /\ Go(w, "where")
    /\ blob' = [blob EXCEPT ![w] = b]
    /\ UNCHANGED <<dirs, file, lvl, met, poolVars, showVars, told, cut>>

\* newblob: is the directory of the page there already?
Where(w) ==
    /\ pc[w] = "where"
    /\ IF dirs = Depth THEN Go(w, "create") ELSE Go(w, "descend")
    /\ lvl' = [lvl EXCEPT ![w] = Depth]
    /\ UNCHANGED <<dirs, file, blob, met, poolVars, showVars, told, cut>>

\* makedirs: recurse to the head of the path unless the head exists.
Descend(w) ==
    /\ pc[w] = "descend"
    /\ IF lvl[w] > 1 /\ dirs < lvl[w] - 1
       THEN lvl' = [lvl EXCEPT ![w] = @ - 1] /\ UNCHANGED pc
       ELSE Go(w, "mkdir") /\ UNCHANGED lvl
    /\ UNCHANGED <<dirs, file, blob, met, poolVars, showVars, told, cut>>

\* A directory is in place: go on with the next one down, or with the file.
DirectoryDone(w) ==
    IF lvl[w] = Depth THEN Go(w, "create") /\ UNCHANGED lvl
                      ELSE lvl' = [lvl EXCEPT ![w] = @ + 1] /\ UNCHANGED pc

MkdirAlone(w) ==
    /\ pc[w] = "mkdir"
    /\ \/ /\ dirs = lvl[w] - 1
          /\ dirs' = lvl[w]
          /\ DirectoryDone(w)
       \/ /\ dirs >= lvl[w]
          /\ Go(w, "bad")
          /\ UNCHANGED <<dirs, lvl>>
    /\ UNCHANGED <<file, blob, met, poolVars, showVars, told, cut>>

\* makedirs: make one directory.  Losing the race to another maker is no error.
Mkdir(w) ==
    /\ pc[w] = "mkdir"
    /\ \/ /\ dirs = lvl[w] - 1
          /\ dirs' = lvl[w]
          /\ DirectoryDone(w)
          /\ UNCHANGED met
       \/ /\ dirs >= lvl[w]
          /\ DirectoryDone(w)
          /\ UNCHANGED <<dirs, met>>
       \/ /\ dirs < lvl[w]
          /\ Fail(w, "mkdir")
          /\ UNCHANGED <<dirs, lvl>>
    /\ UNCHANGED <<file, blob, poolVars, showVars, told, cut>>

CreateOver(w) ==
    /\ pc[w] = "create"
    /\ file' = [file EXCEPT ![blob[w]] = "empty"]
    /\ Go(w, "write")
    /\ UNCHANGED <<dirs, blob, lvl, met, poolVars, showVars, told, cut>>

\* open(O_CREAT|O_EXCL): an existing file counts as posted.
Create(w) ==
    /\ pc[w] = "create"
    /\ \/ /\ file[blob[w]] = "absent"
          /\ file' = [file EXCEPT ![blob[w]] = "empty"]
          /\ Go(w, "write")
          /\ UNCHANGED <<met, told>>
       \/ /\ file[blob[w]] # "absent"
          /\ Go(w, "good")
          /\ told' = told \cup {blob[w]}
          /\ UNCHANGED <<file, met>>
       \/ /\ file[blob[w]] = "absent"
          /\ Fail(w, "create")
          /\ UNCHANGED <<file, told>>
    /\ UNCHANGED <<dirs, blob, lvl, poolVars, showVars, cut>>

WriteSkipped(w) ==
    /\ pc[w] = "write"
    /\ Go(w, "sync")
    /\ UNCHANGED <<dirs, file, blob, lvl, met, poolVars, showVars, told, cut>>

\* write(): its count is not looked at, so a short write goes on as a whole one.
Write(w) ==
    /\ pc[w] = "write"
    /\ \/ /\ file' = [file EXCEPT ![blob[w]] = "full"]
          /\ Go(w, "sync")
          /\ UNCHANGED <<met, cut>>
       \/ /\ "short" \in Faults
          /\ file' = [file EXCEPT ![blob[w]] = "part"]
          /\ Go(w, "sync")
          /\ cut' = cut \cup {blob[w]}
          /\ UNCHANGED met
       \/ /\ Fail(w, "write")
          /\ cut' = cut \cup {blob[w]}
          /\ UNCHANGED file
    /\ UNCHANGED <<dirs, blob, lvl, poolVars, showVars, told>>

\* fsync() of the file, then of its directory, whose errors are passed over.
Sync(w) ==
    /\ pc[w] = "sync"
    /\ \/ Go(w, "close") /\ UNCHANGED met
       \/ Fail(w, "sync")
    /\ UNCHANGED <<dirs, file, blob, lvl, poolVars, showVars, told, cut>>

Close(w) ==
    /\ pc[w] = "close"
    /\ \/ /\ Go(w, "good")
          /\ told' = told \cup {blob[w]}
          /\ UNCHANGED met
       \/ /\ Fail(w, "close")
          /\ UNCHANGED told
    /\ UNCHANGED <<dirs, file, blob, lvl, poolVars, showVars, cut>>

-----------------------------------------------------------------------------
(* A GET of the page: showcomments() *)

StartShow(w) ==
    /\ pc[w] = "idle"
    /\ Go(w, "list")
    /\ must' = [must EXCEPT ![w] = Complete]
    /\ UNCHANGED <<dirs, file, blob, lvl, met, poolVars, todo, shown, told, cut>>

\* get_commentlist: what the pool already lists, or else the directory.
List(w) ==
    /\ pc[w] = "list"
    /\ LET names == IF listed[w] THEN listing[w] ELSE Present
       IN  /\ listing' = [listing EXCEPT ![w] = names]
           /\ todo' = [todo EXCEPT ![w] = names]
    /\ listed' = [listed EXCEPT ![w] = TRUE]
    /\ Go(w, "load")
    /\ UNCHANGED <<dirs, file, blob, lvl, met, shown, must, told, cut>>

\* get_comment: a file that does not load is an IntErr and ends the request;
\* a part of a comment loads as one when the cut is inside its text.
Load(w, b) ==
    /\ pc[w] = "load"
    /\ b \in todo[w]
    /\ todo' = [todo EXCEPT ![w] = @ \ {b}]
    /\ \/ /\ file[b] = "full"
          /\ shown' = [shown EXCEPT ![w] = @ \cup {b}]
          /\ UNCHANGED pc
       \/ /\ file[b] = "part"
          /\ UNCHANGED <<shown, pc>>
       \/ /\ file[b] \in {"empty", "part"}
          /\ Go(w, "interr")
          /\ UNCHANGED shown
    /\ UNCHANGED <<dirs, file, blob, lvl, met, poolVars, must, told, cut>>

Loaded(w) ==
    /\ pc[w] = "load"
    /\ todo[w] = {}
    /\ Go(w, "page")
    /\ UNCHANGED <<dirs, file, blob, lvl, met, poolVars, showVars, told, cut>>

\* The request and what it kept are over; its storage pools are another matter.
EndRequest(w) ==
    /\ Go(w, "idle")
    /\ blob' = [blob EXCEPT ![w] = NoBlob]
    /\ lvl' = [lvl EXCEPT ![w] = 1]
    /\ met' = [met EXCEPT ![w] = FALSE]
    /\ todo' = [todo EXCEPT ![w] = {}]
    /\ shown' = [shown EXCEPT ![w] = {}]
    /\ must' = [must EXCEPT ![w] = {}]

Flush(w) ==
    /\ listing' = [listing EXCEPT ![w] = {}]
    /\ listed' = [listed EXCEPT ![w] = FALSE]

FinishKeeping(w) ==
    /\ pc[w] \in Answers
    /\ EndRequest(w)
    /\ UNCHANGED <<dirs, file, poolVars, told, cut>>

\* The end of every request: Model.finish() flushes the storage pools.
Finish(w) ==
    /\ pc[w] \in Answers
    /\ EndRequest(w)
    /\ Flush(w)
    /\ UNCHANGED <<dirs, file, told, cut>>

\* A worker dies in a request, and another process takes its place.
Crash(w) ==
    /\ "crash" \in Faults
    /\ pc[w] # "idle"
    /\ cut' = IF pc[w] = "write" THEN cut \cup {blob[w]} ELSE cut
    /\ EndRequest(w)
    /\ Flush(w)
    /\ UNCHANGED <<dirs, file, told>>

-----------------------------------------------------------------------------
Post(w) == Where(w) \/ Descend(w) \/ Mkdir(w) \/ Create(w) \/ Write(w)
             \/ Sync(w) \/ Close(w)
Show(w) == List(w) \/ (\E b \in Blobs : Load(w, b)) \/ Loaded(w)
Step(w) == Post(w) \/ Show(w) \/ Finish(w)

Next == \E w \in Workers :
            \/ \E b \in Blobs : StartPost(w, b)
            \/ StartShow(w)
            \/ Step(w)
            \/ Crash(w)

Spec == Init /\ [][Next]_vars

\* A request under way goes on: nothing in these handlers waits for another.
Fairness == \A w \in Workers : WF_vars(Step(w))
FairSpec == Spec /\ Fairness

-----------------------------------------------------------------------------
\* No two posts write the same file (O_EXCL is what excludes them, even when
\* the same comment is sent twice at once).
OneWriter ==
    \A v, w \in Workers :
        pc[v] \in Writing /\ pc[w] \in Writing /\ blob[v] = blob[w] => v = w

\* A comment that some poster was told is posted is on disk in full, or is
\* just being written by the post that created its file, or that post was cut
\* short: nothing else makes 'your comment has been posted' untrue.
ToldIsThere ==
    \A b \in told : \/ file[b] = "full"
                    \/ b \in cut
                    \/ \E w \in Workers : pc[w] = "write" /\ blob[w] = b

\* Posts that race to make the page's directories do not make each other fail:
\* the posted-bad page follows only on an error of the system.
BadHasCause == \A w \in Workers : pc[w] = "bad" => met[w]

\* A page that is served shows every comment that was complete when its request
\* began: no listing outlives the request it was read for.
ShowsAll == \A w \in Workers : pc[w] = "page" => must[w] \subseteq shown[w]

\* A complete comment is never damaged by a later post of the same text.
Kept == [][\A b \in Blobs : file[b] = "full" => file'[b] = "full"]_vars

\* What the proofs carry along: the file of a blob follows its one writer, an
\* incomplete one has a writer or was cut, and a listing lives in one request.
WriterHoldsFile ==
    \A w \in Workers :
        /\ pc[w] = "write" => file[blob[w]] = "empty"
        /\ pc[w] \in {"sync", "close"} => file[blob[w]] \in {"part", "full"}
IncompleteHasCause ==
    \A b \in Blobs : file[b] \in {"empty", "part"} =>
        b \in cut \/ \E w \in Workers : pc[w] = "write" /\ blob[w] = b
ListingIsFresh ==
    \A w \in Workers :
        /\ listed[w] => pc[w] \in {"load", "page", "interr"}
        /\ must[w] \subseteq Complete
        /\ pc[w] \in {"load", "page"} => must[w] \subseteq shown[w] \cup todo[w]
        /\ pc[w] = "page" => todo[w] = {}

IInv ==
    /\ TypeOK
    /\ OneWriter
    /\ WriterHoldsFile
    /\ IncompleteHasCause
    /\ told \cap {b \in Blobs : file[b] = "absent"} = {}
    /\ BadHasCause
    /\ ListingIsFresh

\* A comment whose file exists is complete at last, unless its writer was cut.
TakesHold ==
    \A b \in Blobs : (file[b] = "empty") ~> (file[b] = "full" \/ b \in cut)

\* posted-good.tmpl: 'Your comment has been posted.  You can see it by
\* returning to the original page.'
GoodIsThere == \A b \in Blobs : (b \in told) ~> (file[b] = "full")
=============================================================================
