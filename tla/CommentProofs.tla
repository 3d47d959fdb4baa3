---------------------------- MODULE CommentProofs ----------------------------
(***************************************************************************)
(* Proofs about the comment store, for any number of workers, comments and *)
(* directories and any faults.  The argument: O_EXCL gives each file one   *)
(* writer (WriterHoldsFile with OneWriter), so a file that is there and    *)
(* not complete is its writer's, unless that writer was cut short; and a   *)
(* listing lives no longer than its request (ListingIsFresh), so a page    *)
(* misses no comment that was complete when it was asked for.              *)
(***************************************************************************)
EXTENDS CommentStore, TLAPS

\* The page has no comments and no requests at first.
LEMMA Initial == Init => IInv
  BY DepthAssumption, NoBlobAssumption
     DEF Init, IInv, TypeOK, OneWriter, WriterHoldsFile, IncompleteHasCause,
         BadHasCause, ListingIsFresh, Complete, Phases, Posting, Answers, Writing

\* StartPost(w, b): the worker begins a request; it holds no file yet.
LEMMA StartPostKeeps ==
  ASSUME IInv, NEW w \in Workers, NEW b \in Blobs, StartPost(w, b)
  PROVE  IInv'
  <1>t. TypeOK
    BY DEF IInv
  <1>1. TypeOK'
    BY <1>t, DepthAssumption, NoBlobAssumption
       DEF TypeOK, StartPost, Go, Phases, Posting, Answers, poolVars,
           showVars, Complete
  <1>2. OneWriter'
    BY <1>t
       DEF IInv, OneWriter, WriterHoldsFile, Writing, Answers, TypeOK,
           StartPost, Go
  <1>3. WriterHoldsFile'
    BY <1>t
       DEF IInv, OneWriter, WriterHoldsFile, Writing, Answers, Posting,
           TypeOK, StartPost, Go
  <1>4. IncompleteHasCause'
    BY <1>t
       DEF IInv, WriterHoldsFile, IncompleteHasCause, Answers, Posting,
           TypeOK, StartPost, Go
  <1>5. (told \cap {c \in Blobs : file[c] = "absent"} = {})'
    BY <1>t DEF IInv, WriterHoldsFile, Posting, TypeOK, StartPost, Go
  <1>6. BadHasCause'
    BY <1>t DEF IInv, BadHasCause, Answers, TypeOK, StartPost, Go
  <1>7. ListingIsFresh'
    BY <1>t
       DEF IInv, ListingIsFresh, WriterHoldsFile, Complete, Answers, Posting,
           TypeOK, StartPost, Go, poolVars, showVars
  <1> QED
    BY <1>1, <1>2, <1>3, <1>4, <1>5, <1>6, <1>7 DEF IInv

\* Where(w): only the path of the request changes.
LEMMA WhereKeeps ==
  ASSUME IInv, NEW w \in Workers, Where(w)
  PROVE  IInv'
  <1>t. TypeOK
    BY DEF IInv
  <1>1. TypeOK'
    BY <1>t, DepthAssumption, NoBlobAssumption
       DEF TypeOK, Where, Go, Phases, Posting, Answers, poolVars, showVars,
           Complete
  <1>2. OneWriter'
    BY <1>t
       DEF IInv, OneWriter, WriterHoldsFile, Writing, Answers, TypeOK, Where,
           Go
  <1>3. WriterHoldsFile'
    BY <1>t
       DEF IInv, OneWriter, WriterHoldsFile, Writing, Answers, Posting,
           TypeOK, Where, Go
  <1>4. IncompleteHasCause'
    BY <1>t
       DEF IInv, WriterHoldsFile, IncompleteHasCause, Answers, Posting,
           TypeOK, Where, Go
  <1>5. (told \cap {c \in Blobs : file[c] = "absent"} = {})'
    BY <1>t DEF IInv, WriterHoldsFile, Posting, TypeOK, Where, Go
  <1>6. BadHasCause'
    BY <1>t DEF IInv, BadHasCause, Answers, TypeOK, Where, Go
  <1>7. ListingIsFresh'
    BY <1>t
       DEF IInv, ListingIsFresh, WriterHoldsFile, Complete, Answers, Posting,
           TypeOK, Where, Go, poolVars, showVars
  <1> QED
    BY <1>1, <1>2, <1>3, <1>4, <1>5, <1>6, <1>7 DEF IInv

\* Descend(w): only the path of the request changes.
LEMMA DescendKeeps ==
  ASSUME IInv, NEW w \in Workers, Descend(w)
  PROVE  IInv'
  <1>t. TypeOK
    BY DEF IInv
  <1>1. TypeOK'
    BY <1>t, DepthAssumption, NoBlobAssumption
       DEF TypeOK, Descend, Go, Phases, Posting, Answers, poolVars, showVars,
           Complete
  <1>2. OneWriter'
    BY <1>t
       DEF IInv, OneWriter, WriterHoldsFile, Writing, Answers, TypeOK,
           Descend, Go
  <1>3. WriterHoldsFile'
    BY <1>t
       DEF IInv, OneWriter, WriterHoldsFile, Writing, Answers, Posting,
           TypeOK, Descend, Go
  <1>4. IncompleteHasCause'
    BY <1>t
       DEF IInv, WriterHoldsFile, IncompleteHasCause, Answers, Posting,
           TypeOK, Descend, Go
  <1>5. (told \cap {c \in Blobs : file[c] = "absent"} = {})'
    BY <1>t DEF IInv, WriterHoldsFile, Posting, TypeOK, Descend, Go
  <1>6. BadHasCause'
    BY <1>t DEF IInv, BadHasCause, Answers, TypeOK, Descend, Go
  <1>7. ListingIsFresh'
    BY <1>t
       DEF IInv, ListingIsFresh, WriterHoldsFile, Complete, Answers, Posting,
           TypeOK, Descend, Go, poolVars, showVars
  <1> QED
    BY <1>1, <1>2, <1>3, <1>4, <1>5, <1>6, <1>7 DEF IInv

\* Mkdir(w): another maker of a directory never fails this one.
LEMMA MkdirKeeps ==
  ASSUME IInv, NEW w \in Workers, Mkdir(w)
  PROVE  IInv'
  <1>t. TypeOK
    BY DEF IInv
  <1>l. dirs' \in 0 .. Depth /\ lvl' \in [Workers -> 1 .. Depth]
    BY <1>t, DepthAssumption DEF TypeOK, Mkdir, Go, DirectoryDone, Fail
  <1>p. pc' \in [Workers -> Phases] /\ met' \in [Workers -> BOOLEAN]
    BY <1>t
       DEF TypeOK, Mkdir, Go, DirectoryDone, Fail, Phases, Posting, Answers
  <1>b. \A v \in Workers : pc'[v] \in Posting => blob'[v] \in Blobs
    BY <1>t DEF TypeOK, Mkdir, Go, DirectoryDone, Fail, Posting
  <1>1. TypeOK'
    BY <1>t, <1>l, <1>p, <1>b DEF TypeOK, Mkdir, poolVars, showVars
  <1>2. OneWriter'
    BY <1>t
       DEF IInv, OneWriter, WriterHoldsFile, Writing, Answers, TypeOK, Mkdir,
           Go, DirectoryDone, Fail
  <1>3. WriterHoldsFile'
    BY <1>t
       DEF IInv, OneWriter, WriterHoldsFile, Writing, Answers, Posting,
           TypeOK, Mkdir, Go, DirectoryDone, Fail
  <1>4. IncompleteHasCause'
    BY <1>t
       DEF IInv, WriterHoldsFile, IncompleteHasCause, Answers, Posting,
           TypeOK, Mkdir, Go, DirectoryDone, Fail
  <1>5. (told \cap {c \in Blobs : file[c] = "absent"} = {})'
    BY <1>t
       DEF IInv, WriterHoldsFile, Posting, TypeOK, Mkdir, Go, DirectoryDone,
           Fail
  <1>6. BadHasCause'
    BY <1>t
       DEF IInv, BadHasCause, Answers, TypeOK, Mkdir, Go, DirectoryDone, Fail
  <1>7. ListingIsFresh'
    BY <1>t
       DEF IInv, ListingIsFresh, WriterHoldsFile, Complete, Answers, Posting,
           TypeOK, Mkdir, Go, DirectoryDone, Fail, poolVars, showVars
  <1> QED
    BY <1>1, <1>2, <1>3, <1>4, <1>5, <1>6, <1>7 DEF IInv

\* Create(w): O_EXCL, only an absent file gets a writer.
LEMMA CreateKeeps ==
  ASSUME IInv, NEW w \in Workers, Create(w)
  PROVE  IInv'
  <1>t. TypeOK
    BY DEF IInv
  <1>1. TypeOK'
    BY <1>t, DepthAssumption, NoBlobAssumption
       DEF TypeOK, Create, Go, Fail, Phases, Posting, Answers, poolVars,
           showVars, Complete
  <1>2. OneWriter'
    BY <1>t
       DEF IInv, OneWriter, WriterHoldsFile, Writing, Answers, TypeOK,
           Create, Go, Fail
  <1>3. WriterHoldsFile'
    BY <1>t
       DEF IInv, OneWriter, WriterHoldsFile, Writing, Answers, Posting,
           TypeOK, Create, Go, Fail
  <1>4. IncompleteHasCause'
    BY <1>t
       DEF IInv, WriterHoldsFile, IncompleteHasCause, Answers, Posting,
           TypeOK, Create, Go, Fail
  <1>5. (told \cap {c \in Blobs : file[c] = "absent"} = {})'
    BY <1>t DEF IInv, WriterHoldsFile, Posting, TypeOK, Create, Go, Fail
  <1>6. BadHasCause'
    BY <1>t DEF IInv, BadHasCause, Answers, TypeOK, Create, Go, Fail
  <1>7. ListingIsFresh'
    BY <1>t
       DEF IInv, ListingIsFresh, WriterHoldsFile, Complete, Answers, Posting,
           TypeOK, Create, Go, Fail, poolVars, showVars
  <1> QED
    BY <1>1, <1>2, <1>3, <1>4, <1>5, <1>6, <1>7 DEF IInv

\* Write(w): the writer fills its own file, or leaves it cut.
LEMMA WriteKeeps ==
  ASSUME IInv, NEW w \in Workers, Write(w)
  PROVE  IInv'
  <1>t. TypeOK
    BY DEF IInv
  <1>1. TypeOK'
    BY <1>t, DepthAssumption, NoBlobAssumption
       DEF TypeOK, Write, Go, Fail, Phases, Posting, Answers, poolVars,
           showVars, Complete
  <1>2. OneWriter'
    BY <1>t
       DEF IInv, OneWriter, WriterHoldsFile, Writing, Answers, TypeOK, Write,
           Go, Fail
  <1>3. WriterHoldsFile'
    BY <1>t
       DEF IInv, OneWriter, WriterHoldsFile, Writing, Answers, Posting,
           TypeOK, Write, Go, Fail
  <1>4. IncompleteHasCause'
    BY <1>t
       DEF IInv, WriterHoldsFile, IncompleteHasCause, Answers, Posting,
           TypeOK, Write, Go, Fail
  <1>5. (told \cap {c \in Blobs : file[c] = "absent"} = {})'
    BY <1>t DEF IInv, WriterHoldsFile, Posting, TypeOK, Write, Go, Fail
  <1>6. BadHasCause'
    BY <1>t DEF IInv, BadHasCause, Answers, TypeOK, Write, Go, Fail
  <1>7. ListingIsFresh'
    BY <1>t
       DEF IInv, ListingIsFresh, WriterHoldsFile, Complete, Answers, Posting,
           TypeOK, Write, Go, Fail, poolVars, showVars
  <1> QED
    BY <1>1, <1>2, <1>3, <1>4, <1>5, <1>6, <1>7 DEF IInv

\* Sync(w): the file stays as it was written.
LEMMA SyncKeeps ==
  ASSUME IInv, NEW w \in Workers, Sync(w)
  PROVE  IInv'
  <1>t. TypeOK
    BY DEF IInv
  <1>1. TypeOK'
    BY <1>t, DepthAssumption, NoBlobAssumption
       DEF TypeOK, Sync, Go, Fail, Phases, Posting, Answers, poolVars,
           showVars, Complete
  <1>2. OneWriter'
    BY <1>t
       DEF IInv, OneWriter, WriterHoldsFile, Writing, Answers, TypeOK, Sync,
           Go, Fail
  <1>3. WriterHoldsFile'
    BY <1>t
       DEF IInv, OneWriter, WriterHoldsFile, Writing, Answers, Posting,
           TypeOK, Sync, Go, Fail
  <1>4. IncompleteHasCause'
    BY <1>t
       DEF IInv, WriterHoldsFile, IncompleteHasCause, Answers, Posting,
           TypeOK, Sync, Go, Fail
  <1>5. (told \cap {c \in Blobs : file[c] = "absent"} = {})'
    BY <1>t DEF IInv, WriterHoldsFile, Posting, TypeOK, Sync, Go, Fail
  <1>6. BadHasCause'
    BY <1>t DEF IInv, BadHasCause, Answers, TypeOK, Sync, Go, Fail
  <1>7. ListingIsFresh'
    BY <1>t
       DEF IInv, ListingIsFresh, WriterHoldsFile, Complete, Answers, Posting,
           TypeOK, Sync, Go, Fail, poolVars, showVars
  <1> QED
    BY <1>1, <1>2, <1>3, <1>4, <1>5, <1>6, <1>7 DEF IInv

\* Close(w): what is told good here is in the file, or cut.
LEMMA CloseKeeps ==
  ASSUME IInv, NEW w \in Workers, Close(w)
  PROVE  IInv'
  <1>t. TypeOK
    BY DEF IInv
  <1>1. TypeOK'
    BY <1>t, DepthAssumption, NoBlobAssumption
       DEF TypeOK, Close, Go, Fail, Phases, Posting, Answers, poolVars,
           showVars, Complete
  <1>2. OneWriter'
    BY <1>t
       DEF IInv, OneWriter, WriterHoldsFile, Writing, Answers, TypeOK, Close,
           Go, Fail
  <1>3. WriterHoldsFile'
    BY <1>t
       DEF IInv, OneWriter, WriterHoldsFile, Writing, Answers, Posting,
           TypeOK, Close, Go, Fail
  <1>4. IncompleteHasCause'
    BY <1>t
       DEF IInv, WriterHoldsFile, IncompleteHasCause, Answers, Posting,
           TypeOK, Close, Go, Fail
  <1>5. (told \cap {c \in Blobs : file[c] = "absent"} = {})'
    BY <1>t DEF IInv, WriterHoldsFile, Posting, TypeOK, Close, Go, Fail
  <1>6. BadHasCause'
    BY <1>t DEF IInv, BadHasCause, Answers, TypeOK, Close, Go, Fail
  <1>7. ListingIsFresh'
    BY <1>t
       DEF IInv, ListingIsFresh, WriterHoldsFile, Complete, Answers, Posting,
           TypeOK, Close, Go, Fail, poolVars, showVars
  <1> QED
    BY <1>1, <1>2, <1>3, <1>4, <1>5, <1>6, <1>7 DEF IInv

\* StartShow(w): the request owes what is complete now.
LEMMA StartShowKeeps ==
  ASSUME IInv, NEW w \in Workers, StartShow(w)
  PROVE  IInv'
  <1>t. TypeOK
    BY DEF IInv
  <1>1. TypeOK'
    BY <1>t, DepthAssumption, NoBlobAssumption
       DEF TypeOK, StartShow, Go, Phases, Posting, Answers, poolVars,
           showVars, Complete
  <1>2. OneWriter'
    BY <1>t
       DEF IInv, OneWriter, WriterHoldsFile, Writing, Answers, TypeOK,
           StartShow, Go
  <1>3. WriterHoldsFile'
    BY <1>t
       DEF IInv, OneWriter, WriterHoldsFile, Writing, Answers, Posting,
           TypeOK, StartShow, Go
  <1>4. IncompleteHasCause'
    BY <1>t
       DEF IInv, WriterHoldsFile, IncompleteHasCause, Answers, Posting,
           TypeOK, StartShow, Go
  <1>5. (told \cap {c \in Blobs : file[c] = "absent"} = {})'
    BY <1>t DEF IInv, WriterHoldsFile, Posting, TypeOK, StartShow, Go
  <1>6. BadHasCause'
    BY <1>t DEF IInv, BadHasCause, Answers, TypeOK, StartShow, Go
  <1>7. ListingIsFresh'
    BY <1>t
       DEF IInv, ListingIsFresh, WriterHoldsFile, Complete, Answers, Posting,
           TypeOK, StartShow, Go, poolVars, showVars
  <1> QED
    BY <1>1, <1>2, <1>3, <1>4, <1>5, <1>6, <1>7 DEF IInv

\* List(w): the directory holds every complete comment.
LEMMA ListKeeps ==
  ASSUME IInv, NEW w \in Workers, List(w)
  PROVE  IInv'
  <1>t. TypeOK
    BY DEF IInv
  <1>1. TypeOK'
    BY <1>t, DepthAssumption, NoBlobAssumption
       DEF TypeOK, List, Go, Present, Phases, Posting, Answers, poolVars,
           showVars, Complete
  <1>2. OneWriter'
    BY <1>t
       DEF IInv, OneWriter, WriterHoldsFile, Writing, Answers, TypeOK, List,
           Go, Present
  <1>3. WriterHoldsFile'
    BY <1>t
       DEF IInv, OneWriter, WriterHoldsFile, Writing, Answers, Posting,
           TypeOK, List, Go, Present
  <1>4. IncompleteHasCause'
    BY <1>t
       DEF IInv, WriterHoldsFile, IncompleteHasCause, Answers, Posting,
           TypeOK, List, Go, Present
  <1>5. (told \cap {c \in Blobs : file[c] = "absent"} = {})'
    BY <1>t DEF IInv, WriterHoldsFile, Posting, TypeOK, List, Go, Present
  <1>6. BadHasCause'
    BY <1>t DEF IInv, BadHasCause, Answers, TypeOK, List, Go, Present
  <1>7. ListingIsFresh'
    BY <1>t
       DEF IInv, ListingIsFresh, WriterHoldsFile, Complete, Answers, Posting,
           TypeOK, List, Go, Present, poolVars, showVars
  <1> QED
    BY <1>1, <1>2, <1>3, <1>4, <1>5, <1>6, <1>7 DEF IInv

\* Load(w, b): a complete comment that is loaded is shown.
LEMMA LoadKeeps ==
  ASSUME IInv, NEW w \in Workers, NEW b \in Blobs, Load(w, b)
  PROVE  IInv'
  <1>t. TypeOK
    BY DEF IInv
  <1>1. TypeOK'
    BY <1>t, DepthAssumption, NoBlobAssumption
       DEF TypeOK, Load, Go, Phases, Posting, Answers, poolVars, showVars,
           Complete
  <1>2. OneWriter'
    BY <1>t
       DEF IInv, OneWriter, WriterHoldsFile, Writing, Answers, TypeOK, Load,
           Go
  <1>3. WriterHoldsFile'
    BY <1>t
       DEF IInv, OneWriter, WriterHoldsFile, Writing, Answers, Posting,
           TypeOK, Load, Go
  <1>4. IncompleteHasCause'
    BY <1>t
       DEF IInv, WriterHoldsFile, IncompleteHasCause, Answers, Posting,
           TypeOK, Load, Go
  <1>5. (told \cap {c \in Blobs : file[c] = "absent"} = {})'
    BY <1>t DEF IInv, WriterHoldsFile, Posting, TypeOK, Load, Go
  <1>6. BadHasCause'
    BY <1>t DEF IInv, BadHasCause, Answers, TypeOK, Load, Go
  <1>7. ListingIsFresh'
    BY <1>t
       DEF IInv, ListingIsFresh, WriterHoldsFile, Complete, Answers, Posting,
           TypeOK, Load, Go, poolVars, showVars
  <1> QED
    BY <1>1, <1>2, <1>3, <1>4, <1>5, <1>6, <1>7 DEF IInv

\* Loaded(w): nothing is left to load.
LEMMA LoadedKeeps ==
  ASSUME IInv, NEW w \in Workers, Loaded(w)
  PROVE  IInv'
  <1>t. TypeOK
    BY DEF IInv
  <1>1. TypeOK'
    BY <1>t, DepthAssumption, NoBlobAssumption
       DEF TypeOK, Loaded, Go, Phases, Posting, Answers, poolVars, showVars,
           Complete
  <1>2. OneWriter'
    BY <1>t
       DEF IInv, OneWriter, WriterHoldsFile, Writing, Answers, TypeOK,
           Loaded, Go
  <1>3. WriterHoldsFile'
    BY <1>t
       DEF IInv, OneWriter, WriterHoldsFile, Writing, Answers, Posting,
           TypeOK, Loaded, Go
  <1>4. IncompleteHasCause'
    BY <1>t
       DEF IInv, WriterHoldsFile, IncompleteHasCause, Answers, Posting,
           TypeOK, Loaded, Go
  <1>5. (told \cap {c \in Blobs : file[c] = "absent"} = {})'
    BY <1>t DEF IInv, WriterHoldsFile, Posting, TypeOK, Loaded, Go
  <1>6. BadHasCause'
    BY <1>t DEF IInv, BadHasCause, Answers, TypeOK, Loaded, Go
  <1>7. ListingIsFresh'
    BY <1>t
       DEF IInv, ListingIsFresh, WriterHoldsFile, Complete, Answers, Posting,
           TypeOK, Loaded, Go, poolVars, showVars
  <1> QED
    BY <1>1, <1>2, <1>3, <1>4, <1>5, <1>6, <1>7 DEF IInv

\* Finish(w): the pools are flushed with the request.
LEMMA FinishKeeps ==
  ASSUME IInv, NEW w \in Workers, Finish(w)
  PROVE  IInv'
  <1>t. TypeOK
    BY DEF IInv
  <1>1. TypeOK'
    BY <1>t, DepthAssumption, NoBlobAssumption
       DEF TypeOK, Finish, Go, EndRequest, Flush, Phases, Posting, Answers,
           poolVars, showVars, Complete
  <1>2. OneWriter'
    BY <1>t
       DEF IInv, OneWriter, WriterHoldsFile, Writing, Answers, TypeOK,
           Finish, Go, EndRequest, Flush
  <1>3. WriterHoldsFile'
    BY <1>t
       DEF IInv, OneWriter, WriterHoldsFile, Writing, Answers, Posting,
           TypeOK, Finish, Go, EndRequest, Flush
  <1>4. IncompleteHasCause'
    BY <1>t
       DEF IInv, WriterHoldsFile, IncompleteHasCause, Answers, Posting,
           TypeOK, Finish, Go, EndRequest, Flush
  <1>5. (told \cap {c \in Blobs : file[c] = "absent"} = {})'
    BY <1>t
       DEF IInv, WriterHoldsFile, Posting, TypeOK, Finish, Go, EndRequest,
           Flush
  <1>6. BadHasCause'
    BY <1>t
       DEF IInv, BadHasCause, Answers, TypeOK, Finish, Go, EndRequest, Flush
  <1>7. ListingIsFresh'
    BY <1>t
       DEF IInv, ListingIsFresh, WriterHoldsFile, Complete, Answers, Posting,
           TypeOK, Finish, Go, EndRequest, Flush, poolVars, showVars
  <1> QED
    BY <1>1, <1>2, <1>3, <1>4, <1>5, <1>6, <1>7 DEF IInv

\* Crash(w): a writer that dies leaves its file cut.
LEMMA CrashKeeps ==
  ASSUME IInv, NEW w \in Workers, Crash(w)
  PROVE  IInv'
  <1>t. TypeOK
    BY DEF IInv
  <1>1. TypeOK'
    BY <1>t, DepthAssumption, NoBlobAssumption
       DEF TypeOK, Crash, Go, EndRequest, Flush, Phases, Posting, Answers,
           poolVars, showVars, Complete
  <1>2. OneWriter'
    BY <1>t
       DEF IInv, OneWriter, WriterHoldsFile, Writing, Answers, TypeOK, Crash,
           Go, EndRequest, Flush
  <1>3. WriterHoldsFile'
    BY <1>t
       DEF IInv, OneWriter, WriterHoldsFile, Writing, Answers, Posting,
           TypeOK, Crash, Go, EndRequest, Flush
  <1>4. IncompleteHasCause'
    BY <1>t
       DEF IInv, WriterHoldsFile, IncompleteHasCause, Answers, Posting,
           TypeOK, Crash, Go, EndRequest, Flush
  <1>5. (told \cap {c \in Blobs : file[c] = "absent"} = {})'
    BY <1>t
       DEF IInv, WriterHoldsFile, Posting, TypeOK, Crash, Go, EndRequest,
           Flush
  <1>6. BadHasCause'
    BY <1>t
       DEF IInv, BadHasCause, Answers, TypeOK, Crash, Go, EndRequest, Flush
  <1>7. ListingIsFresh'
    BY <1>t
       DEF IInv, ListingIsFresh, WriterHoldsFile, Complete, Answers, Posting,
           TypeOK, Crash, Go, EndRequest, Flush, poolVars, showVars
  <1> QED
    BY <1>1, <1>2, <1>3, <1>4, <1>5, <1>6, <1>7 DEF IInv

\* Every step of the store keeps the invariant.
LEMMA Inductive ==
  ASSUME IInv, [Next]_vars
  PROVE  IInv'
  <1>1. CASE UNCHANGED vars
    BY <1>1
       DEF vars, IInv, TypeOK, OneWriter, WriterHoldsFile,
           IncompleteHasCause,
                BadHasCause, ListingIsFresh, Complete
  <1>2. CASE Next
    <2>1. PICK w \in Workers : \/ \E b \in Blobs : StartPost(w, b)
                              \/ StartShow(w)
                              \/ Step(w)
                              \/ Crash(w)
      BY <1>2 DEF Next
    <2>2. CASE \E b \in Blobs : StartPost(w, b)
      BY <2>2, StartPostKeeps
    <2>3. CASE StartShow(w)
      BY <2>3, StartShowKeeps
    <2>4. CASE Post(w)
      BY <2>4, WhereKeeps, DescendKeeps, MkdirKeeps, CreateKeeps, WriteKeeps,
         SyncKeeps, CloseKeeps DEF Post
    <2>5. CASE Show(w)
      BY <2>5, ListKeeps, LoadKeeps, LoadedKeeps DEF Show
    <2>6. CASE Finish(w)
      BY <2>6, FinishKeeps
    <2>7. CASE Crash(w)
      BY <2>7, CrashKeeps
    <2> QED
      BY <2>1, <2>2, <2>3, <2>4, <2>5, <2>6, <2>7 DEF Step
  <1> QED
    BY <1>1, <1>2

\* The invariant holds throughout, whatever the constants.
THEOREM Invariance == Spec => []IInv
  <1>1. IInv /\ [Next]_vars => IInv'
    BY Inductive
  <1> QED
    BY Initial, <1>1, PTL DEF Spec

\* Two posts never write one file: the same comment sent twice at once has one
\* writer, and the other post leaves the file alone.
THEOREM FilesHaveOneWriter == Spec => []OneWriter
  BY Invariance, PTL DEF IInv

\* What the posted-good page says is true, or is about to be, unless the write
\* of that very comment was cut short.
THEOREM ToldIsTrue == Spec => []ToldIsThere
  <1>1. IInv => ToldIsThere
    BY DEF IInv, TypeOK, ToldIsThere, IncompleteHasCause
  <1> QED
    BY Invariance, <1>1, PTL

\* A post that fails met an error of the system: races between posts, for a
\* directory or for a file, fail none.
THEOREM NoPostFailsByRacing == Spec => []BadHasCause
  BY Invariance, PTL DEF IInv

\* A page misses no comment that was complete when the page was asked for.
THEOREM PagesMissNothing == Spec => []ShowsAll
  <1>1. IInv => ShowsAll
    BY DEF IInv, ShowsAll, ListingIsFresh, TypeOK
  <1> QED
    BY Invariance, <1>1, PTL

\* No step damages a complete comment: the only write is to a file that is
\* still empty.
THEOREM CommentsAreKept == Spec => Kept
  <1>1. ASSUME IInv, [Next]_vars, NEW b \in Blobs, file[b] = "full"
        PROVE  file'[b] = "full"
    <2>1. CASE UNCHANGED vars
      BY <1>1, <2>1 DEF vars
    <2>2. CASE Next
      <3>1. ASSUME NEW w \in Workers, Create(w)
            PROVE  file'[b] = "full"
        BY <1>1, <3>1 DEF Create, IInv, TypeOK, Posting
      <3>2. ASSUME NEW w \in Workers, Write(w)
            PROVE  file'[b] = "full"
        BY <1>1, <3>2 DEF Write, IInv, TypeOK, WriterHoldsFile, Posting
      <3>3. ASSUME NEW w \in Workers, ~ Create(w), ~ Write(w),
                   \/ \E c \in Blobs : StartPost(w, c)
                   \/ StartShow(w)
                   \/ Step(w)
                   \/ Crash(w)
            PROVE  file' = file
        BY <3>3 DEF Step, Post, Show, StartPost, StartShow, Where, Descend, Mkdir,
                    Sync, Close, List, Load, Loaded, Finish, Crash
      <3> QED
        BY <1>1, <2>2, <3>1, <3>2, <3>3 DEF Next
    <2> QED
      BY <1>1, <2>1, <2>2
  <1>2. IInv /\ [Next]_vars => [\A b \in Blobs : file[b] = "full" => file'[b] = "full"]_vars
    BY <1>1
  <1> QED
    BY Invariance, <1>2, PTL DEF Spec, Kept
=============================================================================
