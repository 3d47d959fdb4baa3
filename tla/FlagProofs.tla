----------------------------- MODULE FlagProofs -----------------------------
(***************************************************************************)
(* Proofs about the flagged listing cache, for any comments, directories   *)
(* and requests, and any TTL, Delta, GenMax and StoreMax that satisfy the  *)
(* assumptions of FlagCache.  The argument follows the times: a flag in    *)
(* place is at most StoreMax older than any comment in the store when it   *)
(* came (PostsInOrder); the entry read is at most StoreMax older than the  *)
(* one whose time was taken (Reading); its listing is at most GenMax older *)
(* than its file (EntryCovers); so an entry more than Delta younger than   *)
(* the flag was listed after the comments that were flagged.               *)
(***************************************************************************)
EXTENDS FlagCache, TLAPS

\* Nothing is cached, flagged or asked for at first.
LEMMA Initial == Init => IInv
  <1> SUFFICES ASSUME Init PROVE IInv
    OBVIOUS
  <1>1. TypeOK
    BY TimesAssumption, AlreadyAssumption DEF Init, TypeOK, Times
  <1>2. PostsInOrder
    BY AlreadyAssumption, TimesAssumption DEF Init, PostsInOrder, Under
  <1>3. EntryCovers
    BY DEF Init, EntryCovers
  <1>4. ASSUME NEW r \in Requests
        PROVE  Owing(r) /\ Reading(r) /\ Making(r)
    BY NoTimeAssumption DEF Init, Owing, Reading, Making
  <1> QED
    BY <1>1, <1>2, <1>3, <1>4 DEF IInv

\* Tick: walks and stores in progress keep within their bounds.
LEMMA TickKeeps ==
  ASSUME IInv, Tick
  PROVE  IInv'
  <1>t. TypeOK
    BY DEF IInv
  <1>1. TypeOK'
    BY <1>t, TimesAssumption, NoTimeAssumption
       DEF TypeOK, Times, Entries, NoEntry, Under, Tick, postVars, askVars,
           statVars
  <1>2. PostsInOrder'
    BY <1>t, TimesAssumption
       DEF IInv, TypeOK, Times, PostsInOrder, Under, Tick, postVars, askVars,
           statVars
  <1>3. EntryCovers'
    BY <1>t, TimesAssumption
       DEF IInv, TypeOK, Times, Entries, NoEntry, EntryCovers, Covers,
           PostsInOrder, Under, Tick, postVars, askVars, statVars
  <1>4. ASSUME NEW s \in Requests PROVE Owing(s)'
    BY <1>t, TimesAssumption, NoTimeAssumption
       DEF IInv, TypeOK, Times, Owing, StaleBound, PostsInOrder, Under, Tick,
           postVars, askVars, statVars
  <1>5. ASSUME NEW s \in Requests PROVE Reading(s)'
    BY <1>t, TimesAssumption, NoTimeAssumption
       DEF IInv, TypeOK, Times, Entries, NoEntry, Reading, EntryCovers,
           Covers, Owing, StaleBound, PostsInOrder, Under, Tick, postVars,
           askVars, statVars
  <1>6. ASSUME NEW s \in Requests PROVE Making(s)'
    BY <1>t, TimesAssumption
       DEF IInv, TypeOK, Times, Making, Covers, Owing, PostsInOrder, Under,
           Tick, postVars, askVars, statVars
  <1> QED
    BY <1>1, <1>2, <1>3, <1>4, <1>5, <1>6 DEF IInv

\* PutComment(c): a comment posted now is younger than every listing.
LEMMA PutCommentKeeps ==
  ASSUME IInv, NEW c \in Comments, PutComment(c)
  PROVE  IInv'
  <1>t. TypeOK
    BY DEF IInv
  <1>1. TypeOK'
    BY <1>t, TimesAssumption, NoTimeAssumption
       DEF TypeOK, Times, Entries, NoEntry, Under, PutComment, postVars,
           askVars, statVars
  <1>2. PostsInOrder'
    BY <1>t, TimesAssumption
       DEF IInv, TypeOK, Times, PostsInOrder, Under, PutComment, postVars,
           askVars, statVars
  <1>3. EntryCovers'
    BY <1>t, TimesAssumption
       DEF IInv, TypeOK, Times, Entries, NoEntry, EntryCovers, Covers,
           PostsInOrder, Under, PutComment, postVars, askVars, statVars
  <1>4. ASSUME NEW s \in Requests PROVE Owing(s)'
    BY <1>t, TimesAssumption, NoTimeAssumption
       DEF IInv, TypeOK, Times, Owing, StaleBound, PostsInOrder, Under,
           PutComment, postVars, askVars, statVars
  <1>5. ASSUME NEW s \in Requests PROVE Reading(s)'
    BY <1>t, TimesAssumption, NoTimeAssumption
       DEF IInv, TypeOK, Times, Entries, NoEntry, Reading, EntryCovers,
           Covers, Owing, StaleBound, PostsInOrder, Under, PutComment, postVars,
           askVars, statVars
  <1>6. ASSUME NEW s \in Requests PROVE Making(s)'
    BY <1>t, TimesAssumption
       DEF IInv, TypeOK, Times, Making, Covers, Owing, PostsInOrder, Under,
           PutComment, postVars, askVars, statVars
  <1> QED
    BY <1>1, <1>2, <1>3, <1>4, <1>5, <1>6 DEF IInv

\* WriteFlag(c): the flag's file gets the time of now.
LEMMA WriteFlagKeeps ==
  ASSUME IInv, NEW c \in Comments, WriteFlag(c)
  PROVE  IInv'
  <1>t. TypeOK
    BY DEF IInv
  <1>1. TypeOK'
    BY <1>t, TimesAssumption, NoTimeAssumption
       DEF TypeOK, Times, Entries, NoEntry, Under, WriteFlag, postVars,
           askVars, statVars
  <1>2. PostsInOrder'
    BY <1>t, TimesAssumption
       DEF IInv, TypeOK, Times, PostsInOrder, Under, WriteFlag, postVars,
           askVars, statVars
  <1>3. EntryCovers'
    BY <1>t, TimesAssumption
       DEF IInv, TypeOK, Times, Entries, NoEntry, EntryCovers, Covers,
           PostsInOrder, Under, WriteFlag, postVars, askVars, statVars
  <1>4. ASSUME NEW s \in Requests PROVE Owing(s)'
    BY <1>t, TimesAssumption, NoTimeAssumption
       DEF IInv, TypeOK, Times, Owing, StaleBound, PostsInOrder, Under,
           WriteFlag, postVars, askVars, statVars
  <1>5. ASSUME NEW s \in Requests PROVE Reading(s)'
    BY <1>t, TimesAssumption, NoTimeAssumption
       DEF IInv, TypeOK, Times, Entries, NoEntry, Reading, EntryCovers,
           Covers, Owing, StaleBound, PostsInOrder, Under, WriteFlag, postVars,
           askVars, statVars
  <1>6. ASSUME NEW s \in Requests PROVE Making(s)'
    BY <1>t, TimesAssumption
       DEF IInv, TypeOK, Times, Making, Covers, Owing, PostsInOrder, Under,
           WriteFlag, postVars, askVars, statVars
  <1> QED
    BY <1>1, <1>2, <1>3, <1>4, <1>5, <1>6 DEF IInv

\* RenameFlag(c): the flag that comes into place is at most StoreMax old, and
\* every comment in the store is at least as old as now.
LEMMA RenameFlagKeeps ==
  ASSUME IInv, NEW c \in Comments, RenameFlag(c)
  PROVE  IInv'
  <1>t. TypeOK
    BY DEF IInv
  <1>1. TypeOK'
    BY <1>t, TimesAssumption, NoTimeAssumption
       DEF TypeOK, Times, Entries, NoEntry, Under, RenameFlag, postVars,
           askVars, statVars
  <1>2. PostsInOrder'
    BY <1>t, TimesAssumption
       DEF IInv, TypeOK, Times, PostsInOrder, Under, RenameFlag, postVars,
           askVars, statVars
  <1>3. EntryCovers'
    BY <1>t, TimesAssumption
       DEF IInv, TypeOK, Times, Entries, NoEntry, EntryCovers, Covers,
           PostsInOrder, Under, RenameFlag, postVars, askVars, statVars
  <1>4. ASSUME NEW s \in Requests PROVE Owing(s)'
    BY <1>t, TimesAssumption, NoTimeAssumption
       DEF IInv, TypeOK, Times, Owing, StaleBound, PostsInOrder, Under,
           RenameFlag, postVars, askVars, statVars
  <1>5. ASSUME NEW s \in Requests PROVE Reading(s)'
    BY <1>t, TimesAssumption, NoTimeAssumption
       DEF IInv, TypeOK, Times, Entries, NoEntry, Reading, EntryCovers,
           Covers, Owing, StaleBound, PostsInOrder, Under, RenameFlag, postVars,
           askVars, statVars
  <1>6. ASSUME NEW s \in Requests PROVE Making(s)'
    BY <1>t, TimesAssumption
       DEF IInv, TypeOK, Times, Making, Covers, Owing, PostsInOrder, Under,
           RenameFlag, postVars, askVars, statVars
  <1> QED
    BY <1>1, <1>2, <1>3, <1>4, <1>5, <1>6 DEF IInv

\* Start(r): what is flagged now is what the request is owed.
LEMMA StartKeeps ==
  ASSUME IInv, NEW r \in Requests, Start(r)
  PROVE  IInv'
  <1>t. TypeOK
    BY DEF IInv
  <1>1. TypeOK'
    BY <1>t, TimesAssumption, NoTimeAssumption
       DEF TypeOK, Times, Entries, NoEntry, Under, Start, Go, postVars,
           askVars, statVars
  <1>2. PostsInOrder'
    BY <1>t, TimesAssumption
       DEF IInv, TypeOK, Times, PostsInOrder, Under, Start, Go, postVars,
           askVars, statVars
  <1>3. EntryCovers'
    BY <1>t, TimesAssumption
       DEF IInv, TypeOK, Times, Entries, NoEntry, EntryCovers, Covers,
           PostsInOrder, Under, Start, Go, postVars, askVars, statVars
  <1>4. ASSUME NEW s \in Requests PROVE Owing(s)'
    BY <1>t, TimesAssumption, NoTimeAssumption
       DEF IInv, TypeOK, Times, Owing, StaleBound, PostsInOrder, Under,
           Start, Go, postVars, askVars, statVars
  <1>5. ASSUME NEW s \in Requests PROVE Reading(s)'
    BY <1>t, TimesAssumption, NoTimeAssumption
       DEF IInv, TypeOK, Times, Entries, NoEntry, Reading, EntryCovers,
           Covers, Owing, StaleBound, PostsInOrder, Under, Start, Go, postVars,
           askVars, statVars
  <1>6. ASSUME NEW s \in Requests PROVE Making(s)'
    BY <1>t, TimesAssumption
       DEF IInv, TypeOK, Times, Making, Covers, Owing, PostsInOrder, Under,
           Start, Go, postVars, askVars, statVars
  <1> QED
    BY <1>1, <1>2, <1>3, <1>4, <1>5, <1>6 DEF IInv

\* StatFlag(r): the flag covers the owed comments.
LEMMA StatFlagKeeps ==
  ASSUME IInv, NEW r \in Requests, StatFlag(r)
  PROVE  IInv'
  <1>t. TypeOK
    BY DEF IInv
  <1>1. TypeOK'
    BY <1>t, TimesAssumption, NoTimeAssumption
       DEF TypeOK, Times, Entries, NoEntry, Under, StatFlag, Go, postVars,
           askVars, statVars
  <1>2. PostsInOrder'
    BY <1>t, TimesAssumption
       DEF IInv, TypeOK, Times, PostsInOrder, Under, StatFlag, Go, postVars,
           askVars, statVars
  <1>3. EntryCovers'
    BY <1>t, TimesAssumption
       DEF IInv, TypeOK, Times, Entries, NoEntry, EntryCovers, Covers,
           PostsInOrder, Under, StatFlag, Go, postVars, askVars, statVars
  <1>4. ASSUME NEW s \in Requests PROVE Owing(s)'
    BY <1>t, TimesAssumption, NoTimeAssumption
       DEF IInv, TypeOK, Times, Owing, StaleBound, PostsInOrder, Under,
           StatFlag, Go, postVars, askVars, statVars
  <1>5. ASSUME NEW s \in Requests PROVE Reading(s)'
    BY <1>t, TimesAssumption, NoTimeAssumption
       DEF IInv, TypeOK, Times, Entries, NoEntry, Reading, EntryCovers,
           Covers, Owing, StaleBound, PostsInOrder, Under, StatFlag, Go,
           postVars, askVars, statVars
  <1>6. ASSUME NEW s \in Requests PROVE Making(s)'
    BY <1>t, TimesAssumption
       DEF IInv, TypeOK, Times, Making, Covers, Owing, PostsInOrder, Under,
           StatFlag, Go, postVars, askVars, statVars
  <1> QED
    BY <1>1, <1>2, <1>3, <1>4, <1>5, <1>6 DEF IInv

\* StatEntry(r): a usable entry is recent enough for the old comments.
LEMMA StatEntryKeeps ==
  ASSUME IInv, NEW r \in Requests, StatEntry(r)
  PROVE  IInv'
  <1>t. TypeOK
    BY DEF IInv
  <1>1. TypeOK'
    BY <1>t, TimesAssumption, NoTimeAssumption
       DEF TypeOK, Times, Entries, NoEntry, Under, StatEntry, Go, Walk,
           Cached, postVars, askVars, statVars
  <1>2. PostsInOrder'
    BY <1>t, TimesAssumption
       DEF IInv, TypeOK, Times, PostsInOrder, Under, StatEntry, Go, Walk,
           Cached, postVars, askVars, statVars
  <1>3. EntryCovers'
    BY <1>t, TimesAssumption
       DEF IInv, TypeOK, Times, Entries, NoEntry, EntryCovers, Covers,
           PostsInOrder, Under, StatEntry, Go, Walk, Cached, postVars, askVars,
           statVars
  <1>4. ASSUME NEW s \in Requests PROVE Owing(s)'
    BY <1>t, TimesAssumption, NoTimeAssumption
       DEF IInv, TypeOK, Times, Owing, StaleBound, PostsInOrder, Under,
           StatEntry, Go, Walk, Cached, postVars, askVars, statVars
  <1>5. ASSUME NEW s \in Requests PROVE Reading(s)'
    BY <1>t, TimesAssumption, NoTimeAssumption, TTLAssumption
       DEF IInv, TypeOK, Times, Entries, NoEntry, Reading, EntryCovers,
           Covers, Owing, StaleBound, PostsInOrder, Under, StatEntry, Go, Walk,
           Cached, postVars, askVars, statVars
  <1>6. ASSUME NEW s \in Requests PROVE Making(s)'
    BY <1>t, TimesAssumption
       DEF IInv, TypeOK, Times, Making, Covers, Owing, PostsInOrder, Under,
           StatEntry, Go, Walk, Cached, postVars, askVars, statVars
  <1> QED
    BY <1>1, <1>2, <1>3, <1>4, <1>5, <1>6 DEF IInv

\* ReadEntry(r): the entry read is at most StoreMax older than the one seen.
LEMMA ReadEntryKeeps ==
  ASSUME IInv, NEW r \in Requests, ReadEntry(r)
  PROVE  IInv'
  <1>t. TypeOK
    BY DEF IInv
  <1>1. TypeOK'
    BY <1>t, TimesAssumption, NoTimeAssumption
       DEF TypeOK, Times, Entries, NoEntry, Under, ReadEntry, Go, postVars,
           askVars, statVars
  <1>2. PostsInOrder'
    BY <1>t, TimesAssumption
       DEF IInv, TypeOK, Times, PostsInOrder, Under, ReadEntry, Go, postVars,
           askVars, statVars
  <1>3. EntryCovers'
    BY <1>t, TimesAssumption
       DEF IInv, TypeOK, Times, Entries, NoEntry, EntryCovers, Covers,
           PostsInOrder, Under, ReadEntry, Go, postVars, askVars, statVars
  <1>4. ASSUME NEW s \in Requests PROVE Owing(s)'
    BY <1>t, TimesAssumption, NoTimeAssumption
       DEF IInv, TypeOK, Times, Owing, StaleBound, PostsInOrder, Under,
           ReadEntry, Go, postVars, askVars, statVars
  <1>5. ASSUME NEW s \in Requests PROVE Reading(s)'
    BY <1>t, TimesAssumption, NoTimeAssumption
       DEF IInv, TypeOK, Times, Entries, NoEntry, Reading, EntryCovers,
           Covers, Owing, StaleBound, PostsInOrder, Under, ReadEntry, Go,
           postVars, askVars, statVars
  <1>6. ASSUME NEW s \in Requests PROVE Making(s)'
    BY <1>t, TimesAssumption
       DEF IInv, TypeOK, Times, Making, Covers, Owing, PostsInOrder, Under,
           ReadEntry, Go, postVars, askVars, statVars
  <1> QED
    BY <1>1, <1>2, <1>3, <1>4, <1>5, <1>6 DEF IInv

\* Judge(r): Delta covers the walk, the swap of the entry and the flag's.
LEMMA JudgeKeeps ==
  ASSUME IInv, NEW r \in Requests, Judge(r)
  PROVE  IInv'
  <1>t. TypeOK
    BY DEF IInv
  <1>1. TypeOK'
    BY <1>t, TimesAssumption, NoTimeAssumption
       DEF TypeOK, Times, Entries, NoEntry, Under, Judge, Go, Walk, IsFresh,
           FlagSeen, postVars, askVars, statVars
  <1>2. PostsInOrder'
    BY <1>t, TimesAssumption
       DEF IInv, TypeOK, Times, PostsInOrder, Under, Judge, Go, Walk,
           IsFresh, FlagSeen, postVars, askVars, statVars
  <1>3. EntryCovers'
    BY <1>t, TimesAssumption
       DEF IInv, TypeOK, Times, Entries, NoEntry, EntryCovers, Covers,
           PostsInOrder, Under, Judge, Go, Walk, IsFresh, FlagSeen, postVars,
           askVars, statVars
  <1>4. ASSUME NEW s \in Requests PROVE Owing(s)'
    BY <1>t, TimesAssumption, NoTimeAssumption
       DEF IInv, TypeOK, Times, Owing, StaleBound, PostsInOrder, Under,
           Judge, Go, Walk, IsFresh, FlagSeen, postVars, askVars, statVars
  <1>5. ASSUME NEW s \in Requests PROVE Reading(s)'
    BY <1>t, TimesAssumption, NoTimeAssumption
       DEF IInv, TypeOK, Times, Entries, NoEntry, Reading, EntryCovers,
           Covers, Owing, StaleBound, PostsInOrder, Under, Judge, Go, Walk,
           IsFresh, FlagSeen, postVars, askVars, statVars
  <1>6. ASSUME NEW s \in Requests PROVE Making(s)'
    BY <1>t, TimesAssumption, NoTimeAssumption, DeltaAssumption
       DEF IInv, TypeOK, Times, Making, Covers, Owing, PostsInOrder, Under,
           Reading, Judge, Go, Walk, IsFresh, FlagSeen, postVars, askVars,
           statVars
  <1> QED
    BY <1>1, <1>2, <1>3, <1>4, <1>5, <1>6 DEF IInv

\* ListDir(r, d): the directory has every comment posted before.
LEMMA ListDirKeeps ==
  ASSUME IInv, NEW r \in Requests, NEW d \in Dirs, ListDir(r, d)
  PROVE  IInv'
  <1>t. TypeOK
    BY DEF IInv
  <1>1. TypeOK'
    BY <1>t, TimesAssumption, NoTimeAssumption
       DEF TypeOK, Times, Entries, NoEntry, Under, ListDir, postVars,
           askVars, statVars
  <1>2. PostsInOrder'
    BY <1>t, TimesAssumption
       DEF IInv, TypeOK, Times, PostsInOrder, Under, ListDir, postVars,
           askVars, statVars
  <1>3. EntryCovers'
    BY <1>t, TimesAssumption
       DEF IInv, TypeOK, Times, Entries, NoEntry, EntryCovers, Covers,
           PostsInOrder, Under, ListDir, postVars, askVars, statVars
  <1>4. ASSUME NEW s \in Requests PROVE Owing(s)'
    BY <1>t, TimesAssumption, NoTimeAssumption
       DEF IInv, TypeOK, Times, Owing, StaleBound, PostsInOrder, Under,
           ListDir, postVars, askVars, statVars
  <1>5. ASSUME NEW s \in Requests PROVE Reading(s)'
    BY <1>t, TimesAssumption, NoTimeAssumption
       DEF IInv, TypeOK, Times, Entries, NoEntry, Reading, EntryCovers,
           Covers, Owing, StaleBound, PostsInOrder, Under, ListDir, postVars,
           askVars, statVars
  <1>6. ASSUME NEW s \in Requests PROVE Making(s)'
    BY <1>t, TimesAssumption
       DEF IInv, TypeOK, Times, Making, Covers, Owing, PostsInOrder, Under,
           ListDir, postVars, askVars, statVars
  <1> QED
    BY <1>1, <1>2, <1>3, <1>4, <1>5, <1>6 DEF IInv

\* WriteEntry(r): the walk is over, and took at most GenMax.
LEMMA WriteEntryKeeps ==
  ASSUME IInv, NEW r \in Requests, WriteEntry(r)
  PROVE  IInv'
  <1>t. TypeOK
    BY DEF IInv
  <1>1. TypeOK'
    BY <1>t, TimesAssumption, NoTimeAssumption
       DEF TypeOK, Times, Entries, NoEntry, Under, WriteEntry, Go, postVars,
           askVars, statVars
  <1>2. PostsInOrder'
    BY <1>t, TimesAssumption
       DEF IInv, TypeOK, Times, PostsInOrder, Under, WriteEntry, Go,
           postVars, askVars, statVars
  <1>3. EntryCovers'
    BY <1>t, TimesAssumption
       DEF IInv, TypeOK, Times, Entries, NoEntry, EntryCovers, Covers,
           PostsInOrder, Under, WriteEntry, Go, postVars, askVars, statVars
  <1>4. ASSUME NEW s \in Requests PROVE Owing(s)'
    BY <1>t, TimesAssumption, NoTimeAssumption
       DEF IInv, TypeOK, Times, Owing, StaleBound, PostsInOrder, Under,
           WriteEntry, Go, postVars, askVars, statVars
  <1>5. ASSUME NEW s \in Requests PROVE Reading(s)'
    BY <1>t, TimesAssumption, NoTimeAssumption
       DEF IInv, TypeOK, Times, Entries, NoEntry, Reading, EntryCovers,
           Covers, Owing, StaleBound, PostsInOrder, Under, WriteEntry, Go,
           postVars, askVars, statVars
  <1>6. ASSUME NEW s \in Requests PROVE Making(s)'
    BY <1>t, TimesAssumption
       DEF IInv, TypeOK, Times, Making, Covers, Owing, PostsInOrder, Under,
           WriteEntry, Go, postVars, askVars, statVars
  <1> QED
    BY <1>1, <1>2, <1>3, <1>4, <1>5, <1>6 DEF IInv

\* RenameEntry(r): the entry is replaced by one at most StoreMax old.
LEMMA RenameEntryKeeps ==
  ASSUME IInv, NEW r \in Requests, RenameEntry(r)
  PROVE  IInv'
  <1>t. TypeOK
    BY DEF IInv
  <1>1. TypeOK'
    BY <1>t, TimesAssumption, NoTimeAssumption
       DEF TypeOK, Times, Entries, NoEntry, Under, RenameEntry, Go, postVars,
           askVars, statVars
  <1>2. PostsInOrder'
    BY <1>t, TimesAssumption
       DEF IInv, TypeOK, Times, PostsInOrder, Under, RenameEntry, Go,
           postVars, askVars, statVars
  <1>3. EntryCovers'
    BY <1>t, TimesAssumption
       DEF IInv, TypeOK, Times, Entries, NoEntry, EntryCovers, Covers,
           PostsInOrder, Under, Making, RenameEntry, Go, postVars, askVars,
           statVars
  <1>4. ASSUME NEW s \in Requests PROVE Owing(s)'
    BY <1>t, TimesAssumption, NoTimeAssumption
       DEF IInv, TypeOK, Times, Owing, StaleBound, PostsInOrder, Under,
           RenameEntry, Go, postVars, askVars, statVars
  <1>5. ASSUME NEW s \in Requests PROVE Reading(s)'
    BY <1>t, TimesAssumption, NoTimeAssumption, TTLAssumption
       DEF IInv, TypeOK, Times, Entries, NoEntry, Reading, EntryCovers,
           Covers, Owing, StaleBound, PostsInOrder, Under, Making, RenameEntry,
           Go, postVars, askVars, statVars
  <1>6. ASSUME NEW s \in Requests PROVE Making(s)'
    BY <1>t, TimesAssumption
       DEF IInv, TypeOK, Times, Making, Covers, Owing, PostsInOrder, Under,
           RenameEntry, Go, postVars, askVars, statVars
  <1> QED
    BY <1>1, <1>2, <1>3, <1>4, <1>5, <1>6 DEF IInv

\* End(r): nothing of the request is kept.
LEMMA EndKeeps ==
  ASSUME IInv, NEW r \in Requests, End(r)
  PROVE  IInv'
  <1>t. TypeOK
    BY DEF IInv
  <1>1. TypeOK'
    BY <1>t, TimesAssumption, NoTimeAssumption
       DEF TypeOK, Times, Entries, NoEntry, Under, End, Go, postVars,
           askVars, statVars
  <1>2. PostsInOrder'
    BY <1>t, TimesAssumption
       DEF IInv, TypeOK, Times, PostsInOrder, Under, End, Go, postVars,
           askVars, statVars
  <1>3. EntryCovers'
    BY <1>t, TimesAssumption
       DEF IInv, TypeOK, Times, Entries, NoEntry, EntryCovers, Covers,
           PostsInOrder, Under, End, Go, postVars, askVars, statVars
  <1>4. ASSUME NEW s \in Requests PROVE Owing(s)'
    BY <1>t, TimesAssumption, NoTimeAssumption
       DEF IInv, TypeOK, Times, Owing, StaleBound, PostsInOrder, Under, End,
           Go, postVars, askVars, statVars
  <1>5. ASSUME NEW s \in Requests PROVE Reading(s)'
    BY <1>t, TimesAssumption, NoTimeAssumption
       DEF IInv, TypeOK, Times, Entries, NoEntry, Reading, EntryCovers,
           Covers, Owing, StaleBound, PostsInOrder, Under, End, Go, postVars,
           askVars, statVars
  <1>6. ASSUME NEW s \in Requests PROVE Making(s)'
    BY <1>t, TimesAssumption
       DEF IInv, TypeOK, Times, Making, Covers, Owing, PostsInOrder, Under,
           End, Go, postVars, askVars, statVars
  <1> QED
    BY <1>1, <1>2, <1>3, <1>4, <1>5, <1>6 DEF IInv

\* Every step of the cache keeps the invariant.
LEMMA Inductive ==
  ASSUME IInv, [Next]_vars
  PROVE  IInv'
  <1>1. CASE UNCHANGED vars
    BY <1>1 DEF vars, IInv, TypeOK, PostsInOrder, EntryCovers, Covers, Owing,
                Reading, Making
  <1>2. CASE Tick
    BY <1>2, TickKeeps
  <1>3. ASSUME NEW c \in Comments, PutComment(c) \/ WriteFlag(c) \/ RenameFlag(c)
        PROVE  IInv'
    BY <1>3, PutCommentKeeps, WriteFlagKeeps, RenameFlagKeeps
  <1>4. ASSUME NEW r \in Requests, Request(r)
        PROVE  IInv'
    BY <1>4, StartKeeps, StatFlagKeeps, StatEntryKeeps, ReadEntryKeeps, JudgeKeeps,
       ListDirKeeps, WriteEntryKeeps, RenameEntryKeeps, EndKeeps DEF Request
  <1> QED
    BY <1>1, <1>2, <1>3, <1>4 DEF Next

\* The invariant holds throughout, for every value of the constants.
THEOREM Invariance == Spec => []IInv
  <1>1. IInv /\ [Next]_vars => IInv'
    BY Inductive
  <1> QED
    BY Initial, <1>1, PTL DEF Spec

\* get_flagged's delta does what it is for: a listing that is served, from the
\* cache or made anew, has every comment whose flag was in place when the
\* request began, provided the delta covers a walk and two stores.
THEOREM DeltaCoversRaces == Spec => []FreshAfterFlag
  <1>1. IInv => FreshAfterFlag
    BY DEF IInv, Making, FreshAfterFlag
  <1> QED
    BY Invariance, <1>1, PTL

\* The TTL bounds what a lost flag can cost: a listing that is served has every
\* comment posted more than StaleBound before the request began.
THEOREM TTLBoundsStaleness == Spec => []StalenessBounded
  <1>1. IInv => StalenessBounded
    BY DEF IInv, Making, StalenessBounded
  <1> QED
    BY Invariance, <1>1, PTL
=============================================================================
