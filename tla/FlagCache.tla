----------------------------- MODULE FlagCache -----------------------------
(***************************************************************************)
(* The disk cache of generated comment listings, and the flag that makes   *)
(* it stale: rendcache.py's 'flagged heuristic generators' over            *)
(* storage.py's CacheStoragePool, as comments.cached_comments_children and *)
(* comments.comment_posted use them.  A listing walks the comment store    *)
(* directory by directory and is stored under a temporary name and renamed *)
(* into place; posting a comment stores the flag the same way.  A cached   *)
(* listing is good when its file is more than Delta younger than the flag, *)
(* and at most TTL old.                                                    *)
(*                                                                         *)
(* The code bounds none of the times involved, so the module names them:   *)
(* GenMax from the start of a walk to the write of its file, StoreMax from *)
(* the write of a file to its rename.  Time is counted in whole units.     *)
(***************************************************************************)
EXTENDS Naturals

CONSTANTS Comments,  \* the comments
          Already,   \* those that are there from the start
          Dirs,      \* the directories under the page the listing is for
          DirOf,     \* the directory of each comment, of that page or another
          Requests,  \* the requests that ask for the listing
          TTL,       \* render-heuristic-flagged-ttl
          Delta,     \* render-heuristic-flagged-delta
          GenMax,    \* longest time to make a listing
          StoreMax,  \* longest time to put a written file in place
          MaxTime,   \* the bound of the clock in a run
          None,      \* no such file
          Unread     \* not looked at in this request

ASSUME TimesAssumption == {TTL, Delta, GenMax, StoreMax, MaxTime} \subseteq Nat
ASSUME NoTimeAssumption == None \notin Nat /\ Unread \notin Nat /\ None # Unread
ASSUME AlreadyAssumption == Already \subseteq Comments
ASSUME DirOfAssumption == DOMAIN DirOf = Comments
ASSUME TTLAssumption == TTL >= StoreMax
\* What the delta of 30 seconds has to cover.
ASSUME DeltaAssumption == Delta >= GenMax + 2 * StoreMax

VARIABLES now,
          store,     \* the comments in the comment store
          postedAt,  \* when each comment under the page was put there
          flagging,  \* where the poster of each comment is with the flag
          flagTime,  \* the time of the flag file that poster wrote
          flag,      \* the time of the flag file
          entry,     \* the cached listing
          pc,        \* where each request is
          owed,      \* the comments whose flag was in place when it began
          old,       \* the comments posted more than StaleBound before that
          stat,      \* the time of the entry as the request's pool has it
          flagStat,  \* the time of the flag as the request's pool has it
          got,       \* the listing the request has
          todo,      \* the directories its own walk has yet to list
          since      \* when its walk began, or its file was written

postVars == <<store, postedAt, flagging, flagTime>>
askVars == <<owed, old>>
statVars == <<stat, flagStat>>
vars == <<now, store, postedAt, flagging, flagTime, flag, entry, pc, owed, old,
          stat, flagStat, got, todo, since>>

Times == 0 .. MaxTime
Under == {c \in Comments : DirOf[c] \in Dirs}
\* The absent file is a record too, so that records compare with records only.
NoEntry == [time |-> None, list |-> {}]
Entries == [time : Times, list : SUBSET Comments]

TypeOK ==
    /\ now \in Times
    /\ store \subseteq Comments
    /\ postedAt \in [Comments -> Times]
    /\ flagging \in [Comments -> {"before", "owing", "writing", "done"}]
    /\ flagTime \in [Comments -> Times]
    /\ flag \in Times \cup {None}
    /\ entry \in Entries \cup {NoEntry}
    /\ pc \in [Requests -> {"idle", "look", "read", "judge", "walk", "rename", "served"}]
    /\ owed \in [Requests -> SUBSET Comments]
    /\ old \in [Requests -> SUBSET Comments]
    /\ stat \in [Requests -> Times]
    /\ flagStat \in [Requests -> Times \cup {None, Unread}]
    /\ got \in [Requests -> SUBSET Comments]
    /\ todo \in [Requests -> SUBSET Dirs]
    /\ since \in [Requests -> Times]

Init ==
    /\ now = 0
    /\ store = Already
    /\ postedAt = [c \in Comments |-> 0]
    /\ flagging = [c \in Comments |-> IF c \in Already THEN "done" ELSE "before"]
    /\ flagTime = [c \in Comments |-> 0]
    /\ flag = None
    /\ entry = NoEntry
    /\ pc = [r \in Requests |-> "idle"]
    /\ owed = [r \in Requests |-> {}]
    /\ old = [r \in Requests |-> {}]
    /\ stat = [r \in Requests |-> 0]
    /\ flagStat = [r \in Requests |-> Unread]
    /\ got = [r \in Requests |-> {}]
    /\ todo = [r \in Requests |-> {}]
    /\ since = [r \in Requests |-> 0]

Go(r, phase) == pc' = [pc EXCEPT ![r] = phase]

-----------------------------------------------------------------------------
(* Posting a comment: comments.post *)

PutComment(c) ==
    /\ flagging[c] = "before"
    /\ store' = store \cup {c}
    /\ postedAt' = IF c \in Under THEN [postedAt EXCEPT ![c] = now] ELSE postedAt
    /\ flagging' = [flagging EXCEPT ![c] = "owing"]
    /\ UNCHANGED <<now, flagTime, flag, entry, pc, askVars, statVars, got, todo, since>>

\* comment_posted: write the flag's temporary file.  A poster that dies first,
\* or whose store() fails, never takes this step.
WriteFlag(c) ==
    /\ flagging[c] = "owing"
    /\ flagTime' = [flagTime EXCEPT ![c] = now]
    /\ flagging' = [flagging EXCEPT ![c] = "writing"]
    /\ UNCHANGED <<now, store, postedAt, flag, entry, pc, askVars, statVars, got, todo, since>>

\* The rename puts it in place, over the flag of a poster that wrote later too.
RenameFlag(c) ==
    /\ flagging[c] = "writing"
    /\ flag' = flagTime[c]
    /\ flagging' = [flagging EXCEPT ![c] = "done"]
    /\ flagTime' = [flagTime EXCEPT ![c] = 0]
    /\ UNCHANGED <<now, store, postedAt, entry, pc, askVars, statVars, got, todo, since>>

-----------------------------------------------------------------------------
(* A request for the listing: cached_comments_children *)

\* How long a listing can miss a comment whose flag is never stored.
StaleBound == TTL + GenMax

Start(r) ==
    /\ pc[r] = "idle"
    /\ Go(r, "look")
    /\ old' = [old EXCEPT ![r] = {c \in store \cap Under : postedAt[c] + StaleBound < now}]
    /\ owed' = [owed EXCEPT ![r] = {c \in Under : flagging[c] = "done"}]
    /\ UNCHANGED <<now, postVars, flag, entry, statVars, got, todo, since>>

\* A stat is kept for the whole request: the flag's may be left from an earlier
\* listing of the same request.
StatFlag(r) ==
    /\ pc[r] = "look"
    /\ flagStat[r] = Unread
    /\ flagStat' = [flagStat EXCEPT ![r] = flag]
    /\ UNCHANGED <<now, postVars, flag, entry, pc, askVars, stat, got, todo, since>>

Walk(r) ==
    /\ Go(r, "walk")
    /\ got' = [got EXCEPT ![r] = {}]
    /\ todo' = [todo EXCEPT ![r] = Dirs]
    /\ since' = [since EXCEPT ![r] = now]

CachedLonger == entry # NoEntry /\ entry.time + TTL + 1 >= now
Cached == entry # NoEntry /\ entry.time + TTL >= now

\* fetch: an entry that is too old is a miss.
StatEntry(r) ==
    /\ pc[r] = "look"
    /\ \/ /\ Cached
          /\ stat' = [stat EXCEPT ![r] = entry.time]
          /\ Go(r, "read")
          /\ UNCHANGED <<got, todo, since>>
       \/ /\ ~ Cached
          /\ Walk(r)
          /\ UNCHANGED stat
    /\ UNCHANGED <<now, postVars, flag, entry, askVars, flagStat>>

\* fetch: the file is opened after the stat, and may have been replaced.
ReadEntry(r) ==
    /\ pc[r] = "read"
    /\ got' = [got EXCEPT ![r] = entry.list]
    /\ Go(r, "judge")
    /\ UNCHANGED <<now, postVars, flag, entry, askVars, statVars, todo, since>>

\* The times get_flagged compares: t1 is stat, t2 the flag's.
FlagSeen(r) == IF flagStat[r] = Unread THEN flag ELSE flagStat[r]
FreshAtDelta(r) == FlagSeen(r) # None => FlagSeen(r) + Delta <= stat[r]
IsFresh(r) == FlagSeen(r) # None => FlagSeen(r) + Delta < stat[r]

\* get_flagged: an empty listing counts as a miss, like a stale one.  The context
\* keeps the listing it comes to, so this request looks at no stat again.
Judge(r) ==
    /\ pc[r] = "judge"
    /\ \/ /\ got[r] # {} /\ IsFresh(r)
          /\ Go(r, "served")
          /\ UNCHANGED <<got, todo, since>>
       \/ /\ ~ (got[r] # {} /\ IsFresh(r))
          /\ Walk(r)
    /\ stat' = [stat EXCEPT ![r] = 0]
    /\ flagStat' = [flagStat EXCEPT ![r] = Unread]
    /\ UNCHANGED <<now, postVars, flag, entry, askVars>>

\* StoragePool.children lists one directory.
ListDir(r, d) ==
    /\ pc[r] = "walk"
    /\ d \in todo[r]
    /\ got' = [got EXCEPT ![r] = @ \cup {c \in store : DirOf[c] = d}]
    /\ todo' = [todo EXCEPT ![r] = @ \ {d}]
    /\ UNCHANGED <<now, postVars, flag, entry, pc, askVars, statVars, since>>

\* store_gen: write the listing's temporary file.
WriteEntry(r) ==
    /\ pc[r] = "walk"
    /\ todo[r] = {}
    /\ Go(r, "rename")
    /\ since' = [since EXCEPT ![r] = now]
    /\ UNCHANGED <<now, postVars, flag, entry, askVars, statVars, got, todo>>

\* Rename it into place, or fail to; the page is made from the listing anyway.
RenameEntry(r) ==
    /\ pc[r] = "rename"
    /\ entry' \in {entry, [time |-> since[r], list |-> got[r]]}
    /\ Go(r, "served")
    /\ since' = [since EXCEPT ![r] = 0]
    /\ UNCHANGED <<now, postVars, flag, askVars, statVars, got, todo>>

\* The request ends, and CacheCleaner flushes the stats of its pool.
End(r) ==
    /\ pc[r] = "served"
    /\ Go(r, "idle")
    /\ flagStat' = [flagStat EXCEPT ![r] = Unread]
    /\ got' = [got EXCEPT ![r] = {}]
    /\ owed' = [owed EXCEPT ![r] = {}]
    /\ old' = [old EXCEPT ![r] = {}]
    /\ UNCHANGED <<now, postVars, flag, entry, stat, todo, since>>

-----------------------------------------------------------------------------
\* Time passes, but not past the longest walk or the longest store.
Tick ==
    /\ now < MaxTime
    /\ \A r \in Requests : /\ pc[r] = "walk" => now < since[r] + GenMax
                           /\ pc[r] = "rename" => now < since[r] + StoreMax
    /\ \A c \in Comments : flagging[c] = "writing" => now < flagTime[c] + StoreMax
    /\ now' = now + 1
    /\ UNCHANGED <<postVars, flag, entry, pc, askVars, statVars, got, todo, since>>

Request(r) ==
    \/ Start(r) \/ StatFlag(r) \/ StatEntry(r) \/ ReadEntry(r) \/ Judge(r)
    \/ \E d \in Dirs : ListDir(r, d)
    \/ WriteEntry(r) \/ RenameEntry(r) \/ End(r)

Next ==
    \/ Tick
    \/ \E c \in Comments : PutComment(c) \/ WriteFlag(c) \/ RenameFlag(c)
    \/ \E r \in Requests : Request(r)

Spec == Init /\ [][Next]_vars

-----------------------------------------------------------------------------
\* A served listing has every comment whose flag was in place when the request
\* began, although flags are renamed out of order, the entry is replaced
\* between its stat and its read, and walks straddle posts.
FreshAfterFlag == \A r \in Requests : pc[r] = "served" => owed[r] \subseteq got[r]

\* Even a comment whose flag never came (the poster died, or could not store
\* it) is missing for a bounded time only.
StalenessBounded == \A r \in Requests : pc[r] = "served" => old[r] \subseteq got[r]

-----------------------------------------------------------------------------
(* What the proofs carry along. *)

\* A list made by a walk that ended in a file of time t has the comments posted
\* more than GenMax before t, and those that were always there.
Covers(list, t) ==
    \A c \in store \cap Under : c \in Already \/ postedAt[c] + GenMax < t => c \in list

PostsInOrder ==
    /\ \A c \in Comments : /\ postedAt[c] <= now
                           /\ c \in store <=> flagging[c] # "before"
                           /\ c \in Already => flagging[c] = "done"
                           /\ flagging[c] = "writing" =>
                                  flagTime[c] <= now /\ now <= flagTime[c] + StoreMax
    /\ \A c \in Under \ Already : flagging[c] = "done" =>
           flag \in Nat /\ postedAt[c] <= flag + StoreMax

EntryCovers ==
    entry # NoEntry => entry.time <= now /\ Covers(entry.list, entry.time)

\* What a request owes was there before it began; the flag it has seen is no
\* older than the comments it owes allow.
Owing(r) ==
    /\ \A c \in owed[r] : c \in Under /\ flagging[c] = "done"
    /\ \A c \in old[r] : /\ c \in Under \cap store
                         /\ postedAt[c] + StaleBound < now
    /\ flagStat[r] # Unread => pc[r] # "idle" /\
           \A c \in owed[r] \ Already :
               flagStat[r] \in Nat /\ postedAt[c] <= flagStat[r] + StoreMax

Reading(r) ==
    /\ pc[r] = "read" =>
           /\ entry # NoEntry
           /\ stat[r] <= now
           /\ stat[r] <= entry.time + StoreMax
           /\ \A c \in old[r] : postedAt[c] + GenMax < entry.time
    /\ pc[r] = "judge" =>
           /\ stat[r] <= now
           /\ old[r] \subseteq got[r]
           /\ \A c \in store \cap Under :
                  c \in Already \/ postedAt[c] + GenMax + StoreMax < stat[r] => c \in got[r]

Making(r) ==
    /\ pc[r] = "walk" =>
           /\ since[r] <= now
           /\ now <= since[r] + GenMax
           /\ \A c \in store \cap Under :
                  /\ DirOf[c] \notin todo[r]
                  /\ c \in Already \cup owed[r] \cup old[r] \/ postedAt[c] < since[r]
                  => c \in got[r]
    /\ pc[r] = "rename" =>
           /\ since[r] <= now
           /\ now <= since[r] + StoreMax
           /\ Covers(got[r], since[r])
    /\ pc[r] \in {"rename", "served"} => owed[r] \cup old[r] \subseteq got[r]

IInv ==
    /\ TypeOK
    /\ PostsInOrder
    /\ EntryCovers
    /\ \A r \in Requests : Owing(r) /\ Reading(r) /\ Making(r)
=============================================================================
