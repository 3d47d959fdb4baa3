-------------------------------- MODULE Blog --------------------------------
(***************************************************************************)
(* A blog and its readers: the listings of blogdir.py, the pages before    *)
(* and after an entry, and the texts and titles of wikirend.py, each of    *)
(* them through the caches of rendcache.py, while the author works in the  *)
(* files.  One page is made in one step; what a reader has before him is   *)
(* kept while nothing changes.  The readers of a behaviour come for one    *)
(* thing: the caches of texts and of lists have nothing to do with each    *)
(* other, and entries fill the lists that listings take.                   *)
(*                                                                         *)
(* What the author does happens at a time of its own, and he may give a    *)
(* file any modification time up to then, which says when the entry is     *)
(* of; the change time, and that of the directory of a file that comes or  *)
(* goes, are the file system's.                                            *)
(***************************************************************************)
EXTENDS PageRanges

CONSTANTS Files, DirOf, BlogDir, \* the entries, no two of them one file, and their directories
          Rank,         \* the order of the names
          Unreal,       \* redirects and utility pages
          Commented,    \* files with a CanComment macro
          Users, NoUser, DefaultUser,
          Configs,             \* which caches the site may have: none, those of generators,
                        \* all, or all with render-anonymous-only
          TTL, HowMany,        \* render-heuristic-ttl, blog-display-howmany
          FirstDisk, FirstClock,
          Typed,        \* the suffixes that readers type in
          Worked,       \* the files that the author works on, for each of the visits
          Rendered,     \* those whose texts are read
          Acls, Stamps, LastClock, Furthest    \* bounds of a run: Furthest in the names of ranges

Open == {"everybody"}
Dirs == {BlogDir} \cup {DirOf[f] : f \in Files}
Visits == {"listings", "entries", "texts"}

ASSUME BlogAssumption ==
  /\ Configs \subseteq {"off", "generators", "renders", "anonymous"} /\ NoUser \notin Users \cup Open
  /\ DefaultUser \in Users \cup {NoUser} /\ TTL \in Nat /\ HowMany \in Nat \ {0}
  /\ Acls \subseteq (SUBSET Users) \cup {Open} /\ Rendered \subseteq Files
  /\ FirstClock \in Nat /\ Stamps \subseteq Nat
  /\ IsFiniteSet(Files) /\ Rank \in [Files -> Int]
  /\ \A f, g \in Files : Rank[f] = Rank[g] => f = g
  /\ Typed \subseteq Suffixes /\ Stamps \subseteq DOMAIN Date
  /\ \A v \in Visits : LastClock[v] \in Nat /\ FirstClock + 1 .. LastClock[v] \subseteq DOMAIN Date
  /\ \A f \in Files : FirstDisk[f].mtime \in {0} \cup DOMAIN Date
  /\ FirstDisk \in [Files -> [mtime : Nat, ctime : 0 .. FirstClock, acl : (SUBSET Users) \cup {Open}]]

VARIABLES clock, caching,
          visits,    \* what the readers come for: listings, entries or texts
          disk,      \* of each file its modification time, 0 if it is not there,
                     \* its change time, and whom its own macro admits
          dirTime,   \* of each directory, its modification time
          above,     \* whom the __access file above the blog admits
          kids, pnc, \* the cached lists: page-kids and pnc-kids of the blog
          texts,     \* the cached renderings
          seen       \* what the last page was
vars == <<clock, caching, visits, disk, dirTime, above, kids, pnc, texts, seen>>
site == <<clock, caching, visits, disk, dirTime, above>>

Nothing == [kind |-> "nothing"]
There == {f \in Files : disk[f].mtime # 0}
Real == There \ Unreal

Init ==
  /\ clock = FirstClock /\ caching \in Configs /\ visits \in Visits
  /\ caching = "anonymous" => visits = "texts"    \* else it is the same as "renders"
  /\ disk = FirstDisk /\ dirTime = [d \in Dirs |-> FirstClock] /\ above = Open
  /\ kids = None /\ pnc = None /\ texts = {} /\ seen = Nothing

(* The lists. *)

\* sort_timelist: by time and then by name, the last one first.
NewestFirst(a, b) == a.time > b.time \/ (a.time = b.time /\ Rank[a.path] > Rank[b.path])
Listed(fs) ==
  LET es == {[time |-> disk[f].mtime, path |-> f] : f \in fs}
      newer == [e \in es |-> Cardinality({g \in es : NewestFirst(g, e)})]
  IN [i \in 1 .. Cardinality(es) |-> CHOOSE e \in es : newer[e] = i - 1]
Fresh == Listed(There)

\* A list is stored with the times of its directories, as far as it tells them.
DirTimes(dl) == [d \in {BlogDir} \cup {DirOf[dl[i].path] : i \in DOMAIN dl} |-> dirTime[d]]
Entry(dl) == [list |-> dl, dirs |-> DirTimes(dl), at |-> clock]
Alive(e) == e.at + TTL >= clock
Verified(e) == \A d \in DOMAIN e.dirs : dirTime[d] = e.dirs[d]
Fetched(cache) == {e \in cache : Alive(e) /\ Verified(e)}

\* cache_page_children, and what it leaves in the cache of lists.
OnDisk == caching \in {"renders", "anonymous"}
PageKids == IF OnDisk /\ Fetched(kids) # None THEN (CHOOSE e \in Fetched(kids) : TRUE).list ELSE Fresh
KidsKept == IF OnDisk /\ Fetched(kids) = None THEN {Entry(Fresh)} ELSE kids

\* What a view lists: blog and its titles all that is below, blogdir what is
\* in the directory itself.
Views == {"blog", "titles", "blogdir"}
ListOf(view) == IF view = "blogdir" THEN Listed({f \in Real : DirOf[f] = BlogDir}) ELSE PageKids

\* What the page says of itself decides, and else what is above it.
AccessOk(f, who) ==
  IF disk[f].acl # Open THEN who \in disk[f].acl ELSE above = Open \/ who \in above
\* Redirects and utility pages are on the list of what is below, and skipped when it
\* is shown; the titles leave out what is not for the reader, too.
Shows(view, f, who) == f \in Real /\ (view = "titles" => AccessOk(f, who))

\* A page of a view: from where to where in the list it goes, what of that it shows,
\* and its links.  A blog is clipped, and then has links to what is left out.  A
\* blogdir of nothing ends before its list is counted.
Listing(view, r, who, from) ==
  LET dl == ListOf(view)
      span == Positions(r, dl)
      part == SubSeq(dl, span[1], span[2])
      clip == IF view = "blog" THEN ClipDown(r, part, HowMany) ELSE 0
      rest == part[clip + 1]
      hi == IF clip # 0 THEN span[1] + clip - 1 ELSE span[2]
      listed == {dl[i].path : i \in span[1] .. hi}
      bar == IF clip # 0 THEN BlogRangeBar(r, Hits(r, dl), rest)
             ELSE IF view = "blogdir" /\ dl = <<>> THEN UncountedBar(r)
             ELSE RangeBar(r, Hits(r, dl))
      calendar == IF r.type = "calendar" THEN CalBar(PageKids, r.val)
                  ELSE IF clip # 0 THEN CalBar(PageKids, Date[PageKids[1].time]) ELSE {}
  IN [kind |-> "listing", view |-> view, r |-> r, who |-> who, size |-> Len(dl),
      lo |-> span[1], hi |-> hi, end |-> span[2],
      listed |-> listed, shown |-> {f \in listed : Shows(view, f, who)},
      older |-> bar.older \cup IF clip # 0 THEN BlogBackMore(r, clip) ELSE {},
      newer |-> bar.newer,
      other |-> IF view # "blog" THEN {}
                ELSE calendar \cup IF clip # 0 THEN CutOff(rest) \cup MonthCutOff(rest) ELSE {},
      from |-> from]

\* A reader opens the blog, or what he types in; what is no restriction is no page.
Anybody == Users \cup {NoUser}
Audience(view) == IF view = "titles" THEN Anybody ELSE {NoUser}    \* the others tell nobody apart
Shown(view, suf, who, from) ==
  IF RestrictTo(suf) = NoRestriction
  THEN seen' = [kind |-> "missing", from |-> from] /\ UNCHANGED kids
  ELSE /\ seen' = Listing(view, RestrictTo(suf), who, from)
       /\ kids' = IF view = "blogdir" THEN kids ELSE KidsKept
Opens(view) ==
  /\ visits = "listings"
  /\ \E who \in Audience(view) :
       \/ /\ seen' = Listing(view, NoRestriction, who, None)
          /\ kids' = IF view = "blogdir" THEN kids ELSE KidsKept
       \/ \E suf \in Typed : Shown(view, suf, who, None)
  /\ UNCHANGED <<site, pnc, texts>>
\* And follows a link to another listing.
Links(way) ==
  IF way = "crumb" THEN IF seen.kind = "entry" THEN seen.crumbs ELSE {}
  ELSE IF seen.kind = "listing" /\ visits = "listings" THEN seen[way] ELSE {}
Goes(way) ==
  /\ \E suf \in {suf \in Links(way) : suf[1] = "range" => suf[3] <= Furthest} :
       LET view == IF way = "crumb" THEN "blog" ELSE seen.view
           was == IF way = "crumb" THEN [way |-> way]
                  ELSE [way |-> way, r |-> seen.r, size |-> seen.size, lo |-> seen.lo, hi |-> seen.hi]
       IN \E who \in Audience(view) : Shown(view, suf, who, {was})
  /\ UNCHANGED <<site, pnc, texts>>

(* The page before and the page after an entry. *)

\* gen_pnpages: what is fetched is tested once more, at the pages it is about.
Beside(dl, f) ==
  LET i == Min(Place(dl, f))
  IN [prev |-> StepPage(dl, i, Real, TRUE), next |-> StepPage(dl, i, Real, FALSE)]
ValidHalf(dl, f) ==    \* a mutant: the next page is not looked at
  /\ Place(dl, f) # {}
  /\ \A e \in {dl[i] : i \in Place(dl, f)} \cup Beside(dl, f).prev : disk[e.path].mtime = e.time
ValidPos(dl, f) ==
  LET beside == Beside(dl, f)
  IN /\ Place(dl, f) # {}
     /\ \A e \in {dl[i] : i \in Place(dl, f)} \cup beside.prev \cup beside.next :
          disk[e.path].mtime = e.time
Kept(f) == IF caching = "off" THEN {} ELSE {e \in Fetched(pnc) : ValidPos(e.list, f)}
Reads(f) ==
  /\ visits = "entries" /\ f \in Real
  /\ LET kept == Kept(f)
         dl == IF kept # {} THEN (CHOOSE e \in kept : TRUE).list ELSE PageKids
         found == Place(dl, f) # {}
         beside == IF found THEN Beside(dl, f) ELSE [prev |-> None, next |-> None]
         paths(es) == {e.path : e \in es}
     IN /\ seen' = [kind |-> "entry", page |-> f, found |-> found, prev |-> paths(beside.prev),
                    next |-> paths(beside.next), crumbs |-> DateCrumbs(disk[f].mtime)]
        /\ kids' = IF kept # {} THEN kids ELSE KidsKept
        /\ pnc' = IF caching = "off" \/ kept # {} \/ ~ found THEN pnc ELSE {Entry(dl)}
  /\ UNCHANGED <<site, texts>>

(* Texts and titles. *)

AccessOn(f) == disk[f].acl # Open \/ above # Open
Readers(f) == {w \in Anybody : AccessOk(f, w)}

\* store_gen_wikirend: one rendering does for everybody if nothing restricts it.
PerUserIfOwn(f) == disk[f].acl # Open \/ f \in Commented    \* a mutant
PerUser(f) == AccessOn(f) \/ f \in Commented
KeyName(who, perUser) == IF perUser THEN who ELSE NoUser
Stamp(f) == <<disk[f].ctime, dirTime[DirOf[f]], dirTime[BlogDir]>>
Storable(f, who) == ~ (PerUser(f) /\ caching = "anonymous" /\ (who # DefaultUser \/ who = NoUser))
Stored(f, kind, who, full) ==
  IF Storable(f, who)
  THEN {[page |-> f, kind |-> kind, key |-> KeyName(who, PerUser(f)), stamp |-> Stamp(f),
         full |-> full, readers |-> Readers(f)]}
  ELSE {}
With(es) == {e \in texts : \A s \in es : <<e.page, e.kind, e.key>> # <<s.page, s.kind, s.key>>} \cup es

\* rendcache.fetch: the user's own entry or else the general one; it is the one
\* that is found that must be valid.
Named(f, kind, key) == {e \in texts : e.page = f /\ e.kind = kind /\ e.key = key}
Found(f, kind, who) ==
  IF ~ OnDisk THEN {}
  ELSE {e \in IF Named(f, kind, who) # {} THEN Named(f, kind, who) ELSE Named(f, kind, NoUser) :
          e.stamp = Stamp(f)}

\* _render_cached: a page that its own macro closes is stored as an empty one,
\* one that is closed from above is not stored; gen_titleinfo stores no empty title.
Gets(f, kind, who) ==
  /\ visits = "texts" /\ f \in Real
  /\ LET found == Found(f, kind, who)
         full == AccessOk(f, who)
         stored == IF full \/ (kind = "text" /\ disk[f].acl # Open)
                   THEN Stored(f, kind, who, full) ELSE {}
         title == IF kind = "text" /\ full THEN Stored(f, "title", who, full) ELSE {}
         text(full_, readers) ==
           [kind |-> "text", page |-> f, who |-> who, full |-> full_, readers |-> readers]
     IN IF found # {}
        THEN UNCHANGED texts /\ \E e \in found : seen' = text(e.full, e.readers)
        ELSE /\ texts' = IF OnDisk THEN With(stored \cup title) ELSE texts
             /\ seen' = text(full, Readers(f))
  /\ UNCHANGED <<site, kids, pnc>>

(* The author, and time. *)

\* The times and the macros that the author gives his files, as far as the readers
\* of this behaviour can tell them apart.
Later == clock + 1
Times == IF visits = "texts" THEN {Later} ELSE Stamps \cup {Later}
Macros == IF visits = "texts" THEN Acls ELSE {Open}
Passes == clock < LastClock[visits] /\ clock' = Later /\ seen' = Nothing /\ UNCHANGED <<caching, visits, kids, pnc, texts>>
File(m, acl) == [mtime |-> m, ctime |-> Later, acl |-> acl]
Writes(f, m, acl) ==
  /\ Passes /\ f \in There
  /\ disk' = [disk EXCEPT ![f] = File(m, acl)]
  /\ UNCHANGED <<dirTime, above>>
Adds(f, m, acl) ==
  /\ Passes /\ f \notin There
  /\ disk' = [disk EXCEPT ![f] = File(m, acl)]
  /\ dirTime' = [dirTime EXCEPT ![DirOf[f]] = Later]
  /\ UNCHANGED above
Removes(f) ==
  /\ Passes /\ f \in There
  /\ disk' = [disk EXCEPT ![f] = File(0, Open)]
  /\ dirTime' = [dirTime EXCEPT ![DirOf[f]] = Later]
  /\ UNCHANGED above
Closes(acl) == Passes /\ acl # above /\ above' = acl /\ UNCHANGED <<disk, dirTime>>
Waits == Passes /\ UNCHANGED <<disk, dirTime, above>>

Next ==
  \/ \E view \in Views : Opens(view)
  \/ \E way \in {"older", "newer", "other", "crumb"} : Goes(way)
  \/ \E f \in Files : Reads(f)
  \/ \E f \in Rendered, kind \in {"text", "title"}, who \in Anybody : Gets(f, kind, who)
  \/ \E f \in Worked[visits], m \in Times, acl \in Macros : Writes(f, m, acl) \/ Adds(f, m, acl)
  \/ \E f \in Worked[visits] : Removes(f)
  \/ \E acl \in Macros : Closes(acl)
  \/ Waits
Spec == Init /\ [][Next]_vars

(* Properties. *)

\* Who follows the links to older or newer entries comes to every entry and to
\* none twice: a listing begins where the one before it ended, or ends where it
\* began, but for what is clipped and offered next, and only the last one offers no
\* way on; and no link, to these, to a day, a month or a year, leads to a page that
\* is missing or to one with no entry (rangebar, blograngebar, blogbackmore,
\* calbar, cutoff).  It may lead to one that shows none: the lists that are counted,
\* clipped and linked hold the redirects and utility pages that are skipped
\* afterwards, and titles skips what is not for the reader; but never in a blogdir,
\* which drops them first.  Numbers that were typed in and are not of the list, and
\* oldest/N of N entries or fewer, are excepted: their links are wrong.
Inside(page) ==
  CASE page.r.type = "calendar" -> Dated(page.r.val)
    [] page.r.type = "oldest" -> page.r.val[1] \in 1 .. page.size - 1
    [] OTHER -> page.lo <= page.hi
Skipped(f, page) ==
  page.view # "blogdir" /\ (f \notin Real \/ (page.view = "titles" /\ ~ AccessOk(f, page.who)))
IsSomewhere(page) ==
  /\ page.kind = "listing" /\ page.lo <= page.hi
  /\ page.shown = {} => \A f \in page.listed : Skipped(f, page)
Continues ==
  /\ seen.kind \in {"listing", "missing"} =>
       \A was \in seen.from :
         /\ was.way = "crumb" => OnDisk \/ IsSomewhere(seen)
         /\ was.way = "older" /\ Inside(was) => IsSomewhere(seen) /\ seen.lo = was.hi + 1
         /\ was.way = "newer" /\ Inside(was) => IsSomewhere(seen) /\ seen.end = was.lo - 1
         /\ was.way = "other" => IsSomewhere(seen)
  /\ seen.kind = "listing" =>
       /\ Inside(seen) /\ seen.older = {} => seen.hi = seen.size
       /\ Inside(seen) /\ seen.newer = {} => seen.lo = 1

\* The page before an entry is older than it and the page after it newer, now and
\* not when the list was stored (gen_pnpages, valid_pos); with the render cache,
\* whose list of pages is not tested so, this is so of what has not changed for
\* two TTLs.  And no entry between them is passed over: a cached list may miss
\* what changed since, but not for longer.
Lag == IF OnDisk THEN 2 * TTL ELSE TTL
Settled(f) == disk[f].ctime + Lag < clock \/ caching = "off"
Sure(f) == OnDisk => Settled(f)
Older(f, g) == NewestFirst([time |-> disk[g].mtime, path |-> g], [time |-> disk[f].mtime, path |-> f])
NeighboursTrue ==
  seen.kind = "entry" =>
    LET f == seen.page
        known == {g \in Real : Settled(g)}
    IN /\ seen.prev \cup seen.next \subseteq Real
       /\ Sure(f) =>
            /\ \A p \in {p \in seen.prev : Sure(p)} :
                 Older(p, f) /\ \A g \in known : ~ (Older(p, g) /\ Older(g, f))
            /\ \A n \in {n \in seen.next : Sure(n)} :
                 Older(f, n) /\ \A g \in known : ~ (Older(f, g) /\ Older(g, n))
       /\ Settled(f) =>
            /\ seen.prev = {} => \A g \in known : ~ Older(g, f)
            /\ seen.next = {} => \A g \in known : ~ Older(f, g)

\* Nobody is given a text or a title that its own macro does not admit him to now;
\* and a page that only the directories above it close is given to nobody who was
\* not admitted when it was rendered, however it came out of the cache
\* (store_gen_wikirend, _render_cached; that it may be given to who was admitted
\* then and is not now is the BUG that the code speaks of).
GivenToReaders ==
  seen.kind = "text" /\ seen.full =>
    IF disk[seen.page].acl # Open THEN seen.who \in disk[seen.page].acl
    ELSE seen.who \in seen.readers
=============================================================================
