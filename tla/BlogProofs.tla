----------------------------- MODULE BlogProofs -----------------------------
(***************************************************************************)
(* That no text is given away by the cache of renderings, for any files,   *)
(* users and restrictions.  The argument: a restriction of its own changes *)
(* the ctime of a page and with it the stamp, so that an entry that is     *)
(* still found was made under the restriction that is there now (Current); *)
(* and an entry is under the name of somebody who was admitted, or under   *)
(* the general name, and then nothing restricted the page (Addressed).     *)
(*                                                                         *)
(* And that the pages before and after an entry are its neighbours, for    *)
(* any files, times and caches.  The argument: a list is sorted, and tells *)
(* of every file what was so at a time from which it has not changed since *)
(* (Good); the list of a page is as old as the cache of lists allows, and  *)
(* that of an entry was such a list when it was stored (PncTrue).  A file  *)
(* that has not changed for as long as both may wait is where the list has *)
(* it, and so between no two that the list has next to each other.         *)
(*                                                                         *)
(* And that the links of a listing lead on, for any dates and any numbers  *)
(* in its name.  The argument: the list goes back in time, and so a        *)
(* calendar parts it in three (Parts), of which a page shows the middle    *)
(* one; each kind of link then leads to what begins or ends beside the     *)
(* page (Leads, ClippedLeads), or to where at least the entry is that it   *)
(* was made of (EntryLink).  A page that a reader has before him says so   *)
(* of the list that the next one will be made of (Ways, SeenTrue).         *)
(***************************************************************************)
EXTENDS Blog, WellFoundedInduction, FiniteSetTheorems, SequenceTheorems, TLAPS

Disk == [Files -> [mtime : Nat, ctime : Nat, acl : (SUBSET Users) \cup {Open}]]
\* An entry, as far as it matters.
Addressed(e) == e.full => IF e.key = NoUser THEN Anybody \subseteq e.readers ELSE e.key \in e.readers
Current(e, d) ==
  /\ e.page \in Files /\ e.stamp[1] \in Nat /\ e.stamp[1] <= d[e.page].ctime
  /\ e.stamp[1] = d[e.page].ctime /\ d[e.page].acl # Open => e.readers \subseteq d[e.page].acl
IInv ==
  /\ clock \in Nat /\ disk \in Disk /\ above \in (SUBSET Users) \cup {Open}
  /\ \A f \in Files : disk[f].ctime <= clock
  /\ \A e \in texts : Addressed(e) /\ Current(e, disk)
  /\ GivenToReaders

LEMMA Initial == Init => IInv
  <1> SUFFICES ASSUME Init PROVE IInv
    OBVIOUS
  <1>1. disk \in Disk /\ \A f \in Files : disk[f].ctime <= clock
    <2>1. disk = FirstDisk /\ clock = FirstClock /\ FirstClock \in Nat
      BY BlogAssumption DEF Init
    <2>2. FirstDisk \in [Files -> [mtime : Nat, ctime : 0 .. FirstClock, acl : (SUBSET Users) \cup {Open}]]
      BY BlogAssumption
    <2>3. \A f \in Files : /\ FirstDisk[f] \in [mtime : Nat, ctime : Nat, acl : (SUBSET Users) \cup {Open}]
                          /\ FirstDisk[f].ctime <= FirstClock
      BY <2>1, <2>2
    <2> QED
      BY <2>1, <2>2, <2>3 DEF Disk
  <1>2. GivenToReaders
    BY DEF Init, GivenToReaders, Nothing
  <1>3. clock \in Nat /\ above \in (SUBSET Users) \cup {Open} /\ texts = {}
    BY BlogAssumption DEF Init
  <1> QED
    BY <1>1, <1>2, <1>3 DEF IInv

\* What a rendering leaves in the cache is addressed to who may have it, and is of
\* the restriction that is there.
LEMMA StoredIsSound ==
  ASSUME IInv, NEW f \in Files, NEW kind, NEW who \in Anybody, NEW full,
         full => AccessOk(f, who), NEW e \in Stored(f, kind, who, full)
  PROVE  Addressed(e) /\ Current(e, disk)
  <1>1. e = [page |-> f, kind |-> kind, key |-> KeyName(who, PerUser(f)), stamp |-> Stamp(f),
             full |-> full, readers |-> Readers(f)]
    BY DEF Stored
  <1>2. disk[f] \in [mtime : Nat, ctime : Nat, acl : (SUBSET Users) \cup {Open}]
    BY DEF IInv, Disk
  <1>3. e.stamp[1] = disk[f].ctime
    BY <1>1 DEF Stamp
  <1>4. Current(e, disk)
    <2>1. disk[f].acl # Open => Readers(f) \subseteq disk[f].acl
      BY DEF Readers, AccessOk
    <2> QED
      BY <1>1, <1>2, <1>3, <2>1 DEF Current
  <1>5. ASSUME full, e.key = NoUser PROVE Anybody \subseteq Readers(f)
    <2>1. CASE ~ PerUser(f)
      BY <2>1 DEF PerUser, AccessOn, Readers, AccessOk, Anybody
    <2>2. CASE PerUser(f)
      <3>1. who = NoUser /\ AccessOk(f, NoUser)
        BY <2>2, <1>1, <1>5 DEF KeyName
      <3>2. NoUser \notin Users /\ NoUser \notin Open /\ above \in (SUBSET Users) \cup {Open}
        BY BlogAssumption DEF IInv
      <3>3. disk[f].acl = Open /\ above = Open
        BY <3>1, <3>2, <1>2 DEF AccessOk
      <3> QED
        BY <3>3 DEF Readers, AccessOk, Anybody
    <2> QED
      BY <2>1, <2>2
  <1>6. ASSUME full, e.key # NoUser PROVE e.key \in Readers(f)
    <2>1. e.key = who
      BY <1>1, <1>6 DEF KeyName
    <2> QED
      BY <2>1, <1>6 DEF Readers, Anybody
  <1> QED
    BY <1>1, <1>4, <1>5, <1>6 DEF Addressed

\* What a reader gets is for him: made for him now, or found.
LEMMA GetsKeeps ==
  ASSUME IInv, NEW f \in Rendered, NEW kind, NEW who \in Anybody, Gets(f, kind, who)
  PROVE  IInv'
  <1> f \in Files
    BY BlogAssumption
  <1> DEFINE found == Found(f, kind, who)
             full == AccessOk(f, who)
  <1>1. clock' = clock /\ disk' = disk /\ above' = above
    BY DEF Gets, site
  <1>2. disk[f] \in [mtime : Nat, ctime : Nat, acl : (SUBSET Users) \cup {Open}]
    BY DEF IInv, Disk
  <1>3. \A e \in texts' : Addressed(e) /\ Current(e, disk)
    <2>1. CASE found # {}
      BY <2>1 DEF Gets, IInv
    <2>2. CASE found = {}
      <3> DEFINE stored == IF full \/ (kind = "text" /\ disk[f].acl # Open)
                           THEN Stored(f, kind, who, full) ELSE {}
                 title == IF kind = "text" /\ full THEN Stored(f, "title", who, full) ELSE {}
      <3>2. texts' = IF OnDisk THEN With(stored \cup title) ELSE texts
        BY <2>2 DEF Gets
      <3>3. \A e \in stored : Addressed(e) /\ Current(e, disk)
        BY StoredIsSound
      <3>4. \A e \in title : Addressed(e) /\ Current(e, disk)
        BY StoredIsSound
      <3>5. texts' \subseteq texts \cup stored \cup title
        BY <3>2 DEF With
      <3> HIDE DEF stored, title
      <3> QED
        BY <3>3, <3>4, <3>5 DEF IInv
    <2> QED
      BY <2>1, <2>2
  <1>4. GivenToReaders'
    <2>1. CASE found = {}
      <3>1. seen' = [kind |-> "text", page |-> f, who |-> who, full |-> full, readers |-> Readers(f)]
        BY <2>1 DEF Gets
      <3> QED
        BY <3>1, <1>1 DEF GivenToReaders, Readers, AccessOk, Anybody
    <2>2. CASE found # {}
      <3>1. PICK e \in found :
              seen' = [kind |-> "text", page |-> f, who |-> who, full |-> e.full, readers |-> e.readers]
        BY <2>2 DEF Gets
      <3>2. e \in texts /\ e.page = f /\ e.key \in {who, NoUser} /\ e.stamp = Stamp(f)
        BY <3>1 DEF Found, Named
      <3>3. e.full => who \in e.readers
        BY <3>2 DEF IInv, Addressed, Anybody
      <3>4. disk[f].acl # Open => e.readers \subseteq disk[f].acl
        BY <3>2 DEF IInv, Current, Stamp
      <3> QED
        BY <3>1, <3>3, <3>4, <1>1 DEF GivenToReaders
    <2> QED
      BY <2>1, <2>2
  <1> QED
    BY <1>1, <1>3, <1>4 DEF IInv, Current

\* The author's work gives a page a ctime that no entry has.
LEMMA WorkKeeps ==
  ASSUME IInv, Passes, NEW f, above' \in (SUBSET Users) \cup {Open},
         disk' = disk \/ \E m \in Nat, acl \in (SUBSET Users) \cup {Open} :
                           disk' = [disk EXCEPT ![f] = File(m, acl)]
  PROVE  IInv'
  <1>1. clock' = clock + 1 /\ clock \in Nat /\ texts' = texts /\ seen' = Nothing
    BY DEF Passes, Later, IInv
  <1>2. disk' \in Disk /\ \A g \in Files :
          disk'[g] = disk[g] \/ (disk'[g].ctime = clock + 1)
    <2>1. CASE disk' = disk
      BY <2>1 DEF IInv
    <2>2. CASE disk' # disk
      <3>1. PICK m \in Nat, acl \in (SUBSET Users) \cup {Open} : disk' = [disk EXCEPT ![f] = File(m, acl)]
        BY <2>2
      <3>2. File(m, acl) \in [mtime : Nat, ctime : Nat, acl : (SUBSET Users) \cup {Open}]
            /\ File(m, acl).ctime = clock + 1
        BY <1>1 DEF File, Later
      <3> QED
        BY <3>1, <3>2 DEF IInv, Disk
    <2> QED
      BY <2>1, <2>2
  <1>3. \A g \in Files : disk[g].ctime \in Nat /\ disk[g].ctime <= clock
    BY DEF IInv, Disk
  <1>4. \A g \in Files : disk'[g].ctime <= clock + 1
    BY <1>1, <1>2, <1>3
  <1>5. \A e \in texts : Current(e, disk')
    <2> SUFFICES ASSUME NEW e \in texts PROVE Current(e, disk')
      OBVIOUS
    <2>1. Current(e, disk) /\ e.page \in Files
      BY DEF IInv, Current
    <2>2. CASE disk'[e.page] = disk[e.page]
      BY <2>1, <2>2 DEF Current
    <2>3. CASE disk'[e.page].ctime = clock + 1
      <3>1. e.stamp[1] < clock + 1
        BY <1>1, <1>3, <2>1 DEF Current
      <3> QED
        BY <2>1, <2>3, <3>1, <1>1 DEF Current
    <2> QED
      BY <1>2, <2>1, <2>2, <2>3
  <1>6. GivenToReaders'
    BY <1>1 DEF GivenToReaders, Nothing
  <1> QED
    BY <1>1, <1>2, <1>4, <1>5, <1>6 DEF IInv

\* Listings, entries and what does not happen leave texts be.
LEMMA OthersKeep ==
  ASSUME IInv, UNCHANGED <<site, texts>>, seen'.kind # "text" \/ seen' = seen
  PROVE  IInv'
  <1>1. clock' = clock /\ disk' = disk /\ above' = above /\ texts' = texts
    BY DEF site
  <1>2. GivenToReaders'
    BY <1>1 DEF IInv, GivenToReaders
  <1> QED
    BY <1>1, <1>2 DEF IInv, Current

LEMMA Inductive == IInv /\ [Next]_vars => IInv'
  <1> SUFFICES ASSUME IInv, [Next]_vars PROVE IInv'
    OBVIOUS
  <1>1. ASSUME NEW view \in Views, Opens(view) PROVE IInv'
    BY <1>1, OthersKeep DEF Opens, Shown, Listing
  <1>2. ASSUME NEW way, Goes(way) PROVE IInv'
    BY <1>2, OthersKeep DEF Goes, Shown, Listing
  <1>3. ASSUME NEW f \in Files, Reads(f) PROVE IInv'
    BY <1>3, OthersKeep DEF Reads
  <1>4. ASSUME NEW f \in Rendered, NEW kind \in {"text", "title"}, NEW who \in Anybody,
               Gets(f, kind, who)
        PROVE  IInv'
    BY <1>4, GetsKeeps
  <1>5. Macros \subseteq (SUBSET Users) \cup {Open}
    BY BlogAssumption DEF Macros
  <1>6. ASSUME NEW f \in Worked[visits], NEW m \in Times, NEW acl \in Macros, Writes(f, m, acl) \/ Adds(f, m, acl)
        PROVE  IInv'
    <2>1. m \in Nat /\ above \in (SUBSET Users) \cup {Open}
      BY BlogAssumption DEF Times, Later, IInv
    <2>2. Passes /\ above' = above /\ disk' = [disk EXCEPT ![f] = File(m, acl)]
      BY <1>6 DEF Writes, Adds
    <2> QED
      BY <1>5, <2>1, <2>2, WorkKeeps
  <1>7. ASSUME NEW f \in Worked[visits], Removes(f) PROVE IInv'
    <2>1. above \in (SUBSET Users) \cup {Open} /\ Passes /\ above' = above
          /\ disk' = [disk EXCEPT ![f] = File(0, Open)]
      BY <1>7 DEF Removes, IInv
    <2> QED
      BY <2>1, WorkKeeps
  <1>8. ASSUME NEW acl \in Macros, Closes(acl) PROVE IInv'
    BY <1>5, <1>8, WorkKeeps DEF Closes
  <1>9. CASE Waits
    BY <1>9, WorkKeeps DEF Waits, IInv
  <1>10. CASE UNCHANGED vars
    BY <1>10, OthersKeep DEF vars, site
  <1> QED
    BY <1>1, <1>2, <1>3, <1>4, <1>6, <1>7, <1>8, <1>9, <1>10 DEF Next

\* Whatever the author restricts and when, and whoever else's rendering is in the
\* cache, no reader gets the text or the title of a page that its own macro keeps
\* from him, or that he was not admitted to when it was rendered
\* (wikirend.store_gen_wikirend and _render_cached, rendcache.store and fetch).
THEOREM TextsNotGivenAway == Spec => []GivenToReaders
  <1>1. IInv => GivenToReaders
    BY DEF IInv
  <1> QED
    BY <1>1, Initial, Inductive, PTL DEF Spec

(* The order of the lists. *)

Entries == [time : Nat, path : Files]
LEMMA NewestFirstOrders ==
  /\ \A a \in Entries : ~ NewestFirst(a, a)
  /\ \A a, b, c \in Entries : NewestFirst(a, b) /\ NewestFirst(b, c) => NewestFirst(a, c)
  /\ \A a, b \in Entries : a.path # b.path => NewestFirst(a, b) \/ NewestFirst(b, a)
  <1>1. \A a \in Entries : a.time \in Nat /\ a.path \in Files /\ Rank[a.path] \in Int
    BY BlogAssumption DEF Entries
  <1>2. \A f, g \in Files : Rank[f] = Rank[g] => f = g
    BY BlogAssumption
  <1>3. \A a \in Entries : ~ NewestFirst(a, a)
    BY <1>1 DEF NewestFirst
  <1>4. \A a, b, c \in Entries : NewestFirst(a, b) /\ NewestFirst(b, c) => NewestFirst(a, c)
    BY <1>1 DEF NewestFirst
  <1>5. \A a, b \in Entries : a.path # b.path => NewestFirst(a, b) \/ NewestFirst(b, a)
    BY <1>1, <1>2 DEF NewestFirst
  <1> QED
    BY <1>3, <1>4, <1>5

\* The list of files is of them all, each once, and in order.
LEMMA ListedIs ==
  ASSUME IInv, NEW fs, fs \subseteq There
  PROVE  /\ \E n \in Nat : DOMAIN Listed(fs) = 1 .. n
         /\ \A i \in DOMAIN Listed(fs) : /\ Listed(fs)[i].path \in fs
                                         /\ Listed(fs)[i].time = disk[Listed(fs)[i].path].mtime
         /\ \A f \in fs : \E i \in DOMAIN Listed(fs) : Listed(fs)[i].path = f
         /\ \A i, j \in DOMAIN Listed(fs) : i < j => NewestFirst(Listed(fs)[i], Listed(fs)[j])
         /\ Listed(fs) \in Seq(Entries)
  <1> DEFINE entry(f) == [time |-> disk[f].mtime, path |-> f]
             es == {entry(f) : f \in fs}
             above1(e) == {g \in es : NewestFirst(g, e)}
             newer == [e \in es |-> Cardinality(above1(e))]
             n == Cardinality(es)
             L == [i \in 1 .. n |-> CHOOSE e \in es : newer[e] = i - 1]
  <1>l. Listed(fs) = L
    BY DEF Listed
  <1>f. fs \subseteq Files /\ \A f \in Files : disk[f].mtime \in Nat
    BY DEF There, IInv, Disk
  <1>e. /\ es \subseteq Entries
        /\ \A e \in es : e.path \in fs /\ e.time = disk[e.path].mtime
        /\ \A f \in fs : entry(f) \in es /\ entry(f).path = f
        /\ \A e, g \in es : e.path = g.path => e = g
    BY <1>f DEF Entries
  <1>1. IsFiniteSet(es) /\ n \in Nat
    <2> DEFINE h == [f \in fs |-> entry(f)]
    <2>1. IsFiniteSet(fs)
      BY <1>f, BlogAssumption, FS_Subset
    <2>2. h \in Surjection(fs, es)
      BY DEF Surjection
    <2>3. IsFiniteSet(es)
      BY <2>1, <2>2, FS_Surjection
    <2> QED
      BY <2>3, FS_CardinalityType
  <1> HIDE DEF es
  <1>2. ASSUME NEW e \in es
        PROVE  IsFiniteSet(above1(e)) /\ newer[e] = Cardinality(above1(e)) /\ newer[e] \in 0 .. n - 1
    <2>1. above1(e) \in SUBSET es /\ e \notin above1(e) /\ above1(e) # es
      BY <1>e, NewestFirstOrders
    <2>2. IsFiniteSet(above1(e)) /\ Cardinality(above1(e)) <= n /\ Cardinality(above1(e)) # n
      BY <1>1, <2>1, FS_Subset
    <2>3. Cardinality(above1(e)) \in Nat
      BY <2>2, FS_CardinalityType
    <2> QED
      BY <1>1, <2>2, <2>3
  <1>3. ASSUME NEW e \in es, NEW g \in es, NewestFirst(g, e)
        PROVE  newer[g] < newer[e]
    <2>1. above1(g) \subseteq above1(e) /\ g \in above1(e) /\ g \notin above1(g)
      BY <1>3, <1>e, NewestFirstOrders
    <2>2. Cardinality(above1(g)) <= Cardinality(above1(e)) /\ Cardinality(above1(g)) # Cardinality(above1(e))
      BY <1>2, <2>1, FS_Subset
    <2>3. newer[g] = Cardinality(above1(g)) /\ newer[e] = Cardinality(above1(e))
      BY <1>2
    <2>4. Cardinality(above1(g)) \in Nat /\ Cardinality(above1(e)) \in Nat
      BY <1>2, FS_CardinalityType
    <2> QED
      BY <2>2, <2>3, <2>4
  <1> HIDE DEF newer, n, above1
  <1>n. ASSUME NEW e \in es PROVE newer[e] \in Nat /\ newer[e] + 1 \in 1 .. n
    <2>1. newer[e] \in 0 .. n - 1
      BY <1>2
    <2> QED
      BY <1>1, <2>1
  <1>4. ASSUME NEW e \in es, NEW g \in es, newer[g] = newer[e] PROVE e = g
    <2>1. ~ NewestFirst(e, g) /\ ~ NewestFirst(g, e)
      BY <1>n, <1>3, <1>4
    <2> QED
      BY <2>1, <1>e, NewestFirstOrders
  <1>5. \A k \in 0 .. n - 1 : \E e \in es : newer[e] = k
    <2>1. newer \in Injection(es, 0 .. n - 1)
      <3>1. newer \in [es -> 0 .. n - 1]
        <4>1. \A e \in es : newer[e] \in 0 .. n - 1
          BY <1>2
        <4>2. newer = [e \in es |-> newer[e]]
          BY DEF newer
        <4> QED
          BY <4>1, <4>2, Zenon
      <3> QED
        BY <1>4, <3>1 DEF Injection, IsInjective
    <2>2. IsFiniteSet(0 .. n - 1) /\ Cardinality(0 .. n - 1) = n
      BY <1>1, FS_Interval
    <2>3. newer \in Surjection(es, 0 .. n - 1)
      BY <2>1, <2>2, FS_Injection DEF n
    <2> QED
      BY <2>3 DEF Surjection
  <1>6. \A i \in 1 .. n : L[i] \in es /\ newer[L[i]] = i - 1
    <2> SUFFICES ASSUME NEW i \in 1 .. n PROVE L[i] \in es /\ newer[L[i]] = i - 1
      OBVIOUS
    <2>1. \E e \in es : newer[e] = i - 1
      BY <1>1, <1>5
    <2> QED
      BY <2>1
  <1>7. \A i, j \in 1 .. n : i < j => NewestFirst(L[i], L[j])
    <2> SUFFICES ASSUME NEW i \in 1 .. n, NEW j \in 1 .. n, i < j PROVE NewestFirst(L[i], L[j])
      OBVIOUS
    <2> HIDE DEF L
    <2>1. /\ L[i] \in es /\ L[j] \in es /\ newer[L[i]] < newer[L[j]]
      BY <1>6
    <2>2. ~ NewestFirst(L[j], L[i]) /\ L[i] # L[j]
      BY <1>3, <1>6, <2>1
    <2> QED
      BY <1>e, <2>1, <2>2, NewestFirstOrders
  <1>8. ASSUME NEW f \in fs PROVE \E i \in 1 .. n : L[i].path = f
    <2>1. PICK e \in es : e.path = f
      BY <1>e
    <2> DEFINE k == newer[e] + 1
    <2>2. k \in 1 .. n /\ newer[e] = k - 1
      BY <1>n
    <2> HIDE DEF k, L
    <2>3. L[k] \in es /\ newer[L[k]] = newer[e]
      BY <1>6, <2>2
    <2>4. L[k] = e
      BY <1>4, <2>3
    <2> QED
      BY <2>1, <2>2, <2>4
  <1>9. DOMAIN L = 1 .. n
    OBVIOUS
  <1>10. L \in Seq(Entries)
    <2>1. \A i \in 1 .. n : L[i] \in Entries
      BY <1>6, <1>e
    <2>2. L = [i \in 1 .. n |-> L[i]]
      OBVIOUS
    <2> HIDE DEF L
    <2> QED
      BY <1>1, <2>1, <2>2
  <1> HIDE DEF L
  <1> QED
    BY <1>l, <1>e, <1>1, <1>6, <1>7, <1>8, <1>9, <1>10

(* What a list says: it is in order, and true of what has not changed since b. *)

Ordered(dl) ==
  /\ \E n \in Nat : DOMAIN dl = 1 .. n
  /\ \A i \in DOMAIN dl : dl[i].path \in Files /\ dl[i].time \in Nat
  /\ \A i, j \in DOMAIN dl : i < j => NewestFirst(dl[i], dl[j])
  /\ \A i, j \in DOMAIN dl : dl[i].path = dl[j].path => i = j
TrueSince(dl, b, d) ==
  \A f \in Files : d[f].ctime <= b =>
    /\ \A i \in DOMAIN dl : dl[i].path = f => dl[i].time = d[f].mtime
    /\ d[f].mtime # 0 => \E i \in DOMAIN dl : dl[i].path = f
Good(dl, b) == Ordered(dl) /\ b \in Nat /\ TrueSince(dl, b, disk)
\* How long the list that a page takes may have been in the cache.
Wait == IF OnDisk THEN TTL ELSE 0
KidsTrue == \A e \in kids : e.at \in Nat /\ e.at <= clock /\ Good(e.list, e.at)
PncTrue ==
  \A e \in pnc : /\ e.at \in Nat /\ e.at <= clock
                 /\ \E b \in Nat : b <= e.at /\ e.at <= b + Wait /\ Good(e.list, b)
NInv == IInv /\ KidsTrue /\ PncTrue /\ NeighboursTrue

LEMMA Clockwork ==
  ASSUME IInv
  PROVE  /\ TTL \in Nat /\ Wait \in Nat /\ clock \in Nat
         /\ \A f \in Files : disk[f].mtime \in Nat /\ disk[f].ctime \in Nat /\ disk[f].ctime <= clock
  BY BlogAssumption DEF IInv, Disk, Wait

LEMMA FreshIsGood ==
  ASSUME IInv
  PROVE  Good(Fresh, clock)
  <1> DEFINE L == Fresh
  <1>1. /\ \E n \in Nat : DOMAIN L = 1 .. n
        /\ \A i \in DOMAIN L : L[i].path \in There /\ L[i].time = disk[L[i].path].mtime
        /\ \A f \in There : \E i \in DOMAIN L : L[i].path = f
        /\ \A i, j \in DOMAIN L : i < j => NewestFirst(L[i], L[j])
    BY ListedIs DEF Fresh
  <1> HIDE DEF L
  <1>2. \A i \in DOMAIN L : L[i].path \in Files /\ L[i].time \in Nat /\ L[i].time = disk[L[i].path].mtime
    BY <1>1, Clockwork DEF There
  <1>3. ASSUME NEW i \in DOMAIN L, NEW j \in DOMAIN L, L[i].path = L[j].path PROVE i = j
    <2>1. ~ NewestFirst(L[i], L[j]) /\ ~ NewestFirst(L[j], L[i])
      <3>1. L[i].time = L[j].time /\ Rank[L[i].path] \in Int /\ L[i].time \in Nat
        BY <1>2, <1>3, BlogAssumption
      <3> QED
        BY <1>3, <3>1 DEF NewestFirst
    <2>2. i \in Nat /\ j \in Nat
      BY <1>1
    <2> QED
      BY <1>1, <2>1, <2>2
  <1>4. Ordered(L)
    BY <1>1, <1>2, <1>3 DEF Ordered
  <1>5. TrueSince(L, clock, disk)
    BY <1>1, <1>2 DEF TrueSince, There
  <1> QED
    BY <1>4, <1>5, Clockwork DEF Good, L

LEMMA PageKidsIsGood ==
  ASSUME NInv
  PROVE  \E b \in Nat : b <= clock /\ clock <= b + Wait /\ Good(PageKids, b)
  <1>i. IInv
    BY DEF NInv
  <1>1. CASE OnDisk /\ Fetched(kids) # None
    <2>1. PICK e \in Fetched(kids) : PageKids = e.list
      BY <1>1 DEF PageKids, None
    <2>2. e \in kids /\ e.at + TTL >= clock
      BY DEF Fetched, Alive
    <2>3. e.at \in Nat /\ e.at <= clock /\ Good(e.list, e.at)
      BY <2>2 DEF NInv, KidsTrue
    <2>4. clock <= e.at + Wait
      BY <1>1, <1>i, <2>2, <2>3, Clockwork DEF Wait
    <2> QED
      BY <2>1, <2>3, <2>4
  <1>2. CASE ~ (OnDisk /\ Fetched(kids) # None)
    <2>1. PageKids = Fresh
      BY <1>2 DEF PageKids
    <2> QED
      BY <1>i, <2>1, FreshIsGood, Clockwork
  <1> QED
    BY <1>1, <1>2

LEMMA KidsKeptAreTrue ==
  ASSUME NInv, kids' = KidsKept \/ kids' = kids, clock' = clock, disk' = disk
  PROVE  KidsTrue'
  <1>i. IInv
    BY DEF NInv
  <1>1. \A e \in kids' : e.at \in Nat /\ e.at <= clock /\ Good(e.list, e.at)
    <2>1. kids' = kids \/ kids' = {Entry(Fresh)}
      BY DEF KidsKept
    <2>2. Entry(Fresh).at = clock /\ Entry(Fresh).list = Fresh
      BY DEF Entry
    <2>3. CASE kids' = {Entry(Fresh)}
      BY <1>i, <2>2, <2>3, FreshIsGood, Clockwork
    <2> QED
      BY <2>1, <2>3 DEF NInv, KidsTrue
  <1> QED
    BY <1>1 DEF KidsTrue, Good

(* The neighbours of an entry in a list. *)

At(f) == [time |-> disk[f].mtime, path |-> f]
LEMMA InOrder ==
  ASSUME NEW dl, Ordered(dl), NEW i \in DOMAIN dl, NEW j \in DOMAIN dl, NewestFirst(dl[i], dl[j])
  PROVE  i < j
  <1>1. i \in Nat /\ j \in Nat
    BY DEF Ordered
  <1>2. dl[i].time \in Nat /\ dl[j].time \in Nat /\ Rank[dl[i].path] \in Int /\ Rank[dl[j].path] \in Int
    BY BlogAssumption DEF Ordered
  <1>3. ~ NewestFirst(dl[j], dl[i]) /\ i # j
    BY <1>2 DEF NewestFirst
  <1> QED
    BY <1>1, <1>3 DEF Ordered

\* What the library says of `<', as a statement about a relation that the provers
\* need not look into.
LEMMA LessIsWellFounded ==
  \E R : IsWellFoundedOn(R, Nat) /\ \A a, b \in Nat : a < b => <<a, b>> \in R
  <1>1. IsWellFoundedOn(OpToRel(<, Nat), Nat)
    BY NatLessThanWellFounded
  <1>2. \A a, b \in Nat : a < b => <<a, b>> \in OpToRel(<, Nat)
    BY DEF OpToRel
  <1> QED
    BY <1>1, <1>2, Zenon
LEMMA LeastOf ==
  ASSUME NEW S, S \subseteq Nat, S # {}
  PROVE  Min(S) \in S /\ \A m \in S : Min(S) <= m
  <1>1. PICK R : IsWellFoundedOn(R, Nat) /\ \A a, b \in Nat : a < b => <<a, b>> \in R
    BY LessIsWellFounded
  <1>2. \E n \in S : \A m \in S : ~ (<<m, n>> \in R)
    <2>1. IsWellFoundedOn(R, Nat)
      BY <1>1
    <2> QED
      BY <2>1, WFMin
  <1>3. \E n \in S : \A m \in S : n <= m
    <2>1. PICK n \in S : \A m \in S : ~ (<<m, n>> \in R)
      BY <1>2
    <2>2. \A m \in S : ~ (m < n) /\ m \in Nat /\ n \in Nat
      BY <1>1, <2>1
    <2> QED
      BY <2>2
  <1> QED
    BY <1>3, Zenon DEF Min
LEMMA GreatestOf ==
  ASSUME NEW S, NEW b \in Nat, S \subseteq 1 .. b, S # {}
  PROVE  Max(S) \in S /\ \A m \in S : m <= Max(S)
  <1> DEFINE T == {b - n : n \in S}
  <1>1. T \subseteq Nat /\ T # {}
    OBVIOUS
  <1>2. Min(T) \in T /\ \A d \in T : Min(T) <= d
    BY <1>1, LeastOf
  <1>3. PICK n \in S : Min(T) = b - n
    BY <1>2
  <1>4. ASSUME NEW m \in S PROVE n >= m
    <2>1. b - m \in T /\ m \in Int /\ n \in Int
      OBVIOUS
    <2>2. b - n <= b - m
      BY <1>2, <1>3, <2>1
    <2> QED
      BY <2>1, <2>2
  <1>5. Max(S) \in S /\ \A m \in S : Max(S) >= m
    BY <1>4 DEF Max
  <1> QED
    BY <1>5

\* The page before is the first one on the one side, and nothing is between.
LEMMA BesideIs ==
  ASSUME NEW dl, Ordered(dl), NEW f, Place(dl, f) # {}
  PROVE  \E i \in DOMAIN dl :
           /\ dl[i].path = f /\ i \in Place(dl, f)
           /\ Beside(dl, f).prev = {} => \A j \in DOMAIN dl : j > i => dl[j].path \notin Real
           /\ Beside(dl, f).next = {} => \A j \in DOMAIN dl : j < i => dl[j].path \notin Real
           /\ \A e \in Beside(dl, f).prev :
                \E k \in DOMAIN dl : /\ e = dl[k] /\ i < k /\ dl[k].path \in Real
                                     /\ \A j \in DOMAIN dl : i < j /\ j < k => dl[j].path \notin Real
           /\ \A e \in Beside(dl, f).next :
                \E k \in DOMAIN dl : /\ e = dl[k] /\ k < i /\ dl[k].path \in Real
                                     /\ \A j \in DOMAIN dl : k < j /\ j < i => dl[j].path \notin Real
  <1>1. PICK n \in Nat : DOMAIN dl = 1 .. n
    BY DEF Ordered
  <1> DEFINE i == Min(Place(dl, f))
             below == {j \in DOMAIN dl : dl[j].path \in Real /\ j > i}
             over == {j \in DOMAIN dl : dl[j].path \in Real /\ j < i}
  <1>2. i \in Place(dl, f)
    <2>1. Place(dl, f) \subseteq Nat
      BY <1>1 DEF Place
    <2> QED
      BY <2>1, LeastOf
  <1>3. i \in DOMAIN dl /\ dl[i].path = f
    BY <1>2 DEF Place
  <1>4. Beside(dl, f).prev = IF below = {} THEN {} ELSE {dl[Min(below)]}
    BY DEF Beside, StepPage, None
  <1>5. Beside(dl, f).next = IF over = {} THEN {} ELSE {dl[Max(over)]}
    BY DEF Beside, StepPage, None
  <1> HIDE DEF i
  <1>6. below # {} => Min(below) \in below /\ \A j \in below : Min(below) <= j
    <2>1. below \subseteq Nat
      BY <1>1
    <2> QED
      BY <2>1, LeastOf
  <1>7. over # {} => Max(over) \in over /\ \A j \in over : j <= Max(over)
    <2>1. over \subseteq 1 .. n
      BY <1>1
    <2> QED
      BY <2>1, GreatestOf
  <1>8. \A e \in Beside(dl, f).prev :
                \E k \in DOMAIN dl : /\ e = dl[k] /\ i < k /\ dl[k].path \in Real
                                     /\ \A j \in DOMAIN dl : i < j /\ j < k => dl[j].path \notin Real
    <2> SUFFICES ASSUME below # {}
                 PROVE  \E k \in DOMAIN dl : /\ dl[Min(below)] = dl[k] /\ i < k /\ dl[k].path \in Real
                                     /\ \A j \in DOMAIN dl : i < j /\ j < k => dl[j].path \notin Real
      BY <1>4
    <2> DEFINE k == Min(below)
    <2>1. k \in below /\ \A j \in below : k <= j
      BY <1>6
    <2>2. k \in DOMAIN dl /\ i < k /\ dl[k].path \in Real
      BY <1>1, <1>3, <2>1
    <2>3. \A j \in DOMAIN dl : i < j /\ j < k => dl[j].path \notin Real
      <3> HIDE DEF k
      <3> SUFFICES ASSUME NEW j \in DOMAIN dl, i < j, j < k, dl[j].path \in Real PROVE FALSE
        OBVIOUS
      <3>1. j \in below
        BY <1>1, <1>3
      <3>2. k <= j
        BY <2>1, <3>1
      <3> QED
        BY <1>1, <1>3, <2>2, <3>2
    <2> QED
      BY <2>2, <2>3
  <1>9. \A e \in Beside(dl, f).next :
                \E k \in DOMAIN dl : /\ e = dl[k] /\ k < i /\ dl[k].path \in Real
                                     /\ \A j \in DOMAIN dl : k < j /\ j < i => dl[j].path \notin Real
    <2> SUFFICES ASSUME over # {}
                 PROVE  \E k \in DOMAIN dl : /\ dl[Max(over)] = dl[k] /\ k < i /\ dl[k].path \in Real
                                     /\ \A j \in DOMAIN dl : k < j /\ j < i => dl[j].path \notin Real
      BY <1>5
    <2> DEFINE k == Max(over)
    <2>1. k \in over /\ \A j \in over : j <= k
      BY <1>7
    <2>2. k \in DOMAIN dl /\ k < i /\ dl[k].path \in Real
      BY <1>1, <1>3, <2>1
    <2>3. \A j \in DOMAIN dl : k < j /\ j < i => dl[j].path \notin Real
      <3> HIDE DEF k
      <3> SUFFICES ASSUME NEW j \in DOMAIN dl, k < j, j < i, dl[j].path \in Real PROVE FALSE
        OBVIOUS
      <3>1. j \in over
        BY <1>1, <1>3
      <3>2. j <= k
        BY <2>1, <3>1
      <3> QED
        BY <1>1, <1>3, <2>2, <3>2
    <2> QED
      BY <2>2, <2>3
  <1> QED
    BY <1>2, <1>3, <1>4, <1>5, <1>8, <1>9

(* What an entry's page says of its neighbours. *)

Now(e) == e.time = disk[e.path].mtime
\* NeighboursTrue of a page f with the neighbours prev and next.
TrueFor(f, prev, next) ==
  LET known == {g \in Real : Settled(g)}
  IN /\ prev \cup next \subseteq Real
     /\ Sure(f) =>
          /\ \A p \in {p \in prev : Sure(p)} :
               Older(p, f) /\ \A g \in known : ~ (Older(p, g) /\ Older(g, f))
          /\ \A n \in {n \in next : Sure(n)} :
               Older(f, n) /\ \A g \in known : ~ (Older(f, g) /\ Older(g, n))
     /\ Settled(f) =>
          /\ prev = {} => \A g \in known : ~ Older(g, f)
          /\ next = {} => \A g \in known : ~ Older(f, g)
\* A list that Reads may take for the page f: one it was kept with and that is
\* valid, or one that a page may have.
Taken(dl, b, f) ==
  /\ Good(dl, b) /\ b <= clock /\ clock <= b + Lag /\ (caching = "off" => b = clock)
  /\ ValidPos(dl, f) \/ clock <= b + Wait

LEMMA SettledIsTold ==
  ASSUME IInv, NEW dl, NEW b, NEW f, Taken(dl, b, f), NEW g \in Files, Settled(g)
  PROVE  disk[g].ctime <= b
  <1>1. b \in Nat /\ b <= clock /\ clock <= b + Lag /\ (caching = "off" => b = clock)
    BY DEF Taken, Good
  <1>2. Lag \in Nat
    BY Clockwork DEF Lag
  <1> QED
    BY <1>1, <1>2, Clockwork DEF Settled

\* An entry that a page of f is made from is at the place that it has now.
LEMMA SureIsNow ==
  ASSUME IInv, NEW dl, NEW b, NEW f, Taken(dl, b, f), NEW i \in DOMAIN dl, Sure(dl[i].path),
         i \in Place(dl, f) \/ dl[i] \in Beside(dl, f).prev \/ dl[i] \in Beside(dl, f).next
  PROVE  Now(dl[i])
  <1>1. CASE ValidPos(dl, f)
    BY <1>1 DEF ValidPos, Now
  <1>2. CASE clock <= b + Wait
    <2>1. dl[i].path \in Files
      BY DEF Taken, Good, Ordered
    <2>2. disk[dl[i].path].ctime <= b
      <3>1. CASE OnDisk
        BY <3>1, <2>1, SettledIsTold DEF Sure
      <3>2. CASE ~ OnDisk
        <4>1. b \in Nat /\ b <= clock
          BY DEF Taken, Good
        <4>2. b = clock
          BY <4>1, <3>2, <1>2, Clockwork DEF Wait
        <4> QED
          BY <4>2, <2>1, Clockwork
      <3> QED
        BY <3>1, <3>2
    <2> QED
      BY <2>1, <2>2 DEF Taken, Good, TrueSince, Now
  <1> QED
    BY <1>1, <1>2 DEF Taken

\* And what has not changed for long is in the list where it is now.
LEMMA SettledIsListed ==
  ASSUME IInv, NEW dl, NEW b, NEW f, Taken(dl, b, f), NEW g \in Real, Settled(g)
  PROVE  \E j \in DOMAIN dl : dl[j].path = g /\ Now(dl[j])
  <1>1. g \in Files /\ disk[g].mtime # 0
    BY DEF Real, There
  <1>2. disk[g].ctime <= b
    BY <1>1, SettledIsTold
  <1>3. TrueSince(dl, b, disk)
    BY DEF Taken, Good
  <1>4. PICK j \in DOMAIN dl : dl[j].path = g
    BY <1>1, <1>2, <1>3 DEF TrueSince
  <1>5. dl[j].time = disk[g].mtime
    BY <1>1, <1>2, <1>3, <1>4 DEF TrueSince
  <1> QED
    BY <1>4, <1>5 DEF Now

LEMMA OlderIsAfter ==
  ASSUME NEW a, NEW e, Now(a), Now(e)
  PROVE  Older(a.path, e.path) <=> NewestFirst(e, a)
  BY DEF Older, NewestFirst, Now

LEMMA TakenIsTrue ==
  ASSUME IInv, NEW f \in Real, NEW dl, NEW b, Taken(dl, b, f), Place(dl, f) # {}, NEW prev, NEW next,
         prev = {e.path : e \in Beside(dl, f).prev}, next = {e.path : e \in Beside(dl, f).next}
  PROVE  TrueFor(f, prev, next)
  <1>o. Ordered(dl)
    BY DEF Taken, Good
  <1>1. PICK i \in DOMAIN dl :
           /\ dl[i].path = f /\ i \in Place(dl, f)
           /\ Beside(dl, f).prev = {} => \A j \in DOMAIN dl : j > i => dl[j].path \notin Real
           /\ Beside(dl, f).next = {} => \A j \in DOMAIN dl : j < i => dl[j].path \notin Real
           /\ \A e \in Beside(dl, f).prev :
                \E k \in DOMAIN dl : /\ e = dl[k] /\ i < k /\ dl[k].path \in Real
                                     /\ \A j \in DOMAIN dl : i < j /\ j < k => dl[j].path \notin Real
           /\ \A e \in Beside(dl, f).next :
                \E k \in DOMAIN dl : /\ e = dl[k] /\ k < i /\ dl[k].path \in Real
                                     /\ \A j \in DOMAIN dl : k < j /\ j < i => dl[j].path \notin Real
    BY <1>o, BesideIs
  <1>2. Sure(f) => Now(dl[i])
    BY <1>1, SureIsNow
  <1>3. Settled(f) => Sure(f)
    BY DEF Sure
  <1>n. \A j \in DOMAIN dl : j \in Nat
    BY <1>o DEF Ordered
  <1>4. prev \cup next \subseteq Real
    BY <1>1
  <1>5. ASSUME Sure(f), NEW p \in prev, Sure(p)
        PROVE  Older(p, f) /\ \A g \in Real : Settled(g) => ~ (Older(p, g) /\ Older(g, f))
    <2>1. PICK e \in Beside(dl, f).prev : p = e.path
      OBVIOUS
    <2>2. PICK k \in DOMAIN dl : /\ e = dl[k] /\ i < k /\ dl[k].path \in Real
                                 /\ \A j \in DOMAIN dl : i < j /\ j < k => dl[j].path \notin Real
      BY <1>1, <2>1
    <2>3. Now(dl[k]) /\ Now(dl[i]) /\ dl[k].path = p
      BY <1>2, <1>5, <2>1, <2>2, SureIsNow
    <2>4. NewestFirst(dl[i], dl[k])
      BY <1>o, <2>2 DEF Ordered
    <2>5. ASSUME NEW g \in Real, Settled(g), Older(p, g), Older(g, f) PROVE FALSE
      <3>1. PICK j \in DOMAIN dl : dl[j].path = g /\ Now(dl[j])
        BY <2>5, SettledIsListed
      <3>2. NewestFirst(dl[j], dl[k]) /\ NewestFirst(dl[i], dl[j])
        BY <1>1, <2>3, <2>5, <3>1, OlderIsAfter
      <3>3. i < j /\ j < k
        BY <1>o, <3>2, InOrder
      <3> QED
        BY <2>2, <3>1, <3>3
    <2> QED
      BY <1>1, <2>3, <2>4, <2>5, OlderIsAfter
  <1>6. ASSUME Sure(f), NEW n \in next, Sure(n)
        PROVE  Older(f, n) /\ \A g \in Real : Settled(g) => ~ (Older(f, g) /\ Older(g, n))
    <2>1. PICK e \in Beside(dl, f).next : n = e.path
      OBVIOUS
    <2>2. PICK k \in DOMAIN dl : /\ e = dl[k] /\ k < i /\ dl[k].path \in Real
                                 /\ \A j \in DOMAIN dl : k < j /\ j < i => dl[j].path \notin Real
      BY <1>1, <2>1
    <2>3. Now(dl[k]) /\ Now(dl[i]) /\ dl[k].path = n
      BY <1>2, <1>6, <2>1, <2>2, SureIsNow
    <2>4. NewestFirst(dl[k], dl[i])
      BY <1>o, <2>2 DEF Ordered
    <2>5. ASSUME NEW g \in Real, Settled(g), Older(f, g), Older(g, n) PROVE FALSE
      <3>1. PICK j \in DOMAIN dl : dl[j].path = g /\ Now(dl[j])
        BY <2>5, SettledIsListed
      <3>2. NewestFirst(dl[k], dl[j]) /\ NewestFirst(dl[j], dl[i])
        BY <1>1, <2>3, <2>5, <3>1, OlderIsAfter
      <3>3. k < j /\ j < i
        BY <1>o, <3>2, InOrder
      <3> QED
        BY <2>2, <3>1, <3>3
    <2> QED
      BY <1>1, <2>3, <2>4, <2>5, OlderIsAfter
  <1>7. ASSUME Settled(f), prev = {}, NEW g \in Real, Settled(g), Older(g, f) PROVE FALSE
    <2>1. PICK j \in DOMAIN dl : dl[j].path = g /\ Now(dl[j])
      BY <1>7, SettledIsListed
    <2>2. NewestFirst(dl[i], dl[j])
      BY <1>1, <1>2, <1>3, <1>7, <2>1, OlderIsAfter
    <2>3. j > i
      BY <1>o, <1>n, <2>2, InOrder
    <2>4. Beside(dl, f).prev = {}
      BY <1>7
    <2> QED
      BY <1>1, <2>1, <2>3, <2>4
  <1>8. ASSUME Settled(f), next = {}, NEW g \in Real, Settled(g), Older(f, g) PROVE FALSE
    <2>1. PICK j \in DOMAIN dl : dl[j].path = g /\ Now(dl[j])
      BY <1>8, SettledIsListed
    <2>2. NewestFirst(dl[j], dl[i])
      BY <1>1, <1>2, <1>3, <1>8, <2>1, OlderIsAfter
    <2>3. j < i
      BY <1>o, <1>n, <2>2, InOrder
    <2>4. Beside(dl, f).next = {}
      BY <1>8
    <2> QED
      BY <1>1, <2>1, <2>3, <2>4
  <1> QED
    BY <1>4, <1>5, <1>6, <1>7, <1>8 DEF TrueFor

LEMMA NoPlaceIsTrue ==
  ASSUME IInv, NEW f \in Real, NEW dl, NEW b, Taken(dl, b, f), Place(dl, f) = {}
  PROVE  TrueFor(f, {}, {})
  <1>1. ~ Settled(f)
    BY SettledIsListed DEF Place
  <1> QED
    BY <1>1 DEF TrueFor

(* The steps. *)

\* What a reader sees and what is not an entry's page say nothing.
LEMMA SameLists ==
  ASSUME NInv, UNCHANGED site, kids' = KidsKept \/ kids' = kids, pnc' = pnc,
         seen'.kind # "entry" \/ seen' = seen
  PROVE  KidsTrue' /\ PncTrue' /\ NeighboursTrue'
  <1>1. clock' = clock /\ disk' = disk /\ caching' = caching
    BY DEF site
  <1>2. KidsTrue'
    BY <1>1, KidsKeptAreTrue
  <1>3. PncTrue'
    BY <1>1 DEF NInv, PncTrue, Good, Wait, OnDisk
  <1>4. NeighboursTrue'
    BY <1>1 DEF NInv, NeighboursTrue, Settled, Sure, Older, Real, There, Lag, OnDisk
  <1> QED
    BY <1>2, <1>3, <1>4

LEMMA ReadsIsTrue ==
  ASSUME NInv, NEW f \in Files, Reads(f)
  PROVE  KidsTrue' /\ PncTrue' /\ NeighboursTrue'
  <1> DEFINE kept == Kept(f)
             dl == IF kept # {} THEN (CHOOSE e \in kept : TRUE).list ELSE PageKids
             found == Place(dl, f) # {}
             beside == IF found THEN Beside(dl, f) ELSE [prev |-> None, next |-> None]
             prev == {e.path : e \in beside.prev}
             next == {e.path : e \in beside.next}
  <1>i. IInv /\ f \in Real
    BY DEF NInv, Reads
  <1>1. clock' = clock /\ disk' = disk /\ caching' = caching
    BY DEF Reads, site
  <1>2. seen' = [kind |-> "entry", page |-> f, found |-> found, prev |-> prev, next |-> next,
                 crumbs |-> DateCrumbs(disk[f].mtime)]
    BY DEF Reads
  <1>3. /\ kids' = IF kept # {} THEN kids ELSE KidsKept
        /\ pnc' = IF caching = "off" \/ kept # {} \/ ~ found THEN pnc ELSE {Entry(dl)}
    BY DEF Reads
  <1>4. kept = {} => \E b \in Nat : b <= clock /\ clock <= b + Wait /\ Good(dl, b)
    BY PageKidsIsGood
  <1>5. \E b \in Nat : Taken(dl, b, f)
    <2>1. CASE kept = {}
      <3>1. PICK b \in Nat : b <= clock /\ clock <= b + Wait /\ Good(dl, b)
        BY <1>4, <2>1
      <3>2. clock <= b + Lag /\ (caching = "off" => b = clock)
        BY <1>i, <3>1, Clockwork DEF Wait, Lag, OnDisk
      <3> QED
        BY <3>1, <3>2 DEF Taken
    <2>2. CASE kept # {}
      <3>1. PICK e \in kept : dl = e.list
        BY <2>2
      <3>2. caching # "off" /\ e \in pnc /\ e.at + TTL >= clock /\ ValidPos(dl, f)
        BY <3>1 DEF Kept, Fetched, Alive
      <3>3. PICK b \in Nat : e.at \in Nat /\ e.at <= clock /\ b <= e.at /\ e.at <= b + Wait /\ Good(dl, b)
        BY <3>1, <3>2 DEF NInv, PncTrue
      <3>4. clock <= b + Lag /\ b <= clock
        BY <1>i, <3>2, <3>3, Clockwork DEF Wait, Lag
      <3> QED
        BY <3>2, <3>3, <3>4 DEF Taken
    <2> QED
      BY <2>1, <2>2
  <1> HIDE DEF dl, kept
  <1>6. KidsTrue'
    BY <1>1, <1>3, KidsKeptAreTrue
  <1>7. PncTrue'
    <2>1. CASE pnc' = pnc
      BY <1>1, <2>1 DEF NInv, PncTrue, Good, Wait, OnDisk
    <2>2. CASE pnc' # pnc
      <3>1. kept = {} /\ pnc' = {Entry(dl)}
        BY <1>3, <2>2
      <3>2. Entry(dl).at = clock /\ Entry(dl).list = dl
        BY DEF Entry
      <3>3. \A e \in pnc' : /\ e.at \in Nat /\ e.at <= clock
                            /\ \E b \in Nat : b <= e.at /\ e.at <= b + Wait /\ Good(e.list, b)
        BY <1>i, <1>4, <3>1, <3>2, Clockwork
      <3> QED
        BY <1>1, <3>3 DEF PncTrue, Good, Wait, OnDisk
    <2> QED
      BY <2>1, <2>2
  <1>8. TrueFor(f, prev, next)
    <2>1. CASE found
      BY <1>i, <1>5, <2>1, TakenIsTrue
    <2>2. CASE ~ found
      <3>1. prev = {} /\ next = {}
        BY <2>2 DEF None
      <3> QED
        BY <1>i, <1>5, <2>2, <3>1, NoPlaceIsTrue
    <2> QED
      BY <2>1, <2>2
  <1> HIDE DEF prev, next
  <1>9. seen'.page = f /\ seen'.prev = prev /\ seen'.next = next
    BY <1>2
  <1>10. NeighboursTrue'
    BY <1>1, <1>8, <1>9 DEF NeighboursTrue, TrueFor, Settled, Sure, Older, Real, There, Lag, OnDisk
  <1> QED
    BY <1>6, <1>7, <1>10

LEMMA WorkIsTrue ==
  ASSUME NInv, Passes, NEW f,
         disk' = disk \/ \E m, acl : disk' = [disk EXCEPT ![f] = File(m, acl)]
  PROVE  KidsTrue' /\ PncTrue' /\ NeighboursTrue'
  <1>i. IInv
    BY DEF NInv
  <1>1. clock' = clock + 1 /\ clock \in Nat /\ kids' = kids /\ pnc' = pnc /\ caching' = caching /\ seen' = Nothing
    BY <1>i, Clockwork DEF Passes, Later
  <1>2. \A g \in Files : disk'[g] = disk[g] \/ disk'[g].ctime = clock + 1
    BY <1>i DEF File, Later, IInv, Disk
  <1>3. ASSUME NEW dl, NEW b \in Nat, b <= clock, Good(dl, b) PROVE Good(dl, b)'
    <2>1. \A g \in Files : disk'[g].ctime <= b => disk'[g] = disk[g]
      BY <1>1, <1>2, <1>3
    <2>2. TrueSince(dl, b, disk')
      BY <1>3, <2>1 DEF Good, TrueSince
    <2> QED
      BY <1>3, <2>2 DEF Good
  <1>4. KidsTrue'
    <2> SUFFICES ASSUME NEW e \in kids PROVE e.at \in Nat /\ e.at <= clock + 1 /\ Good(e.list, e.at)'
      BY <1>1 DEF KidsTrue, Good
    <2>1. e.at \in Nat /\ e.at <= clock /\ Good(e.list, e.at)
      BY DEF NInv, KidsTrue
    <2> QED
      BY <1>1, <1>3, <2>1
  <1>5. PncTrue'
    <2> SUFFICES ASSUME NEW e \in pnc
                 PROVE  /\ e.at \in Nat /\ e.at <= clock + 1
                        /\ \E b \in Nat : b <= e.at /\ e.at <= b + Wait /\ Good(e.list, b)'
      BY <1>1 DEF PncTrue, Good, Wait, OnDisk
    <2>1. PICK b \in Nat : e.at \in Nat /\ e.at <= clock /\ b <= e.at /\ e.at <= b + Wait /\ Good(e.list, b)
      BY DEF NInv, PncTrue
    <2>2. b <= clock
      BY <1>1, <2>1
    <2>3. Good(e.list, b)'
      BY <1>3, <2>1, <2>2
    <2> QED
      BY <1>1, <2>1, <2>3
  <1>6. NeighboursTrue'
    BY <1>1 DEF NeighboursTrue, Nothing
  <1> QED
    BY <1>4, <1>5, <1>6

LEMMA ListsInitial == Init => NInv
  <1> SUFFICES ASSUME Init PROVE NInv
    OBVIOUS
  <1>1. KidsTrue /\ PncTrue /\ NeighboursTrue
    BY DEF Init, KidsTrue, PncTrue, NeighboursTrue, Nothing, None
  <1> QED
    BY <1>1, Initial DEF NInv

LEMMA ListsInductive == NInv /\ [Next]_vars => NInv'
  <1> SUFFICES ASSUME NInv, [Next]_vars PROVE KidsTrue' /\ PncTrue' /\ NeighboursTrue'
    BY Inductive DEF NInv
  <1>1. ASSUME NEW view \in Views, Opens(view) PROVE KidsTrue' /\ PncTrue' /\ NeighboursTrue'
    <2>1. PICK who : \/ /\ seen' = Listing(view, NoRestriction, who, None)
                        /\ kids' = IF view = "blogdir" THEN kids ELSE KidsKept
                     \/ \E suf \in Typed : Shown(view, suf, who, None)
      BY <1>1 DEF Opens
    <2>2. kids' = KidsKept \/ kids' = kids
      BY <2>1 DEF Shown
    <2>3. seen'.kind # "entry"
      <3>1. \A r : Listing(view, r, who, None).kind = "listing"
        BY DEF Listing
      <3> QED
        BY <2>1, <3>1 DEF Shown
    <2>4. UNCHANGED site /\ pnc' = pnc
      BY <1>1 DEF Opens
    <2> QED
      BY <2>2, <2>3, <2>4, SameLists
  <1>2. ASSUME NEW way, Goes(way) PROVE KidsTrue' /\ PncTrue' /\ NeighboursTrue'
    BY <1>2, SameLists DEF Goes, Shown, Listing
  <1>3. ASSUME NEW f \in Files, Reads(f) PROVE KidsTrue' /\ PncTrue' /\ NeighboursTrue'
    BY <1>3, ReadsIsTrue
  <1>4. ASSUME NEW f, NEW kind, NEW who, Gets(f, kind, who)
        PROVE  KidsTrue' /\ PncTrue' /\ NeighboursTrue'
    BY <1>4, SameLists DEF Gets
  <1>5. ASSUME NEW f, NEW m, NEW acl, Writes(f, m, acl) \/ Adds(f, m, acl)
        PROVE  KidsTrue' /\ PncTrue' /\ NeighboursTrue'
    BY <1>5, WorkIsTrue DEF Writes, Adds
  <1>6. ASSUME NEW f, Removes(f) PROVE KidsTrue' /\ PncTrue' /\ NeighboursTrue'
    BY <1>6, WorkIsTrue DEF Removes
  <1>7. ASSUME NEW acl, Closes(acl) PROVE KidsTrue' /\ PncTrue' /\ NeighboursTrue'
    BY <1>7, WorkIsTrue DEF Closes
  <1>8. CASE Waits
    BY <1>8, WorkIsTrue DEF Waits
  <1>9. CASE UNCHANGED vars
    BY <1>9, SameLists DEF vars, site
  <1> QED
    BY <1>1, <1>2, <1>3, <1>4, <1>5, <1>6, <1>7, <1>8, <1>9 DEF Next

\* Whatever the author writes, adds, removes and dates as he likes, and whatever
\* old list is taken from the caches: the pages before and after an entry are real
\* ones, on the right side of it and with no entry between, as far as what has not
\* changed for as long as the caches may lag (blogdir.gen_pnpages, valid_pos,
\* cache_page_children).
THEOREM NeighboursAreTrue == Spec => []NeighboursTrue
  <1>1. NInv => NeighboursTrue
    BY DEF NInv
  <1> QED
    BY <1>1, ListsInitial, ListsInductive, PTL DEF Spec

(* Dates, and calendars in a list. *)

Triples == Nat \X Nat \X Nat
\* A calendar: a year, a month of it or a day of that.
Shaped(c) == c \in (Nat \ {0}) \X Nat \X Nat /\ (c[2] = 0 => c[3] = 0)
Listable == [time : DOMAIN Date, path : Files]
Told(dl) ==
  /\ dl \in Seq(Listable)
  /\ \A i, j \in DOMAIN dl : i < j => dl[j].time <= dl[i].time

LEMMA ToldIs ==
  ASSUME NEW dl, Told(dl)
  PROVE  /\ Len(dl) \in Nat /\ DOMAIN dl = 1 .. Len(dl)
         /\ \A i \in 1 .. Len(dl) : dl[i] \in Listable /\ dl[i].time \in DOMAIN Date /\ dl[i].time \in Nat
         /\ \A i, j \in 1 .. Len(dl) : i <= j => dl[j].time <= dl[i].time
  <1>1. Len(dl) \in Nat /\ DOMAIN dl = 1 .. Len(dl) /\ dl \in [1 .. Len(dl) -> Listable]
    BY LenProperties DEF Told
  <1>2. \A i \in 1 .. Len(dl) : dl[i] \in Listable /\ dl[i].time \in DOMAIN Date /\ dl[i].time \in Nat
    BY <1>1, DateAssumption DEF Listable
  <1>3. ASSUME NEW i \in 1 .. Len(dl), NEW j \in 1 .. Len(dl), i <= j PROVE dl[j].time <= dl[i].time
    <2>1. CASE i = j
      BY <1>2, <2>1
    <2>2. CASE i < j
      BY <1>1, <2>2 DEF Told
    <2> QED
      BY <1>1, <1>3, <2>1, <2>2
  <1> QED
    BY <1>1, <1>2, <1>3

LEMMA DatesAre ==
  ASSUME NEW t \in DOMAIN Date
  PROVE  /\ Date[t] \in Days /\ Date[t] = <<Date[t][1], Date[t][2], Date[t][3]>>
         /\ Date[t][1] \in Nat \ {0} /\ Date[t][2] \in 1 .. 12 /\ Date[t][3] \in 1 .. 31
  <1>1. Date[t] \in (Nat \ {0}) \X (1 .. 12) \X (1 .. 31)
    BY DateAssumption
  <1> QED
    BY <1>1, DateAssumption

LEMMA EarlierOrders ==
  /\ \A a \in Triples : ~ Earlier(a, a)
  /\ \A a, b, c \in Triples : Earlier(a, b) /\ Earlier(b, c) => Earlier(a, c)
  /\ \A a, b \in Triples : a = b \/ Earlier(a, b) \/ Earlier(b, a)
  <1>1. \A a \in Triples : a[1] \in Nat /\ a[2] \in Nat /\ a[3] \in Nat /\ a = <<a[1], a[2], a[3]>>
    BY DEF Triples
  <1>2. \A a \in Triples : ~ Earlier(a, a)
    BY <1>1 DEF Earlier
  <1>3. \A a, b, c \in Triples : Earlier(a, b) /\ Earlier(b, c) => Earlier(a, c)
    BY <1>1 DEF Earlier
  <1>4. ASSUME NEW a \in Triples, NEW b \in Triples, ~ Earlier(a, b), ~ Earlier(b, a) PROVE a = b
    <2>1. a[1] = b[1] /\ a[2] = b[2] /\ a[3] = b[3]
      BY <1>1, <1>4 DEF Earlier
    <2> QED
      BY <1>1, <2>1
  <1> QED
    BY <1>2, <1>3, <1>4

LEMMA CutIs ==
  ASSUME NEW t \in DOMAIN Date, NEW c, Shaped(c)
  PROVE  /\ Cut(t, c) \in Triples /\ Shaped(Cut(t, c))
         /\ Cut(t, c)[2] <= 12 /\ Cut(t, c)[3] <= 31 /\ Dated(Cut(t, c))
         /\ Cut(t, c)[2] = 0 <=> c[2] = 0
         /\ Cut(t, c)[3] = 0 <=> c[3] = 0
  <1> DEFINE e == Cut(t, c)
  <1>1. /\ Date[t] \in Days /\ Date[t] = <<Date[t][1], Date[t][2], Date[t][3]>>
        /\ Date[t][1] \in Nat \ {0} /\ Date[t][2] \in 1 .. 12 /\ Date[t][3] \in 1 .. 31
    BY DatesAre
  <1>2. e = <<Date[t][1], IF c[2] = 0 THEN 0 ELSE Date[t][2], IF c[3] = 0 THEN 0 ELSE Date[t][3]>>
    BY DEF Cut
  <1>3. e \in Triples /\ Shaped(e) /\ e[2] <= 12 /\ e[3] <= 31
        /\ (e[2] = 0 <=> c[2] = 0) /\ (e[3] = 0 <=> c[3] = 0)
    BY <1>1, <1>2 DEF Triples, Shaped
  <1>4. Dated(e)
    <2>1. CASE c[3] = 0
      BY <1>3, <2>1 DEF Dated
    <2>2. CASE c[3] # 0
      <3>1. e = Date[t]
        BY <1>1, <1>2, <2>2 DEF Shaped
      <3> QED
        BY <1>1, <3>1 DEF Dated
    <2> QED
      BY <2>1, <2>2
  <1> QED
    BY <1>3, <1>4

\* What is cut alike, and later is never earlier.
LEMMA CutAlike ==
  ASSUME NEW t, NEW c, NEW e, e[2] = 0 <=> c[2] = 0, e[3] = 0 <=> c[3] = 0
  PROVE  Cut(t, e) = Cut(t, c)
  BY DEF Cut
LEMMA CutInOrder ==
  ASSUME NEW t \in DOMAIN Date, NEW u \in DOMAIN Date, t <= u, NEW c, Shaped(c)
  PROVE  ~ Earlier(Cut(u, c), Cut(t, c))
  <1>1. /\ Date[t][1] \in Nat /\ Date[t][2] \in Nat /\ Date[t][3] \in Nat
        /\ Date[u][1] \in Nat /\ Date[u][2] \in Nat /\ Date[u][3] \in Nat
    BY DatesAre
  <1>2. ~ Earlier(Date[u], Date[t])
    <2>1. t \in Nat /\ u \in Nat
      BY DateAssumption
    <2>2. CASE t = u
      BY <1>1, <2>2 DEF Earlier
    <2>3. CASE t < u
      BY <2>3, DateAssumption
    <2> QED
      BY <2>1, <2>2, <2>3
  <1> QED
    BY <1>1, <1>2 DEF Earlier, Cut, Shaped

LEMMA Prefix ==
  ASSUME NEW n \in Nat, NEW S, S \subseteq 1 .. n, \A i \in S : \A j \in 1 .. n : j < i => j \in S
  PROVE  \E a \in 0 .. n : S = 1 .. a
  <1>1. CASE S = {}
    BY <1>1
  <1>2. CASE S # {}
    <2>1. Max(S) \in S /\ \A m \in S : m <= Max(S)
      BY <1>2, GreatestOf
    <2> DEFINE a == Max(S)
    <2>2. a \in 1 .. n /\ \A m \in S : m <= a
      BY <2>1
    <2> HIDE DEF a
    <2>5. a \in S
      BY <2>1 DEF a
    <2>3. 1 .. a \subseteq S
      <3> SUFFICES ASSUME NEW j \in 1 .. a PROVE j \in S
        OBVIOUS
      <3>1. j = a \/ (j < a /\ j \in 1 .. n)
        BY <2>2
      <3> QED
        BY <2>5, <3>1
    <2>4. S \subseteq 1 .. a
      <3> SUFFICES ASSUME NEW m \in S PROVE m \in 1 .. a
        OBVIOUS
      <3>1. m \in 1 .. n /\ m <= a
        BY <2>2
      <3> QED
        BY <2>2, <3>1
    <2>6. S = 1 .. a
      BY <2>3, <2>4, Zenon
    <2>7. a \in 0 .. n
      BY <2>2
    <2> QED
      BY <2>6, <2>7, Zenon
  <1> QED
    BY <1>1, <1>2

\* A list is parted by a calendar: what is after it, within and before.
Parts(dl, c, a, b) ==
  /\ a \in 0 .. Len(dl) /\ b \in 0 .. Len(dl) /\ a <= b
  /\ {i \in DOMAIN dl : After(dl[i].time, c)} = 1 .. a
  /\ {i \in DOMAIN dl : Within(dl[i].time, c)} = a + 1 .. b
  /\ {i \in DOMAIN dl : Before(dl[i].time, c)} = b + 1 .. Len(dl)

LEMMA ShapedIsTriple == \A c : Shaped(c) => c \in Triples
  BY DEF Shaped, Triples

LEMMA CalendarParts ==
  ASSUME NEW dl, Told(dl), NEW c, Shaped(c)
  PROVE  \E a, b \in Nat : Parts(dl, c, a, b)
  <1> DEFINE n == Len(dl)
             C(i) == Cut(dl[i].time, c)
             newer == {i \in DOMAIN dl : After(dl[i].time, c)}
             upto == {i \in DOMAIN dl : ~ Before(dl[i].time, c)}
  <1>1. n \in Nat /\ DOMAIN dl = 1 .. n
    BY ToldIs
  <1>2. \A i \in 1 .. n : C(i) \in Triples
    BY ToldIs, CutIs
  <1>3. \A i, j \in 1 .. n : i <= j => ~ Earlier(C(i), C(j))
    BY ToldIs, CutInOrder
  <1>4. c \in Triples
    BY ShapedIsTriple
  <1>5. \A i \in 1 .. n : /\ After(dl[i].time, c) <=> Earlier(c, C(i))
                          /\ Before(dl[i].time, c) <=> Earlier(C(i), c)
                          /\ Within(dl[i].time, c) <=> C(i) = c
    BY DEF After, Before, Within
  <1> HIDE DEF C, n
  <1>6. \E a \in 0 .. n : newer = 1 .. a
    <2>1. ASSUME NEW i \in newer, NEW j \in 1 .. n, j < i PROVE j \in newer
      <3>1. i \in 1 .. n /\ Earlier(c, C(i)) /\ ~ Earlier(C(j), C(i))
        BY <1>1, <1>3, <1>5, <2>1
      <3>2. C(i) \in Triples /\ C(j) \in Triples
        BY <1>2, <3>1
      <3>3. Earlier(c, C(j))
        BY <1>4, <3>1, <3>2, EarlierOrders
      <3> QED
        BY <1>1, <1>5, <3>3
    <2> HIDE DEF newer
    <2>2. newer \subseteq 1 .. n
      BY <1>1 DEF newer
    <2> QED
      BY <1>1, <2>1, <2>2, Prefix
  <1>7. \E b \in 0 .. n : upto = 1 .. b
    <2>1. ASSUME NEW i \in upto, NEW j \in 1 .. n, j < i PROVE j \in upto
      <3>1. i \in 1 .. n /\ ~ Earlier(C(i), c) /\ ~ Earlier(C(j), C(i))
        BY <1>1, <1>3, <1>5, <2>1
      <3>2. C(i) \in Triples /\ C(j) \in Triples
        BY <1>2, <3>1
      <3>3. ~ Earlier(C(j), c)
        BY <1>4, <3>1, <3>2, EarlierOrders
      <3> QED
        BY <1>1, <1>5, <3>3
    <2> HIDE DEF upto
    <2>2. upto \subseteq 1 .. n
      BY <1>1 DEF upto
    <2> QED
      BY <1>1, <2>1, <2>2, Prefix
  <1>8. PICK a \in 0 .. n : newer = 1 .. a
    BY <1>6
  <1>9. PICK b \in 0 .. n : upto = 1 .. b
    BY <1>7
  <1>10. newer \subseteq upto
    BY <1>1, <1>2, <1>4, <1>5, EarlierOrders
  <1>11. a <= b
    <2>1. a \in Nat /\ b \in Nat
      BY <1>1, <1>8, <1>9
    <2>2. CASE a = 0
      BY <2>1, <2>2
    <2>3. CASE a # 0
      <3>1. a \in upto
        BY <1>8, <1>10, <2>1, <2>3
      <3> QED
        BY <1>9, <2>1, <3>1
    <2> QED
      BY <2>2, <2>3
  <1>12. {i \in DOMAIN dl : Within(dl[i].time, c)} = a + 1 .. b
    <2>1. \A i \in 1 .. n : C(i) = c <=> ~ Earlier(c, C(i)) /\ ~ Earlier(C(i), c)
      BY <1>2, <1>4, EarlierOrders
    <2>2. \A i \in 1 .. n : Within(dl[i].time, c) <=> i \notin newer /\ i \in upto
      BY <1>1, <1>5, <2>1
    <2> HIDE DEF newer, upto
    <2>3. \A i \in 1 .. n : Within(dl[i].time, c) <=> i \in a + 1 .. b
      BY <1>1, <1>8, <1>9, <2>2
    <2>4. a + 1 .. b \subseteq 1 .. n
      BY <1>1, <1>8, <1>9
    <2> QED
      BY <1>1, <2>3, <2>4
  <1>13. {i \in DOMAIN dl : Before(dl[i].time, c)} = b + 1 .. n
    <2>1. \A i \in 1 .. n : Before(dl[i].time, c) <=> i \notin upto
      BY <1>1
    <2> HIDE DEF newer, upto
    <2>2. \A i \in 1 .. n : Before(dl[i].time, c) <=> i \in b + 1 .. n
      BY <1>1, <1>9, <2>1
    <2>3. b + 1 .. n \subseteq 1 .. n
      BY <1>1, <1>9
    <2> QED
      BY <1>1, <2>2, <2>3
  <1>14. a \in Nat /\ b \in Nat
    BY <1>1, <1>8, <1>9
  <1>15. newer = {i \in DOMAIN dl : After(dl[i].time, c)}
    OBVIOUS
  <1> HIDE DEF newer, upto
  <1> QED
    BY <1>8, <1>9, <1>11, <1>12, <1>13, <1>14, <1>15 DEF Parts, n

\* What a page of a calendar shows, and where it may go on.
LEMMA CalendarSpan ==
  ASSUME NEW dl, Told(dl), NEW r, r.type = "calendar", Shaped(r.val), Dated(r.val),
         NEW a \in Nat, NEW b \in Nat, Parts(dl, r.val, a, b)
  PROVE  /\ Positions(r, dl) = <<a + 1, b>>
         /\ a = 0 => Hits(r, dl).newer = {}
         /\ a # 0 => Hits(r, dl).newer = {dl[a].time}
         /\ b = Len(dl) => Hits(r, dl).older = {}
         /\ b # Len(dl) => Hits(r, dl).older = {dl[b + 1].time}
  <1> DEFINE c == r.val
             n == Len(dl)
             newer == {i \in DOMAIN dl : After(dl[i].time, c)}
             within == {i \in DOMAIN dl : Within(dl[i].time, c)}
             older == {i \in DOMAIN dl : Before(dl[i].time, c)}
  <1>1. n \in Nat /\ DOMAIN dl = 1 .. n
    BY ToldIs
  <1>2. newer = 1 .. a /\ within = a + 1 .. b /\ older = b + 1 .. n /\ a <= b /\ b <= n
    BY <1>1 DEF Parts
  <1>3. Cardinality(newer) = a
    <2>1. Cardinality(1 .. a) = a
      BY FS_Interval
    <2> QED
      BY <1>2, <2>1
  <1>4. Cardinality(within) = b - a
    <2>1. Cardinality(a + 1 .. b) = IF a + 1 > b THEN 0 ELSE b - (a + 1) + 1
      BY FS_Interval
    <2>2. Cardinality(a + 1 .. b) = b - a
      BY <1>2, <2>1
    <2> QED
      BY <1>2, <2>2
  <1>5. Positions(r, dl) = <<Cardinality(newer) + 1, Cardinality(newer) + Cardinality(within)>>
    BY DEF Positions
  <1>6. a + (b - a) = b
    OBVIOUS
  <1>7. Positions(r, dl) = <<a + 1, b>>
    BY <1>3, <1>4, <1>5, <1>6
  <1>8. Hits(r, dl) = Outside(dl, c)
    BY DEF Hits
  <1>9. /\ Outside(dl, c).newer = IF newer = {} THEN {} ELSE {dl[Max(newer)].time}
        /\ Outside(dl, c).older = IF older = {} THEN {} ELSE {dl[Min(older)].time}
    BY DEF Outside, None
  <1> HIDE DEF newer, older, within, n
  <1>10. a # 0 => Max(newer) = a
    <2> SUFFICES ASSUME a # 0 PROVE Max(newer) = a
      OBVIOUS
    <2>0. a \in 1 .. a /\ 1 .. a \subseteq 1 .. n
      BY <1>1, <1>2
    <2>1. a \in newer /\ newer # {} /\ newer \subseteq 1 .. n
      BY <1>2, <2>0
    <2>2. Max(newer) \in newer /\ \A m \in newer : m <= Max(newer)
      BY <1>1, <2>1, GreatestOf
    <2>3. Max(newer) \in 1 .. a /\ a <= Max(newer)
      BY <1>2, <2>1, <2>2
    <2> QED
      BY <2>3
  <1>11. b # n => Min(older) = b + 1
    <2> SUFFICES ASSUME b # n PROVE Min(older) = b + 1
      OBVIOUS
    <2>0. b + 1 \in b + 1 .. n /\ b + 1 .. n \subseteq Nat
      BY <1>1, <1>2
    <2>1. b + 1 \in older /\ older # {} /\ older \subseteq Nat
      BY <1>2, <2>0
    <2>2. Min(older) \in older /\ \A m \in older : Min(older) <= m
      BY <2>1, LeastOf
    <2>3. Min(older) \in b + 1 .. n /\ Min(older) <= b + 1
      BY <1>2, <2>1, <2>2
    <2> QED
      BY <1>1, <2>3
  <1>12. (newer = {} <=> a = 0) /\ (older = {} <=> b = n)
    <2>1. 1 .. a = {} <=> a = 0
      <3>1. a # 0 => 1 \in 1 .. a
        OBVIOUS
      <3> QED
        BY <3>1
    <2>2. b + 1 .. n = {} <=> b = n
      <3>1. b # n => n \in b + 1 .. n
        BY <1>1, <1>2
      <3> QED
        BY <1>1, <1>2, <3>1
    <2> QED
      BY <1>2, <2>1, <2>2
  <1> QED
    BY <1>7, <1>8, <1>9, <1>10, <1>11, <1>12 DEF n

\* A link to the day, month or year of an entry leads to a page that begins with
\* it, or ends, if the one beside it is of another.
LEMMA CalendarSuffix ==
  ASSUME NEW c, Shaped(c), c[2] <= 12, c[3] <= 31
  PROVE  /\ CalSuffix(c) \in Suffixes
         /\ RestrictTo(CalSuffix(c)) = [type |-> "calendar", val |-> c]
  <1>1. c = <<c[1], c[2], c[3]>> /\ c[1] \in Nat \ {0} /\ c[2] \in Nat /\ c[3] \in Nat /\ (c[2] = 0 => c[3] = 0)
    BY DEF Shaped
  <1>2. CalSuffix(c) \in Suffixes
    BY <1>1 DEF CalSuffix, Suffixes
  <1>3. RestrictTo(<<"calendar", c[1], c[2], c[3]>>) = [type |-> "calendar", val |-> <<c[1], c[2], c[3]>>]
    BY <1>1 DEF RestrictTo
  <1> QED
    BY <1>1, <1>2, <1>3 DEF CalSuffix

LEMMA EntryCalendar ==
  ASSUME NEW dl, Told(dl), NEW c, Shaped(c), NEW k \in 1 .. Len(dl),
         NEW e, e = Cut(dl[k].time, c), NEW r, r = RestrictTo(CalSuffix(e))
  PROVE  /\ CalSuffix(e) \in Suffixes /\ r = [type |-> "calendar", val |-> e] /\ Shaped(e) /\ Dated(e)
         /\ \E a, b \in Nat : /\ Positions(r, dl) = <<a + 1, b>>
                              /\ a < k /\ k <= b /\ b <= Len(dl)
                              /\ (k > 1 => Cut(dl[k - 1].time, c) # e) => a = k - 1
                              /\ (k < Len(dl) => Cut(dl[k + 1].time, c) # e) => b = k
  <1> DEFINE n == Len(dl)
  <1>1. n \in Nat /\ DOMAIN dl = 1 .. n
    BY ToldIs
  <1>2. dl[k].time \in DOMAIN Date
    BY ToldIs
  <1>3. Shaped(e) /\ Dated(e) /\ e[2] <= 12 /\ e[3] <= 31 /\ (e[2] = 0 <=> c[2] = 0) /\ (e[3] = 0 <=> c[3] = 0)
    BY <1>2, CutIs
  <1>4. CalSuffix(e) \in Suffixes /\ r = [type |-> "calendar", val |-> e]
    BY <1>3, CalendarSuffix
  <1>5. PICK a, b \in Nat : Parts(dl, e, a, b)
    BY <1>3, CalendarParts
  <1>6. Positions(r, dl) = <<a + 1, b>>
    <2>1. r.type = "calendar" /\ r.val = e
      BY <1>4
    <2>2. Shaped(r.val) /\ Dated(r.val) /\ Parts(dl, r.val, a, b)
      BY <1>3, <1>5, <2>1
    <2> QED
      BY <2>1, <2>2, CalendarSpan
  <1>7. \A i \in 1 .. n : i \in a + 1 .. b <=> Cut(dl[i].time, c) = e
    <2>1. \A i \in 1 .. n : i \in a + 1 .. b <=> Within(dl[i].time, e)
      BY <1>1, <1>5 DEF Parts
    <2> QED
      BY <1>3, <2>1, CutAlike DEF Within
  <1>8. a <= b /\ b <= n
    BY <1>1, <1>5 DEF Parts
  <1>9. a < k /\ k <= b
    BY <1>1, <1>7
  <1>10. ASSUME k > 1 => Cut(dl[k - 1].time, c) # e PROVE a = k - 1
    <2>1. k > 1 => k - 1 \notin a + 1 .. b
      BY <1>1, <1>7, <1>10
    <2> QED
      BY <1>1, <1>8, <1>9, <2>1
  <1>11. ASSUME k < n => Cut(dl[k + 1].time, c) # e PROVE b = k
    <2>1. k < n => k + 1 \notin a + 1 .. b
      BY <1>1, <1>7, <1>11
    <2> QED
      BY <1>1, <1>8, <1>9, <2>1
  <1> QED
    BY <1>3, <1>4, <1>6, <1>8, <1>9, <1>10, <1>11

(* Restrictions, and from where to where they take. *)

Restricts(r) ==
  \/ r.type = "none"
  \/ r.type \in {"latest", "oldest"} /\ r.val[1] \in Nat
  \/ r.type = "range" /\ r.val[1] \in Nat \ {0} /\ r.val[2] \in Nat /\ r.val[1] <= r.val[2]
  \/ r.type = "calendar" /\ Shaped(r.val)
Lo(r, dl) == Positions(r, dl)[1]
Hi(r, dl) == Positions(r, dl)[2]

LEMMA LatestSuffix ==
  ASSUME NEW n \in Nat
  PROVE  /\ <<"latest", n>> \in Suffixes
         /\ RestrictTo(<<"latest", n>>).type = "latest" /\ RestrictTo(<<"latest", n>>).val[1] = n
  BY DEF RestrictTo, Suffixes
LEMMA OldestSuffix ==
  ASSUME NEW n \in Nat
  PROVE  /\ <<"oldest", n>> \in Suffixes
         /\ RestrictTo(<<"oldest", n>>).type = "oldest" /\ RestrictTo(<<"oldest", n>>).val[1] = n
  BY DEF RestrictTo, Suffixes
LEMMA RangeSuffix ==
  ASSUME NEW m \in Nat, NEW n \in Nat
  PROVE  /\ <<"range", m, n>> \in Suffixes
         /\ RestrictTo(<<"range", m, n>>).type = "range"
         /\ m <= n /\ m # 0 => /\ RestrictTo(<<"range", m, n>>).val[1] = m
                               /\ RestrictTo(<<"range", m, n>>).val[2] = n
         /\ Restricts(RestrictTo(<<"range", m, n>>))
  <1>1. RestrictTo(<<"range", m, n>>) = [type |-> "range", val |-> Positive(Swapped(m, n))]
    BY DEF RestrictTo
  <1>2. Swapped(m, n) = IF m > n THEN <<n, m>> ELSE <<m, n>>
    BY DEF Swapped
  <1>3. CASE m > n
    <2>1. Swapped(m, n) = <<n, m>>
      BY <1>2, <1>3
    <2>2. Positive(<<n, m>>)[1] \in Nat \ {0} /\ Positive(<<n, m>>)[2] \in Nat
          /\ Positive(<<n, m>>)[1] <= Positive(<<n, m>>)[2]
      BY <1>3 DEF Positive
    <2> QED
      BY <1>1, <1>3, <2>1, <2>2 DEF Suffixes, Restricts
  <1>4. CASE m <= n
    <2>1. Swapped(m, n) = <<m, n>>
      BY <1>2, <1>4
    <2>2. /\ Positive(<<m, n>>)[1] \in Nat \ {0} /\ Positive(<<m, n>>)[2] \in Nat
          /\ Positive(<<m, n>>)[1] <= Positive(<<m, n>>)[2]
          /\ m # 0 => Positive(<<m, n>>)[1] = m /\ Positive(<<m, n>>)[2] = n
      BY <1>4 DEF Positive
    <2> QED
      BY <1>1, <1>4, <2>1, <2>2 DEF Suffixes, Restricts
  <1> QED
    BY <1>3, <1>4

LEMMA SuffixesRestrict ==
  ASSUME NEW suf \in Suffixes
  PROVE  Restricts(RestrictTo(suf))
  <1>1. CASE suf = <<"latest">>
    BY <1>1 DEF RestrictTo, DefVals, Restricts
  <1>2. CASE suf = <<"oldest">>
    BY <1>2 DEF RestrictTo, DefVals, Restricts
  <1>3. CASE suf = <<"range">>
    BY <1>3 DEF RestrictTo, DefVals, Swapped, Positive, Restricts
  <1>4. CASE suf \in {"latest"} \X Int
    <2>1. PICK n \in Int : suf = <<"latest", n>>
      BY <1>4
    <2>2. CASE n >= 0
      BY <2>1, <2>2, LatestSuffix DEF Restricts
    <2>3. CASE n < 0
      BY <2>1, <2>3 DEF RestrictTo, NoRestriction, Restricts
    <2> QED
      BY <2>2, <2>3
  <1>5. CASE suf \in {"oldest"} \X Nat
    <2>1. PICK n \in Nat : suf = <<"oldest", n>>
      BY <1>5
    <2> QED
      BY <2>1, OldestSuffix DEF Restricts
  <1>6. CASE suf \in {"range"} \X Nat \X Nat
    <2>1. PICK m \in Nat, n \in Nat : suf = <<"range", m, n>>
      BY <1>6
    <2> QED
      BY <2>1, RangeSuffix
  <1>7. CASE suf \in {s \in {"calendar"} \X (Nat \ {0}) \X Nat \X Nat : s[3] = 0 => s[4] = 0}
    <2>1. PICK y \in Nat \ {0}, m \in Nat, d \in Nat : suf = <<"calendar", y, m, d>> /\ (m = 0 => d = 0)
      BY <1>7
    <2>2. RestrictTo(<<"calendar", y, m, d>>)
            = IF m > 12 \/ d > 31 THEN NoRestriction ELSE [type |-> "calendar", val |-> <<y, m, d>>]
      BY DEF RestrictTo
    <2>3. Shaped(<<y, m, d>>)
      BY <2>1 DEF Shaped
    <2> QED
      BY <2>1, <2>2, <2>3 DEF NoRestriction, Restricts
  <1> QED
    BY <1>1, <1>2, <1>3, <1>4, <1>5, <1>6, <1>7 DEF Suffixes

LEMMA Spans ==
  ASSUME NEW dl, Told(dl), NEW r, Restricts(r), NEW n, n = Len(dl)
  PROVE  /\ r.type = "none" => Lo(r, dl) = 1 /\ Hi(r, dl) = n
         /\ r.type = "latest" => /\ Lo(r, dl) = 1
                                 /\ r.val[1] < n => Hi(r, dl) = r.val[1]
                                 /\ r.val[1] >= n => Hi(r, dl) = n
         /\ r.type = "oldest" => /\ r.val[1] \in 1 .. n => Lo(r, dl) = n - r.val[1] + 1
                                 /\ r.val[1] \notin 1 .. n => Lo(r, dl) = 1
                                 /\ Hi(r, dl) = n
         /\ r.type = "range" => /\ Lo(r, dl) = r.val[1]
                                /\ r.val[2] < n => Hi(r, dl) = r.val[2]
                                /\ r.val[2] >= n => Hi(r, dl) = n
         /\ r.type = "calendar" /\ ~ Dated(r.val) => Lo(r, dl) = 1 /\ Hi(r, dl) = 0
         /\ Lo(r, dl) \in Nat \ {0} /\ Hi(r, dl) \in 0 .. n
  <1>1. n \in Nat
    BY ToldIs
  <1>2. CASE r.type = "none"
    BY <1>1, <1>2 DEF Positions, Lo, Hi
  <1>3. CASE r.type = "latest"
    BY <1>1, <1>3 DEF Positions, Lo, Hi, First, Restricts
  <1>4. CASE r.type = "oldest"
    BY <1>1, <1>4 DEF Positions, Lo, Hi, First, Restricts
  <1>5. CASE r.type = "range"
    BY <1>1, <1>5 DEF Positions, Lo, Hi, First, Restricts
  <1>6. CASE r.type = "calendar" /\ ~ Dated(r.val)
    BY <1>1, <1>6 DEF Positions, Lo, Hi
  <1>7. CASE r.type = "calendar" /\ Dated(r.val)
    <2>1. Shaped(r.val)
      BY <1>7 DEF Restricts
    <2>2. PICK a, b \in Nat : Parts(dl, r.val, a, b)
      BY <2>1, CalendarParts
    <2>3. Positions(r, dl) = <<a + 1, b>>
      BY <1>7, <2>1, <2>2, CalendarSpan
    <2>4. b <= n
      BY <1>1, <2>2 DEF Parts
    <2> QED
      BY <1>1, <1>7, <2>3, <2>4 DEF Lo, Hi
  <1> QED
    BY <1>2, <1>3, <1>4, <1>5, <1>6, <1>7 DEF Restricts

(* Where the links of a bar lead. *)

IsIn(r, dl) ==
  CASE r.type = "calendar" -> Dated(r.val)
    [] r.type = "oldest" -> r.val[1] \in 1 .. Len(dl) - 1
    [] OTHER -> Lo(r, dl) <= Hi(r, dl)
\* There is a page of that name, and an entry in it.
On(suf, dl) == RestrictTo(suf).type # "none" /\ Lo(RestrictTo(suf), dl) <= Hi(RestrictTo(suf), dl)
Leads(bar, r, dl) ==
  /\ bar.older \cup bar.newer \subseteq Suffixes
  /\ IsIn(r, dl) =>
       /\ \A suf \in bar.older : On(suf, dl) /\ Lo(RestrictTo(suf), dl) = Hi(r, dl) + 1
       /\ \A suf \in bar.newer : On(suf, dl) /\ Hi(RestrictTo(suf), dl) = Lo(r, dl) - 1
       /\ bar.older = {} => Hi(r, dl) = Len(dl)
       /\ bar.newer = {} => Lo(r, dl) = 1

LEMMA MaxOfTwo ==
  ASSUME NEW a \in Int, NEW b \in Int
  PROVE  Max({a, b}) \in {a, b} /\ a <= Max({a, b}) /\ b <= Max({a, b})
  <1>1. \E x \in {a, b} : \A y \in {a, b} : x >= y
    <2>1. CASE a >= b
      BY <2>1
    <2>2. CASE b >= a
      BY <2>2
    <2> QED
      BY <2>1, <2>2
  <1>2. Max({a, b}) \in {a, b} /\ \A y \in {a, b} : Max({a, b}) >= y
    BY <1>1, Zenon DEF Max
  <1>3. Max({a, b}) \in {a, b} /\ Max({a, b}) >= a /\ Max({a, b}) >= b
    BY <1>2, Zenon
  <1> QED
    BY <1>3

LEMMA MinOfTwo ==
  ASSUME NEW a \in Nat, NEW b \in Nat
  PROVE  Min({a} \cup {b}) = IF a <= b THEN a ELSE b
  <1>1. {a} \cup {b} \subseteq Nat /\ {a} \cup {b} # {}
    OBVIOUS
  <1>2. Min({a} \cup {b}) \in {a} \cup {b} /\ \A m \in {a} \cup {b} : Min({a} \cup {b}) <= m
    BY <1>1, LeastOf
  <1> QED
    BY <1>2

\* What range_prev links to, of n entries that were counted.
LEMMA PrevIs ==
  ASSUME NEW n \in Nat, NEW s \in Nat \ {0}, NEW e \in Nat
  PROVE  /\ RangePrev({n}, s, e) = {} <=> n < s \/ e < s
         /\ s <= n /\ s <= e /\ n <= e => RangePrev({n}, s, e) = {<<"oldest", n - s + 1>>}
         /\ s <= n /\ s <= e /\ e < n => RangePrev({n}, s, e) = {<<"range", s, e>>}
  <1> DEFINE last == Min({n} \cup {e})
             gap == last - s + 1
  <1>1. last = IF n <= e THEN n ELSE e
    BY MinOfTwo
  <1>2. RangePrev({n}, s, e) = IF gap <= 0 THEN {}
                               ELSE IF {n} = {last} THEN {<<"oldest", gap>>} ELSE {<<"range", s, last>>}
    BY DEF RangePrev, None
  <1> HIDE DEF last
  <1>3. {n} = {last} <=> n = last
    OBVIOUS
  <1>4. ASSUME n < s \/ e < s PROVE gap <= 0
    BY <1>1, <1>4
  <1>5. ASSUME s <= n, s <= e, n <= e PROVE ~ (gap <= 0) /\ last = n
    BY <1>1, <1>5
  <1>6. ASSUME s <= n, s <= e, e < n PROVE ~ (gap <= 0) /\ last = e /\ last # n
    BY <1>1, <1>6
  <1>7. s <= n /\ s <= e /\ n <= e => RangePrev({n}, s, e) = {<<"oldest", n - s + 1>>}
    BY <1>2, <1>3, <1>5
  <1>8. s <= n /\ s <= e /\ e < n => RangePrev({n}, s, e) = {<<"range", s, e>>}
    BY <1>2, <1>3, <1>6
  <1>9. n < s \/ e < s => RangePrev({n}, s, e) = {}
    BY <1>2, <1>4
  <1>10. n < s \/ e < s \/ (s <= n /\ s <= e /\ n <= e) \/ (s <= n /\ s <= e /\ e < n)
    OBVIOUS
  <1>11. {<<"oldest", n - s + 1>>} # {} /\ {<<"range", s, e>>} # {}
    OBVIOUS
  <1>12. RangePrev({n}, s, e) = {} => n < s \/ e < s
    BY <1>7, <1>8, <1>10, <1>11, Zenon
  <1> QED
    BY <1>7, <1>8, <1>9, <1>12

\* And where that leads: to what begins at s.
LEMMA PrevLeads ==
  ASSUME NEW dl, Told(dl), NEW s \in Nat \ {0}, NEW e \in Nat, NEW suf \in RangePrev({Len(dl)}, s, e), s > 1
  PROVE  suf \in Suffixes /\ On(suf, dl) /\ Lo(RestrictTo(suf), dl) = s
  <1> DEFINE n == Len(dl)
             r == RestrictTo(suf)
  <1>1. n \in Nat
    BY ToldIs
  <1> HIDE DEF n
  <1>p. /\ RangePrev({n}, s, e) = {} <=> n < s \/ e < s
        /\ s <= n /\ s <= e /\ n <= e => RangePrev({n}, s, e) = {<<"oldest", n - s + 1>>}
        /\ s <= n /\ s <= e /\ e < n => RangePrev({n}, s, e) = {<<"range", s, e>>}
    BY <1>1, PrevIs
  <1>q. suf \in RangePrev({n}, s, e)
    BY DEF n
  <1>2. s <= n /\ s <= e
    BY <1>1, <1>p, <1>q
  <1>3. CASE n <= e
    <2>1. suf = <<"oldest", n - s + 1>> /\ n - s + 1 \in Nat
      <3>1. RangePrev({n}, s, e) = {<<"oldest", n - s + 1>>}
        BY <1>2, <1>3, <1>p
      <3>2. suf = <<"oldest", n - s + 1>>
        BY <1>q, <3>1
      <3> QED
        BY <1>1, <1>2, <3>2
    <2>2. suf \in Suffixes /\ r.type = "oldest" /\ r.val[1] = n - s + 1
      BY <2>1, OldestSuffix
    <2> HIDE DEF r
    <2>3. Restricts(r)
      BY <2>1, <2>2 DEF Restricts
    <2>4. Lo(r, dl) = n - (n - s + 1) + 1 /\ Hi(r, dl) = n
      BY <1>1, <1>2, <2>2, <2>3, Spans DEF n
    <2> QED
      BY <1>1, <1>2, <2>2, <2>4 DEF On, r
  <1>4. CASE e < n
    <2>1. suf = <<"range", s, e>>
      <3>1. RangePrev({n}, s, e) = {<<"range", s, e>>}
        BY <1>2, <1>4, <1>p
      <3> QED
        BY <1>q, <3>1
    <2>2. suf \in Suffixes /\ Restricts(r) /\ r.type = "range" /\ r.val[1] = s /\ r.val[2] = e
      <3>1. s \in Nat /\ e \in Nat /\ s <= e /\ s # 0
        BY <1>2
      <3>2. /\ <<"range", s, e>> \in Suffixes
            /\ RestrictTo(<<"range", s, e>>).type = "range"
            /\ RestrictTo(<<"range", s, e>>).val[1] = s /\ RestrictTo(<<"range", s, e>>).val[2] = e
            /\ Restricts(RestrictTo(<<"range", s, e>>))
        BY <3>1, RangeSuffix
      <3> QED
        BY <2>1, <3>2
    <2> HIDE DEF r
    <2>4. Lo(r, dl) = s /\ Hi(r, dl) = e
      BY <1>1, <1>4, <2>2, Spans DEF n
    <2> QED
      BY <1>2, <2>2, <2>4 DEF On, r
  <1> QED
    BY <1>1, <1>3, <1>4

\* gen_range_url, to what ends at e.
LEMMA GenRangeLeads ==
  ASSUME NEW dl, Told(dl), NEW s \in Nat \ {0}, NEW e \in Int, s > 1 => e >= 0
  PROVE  /\ GenRange(s, e) \in Suffixes
         /\ s <= e /\ e <= Len(dl) =>
              On(GenRange(s, e), dl) /\ Hi(RestrictTo(GenRange(s, e)), dl) = e
  <1> DEFINE n == Len(dl)
             suf == GenRange(s, e)
             r == RestrictTo(suf)
  <1>1. n \in Nat
    BY ToldIs
  <1>2. CASE s > 1
    <2>1. suf = <<"range", s, e>> /\ e \in Nat
      BY <1>2 DEF GenRange
    <2>2. suf \in Suffixes
      BY <2>1, RangeSuffix
    <2>3. ASSUME s <= e, e <= n PROVE On(suf, dl) /\ Hi(r, dl) = e
      <3>1. Restricts(r) /\ r.type = "range" /\ r.val[1] = s /\ r.val[2] = e
        BY <2>1, <2>3, RangeSuffix
      <3> HIDE DEF r
      <3>2. Lo(r, dl) = s /\ Hi(r, dl) = e
        BY <1>1, <2>1, <2>3, <3>1, Spans
      <3> QED
        BY <2>3, <3>1, <3>2 DEF On, r
    <2> QED
      BY <2>2, <2>3
  <1>3. CASE s = 1
    <2>1. suf = <<"latest", e>>
      BY <1>3 DEF GenRange
    <2>2. suf \in Suffixes
      BY <2>1 DEF Suffixes
    <2>3. ASSUME s <= e, e <= n PROVE On(suf, dl) /\ Hi(r, dl) = e
      <3>1. r.type = "latest" /\ r.val[1] = e /\ e \in Nat
        BY <2>1, <2>3, LatestSuffix
      <3> HIDE DEF r
      <3>2. Lo(r, dl) = 1 /\ Hi(r, dl) = e
        BY <1>1, <2>3, <3>1, Spans DEF Restricts
      <3> QED
        BY <1>3, <2>3, <3>1, <3>2 DEF On, r
    <2> QED
      BY <2>2, <2>3
  <1> QED
    BY <1>2, <1>3

LEMMA LatestLeads ==
  ASSUME NEW dl, Told(dl), NEW r, Restricts(r), r.type = "latest"
  PROVE  Leads(RangeBar(r, Hits(r, dl)), r, dl)
  <1> DEFINE n == Len(dl)
             k == r.val[1]
             bar == RangeBar(r, Hits(r, dl))
  <1>1. n \in Nat /\ k \in Nat
    BY ToldIs DEF Restricts
  <1>2. bar.older = RangePrev({n}, k + 1, k * 2) /\ bar.newer = {}
    BY DEF RangeBar, Hits, LatestRel
  <1>3. Lo(r, dl) = 1 /\ (k < n => Hi(r, dl) = k) /\ (k >= n => Hi(r, dl) = n)
    BY Spans
  <1>4. k * 2 = k + k /\ k * 2 \in Nat
    BY <1>1
  <1> HIDE DEF bar, k, n
  <1>s. k + 1 \in Nat \ {0}
    BY <1>1
  <1>p. bar.older = {} <=> n < k + 1 \/ k * 2 < k + 1
    <2> DEFINE e == k * 2
    <2>1. e \in Nat
      BY <1>4
    <2> HIDE DEF e
    <2>2. RangePrev({n}, k + 1, e) = {} <=> n < k + 1 \/ e < k + 1
      BY <1>1, <1>s, <2>1, PrevIs
    <2> QED
      BY <1>2, <2>2 DEF e
  <1>5. k = 0 => bar.older = {}
    BY <1>1, <1>4, <1>p
  <1>6. bar.older # {} => k < n
    BY <1>1, <1>p
  <1>7. \A suf \in bar.older : suf \in Suffixes /\ On(suf, dl) /\ Lo(RestrictTo(suf), dl) = k + 1
    <2> SUFFICES ASSUME NEW suf \in bar.older
                 PROVE  suf \in Suffixes /\ On(suf, dl) /\ Lo(RestrictTo(suf), dl) = k + 1
      OBVIOUS
    <2>1. suf \in RangePrev({Len(dl)}, k + 1, k * 2) /\ k + 1 > 1
      <3>1. k # 0 /\ k \in Nat
        BY <1>1, <1>5
      <3>2. k + 1 > 1
        BY <3>1
      <3> QED
        BY <1>2, <3>2, Zenon DEF n
    <2> QED
      BY <1>4, <1>s, <2>1, PrevLeads
  <1>8. ASSUME bar.older = {}, k # 0 PROVE n <= k
    BY <1>1, <1>4, <1>8, <1>p
  <1>9. IsIn(r, dl) => k # 0
    BY <1>1, <1>3 DEF IsIn, n
  <1>10. bar.older = {} /\ IsIn(r, dl) => Hi(r, dl) = n
    BY <1>1, <1>3, <1>8, <1>9
  <1>11. \A suf \in bar.older : Lo(RestrictTo(suf), dl) = Hi(r, dl) + 1
    BY <1>3, <1>6, <1>7
  <1> QED
    BY <1>2, <1>3, <1>7, <1>10, <1>11 DEF Leads, bar, n

LEMMA OldestLeads ==
  ASSUME NEW dl, Told(dl), NEW r, Restricts(r), r.type = "oldest"
  PROVE  Leads(RangeBar(r, Hits(r, dl)), r, dl)
  <1> DEFINE n == Len(dl)
             k == r.val[1]
             e == n - k
             s == Max({e - k + 1, 1})
             bar == RangeBar(r, Hits(r, dl))
  <1>1. n \in Nat /\ k \in Nat
    BY ToldIs DEF Restricts
  <1>2. bar.older = {} /\ bar.newer = {GenRange(s, e)}
    BY DEF RangeBar, Hits, OldestRel
  <1>3. (k \in 1 .. n => Lo(r, dl) = n - k + 1) /\ Hi(r, dl) = n
    BY Spans
  <1>4. s \in {e - k + 1, 1} /\ e - k + 1 <= s /\ 1 <= s
    <2>1. e - k + 1 \in Int /\ 1 \in Int
      BY <1>1
    <2> QED
      BY <2>1, MaxOfTwo
  <1> HIDE DEF bar, k, s
  <1>5. s \in Nat \ {0} /\ e \in Int /\ (s > 1 => e >= 0)
    BY <1>1, <1>4
  <1>6. IsIn(r, dl) => k \in 1 .. n - 1
    BY DEF IsIn, k
  <1>7. k \in 1 .. n - 1 => s <= e /\ e <= n
    BY <1>1, <1>4
  <1>8. GenRange(s, e) \in Suffixes
    BY <1>5, GenRangeLeads
  <1>9. IsIn(r, dl) => On(GenRange(s, e), dl) /\ Hi(RestrictTo(GenRange(s, e)), dl) = e
    BY <1>5, <1>6, <1>7, GenRangeLeads
  <1>10. IsIn(r, dl) => e = Lo(r, dl) - 1
    BY <1>1, <1>3, <1>6
  <1> QED
    BY <1>2, <1>3, <1>8, <1>9, <1>10 DEF Leads, bar

LEMMA RangeLeads ==
  ASSUME NEW dl, Told(dl), NEW r, Restricts(r), r.type = "range"
  PROVE  Leads(RangeBar(r, Hits(r, dl)), r, dl)
  <1> DEFINE n == Len(dl)
             m == r.val[1]
             k == r.val[2]
             gap == k - m + 1
             s == Max({m - gap, 1})
             bar == RangeBar(r, Hits(r, dl))
  <1>1. n \in Nat /\ m \in Nat \ {0} /\ k \in Nat /\ m <= k
    BY ToldIs DEF Restricts
  <1>2. /\ bar.older = RangePrev({n}, k + 1, k + gap)
        /\ m > 1 => bar.newer = {GenRange(s, m - 1)}
        /\ ~ (m > 1) => bar.newer = {}
    BY DEF RangeBar, Hits, RangeRel
  <1>3. Lo(r, dl) = m /\ (k < n => Hi(r, dl) = k) /\ (k >= n => Hi(r, dl) = n)
    BY Spans
  <1>4. s \in {m - gap, 1} /\ m - gap <= s /\ 1 <= s
    <2>1. m - gap \in Int /\ 1 \in Int
      BY <1>1
    <2> QED
      BY <2>1, MaxOfTwo
  <1> HIDE DEF bar, k, m, s
  <1>5. k + gap \in Nat /\ k + 1 \in Nat \ {0} /\ k + 1 <= k + gap /\ k + 1 > 1
    BY <1>1
  <1>6. m > 1 => s \in Nat \ {0} /\ m - 1 \in Int /\ m - 1 >= 0 /\ s <= m - 1
    BY <1>1, <1>4
  <1>7. \A suf \in bar.older : suf \in Suffixes /\ On(suf, dl) /\ Lo(RestrictTo(suf), dl) = k + 1
    BY <1>2, <1>5, PrevLeads
  <1>p. bar.older = {} <=> n < k + 1 \/ k + gap < k + 1
    <2> DEFINE e == k + gap
    <2>1. e \in Nat /\ k + 1 \in Nat \ {0}
      BY <1>5
    <2> HIDE DEF e
    <2>2. RangePrev({n}, k + 1, e) = {} <=> n < k + 1 \/ e < k + 1
      BY <1>1, <2>1, PrevIs
    <2> QED
      BY <1>2, <2>2 DEF e
  <1>8. bar.older # {} => k < n
    BY <1>1, <1>p
  <1>9. bar.older = {} => k >= n
    BY <1>1, <1>5, <1>p
  <1>10. m > 1 => GenRange(s, m - 1) \in Suffixes
    BY <1>6, GenRangeLeads
  <1>11. IsIn(r, dl) => m <= n
    BY <1>1, <1>3 DEF IsIn
  <1>12. m > 1 /\ IsIn(r, dl) => /\ On(GenRange(s, m - 1), dl)
                                /\ Hi(RestrictTo(GenRange(s, m - 1)), dl) = m - 1
    <2> SUFFICES ASSUME m > 1, m <= n
                 PROVE  On(GenRange(s, m - 1), dl) /\ Hi(RestrictTo(GenRange(s, m - 1)), dl) = m - 1
      BY <1>11
    <2>1. m - 1 <= n
      BY <1>1
    <2> QED
      BY <1>6, <2>1, GenRangeLeads
  <1>13. \A suf \in bar.older : Lo(RestrictTo(suf), dl) = Hi(r, dl) + 1
    BY <1>3, <1>7, <1>8
  <1>14. bar.older = {} => Hi(r, dl) = n
    BY <1>3, <1>9
  <1>15. bar.newer = {} => Lo(r, dl) = 1
    BY <1>1, <1>2, <1>3
  <1>16. bar.newer \subseteq Suffixes
    BY <1>2, <1>10
  <1>17. IsIn(r, dl) => \A suf \in bar.newer : On(suf, dl) /\ Hi(RestrictTo(suf), dl) = Lo(r, dl) - 1
    BY <1>2, <1>3, <1>12
  <1> QED
    BY <1>7, <1>13, <1>14, <1>15, <1>16, <1>17 DEF Leads, bar

\* A link to the day, month or year of the kth entry leads to where there is something,
\* from that entry on if the one before it is of another, and up to it if the one after it is.
LEMMA EntryLink ==
  ASSUME NEW dl, Told(dl), NEW c, Shaped(c), NEW k \in 1 .. Len(dl),
         NEW suf, suf = CalSuffix(Cut(dl[k].time, c))
  PROVE  /\ suf \in Suffixes /\ On(suf, dl)
         /\ (k > 1 => Cut(dl[k - 1].time, c) # Cut(dl[k].time, c)) => Lo(RestrictTo(suf), dl) = k
         /\ (k < Len(dl) => Cut(dl[k + 1].time, c) # Cut(dl[k].time, c)) => Hi(RestrictTo(suf), dl) = k
  <1>1. PICK e : e = Cut(dl[k].time, c)
    OBVIOUS
  <1>2. PICK r : r = RestrictTo(CalSuffix(e))
    OBVIOUS
  <1>3. /\ CalSuffix(e) \in Suffixes /\ r.type = "calendar"
        /\ \E a, b \in Nat : /\ Positions(r, dl) = <<a + 1, b>>
                             /\ a < k /\ k <= b /\ b <= Len(dl)
                             /\ (k > 1 => Cut(dl[k - 1].time, c) # e) => a = k - 1
                             /\ (k < Len(dl) => Cut(dl[k + 1].time, c) # e) => b = k
    BY <1>1, <1>2, EntryCalendar
  <1>4. PICK a, b \in Nat : /\ Positions(r, dl) = <<a + 1, b>>
                            /\ a < k /\ k <= b
                            /\ (k > 1 => Cut(dl[k - 1].time, c) # e) => a = k - 1
                            /\ (k < Len(dl) => Cut(dl[k + 1].time, c) # e) => b = k
    BY <1>3
  <1>5. Lo(r, dl) = a + 1 /\ Hi(r, dl) = b
    BY <1>4 DEF Lo, Hi
  <1>6. Len(dl) \in Nat
    BY ToldIs
  <1>7. Lo(r, dl) <= Hi(r, dl)
    BY <1>4, <1>5, <1>6
  <1>8. r = RestrictTo(suf) /\ suf \in Suffixes
    BY <1>1, <1>2, <1>3
  <1> QED
    BY <1>1, <1>3, <1>4, <1>5, <1>6, <1>7, <1>8 DEF On

LEMMA CalendarLeads ==
  ASSUME NEW dl, Told(dl), NEW r, Restricts(r), r.type = "calendar"
  PROVE  Leads(RangeBar(r, Hits(r, dl)), r, dl)
  <1> DEFINE bar == RangeBar(r, Hits(r, dl))
  <1>n. PICK n : n = Len(dl)
    OBVIOUS
  <1>c. PICK c : c = r.val
    OBVIOUS
  <1>1. n \in Nat /\ Shaped(c) /\ DOMAIN dl = 1 .. n
    BY <1>n, <1>c, ToldIs DEF Restricts
  <1>2. bar.older = CalLink(c, Hits(r, dl).older) /\ bar.newer = CalLink(c, Hits(r, dl).newer)
    BY <1>c DEF RangeBar, CalendarRel
  <1>3. CASE ~ Dated(c)
    <2>1. Hits(r, dl).older = {} /\ Hits(r, dl).newer = {}
      BY <1>c, <1>3 DEF Hits, NoHits, None
    <2>2. bar.older = {} /\ bar.newer = {} /\ ~ IsIn(r, dl)
      BY <1>2, <1>c, <1>3, <2>1 DEF CalLink, IsIn
    <2> QED
      BY <2>2 DEF Leads
  <1>4. CASE Dated(c)
    <2>1. PICK a, b \in Nat : Parts(dl, c, a, b)
      BY <1>1, CalendarParts
    <2>c. Shaped(r.val) /\ Dated(r.val) /\ Parts(dl, r.val, a, b)
      BY <1>1, <1>4, <1>c, <2>1
    <2>2. Positions(r, dl) = <<a + 1, b>>
      BY <2>c, CalendarSpan
    <2>3. /\ a = 0 => Hits(r, dl).newer = {}
          /\ a # 0 => Hits(r, dl).newer = {dl[a].time}
          /\ b = n => Hits(r, dl).older = {}
          /\ b # n => Hits(r, dl).older = {dl[b + 1].time}
      BY <1>n, <2>c, CalendarSpan
    <2>4. Lo(r, dl) = a + 1 /\ Hi(r, dl) = b
      BY <2>2 DEF Lo, Hi
    <2>5. /\ a <= b /\ b <= n
          /\ \A i \in 1 .. n : After(dl[i].time, c) <=> i \in 1 .. a
          /\ \A i \in 1 .. n : Before(dl[i].time, c) <=> i \in b + 1 .. n
      BY <1>1, <1>n, <2>1 DEF Parts
    <2> HIDE DEF bar
    <2>6. ASSUME NEW suf \in bar.older
          PROVE  suf \in Suffixes /\ On(suf, dl) /\ Lo(RestrictTo(suf), dl) = b + 1
      <3>1. b # n
        BY <1>2, <2>3, <2>6 DEF CalLink
      <3>2. bar.older = {CalSuffix(Cut(t, c)) : t \in {dl[b + 1].time}}
        BY <1>2, <2>3, <3>1 DEF CalLink
      <3>k. PICK k : k = b + 1
        OBVIOUS
      <3>3. k \in 1 .. n /\ k \in b + 1 .. n /\ (k > 1 => k - 1 \in 1 .. n /\ k - 1 \notin b + 1 .. n)
        BY <1>1, <2>5, <3>1, <3>k
      <3>4. suf = CalSuffix(Cut(dl[k].time, c))
        BY <2>6, <3>2, <3>k
      <3>5. k > 1 => Cut(dl[k - 1].time, c) # Cut(dl[k].time, c)
        <4>1. Before(dl[k].time, c)
          BY <2>5, <3>3
        <4>2. k > 1 => ~ Before(dl[k - 1].time, c)
          BY <2>5, <3>3
        <4> QED
          BY <4>1, <4>2 DEF Before
      <3>6. k \in 1 .. Len(dl)
        BY <1>n, <3>3
      <3>7. suf \in Suffixes /\ On(suf, dl) /\ Lo(RestrictTo(suf), dl) = k
        BY <1>1, <3>4, <3>5, <3>6, EntryLink
      <3> QED
        BY <3>7, <3>k
    <2>7. ASSUME NEW suf \in bar.newer
          PROVE  suf \in Suffixes /\ On(suf, dl) /\ Hi(RestrictTo(suf), dl) = a
      <3>1. a # 0
        BY <1>2, <2>3, <2>7 DEF CalLink
      <3>2. bar.newer = {CalSuffix(Cut(t, c)) : t \in {dl[a].time}}
        BY <1>2, <2>3, <3>1 DEF CalLink
      <3>3. a \in 1 .. n /\ a \in 1 .. a /\ (a < n => a + 1 \in 1 .. n /\ a + 1 \notin 1 .. a)
        BY <1>1, <2>5, <3>1
      <3>4. suf = CalSuffix(Cut(dl[a].time, c))
        BY <2>7, <3>2
      <3>5. a < Len(dl) => Cut(dl[a + 1].time, c) # Cut(dl[a].time, c)
        <4>1. After(dl[a].time, c)
          BY <2>5, <3>3
        <4>2. a < n => ~ After(dl[a + 1].time, c)
          BY <2>5, <3>3
        <4> QED
          BY <1>n, <4>1, <4>2 DEF After
      <3>6. a \in 1 .. Len(dl)
        BY <1>n, <3>3
      <3> QED
        BY <1>1, <3>4, <3>5, <3>6, EntryLink
    <2>8. bar.older = {} => b = n
      <3> SUFFICES ASSUME b # n PROVE CalSuffix(Cut(dl[b + 1].time, c)) \in bar.older
        OBVIOUS
      <3> QED
        BY <1>2, <2>3 DEF CalLink
    <2>9. bar.newer = {} => a = 0
      <3> SUFFICES ASSUME a # 0 PROVE CalSuffix(Cut(dl[a].time, c)) \in bar.newer
        OBVIOUS
      <3> QED
        BY <1>2, <2>3 DEF CalLink
    <2> QED
      BY <1>n, <2>4, <2>6, <2>7, <2>8, <2>9 DEF Leads, bar
  <1> QED
    BY <1>3, <1>4

LEMMA NoneLeads ==
  ASSUME NEW dl, Told(dl), NEW r, r.type = "none"
  PROVE  Leads(RangeBar(r, Hits(r, dl)), r, dl)
  <1>1. RangeBar(r, Hits(r, dl)).older = {} /\ RangeBar(r, Hits(r, dl)).newer = {}
    BY DEF RangeBar
  <1>2. Lo(r, dl) = 1 /\ Hi(r, dl) = Len(dl)
    BY Spans DEF Restricts
  <1> QED
    BY <1>1, <1>2 DEF Leads

\* The links beside a listing lead to what is beside it, and there is something there.
LEMMA BarLeads ==
  ASSUME NEW dl, Told(dl), NEW r, Restricts(r)
  PROVE  Leads(RangeBar(r, Hits(r, dl)), r, dl)
  BY LatestLeads, OldestLeads, RangeLeads, CalendarLeads, NoneLeads DEF Restricts

(* Blogs, which are clipped. *)

\* Where a clip is: at an entry of another day than the one before it.
Part(r, dl) == SubSeq(dl, Lo(r, dl), Hi(r, dl))
Clip(r, dl) == ClipDown(r, Part(r, dl), HowMany)
\* Of a page from lo to hi, of which there is some more than clip.
ClippedAt(r, dl, lo, hi, clip) ==
  /\ clip \in Nat \ {0} /\ lo \in Nat \ {0} /\ hi \in Nat /\ lo + clip <= hi /\ hi <= Len(dl)
  /\ Part(r, dl)[clip + 1] = dl[lo + clip]
  /\ Date[dl[lo + clip].time][3] # Date[dl[lo + clip - 1].time][3]
  /\ r.type = "none" \/ (r.type = "calendar" /\ Shaped(r.val) /\ Dated(r.val))

LEMMA ClipIs ==
  ASSUME NEW dl, Told(dl), NEW r, Restricts(r), Clip(r, dl) # 0
  PROVE  ClippedAt(r, dl, Lo(r, dl), Hi(r, dl), Clip(r, dl))
  <1>l. PICK lo : lo = Lo(r, dl)
    OBVIOUS
  <1>r. PICK hi : hi = Hi(r, dl)
    OBVIOUS
  <1>p. PICK part : part = SubSeq(dl, lo, hi) /\ part = Part(r, dl)
    BY <1>l, <1>r DEF Part
  <1>c. PICK clip : clip = ClipDown(r, part, HowMany) /\ clip = Clip(r, dl) /\ clip # 0
    BY <1>p DEF Clip
  <1>1. Len(dl) \in Nat /\ lo \in Nat \ {0} /\ hi \in 0 .. Len(dl)
    <2>1. Lo(r, dl) \in Nat \ {0} /\ Hi(r, dl) \in 0 .. Len(dl)
      BY Spans
    <2> QED
      BY <1>l, <1>r, <2>1, ToldIs
  <1>d. dl \in Seq(Listable)
    BY DEF Told
  <1> DEFINE mday(i) == Date[part[i].time][3]
             cuts == {i \in HowMany + 1 .. Len(part) : mday(i) # mday(HowMany)}
  <1>2. /\ Len(part) > HowMany /\ Restriction(r) \in {"none", "year", "month"} /\ cuts # {}
        /\ clip = Min(cuts) - 1
    BY <1>c DEF ClipDown
  <1>h. HowMany \in Nat \ {0}
    BY BlogAssumption
  <1>3. lo <= hi /\ Len(part) = hi - lo + 1
    <2>1. CASE lo > hi
      <3>1. lo \in Int /\ hi \in Int /\ hi < lo
        BY <1>1, <2>1
      <3>3. SubSeq(dl, lo, hi) = << >>
        BY <3>1, SubSeqEmpty
      <3>4. Len(<< >>) = 0
        OBVIOUS
      <3>2. Len(part) = 0
        BY <1>p, <3>3, <3>4, Zenon
      <3> QED
        BY <1>2, <1>h, <3>2
    <2>2. CASE lo <= hi
      <3>1. Len(part) = hi - lo + 1
        <4>1. Len(SubSeq(dl, lo, hi)) = hi - lo + 1
          BY <1>1, <1>d, <2>2
        <4> QED
          BY <1>p, <4>1
      <3> QED
        BY <2>2, <3>1
    <2> QED
      BY <1>1, <2>1, <2>2
  <1>4. \A i \in 1 .. hi - lo + 1 : part[i] = dl[lo + i - 1]
    <2>1. \A i \in 1 .. hi - lo + 1 : SubSeq(dl, lo, hi)[i] = dl[lo + i - 1]
      BY <1>1, <1>3, <1>d
    <2> QED
      BY <1>p, <2>1
  <1>5. Min(cuts) \in cuts /\ \A m \in cuts : Min(cuts) <= m
    <2>1. cuts \subseteq Nat
      BY <1>1, <1>3, <1>h
    <2> HIDE DEF cuts
    <2> QED
      BY <1>2, <2>1, LeastOf
  <1>6. PICK k : k = Min(cuts)
    OBVIOUS
  <1>7. k \in HowMany + 1 .. Len(part) /\ mday(k) # mday(HowMany)
    BY <1>5, <1>6
  <1>8. k - 1 = HowMany \/ (k - 1 \in HowMany + 1 .. Len(part) /\ k - 1 \notin cuts)
    <2> HIDE DEF cuts
    <2>1. k - 1 \notin cuts
      BY <1>1, <1>3, <1>5, <1>6, <1>7, <1>h
    <2> QED
      BY <1>1, <1>3, <1>7, <1>h, <2>1
  <1>9. mday(k - 1) = mday(HowMany)
    BY <1>8
  <1>10. clip = k - 1 /\ clip \in Nat \ {0} /\ lo + clip <= hi /\ clip + 1 = k /\ clip + 1 \in 1 .. hi - lo + 1
         /\ clip \in 1 .. hi - lo + 1 /\ lo + (clip + 1) - 1 = lo + clip
    <2>1. clip = k - 1
      BY <1>2, <1>6
    <2>2. k \in Nat /\ HowMany + 1 <= k /\ k <= hi - lo + 1 /\ lo \in Nat /\ hi \in Nat
      BY <1>1, <1>3, <1>7, <1>h
    <2> HIDE DEF cuts, mday
    <2> QED
      BY <1>h, <2>1, <2>2
  <1>11. part[clip + 1] = dl[lo + clip] /\ part[clip] = dl[lo + clip - 1]
    BY <1>4, <1>10
  <1>12. Date[dl[lo + clip].time][3] # Date[dl[lo + clip - 1].time][3]
    BY <1>7, <1>9, <1>10, <1>11
  <1>13. r.type = "none" \/ (r.type = "calendar" /\ Shaped(r.val) /\ Dated(r.val))
    BY <1>2 DEF Restriction, Restricts, Dated
  <1>14. hi \in Nat /\ hi <= Len(dl)
    BY <1>1
  <1> QED
    BY <1>1, <1>l, <1>r, <1>p, <1>c, <1>10, <1>11, <1>12, <1>13, <1>14 DEF ClippedAt

\* A day is all of a date.
LEMMA AnyDayIs ==
  /\ Shaped(AnyDay)
  /\ \A t \in DOMAIN Date : Cut(t, AnyDay) = Date[t]
  <1>1. Shaped(AnyDay)
    BY DEF AnyDay, Shaped
  <1>2. AnyDay[2] # 0 /\ AnyDay[3] # 0
    BY DEF AnyDay
  <1> QED
    BY <1>1, <1>2, DatesAre DEF Cut

\* Where a clipped blog goes on: at what is not shown; and before: at what is newer.
LEMMA ClippedLeads ==
  ASSUME NEW dl, Told(dl), NEW r, Restricts(r), NEW lo, lo = Lo(r, dl),
         NEW clip, clip = Clip(r, dl), clip # 0,
         NEW bar, bar = BlogRangeBar(r, Hits(r, dl), Part(r, dl)[clip + 1])
  PROVE  /\ bar.older # {} /\ bar.newer \subseteq Suffixes
         /\ \A suf \in bar.older \cup BlogBackMore(r, clip) :
              suf \in Suffixes /\ On(suf, dl) /\ Lo(RestrictTo(suf), dl) = lo + clip
         /\ \A suf \in bar.newer : On(suf, dl) /\ Hi(RestrictTo(suf), dl) = lo - 1
         /\ bar.newer = {} => lo = 1
  <1>c. PICK hi : hi = Hi(r, dl) /\ ClippedAt(r, dl, lo, hi, clip)
    BY ClipIs
  <1>1. /\ clip \in Nat \ {0} /\ lo \in Nat \ {0} /\ hi \in Nat /\ lo + clip <= hi /\ hi <= Len(dl)
        /\ Part(r, dl)[clip + 1] = dl[lo + clip]
        /\ Date[dl[lo + clip].time][3] # Date[dl[lo + clip - 1].time][3]
        /\ r.type = "none" \/ (r.type = "calendar" /\ Shaped(r.val) /\ Dated(r.val))
    BY <1>c DEF ClippedAt
  <1>n. PICK n : n = Len(dl)
    OBVIOUS
  <1>2. n \in Nat /\ DOMAIN dl = 1 .. n /\ \A i \in 1 .. n : dl[i].time \in DOMAIN Date
    BY <1>n, ToldIs
  <1>h. hi \in 0 .. n
    BY <1>1, <1>2, <1>n
  <1>3. /\ bar.older = {CalSuffix(Cut(dl[lo + clip].time, AnyDay))}
        /\ bar.newer = CalLink(AnyDay, IF r.type = "none" THEN None ELSE Hits(r, dl).newer)
    BY <1>1 DEF BlogRangeBar, CalendarRel, CalLink
  <1>4. ASSUME NEW suf \in bar.older
        PROVE  suf \in Suffixes /\ On(suf, dl) /\ Lo(RestrictTo(suf), dl) = lo + clip
    <2>1. PICK k : k = lo + clip
      OBVIOUS
    <2>2. k \in 1 .. n /\ k - 1 \in 1 .. n
      BY <1>1, <1>2, <1>h, <1>n, <2>1
    <2>3. Cut(dl[k - 1].time, AnyDay) # Cut(dl[k].time, AnyDay)
      BY <1>1, <1>2, <2>1, <2>2, AnyDayIs
    <2>4. suf = CalSuffix(Cut(dl[k].time, AnyDay)) /\ k \in 1 .. Len(dl) /\ Shaped(AnyDay)
      BY <1>3, <1>4, <1>n, <2>1, <2>2, AnyDayIs
    <2>5. suf \in Suffixes /\ On(suf, dl) /\ Lo(RestrictTo(suf), dl) = k
      BY <2>3, <2>4, EntryLink
    <2> QED
      BY <2>1, <2>5
  <1>5. ASSUME NEW suf \in BlogBackMore(r, clip)
        PROVE  suf \in Suffixes /\ On(suf, dl) /\ Lo(RestrictTo(suf), dl) = lo + clip
    <2>1. r.type = "none" /\ suf \in RangePrev(None, clip + 1, clip * 2)
      BY <1>5 DEF BlogBackMore
    <2>2. PICK e : e = clip * 2
      OBVIOUS
    <2>3. e \in Nat /\ clip + 1 <= e /\ e - (clip + 1) + 1 = clip /\ clip + 1 \in Nat
      <3>1. clip \in Nat \ {0}
        BY <1>1
      <3> QED
        BY <2>2, <3>1
    <2>4. RangePrev({}, clip + 1, e) = {<<"range", clip + 1, e>>}
      <3>1. ~ (e - (clip + 1) + 1 <= 0)
        BY <1>1, <2>3
      <3>2. {} # {e}
        OBVIOUS
      <3> QED
        BY <3>1, <3>2 DEF RangePrev, None
    <2>5. suf = <<"range", clip + 1, e>>
      BY <2>1, <2>2, <2>4 DEF None
    <2>6. PICK q : q = RestrictTo(suf)
      OBVIOUS
    <2>7. suf \in Suffixes /\ Restricts(q) /\ q.type = "range" /\ q.val[1] = clip + 1 /\ q.val[2] = e
      <3>1. clip + 1 # 0
        BY <1>1
      <3>2. /\ <<"range", clip + 1, e>> \in Suffixes
            /\ RestrictTo(<<"range", clip + 1, e>>).type = "range"
            /\ RestrictTo(<<"range", clip + 1, e>>).val[1] = clip + 1
            /\ RestrictTo(<<"range", clip + 1, e>>).val[2] = e
            /\ Restricts(RestrictTo(<<"range", clip + 1, e>>))
        BY <2>3, <3>1, RangeSuffix
      <3> QED
        BY <2>5, <2>6, <3>2
    <2>8. lo = 1
      BY <2>1, Spans
    <2>9. Lo(q, dl) = clip + 1 /\ (Hi(q, dl) = e \/ Hi(q, dl) = n)
      <3>1. /\ Lo(q, dl) = q.val[1]
            /\ q.val[2] < n => Hi(q, dl) = q.val[2]
            /\ q.val[2] >= n => Hi(q, dl) = n
        BY <1>n, <2>7, Spans
      <3>2. q.val[2] \in Nat
        BY <2>3, <2>7
      <3> QED
        BY <1>2, <2>3, <2>7, <3>1, <3>2
    <2>10. Lo(q, dl) <= Hi(q, dl) /\ Lo(q, dl) = lo + clip
      <3>1. lo + clip <= hi /\ hi \in Nat /\ hi <= n /\ n \in Nat /\ clip \in Nat
        BY <1>1, <1>2, <1>h
      <3> QED
        BY <2>3, <2>8, <2>9, <3>1
    <2> QED
      BY <2>6, <2>7, <2>10 DEF On
  <1>6. CASE r.type = "none"
    <2>1. bar.newer = {} /\ lo = 1
      BY <1>3, <1>6, Spans DEF CalLink, None
    <2> QED
      BY <1>3, <1>4, <1>5, <2>1
  <1>7. CASE r.type = "calendar" /\ Shaped(r.val) /\ Dated(r.val)
    <2>1. PICK a, b \in Nat : Parts(dl, r.val, a, b)
      BY <1>7, CalendarParts
    <2>2. /\ Positions(r, dl) = <<a + 1, b>>
          /\ a = 0 => Hits(r, dl).newer = {}
          /\ a # 0 => Hits(r, dl).newer = {dl[a].time}
      BY <1>7, <2>1, CalendarSpan
    <2>3. lo = a + 1
      BY <2>2 DEF Lo
    <2>4. a \in 0 .. n /\ \A i \in 1 .. n : After(dl[i].time, r.val) <=> i \in 1 .. a
      BY <1>2, <1>n, <2>1 DEF Parts
    <2>5. ASSUME NEW suf \in bar.newer
          PROVE  suf \in Suffixes /\ On(suf, dl) /\ Hi(RestrictTo(suf), dl) = lo - 1
      <3>1. a # 0
        BY <1>3, <1>7, <2>2, <2>5 DEF CalLink
      <3>2. suf = CalSuffix(Cut(dl[a].time, AnyDay))
        BY <1>3, <1>7, <2>2, <2>5, <3>1 DEF CalLink
      <3>3. a \in 1 .. n /\ a \in 1 .. a /\ (a < n => a + 1 \in 1 .. n /\ a + 1 \notin 1 .. a)
        BY <1>2, <2>4, <3>1
      <3>4. a < n => Cut(dl[a + 1].time, AnyDay) # Cut(dl[a].time, AnyDay)
        <4>1. After(dl[a].time, r.val)
          BY <2>4, <3>3
        <4>2. a < n => ~ After(dl[a + 1].time, r.val)
          BY <2>4, <3>3
        <4>3. a < n => Date[dl[a + 1].time] # Date[dl[a].time]
          BY <4>1, <4>2 DEF After, Cut
        <4> QED
          BY <1>2, <3>3, <4>3, AnyDayIs
      <3>5. a \in 1 .. Len(dl) /\ Shaped(AnyDay) /\ (a < Len(dl) => Cut(dl[a + 1].time, AnyDay) # Cut(dl[a].time, AnyDay))
        BY <1>n, <3>3, <3>4, AnyDayIs
      <3>6. suf \in Suffixes /\ On(suf, dl) /\ Hi(RestrictTo(suf), dl) = a
        BY <3>2, <3>5, EntryLink
      <3> QED
        BY <2>3, <3>6
    <2>6. bar.newer = {} => lo = 1
      <3>1. a # 0 => CalSuffix(Cut(dl[a].time, AnyDay)) \in bar.newer
        BY <1>3, <1>7, <2>2 DEF CalLink
      <3>2. bar.newer = {} => a = 0
        BY <3>1
      <3> QED
        BY <2>3, <3>2
    <2> QED
      BY <1>3, <1>4, <1>5, <2>5, <2>6
  <1> QED
    BY <1>1, <1>6, <1>7

\* A calendar that is named as the time of an entry is has that entry in it.
LEMMA WithinLink ==
  ASSUME NEW dl, Told(dl), NEW e, Shaped(e), NEW i \in DOMAIN dl, Cut(dl[i].time, e) = e
  PROVE  CalSuffix(e) \in Suffixes /\ On(CalSuffix(e), dl)
  <1>1. i \in 1 .. Len(dl)
    BY ToldIs
  <1>2. PICK suf : suf = CalSuffix(Cut(dl[i].time, e))
    OBVIOUS
  <1>3. suf \in Suffixes /\ On(suf, dl)
    BY <1>1, <1>2, EntryLink
  <1> QED
    BY <1>2, <1>3
LEMMA TimesLink ==
  ASSUME NEW dl, Told(dl), NEW c, Shaped(c), NEW times, \A t \in times : \E i \in DOMAIN dl : t = dl[i].time,
         NEW suf \in CalLink(c, times)
  PROVE  suf \in Suffixes /\ On(suf, dl)
  <1>1. PICK t \in times : suf = CalSuffix(Cut(t, c))
    BY DEF CalLink
  <1>2. PICK i \in DOMAIN dl : t = dl[i].time
    OBVIOUS
  <1>3. i \in 1 .. Len(dl) /\ suf = CalSuffix(Cut(dl[i].time, c))
    BY <1>1, <1>2, ToldIs
  <1> QED
    BY <1>3, EntryLink

\* What is outside of a calendar are times of entries.
LEMMA OutsideIs ==
  ASSUME NEW dl, Told(dl), NEW c
  PROVE  \A t \in Outside(dl, c).older \cup Outside(dl, c).newer : \E i \in DOMAIN dl : t = dl[i].time
  <1> DEFINE newer == {i \in DOMAIN dl : After(dl[i].time, c)}
             older == {i \in DOMAIN dl : Before(dl[i].time, c)}
  <1>1. /\ Outside(dl, c).newer = IF newer = {} THEN {} ELSE {dl[Max(newer)].time}
        /\ Outside(dl, c).older = IF older = {} THEN {} ELSE {dl[Min(older)].time}
    BY DEF Outside, None
  <1>2. Len(dl) \in Nat /\ DOMAIN dl = 1 .. Len(dl)
    BY ToldIs
  <1>3. newer \subseteq DOMAIN dl /\ older \subseteq DOMAIN dl
    OBVIOUS
  <1> HIDE DEF newer, older
  <1>4. newer # {} => Max(newer) \in DOMAIN dl
    <2>1. newer \subseteq 1 .. Len(dl)
      BY <1>2, <1>3
    <2> QED
      BY <1>2, <1>3, <2>1, GreatestOf
  <1>5. older # {} => Min(older) \in DOMAIN dl
    <2>1. older \subseteq Nat
      BY <1>2, <1>3
    <2> QED
      BY <1>3, <2>1, LeastOf
  <1> QED
    BY <1>1, <1>4, <1>5

\* A calendar's bar links to nothing that is empty.
LEMMA CalBarLinks ==
  ASSUME NEW dl, Told(dl), NEW c, Shaped(c), NEW suf \in CalBar(dl, c)
  PROVE  suf \in Suffixes /\ On(suf, dl)
  <1>b. PICK bar : bar = {e \in GenScope(c) : EntriesIn(dl, e) # {}}
    OBVIOUS
  <1>s. PICK scope : scope = <<c[1], c[2], 0>>
    OBVIOUS
  <1>y. PICK year : year = <<c[1], 0, 0>>
    OBVIOUS
  <1>1. /\ bar # {}
        /\ \/ \E e \in bar : suf = CalSuffix(e)
           \/ suf = CalSuffix(scope)
           \/ suf = CalSuffix(year)
           \/ suf \in CalLink(c, Outside(dl, scope).older)
           \/ suf \in CalLink(c, Outside(dl, scope).newer)
    BY <1>b, <1>s, <1>y DEF CalBar
  <1>2. c[1] \in Nat \ {0} /\ c[2] \in Nat /\ Shaped(scope) /\ Shaped(year)
    BY <1>s, <1>y DEF Shaped
  <1>3. \A e \in bar : /\ Shaped(e) /\ e[1] = c[1]
                       /\ c[2] # 0 => e[2] = c[2] /\ e[3] # 0
                       /\ \E i \in DOMAIN dl : Cut(dl[i].time, e) = e
    <2> SUFFICES ASSUME NEW e \in bar
                 PROVE  /\ Shaped(e) /\ e[1] = c[1]
                        /\ c[2] # 0 => e[2] = c[2] /\ e[3] # 0
                        /\ \E i \in DOMAIN dl : Cut(dl[i].time, e) = e
      OBVIOUS
    <2>1. e \in GenScope(c) /\ \E i \in DOMAIN dl : Cut(dl[i].time, e) = e
      BY <1>b DEF EntriesIn, Within
    <2>2. CASE c[2] # 0
      <3>1. e \in (Nat \ {0}) \X (1 .. 12) \X (1 .. 31) /\ e[1] = c[1] /\ e[2] = c[2]
        BY <2>1, <2>2, DateAssumption DEF GenScope
      <3>2. Shaped(e) /\ e[3] # 0
        BY <3>1 DEF Shaped
      <3> QED
        BY <2>1, <3>1, <3>2
    <2>3. CASE c[2] = 0
      <3>1. PICK m \in 1 .. 12 : e = <<c[1], m, 0>>
        BY <2>1, <2>3 DEF GenScope
      <3>2. Shaped(e) /\ e[1] = c[1]
        BY <1>2, <3>1 DEF Shaped
      <3> QED
        BY <2>1, <2>3, <3>2
    <2> QED
      BY <2>2, <2>3
  <1>4. PICK e \in bar : TRUE
    BY <1>1
  <1>5. PICK i \in DOMAIN dl : Cut(dl[i].time, e) = e
    BY <1>3
  <1>6. Date[dl[i].time][1] = c[1] /\ (c[2] # 0 => Date[dl[i].time][2] = c[2])
    <2>1. e[1] = Date[dl[i].time][1]
      BY <1>5 DEF Cut
    <2>2. c[2] # 0 => e[2] = Date[dl[i].time][2]
      <3>1. c[2] # 0 => e[2] # 0
        BY <1>3
      <3> QED
        BY <1>5, <3>1 DEF Cut
    <2> QED
      BY <1>3, <2>1, <2>2
  <1>7. Cut(dl[i].time, scope) = scope /\ Cut(dl[i].time, year) = year
    BY <1>2, <1>6, <1>s, <1>y DEF Cut
  <1>8. ASSUME NEW e2 \in bar, suf = CalSuffix(e2) PROVE suf \in Suffixes /\ On(suf, dl)
    <2>1. PICK i2 \in DOMAIN dl : Cut(dl[i2].time, e2) = e2
      BY <1>3
    <2>2. Shaped(e2)
      BY <1>3
    <2> QED
      BY <1>8, <2>1, <2>2, WithinLink
  <1>9. CASE suf = CalSuffix(scope) \/ suf = CalSuffix(year)
    BY <1>2, <1>7, <1>9, WithinLink
  <1>10. CASE suf \in CalLink(c, Outside(dl, scope).older)
    <2>1. \A t \in Outside(dl, scope).older : \E j \in DOMAIN dl : t = dl[j].time
      BY OutsideIs
    <2> QED
      BY <1>10, <2>1, TimesLink
  <1>11. CASE suf \in CalLink(c, Outside(dl, scope).newer)
    <2>1. \A t \in Outside(dl, scope).newer : \E j \in DOMAIN dl : t = dl[j].time
      BY OutsideIs
    <2> QED
      BY <1>11, <2>1, TimesLink
  <1> QED
    BY <1>1, <1>8, <1>9, <1>10, <1>11

\* The other shapes that there are.
LEMMA ShapesAre ==
  /\ Shaped(AnyDay) /\ Shaped(<<1, 1, 0>>) /\ Shaped(<<1, 0, 0>>)
  /\ \A t \in DOMAIN Date : Shaped(Date[t])
  <1>1. Shaped(AnyDay) /\ Shaped(<<1, 1, 0>>) /\ Shaped(<<1, 0, 0>>)
    BY DEF Shaped, AnyDay
  <1>2. ASSUME NEW t \in DOMAIN Date PROVE Shaped(Date[t])
    <2>1. Date[t] \in (Nat \ {0}) \X (1 .. 12) \X (1 .. 31)
      BY DateAssumption
    <2> QED
      BY <2>1 DEF Shaped
  <1> QED
    BY <1>1, <1>2

(* A listing, as what it says of the list that it is of. *)

Ways(page, dl) ==
  /\ page.size = Len(dl)
  /\ page.older \cup page.newer \cup page.other \subseteq Suffixes
  /\ Inside(page) =>
       /\ \A suf \in page.older : On(suf, dl) /\ Lo(RestrictTo(suf), dl) = page.hi + 1
       /\ \A suf \in page.newer : On(suf, dl) /\ Hi(RestrictTo(suf), dl) = page.lo - 1
       /\ page.older = {} => page.hi = page.size
       /\ page.newer = {} => page.lo = 1
  /\ \A suf \in page.other : On(suf, dl)

\* The links of a list that was not counted: there are none inside of it.
LEMMA UncountedLeads ==
  ASSUME NEW dl, Told(dl), dl = <<>>, NEW r, Restricts(r)
  PROVE  Leads(UncountedBar(r), r, dl)
  <1>n. Len(dl) = 0
    OBVIOUS
  <1>1. CASE r.type = "none" \/ r.type = "oldest"
    <2>1. UncountedBar(r).older = {} /\ UncountedBar(r).newer = {}
      BY <1>1 DEF UncountedBar
    <2>2. IsIn(r, dl) => FALSE
      BY <1>1, <1>n, Spans DEF IsIn
    <2> QED
      BY <2>1, <2>2 DEF Leads
  <1>2. CASE r.type = "latest"
    <2>1. PICK k : k = r.val[1]
      OBVIOUS
    <2>2. k \in Nat /\ UncountedBar(r).older = RangePrev(None, k + 1, k * 2) /\ UncountedBar(r).newer = {}
      BY <1>2, <2>1 DEF UncountedBar, Restricts
    <2>3. PICK e : e = k * 2
      OBVIOUS
    <2>4. e \in Nat
      BY <2>2, <2>3
    <2>5. RangePrev(None, k + 1, e) \subseteq {<<"range", k + 1, e>>}
      <3>1. {} # {e}
        OBVIOUS
      <3> QED
        BY <3>1 DEF RangePrev, None
    <2>6. <<"range", k + 1, e>> \in Suffixes
      <3>1. k + 1 \in Nat
        BY <2>2
      <3> QED
        BY <2>4, <3>1, RangeSuffix
    <2>7. IsIn(r, dl) => FALSE
      <3>1. Lo(r, dl) = 1 /\ Hi(r, dl) \in 0 .. 0
        BY <1>2, <1>n, Spans
      <3> QED
        BY <1>2, <3>1 DEF IsIn
    <2> QED
      BY <2>2, <2>3, <2>5, <2>6, <2>7 DEF Leads
  <1>3. CASE r.type = "range"
    <2>1. PICK m, k : m = r.val[1] /\ k = r.val[2]
      OBVIOUS
    <2>2. m \in Nat \ {0} /\ k \in Nat /\ m <= k
      BY <1>3, <2>1 DEF Restricts
    <2>3. PICK e : e = k + k - m + 1
      OBVIOUS
    <2>4. /\ UncountedBar(r).older = RangePrev(None, k + 1, e)
          /\ UncountedBar(r).newer = RangeRel(m, k, 0).newer
      BY <1>3, <2>1, <2>3 DEF UncountedBar
    <2>5. e \in Nat /\ k + 1 \in Nat
      BY <2>2, <2>3
    <2>6. RangePrev(None, k + 1, e) \subseteq {<<"range", k + 1, e>>}
      <3>1. {} # {e}
        OBVIOUS
      <3> QED
        BY <3>1 DEF RangePrev, None
    <2>7. <<"range", k + 1, e>> \in Suffixes
      BY <2>5, RangeSuffix
    <2>8. RangeRel(m, k, 0).newer \subseteq Suffixes
      <3>1. PICK s : s = Max({m - (k - m + 1), 1})
        OBVIOUS
      <3>2. RangeRel(m, k, 0).newer = IF m > 1 THEN {GenRange(s, m - 1)} ELSE {}
        BY <3>1 DEF RangeRel
      <3>3. s \in {m - (k - m + 1), 1} /\ 1 <= s
        <4>1. m - (k - m + 1) \in Int /\ 1 \in Int
          BY <2>2
        <4> QED
          BY <3>1, <4>1, MaxOfTwo
      <3>4. m > 1 => s \in Nat \ {0} /\ m - 1 \in Int /\ m - 1 >= 0
        BY <2>2, <3>3
      <3> QED
        BY <3>2, <3>4, GenRangeLeads
    <2>9. IsIn(r, dl) => FALSE
      <3>1. Lo(r, dl) = m /\ Hi(r, dl) \in 0 .. 0
        BY <1>3, <1>n, <2>1, Spans
      <3> QED
        BY <1>3, <2>2, <3>1 DEF IsIn
    <2> QED
      BY <2>4, <2>6, <2>7, <2>8, <2>9 DEF Leads
  <1>4. CASE r.type = "calendar"
    <2>1. UncountedBar(r).older = {} /\ UncountedBar(r).newer = {}
      BY <1>4 DEF UncountedBar
    <2>2. Hi(r, dl) \in 0 .. 0
      BY <1>n, Spans
    <2>3. Lo(r, dl) = 1
      <3>1. CASE ~ Dated(r.val)
        BY <1>4, <3>1, Spans
      <3>2. CASE Dated(r.val)
        <4>1. Shaped(r.val)
          BY <1>4 DEF Restricts
        <4>2. PICK a, b \in Nat : Parts(dl, r.val, a, b)
          BY <4>1, CalendarParts
        <4>3. Positions(r, dl) = <<a + 1, b>>
          BY <1>4, <3>2, <4>1, <4>2, CalendarSpan
        <4>4. a = 0
          <5>1. a <= b /\ b <= Len(dl)
            BY <4>2 DEF Parts
          <5> QED
            BY <1>n, <5>1
        <4> QED
          BY <4>3, <4>4 DEF Lo
      <3> QED
        BY <3>1, <3>2
    <2> QED
      BY <1>n, <2>1, <2>2, <2>3 DEF Leads
  <1> QED
    BY <1>1, <1>2, <1>3, <1>4 DEF Restricts

LEMMA ListingIs ==
  ASSUME NEW view \in Views, NEW dl, dl = ListOf(view), Told(dl), NEW r, Restricts(r), NEW from, NEW who,
         view = "blogdir" => \A i \in DOMAIN dl : dl[i].path \in Real,
         NEW page, page = Listing(view, r, who, from)
  PROVE  /\ page.kind = "listing" /\ page.view = view /\ page.r = r /\ page.from = from
         /\ page.lo = Lo(r, dl) /\ page.end = Hi(r, dl)
         /\ Lo(r, dl) <= Hi(r, dl) => IsSomewhere(page)
         /\ Ways(page, dl)
  <1>c. PICK clip : clip = IF view = "blog" THEN Clip(r, dl) ELSE 0
    OBVIOUS
  <1>r. PICK rest : rest = Part(r, dl)[clip + 1]
    OBVIOUS
  <1>b. PICK bar : bar = IF clip # 0 THEN BlogRangeBar(r, Hits(r, dl), rest)
                         ELSE IF view = "blogdir" /\ dl = <<>> THEN UncountedBar(r)
                         ELSE RangeBar(r, Hits(r, dl))
    OBVIOUS
  <1>i. PICK high : high = IF clip # 0 THEN Lo(r, dl) + clip - 1 ELSE Hi(r, dl)
    OBVIOUS
  <1>e. PICK listed : listed = {dl[i].path : i \in Lo(r, dl) .. high}
    OBVIOUS
  <1>a. PICK calendar : calendar = IF r.type = "calendar" THEN CalBar(PageKids, r.val)
                                   ELSE IF clip # 0 THEN CalBar(PageKids, Date[PageKids[1].time]) ELSE {}
    OBVIOUS
  <1>p. page = [kind |-> "listing", view |-> view, r |-> r, who |-> who, size |-> Len(dl),
                lo |-> Lo(r, dl), hi |-> high, end |-> Hi(r, dl),
                listed |-> listed, shown |-> {f \in listed : Shows(view, f, who)},
                older |-> bar.older \cup IF clip # 0 THEN BlogBackMore(r, clip) ELSE {},
                newer |-> bar.newer,
                other |-> IF view # "blog" THEN {}
                          ELSE calendar \cup IF clip # 0 THEN CutOff(rest) \cup MonthCutOff(rest) ELSE {},
                from |-> from]
    BY <1>c, <1>r, <1>b, <1>i, <1>e, <1>a DEF Listing, Lo, Hi, Part, Clip
  <1>l. PICK lo : lo = Lo(r, dl)
    OBVIOUS
  <1>h. PICK hi : hi = Hi(r, dl)
    OBVIOUS
  <1>n. PICK n : n = Len(dl)
    OBVIOUS
  <1>1. n \in Nat /\ lo \in Nat \ {0} /\ hi \in 0 .. n
    <2>1. Lo(r, dl) \in Nat \ {0} /\ Hi(r, dl) \in 0 .. n
      BY <1>n, Spans
    <2> QED
      BY <1>l, <1>h, <1>n, <2>1, ToldIs
  <1>2. /\ page.kind = "listing" /\ page.view = view /\ page.r = r /\ page.from = from /\ page.size = n
        /\ page.lo = lo /\ page.end = hi /\ page.newer = bar.newer
        /\ clip = 0 => page.hi = hi /\ page.older = bar.older
        /\ clip # 0 => page.hi = lo + clip - 1 /\ page.older = bar.older \cup BlogBackMore(r, clip)
        /\ view # "blog" => page.other = {}
        /\ view = "blog" /\ clip = 0 => page.other = calendar
        /\ view = "blog" /\ clip # 0 => page.other = calendar \cup CutOff(rest) \cup MonthCutOff(rest)
    BY <1>p, <1>i, <1>l, <1>h, <1>n
  <1>3. clip # 0 => view = "blog" /\ ClippedAt(r, dl, lo, hi, clip)
    <2> SUFFICES ASSUME clip # 0 PROVE view = "blog" /\ ClippedAt(r, dl, lo, hi, clip)
      OBVIOUS
    <2>1. clip = Clip(r, dl) /\ view = "blog"
      BY <1>c
    <2> QED
      BY <1>l, <1>h, <2>1, ClipIs
  <1>4. lo <= hi => page.lo <= page.hi
    <2>1. CASE clip = 0
      BY <1>2, <2>1
    <2>2. CASE clip # 0
      <3>1. clip \in Nat \ {0}
        BY <1>3, <2>2 DEF ClippedAt
      <3> QED
        BY <1>1, <1>2, <2>2, <3>1
    <2> QED
      BY <2>1, <2>2
  <1>5. Inside(page) /\ clip = 0 => IsIn(r, dl)
    BY <1>2, <1>l, <1>h, <1>n DEF Inside, IsIn
  <1>6. ASSUME clip = 0
        PROVE  /\ page.older \cup page.newer \subseteq Suffixes
               /\ Inside(page) =>
                    /\ \A suf \in page.older : On(suf, dl) /\ Lo(RestrictTo(suf), dl) = page.hi + 1
                    /\ \A suf \in page.newer : On(suf, dl) /\ Hi(RestrictTo(suf), dl) = page.lo - 1
                    /\ page.older = {} => page.hi = page.size
                    /\ page.newer = {} => page.lo = 1
    <2>1. bar = RangeBar(r, Hits(r, dl)) \/ (dl = <<>> /\ bar = UncountedBar(r))
      BY <1>6, <1>b
    <2>2. Leads(bar, r, dl)
      BY <2>1, BarLeads, UncountedLeads
    <2> QED
      BY <1>2, <1>5, <1>6, <1>l, <1>h, <1>n, <2>2 DEF Leads
  <1>7. ASSUME clip # 0
        PROVE  /\ page.older \cup page.newer \subseteq Suffixes
               /\ \A suf \in page.older : On(suf, dl) /\ Lo(RestrictTo(suf), dl) = page.hi + 1
               /\ \A suf \in page.newer : On(suf, dl) /\ Hi(RestrictTo(suf), dl) = page.lo - 1
               /\ page.older # {}
               /\ page.newer = {} => page.lo = 1
    <2>1. clip = Clip(r, dl) /\ bar = BlogRangeBar(r, Hits(r, dl), Part(r, dl)[clip + 1])
      BY <1>7, <1>c, <1>b, <1>r
    <2>2. /\ bar.older # {} /\ bar.newer \subseteq Suffixes
          /\ \A suf \in bar.older \cup BlogBackMore(r, clip) :
               suf \in Suffixes /\ On(suf, dl) /\ Lo(RestrictTo(suf), dl) = lo + clip
          /\ \A suf \in bar.newer : On(suf, dl) /\ Hi(RestrictTo(suf), dl) = lo - 1
          /\ bar.newer = {} => lo = 1
      BY <1>7, <1>l, <2>1, ClippedLeads
    <2>3. clip \in Nat
      BY <1>3, <1>7 DEF ClippedAt
    <2>4. page.hi + 1 = lo + clip
      BY <1>1, <1>2, <1>7, <2>3
    <2> QED
      BY <1>2, <1>7, <2>2, <2>4
  <1>8. \A suf \in page.other : suf \in Suffixes /\ On(suf, dl)
    <2> SUFFICES ASSUME view = "blog", NEW suf \in page.other PROVE suf \in Suffixes /\ On(suf, dl)
      BY <1>2
    <2>1. dl = PageKids
      BY DEF ListOf
    <2>2. ASSUME suf \in calendar PROVE suf \in Suffixes /\ On(suf, dl)
      <3>1. CASE r.type = "calendar"
        <4>1. suf \in CalBar(dl, r.val) /\ Shaped(r.val)
          BY <1>a, <2>1, <2>2, <3>1 DEF Restricts
        <4> QED
          BY <4>1, CalBarLinks
      <3>2. CASE r.type # "calendar"
        <4>1. clip # 0 /\ suf \in CalBar(dl, Date[dl[1].time])
          BY <1>a, <2>1, <2>2, <3>2
        <4>2. 1 \in 1 .. Len(dl)
          <5>1. lo + clip <= hi /\ clip \in Nat \ {0}
            BY <1>3, <4>1 DEF ClippedAt
          <5> QED
            BY <1>1, <1>n, <5>1
        <4>3. dl[1].time \in DOMAIN Date
          BY <4>2, ToldIs
        <4>4. Shaped(Date[dl[1].time])
          BY <4>3, ShapesAre
        <4> QED
          BY <4>1, <4>4, CalBarLinks
      <3> QED
        BY <3>1, <3>2
    <2>3. ASSUME clip # 0, suf \in CutOff(rest) \cup MonthCutOff(rest) PROVE suf \in Suffixes /\ On(suf, dl)
      <3>1. clip = Clip(r, dl) /\ ClippedAt(r, dl, lo, hi, clip)
        BY <1>3, <1>c, <2>3
      <3>2. PICK k : k = lo + clip
        OBVIOUS
      <3>3. k \in DOMAIN dl /\ rest = dl[k]
        <4>1. lo + clip <= hi /\ clip \in Nat /\ Part(r, dl)[clip + 1] = dl[lo + clip]
          BY <3>1 DEF ClippedAt
        <4>2. k \in 1 .. n
          BY <1>1, <3>2, <4>1
        <4>3. DOMAIN dl = 1 .. n
          BY <1>n, ToldIs
        <4> QED
          BY <1>r, <3>2, <4>1, <4>2, <4>3
      <3>4. \A t \in {rest.time} : \E i \in DOMAIN dl : t = dl[i].time
        BY <3>3
      <3>5. PICK c \in {AnyDay, <<1, 1, 0>>, <<1, 0, 0>>} : suf \in CalLink(c, {rest.time})
        BY <2>3 DEF CutOff, MonthCutOff
      <3>6. Shaped(c)
        BY ShapesAre
      <3> QED
        BY <3>4, <3>5, <3>6, TimesLink
    <2> QED
      BY <1>2, <2>2, <2>3
  <1>9. Ways(page, dl)
    <2>1. CASE clip = 0
      BY <1>2, <1>6, <1>8, <1>n, <2>1 DEF Ways
    <2>2. CASE clip # 0
      BY <1>2, <1>7, <1>8, <1>n, <2>2 DEF Ways
    <2> QED
      BY <2>1, <2>2
  <1>10. page.shown = {} => \A f \in page.listed : Skipped(f, page)
    <2> SUFFICES ASSUME page.shown = {}, NEW f \in page.listed PROVE Skipped(f, page)
      OBVIOUS
    <2>1. page.listed = listed /\ page.shown = {g \in listed : Shows(view, g, who)} /\ page.who = who
      BY <1>p
    <2>2. ~ Shows(view, f, who)
      BY <2>1
    <2>3. view # "blogdir"
      <3>1. PICK i \in lo .. high : f = dl[i].path
        BY <1>e, <1>l, <2>1
      <3>2. high <= hi
        <4>1. CASE clip = 0
          BY <1>1, <1>i, <1>h, <4>1
        <4>2. CASE clip # 0
          <5>1. clip \in Nat /\ lo + clip <= hi /\ high = lo + clip - 1
            BY <1>3, <1>i, <1>l, <4>2 DEF ClippedAt
          <5> QED
            BY <1>1, <5>1
        <4> QED
          BY <4>1, <4>2
      <3>3. high \in Int
        <4>1. CASE clip = 0
          BY <1>1, <1>i, <1>h, <4>1
        <4>2. CASE clip # 0
          BY <1>1, <1>3, <1>i, <1>l, <4>2 DEF ClippedAt
        <4> QED
          BY <4>1, <4>2
      <3>4. i \in DOMAIN dl
        <4>1. i \in 1 .. n
          BY <1>1, <3>2, <3>3
        <4> QED
          BY <1>n, <4>1, ToldIs
      <3>5. view = "blogdir" => Shows(view, f, who)
        BY <3>1, <3>4 DEF Shows
      <3> QED
        BY <2>2, <3>5
    <2> QED
      BY <1>2, <2>1, <2>2, <2>3 DEF Skipped, Shows
  <1>11. lo <= hi => IsSomewhere(page)
    BY <1>2, <1>4, <1>10 DEF IsSomewhere
  <1> QED
    BY <1>2, <1>9, <1>11, <1>l, <1>h

(* What the lists of a behaviour are. *)

Dating ==
  /\ visits \in Visits /\ FirstClock <= clock
  /\ \A f \in Files : disk[f].mtime \in {0} \cup DOMAIN Date
KidsTold == \A e \in kids : Told(e.list)
\* The links before a reader are to what is there.
SeenTrue ==
  /\ seen.kind = "listing" => seen.view \in Views /\ Ways(seen, ListOf(seen.view))
  /\ seen.kind = "entry" => \A suf \in seen.crumbs : suf \in Suffixes /\ (~ OnDisk => On(suf, PageKids))
WInv == IInv /\ Dating /\ KidsTold /\ SeenTrue /\ Continues

LEMMA ListedIsTold ==
  ASSUME IInv, Dating, NEW fs, fs \subseteq There
  PROVE  Told(Listed(fs))
  <1>1. /\ \E n \in Nat : DOMAIN Listed(fs) = 1 .. n
        /\ \A i \in DOMAIN Listed(fs) : /\ Listed(fs)[i].path \in fs
                                         /\ Listed(fs)[i].time = disk[Listed(fs)[i].path].mtime
        /\ \A i, j \in DOMAIN Listed(fs) : i < j => NewestFirst(Listed(fs)[i], Listed(fs)[j])
        /\ Listed(fs) \in Seq(Entries)
    BY ListedIs
  <1>2. PICK dl : dl = Listed(fs)
    OBVIOUS
  <1>3. \A i \in DOMAIN dl : dl[i].time \in DOMAIN Date
    BY <1>1, <1>2 DEF There, Dating
  <1>4. dl \in Seq(Entries) /\ Len(dl) \in Nat /\ DOMAIN dl = 1 .. Len(dl)
    BY <1>1, <1>2, LenProperties
  <1>5. \A i \in 1 .. Len(dl) : dl[i] \in Entries
    BY <1>4, ElementOfSeq
  <1>6. \A i \in 1 .. Len(dl) : dl[i] \in Listable
    BY <1>3, <1>4, <1>5 DEF Entries, Listable
  <1>7. dl = [i \in 1 .. Len(dl) |-> dl[i]]
    BY <1>4
  <1>8. dl \in Seq(Listable)
    BY <1>4, <1>6, <1>7
  <1>9. \A i, j \in DOMAIN dl : i < j => dl[j].time <= dl[i].time
    <2> SUFFICES ASSUME NEW i \in DOMAIN dl, NEW j \in DOMAIN dl, i < j PROVE dl[j].time <= dl[i].time
      OBVIOUS
    <2>1. NewestFirst(dl[i], dl[j])
      BY <1>1, <1>2
    <2>2. dl[i].time \in Nat /\ dl[j].time \in Nat
      BY <1>4, <1>5 DEF Entries
    <2> QED
      BY <2>1, <2>2 DEF NewestFirst
  <1> QED
    BY <1>2, <1>8, <1>9 DEF Told

LEMMA ListsAreTold ==
  ASSUME IInv, Dating, KidsTold
  PROVE  /\ Told(Fresh) /\ Told(PageKids) /\ \A view \in Views : Told(ListOf(view))
         /\ \A i \in DOMAIN ListOf("blogdir") : ListOf("blogdir")[i].path \in Real
  <1>1. Told(Fresh)
    BY ListedIsTold DEF Fresh
  <1>2. Told(PageKids)
    <2>1. CASE OnDisk /\ Fetched(kids) # None
      <3>1. PICK e \in Fetched(kids) : PageKids = e.list
        BY <2>1 DEF PageKids, None
      <3>2. e \in kids
        BY DEF Fetched
      <3> QED
        BY <3>1, <3>2 DEF KidsTold
    <2>2. CASE ~ (OnDisk /\ Fetched(kids) # None)
      BY <1>1, <2>2 DEF PageKids
    <2> QED
      BY <2>1, <2>2
  <1>3. {f \in Real : DirOf[f] = BlogDir} \subseteq There
    BY DEF Real
  <1>4. Told(Listed({f \in Real : DirOf[f] = BlogDir}))
    BY <1>3, ListedIsTold
  <1>5. \A i \in DOMAIN ListOf("blogdir") : ListOf("blogdir")[i].path \in {f \in Real : DirOf[f] = BlogDir}
    BY <1>3, ListedIs DEF ListOf
  <1> QED
    BY <1>1, <1>2, <1>4, <1>5 DEF ListOf

\* A page that leaves its list in the cache is of the same list as the next one.
LEMMA ListsStay ==
  ASSUME IInv, UNCHANGED site, kids' = KidsKept \/ kids' = kids
  PROVE  PageKids' = PageKids /\ \A view \in Views : ListOf(view)' = ListOf(view)
  <1>1. clock' = clock /\ caching' = caching /\ disk' = disk /\ dirTime' = dirTime
    BY DEF site
  <1>2. Fresh' = Fresh
    BY <1>1 DEF Fresh, Listed, There
  <1>3. OnDisk' = OnDisk
    BY <1>1 DEF OnDisk
  <1>4. Fetched(kids)' = {e \in kids' : Alive(e) /\ Verified(e)}
    BY <1>1 DEF Fetched, Alive, Verified
  <1>5. PageKids' = PageKids
    <2>1. CASE kids' = kids
      <3>1. Fetched(kids)' = Fetched(kids)
        BY <1>4, <2>1 DEF Fetched
      <3> QED
        BY <1>2, <1>3, <3>1 DEF PageKids
    <2>2. CASE kids' # kids
      <3>1. kids' = {Entry(Fresh)} /\ OnDisk /\ Fetched(kids) = None
        BY <2>2 DEF KidsKept
      <3>2. PageKids = Fresh
        BY <3>1 DEF PageKids
      <3>3. Alive(Entry(Fresh))
        BY Clockwork DEF Alive, Entry
      <3>4. Verified(Entry(Fresh))
        BY DEF Verified, Entry, DirTimes
      <3>5. Fetched(kids)' = {Entry(Fresh)}
        BY <1>4, <3>1, <3>3, <3>4
      <3>6. PageKids' = Entry(Fresh).list
        <4>1. PageKids' = IF OnDisk' /\ Fetched(kids)' # {} THEN (CHOOSE e \in Fetched(kids)' : TRUE).list ELSE Fresh'
          BY DEF PageKids, None
        <4>2. {Entry(Fresh)} # {} /\ (CHOOSE e \in {Entry(Fresh)} : TRUE) = Entry(Fresh)
          OBVIOUS
        <4> QED
          BY <1>3, <3>1, <3>5, <4>1, <4>2
      <3> QED
        BY <3>2, <3>6 DEF Entry
    <2> QED
      BY <2>1, <2>2
  <1>6. ASSUME NEW view \in Views PROVE ListOf(view)' = ListOf(view)
    BY <1>1, <1>5 DEF ListOf, Listed, Real, There
  <1> QED
    BY <1>5, <1>6

LEMMA KidsStayTold ==
  ASSUME IInv, Dating, KidsTold, kids' = KidsKept \/ kids' = kids
  PROVE  KidsTold'
  <1>1. kids' = kids \/ kids' = {Entry(Fresh)}
    BY DEF KidsKept
  <1>2. Entry(Fresh).list = Fresh /\ Told(Fresh)
    BY ListsAreTold DEF Entry
  <1> QED
    BY <1>1, <1>2 DEF KidsTold

(* The steps. *)

\* A listing that a reader comes to.
LEMMA ListingContinues ==
  ASSUME WInv, UNCHANGED site, NEW view \in Views, kids' = KidsKept \/ kids' = kids,
         NEW r, Restricts(r), NEW from, NEW who, seen' = Listing(view, r, who, from), NEW dl, dl = ListOf(view),
         \A was \in from :
           /\ was.way = "crumb" => OnDisk \/ Lo(r, dl) <= Hi(r, dl)
           /\ was.way = "older" => (Inside(was) => Lo(r, dl) = was.hi + 1 /\ Lo(r, dl) <= Hi(r, dl))
           /\ was.way = "newer" => (Inside(was) => Hi(r, dl) = was.lo - 1 /\ Lo(r, dl) <= Hi(r, dl))
           /\ was.way = "other" => Lo(r, dl) <= Hi(r, dl)
           /\ was.way \in {"crumb", "older", "newer", "other"}
  PROVE  Dating' /\ KidsTold' /\ SeenTrue' /\ Continues'
  <1>1. Dating' /\ OnDisk' = OnDisk
    BY DEF WInv, Dating, site, OnDisk
  <1>2. KidsTold'
    BY KidsStayTold DEF WInv
  <1>3. Told(dl) /\ ListOf(view)' = dl /\ (view = "blogdir" => \A i \in DOMAIN dl : dl[i].path \in Real)
    BY ListsAreTold, ListsStay DEF WInv
  <1>4. PICK page : page = seen'
    OBVIOUS
  <1>5. /\ page.kind = "listing" /\ page.view = view /\ page.r = r /\ page.from = from
        /\ page.lo = Lo(r, dl) /\ page.end = Hi(r, dl)
        /\ Lo(r, dl) <= Hi(r, dl) => IsSomewhere(page)
        /\ Ways(page, dl)
    BY <1>3, <1>4, ListingIs
  <1>6. SeenTrue'
    BY <1>3, <1>4, <1>5 DEF SeenTrue
  <1>7. Continues'
    <2>1. /\ Inside(page) /\ page.older = {} => page.hi = page.size
          /\ Inside(page) /\ page.newer = {} => page.lo = 1
      BY <1>5 DEF Ways
    <2>2. ASSUME NEW was \in page.from
          PROVE  /\ was.way = "crumb" => OnDisk \/ IsSomewhere(page)
                 /\ was.way = "older" /\ Inside(was) => IsSomewhere(page) /\ page.lo = was.hi + 1
                 /\ was.way = "newer" /\ Inside(was) => IsSomewhere(page) /\ page.end = was.lo - 1
                 /\ was.way = "other" => IsSomewhere(page)
      BY <1>5, <2>2
    <2>3. IsSomewhere(page) => IsSomewhere(seen)'
      <3>1. Real' = Real /\ \A f, w : AccessOk(f, w)' = AccessOk(f, w)
        BY DEF site, Real, There, AccessOk
      <3>2. \A f : Skipped(f, page) => Skipped(f, seen)'
        BY <1>4, <3>1 DEF Skipped
      <3> QED
        BY <1>4, <3>2 DEF IsSomewhere
    <2>4. ASSUME NEW was \in page.from
          PROVE  /\ was.way = "crumb" => OnDisk \/ IsSomewhere(seen)'
                 /\ was.way = "older" /\ Inside(was) => IsSomewhere(seen)' /\ page.lo = was.hi + 1
                 /\ was.way = "newer" /\ Inside(was) => IsSomewhere(seen)' /\ page.end = was.lo - 1
                 /\ was.way = "other" => IsSomewhere(seen)'
      <3>1. was.way \in {"crumb", "older", "newer", "other"}
        BY <1>5, <2>4
      <3> QED
        BY <2>2, <2>3, <2>4, <3>1
    <2> QED
      BY <1>1, <1>4, <1>5, <2>1, <2>4 DEF Continues
  <1> QED
    BY <1>1, <1>2, <1>6, <1>7

\* And a page that is missing.
LEMMA MissingContinues ==
  ASSUME WInv, UNCHANGED <<site, kids>>, NEW from, seen' = [kind |-> "missing", from |-> from],
         \A was \in from : \/ was.way = "crumb" /\ OnDisk
                           \/ was.way \in {"older", "newer"} /\ ~ Inside(was)
  PROVE  Dating' /\ KidsTold' /\ SeenTrue' /\ Continues'
  <1>1. Dating' /\ KidsTold' /\ OnDisk' = OnDisk
    BY DEF WInv, Dating, KidsTold, site, OnDisk
  <1>2. seen'.kind = "missing" /\ seen'.from = from
    OBVIOUS
  <1>3. SeenTrue'
    BY <1>2 DEF SeenTrue
  <1>4. ASSUME NEW was \in from
        PROVE  /\ was.way = "crumb" => OnDisk \/ IsSomewhere(seen)'
               /\ was.way = "older" /\ Inside(was) => IsSomewhere(seen)' /\ seen'.lo = was.hi + 1
               /\ was.way = "newer" /\ Inside(was) => IsSomewhere(seen)' /\ seen'.end = was.lo - 1
               /\ was.way = "other" => IsSomewhere(seen)'
    BY <1>4
  <1>5. Continues'
    BY <1>1, <1>2, <1>4 DEF Continues
  <1> QED
    BY <1>1, <1>3, <1>5

LEMMA OpensContinues ==
  ASSUME WInv, NEW view \in Views, Opens(view)
  PROVE  Dating' /\ KidsTold' /\ SeenTrue' /\ Continues'
  <1>1. PICK who \in Audience(view) :
          \/ /\ seen' = Listing(view, NoRestriction, who, None)
             /\ kids' = IF view = "blogdir" THEN kids ELSE KidsKept
          \/ \E suf \in Typed : Shown(view, suf, who, None)
    BY DEF Opens
  <1>2. UNCHANGED site
    BY DEF Opens
  <1>3. PICK from : from = None
    OBVIOUS
  <1>4. from = {}
    BY <1>3 DEF None
  <1>5. PICK dl : dl = ListOf(view)
    OBVIOUS
  <1>6. ASSUME NEW r, Restricts(r), seen' = Listing(view, r, who, from), kids' = KidsKept \/ kids' = kids
        PROVE  Dating' /\ KidsTold' /\ SeenTrue' /\ Continues'
    BY <1>2, <1>4, <1>5, <1>6, ListingContinues
  <1>7. CASE /\ seen' = Listing(view, NoRestriction, who, None)
             /\ kids' = IF view = "blogdir" THEN kids ELSE KidsKept
    <2>1. Restricts(NoRestriction)
      BY DEF Restricts, NoRestriction
    <2> QED
      BY <1>3, <1>6, <1>7, <2>1
  <1>8. ASSUME NEW suf \in Typed, Shown(view, suf, who, None)
        PROVE  Dating' /\ KidsTold' /\ SeenTrue' /\ Continues'
    <2>1. Restricts(RestrictTo(suf))
      BY SuffixesRestrict, BlogAssumption
    <2>2. CASE RestrictTo(suf) = NoRestriction
      <3>1. seen' = [kind |-> "missing", from |-> from] /\ UNCHANGED <<site, kids>>
        BY <1>2, <1>3, <1>8, <2>2 DEF Shown
      <3> QED
        BY <1>4, <3>1, MissingContinues
    <2>3. CASE RestrictTo(suf) # NoRestriction
      BY <1>3, <1>6, <1>8, <2>1, <2>3 DEF Shown
    <2> QED
      BY <2>2, <2>3
  <1> QED
    BY <1>1, <1>7, <1>8

LEMMA GoesContinues ==
  ASSUME WInv, NEW way \in {"older", "newer", "other", "crumb"}, Goes(way)
  PROVE  Dating' /\ KidsTold' /\ SeenTrue' /\ Continues'
  <1>1. PICK suf \in Links(way) :
          LET view == IF way = "crumb" THEN "blog" ELSE seen.view
              was == IF way = "crumb" THEN [way |-> way]
                     ELSE [way |-> way, r |-> seen.r, size |-> seen.size, lo |-> seen.lo, hi |-> seen.hi]
          IN \E who \in Audience(view) : Shown(view, suf, who, {was})
    BY DEF Goes
  <1>2. UNCHANGED site
    BY DEF Goes
  <1>3. PICK view : view = IF way = "crumb" THEN "blog" ELSE seen.view
    OBVIOUS
  <1>4. PICK was : was = IF way = "crumb" THEN [way |-> way]
                         ELSE [way |-> way, r |-> seen.r, size |-> seen.size, lo |-> seen.lo, hi |-> seen.hi]
    OBVIOUS
  <1>5. PICK who \in Audience(view) : Shown(view, suf, who, {was})
    BY <1>1, <1>3, <1>4
  <1>6. PICK r : r = RestrictTo(suf)
    OBVIOUS
  <1>7. PICK dl : dl = ListOf(view)
    OBVIOUS
  <1>8. was.way = way
    BY <1>4
  <1>9. /\ view \in Views /\ suf \in Suffixes
        /\ way = "crumb" => OnDisk \/ On(suf, dl)
        /\ way = "older" => (Inside(was) => Lo(r, dl) = was.hi + 1 /\ On(suf, dl))
        /\ way = "newer" => (Inside(was) => Hi(r, dl) = was.lo - 1 /\ On(suf, dl))
        /\ way = "other" => On(suf, dl)
    <2>1. CASE way = "crumb"
      <3>1. seen.kind = "entry" /\ suf \in seen.crumbs
        BY <2>1 DEF Links
      <3>2. suf \in Suffixes /\ (~ OnDisk => On(suf, PageKids))
        BY <3>1 DEF WInv, SeenTrue
      <3>3. view = "blog" /\ view \in Views /\ dl = PageKids
        BY <1>3, <1>7, <2>1 DEF Views, ListOf
      <3> QED
        BY <2>1, <3>2, <3>3
    <2>2. CASE way # "crumb"
      <3>1. seen.kind = "listing" /\ suf \in seen[way] /\ view = seen.view
        BY <1>3, <2>2 DEF Links
      <3>2. view \in Views /\ Ways(seen, dl)
        BY <1>7, <3>1 DEF WInv, SeenTrue
      <3>3. suf \in Suffixes
        BY <3>1, <3>2, <2>2 DEF Ways
      <3>4. Inside(was) <=> Inside(seen)
        BY <1>4, <2>2 DEF Inside
      <3>5. was.hi = seen.hi /\ was.lo = seen.lo
        BY <1>4, <2>2
      <3>6. way = "older" => (Inside(was) => Lo(r, dl) = was.hi + 1 /\ On(suf, dl))
        BY <1>6, <3>1, <3>2, <3>4, <3>5 DEF Ways
      <3>7. way = "newer" => (Inside(was) => Hi(r, dl) = was.lo - 1 /\ On(suf, dl))
        BY <1>6, <3>1, <3>2, <3>4, <3>5 DEF Ways
      <3>8. way = "other" => On(suf, dl)
        BY <3>1, <3>2 DEF Ways
      <3> QED
        BY <2>2, <3>2, <3>3, <3>6, <3>7, <3>8
    <2> QED
      BY <2>1, <2>2
  <1>10. Restricts(r) /\ (On(suf, dl) => r # NoRestriction /\ Lo(r, dl) <= Hi(r, dl))
    BY <1>6, <1>9, SuffixesRestrict DEF On, NoRestriction
  <1>11. CASE r = NoRestriction
    <2>1. PICK from : from = {was}
      OBVIOUS
    <2>2. seen' = [kind |-> "missing", from |-> from] /\ UNCHANGED <<site, kids>>
      BY <1>2, <1>5, <1>6, <1>11, <2>1 DEF Shown
    <2>3. ~ On(suf, dl)
      BY <1>10, <1>11
    <2>4. \/ was.way = "crumb" /\ OnDisk
          \/ was.way \in {"older", "newer"} /\ ~ Inside(was)
      BY <1>8, <1>9, <2>3
    <2>5. \A was2 \in from : \/ was2.way = "crumb" /\ OnDisk
                             \/ was2.way \in {"older", "newer"} /\ ~ Inside(was2)
      BY <2>1, <2>4
    <2> QED
      BY <2>2, <2>5, MissingContinues
  <1>12. CASE r # NoRestriction
    <2>1. PICK from : from = {was} /\ seen' = Listing(view, r, who, from)
      BY <1>5, <1>6, <1>12 DEF Shown
    <2>2. kids' = KidsKept \/ kids' = kids
      BY <1>5, <1>6, <1>12 DEF Shown
    <2>3. \A was2 \in from :
             /\ was2.way = "crumb" => OnDisk \/ Lo(r, dl) <= Hi(r, dl)
             /\ was2.way = "older" => (Inside(was2) => Lo(r, dl) = was2.hi + 1 /\ Lo(r, dl) <= Hi(r, dl))
             /\ was2.way = "newer" => (Inside(was2) => Hi(r, dl) = was2.lo - 1 /\ Lo(r, dl) <= Hi(r, dl))
             /\ was2.way = "other" => Lo(r, dl) <= Hi(r, dl)
             /\ was2.way \in {"crumb", "older", "newer", "other"}
      BY <1>8, <1>9, <1>10, <2>1
    <2> QED
      BY <1>2, <1>7, <1>9, <1>10, <2>1, <2>2, <2>3, ListingContinues
  <1> QED
    BY <1>11, <1>12

LEMMA ReadsContinues ==
  ASSUME WInv, NEW f \in Files, Reads(f)
  PROVE  Dating' /\ KidsTold' /\ SeenTrue' /\ Continues'
  <1>1. UNCHANGED site /\ (kids' = KidsKept \/ kids' = kids) /\ f \in Real
    BY DEF Reads
  <1>2. seen'.kind = "entry" /\ seen'.crumbs = DateCrumbs(disk[f].mtime)
    BY DEF Reads
  <1>3. Dating' /\ OnDisk' = OnDisk
    BY <1>1 DEF WInv, Dating, site, OnDisk
  <1>4. KidsTold'
    BY <1>1, KidsStayTold DEF WInv
  <1>5. PageKids' = PageKids /\ Told(Fresh)
    BY <1>1, ListsStay, ListsAreTold DEF WInv
  <1>6. PICK dl : dl = Fresh
    OBVIOUS
  <1>7. \E i \in DOMAIN dl : disk[f].mtime = dl[i].time
    <2>1. /\ \A i \in DOMAIN Listed(There) : Listed(There)[i].time = disk[Listed(There)[i].path].mtime
          /\ \A g \in There : \E i \in DOMAIN Listed(There) : Listed(There)[i].path = g
      BY ListedIs DEF WInv
    <2>2. f \in There /\ dl = Listed(There)
      BY <1>1, <1>6 DEF Real, Fresh
    <2> QED
      BY <2>1, <2>2
  <1>8. ASSUME NEW suf \in DateCrumbs(disk[f].mtime) PROVE suf \in Suffixes /\ On(suf, dl)
    <2>1. PICK c \in {AnyDay, <<1, 1, 0>>, <<1, 0, 0>>} : suf \in CalLink(c, {disk[f].mtime})
      BY <1>8 DEF DateCrumbs
    <2>2. Shaped(c) /\ Told(dl)
      BY <1>5, <1>6, ShapesAre
    <2>3. \A t \in {disk[f].mtime} : \E i \in DOMAIN dl : t = dl[i].time
      BY <1>7
    <2> QED
      BY <2>1, <2>2, <2>3, TimesLink
  <1>9. ~ OnDisk => PageKids = dl
    BY <1>6 DEF PageKids
  <1>10. SeenTrue'
    BY <1>2, <1>3, <1>5, <1>8, <1>9 DEF SeenTrue
  <1>11. Continues'
    BY <1>2 DEF Continues
  <1> QED
    BY <1>3, <1>4, <1>10, <1>11

\* What the author does leaves no page before a reader.
LEMMA WorkContinues ==
  ASSUME WInv, Passes, NEW f,
         disk' = disk \/ \E m \in {0} \cup Stamps \cup {Later} :
                          \E acl : disk' = [disk EXCEPT ![f] = File(m, acl)]
  PROVE  Dating' /\ KidsTold' /\ SeenTrue' /\ Continues'
  <1>1. clock \in Nat /\ clock' = clock + 1 /\ visits' = visits /\ kids' = kids /\ seen' = Nothing
        /\ clock < LastClock[visits]
    BY Clockwork DEF Passes, Later, WInv
  <1>2. FirstClock \in Nat /\ FirstClock <= clock /\ visits \in Visits
    BY BlogAssumption DEF WInv, Dating
  <1>3. clock + 1 \in DOMAIN Date
    <2>1. LastClock[visits] \in Nat /\ FirstClock + 1 .. LastClock[visits] \subseteq DOMAIN Date
      BY <1>2, BlogAssumption
    <2>2. clock + 1 \in FirstClock + 1 .. LastClock[visits]
      BY <1>1, <1>2, <2>1
    <2> QED
      BY <2>1, <2>2
  <1>4. \A m \in {0} \cup Stamps \cup {Later} : m \in {0} \cup DOMAIN Date
    BY <1>3, BlogAssumption DEF Later
  <1>5. \A g \in Files : disk'[g].mtime \in {0} \cup DOMAIN Date
    <2>1. disk \in Disk /\ \A g \in Files : disk[g].mtime \in {0} \cup DOMAIN Date
      BY DEF WInv, IInv, Dating
    <2>2. CASE disk' = disk
      BY <2>1, <2>2
    <2>3. CASE disk' # disk
      <3>m. PICK m \in {0} \cup Stamps \cup {Later} : \E acl : disk' = [disk EXCEPT ![f] = File(m, acl)]
        BY <2>3
      <3>1. PICK acl : disk' = [disk EXCEPT ![f] = File(m, acl)]
        BY <3>m
      <3>2. File(m, acl).mtime = m
        BY DEF File
      <3>3. \A g \in Files : disk'[g] = disk[g] \/ disk'[g] = File(m, acl)
        BY <2>1, <3>1 DEF Disk
      <3> QED
        BY <1>4, <2>1, <3>2, <3>3
    <2> QED
      BY <2>2, <2>3
  <1>6. Dating'
    BY <1>1, <1>2, <1>5 DEF Dating
  <1>7. KidsTold' /\ SeenTrue' /\ Continues'
    BY <1>1 DEF WInv, KidsTold, SeenTrue, Continues, Nothing
  <1> QED
    BY <1>6, <1>7

LEMMA OthersContinue ==
  ASSUME WInv, UNCHANGED <<site, kids>>, seen'.kind \notin {"listing", "missing", "entry"} \/ seen' = seen
  PROVE  Dating' /\ KidsTold' /\ SeenTrue' /\ Continues'
  <1>1. Dating' /\ KidsTold' /\ OnDisk' = OnDisk
    BY DEF WInv, Dating, KidsTold, site, OnDisk
  <1>2. PageKids' = PageKids /\ \A view \in Views : ListOf(view)' = ListOf(view)
    BY ListsStay DEF WInv
  <1>3. CASE seen' = seen
    <2>1. seen.kind = "listing" => ListOf(seen.view)' = ListOf(seen.view)
      <3>1. ASSUME seen.kind = "listing" PROVE ListOf(seen.view)' = ListOf(seen.view)
        <4>1. PICK view \in Views : view = seen.view
          BY <3>1 DEF WInv, SeenTrue
        <4>2. ListOf(view)' = ListOf(view)
          BY <1>2
        <4> QED
          BY <1>3, <4>1, <4>2 DEF ListOf
      <3> QED
        BY <3>1
    <2>2. SeenTrue'
      BY <1>1, <1>2, <1>3, <2>1 DEF WInv, SeenTrue
    <2>3. Continues'
      <3>1. Real' = Real /\ \A f, w : AccessOk(f, w)' = AccessOk(f, w)
        BY DEF site, Real, There, AccessOk
      <3>2. \A f : Skipped(f, seen)' <=> Skipped(f, seen)
        BY <1>3, <3>1 DEF Skipped
      <3>3. IsSomewhere(seen)' <=> IsSomewhere(seen)
        BY <1>3, <3>2 DEF IsSomewhere
      <3>4. /\ (seen.kind \in {"listing", "missing"})' <=> seen.kind \in {"listing", "missing"}
            /\ \A was : Inside(was)' <=> Inside(was)
        BY <1>3 DEF Inside
      <3>5. ASSUME seen.kind \in {"listing", "missing"}, NEW was \in seen.from
            PROVE  /\ was.way = "crumb" => OnDisk' \/ IsSomewhere(seen)'
                   /\ was.way = "older" /\ Inside(was) => IsSomewhere(seen)' /\ seen'.lo = was.hi + 1
                   /\ was.way = "newer" /\ Inside(was) => IsSomewhere(seen)' /\ seen'.end = was.lo - 1
                   /\ was.way = "other" => IsSomewhere(seen)'
        <4>1. /\ was.way = "crumb" => OnDisk \/ IsSomewhere(seen)
              /\ was.way = "older" /\ Inside(was) => IsSomewhere(seen) /\ seen.lo = was.hi + 1
              /\ was.way = "newer" /\ Inside(was) => IsSomewhere(seen) /\ seen.end = was.lo - 1
              /\ was.way = "other" => IsSomewhere(seen)
          BY <3>5 DEF WInv, Continues
        <4> QED
          BY <1>1, <1>3, <3>3, <4>1
      <3>6. seen.kind = "listing" =>
              /\ Inside(seen) /\ seen.older = {} => seen.hi = seen.size
              /\ Inside(seen) /\ seen.newer = {} => seen.lo = 1
        BY DEF WInv, Continues
      <3> QED
        BY <1>3, <3>4, <3>5, <3>6 DEF Continues
    <2> QED
      BY <1>1, <2>2, <2>3
  <1>4. CASE seen'.kind \notin {"listing", "missing", "entry"}
    BY <1>1, <1>4 DEF SeenTrue, Continues
  <1> QED
    BY <1>3, <1>4

LEMMA LinksInitial == Init => WInv
  <1> SUFFICES ASSUME Init PROVE Dating /\ KidsTold /\ SeenTrue /\ Continues
    BY Initial DEF WInv
  <1>1. Dating
    BY BlogAssumption DEF Init, Dating
  <1>2. KidsTold /\ SeenTrue /\ Continues
    BY DEF Init, KidsTold, SeenTrue, Continues, Nothing, None
  <1> QED
    BY <1>1, <1>2

LEMMA LinksInductive == WInv /\ [Next]_vars => WInv'
  <1> SUFFICES ASSUME WInv, [Next]_vars PROVE Dating' /\ KidsTold' /\ SeenTrue' /\ Continues'
    BY Inductive DEF WInv
  <1>1. ASSUME NEW view \in Views, Opens(view) PROVE Dating' /\ KidsTold' /\ SeenTrue' /\ Continues'
    BY <1>1, OpensContinues
  <1>2. ASSUME NEW way \in {"older", "newer", "other", "crumb"}, Goes(way)
        PROVE  Dating' /\ KidsTold' /\ SeenTrue' /\ Continues'
    BY <1>2, GoesContinues
  <1>3. ASSUME NEW f \in Files, Reads(f) PROVE Dating' /\ KidsTold' /\ SeenTrue' /\ Continues'
    BY <1>3, ReadsContinues
  <1>4. ASSUME NEW f, NEW kind, NEW who, Gets(f, kind, who)
        PROVE  Dating' /\ KidsTold' /\ SeenTrue' /\ Continues'
    BY <1>4, OthersContinue DEF Gets
  <1>5. ASSUME NEW f, NEW m \in Times, NEW acl, Writes(f, m, acl) \/ Adds(f, m, acl)
        PROVE  Dating' /\ KidsTold' /\ SeenTrue' /\ Continues'
    BY <1>5, WorkContinues DEF Writes, Adds, Times
  <1>6. ASSUME NEW f, Removes(f) PROVE Dating' /\ KidsTold' /\ SeenTrue' /\ Continues'
    BY <1>6, WorkContinues DEF Removes
  <1>7. ASSUME NEW acl, Closes(acl) PROVE Dating' /\ KidsTold' /\ SeenTrue' /\ Continues'
    BY <1>7, WorkContinues DEF Closes
  <1>8. CASE Waits
    BY <1>8, WorkContinues DEF Waits
  <1>9. CASE UNCHANGED vars
    BY <1>9, OthersContinue DEF vars, site
  <1> QED
    BY <1>1, <1>2, <1>3, <1>4, <1>5, <1>6, <1>7, <1>8, <1>9 DEF Next

\* Whatever is in a blog and of which dates it is, and whatever the author does while
\* nobody looks: the links to older and to newer entries lead on from where a listing
\* ends or begins, clipped or not, to something, and end only where the list does; and
\* those of calendars and of dates lead to something: an entry of the list, which the
\* page shows unless it skips all that it has (pageranges.rangebar, calbar, blogdir.py
\* clipDown and the macros with it, and the filters of blogview and titleindex).
THEOREM LinksContinue == Spec => []Continues
  <1>1. WInv => Continues
    BY DEF WInv
  <1> QED
    BY <1>1, LinksInitial, LinksInductive, PTL DEF Spec
=============================================================================
