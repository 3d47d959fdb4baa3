--------------------------- MODULE RequestProofs ---------------------------
(***************************************************************************)
(* Proofs about requests, for any tree of pages, clients, users, editions  *)
(* of the site and bookmarks.  The argument: what is in memory was read    *)
(* for a request that is still there, or one that died, and so is at least *)
(* as young as either; since[t] of every request that is there is not      *)
(* later (MemoryKnown).  A request that is about to say who it is has a    *)
(* user and password that held at such a time (Vouched), and what a view   *)
(* takes from memory to decide who may read, the property may take too,    *)
(* since the decision looks at no other pages than Walked (MayReadText).   *)
(*                                                                         *)
(* Of redirects: each takes something away from the URL that Rank counts,  *)
(* and what it leads to would have been refused before or is a page that   *)
(* is there (WellSent); Course says so of every trail.  Of logins that     *)
(* nobody is in the way of: Keeping.                                       *)
(***************************************************************************)
EXTENDS Request, WellFoundedInduction, SequenceTheorems, TLAPS

Shape ==
  /\ DOMAIN pc = Clients /\ DOMAIN why = Clients /\ DOMAIN rq = Clients
  /\ DOMAIN proof = Clients /\ DOMAIN jar = Clients
  /\ DOMAIN shown = Clients /\ DOMAIN posted = Clients

Remembered(n) ==
  /\ n \in 1 .. Now
  /\ (debris # 0 /\ debris <= n) \/ (\E t \in Clients : InFlight(t) /\ era[t] <= n)
  /\ \A t \in Clients : InFlight(t) => since[t] <= n
MemoryKnown ==
  /\ book # 0 => Remembered(book)
  /\ \A p \in DOMAIN pcache : pcache[p] # 0 => Remembered(pcache[p])

Held(w, times, c) == \E n \in times : Holds(w, n, c)
Vouched(t) ==
  pc[t] \in {"fill", "get"} =>
    /\ why[t] \in {"vouch", "enter"} => Held(world, Times(t), Claim(t))
    /\ why[t] = "seal" => proof[t] = Claim(t)
Unshown(t) == pc[t] \notin {"finish", "done"} => shown[t] = {} /\ ~ posted[t]
Proved(t) ==
  login[t] \notin {NoUser, DefaultUser} =>
    /\ proof[t].user = login[t]
    /\ proof[t] \in {jar[t], [user |-> rq[t].form.user, pw |-> rq[t].form.pw]}
    /\ Held(world, Times(t), proof[t])
Readers(t) ==
  \A f \in shown[t] \cup (IF posted[t] THEN {PageOf(t)} ELSE {}) :
    MayRead(world, Times(t), login[t], f)

IInv ==
  /\ TypeOK /\ Shape /\ MemoryKnown
  /\ \A t \in Clients : Vouched(t) /\ Unshown(t) /\ Proved(t) /\ Readers(t)

\* A larger range of times, or a longer history, leaves proofs and readers be.
LEMMA HeldLonger ==
  ASSUME NEW w, NEW w2, NEW T, NEW T2, NEW c, T \subseteq T2,
         \A n \in T : w2[n] = w[n], Held(w, T, c)
  PROVE  Held(w2, T2, c)
  BY DEF Held, Holds

LEMMA ReadLonger ==
  ASSUME NEW w, NEW w2, NEW T, NEW T2, NEW who, NEW f, T \subseteq T2,
         \A n \in T : w2[n] = w[n], MayRead(w, T, who, f)
  PROVE  MayRead(w2, T2, who, f)
  <1>1. PICK at \in [Walked(f) -> T] : Admitted(f, who, Texts(w, f, at))
    BY DEF MayRead
  <1>2. at \in [Walked(f) -> T2]
    OBVIOUS
  <1>3. Texts(w2, f, at) = Texts(w, f, at)
    BY <1>1 DEF Texts
  <1> QED
    BY <1>1, <1>2, <1>3 DEF MayRead

\* Nobody has asked for anything at first.
LEMMA Initial == Init => IInv
  <1> SUFFICES ASSUME Init PROVE IInv
    OBVIOUS
  <1>1. world = <<FirstEdition>> /\ book = 0 /\ debris = 0 /\ pcache = <<>>
    BY DEF Init
  <1>p. DOMAIN pcache = {}
    BY <1>1
  <1>2. Now = 1 /\ world \in Seq(Edition) /\ world # <<>>
    BY <1>1, UsersAssumption DEF Now
  <1>e. era = [t \in Clients |-> 1] /\ since = [t \in Clients |-> 1]
    BY DEF Init
  <1>3. /\ pc = [t \in Clients |-> "idle"] /\ DOMAIN why = Clients
        /\ login = [t \in Clients |-> NoUser] /\ shown = [t \in Clients |-> {}]
        /\ jar = [t \in Clients |-> NoProof] /\ DOMAIN rq = Clients /\ DOMAIN proof = Clients
    BY DEF Init
  <1>q. DOMAIN posted = Clients /\ \A t \in Clients : ~ posted[t]
    BY Zenon DEF Init
  <1>4. TypeOK
    <2>1. book \in 0 .. Now /\ debris \in 0 .. Now
      BY <1>1, <1>2
    <2>2. era \in [Clients -> 1 .. Now] /\ since \in [Clients -> 1 .. Now]
      BY <1>2, <1>e
    <2>3. login \in [Clients -> Users \cup {NoUser}] /\ \A t \in Clients : jar[t] = NoProof
      BY <1>3
    <2> QED
      BY <1>2, <2>1, <2>2, <2>3 DEF TypeOK
  <1>5. Shape /\ MemoryKnown
    BY <1>1, <1>p, <1>q, <1>3 DEF Shape, MemoryKnown
  <1>6. ASSUME NEW t \in Clients
        PROVE  Vouched(t) /\ Unshown(t) /\ Proved(t) /\ Readers(t)
    BY <1>3, <1>q DEF Vouched, Unshown, Proved, Readers
  <1> QED
    BY <1>4, <1>5, <1>6 DEF IInv

\* A step of a request that is there, if it does not finish, keeps what is in
\* memory accounted for: by itself, or by what it leaves when it dies.
LEMMA StaysRemembered ==
  ASSUME IInv, NEW t \in Clients, InFlight(t),
         world' = world, era' = era, since' = since,
         \A s \in Clients : s # t => (InFlight(s)' <=> InFlight(s)),
         \/ InFlight(t)' /\ debris' = debris
         \/ ~ InFlight(t)' /\ debris' = IF debris # 0 /\ debris < era[t] THEN debris ELSE era[t],
         NEW n, Remembered(n)
  PROVE  Remembered(n)'
  <1>1. era[t] \in 1 .. Now /\ debris \in 0 .. Now /\ n \in 1 .. Now /\ Now \in Nat
    BY DEF IInv, TypeOK, Remembered, Now
  <1>2. \A s \in Clients : era[s] \in Nat /\ since[s] \in Nat
    BY DEF IInv, TypeOK, Now
  <1>3. Now' = Now
    BY DEF Now
  <1>4. \A s \in Clients : InFlight(s)' => since'[s] <= n
    BY DEF Remembered
  <1>5. (debris' # 0 /\ debris' <= n) \/ (\E s \in Clients : InFlight(s)' /\ era'[s] <= n)
    <2>1. CASE InFlight(t)' /\ debris' = debris
      BY <2>1 DEF Remembered
    <2>2. CASE ~ InFlight(t)' /\ debris' = IF debris # 0 /\ debris < era[t] THEN debris ELSE era[t]
      <3>1. CASE debris # 0 /\ debris <= n
        BY <1>1, <2>2, <3>1
      <3>2. ASSUME NEW s \in Clients, InFlight(s), era[s] <= n
            PROVE  (debris' # 0 /\ debris' <= n) \/ (InFlight(s)' /\ era'[s] <= n)
        BY <1>1, <1>2, <2>2, <3>2
      <3> QED
        BY <3>1, <3>2 DEF Remembered
    <2> QED
      BY <2>1, <2>2
  <1> QED
    BY <1>1, <1>3, <1>4, <1>5 DEF Remembered

\* What is read now is remembered by whoever reads it.
LEMMA ReadNow ==
  ASSUME IInv, NEW t \in Clients, InFlight(t)
  PROVE  Remembered(Now)
  BY DEF IInv, TypeOK, Remembered, Now

\* What a user has in the password file in memory, he had at a time that any
\* request that is there may speak of.
LEMMA GoodHeld ==
  ASSUME IInv, NEW t \in Clients, InFlight(t), NEW c, Good(c)
  PROVE  Held(world, Times(t), c)
  <1>1. book # 0 /\ c.user \in Users /\ c.pw # NoEntry /\ world[book].pw[c.user] = c.pw
    BY DEF Good, Entry
  <1>2. book \in Times(t)
    BY <1>1 DEF IInv, MemoryKnown, Remembered, Times, TypeOK, Now
  <1> QED
    BY <1>1, <1>2 DEF Held, Holds

\* Parts of the invariant that a step leaves alone.
LEMMA SameReaders ==
  ASSUME IInv, world' = world, NEW s \in Clients, since'[s] = since[s], Readers(s),
         \/ shown'[s] = shown[s] /\ posted'[s] = posted[s] /\ login'[s] = login[s] /\ rq'[s] = rq[s]
         \/ shown'[s] = {} /\ ~ posted'[s]
  PROVE  Readers(s)'
  BY DEF Readers, Times, PageOf, Now
LEMMA SameProved ==
  ASSUME IInv, world' = world, NEW s \in Clients, since'[s] = since[s], Proved(s),
         login'[s] = login[s], proof'[s] = proof[s], rq'[s] = rq[s], jar'[s] = jar[s]
  PROVE  Proved(s)'
  BY DEF Proved, Times, Now, Held, Holds
LEMMA SameVouched ==
  ASSUME IInv, world' = world, NEW s \in Clients, since'[s] = since[s], Vouched(s),
         \/ pc'[s] \notin {"fill", "get"}
         \/ why'[s] \notin {"vouch", "enter", "seal"}
         \/ /\ pc[s] \in {"fill", "get"} /\ why'[s] = why[s]
            /\ proof'[s] = proof[s] /\ rq'[s] = rq[s] /\ jar'[s] = jar[s]
  PROVE  Vouched(s)'
  BY DEF Vouched, Times, Now, Held, Holds, Claim
LEMMA SameMemory ==
  ASSUME IInv, NEW t \in Clients, InFlight(t),
         world' = world, era' = era, since' = since, pcache' = pcache,
         \A s \in Clients : s # t => (InFlight(s)' <=> InFlight(s)),
         \/ InFlight(t)' /\ debris' = debris
         \/ ~ InFlight(t)' /\ debris' = IF debris # 0 /\ debris < era[t] THEN debris ELSE era[t],
         book' = book
  PROVE  MemoryKnown'
  <1>1. \A n : Remembered(n) => Remembered(n)'
    BY StaysRemembered
  <1> QED
    BY <1>1 DEF IInv, MemoryKnown

\* Fill: what is read now may be remembered.
LEMMA FillKeeps ==
  ASSUME IInv, NEW t \in Clients, Fill(t)
  PROVE  IInv'
  <1>t. TypeOK /\ Shape /\ MemoryKnown /\ InFlight(t)
    BY DEF IInv, Fill, Asks, InFlight
  <1>s. ASSUME NEW s \in Clients
        PROVE  Vouched(s) /\ Unshown(s) /\ Proved(s) /\ Readers(s)
    BY DEF IInv
  <1>w. world' = world /\ era' = era /\ since' = since /\ Now' = Now
    BY DEF Fill, memory, inRequest, Now
  <1>1. TypeOK'
    BY <1>t, <1>w DEF TypeOK, Fill, Goto, Ask, Answer, Asks, InFlight, memory, inRequest, browser, Now
  <1>2. Shape'
    BY <1>t DEF Shape, Fill, Goto, Ask, Answer, Asks, InFlight, memory, inRequest, browser, Now
  <1>3. MemoryKnown'
    <2>1. \A n : Remembered(n) => Remembered(n)'
      BY <1>t, <1>w, StaysRemembered DEF Shape, Fill, Goto, Ask, Answer, Asks, InFlight, memory, inRequest, browser
    <2>2. \A n : n = Now => Remembered(n)'
      BY <1>t, <2>1, ReadNow
    <2>3. (book' = book \/ book' = Now) /\ pcache' = pcache
      BY DEF Fill
    <2> QED
      BY <1>t, <2>1, <2>2, <2>3 DEF MemoryKnown
  <1>4. ASSUME NEW s \in Clients PROVE Vouched(s)'
    BY <1>t, <1>w, <1>s, SameVouched DEF Shape, Fill, Goto, Ask, Answer, Asks, InFlight, memory, inRequest, browser, Now
  <1>5. ASSUME NEW s \in Clients PROVE Unshown(s)'
    BY <1>t, <1>s DEF Shape, Unshown, Fill, Goto, Ask, Answer, Asks, InFlight, memory, inRequest, browser, Now
  <1>6. ASSUME NEW s \in Clients PROVE Proved(s)'
    BY <1>t, <1>w, <1>s, SameProved DEF Shape, Fill, Goto, Ask, Answer, Asks, InFlight, memory, inRequest, browser, Now
  <1>7. ASSUME NEW s \in Clients PROVE Readers(s)'
    BY <1>t, <1>w, <1>s, SameReaders DEF Shape, Unshown, Fill, Goto, Ask, Answer, Asks, InFlight, memory, inRequest, browser, Now
  <1> QED
    BY <1>1, <1>2, <1>3, <1>4, <1>5, <1>6, <1>7 DEF IInv

\* Guest: the default user needs no proof.
LEMMA GuestKeeps ==
  ASSUME IInv, NEW t \in Clients, Guest(t)
  PROVE  IInv'
  <1>t. TypeOK /\ Shape /\ MemoryKnown /\ InFlight(t)
    BY DEF IInv, Guest, Asks, InFlight
  <1>s. ASSUME NEW s \in Clients
        PROVE  Vouched(s) /\ Unshown(s) /\ Proved(s) /\ Readers(s)
    BY DEF IInv
  <1>w. world' = world /\ era' = era /\ since' = since /\ Now' = Now
    BY DEF Guest, memory, inRequest, Now
  <1>1. TypeOK'
    BY <1>t, <1>w, UsersAssumption DEF TypeOK, Guest, Goto, Ask, Answer, Asks, InFlight, memory, inRequest, browser
  <1>2. Shape'
    BY <1>t DEF Shape, Guest, Goto, Ask, Answer, Asks, InFlight, memory, inRequest, browser
  <1>3. MemoryKnown'
    BY <1>t, <1>w, SameMemory DEF Shape, Guest, Goto, Ask, Answer, Asks, InFlight, memory, inRequest, browser
  <1>4. ASSUME NEW s \in Clients PROVE Vouched(s)'
    BY <1>t, <1>w, <1>s, SameVouched DEF Shape, Guest, Goto, Ask, Answer, Asks, InFlight, memory, inRequest, browser
  <1>5. ASSUME NEW s \in Clients PROVE Unshown(s)'
    BY <1>t, <1>s DEF Shape, Unshown, Guest, Goto, Ask, Answer, Asks, InFlight, memory, inRequest, browser
  <1>6. ASSUME NEW s \in Clients PROVE Proved(s)'
    BY <1>t, <1>w, <1>s, SameProved DEF Shape, Proved, TypeOK, Guest, Goto, Ask, Answer, Asks, InFlight, memory, inRequest, browser
  <1>7. ASSUME NEW s \in Clients PROVE Readers(s)'
    BY <1>t, <1>w, <1>s, SameReaders DEF Shape, Unshown, Guest, Goto, Ask, Answer, Asks, InFlight, memory, inRequest, browser
  <1> QED
    BY <1>1, <1>2, <1>3, <1>4, <1>5, <1>6, <1>7 DEF IInv

\* Opens: a page that is made now has not been read.
LEMMA OpensKeeps ==
  ASSUME IInv, NEW t \in Clients, Opens(t)
  PROVE  IInv'
  <1>t. TypeOK /\ Shape /\ MemoryKnown /\ InFlight(t)
    BY DEF IInv, Opens, Asks, InFlight
  <1>s. ASSUME NEW s \in Clients
        PROVE  Vouched(s) /\ Unshown(s) /\ Proved(s) /\ Readers(s)
    BY DEF IInv
  <1>w. world' = world /\ era' = era /\ since' = since /\ Now' = Now
    BY DEF Opens, memory, inRequest, Now
  <1>1. TypeOK'
    BY <1>t, <1>w DEF TypeOK, Opens, Goto, Ask, Answer, Asks, InFlight, memory, inRequest, browser, AfterPage
  <1>2. Shape'
    BY <1>t DEF Shape, Opens, Goto, Ask, Answer, Asks, InFlight, memory, inRequest, browser, AfterPage
  <1>3. MemoryKnown'
    <2>1. \A n : Remembered(n) => Remembered(n)'
      BY <1>t, <1>w, StaysRemembered DEF Shape, Opens, Goto, Ask, Answer, Asks, InFlight, memory, inRequest, browser, AfterPage
    <2>2. \A p \in DOMAIN pcache' : pcache'[p] # 0 => p \in DOMAIN pcache /\ pcache'[p] = pcache[p]
      BY DEF Opens, Cached
    <2>3. book' = book
      BY DEF Opens
    <2> QED
      BY <1>t, <2>1, <2>2, <2>3 DEF MemoryKnown
  <1>4. ASSUME NEW s \in Clients PROVE Vouched(s)'
    BY <1>t, <1>w, <1>s, SameVouched DEF Shape, Opens, Goto, Ask, Answer, Asks, InFlight, memory, inRequest, browser, AfterPage
  <1>5. ASSUME NEW s \in Clients PROVE Unshown(s)'
    BY <1>t, <1>s DEF Shape, Unshown, Opens, Goto, Ask, Answer, Asks, InFlight, memory, inRequest, browser, AfterPage
  <1>6. ASSUME NEW s \in Clients PROVE Proved(s)'
    BY <1>t, <1>w, <1>s, SameProved DEF Shape, Opens, Goto, Ask, Answer, Asks, InFlight, memory, inRequest, browser, AfterPage
  <1>7. ASSUME NEW s \in Clients PROVE Readers(s)'
    BY <1>t, <1>w, <1>s, SameReaders DEF Shape, Unshown, Opens, Goto, Ask, Answer, Asks, InFlight, memory, inRequest, browser, AfterPage
  <1> QED
    BY <1>1, <1>2, <1>3, <1>4, <1>5, <1>6, <1>7 DEF IInv

\* Takes: who dies of it leaves what is there to others.
LEMMA TakesKeeps ==
  ASSUME IInv, NEW t \in Clients, Takes(t)
  PROVE  IInv'
  <1>t. TypeOK /\ Shape /\ MemoryKnown /\ InFlight(t)
    BY DEF IInv, Takes, Asks, InFlight
  <1>s. ASSUME NEW s \in Clients
        PROVE  Vouched(s) /\ Unshown(s) /\ Proved(s) /\ Readers(s)
    BY DEF IInv
  <1>w. world' = world /\ era' = era /\ since' = since /\ Now' = Now
    BY DEF Takes, memory, inRequest, Now
  <1>1. TypeOK'
    BY <1>t, <1>w DEF TypeOK, Takes, Goto, Ask, Answer, Asks, InFlight, memory, inRequest, browser, AfterPage, Dies
  <1>2. Shape'
    BY <1>t DEF Shape, Takes, Goto, Ask, Answer, Asks, InFlight, memory, inRequest, browser, AfterPage, Dies
  <1>3. MemoryKnown'
    BY <1>t, <1>w, SameMemory DEF Shape, Takes, Goto, Ask, Answer, Asks, InFlight, memory, inRequest, browser, AfterPage, Dies
  <1>4. ASSUME NEW s \in Clients PROVE Vouched(s)'
    BY <1>t, <1>w, <1>s, SameVouched DEF Shape, Takes, Goto, Ask, Answer, Asks, InFlight, memory, inRequest, browser, AfterPage, Dies
  <1>5. ASSUME NEW s \in Clients PROVE Unshown(s)'
    BY <1>t, <1>s DEF Shape, Unshown, Takes, Goto, Ask, Answer, Asks, InFlight, memory, inRequest, browser, AfterPage, Dies
  <1>6. ASSUME NEW s \in Clients PROVE Proved(s)'
    BY <1>t, <1>w, <1>s, SameProved DEF Shape, Takes, Goto, Ask, Answer, Asks, InFlight, memory, inRequest, browser, AfterPage, Dies
  <1>7. ASSUME NEW s \in Clients PROVE Readers(s)'
    BY <1>t, <1>w, <1>s, SameReaders DEF Shape, Unshown, Takes, Goto, Ask, Answer, Asks, InFlight, memory, inRequest, browser, AfterPage, Dies
  <1> QED
    BY <1>1, <1>2, <1>3, <1>4, <1>5, <1>6, <1>7 DEF IInv

\* Proves: a good cookie held at a time of the request's.
LEMMA ProvesKeeps ==
  ASSUME IInv, NEW t \in Clients, Proves(t)
  PROVE  IInv'
  <1>t. TypeOK /\ Shape /\ MemoryKnown /\ InFlight(t)
    BY DEF IInv, Proves, Asks, InFlight
  <1>s. ASSUME NEW s \in Clients
        PROVE  Vouched(s) /\ Unshown(s) /\ Proved(s) /\ Readers(s)
    BY DEF IInv
  <1>w. world' = world /\ era' = era /\ since' = since /\ Now' = Now
    BY DEF Proves, memory, inRequest, Now
  <1>1. TypeOK'
    BY <1>t, <1>w DEF TypeOK, Proves, Goto, Ask, Answer, Asks, InFlight, memory, inRequest, browser, AfterPage
  <1>2. Shape'
    BY <1>t DEF Shape, Proves, Goto, Ask, Answer, Asks, InFlight, memory, inRequest, browser, AfterPage
  <1>3. MemoryKnown'
    BY <1>t, <1>w, SameMemory DEF Shape, Proves, Goto, Ask, Answer, Asks, InFlight, memory, inRequest, browser, AfterPage
  <1>4. ASSUME NEW s \in Clients PROVE Vouched(s)'
    <2>1. CASE s = t /\ pc'[t] = "fill" /\ why'[t] = "vouch"
      <3>1. Held(world, Times(t), jar[t]) /\ Claim(t)' = jar[t]
        BY <1>t, <2>1, GoodHeld DEF Shape, Claim, Proves, Goto, Ask, Answer, Asks, InFlight, memory, inRequest, browser
      <3>2. Held(world', Times(t)', Claim(t)')
        BY <1>w, <3>1 DEF Times, Held, Holds
      <3> QED
        BY <2>1, <3>2 DEF Vouched
    <2> QED
      BY <1>t, <1>w, <1>s, <2>1, SameVouched DEF Shape, Proves, Goto, Ask, Answer, Asks, InFlight, memory, inRequest, browser
  <1>5. ASSUME NEW s \in Clients PROVE Unshown(s)'
    BY <1>t, <1>s DEF Shape, Unshown, Proves, Goto, Ask, Answer, Asks, InFlight, memory, inRequest, browser, AfterPage
  <1>6. ASSUME NEW s \in Clients PROVE Proved(s)'
    BY <1>t, <1>w, <1>s, SameProved DEF Shape, Proves, Goto, Ask, Answer, Asks, InFlight, memory, inRequest, browser, AfterPage
  <1>7. ASSUME NEW s \in Clients PROVE Readers(s)'
    BY <1>t, <1>w, <1>s, SameReaders DEF Shape, Unshown, Proves, Goto, Ask, Answer, Asks, InFlight, memory, inRequest, browser, AfterPage
  <1> QED
    BY <1>1, <1>2, <1>3, <1>4, <1>5, <1>6, <1>7 DEF IInv

\* Vouches: the claim that was good is the proof.
LEMMA VouchesKeeps ==
  ASSUME IInv, NEW t \in Clients, Vouches(t)
  PROVE  IInv'
  <1>t. TypeOK /\ Shape /\ MemoryKnown /\ InFlight(t)
    BY DEF IInv, Vouches, Asks, InFlight
  <1>s. ASSUME NEW s \in Clients
        PROVE  Vouched(s) /\ Unshown(s) /\ Proved(s) /\ Readers(s)
    BY DEF IInv
  <1>w. world' = world /\ era' = era /\ since' = since /\ Now' = Now
    BY DEF Vouches, memory, inRequest, Now
  <1>1. TypeOK'
    <2>1. login' \in [Clients -> Users \cup {NoUser}]
      BY <1>t DEF TypeOK, Vouches, Entry
    <2> QED
      BY <1>t, <1>w, <2>1 DEF TypeOK, Vouches, Goto, Ask, Answer, Asks, InFlight, memory, inRequest, browser
  <1>2. Shape'
    BY <1>t DEF Shape, Vouches, Goto, Ask, Answer, Asks, InFlight, memory, inRequest, browser
  <1>3. MemoryKnown'
    BY <1>t, <1>w, SameMemory DEF Shape, Vouches, Goto, Ask, Answer, Asks, InFlight, memory, inRequest, browser
  <1>4. ASSUME NEW s \in Clients PROVE Vouched(s)'
    <2>1. CASE s = t /\ pc'[t] = "fill" /\ why'[t] = "seal"
      BY <1>t, <2>1 DEF Shape, Vouched, Claim, Vouches, Goto, Ask, Answer, Asks, InFlight, memory, inRequest, browser
    <2> QED
      BY <1>t, <1>w, <1>s, <2>1, SameVouched DEF Shape, Vouches, Goto, Ask, Answer, Asks, InFlight, memory, inRequest, browser
  <1>5. ASSUME NEW s \in Clients PROVE Unshown(s)'
    BY <1>t, <1>s DEF Shape, Unshown, Vouches, Goto, Ask, Answer, Asks, InFlight, memory, inRequest, browser
  <1>6. ASSUME NEW s \in Clients PROVE Proved(s)'
    <2>1. CASE s = t /\ login'[t] # NoUser
      <3>1. proof'[t] = Claim(t) /\ login'[t] = Claim(t).user /\ rq' = rq /\ jar' = jar
        BY <1>t, <2>1 DEF Shape, TypeOK, Vouches, Goto, Ask, Answer, Asks, InFlight, memory, inRequest, browser
      <3>2. Held(world, Times(t), Claim(t))
        BY <1>s DEF Vouched, Vouches, Asks
      <3> QED
        BY <1>w, <2>1, <3>1, <3>2 DEF Proved, Claim, Times, Held, Holds
    <2>2. CASE s = t /\ login'[t] = NoUser
      BY <2>2 DEF Proved
    <2> QED
      BY <1>t, <1>w, <1>s, <2>1, <2>2, SameProved DEF Shape, TypeOK, Vouches, Goto, Ask, Answer, Asks, InFlight, memory, inRequest, browser
  <1>7. ASSUME NEW s \in Clients PROVE Readers(s)'
    BY <1>t, <1>w, <1>s, SameReaders DEF Shape, Unshown, Vouches, Goto, Ask, Answer, Asks, InFlight, memory, inRequest, browser
  <1> QED
    BY <1>1, <1>2, <1>3, <1>4, <1>5, <1>6, <1>7 DEF IInv

\* Responds: nobody is logged in or shown anything yet.
LEMMA RespondsKeeps ==
  ASSUME IInv, NEW t \in Clients, Responds(t)
  PROVE  IInv'
  <1>t. TypeOK /\ Shape /\ MemoryKnown /\ InFlight(t)
    BY DEF IInv, Responds, Asks, InFlight
  <1>s. ASSUME NEW s \in Clients
        PROVE  Vouched(s) /\ Unshown(s) /\ Proved(s) /\ Readers(s)
    BY DEF IInv
  <1>w. world' = world /\ era' = era /\ since' = since /\ Now' = Now
    BY DEF Responds, memory, inRequest, Now
  <1>1. TypeOK'
    BY <1>t, <1>w DEF TypeOK, Responds, Goto, Ask, Answer, Asks, InFlight, memory, inRequest, browser
  <1>2. Shape'
    BY <1>t DEF Shape, Responds, Goto, Ask, Answer, Asks, InFlight, memory, inRequest, browser
  <1>3. MemoryKnown'
    BY <1>t, <1>w, SameMemory DEF Shape, Responds, Goto, Ask, Answer, Asks, InFlight, memory, inRequest, browser
  <1>4. ASSUME NEW s \in Clients PROVE Vouched(s)'
    BY <1>t, <1>w, <1>s, SameVouched DEF Shape, Responds, Goto, Ask, Answer, Asks, InFlight, memory, inRequest, browser
  <1>5. ASSUME NEW s \in Clients PROVE Unshown(s)'
    BY <1>t, <1>s DEF Shape, Unshown, Responds, Goto, Ask, Answer, Asks, InFlight, memory, inRequest, browser
  <1>6. ASSUME NEW s \in Clients PROVE Proved(s)'
    BY <1>t, <1>w, <1>s, SameProved DEF Shape, Responds, Goto, Ask, Answer, Asks, InFlight, memory, inRequest, browser
  <1>7. ASSUME NEW s \in Clients PROVE Readers(s)'
    BY <1>t, <1>w, <1>s, SameReaders DEF Shape, Unshown, Responds, Goto, Ask, Answer, Asks, InFlight, memory, inRequest, browser
  <1> QED
    BY <1>1, <1>2, <1>3, <1>4, <1>5, <1>6, <1>7 DEF IInv

\* Checks: a good password held at a time of the request's.
LEMMA ChecksKeeps ==
  ASSUME IInv, NEW t \in Clients, Checks(t)
  PROVE  IInv'
  <1>t. TypeOK /\ Shape /\ MemoryKnown /\ InFlight(t)
    BY DEF IInv, Checks, Asks, InFlight
  <1>s. ASSUME NEW s \in Clients
        PROVE  Vouched(s) /\ Unshown(s) /\ Proved(s) /\ Readers(s)
    BY DEF IInv
  <1>w. world' = world /\ era' = era /\ since' = since /\ Now' = Now
    BY DEF Checks, memory, inRequest, Now
  <1>1. TypeOK'
    BY <1>t, <1>w DEF TypeOK, Checks, Goto, Ask, Answer, Asks, InFlight, memory, inRequest, browser
  <1>2. Shape'
    BY <1>t DEF Shape, Checks, Goto, Ask, Answer, Asks, InFlight, memory, inRequest, browser
  <1>3. MemoryKnown'
    BY <1>t, <1>w, SameMemory DEF Shape, Checks, Goto, Ask, Answer, Asks, InFlight, memory, inRequest, browser
  <1>4. ASSUME NEW s \in Clients PROVE Vouched(s)'
    <2>1. CASE s = t /\ pc'[t] = "fill" /\ why'[t] = "enter"
      <3> DEFINE form == rq[t].form
      <3>1. Good(form) /\ Claim(t)' = [user |-> form.user, pw |-> form.pw]
        BY <1>t, <2>1 DEF Shape, Claim, Checks, Goto, Ask, Answer, Asks, InFlight, memory, inRequest, browser
      <3>2. Held(world, Times(t), form)
        BY <1>t, <3>1, GoodHeld
      <3>3. Held(world', Times(t)', Claim(t)')
        BY <1>w, <3>1, <3>2 DEF Times, Held, Holds
      <3> QED
        BY <2>1, <3>3 DEF Vouched
    <2> QED
      BY <1>t, <1>w, <1>s, <2>1, SameVouched DEF Shape, Checks, Goto, Ask, Answer, Asks, InFlight, memory, inRequest, browser
  <1>5. ASSUME NEW s \in Clients PROVE Unshown(s)'
    BY <1>t, <1>s DEF Shape, Unshown, Checks, Goto, Ask, Answer, Asks, InFlight, memory, inRequest, browser
  <1>6. ASSUME NEW s \in Clients PROVE Proved(s)'
    BY <1>t, <1>w, <1>s, SameProved DEF Shape, Checks, Goto, Ask, Answer, Asks, InFlight, memory, inRequest, browser
  <1>7. ASSUME NEW s \in Clients PROVE Readers(s)'
    BY <1>t, <1>w, <1>s, SameReaders DEF Shape, Unshown, Checks, Goto, Ask, Answer, Asks, InFlight, memory, inRequest, browser
  <1> QED
    BY <1>1, <1>2, <1>3, <1>4, <1>5, <1>6, <1>7 DEF IInv

\* Seals: the proof is of the form, not of the old cookie.
LEMMA SealsKeeps ==
  ASSUME IInv, NEW t \in Clients, Seals(t)
  PROVE  IInv'
  <1>t. TypeOK /\ Shape /\ MemoryKnown /\ InFlight(t)
    BY DEF IInv, Seals, Asks, InFlight
  <1>s. ASSUME NEW s \in Clients
        PROVE  Vouched(s) /\ Unshown(s) /\ Proved(s) /\ Readers(s)
    BY DEF IInv
  <1>w. world' = world /\ era' = era /\ since' = since /\ Now' = Now
    BY DEF Seals, memory, inRequest, Now
  <1>1. TypeOK'
    <2>1. \A s \in Clients : jar'[s] = NoProof \/ (jar'[s].user \in Users /\ jar'[s].pw # NoEntry)
      BY <1>t DEF Shape, TypeOK, Seals, Entry
    <2> QED
      BY <1>t, <1>w, <2>1 DEF TypeOK, Seals, Goto, Ask, Answer, Asks, InFlight, memory, inRequest, browser
  <1>2. Shape'
    BY <1>t DEF Shape, Seals, Goto, Ask, Answer, Asks, InFlight, memory, inRequest, browser
  <1>3. MemoryKnown'
    BY <1>t, <1>w, SameMemory DEF Shape, Seals, Goto, Ask, Answer, Asks, InFlight, memory, inRequest, browser
  <1>4. ASSUME NEW s \in Clients PROVE Vouched(s)'
    BY <1>t, <1>w, <1>s, SameVouched DEF Shape, Seals, Goto, Ask, Answer, Asks, InFlight, memory, inRequest, browser
  <1>5. ASSUME NEW s \in Clients PROVE Unshown(s)'
    BY <1>t, <1>s DEF Shape, Unshown, Seals, Goto, Ask, Answer, Asks, InFlight, memory, inRequest, browser
  <1>6. ASSUME NEW s \in Clients PROVE Proved(s)'
    <2>1. CASE s = t
      <3>1. proof[t] = [user |-> rq[t].form.user, pw |-> rq[t].form.pw]
        BY <1>s DEF Vouched, Claim, Seals, Asks
      <3>2. proof' = proof /\ login' = login /\ rq' = rq
        BY DEF Seals
      <3> QED
        BY <1>s, <1>w, <2>1, <3>1, <3>2 DEF Proved, Times, Held, Holds
    <2> QED
      BY <1>t, <1>w, <1>s, <2>1, SameProved DEF Shape, Seals, Goto, Ask, Answer, Asks, InFlight, memory, inRequest, browser
  <1>7. ASSUME NEW s \in Clients PROVE Readers(s)'
    BY <1>t, <1>w, <1>s, SameReaders DEF Shape, Unshown, Seals, Goto, Ask, Answer, Asks, InFlight, memory, inRequest, browser
  <1> QED
    BY <1>1, <1>2, <1>3, <1>4, <1>5, <1>6, <1>7 DEF IInv

\* LogsOut: the default user needs no proof.
LEMMA LogsOutKeeps ==
  ASSUME IInv, NEW t \in Clients, LogsOut(t)
  PROVE  IInv'
  <1>t. TypeOK /\ Shape /\ MemoryKnown /\ InFlight(t)
    BY DEF IInv, LogsOut, Asks, InFlight
  <1>s. ASSUME NEW s \in Clients
        PROVE  Vouched(s) /\ Unshown(s) /\ Proved(s) /\ Readers(s)
    BY DEF IInv
  <1>w. world' = world /\ era' = era /\ since' = since /\ Now' = Now
    BY DEF LogsOut, memory, inRequest, Now
  <1>1. TypeOK'
    BY <1>t, <1>w, UsersAssumption DEF TypeOK, LogsOut, Goto, Ask, Answer, Asks, InFlight, memory, inRequest, browser
  <1>2. Shape'
    BY <1>t DEF Shape, LogsOut, Goto, Ask, Answer, Asks, InFlight, memory, inRequest, browser
  <1>3. MemoryKnown'
    BY <1>t, <1>w, SameMemory DEF Shape, LogsOut, Goto, Ask, Answer, Asks, InFlight, memory, inRequest, browser
  <1>4. ASSUME NEW s \in Clients PROVE Vouched(s)'
    BY <1>t, <1>w, <1>s, SameVouched DEF Shape, LogsOut, Goto, Ask, Answer, Asks, InFlight, memory, inRequest, browser
  <1>5. ASSUME NEW s \in Clients PROVE Unshown(s)'
    BY <1>t, <1>s DEF Shape, Unshown, LogsOut, Goto, Ask, Answer, Asks, InFlight, memory, inRequest, browser
  <1>6. ASSUME NEW s \in Clients PROVE Proved(s)'
    BY <1>t, <1>w, <1>s, SameProved DEF Shape, Proved, TypeOK, LogsOut, Goto, Ask, Answer, Asks, InFlight, memory, inRequest, browser
  <1>7. ASSUME NEW s \in Clients PROVE Readers(s)'
    BY <1>t, <1>w, <1>s, SameReaders DEF Shape, Unshown, LogsOut, Goto, Ask, Answer, Asks, InFlight, memory, inRequest, browser
  <1> QED
    BY <1>1, <1>2, <1>3, <1>4, <1>5, <1>6, <1>7 DEF IInv


\* The memory is emptied for everybody: nothing is left to be accounted for.
LEMMA FinishesKeeps ==
  ASSUME IInv, NEW t \in Clients, Finishes(t)
  PROVE  IInv'
  <1>t. TypeOK /\ Shape
    BY DEF IInv
  <1>s. ASSUME NEW s \in Clients
        PROVE  Vouched(s) /\ Unshown(s) /\ Proved(s) /\ Readers(s)
    BY DEF IInv
  <1>w. world' = world /\ era' = era /\ since' = since /\ Now' = Now
    BY DEF Finishes, inRequest, Now
  <1>1. TypeOK'
    BY <1>t, <1>w DEF TypeOK, Finishes, inRequest, browser, Goto, Now
  <1>2. Shape'
    BY <1>t DEF Shape, Finishes, inRequest, browser, Goto
  <1>3. MemoryKnown'
    <2>1. book' = 0 /\ pcache' = <<>>
      BY DEF Finishes
    <2>2. DOMAIN pcache' = {}
      BY <2>1
    <2> QED
      BY <2>1, <2>2 DEF MemoryKnown
  <1>4. ASSUME NEW s \in Clients PROVE Vouched(s)'
    BY <1>t, <1>w, <1>s, SameVouched DEF Shape, Finishes, inRequest, browser, Goto
  <1>5. ASSUME NEW s \in Clients PROVE Unshown(s)'
    BY <1>t, <1>s DEF Shape, Unshown, Finishes, inRequest, browser, Goto
  <1>6. ASSUME NEW s \in Clients PROVE Proved(s)'
    BY <1>t, <1>w, <1>s, SameProved DEF Shape, Finishes, inRequest, browser, Goto
  <1>7. ASSUME NEW s \in Clients PROVE Readers(s)'
    BY <1>t, <1>w, <1>s, SameReaders DEF Shape, Finishes, inRequest, browser, Goto
  <1> QED
    BY <1>1, <1>2, <1>3, <1>4, <1>5, <1>6, <1>7 DEF IInv

\* The beginning of the beginning of a path is the beginning of the path.
LEMMA Beginning ==
  ASSUME NEW S, NEW s \in Seq(S), NEW k \in 0 .. Len(s), NEW n \in 0 .. k
  PROVE  SubSeq(SubSeq(s, 1, k), 1, n) = SubSeq(s, 1, n)
  <1> DEFINE u == SubSeq(s, 1, k)
  <1>1. u \in Seq(S) /\ Len(u) = k /\ \A i \in 1 .. k : u[i] = s[i]
    BY SubSeqProperties
  <1>2. /\ SubSeq(u, 1, n) \in Seq(S) /\ Len(SubSeq(u, 1, n)) = n
        /\ \A i \in 1 .. n : SubSeq(u, 1, n)[i] = u[i]
    BY <1>1, SubSeqProperties
  <1>3. /\ SubSeq(s, 1, n) \in Seq(S) /\ Len(SubSeq(s, 1, n)) = n
        /\ \A i \in 1 .. n : SubSeq(s, 1, n)[i] = s[i]
    BY SubSeqProperties
  <1> QED
    BY <1>1, <1>2, <1>3, SeqEqual

\* A file is no virtual page, and what is above it is its directory's and itself.
LEMMA FileAbove ==
  ASSUME NEW f \in Files
  PROVE  /\ Me(f) = f /\ f # <<>> /\ f \notin Dirs /\ Speaker(f) = f
         /\ f \in Seq(STRING) /\ Parent(f) \in Dirs /\ Me(Parent(f)) = Parent(f)
         /\ f \in Above(f) /\ Above(f) = Above(Parent(f)) \cup {f}
         /\ \A q \in Above(f) : Len(q) <= Len(f) /\ (Len(q) = Len(f) => q = f)
  <1>1. f \in Pages /\ f \notin Dirs /\ f # <<>> /\ f \in Seq(STRING)
    BY TreeAssumption DEF Pages
  <1>2. Parent(f) = SubSeq(f, 1, Len(f) - 1) /\ Parent(f) \in Dirs
    BY <1>1, TreeAssumption DEF Parent
  <1>3. Me(f) = f /\ Me(Parent(f)) = Parent(f) /\ Speaker(f) = f
    BY <1>1, <1>2 DEF Me, IsVirtual, Pages, Speaker
  <1>4. Len(f) \in Nat \ {0}
    BY <1>1, EmptySeq
  <1>f. SubSeq(f, 1, Len(f)) = f
    BY <1>1, SubSeqFull
  <1>5. Parent(f) \in Seq(STRING) /\ Len(Parent(f)) = Len(f) - 1
    <2>1. \A i \in 1 .. Len(f) - 1 : f[i] \in STRING
      BY <1>1, <1>4, ElementOfSeq
    <2>2. 1 \in Int /\ Len(f) - 1 \in Int
      BY <1>4
    <2>3. /\ SubSeq(f, 1, Len(f) - 1) \in Seq(STRING)
          /\ Len(SubSeq(f, 1, Len(f) - 1)) = IF 1 <= Len(f) - 1 THEN Len(f) - 1 - 1 + 1 ELSE 0
      BY <2>1, <2>2, SubSeqProperties
    <2>m. \A m \in Nat \ {0} : (IF 1 <= m - 1 THEN m - 1 - 1 + 1 ELSE 0) = m - 1
      OBVIOUS
    <2>4. (IF 1 <= Len(f) - 1 THEN Len(f) - 1 - 1 + 1 ELSE 0) = Len(f) - 1
      BY <1>4, <2>m
    <2> QED
      BY <1>2, <2>3, <2>4, Zenon
  <1>6. \A n \in 0 .. Len(f) - 1 : SubSeq(Parent(f), 1, n) = SubSeq(f, 1, n)
    BY <1>1, <1>2, <1>4, Beginning
  <1>7. Above(f) = Above(Parent(f)) \cup {f}
    <2>1. \A n \in 0 .. Len(f) : n = Len(f) \/ n \in 0 .. Len(f) - 1
      BY <1>4
    <2>2. \A n \in 0 .. Len(f) - 1 : n \in 0 .. Len(f)
      BY <1>4
    <2>3. Len(f) \in 0 .. Len(f)
      BY <1>4
    <2> QED
      BY <1>f, <1>5, <1>6, <2>1, <2>2, <2>3 DEF Above
  <1>8. f \in Above(f)
    BY <1>7
  <1>9. ASSUME NEW q \in Above(f) PROVE Len(q) <= Len(f) /\ (Len(q) = Len(f) => q = f)
    <2>1. PICK n \in 0 .. Len(f) : q = SubSeq(f, 1, n)
      BY DEF Above
    <2>2. Len(q) = n
      BY <1>1, <2>1, SubSeqProperties
    <2>3. n <= Len(f)
      BY <1>4
    <2> QED
      BY <1>f, <2>1, <2>2, <2>3
  <1> QED
    BY <1>1, <1>2, <1>3, <1>7, <1>8, <1>9

\* Each way that a view decides admits only those who may read: by the walk
\* from the page, by the macro in it, and by the walk from its directory.
LEMMA ByTheWalk ==
  ASSUME NEW f \in Files, NEW who, NEW acl, AccessOk(f, who, acl)
  PROVE  Admitted(f, who, acl)
  <1>1. {q \in Above(Me(f)) : Says(q, acl)} = Restricting(f, acl)
    BY FileAbove DEF AccessOk, Says, Restricting
  <1> QED
    BY <1>1 DEF AccessOk, PermCheck, Admitted
LEMMA ByTheMacro ==
  ASSUME NEW f \in Files, NEW who, NEW acl, acl[f] # Open, who \in acl[f]
  PROVE  Admitted(f, who, acl)
  <1>1. f \in Restricting(f, acl)
    BY FileAbove DEF Restricting
  <1>2. Nearest(f, Restricting(f, acl))
    BY <1>1, FileAbove DEF Nearest, Restricting
  <1> QED
    BY <1>1, <1>2, FileAbove DEF Admitted
LEMMA ByTheDirectory ==
  ASSUME NEW f \in Files, NEW who, NEW acl, acl[f] = Open, RenderOk(f, who, acl)
  PROVE  Admitted(f, who, acl)
  <1>1. {q \in Above(Parent(f)) : Says(q, acl)} = Restricting(f, acl)
    BY FileAbove DEF Says, Restricting
  <1> QED
    BY <1>1, FileAbove DEF RenderOk, PermCheck, Admitted

LEMMA ShownAdmitted ==
  ASSUME NEW p, NEW v, NEW who, NEW acl, NEW f \in Shown(p, v, who, acl)
  PROVE  f \in Files /\ Admitted(f, who, acl)
  <1>1. CASE v = "source"
    BY <1>1, ByTheWalk DEF Shown
  <1>2. CASE v # "source"
    <2>1. f \in Included(p, v) /\ Renders(f, who, acl)
      BY <1>2 DEF Shown
    <2>2. f \in Files
      BY <2>1 DEF Included, Descendants, Children
    <2> QED
      BY <2>1, <2>2, ByTheMacro, ByTheDirectory DEF Renders
  <1> QED
    BY <1>1, <1>2

\* Who is nobody reads only what is not restricted, and anybody reads that.
LEMMA NobodyReads ==
  ASSUME NEW f \in Files, NEW acl \in [Files -> SUBSET (Users \cup Open)], NEW who,
         Admitted(f, NoUser, acl)
  PROVE  Admitted(f, who, acl)
  <1>1. \A q \in Restricting(f, acl) : NoUser \notin acl[Speaker(q)]
    BY UsersAssumption DEF Restricting
  <1> QED
    BY <1>1 DEF Admitted

\* The decision looks at no other pages than those of the walk.
LEMMA LooksOnly ==
  ASSUME NEW f \in Files, NEW who, NEW acl, NEW acl2,
         \A g \in Walked(f) : acl2[g] = acl[g], Admitted(f, who, acl)
  PROVE  Admitted(f, who, acl2)
  <1>1. \A q \in Above(f) : Speaker(q) \in Files => acl2[Speaker(q)] = acl[Speaker(q)]
    BY FileAbove DEF Walked
  <1>2. Restricting(f, acl2) = Restricting(f, acl)
    BY <1>1 DEF Restricting
  <1>3. \A q \in Restricting(f, acl) : acl2[Speaker(q)] = acl[Speaker(q)]
    BY <1>1 DEF Restricting
  <1> QED
    BY <1>2, <1>3 DEF Admitted

\* Whom the pages in memory admit, the property admits.
LEMMA MayReadText ==
  ASSUME IInv, NEW t \in Clients, InFlight(t), NEW f \in Files, NEW who,
         Admitted(f, who, SeenAcl)
  PROVE  MayRead(world, Times(t), who, f)
  <1> DEFINE at == [g \in Walked(f) |-> IF g \in DOMAIN pcache /\ pcache[g] # 0 THEN pcache[g] ELSE Now]
  <1>1. Remembered(Now)
    BY ReadNow
  <1>2. \A n : Remembered(n) => n \in Times(t)
    BY DEF IInv, TypeOK, Remembered, Times, Now
  <1>3. \A g \in Walked(f) : at[g] \in Times(t)
    BY <1>1, <1>2 DEF IInv, MemoryKnown
  <1>4. at \in [Walked(f) -> Times(t)]
    BY <1>3
  <1>5. \A g \in Walked(f) : g \in Files
    BY DEF Walked
  <1>6. \A g \in Walked(f) : Texts(world, f, at)[g] = SeenAcl[g]
    BY <1>5 DEF Texts, SeenAcl
  <1>7. Admitted(f, who, Texts(world, f, at))
    BY <1>6, LooksOnly
  <1> QED
    BY <1>4, <1>7 DEF MayRead

LEMMA SeenAclType ==
  ASSUME IInv
  PROVE  SeenAcl \in [Files -> SUBSET (Users \cup Open)]
  <1>1. \A n \in 1 .. Now : world[n].acl \in [Files -> SUBSET (Users \cup Open)]
    <2>1. \A n \in 1 .. Len(world) : world[n] \in Edition
      BY ElementOfSeq DEF IInv, TypeOK
    <2> QED
      BY <2>1 DEF Now, Edition
  <1>2. Now \in 1 .. Now
    BY EmptySeq DEF IInv, TypeOK, Now
  <1>3. \A f \in DOMAIN pcache : pcache[f] # 0 => pcache[f] \in 1 .. Now
    BY DEF IInv, MemoryKnown, Remembered
  <1>4. \A f \in Files : SeenAcl[f] \in SUBSET (Users \cup Open)
    BY <1>1, <1>2, <1>3 DEF SeenAcl
  <1> QED
    BY <1>4 DEF SeenAcl

\* Renderings: what is shown, or commented on, is for the reader, by the walk
\* or by the macro, whether he is still in the password file or not.
LEMMA RenderingsKeeps ==
  ASSUME IInv, NEW t \in Clients, Renderings(t)
  PROVE  IInv'
  <1> DEFINE p == PageOf(t)
             v == ViewOf(p, rq[t].url.view)
             who == IF Entry(login[t]) # NoEntry THEN login[t] ELSE NoUser
             texts == Shown(p, v, who, SeenAcl)
             reads == UNION {Walked(f) : f \in Included(p, v) \cup {p}}
  <1>t. TypeOK /\ Shape /\ MemoryKnown /\ InFlight(t)
    BY DEF IInv, Renderings, Asks, InFlight
  <1>s. ASSUME NEW s \in Clients
        PROVE  Vouched(s) /\ Unshown(s) /\ Proved(s) /\ Readers(s)
    BY DEF IInv
  <1>w. /\ world' = world /\ era' = era /\ since' = since /\ Now' = Now /\ book' = book
        /\ rq' = rq /\ login' = login /\ proof' = proof /\ jar' = jar
    BY DEF Renderings, browser, Now
  <1>a. \/ Dies(t) /\ shown' = shown /\ posted' = posted
        \/ /\ shown' = [shown EXCEPT ![t] = texts]
           /\ posted' = [posted EXCEPT ![t] = v = "writecomment" /\ rq[t].method = "POST"
                                              /\ CommentOk(p, who, SeenAcl)]
           /\ debris' = debris /\ pc' = [pc EXCEPT ![t] = "finish"]
    BY DEF Renderings, Answer, Goto
  <1>b. /\ why' = why
        /\ \/ pc' = [pc EXCEPT ![t] = "finish"] /\ debris' = debris
           \/ /\ pc' = [pc EXCEPT ![t] = "done"]
              /\ debris' = IF debris # 0 /\ debris < era[t] THEN debris ELSE era[t]
    BY <1>a DEF Renderings, Answer, Goto, Dies
  <1>c. /\ shown'[t] \in {texts, {}} /\ (posted'[t] => CommentOk(p, who, SeenAcl))
        /\ \A s \in Clients : s # t => shown'[s] = shown[s] /\ posted'[s] = posted[s]
    <2>1. shown[t] = {} /\ ~ posted[t]
      BY <1>s DEF Unshown, Renderings, Asks
    <2> QED
      BY <1>a, <1>t, <2>1 DEF Shape
  <1>1. TypeOK'
    BY <1>t, <1>w, <1>b DEF TypeOK
  <1>2. Shape'
    BY <1>t, <1>w, <1>a, <1>b DEF Shape
  <1>3. MemoryKnown'
    <2>1. \A n : Remembered(n) => Remembered(n)'
      BY <1>t, <1>w, <1>b, StaysRemembered DEF Shape, InFlight
    <2>2. \A n : n = Now => Remembered(n)'
      BY <1>t, <2>1, ReadNow
    <2>3. pcache' = Read(reads)
      BY DEF Renderings
    <2>4. \A q \in DOMAIN pcache' : pcache'[q] # 0 =>
            pcache'[q] = Now \/ (q \in DOMAIN pcache /\ pcache[q] # 0 /\ pcache'[q] = pcache[q])
      BY <2>3 DEF Read
    <2> QED
      BY <1>t, <1>w, <2>1, <2>2, <2>4 DEF MemoryKnown
  <1>4. ASSUME NEW s \in Clients PROVE Vouched(s)'
    BY <1>t, <1>w, <1>b, <1>s, SameVouched DEF Shape
  <1>5. ASSUME NEW s \in Clients PROVE Unshown(s)'
    BY <1>t, <1>s, <1>b, <1>c DEF Shape, Unshown
  <1>6. ASSUME NEW s \in Clients PROVE Proved(s)'
    BY <1>t, <1>w, <1>s, SameProved
  <1>7. ASSUME NEW s \in Clients PROVE Readers(s)'
    <2>1. CASE s # t
      BY <1>t, <1>w, <1>c, <1>s, <2>1, SameReaders
    <2>2. CASE s = t
      <3>1. ASSUME NEW f \in Files, Admitted(f, who, SeenAcl)
            PROVE  MayRead(world, Times(t), login[t], f)
        <4>1. Admitted(f, login[t], SeenAcl)
          BY <3>1, NobodyReads, SeenAclType
        <4> QED
          BY <1>t, <4>1, MayReadText
      <3>2. \A f \in shown'[t] : f \in Files /\ Admitted(f, who, SeenAcl)
        BY <1>c, ShownAdmitted
      <3>3. posted'[t] => p \in Files /\ Admitted(p, who, SeenAcl)
        BY <1>c, ByTheWalk DEF CommentOk
      <3> QED
        BY <1>w, <2>2, <3>1, <3>2, <3>3 DEF Readers, Times, PageOf
    <2> QED
      BY <2>1, <2>2
  <1> QED
    BY <1>1, <1>2, <1>3, <1>4, <1>5, <1>6, <1>7 DEF IInv

\* A request that arrives may speak of what is in memory.
LEMMA ArriveKeeps ==
  ASSUME IInv, NEW t \in Clients, ~ InFlight(t), NEW r, Arrive(t, r)
  PROVE  IInv'
  <1>t. TypeOK /\ Shape /\ MemoryKnown
    BY DEF IInv
  <1>s. ASSUME NEW s \in Clients
        PROVE  Vouched(s) /\ Unshown(s) /\ Proved(s) /\ Readers(s)
    BY DEF IInv
  <1>w. /\ world' = world /\ Now' = Now /\ book' = book /\ pcache' = pcache
        /\ debris' = debris /\ jar' = jar
    BY DEF Arrive, Now
  <1>n. Now \in 1 .. Now /\ Now \in Nat
    BY EmptySeq DEF IInv, TypeOK, Now
  <1>a. /\ rq' = [rq EXCEPT ![t] = r]
        /\ login' = [login EXCEPT ![t] = NoUser] /\ proof' = [proof EXCEPT ![t] = NoProof]
        /\ shown' = [shown EXCEPT ![t] = {}]
    BY DEF Arrive
  <1>f. DOMAIN posted' = Clients /\ ~ posted'[t] /\ \A s \in Clients : s # t => posted'[s] = posted[s]
    <2>1. posted' = [posted EXCEPT ![t] = FALSE] /\ DOMAIN posted = Clients
      BY <1>t DEF Arrive, Shape
    <2> QED
      BY <2>1, Zenon
  <1> DEFINE others == {s \in Clients \ {t} : InFlight(s)}
             ages == {Now} \cup {era[s] : s \in others} \cup ({debris} \ {0})
  <1>c. \/ /\ pc' = [pc EXCEPT ![t] = "done"]
           /\ why' = why /\ era' = era /\ since' = since
        \/ /\ era' = [era EXCEPT ![t] = Now]
           /\ \E age \in ages : (\A n \in ages : age <= n) /\ since' = [since EXCEPT ![t] = age]
           /\ \/ pc' = [pc EXCEPT ![t] = "fill"] /\ why' = [why EXCEPT ![t] = "guest"]
              \/ pc' = [pc EXCEPT ![t] = "open"] /\ why' = why
    BY DEF Arrive
  <1>g. \A a \in ages : a \in 1 .. Now
    BY <1>t, <1>n DEF TypeOK
  <1>o. \A s \in Clients : s # t => /\ pc'[s] = pc[s] /\ why'[s] = why[s]
                                   /\ era'[s] = era[s] /\ since'[s] = since[s]
    BY <1>t, <1>c DEF Shape, TypeOK
  <1>1. TypeOK'
    <2>1. era' \in [Clients -> 1 .. Now] /\ since' \in [Clients -> 1 .. Now]
      BY <1>t, <1>n, <1>c, <1>g DEF TypeOK
    <2> QED
      BY <1>t, <1>w, <1>a, <2>1 DEF TypeOK
  <1>2. Shape'
    BY <1>t, <1>w, <1>a, <1>c, <1>f DEF Shape
  <1>3. MemoryKnown'
    <2>1. ASSUME NEW n, Remembered(n) PROVE Remembered(n)'
      <3>1. n \in 1 .. Now /\ (\E a \in ages : a <= n)
        BY <2>1 DEF Remembered
      <3>2. (debris' # 0 /\ debris' <= n) \/ (\E s \in Clients : InFlight(s)' /\ era'[s] <= n)
        BY <1>o, <1>w, <2>1 DEF Remembered, InFlight
      <3>3. InFlight(t)' => since'[t] <= n
        <4>1. CASE pc' = [pc EXCEPT ![t] = "done"]
          BY <1>t, <4>1 DEF Shape, InFlight
        <4>2. ASSUME NEW age \in ages, \A m \in ages : age <= m, since' = [since EXCEPT ![t] = age]
              PROVE  since'[t] <= n
          <5>1. since'[t] = age
            BY <1>t, <4>2 DEF TypeOK
          <5>2. PICK a \in ages : a <= n
            BY <3>1
          <5>3. age <= a /\ age \in Nat /\ a \in Nat /\ n \in Nat
            BY <1>g, <3>1, <4>2
          <5> QED
            BY <5>1, <5>2, <5>3
        <4> QED
          BY <1>c, <4>1, <4>2
      <3>4. \A s \in Clients : InFlight(s)' => since'[s] <= n
        BY <1>o, <2>1, <3>3 DEF Remembered, InFlight
      <3> QED
        BY <1>w, <3>1, <3>2, <3>4 DEF Remembered
    <2> QED
      BY <1>t, <1>w, <2>1 DEF MemoryKnown
  <1>u. ASSUME NEW s \in Clients, s # t
        PROVE  /\ since'[s] = since[s] /\ pc'[s] = pc[s] /\ why'[s] = why[s]
               /\ proof'[s] = proof[s] /\ rq'[s] = rq[s] /\ jar'[s] = jar[s]
               /\ login'[s] = login[s] /\ shown'[s] = shown[s] /\ posted'[s] = posted[s]
    BY <1>t, <1>o, <1>u, <1>w, <1>a, <1>f DEF Shape, TypeOK
  <1>v. /\ shown'[t] = {} /\ ~ posted'[t] /\ login'[t] = NoUser
        /\ pc'[t] \notin {"fill", "get"} \/ why'[t] = "guest"
    BY <1>t, <1>a, <1>c, <1>f DEF Shape, TypeOK
  <1>4. ASSUME NEW s \in Clients PROVE Vouched(s)'
    BY <1>s, <1>u, <1>v, <1>w, SameVouched DEF Vouched
  <1>5. ASSUME NEW s \in Clients PROVE Unshown(s)'
    BY <1>s, <1>u, <1>v DEF Unshown
  <1>6. ASSUME NEW s \in Clients PROVE Proved(s)'
    BY <1>s, <1>u, <1>v, <1>w, SameProved DEF Proved
  <1>7. ASSUME NEW s \in Clients PROVE Readers(s)'
    BY <1>s, <1>u, <1>v, <1>w, SameReaders DEF Readers
  <1> QED
    BY <1>1, <1>2, <1>3, <1>4, <1>5, <1>6, <1>7 DEF IInv

\* A client that rests keeps its cookie and nothing else.
LEMMA RestKeeps ==
  ASSUME IInv, NEW t \in Clients, Rest(t)
  PROVE  IInv'
  <1>t. TypeOK /\ Shape /\ MemoryKnown
    BY DEF IInv
  <1>s. ASSUME NEW s \in Clients
        PROVE  Vouched(s) /\ Unshown(s) /\ Proved(s) /\ Readers(s)
    BY DEF IInv
  <1>w. /\ world' = world /\ Now' = Now /\ book' = book /\ pcache' = pcache
        /\ debris' = debris /\ jar' = jar
    BY DEF Rest, memory, Now
  <1>n. 1 \in 1 .. Now
    BY EmptySeq DEF IInv, TypeOK, Now
  <1>a. /\ pc[t] = "done" /\ pc' = [pc EXCEPT ![t] = "idle"] /\ why' = [why EXCEPT ![t] = "nothing"]
        /\ rq' = [rq EXCEPT ![t] = Get(Url(<<>>, TRUE, "unset"))]
        /\ era' = [era EXCEPT ![t] = 1] /\ since' = [since EXCEPT ![t] = 1]
        /\ login' = [login EXCEPT ![t] = NoUser] /\ proof' = [proof EXCEPT ![t] = NoProof]
        /\ shown' = [shown EXCEPT ![t] = {}]
    BY DEF Rest
  <1>f. DOMAIN posted' = Clients /\ ~ posted'[t] /\ \A s \in Clients : s # t => posted'[s] = posted[s]
    <2>1. posted' = [posted EXCEPT ![t] = FALSE] /\ DOMAIN posted = Clients
      BY <1>t DEF Rest, Shape
    <2> QED
      BY <2>1, Zenon
  <1>1. TypeOK'
    BY <1>t, <1>w, <1>n, <1>a DEF TypeOK
  <1>2. Shape'
    BY <1>t, <1>w, <1>a, <1>f DEF Shape
  <1>u. ASSUME NEW s \in Clients, s # t
        PROVE  /\ since'[s] = since[s] /\ era'[s] = era[s] /\ pc'[s] = pc[s] /\ why'[s] = why[s]
               /\ proof'[s] = proof[s] /\ rq'[s] = rq[s] /\ jar'[s] = jar[s]
               /\ login'[s] = login[s] /\ shown'[s] = shown[s] /\ posted'[s] = posted[s]
    BY <1>t, <1>u, <1>w, <1>a, <1>f DEF Shape, TypeOK
  <1>v. /\ shown'[t] = {} /\ ~ posted'[t] /\ login'[t] = NoUser /\ pc'[t] = "idle"
        /\ ~ InFlight(t) /\ ~ InFlight(t)'
    BY <1>t, <1>a, <1>f DEF Shape, TypeOK, InFlight
  <1>3. MemoryKnown'
    <2>1. ASSUME NEW n, Remembered(n) PROVE Remembered(n)'
      BY <1>w, <1>u, <1>v, <2>1 DEF Remembered, InFlight
    <2> QED
      BY <1>t, <1>w, <2>1 DEF MemoryKnown
  <1>4. ASSUME NEW s \in Clients PROVE Vouched(s)'
    BY <1>s, <1>u, <1>v, <1>w, SameVouched DEF Vouched
  <1>5. ASSUME NEW s \in Clients PROVE Unshown(s)'
    BY <1>s, <1>u, <1>v DEF Unshown
  <1>6. ASSUME NEW s \in Clients PROVE Proved(s)'
    BY <1>s, <1>u, <1>v, <1>w, SameProved DEF Proved
  <1>7. ASSUME NEW s \in Clients PROVE Readers(s)'
    BY <1>s, <1>u, <1>v, <1>w, SameReaders DEF Readers
  <1> QED
    BY <1>1, <1>2, <1>3, <1>4, <1>5, <1>6, <1>7 DEF IInv

\* What was true of a time stays true of it when there is a new edition.
LEMMA EditKeeps ==
  ASSUME IInv, NEW e \in Editions, Edit(e)
  PROVE  IInv'
  <1>t. TypeOK /\ Shape /\ MemoryKnown
    BY DEF IInv
  <1>s. ASSUME NEW s \in Clients
        PROVE  Vouched(s) /\ Unshown(s) /\ Proved(s) /\ Readers(s)
    BY DEF IInv
  <1>e. e \in Edition /\ world \in Seq(Edition)
    BY <1>t, UsersAssumption DEF TypeOK
  <1>w. /\ world' = Append(world, e) /\ UNCHANGED <<book, pcache, debris, pc, why, era, since>>
        /\ UNCHANGED <<rq, login, proof, shown, posted, jar>>
    BY DEF Edit, memory, inRequest, browser
  <1>n. /\ world' \in Seq(Edition) /\ Now' = Now + 1 /\ Now \in Nat
        /\ \A n \in 1 .. Now : world'[n] = world[n]
    BY <1>e, <1>w, AppendProperties DEF Now
  <1>1. TypeOK'
    <2>1. 1 .. Now \subseteq 1 .. Now' /\ 0 .. Now \subseteq 0 .. Now'
      BY <1>n
    <2>2. world' # <<>>
      BY <1>n, EmptySeq DEF Now
    <2> QED
      BY <1>t, <1>w, <1>n, <2>1, <2>2 DEF TypeOK
  <1>2. Shape'
    BY <1>t, <1>w DEF Shape
  <1>3. MemoryKnown'
    <2>1. ASSUME NEW n, Remembered(n) PROVE Remembered(n)'
      <3>1. n \in 1 .. Now'
        BY <1>n, <2>1 DEF Remembered
      <3> QED
        BY <1>w, <2>1, <3>1 DEF Remembered, InFlight
    <2> QED
      BY <1>t, <1>w, <2>1 DEF MemoryKnown
  <1>m. ASSUME NEW s \in Clients
        PROVE  Times(s) \subseteq Times(s)' /\ \A n \in Times(s) : world'[n] = world[n]
    <2>1. since[s] \in 1 .. Now
      BY <1>t DEF TypeOK
    <2>2. Times(s)' = since[s] .. Now + 1
      BY <1>w, <1>n DEF Times
    <2>3. \A n \in Times(s) : n \in 1 .. Now /\ n \in since[s] .. Now + 1
      BY <1>n, <2>1 DEF Times
    <2> QED
      BY <1>n, <2>2, <2>3
  <1>h. ASSUME NEW s \in Clients, NEW c, Held(world, Times(s), c)
        PROVE  Held(world', Times(s)', c)
    BY <1>m, <1>h, HeldLonger
  <1>4. ASSUME NEW s \in Clients PROVE Vouched(s)'
    BY <1>s, <1>w, <1>h DEF Vouched, Claim
  <1>5. ASSUME NEW s \in Clients PROVE Unshown(s)'
    BY <1>s, <1>w DEF Unshown
  <1>6. ASSUME NEW s \in Clients PROVE Proved(s)'
    BY <1>s, <1>w, <1>h DEF Proved
  <1>7. ASSUME NEW s \in Clients PROVE Readers(s)'
    <2>1. ASSUME NEW f, MayRead(world, Times(s), login[s], f)
          PROVE  MayRead(world', Times(s)', login[s], f)
      BY <1>m, <2>1, ReadLonger
    <2> QED
      BY <1>s, <1>w, <2>1 DEF Readers, PageOf
  <1> QED
    BY <1>1, <1>2, <1>3, <1>4, <1>5, <1>6, <1>7 DEF IInv

LEMMA StillKeeps == IInv /\ UNCHANGED vars => IInv'
  <1> SUFFICES ASSUME IInv, UNCHANGED vars PROVE IInv'
    OBVIOUS
  <1>w. /\ UNCHANGED <<world, book, pcache, debris, pc, why, era, since>>
        /\ UNCHANGED <<rq, login, proof, shown, posted, jar>> /\ Now' = Now
    BY DEF vars, Now
  <1>1. TypeOK' /\ Shape'
    BY <1>w DEF IInv, TypeOK, Shape
  <1>2. MemoryKnown'
    BY <1>w DEF IInv, MemoryKnown, Remembered, InFlight
  <1>3. ASSUME NEW s \in Clients
        PROVE  (Vouched(s) /\ Unshown(s) /\ Proved(s) /\ Readers(s))'
    <2>1. Vouched(s) /\ Unshown(s) /\ Proved(s) /\ Readers(s)
      BY DEF IInv
    <2>2. Vouched(s)' /\ Proved(s)'
      BY <1>w, <2>1, SameVouched, SameProved
    <2>3. Readers(s)' /\ Unshown(s)'
      BY <1>w, <2>1, SameReaders DEF Unshown
    <2> QED
      BY <2>2, <2>3
  <1> QED
    BY <1>1, <1>2, <1>3 DEF IInv

LEMMA Inductive == IInv /\ [Next]_vars => IInv'
  <1> SUFFICES ASSUME IInv, [Next]_vars PROVE IInv'
    OBVIOUS
  <1>1. ASSUME NEW t \in Clients, Steps(t) PROVE IInv'
    <2>1. ASSUME NEW r \in Bookmarks[t], Visit(t, r) PROVE IInv'
      BY <2>1, ArriveKeeps DEF Visit, InFlight
    <2>2. ASSUME NEW u \in answer[t].to, Follow(t, u) PROVE IInv'
      BY <2>2, ArriveKeeps DEF Follow, InFlight
    <2> QED
      BY <1>1, <2>1, <2>2, RestKeeps, FillKeeps, GuestKeeps, OpensKeeps, TakesKeeps, ProvesKeeps,
         VouchesKeeps, RespondsKeeps, ChecksKeeps, SealsKeeps, LogsOutKeeps, RenderingsKeeps,
         FinishesKeeps DEF Steps
  <1> QED
    BY <1>1, EditKeeps, StillKeeps DEF Next

\* At every step of every request the memory is of requests that are there or
\* died, and what is granted on it was true when it was read: the invariant that
\* the theorems below follow from.
THEOREM Invariance == Spec => []IInv
  BY Initial, Inductive, PTL DEF Spec

\* The memory of the process and the requests stay within what they may hold.
THEOREM RequestTypes == Spec => []TypeOK
  <1>1. IInv => TypeOK
    BY DEF IInv
  <1> QED
    BY <1>1, Invariance, PTL

\* Whoever a request runs as has been proved by a cookie or a password that
\* held at a time it may speak of (htmlauth.py), whatever threads and the
\* administrator do meanwhile.
THEOREM LoginsAreProved == Spec => []LoggedInAsProved
  <1>1. IInv => LoggedInAsProved
    BY DEF IInv, Proved, Held, LoggedInAsProved
  <1> QED
    BY <1>1, Invariance, PTL

\* No text goes to whom the pages that decide it did not admit (access.py),
\* whatever view shows it.
THEOREM TextsForReaders == Spec => []OnlyReaders
  <1>1. IInv => OnlyReaders
    BY DEF IInv, Readers, OnlyReaders
  <1> QED
    BY <1>1, Invariance, PTL

(* Which page a URL is, and what the views answer to it. *)

\* What the library says of `<', as a statement about a relation that the provers
\* need not look into.
LEMMA LessIsWellFounded ==
  \E R : IsWellFoundedOn(R, Nat) /\ \A a, b \in Nat : a < b => <<a, b>> \in R
  <1>1. IsWellFoundedOn(OpToRel(<, Nat), Nat)
    BY NatLessThanWellFounded
  <1>2. \A a, b \in Nat : a < b => <<a, b>> \in OpToRel(<, Nat)
    BY DEF OpToRel
  <1> QED
    BY <1>1, <1>2, Zenon
LEMMA LeastOf ==
  ASSUME NEW S, S \subseteq Nat, S # {}
  PROVE  \E n \in S : \A m \in S : n <= m
  <1>1. PICK R : IsWellFoundedOn(R, Nat) /\ \A a, b \in Nat : a < b => <<a, b>> \in R
    BY LessIsWellFounded
  <1>2. \E n \in S : \A m \in S : ~ (<<m, n>> \in R)
    <2>1. IsWellFoundedOn(R, Nat)
      BY <1>1
    <2> QED
      BY <2>1, WFMin
  <1>3. \E n \in S : \A m \in S : n <= m
    <2>1. PICK n \in S : \A m \in S : ~ (<<m, n>> \in R)
      BY <1>2
    <2>2. \A m \in S : ~ (m < n) /\ m \in Nat /\ n \in Nat
      BY <1>1, <2>1
    <2> QED
      BY <2>2
  <1> QED
    BY <1>3
LEMMA LongestIn ==
  ASSUME NEW p \in Seq(STRING), NEW S, S \subseteq Above(p), S # {}
  PROVE  Longest(S) \in S
  <1>1. \A q \in Above(p) : Len(q) \in Nat /\ Len(q) <= Len(p)
    <2>1. ASSUME NEW n \in 0 .. Len(p) PROVE Len(SubSeq(p, 1, n)) = n
      <3>1. \A i \in 1 .. n : p[i] \in STRING
        BY ElementOfSeq, LenProperties
      <3> QED
        BY <3>1, SubSeqProperties, LenProperties
    <2> QED
      BY <2>1, LenProperties DEF Above
  <1> DEFINE L == {Len(p) - Len(q) : q \in S}
  <1>2. L \subseteq Nat /\ L # {} /\ Len(p) \in Nat
    <2>1. \A q \in S : Len(q) \in Nat /\ Len(q) <= Len(p)
      BY <1>1
    <2>2. Len(p) \in Nat
      BY LenProperties
    <2> QED
      BY <2>1, <2>2
  <1>3. PICK n \in L : \A m \in L : n <= m
    BY <1>2, LeastOf
  <1>4. \E q \in S : \A r \in S : Len(r) <= Len(q)
    <2>1. PICK q \in S : n = Len(p) - Len(q)
      BY <1>3
    <2>2. ASSUME NEW r \in S PROVE Len(r) <= Len(q)
      <3>1. Len(p) - Len(r) \in L
        OBVIOUS
      <3>2. Len(p) \in Nat /\ Len(q) \in Nat /\ Len(r) \in Nat
        BY <1>1, <1>2
      <3>3. Len(p) - Len(q) <= Len(p) - Len(r)
        BY <1>3, <2>1, <3>1
      <3> QED
        BY <3>2, <3>3
    <2> QED
      BY <2>2
  <1> QED
    BY <1>4 DEF Longest

LEMMA MeThere ==
  ASSUME NEW p \in Seq(STRING)
  PROVE  /\ Me(p) \in Seq(STRING)
         /\ IsVirtual(p) => Me(p) \in Dirs
         /\ Exists(p) => Me(p) \in Pages
         /\ p \in Pages => Me(p) = p
  <1>1. <<>> \in Above(p) \cap Pages
    <2>1. SubSeq(p, 1, 0) = <<>> /\ 0 \in 0 .. Len(p)
      BY EmptySeq, LenProperties
    <2> QED
      BY <2>1, TreeAssumption DEF Above, Pages
  <1>2. Stem(p) \in Above(p) \cap Pages
    BY <1>1, LongestIn DEF Stem
  <1>3. Stem(p) \in Seq(STRING)
    BY <1>2, TreeAssumption
  <1> QED
    BY <1>2, <1>3 DEF Me, IsVirtual, Exists, Pages

PubViews == {"normal", "blog", "blogdir", "index"}
LEMMA ViewFacts ==
  /\ PubDirViews = PubViews
  /\ \A v \in PubViews : ViewExists(v) /\ KnownViews[v].onDir
  /\ \A v \in {"normal", "showcomments"} : ViewExists(v) /\ KnownViews[v].onFile
  /\ ~ KnownViews["source"].onDir
  /\ Accepts("normal", "GET") /\ ~ Accepts("login", "GET") /\ ~ Accepts("logout", "GET")
  /\ \A v : ViewExists(v) /\ Accepts(v, "POST") => v \in {"writecomment", "login", "logout"}
  <1> DEFINE names == {"normal", "blog", "blogdir", "index", "atom", "search", "source", "history",
                       "showcomments", "writecomment", "login", "logout"}
  <1>1. DOMAIN KnownViews = names
    BY DEF KnownViews
  <1>2. \A v \in PubViews : KnownViews[v].onDir /\ KnownViews[v].pubDir
    BY DEF KnownViews, View, PubViews
  <1>3. \A v \in names \ PubViews : ~ KnownViews[v].pubDir
    BY DEF KnownViews, View, PubViews
  <1>4. \A v \in {"normal", "showcomments"} : KnownViews[v].onFile
    BY DEF KnownViews, View
  <1>5. ~ KnownViews["source"].onDir /\ KnownViews["normal"].canGET /\ ~ KnownViews["login"].canGET /\ ~ KnownViews["logout"].canGET
    BY DEF KnownViews, View
  <1>6. \A v \in names : KnownViews[v].canPOST => v \in {"writecomment", "login", "logout"}
    BY DEF KnownViews, View
  <1> QED
    BY <1>1, <1>2, <1>3, <1>4, <1>5, <1>6 DEF PubDirViews, ViewExists, PubViews, Accepts

LEMMA PrefPublic ==
  ASSUME NEW p \in Seq(STRING)
  PROVE  PrefView(p) \in PubViews \cup {"unset"}
  <1> DEFINE wants(q) == {v \in PrefFlag[q] \cap PubDirViews : v = "index" => q = p}
             flagged == {q \in Above(Me(p)) \cap Dirs : wants(q) # {}}
  <1>1. flagged # {} => Longest(flagged) \in flagged
    BY MeThere, LongestIn
  <1>2. flagged # {} => (CHOOSE v \in wants(Longest(flagged)) : TRUE) \in PubDirViews
    BY <1>1
  <1>3. PrefView(p) = IF IsDir(p) /\ flagged # {} THEN CHOOSE v \in wants(Longest(flagged)) : TRUE ELSE "unset"
    BY DEF PrefView
  <1>4. flagged # {} => PrefView(p) \in PubDirViews \cup {"unset"}
    BY <1>2, <1>3, Zenon
  <1>5. flagged = {} => PrefView(p) = "unset"
    BY <1>3
  <1> QED
    BY <1>4, <1>5, ViewFacts

LEMMA AnswerCodes ==
  ASSUME NEW x, NEW y, x = Redirect(y) \/ x = Page
  PROVE  x.code \in {200, 301}
  <1>1. CASE x = Redirect(y)
    BY <1>1 DEF Redirect
  <1>2. CASE x = Page
    BY <1>2 DEF Page
  <1> QED
    BY <1>1, <1>2

LEMMA FineAnswer ==
  ASSUME NEW u, NEW y, Respond(u) = Redirect(y) \/ Respond(u) = Page
  PROVE  Respond(u).code \in {200, 301}
  BY AnswerCodes

LEMMA RootIsDir == IsDir(<<>>) = TRUE
  BY TreeAssumption DEF IsDir, Me, IsVirtual, Pages

LEMMA KeptIsFit ==
  ASSUME NEW p, NEW v
  PROVE  /\ KeptView(p, v) \in {"unset", v}
         /\ KeptView(p, v) # "unset" => PageViewOk(p, KeptView(p, v))
  BY DEF KeptView

\* A view that a redirect may keep for the page.
Fits(p, v) == v # "unset" => IsDir(p) /\ PageViewOk(p, v)

\* Where a page that is there is shown, under the view it prefers or one that
\* suits the directory, there is no error.
LEMMA WellShown ==
  ASSUME NEW p \in Seq(STRING), ~ PageError(p), NEW v, Fits(p, v),
         NEW u \in Urls, u.path = p, u.slash <=> IsDir(p), u.view = v, ~ MagicUrl(u)
  PROVE  /\ ViewOf(p, v) # "source"
         /\ Respond(u).code \in {200, 301}
  <1> DEFINE w == ViewOf(p, v)
  <1>1. IsDir(p) => ViewExists(w) /\ KnownViews[w].onDir
    <2>1. CASE v = "unset"
      BY <2>1, PrefPublic, ViewFacts DEF ViewOf, PubViews
    <2>2. CASE v # "unset"
      BY <2>2 DEF Fits, ViewOf, PageViewOk, ViewBad
    <2> QED
      BY <2>1, <2>2
  <1>2. ~ IsDir(p) => w \in {"normal", "showcomments"}
    BY DEF Fits, ViewOf
  <1>3. w # "source"
    BY <1>1, <1>2, ViewFacts
  <1>4. ~ ViewBad(p, w)
    <2>1. CASE v = "unset"
      <3>1. w # "history" /\ ViewExists(w)
        BY <1>2, <2>1, PrefPublic, ViewFacts DEF ViewOf, PubViews
      <3> QED
        BY <1>1, <1>2, <3>1, ViewFacts DEF ViewBad
    <2>2. CASE v # "unset"
      BY <2>2 DEF Fits, ViewOf, PageViewOk
    <2> QED
      BY <2>1, <2>2
  <1>5. w # "unset"
    <2>1. CASE v = "unset"
      BY <1>2, <2>1, PrefPublic DEF ViewOf, PubViews
    <2>2. CASE v # "unset"
      BY <2>2 DEF Fits, ViewOf
    <2> QED
      BY <2>1, <2>2
  <1>6. ~ Declined(u, w)
    BY DEF Fits, Declined, PageViewOk, ViewOf
  <1>7. ~ (IsDir(p) /\ ~ u.slash) /\ ~ (~ IsDir(p) /\ u.slash)
    BY DEF IsDir
  <1>8. ~ IsRedirect(Me(p)) /\ ~ IsRedirect(Child(p, "__index"))
    BY DEF MagicUrl
  <1>9. Respond(u) = IF RedirectsRoot(p, w) THEN Redirect(Nuri(WikiRoot)) ELSE Page
    <2>1. u.path = p /\ u.view = v /\ ViewOf(u.path, u.view) = w
      OBVIOUS
    <2>2. ~ ViewBad(p, w)
      BY <1>4
    <2> HIDE DEF w
    <2> QED
      BY <1>5, <1>6, <1>7, <1>8, <2>1, <2>2 DEF Respond
  <1>10. Respond(u) = Redirect(Nuri(WikiRoot)) \/ Respond(u) = Page
    BY <1>9
  <1>11. Respond(u).code \in {200, 301}
    BY <1>10, FineAnswer
  <1> QED
    BY <1>3, <1>11

(* Where redirects lead. *)

Carried(to, u) == [to EXCEPT !.quirks = @ \cup (u.quirks \cap OfClient)]
OfUtm(u) == IF "utm" \in u.quirks THEN 16 ELSE 0
OfHost(u) == IF "other-host" \in u.quirks THEN 16 ELSE 0
OfForm(u) == IF u.view \in {"login", "logout"} THEN 8 ELSE 0
OfRoot(u) == IF u.path = <<>> THEN 4 ELSE 0
OfSlash(u) == IF u.slash THEN 0 ELSE 2
OfView(u) == IF u.view = "unset" THEN 0 ELSE 1
Rank(u) == OfUtm(u) + OfHost(u) + OfForm(u) + OfRoot(u) + OfSlash(u) + OfView(u)
Excused(u) == MagicUrl(u) \/ OwnFront(u)

Asked(r) == r.url \in Urls /\ r.method \in {"GET", "POST"} /\ r.form.page \in Seq(STRING)
RobotComments(u) == u.view = "writecomment" /\ "robot" \in u.quirks
Welcome(u) ==
  /\ Stack(Get(u)) = Nothing /\ u.view \notin {"login", "logout"}
  /\ ViewOf(u.path, u.view) # "source" /\ Respond(u).code \in {200, 301}
WellSent(r, to) ==
  LET c == Carried(to, r.url)
  IN /\ to \in Urls
     /\ ~ Excused(r.url) => Rank(c) < Rank(r.url)
     /\ Refused(Get(c)) => RobotComments(c)
     /\ ByView(r.url) /\ ~ MagicUrl(c) => Welcome(c)

LEMMA CarriedIs ==
  ASSUME NEW to \in Urls, NEW u \in Urls
  PROVE  /\ Carried(to, u) \in Urls
         /\ Carried(to, u).path = to.path /\ Carried(to, u).slash = to.slash
         /\ Carried(to, u).view = to.view
         /\ Carried(to, u).quirks = to.quirks \cup (u.quirks \cap OfClient)
  BY DEF Carried, Urls

\* The rank falls with the first of what it weighs that is no longer there.
LEMMA RankFalls ==
  ASSUME NEW u \in Urls, NEW c \in Urls,
         "utm" \in c.quirks => "utm" \in u.quirks, "other-host" \in c.quirks => "other-host" \in u.quirks,
         c.view \in {"unset", u.view},
         \/ "utm" \in u.quirks /\ "utm" \notin c.quirks
         \/ "other-host" \in u.quirks /\ "other-host" \notin c.quirks
         \/ u.view \in {"login", "logout"} /\ c.view = "unset"
         \/ u.path = <<>> /\ u.slash /\ c.path # <<>>
         \/ c.path = u.path /\ ~ u.slash /\ c.slash
         \/ c.path = u.path /\ u.slash = c.slash /\ u.view # "unset" /\ c.view = "unset"
  PROVE  Rank(c) < Rank(u)
  <1>1. /\ OfUtm(u) \in {0, 16} /\ OfHost(u) \in {0, 16} /\ OfForm(u) \in {0, 8}
        /\ OfRoot(u) \in {0, 4} /\ OfSlash(u) \in {0, 2} /\ OfView(u) \in {0, 1}
    BY DEF OfUtm, OfHost, OfForm, OfRoot, OfSlash, OfView
  <1>2. /\ OfUtm(c) \in {0, 16} /\ OfHost(c) \in {0, 16} /\ OfForm(c) \in {0, 8}
        /\ OfRoot(c) \in {0, 4} /\ OfSlash(c) \in {0, 2} /\ OfView(c) \in {0, 1}
    BY DEF OfUtm, OfHost, OfForm, OfRoot, OfSlash, OfView
  <1>3. OfUtm(c) <= OfUtm(u) /\ OfHost(c) <= OfHost(u)
    BY DEF OfUtm, OfHost
  <1>4. OfForm(c) <= OfForm(u) /\ OfView(c) <= OfView(u)
    BY DEF OfForm, OfView
  <1>5. CASE "utm" \in u.quirks /\ "utm" \notin c.quirks
    <2>1. OfUtm(u) = 16 /\ OfUtm(c) = 0
      BY <1>5 DEF OfUtm
    <2> QED
      BY <1>1, <1>2, <1>3, <1>4, <2>1 DEF Rank
  <1>6. CASE "other-host" \in u.quirks /\ "other-host" \notin c.quirks
    <2>1. OfHost(u) = 16 /\ OfHost(c) = 0
      BY <1>6 DEF OfHost
    <2> QED
      BY <1>1, <1>2, <1>3, <1>4, <2>1 DEF Rank
  <1>7. CASE u.view \in {"login", "logout"} /\ c.view = "unset"
    <2>1. OfForm(u) = 8 /\ OfForm(c) = 0 /\ OfView(u) = 1 /\ OfView(c) = 0
      BY <1>7 DEF OfForm, OfView
    <2> QED
      BY <1>1, <1>2, <1>3, <1>4, <2>1 DEF Rank
  <1>8. CASE u.path = <<>> /\ u.slash /\ c.path # <<>>
    <2>1. OfRoot(u) = 4 /\ OfRoot(c) = 0 /\ OfSlash(u) = 0
      BY <1>8 DEF OfRoot, OfSlash
    <2> QED
      BY <1>1, <1>2, <1>3, <1>4, <2>1 DEF Rank
  <1>9. CASE c.path = u.path /\ ~ u.slash /\ c.slash
    <2>1. OfRoot(u) = OfRoot(c) /\ OfSlash(u) = 2 /\ OfSlash(c) = 0
      BY <1>9 DEF OfRoot, OfSlash
    <2> QED
      BY <1>1, <1>2, <1>3, <1>4, <2>1 DEF Rank
  <1>10. CASE c.path = u.path /\ u.slash = c.slash /\ u.view # "unset" /\ c.view = "unset"
    <2>1. OfRoot(u) = OfRoot(c) /\ OfSlash(u) = OfSlash(c) /\ OfView(u) = 1 /\ OfView(c) = 0
      BY <1>10 DEF OfRoot, OfSlash, OfView
    <2> QED
      BY <1>1, <1>2, <1>3, <1>4, <2>1 DEF Rank
  <1> QED
    BY <1>5, <1>6, <1>7, <1>8, <1>9, <1>10

\* Whoever was not refused is not when he comes back for less.
LEMMA StillAdmitted ==
  ASSUME NEW r, Asked(r), ~ Refused(r), r.method = "POST" => PostError(r) = Nothing,
         NEW c \in Urls, c.view \in {"unset", r.url.view}, c.quirks \subseteq r.url.quirks, Refused(Get(c))
  PROVE  RobotComments(c)
  <1>1. Get(c).url = c /\ Get(c).method = "GET"
    BY DEF Get
  <1>2. c.view \in BadRobotViews /\ "robot" \in c.quirks
    BY <1>1 DEF Refused, BadRobotViews
  <1>3. r.method = "POST" /\ c.view = r.url.view
    BY <1>2 DEF Refused, BadRobotViews, Asked
  <1>4. r.url.view \in {"writecomment", "login", "logout"}
    <2>1. \A n \in {403, 404, 405} : Error(n) # Nothing
      BY DEF Error, Nothing
    <2> QED
      BY <1>3, <2>1, ViewFacts DEF PostError
  <1> QED
    BY <1>2, <1>3, <1>4 DEF BadRobotViews, RobotComments

LEMMA WithoutIs ==
  ASSUME NEW u \in Urls, NEW q
  PROVE  /\ Without(u, q) \in Urls
         /\ Without(u, q).view = u.view /\ Without(u, q).quirks = u.quirks \ {q}
  <1>1. Unquoted(u.path) \in Seq(STRING)
    BY RequestsAssumption DEF Unquoted, Urls
  <1> QED
    BY <1>1 DEF Without, Urls

Slashed(u) == [u EXCEPT !.slash = TRUE, !.view = "unset"]
LEMMA SlashedIs ==
  ASSUME NEW u \in Urls
  PROVE  /\ Slashed(u) \in Urls /\ Slashed(u).view = "unset" /\ Slashed(u).quirks = u.quirks
         /\ Slashed(u).path = u.path /\ Slashed(u).slash
  BY DEF Slashed, Urls

\* What the stack redirects, it does not refuse, and a view never sees.
LEMMA StackSends ==
  ASSUME NEW r, Asked(r), NEW to \in Stack(r).to
  PROVE  WellSent(r, to)
  <1> DEFINE u == r.url
             c == Carried(to, u)
  <1>e. \A n : Error(n).to = {} /\ Page.to = {}
    BY DEF Error, Page
  <1>r. \A x : Redirect(x).to = {x} /\ Redirect(x) # Nothing
    BY DEF Redirect, Nothing, Error
  <1>n. Error(404) # Nothing /\ Error(403) # Nothing /\ Page # Nothing
    BY DEF Error, Nothing, Page
  <1>1. ~ Refused(r) /\ ~ Insane(u) /\ (r.method = "POST" => PostError(r) = Nothing)
    BY <1>e DEF Stack, PostError
  <1>2. \/ "utm" \in u.quirks /\ to = Without(u, "utm")
        \/ "other-host" \in u.quirks /\ to = Without(u, "other-host")
        \/ u.path = <<>> /\ ~ u.slash /\ to = Slashed(u)
    BY <1>1, <1>e, <1>r DEF Stack, Nothing, Slashed
  <1>u. u \in Urls
    BY DEF Asked
  <1>3. /\ to \in Urls /\ to.view \in {"unset", u.view} /\ to.quirks \subseteq u.quirks
    BY <1>2, <1>u, SlashedIs, WithoutIs
  <1>4. /\ c \in Urls /\ c.path = to.path /\ c.slash = to.slash /\ c.view = to.view
        /\ c.quirks = to.quirks \cup (u.quirks \cap OfClient)
    BY <1>3, CarriedIs DEF Asked
  <1>5. Refused(Get(c)) => RobotComments(c)
    BY <1>1, <1>3, <1>4, StillAdmitted
  <1>6. Rank(c) < Rank(u)
    <2>1. "utm" \notin OfClient /\ "other-host" \notin OfClient
      BY DEF OfClient
    <2>2. \/ "utm" \in u.quirks /\ "utm" \notin c.quirks
          \/ "other-host" \in u.quirks /\ "other-host" \notin c.quirks
          \/ c.path = u.path /\ ~ u.slash /\ c.slash
      BY <1>2, <1>4, <1>u, SlashedIs, <2>1, WithoutIs
    <2> QED
      BY <1>3, <1>4, <2>1, <2>2, RankFalls DEF Asked
  <1>7. ~ ByView(u)
    <2>1. Get(u).url = u /\ Get(u).method = "GET"
      BY DEF Get
    <2>2. CASE "utm" \in u.quirks \/ "other-host" \in u.quirks
      BY <1>r, <1>n, <2>1, <2>2 DEF ByView, Stack
    <2>3. CASE u.path = <<>> /\ ~ u.slash
      BY <1>r, <1>n, <2>1, <2>3 DEF ByView, Stack
    <2> QED
      BY <1>2, <2>2, <2>3
  <1> QED
    BY <1>3, <1>5, <1>6, <1>7 DEF WellSent

LEMMA UriIs ==
  ASSUME NEW p \in Seq(STRING), NEW v, v \in STRING \cup {"unset"}
  PROVE  /\ Uri(p, v) \in Urls /\ Uri(p, v).path = p /\ Uri(p, v).quirks = {}
         /\ Uri(p, v).slash = IsDir(p) /\ Uri(p, v).view = KeptView(p, v)
         /\ Nuri(p) \in Urls /\ Nuri(p).path = p /\ Nuri(p).quirks = {}
         /\ Nuri(p).slash = IsDir(p) /\ Nuri(p).view = "unset"
  <1>1. IsDir(p) \in BOOLEAN
    BY DEF IsDir
  <1>2. KeptView(p, v) \in STRING \cup {"unset"}
    BY KeptIsFit
  <1> QED
    BY <1>1, <1>2 DEF Uri, Nuri, Url, Urls

\* What Stack passes on to the views.
LEMMA StackPasses ==
  ASSUME NEW r, Asked(r), Stack(r) = Nothing
  PROVE  /\ ~ Refused(r) /\ (r.method = "POST" => PostError(r) = Nothing)
         /\ r.url.quirks \cap {"insane", "utm", "other-host", "static", "outside"} = {}
         /\ ViewExists(ViewOf(<<>>, r.url.view))
         /\ Accepts(IF r.url.view = "unset" THEN "normal" ELSE r.url.view, r.method)
         /\ r.url.path = <<>> => r.url.slash
  <1>r. \A x : Redirect(x) # Nothing
    BY DEF Redirect, Nothing, Error
  <1>n. Error(404) # Nothing /\ Error(403) # Nothing /\ Page # Nothing
    BY DEF Error, Nothing, Page
  <1>1. ~ Refused(r) /\ ~ Insane(r.url) /\ (r.method = "POST" => PostError(r) = Nothing)
    BY <1>n DEF Stack
  <1>2. "utm" \notin r.url.quirks /\ "other-host" \notin r.url.quirks
    BY <1>1, <1>r DEF Stack
  <1>3. "static" \notin r.url.quirks /\ "outside" \notin r.url.quirks /\ ViewExists(ViewOf(<<>>, r.url.view))
    BY <1>1, <1>2, <1>n DEF Stack
  <1>4. Accepts(IF r.url.view = "unset" THEN "normal" ELSE r.url.view, r.method)
    BY <1>1, <1>2, <1>3, <1>n DEF Stack
  <1>5. r.url.path = <<>> => r.url.slash
    BY <1>1, <1>2, <1>3, <1>4, <1>r DEF Stack
  <1> QED
    BY <1>1, <1>2, <1>3, <1>4, <1>5 DEF Insane

\* Where a request goes on to a page that it may ask for, it is let through.
LEMMA PassedOn ==
  ASSUME NEW u \in Urls, Stack(Get(u)) = Nothing,
         NEW c \in Urls, c.view \in {"unset", u.view}, c.quirks \subseteq u.quirks,
         c.path = <<>> => c.slash
  PROVE  Stack(Get(c)) = Nothing
  <1>1. \A x : Get(x).url = x /\ Get(x).method = "GET" /\ Get(x).form.page = <<>>
    BY DEF Get, NoForm
  <1>2. Asked(Get(u))
    BY <1>1, EmptySeq DEF Asked
  <1>3. /\ ~ Refused(Get(u)) /\ u.quirks \cap {"insane", "utm", "other-host", "static", "outside"} = {}
        /\ ViewExists(ViewOf(<<>>, u.view)) /\ Accepts(IF u.view = "unset" THEN "normal" ELSE u.view, "GET")
    BY <1>1, <1>2, StackPasses
  <1>4. ~ Refused(Get(c)) /\ ~ Insane(c)
    BY <1>1, <1>3 DEF Refused, BadRobotViews, Insane
  <1>5. ViewExists(ViewOf(<<>>, c.view))
    <2>1. CASE c.view = "unset"
      BY <2>1, PrefPublic, ViewFacts, EmptySeq DEF ViewOf, PubViews
    <2>2. CASE c.view = u.view
      BY <1>3, <2>2
    <2> QED
      BY <2>1, <2>2
  <1>6. Accepts(IF c.view = "unset" THEN "normal" ELSE c.view, "GET")
    BY <1>3, ViewFacts
  <1> QED
    BY <1>1, <1>3, <1>4, <1>5, <1>6 DEF Stack

\* What a view redirects of its own accord is let through, and is a page.
LEMMA RespondSends ==
  ASSUME NEW r, Asked(r), Stack(r) = Nothing, r.url.view \notin {"login", "logout"},
         NEW to \in Respond(r.url).to
  PROVE  WellSent(r, to)
  <1> DEFINE u == r.url
             p == u.path
             c == Carried(to, u)
  <1>e. \A n : Error(n).to = {} /\ Page.to = {}
    BY DEF Error, Page
  <1>r. \A x : Redirect(x).to = {x}
    BY DEF Redirect
  <1>u. u \in Urls /\ p \in Seq(STRING) /\ u.view \in STRING \cup {"unset"} /\ u.slash \in BOOLEAN
    BY DEF Asked, Urls
  <1>s. ~ Refused(r) /\ (r.method = "POST" => PostError(r) = Nothing) /\ (p = <<>> => u.slash)
    BY StackPasses
  <1> DEFINE Root == p = <<>> /\ WikiRoot \in Pages \ Broken /\ to = Nuri(WikiRoot)
             Slash == ~ PageError(p) /\ IsDir(p) /\ ~ u.slash /\ to = Uri(p, u.view)
             Bare == ~ PageError(p) /\ IsDir(p) /\ u.slash /\ u.view # "unset" /\ to = Nuri(p)
             Author == MagicUrl(u) /\ \E q \in Pages : to = Uri(q, u.view)
  <1>m. ASSUME NEW q, q \in DOMAIN Target, to \in Magic(q, u.view).to
        PROVE  \E g \in Pages : to = Uri(g, u.view)
    <2>1. Target[q] # NoPath /\ Target[q] # <<"elsewhere">>
      BY <1>m, <1>e DEF Magic
    <2>2. Target[q] \in Pages
      BY <1>m, <2>1, TreeAssumption
    <2>3. to = Uri(Target[q], u.view)
      BY <1>m, <2>1, <1>r DEF Magic
    <2> QED
      BY <2>2, <2>3
  <1>1. Root \/ Slash \/ Bare \/ Author
    <2>1. ~ PageError(p)
      BY <1>e DEF Respond
    <2> DEFINE v == ViewOf(p, u.view)
               special == IF ViewBad(p, v) THEN "unset" ELSE v
    <2>2. CASE RedirectsRoot(p, special)
      <3>1. to = Nuri(WikiRoot)
        BY <2>1, <2>2, <1>r DEF Respond
      <3> QED
        BY <2>2, <3>1 DEF RedirectsRoot
    <2>3. CASE ~ RedirectsRoot(p, special) /\ IsDir(p) /\ ~ u.slash
      BY <2>1, <2>3, <1>r DEF Respond
    <2>4. CASE ~ RedirectsRoot(p, special) /\ ~ (IsDir(p) /\ ~ u.slash)
      <3>1. ~ (~ IsDir(p) /\ u.slash)
        BY <2>1, <2>4, <1>e DEF Respond
      <3>2. CASE Declined(u, v)
        <4>1. to = Nuri(p)
          BY <2>1, <2>4, <3>1, <3>2, <1>r DEF Respond
        <4> QED
          BY <2>1, <2>4, <3>2, <4>1 DEF Declined
      <3>3. CASE ~ Declined(u, v)
        <4>1. \/ IsRedirect(Me(p)) /\ to \in Magic(Me(p), u.view).to
              \/ IsRedirect(Child(p, "__index")) /\ to \in Magic(Child(p, "__index"), u.view).to
          BY <2>1, <2>4, <3>1, <3>3, <1>e DEF Respond
        <4> QED
          BY <1>m, <4>1 DEF IsRedirect, MagicUrl
      <3> QED
        BY <3>2, <3>3
    <2> QED
      BY <2>2, <2>3, <2>4
  <1>p. Pages \subseteq Seq(STRING)
    BY TreeAssumption
  <1>2. /\ to \in Urls /\ to.view \in {"unset", u.view} /\ to.quirks = {}
        /\ to.slash = IsDir(to.path)
    BY <1>1, <1>p, <1>u, UriIs, KeptIsFit
  <1>3. /\ c \in Urls /\ c.path = to.path /\ c.slash = to.slash /\ c.view = to.view
        /\ c.quirks = u.quirks \cap OfClient
    BY <1>2, <1>u, CarriedIs
  <1>4. Refused(Get(c)) => RobotComments(c)
    BY <1>2, <1>3, <1>s, StillAdmitted
  <1>5. ASSUME ~ Excused(u) PROVE Rank(c) < Rank(u)
    <2>1. "utm" \notin c.quirks /\ "other-host" \notin c.quirks
      BY <1>3 DEF OfClient
    <2>2. ~ Author /\ (p = <<>> => WikiRoot # <<>>)
      BY <1>5 DEF Excused, OwnFront
    <2>3. \/ u.path = <<>> /\ u.slash /\ c.path # <<>>
          \/ c.path = u.path /\ ~ u.slash /\ c.slash
          \/ c.path = u.path /\ u.slash = c.slash /\ u.view # "unset" /\ c.view = "unset"
      <3>1. CASE Root
        BY <3>1, <1>3, <1>p, <1>s, <2>2, UriIs
      <3>2. CASE Slash
        BY <3>2, <1>3, <1>u, UriIs
      <3>3. CASE Bare
        <4>1. c.path = u.path /\ u.slash = TRUE /\ c.slash = IsDir(p) /\ c.view = "unset"
          BY <3>3, <1>3, <1>u, UriIs
        <4>2. IsDir(p) = TRUE
          BY <3>3 DEF IsDir
        <4> QED
          BY <3>3, <4>1, <4>2
      <3> QED
        BY <1>1, <2>2, <3>1, <3>2, <3>3
    <2> QED
      BY <1>2, <1>3, <1>u, <2>1, <2>3, RankFalls
  <1>6. ASSUME ByView(u), ~ MagicUrl(c) PROVE Welcome(c)
    <2>1. ~ Author /\ Stack(Get(u)) = Nothing
      BY <1>6 DEF ByView
    <2>2. ~ PageError(to.path) /\ Fits(to.path, to.view) /\ to.path \in Seq(STRING)
      <3>1. CASE Root
        BY <3>1, <1>p, <1>u, UriIs DEF PageError, Exists, Displayable, Fits
      <3>2. CASE Slash
        BY <3>2, <1>u, UriIs, KeptIsFit DEF Fits
      <3>3. CASE Bare
        BY <3>3, <1>u, UriIs DEF Fits
      <3> QED
        BY <1>1, <2>1, <3>1, <3>2, <3>3
    <2>3. c.path = <<>> => c.slash
      BY <1>2, <1>3, RootIsDir
    <2>4. Stack(Get(c)) = Nothing
      BY <1>2, <1>3, <1>u, <2>1, <2>3, PassedOn
    <2>5. ViewOf(c.path, c.view) # "source" /\ Respond(c).code \in {200, 301}
      BY <1>2, <1>3, <1>6, <2>2, WellShown
    <2>6. c.view \notin {"login", "logout"}
      BY <1>2, <1>3
    <2> QED
      BY <2>4, <2>5, <2>6 DEF Welcome
  <1> QED
    BY <1>2, <1>4, <1>5, <1>6 DEF WellSent

\* Where a form of login or logout goes back to.
LEMMA FormSends ==
  ASSUME NEW r, Asked(r), Stack(r) = Nothing, r.url.view \in {"login", "logout"}
  PROVE  WellSent(r, Nuri(r.form.page))
  <1> DEFINE u == r.url
             to == Nuri(r.form.page)
             c == Carried(to, u)
  <1>u. u \in Urls /\ u.view \in STRING \cup {"unset"} /\ r.form.page \in Seq(STRING)
    BY DEF Asked, Urls
  <1>1. to \in Urls /\ to.view = "unset" /\ to.quirks = {}
    BY <1>u, UriIs
  <1>2. /\ c \in Urls /\ c.path = to.path /\ c.slash = to.slash /\ c.view = to.view
        /\ c.quirks = u.quirks \cap OfClient
    BY <1>1, <1>u, CarriedIs
  <1>3. Rank(c) < Rank(u)
    <2>1. "utm" \notin c.quirks /\ "other-host" \notin c.quirks
      BY <1>2 DEF OfClient
    <2> QED
      BY <1>1, <1>2, <1>u, <2>1, RankFalls
  <1>4. Refused(Get(c)) => RobotComments(c)
    <2>1. ~ Refused(r) /\ (r.method = "POST" => PostError(r) = Nothing)
      BY StackPasses
    <2> QED
      BY <1>1, <1>2, <2>1, StillAdmitted
  <1>5. ~ ByView(u)
    <2>1. Get(u).url = u /\ Get(u).method = "GET" /\ Get(u).form.page = <<>>
      BY DEF Get, NoForm
    <2>2. Asked(Get(u))
      BY <1>u, <2>1, EmptySeq DEF Asked
    <2>3. ~ Accepts(u.view, "GET")
      BY ViewFacts
    <2> QED
      BY <2>1, <2>2, <2>3, StackPasses DEF ByView
  <1> QED
    BY <1>1, <1>3, <1>4, <1>5 DEF WellSent

(* The course of a client through its redirects. *)

Descends(s) ==
  \A i, j \in DOMAIN s : i < j /\ (\A k \in i .. j - 1 : ~ Excused(s[k])) => Rank(s[j]) < Rank(s[i])
\* A request that a redirect led to.
Sent(s, r) ==
  /\ r = Get(r.url)
  /\ Refused(r) => RobotComments(r.url)
  /\ ByView(s[Len(s) - 1]) /\ ~ MagicUrl(r.url) => Welcome(r.url)
Journey(s, r) ==
  /\ s \in Seq(Urls) /\ s # <<>> /\ s[Len(s)] = r.url
  /\ Descends(s)
  /\ Len(s) > 1 => Sent(s, r)
Answered(r, a) ==
  /\ \A to \in a.to : WellSent(r, to)
  /\ r = Get(r.url) /\ Welcome(r.url) => a.code \in {200, 301, 500}
AtForm(t) == pc[t] = "leave" \/ (pc[t] \in {"fill", "get"} /\ why[t] \in {"check", "enter", "seal", "bye"})
Course(t) ==
  /\ Asked(rq[t])
  /\ IF pc[t] = "idle" THEN trail[t] = <<>> ELSE Journey(trail[t], rq[t])
  /\ InFlight(t) => Stack(rq[t]) = Nothing
  /\ AtForm(t) => rq[t].url.view \in {"login", "logout"}
  /\ pc[t] \in {"finish", "done"} => Answered(rq[t], answer[t])
Courses ==
  /\ DOMAIN answer = Clients /\ DOMAIN trail = Clients
  /\ \A t \in Clients : Course(t)

LEMMA RankIsNumber == \A u : Rank(u) \in Nat
  BY DEF Rank, OfUtm, OfHost, OfForm, OfRoot, OfSlash, OfView

\* A trail is longer by the URL that the last one led to.
LEMMA Longer ==
  ASSUME NEW s \in Seq(Urls), s # <<>>, NEW c \in Urls
  PROVE  /\ Append(s, c) \in Seq(Urls) /\ Append(s, c) # <<>> /\ Len(Append(s, c)) = Len(s) + 1
         /\ Append(s, c)[Len(s) + 1] = c /\ Len(s) \in Nat \ {0}
         /\ \A i \in 1 .. Len(s) : Append(s, c)[i] = s[i]
         /\ DOMAIN s = 1 .. Len(s) /\ DOMAIN Append(s, c) = 1 .. Len(s) + 1
  <1>1. Len(s) \in Nat /\ DOMAIN s = 1 .. Len(s) /\ Len(s) # 0
    BY EmptySeq, LenProperties
  <1>2. Append(s, c) \in Seq(Urls) /\ Len(Append(s, c)) = Len(s) + 1
    BY AppendProperties
  <1>3. Append(s, c)[Len(s) + 1] = c /\ \A i \in 1 .. Len(s) : Append(s, c)[i] = s[i]
    BY AppendProperties
  <1>4. Append(s, c) # <<>> /\ DOMAIN Append(s, c) = 1 .. Len(s) + 1
    BY <1>1, <1>2, EmptySeq, LenProperties
  <1> QED
    BY <1>1, <1>2, <1>3, <1>4

LEMMA DescendsOn ==
  ASSUME NEW s \in Seq(Urls), s # <<>>, NEW c \in Urls, Descends(s),
         ~ Excused(s[Len(s)]) => Rank(c) < Rank(s[Len(s)])
  PROVE  Descends(Append(s, c))
  <1> DEFINE n == Len(s)
             s2 == Append(s, c)
  <1>1. n \in Nat \ {0} /\ DOMAIN s = 1 .. n /\ DOMAIN s2 = 1 .. n + 1
    BY Longer
  <1>2. s2[n + 1] = c /\ \A i \in 1 .. n : s2[i] = s[i]
    BY Longer
  <1>3. SUFFICES ASSUME NEW i \in 1 .. n + 1, NEW j \in 1 .. n + 1, i < j,
                        \A k \in i .. j - 1 : ~ Excused(s2[k])
                 PROVE  Rank(s2[j]) < Rank(s2[i])
    BY <1>1 DEF Descends
  <1> HIDE DEF n, s2
  <1>4. CASE j # n + 1
    <2>1. i \in 1 .. n /\ j \in 1 .. n /\ \A k \in i .. j - 1 : k \in 1 .. n
      BY <1>1, <1>3, <1>4
    <2>2. \A k \in i .. j - 1 : ~ Excused(s[k])
      BY <1>2, <1>3, <2>1
    <2>3. Rank(s[j]) < Rank(s[i])
      BY <1>1, <1>3, <2>1, <2>2 DEF Descends
    <2> QED
      BY <1>2, <2>1, <2>3
  <1>5. CASE j = n + 1
    <2>1. i \in 1 .. n /\ n \in i .. j - 1 /\ n \in 1 .. n
      BY <1>1, <1>3, <1>5
    <2>2. ~ Excused(s[n])
      BY <1>2, <1>3, <2>1
    <2>3. Rank(c) < Rank(s[n])
      BY <2>2 DEF n
    <2>4. Rank(s[n]) <= Rank(s[i])
      <3>1. CASE i = n
        BY <3>1, RankIsNumber
      <3>2. CASE i # n
        <4>1. i < n /\ \A k \in i .. n - 1 : k \in 1 .. n /\ k \in i .. j - 1
          BY <1>1, <1>5, <2>1, <3>2
        <4>2. \A k \in i .. n - 1 : ~ Excused(s[k])
          BY <1>2, <1>3, <4>1
        <4>3. Rank(s[n]) < Rank(s[i])
          BY <1>1, <2>1, <4>1, <4>2 DEF Descends
        <4> QED
          BY <4>3, RankIsNumber
      <3> QED
        BY <3>1, <3>2
    <2>5. Rank(c) < Rank(s[i])
      BY <2>3, <2>4, RankIsNumber
    <2> QED
      BY <1>2, <1>5, <2>1, <2>5
  <1> QED
    BY <1>4, <1>5

Own(t) == <<pc[t], why[t], rq[t], answer[t], trail[t]>>
LeavesOthers(t) ==
  /\ \A s \in Clients \ {t} : Own(s)' = Own(s)
  /\ DOMAIN answer' = Clients /\ DOMAIN trail' = Clients

\* What another client does is not on the way of this one.
LEMMA CourseStays ==
  ASSUME NEW t, Course(t), Own(t)' = Own(t)
  PROVE  Course(t)'
  <1>1. pc'[t] = pc[t] /\ why'[t] = why[t] /\ rq'[t] = rq[t] /\ answer'[t] = answer[t] /\ trail'[t] = trail[t]
    BY DEF Own
  <1> QED
    BY <1>1 DEF Course, AtForm, InFlight

\* A step that handles a request leaves the way to it as it is.
LEMMA CourseHandled ==
  ASSUME NEW t, Course(t), InFlight(t), rq' = rq, trail' = trail, pc'[t] # "idle",
         AtForm(t)' => rq[t].url.view \in {"login", "logout"},
         pc'[t] \in {"finish", "done"} => Answered(rq[t], answer'[t])
  PROVE  Course(t)'
  BY DEF Course, InFlight

\* An answer that is an error or a page leads nowhere.
LEMMA AnswersNothing ==
  ASSUME NEW r
  PROVE  /\ Answered(r, Error(500))
         /\ Answered(r, Page)
         /\ ~ Welcome(r.url) => \A n : Answered(r, Error(n))
  BY DEF Answered, Error, Page

LEMMA AnswersForm ==
  ASSUME NEW t, Course(t), AtForm(t), InFlight(t)
  PROVE  Answered(rq[t], [code |-> 303, to |-> {Nuri(rq[t].form.page)}])
  BY FormSends DEF Course, Answered, Welcome

LEMMA AnswersView ==
  ASSUME NEW t, Course(t), InFlight(t), rq[t].url.view \notin {"login", "logout"}
  PROVE  Answered(rq[t], Respond(rq[t].url))
  BY RespondSends DEF Course, Answered, Welcome

LEMMA ArriveCourse ==
  ASSUME NEW t \in Clients, Shape, DOMAIN answer = Clients, NEW r, Asked(r), Arrive(t, r),
         DOMAIN trail' = Clients, \A s \in Clients \ {t} : trail'[s] = trail[s],
         Journey(trail'[t], r)
  PROVE  Course(t)' /\ LeavesOthers(t)
  <1>1. /\ rq' = [rq EXCEPT ![t] = r] /\ answer' = [answer EXCEPT ![t] = Stack(r)]
        /\ DOMAIN pc = Clients /\ DOMAIN rq = Clients /\ DOMAIN why = Clients
    BY DEF Arrive, Shape
  <1>2. rq'[t] = r /\ answer'[t] = Stack(r)
    BY <1>1
  <1>3. CASE Stack(r) # Nothing
    <2>1. pc' = [pc EXCEPT ![t] = "done"] /\ UNCHANGED why
      BY <1>3 DEF Arrive
    <2>2. pc'[t] = "done"
      BY <1>1, <2>1
    <2>3. Answered(r, Stack(r))
      <3>1. \A to \in Stack(r).to : WellSent(r, to)
        BY StackSends
      <3>2. r = Get(r.url) => ~ Welcome(r.url)
        BY <1>3 DEF Welcome
      <3> QED
        BY <3>1, <3>2 DEF Answered
    <2>4. Course(t)'
      BY <1>2, <2>2, <2>3 DEF Course, InFlight, AtForm
    <2> QED
      BY <1>1, <2>1, <2>4 DEF LeavesOthers, Own
  <1>4. CASE Stack(r) = Nothing
    <2>1. \/ pc' = [pc EXCEPT ![t] = "fill"] /\ why' = [why EXCEPT ![t] = "guest"]
          \/ pc' = [pc EXCEPT ![t] = "open"] /\ UNCHANGED why
      BY <1>4 DEF Arrive
    <2>2. pc'[t] = "open" \/ (pc'[t] = "fill" /\ why'[t] = "guest")
      BY <1>1, <2>1
    <2>3. Course(t)'
      BY <1>2, <1>4, <2>2 DEF Course, InFlight, AtForm
    <2> QED
      BY <1>1, <2>1, <2>3 DEF LeavesOthers, Own
  <1> QED
    BY <1>3, <1>4

LEMMA VisitCourse ==
  ASSUME IInv, Courses, NEW t \in Clients, NEW r, Visit(t, r)
  PROVE  Course(t)' /\ LeavesOthers(t)
  <1>1. r \in Bookmarks[t] /\ trail' = [trail EXCEPT ![t] = <<r.url>>] /\ Arrive(t, r)
    BY DEF Visit
  <1>2. Asked(r) /\ r.url \in Urls
    BY <1>1, RequestsAssumption DEF Asked
  <1>3. Journey(<<r.url>>, r)
    <2>1. <<r.url>> \in Seq(Urls) /\ Len(<<r.url>>) = 1 /\ <<r.url>> # <<>> /\ <<r.url>>[1] = r.url
      BY <1>2
    <2>2. Descends(<<r.url>>)
      BY DEF Descends
    <2> QED
      BY <2>1, <2>2 DEF Journey
  <1> QED
    BY <1>1, <1>2, <1>3, ArriveCourse DEF IInv, Courses

LEMMA FollowCourse ==
  ASSUME IInv, Courses, NEW t \in Clients, NEW u, Follow(t, u)
  PROVE  Course(t)' /\ LeavesOthers(t)
  <1> DEFINE v == rq[t].url
             to == Carried(u, v)
  <1>1. /\ pc[t] = "done" /\ u \in answer[t].to
        /\ trail' = [trail EXCEPT ![t] = Append(@, to)] /\ Arrive(t, Get(to))
    BY DEF Follow, Carried
  <1>2. /\ Asked(rq[t]) /\ Journey(trail[t], rq[t]) /\ Answered(rq[t], answer[t])
        /\ DOMAIN trail = Clients /\ DOMAIN answer = Clients
    BY <1>1 DEF Courses, Course
  <1>3. WellSent(rq[t], u)
    BY <1>1, <1>2 DEF Answered
  <1>4. /\ u \in Urls /\ to \in Urls /\ v \in Urls
        /\ ~ Excused(v) => Rank(to) < Rank(v)
        /\ Refused(Get(to)) => RobotComments(to)
        /\ ByView(v) /\ ~ MagicUrl(to) => Welcome(to)
    BY <1>2, <1>3, CarriedIs DEF WellSent, Asked
  <1>5. Get(to).url = to /\ Asked(Get(to))
    BY <1>4, EmptySeq DEF Get, NoForm, Asked
  <1>6. Journey(Append(trail[t], to), Get(to))
    <2> DEFINE s == trail[t]
               s2 == Append(s, to)
    <2>1. s \in Seq(Urls) /\ s # <<>> /\ s[Len(s)] = v /\ Descends(s)
      BY <1>2 DEF Journey
    <2>2. s2 \in Seq(Urls) /\ s2 # <<>> /\ Len(s2) = Len(s) + 1 /\ s2[Len(s) + 1] = to /\ Len(s) \in Nat \ {0}
      BY <1>4, <2>1, Longer
    <2>3. s2[Len(s2) - 1] = v
      <3>1. Len(s2) - 1 = Len(s) /\ Len(s) \in 1 .. Len(s)
        BY <2>2
      <3>2. s2[Len(s)] = s[Len(s)]
        BY <1>4, <2>1, <3>1, Longer
      <3> QED
        BY <2>1, <3>1, <3>2
    <2>4. Descends(s2)
      BY <1>4, <2>1, DescendsOn
    <2>5. Sent(s2, Get(to))
      BY <1>4, <1>5, <2>3 DEF Sent
    <2> QED
      BY <1>5, <2>2, <2>4, <2>5 DEF Journey
  <1> HIDE DEF to
  <1> QED
    BY <1>1, <1>2, <1>5, <1>6, ArriveCourse DEF IInv

LEMMA RestCourse ==
  ASSUME IInv, Courses, NEW t \in Clients, Rest(t)
  PROVE  Course(t)' /\ LeavesOthers(t)
  <1> DEFINE r == Get(Url(<<>>, TRUE, "unset"))
  <1>1. DOMAIN pc = Clients /\ DOMAIN why = Clients /\ DOMAIN rq = Clients /\ DOMAIN trail = Clients /\ DOMAIN answer = Clients
    BY DEF IInv, Shape, Courses
  <1>2. /\ pc' = [pc EXCEPT ![t] = "idle"] /\ trail' = [trail EXCEPT ![t] = <<>>]
        /\ answer' = [answer EXCEPT ![t] = Nothing]
        /\ rq' = [rq EXCEPT ![t] = r]
        /\ why' = [why EXCEPT ![t] = "nothing"]
    BY DEF Rest
  <1>3. pc'[t] = "idle" /\ trail'[t] = <<>> /\ rq'[t] = r
    BY <1>1, <1>2
  <1>4. Asked(r)
    BY EmptySeq DEF Asked, Get, Url, Urls, NoForm
  <1>5. Course(t)'
    BY <1>3, <1>4 DEF Course, InFlight, AtForm
  <1> QED
    BY <1>1, <1>2, <1>5 DEF LeavesOthers, Own

\* Of the actions of a request that is there: which clients they leave alone.
Handling(t) ==
  \/ Fill(t) \/ Guest(t) \/ Opens(t) \/ Takes(t) \/ Proves(t) \/ Vouches(t)
  \/ Responds(t) \/ Checks(t) \/ Seals(t) \/ LogsOut(t) \/ Renderings(t) \/ Finishes(t)
LEMMA HandlingLeaves ==
  ASSUME IInv, Courses, NEW t \in Clients, Handling(t)
  PROVE  LeavesOthers(t) /\ rq' = rq /\ trail' = trail
  <1>1. /\ DOMAIN pc = Clients /\ DOMAIN why = Clients
        /\ DOMAIN answer = Clients /\ DOMAIN trail = Clients
    BY DEF IInv, Shape, Courses
  <1>2. rq' = rq /\ trail' = trail
    BY Zenon DEF Handling, Fill, Guest, Opens, Takes, Proves, Vouches, Responds, Checks, Seals, LogsOut,
                 Renderings, Finishes, inRequest, browser
  <1>3. \/ pc' = pc \/ \E x : pc' = [pc EXCEPT ![t] = x]
    BY Zenon DEF Handling, Fill, Guest, Opens, Takes, Proves, Vouches, Responds, Checks, Seals, LogsOut,
                 Renderings, Finishes, Goto, Answer, Ask, AfterPage, Dies
  <1>4. \/ why' = why \/ \E x : why' = [why EXCEPT ![t] = x]
    BY Zenon DEF Handling, Fill, Guest, Opens, Takes, Proves, Vouches, Responds, Checks, Seals, LogsOut,
                 Renderings, Finishes, Goto, Answer, Ask, AfterPage, Dies
  <1>5. \/ answer' = answer \/ \E x : answer' = [answer EXCEPT ![t] = x]
    BY Zenon DEF Handling, Fill, Guest, Opens, Takes, Proves, Vouches, Responds, Checks, Seals, LogsOut,
                 Renderings, Finishes, Answer, Dies, inRequest
  <1>6. /\ DOMAIN answer' = Clients
        /\ \A s \in Clients \ {t} : pc'[s] = pc[s] /\ why'[s] = why[s] /\ answer'[s] = answer[s]
    BY <1>1, <1>3, <1>4, <1>5
  <1> QED
    BY <1>1, <1>2, <1>6 DEF LeavesOthers, Own

LEMMA HandlingCourse ==
  ASSUME IInv, Courses, NEW t \in Clients, Handling(t)
  PROVE  Course(t)'
  <1> DEFINE a == answer'[t]
             r == rq[t]
             v == r.url.view
             form == [code |-> 303, to |-> {Nuri(r.form.page)}]
             Does ==
               /\ InFlight(t) /\ pc'[t] # "idle"
               /\ AtForm(t)' => v \in {"login", "logout"}
               /\ pc'[t] \in {"finish", "done"} => Answered(r, a)
  <1>d. /\ DOMAIN pc = Clients /\ DOMAIN why = Clients
        /\ DOMAIN answer = Clients
    BY DEF IInv, Shape, Courses
  <1>c. Course(t)
    BY DEF Courses
  <1>g. \A w : Goto(t, w) => pc'[t] = w /\ why'[t] = why[t]
    BY <1>d DEF Goto
  <1>q. \A w : Ask(t, w) => pc'[t] = "fill" /\ why'[t] = w
    BY <1>d DEF Ask
  <1>w. \A x : Answer(t, x) => pc'[t] = "finish" /\ a = x
    BY <1>d, <1>g DEF Answer
  <1>f. AtForm(t) => v \in {"login", "logout"}
    BY <1>c DEF Course
  <1>h. AtForm(t) /\ InFlight(t) => Answered(r, form)
    BY <1>c, AnswersForm
  <1>x. Dies(t) => pc'[t] = "done" /\ a = Error(500)
    BY <1>d, <1>g DEF Dies
  <1>s. SUFFICES Does
    BY <1>c, HandlingLeaves, CourseHandled
  <1> HIDE DEF a, form
  <1>p. AfterPage(t) => (pc'[t] = "fill" /\ why'[t] = "proof") \/ pc'[t] = "respond"
    BY <1>g, <1>q DEF AfterPage
  <1>1. CASE Fill(t)
    <2>1. pc[t] = "fill"
      BY <1>1 DEF Fill
    <2>2. (pc'[t] = "finish" /\ a = Error(500)) \/ (pc'[t] = "get" /\ why'[t] = why[t])
      BY <1>1, <1>g, <1>w DEF Fill
    <2> QED
      BY <2>1, <2>2, <1>f, AnswersNothing DEF InFlight, AtForm
  <1>2. CASE Guest(t) \/ Proves(t)
    BY <1>2, <1>g, <1>q DEF Guest, Proves, Asks, InFlight, AtForm
  <1>3. CASE Opens(t)
    BY <1>3, <1>g, <1>p DEF Opens, InFlight, AtForm
  <1>4. CASE Takes(t)
    BY <1>4, <1>p, <1>x, AnswersNothing DEF Takes, InFlight, AtForm
  <1>5. CASE Vouches(t)
    <2>1. pc[t] = "get" /\ why[t] \in {"vouch", "enter"}
      BY <1>5 DEF Vouches, Asks
    <2>2. \/ why[t] = "vouch" /\ pc'[t] = "respond"
          \/ why[t] = "enter" /\ pc'[t] = "fill"
          \/ why[t] = "enter" /\ pc'[t] = "finish" /\ a = form
      BY <1>5, <1>g, <1>q, <1>w, <2>1 DEF Vouches, form
    <2>3. why[t] = "enter" => AtForm(t) /\ InFlight(t)
      BY <2>1 DEF AtForm, InFlight
    <2> QED
      BY <2>1, <2>2, <2>3, <1>f, <1>h DEF InFlight, AtForm
  <1>6. CASE Responds(t)
    <2>1. pc[t] = "respond"
      BY <1>6 DEF Responds
    <2>2. InFlight(t)
      BY <2>1 DEF InFlight
    <2>3. CASE v \in {"login", "logout"} /\ r.form = NoForm
      <3>1. pc'[t] = "finish" /\ a = Error(403)
        BY <1>6, <1>w, <2>3 DEF Responds
      <3> QED
        BY <2>2, <2>3, <3>1, AnswersNothing DEF AtForm, Welcome
    <2>4. CASE v \in {"login", "logout"} /\ r.form # NoForm
      <3>1. pc'[t] \in {"fill", "leave"}
        BY <1>6, <1>g, <1>q, <2>4 DEF Responds
      <3> QED
        BY <2>2, <2>4, <3>1
    <2>5. CASE v \notin {"login", "logout"}
      <3>1. \/ pc'[t] = "fill" /\ why'[t] = "text"
            \/ pc'[t] = "finish" /\ a = Respond(r.url)
        BY <1>6, <1>q, <1>w, <2>5 DEF Responds
      <3>2. Answered(r, Respond(r.url))
        BY <1>c, <2>2, <2>5, AnswersView
      <3> QED
        BY <2>2, <3>1, <3>2 DEF AtForm
    <2> QED
      BY <2>3, <2>4, <2>5
  <1>7. CASE Checks(t)
    <2>1. InFlight(t) /\ AtForm(t)
      BY <1>7 DEF Checks, Asks, InFlight, AtForm
    <2>2. pc'[t] = "fill" \/ (pc'[t] = "finish" /\ a = Page)
      BY <1>7, <1>q, <1>w DEF Checks
    <2> QED
      BY <1>f, <2>1, <2>2, AnswersNothing
  <1>8. CASE Seals(t) \/ LogsOut(t)
    <2>1. InFlight(t) /\ AtForm(t)
      BY <1>8 DEF Seals, LogsOut, Asks, InFlight, AtForm
    <2>2. pc'[t] = "finish" /\ a = form
      BY <1>8, <1>w DEF Seals, LogsOut, form
    <2> QED
      BY <1>h, <1>f, <2>1, <2>2
  <1>9. CASE Renderings(t)
    <2>1. InFlight(t)
      BY <1>9 DEF Renderings, Asks, InFlight
    <2> DEFINE w == ViewOf(PageOf(t), r.url.view)
    <2>2. \/ pc'[t] = "done" /\ a = Error(500)
          \/ pc'[t] = "finish" /\ a = Page
          \/ pc'[t] = "finish" /\ a = Error(403) /\ w = "source"
      BY <1>9, <1>w, <1>x DEF Renderings
    <2>3. w = "source" => ~ Welcome(r.url)
      BY DEF Welcome, PageOf
    <2> QED
      BY <2>1, <2>2, <2>3, AnswersNothing DEF AtForm
  <1>10. CASE Finishes(t)
    <2>1. InFlight(t)
      BY <1>10 DEF Finishes, InFlight
    <2>2. pc'[t] = "done" /\ answer' = answer /\ pc[t] = "finish"
      BY <1>10, <1>g DEF Finishes, inRequest
    <2> QED
      BY <1>c, <2>1, <2>2 DEF AtForm, Course, a
  <1> QED
    BY <1>1, <1>2, <1>3, <1>4, <1>5, <1>6, <1>7, <1>8, <1>9, <1>10 DEF Handling

LEMMA CoursesInitially == Init => Courses
  <1> SUFFICES ASSUME Init PROVE Courses
    OBVIOUS
  <1> DEFINE r == Get(Url(<<>>, TRUE, "unset"))
  <1>1. /\ pc = [t \in Clients |-> "idle"] /\ why = [t \in Clients |-> "nothing"]
        /\ rq = [t \in Clients |-> r]
        /\ answer = [t \in Clients |-> Nothing] /\ trail = [t \in Clients |-> <<>>]
    BY DEF Init
  <1>2. Asked(r)
    BY EmptySeq DEF Asked, Get, Url, Urls, NoForm
  <1>3. ASSUME NEW t \in Clients PROVE Course(t)
    <2>1. pc[t] = "idle" /\ rq[t] = r /\ trail[t] = <<>>
      BY <1>1
    <2> QED
      BY <1>2, <2>1 DEF Course, InFlight, AtForm
  <1> QED
    BY <1>1, <1>3 DEF Courses

LEMMA CoursesKept == IInv /\ Courses /\ [Next]_vars => Courses'
  <1> SUFFICES ASSUME IInv, Courses, [Next]_vars PROVE Courses'
    OBVIOUS
  <1>1. ASSUME NEW t \in Clients, Course(t)', LeavesOthers(t) PROVE Courses'
    <2>1. ASSUME NEW s \in Clients, s # t PROVE Course(s)'
      BY <1>1, <2>1, CourseStays DEF LeavesOthers, Courses
    <2> QED
      BY <1>1, <2>1 DEF LeavesOthers, Courses
  <1>2. ASSUME NEW t \in Clients, Steps(t) PROVE Courses'
    <2>1. CASE \E r \in Bookmarks[t] : Visit(t, r)
      BY <1>1, <2>1, VisitCourse
    <2>2. CASE \E u \in answer[t].to : Follow(t, u)
      BY <1>1, <2>2, FollowCourse
    <2>3. CASE Rest(t)
      BY <1>1, <2>3, RestCourse
    <2>4. CASE Handling(t)
      BY <1>1, <2>4, HandlingLeaves, HandlingCourse
    <2> QED
      BY <1>2, <2>1, <2>2, <2>3, <2>4 DEF Steps, Handling
  <1>3. ASSUME \/ UNCHANGED vars
               \/ \E e \in Editions : Edit(e)
        PROVE  Courses'
    <2>1. UNCHANGED <<pc, why, rq, answer, trail>>
      BY <1>3, Zenon DEF vars, Edit, inRequest, browser
    <2>2. ASSUME NEW s \in Clients PROVE Course(s)'
      BY <2>1, CourseStays DEF Own, Courses
    <2> QED
      BY <2>1, <2>2 DEF Courses
  <1> QED
    BY <1>2, <1>3 DEF Next

\* Requests follow redirects as Course says.
THEOREM CoursesHold == Spec => []Courses
  BY CoursesInitially, CoursesKept, Invariance, PTL DEF Spec

\* No redirect leads back to where the browser has been, unless an author's does
\* or the wiki is its own front page: whatever else sends it on takes something
\* away that Rank counts (UtmRedirecter, CanonRedir, redirect_page, LoginView).
THEOREM NoRedirectLoops == Spec => []NoRedirectLoop
  <1>1. Courses => NoRedirectLoop
    <2> SUFFICES ASSUME Courses, NEW t \in Clients, NEW i \in DOMAIN trail[t], NEW j \in DOMAIN trail[t],
                        i < j, trail[t][i] = trail[t][j]
                 PROVE  \E k \in i .. j - 1 : MagicUrl(trail[t][k]) \/ OwnFront(trail[t][k])
      BY DEF NoRedirectLoop
    <2>1. pc[t] # "idle"
      BY DEF Courses, Course
    <2>2. Descends(trail[t])
      BY <2>1 DEF Courses, Course, Journey
    <2>3. ~ (Rank(trail[t][j]) < Rank(trail[t][i]))
      BY RankIsNumber
    <2> QED
      BY <2>2, <2>3 DEF Descends, Excused
  <1> QED
    BY <1>1, CoursesHold, PTL

\* Nobody whom a redirect led somewhere is turned away there: what would refuse
\* him would have refused him before, and where a view sends him there is a page.
THEOREM RedirectsLandWell == Spec => []LandsWell
  <1>1. Courses => LandsWell
    <2> SUFFICES ASSUME Courses, NEW t \in Clients, pc[t] = "done", Len(trail[t]) > 1
                 PROVE  /\ Refused(rq[t]) => rq[t].url.view = "writecomment" /\ "robot" \in rq[t].url.quirks
                        /\ ByView(trail[t][Len(trail[t]) - 1]) /\ ~ MagicUrl(rq[t].url)
                             => answer[t].code \notin {403, 404, 405, 503}
      BY DEF LandsWell
    <2>1. Course(t)
      BY DEF Courses
    <2>2. Sent(trail[t], rq[t]) /\ Answered(rq[t], answer[t])
      BY <2>1 DEF Course, Journey
    <2> QED
      BY <2>2 DEF Sent, Answered, RobotComments
  <1> QED
    BY <1>1, CoursesHold, PTL

(* Logins that nobody else is in the way of. *)

Asking(t, what) == pc[t] \in {"fill", "get"} /\ why[t] = what
HoldsAll(t, c) == \A n \in Times(t) : Holds(world, n, c)
Lonely(t) == alone[t] /\ InFlight(t) => debris = 0 /\ \A s \in Clients \ {t} : ~ InFlight(s)
Loaded(t) == alone[t] /\ pc[t] = "get" => book # 0
Stage(t) ==
  /\ pc[t] = "leave" \/ Asking(t, "bye") => rq[t].url.view = "logout"
  /\ Asking(t, "text") => rq[t].url.view # "login"
Taken(t) ==
  alone[t] /\ pc[t] = "respond" /\ jar[t].user # NoUser /\ HoldsAll(t, jar[t])
    => login[t] = jar[t].user
ToLogin(t) == rq[t].url.view = "login" /\ rq[t].form # NoForm /\ HoldsAll(t, rq[t].form)
Left(t) ==
  alone[t] /\ ToLogin(t) =>
    /\ Asking(t, "seal") => login[t] = rq[t].form.user
    /\ pc[t] \in {"finish", "done"} /\ Stack(rq[t]) = Nothing /\ answer[t].code # 500
         => jar[t] = [user |-> rq[t].form.user, pw |-> rq[t].form.pw]
Kept(t) == Lonely(t) /\ Loaded(t) /\ Stage(t) /\ Taken(t) /\ Left(t)
Keeping ==
  /\ DOMAIN alone = Clients /\ DOMAIN answer = Clients
  /\ \A t \in Clients : Kept(t)

\* What holds at every time that a request may speak of is found in memory.
LEMMA FoundHeld ==
  ASSUME IInv, NEW t \in Clients, InFlight(t), book # 0, NEW c, HoldsAll(t, c)
  PROVE  Good(c) /\ Entry(c.user) = c.pw /\ c.pw # NoEntry
  <1>1. book \in Times(t)
    BY DEF IInv, MemoryKnown, Remembered, Times, TypeOK, Now
  <1> QED
    BY <1>1 DEF HoldsAll, Holds, Good, Entry

Mine(t) == <<Own(t), login[t], jar[t], since[t]>>
\* What others do, and that the site changes, takes nobody's login away.
LEMMA KeptStays ==
  ASSUME NEW t, Stage(t), Taken(t), Left(t), Mine(t)' = Mine(t), alone'[t] => alone[t],
         Times(t) \subseteq Times(t)', \A n \in Times(t) : world'[n] = world[n]
  PROVE  Stage(t)' /\ Taken(t)' /\ Left(t)'
  <1>1. /\ pc'[t] = pc[t] /\ why'[t] = why[t] /\ rq'[t] = rq[t] /\ answer'[t] = answer[t]
        /\ login'[t] = login[t] /\ jar'[t] = jar[t]
    BY DEF Mine, Own
  <1>2. ASSUME NEW c, \A n \in Times(t)' : Holds(world', n, c)
        PROVE  HoldsAll(t, c)
    BY <1>2 DEF HoldsAll, Holds
  <1>3. Stage(t)'
    BY <1>1 DEF Stage, Asking
  <1>4. Taken(t)'
    BY <1>1, <1>2 DEF Taken, HoldsAll
  <1>5. Left(t)'
    BY <1>1, <1>2 DEF Left, ToLogin, HoldsAll, Asking
  <1> QED
    BY <1>3, <1>4, <1>5

LEMMA HandlingMine ==
  ASSUME IInv, Courses, NEW t \in Clients, Handling(t)
  PROVE  /\ \A s \in Clients \ {t} : Mine(s)' = Mine(s)
         /\ world' = world /\ since' = since /\ alone' = alone /\ rq' = rq
         /\ InFlight(t)
         /\ InFlight(t)' => debris' = debris
  <1>1. DOMAIN login = Clients /\ DOMAIN jar = Clients /\ DOMAIN pc = Clients
    BY DEF IInv, TypeOK, Shape
  <1>2. world' = world /\ since' = since /\ alone' = alone /\ rq' = rq
    BY Zenon DEF Handling, Fill, Guest, Opens, Takes, Proves, Vouches, Responds, Checks, Seals, LogsOut,
                 Renderings, Finishes, inRequest, browser
  <1>3. login' = login \/ \E x : login' = [login EXCEPT ![t] = x]
    BY Zenon DEF Handling, Fill, Guest, Opens, Takes, Proves, Vouches, Responds, Checks, Seals, LogsOut,
                 Renderings, Finishes, inRequest
  <1>4. jar' = jar \/ \E x : jar' = [jar EXCEPT ![t] = x]
    BY Zenon DEF Handling, Fill, Guest, Opens, Takes, Proves, Vouches, Responds, Checks, Seals, LogsOut,
                 Renderings, Finishes, browser
  <1>5. \A s \in Clients \ {t} : login'[s] = login[s] /\ jar'[s] = jar[s]
    BY <1>1, <1>3, <1>4
  <1>6. InFlight(t)
    BY DEF Handling, Fill, Guest, Opens, Takes, Proves, Vouches, Responds, Checks, Seals, LogsOut,
           Renderings, Finishes, Asks, InFlight
  <1>7. InFlight(t)' => debris' = debris
    <2>1. debris' = debris \/ Dies(t) \/ Finishes(t)
      BY Zenon DEF Handling, Fill, Guest, Opens, Takes, Proves, Vouches, Responds, Checks, Seals, LogsOut,
                   Renderings, memory
    <2>2. Dies(t) \/ Finishes(t) => pc'[t] = "done"
      BY <1>1 DEF Dies, Finishes, Goto
    <2> QED
      BY <2>1, <2>2 DEF InFlight
  <1> QED
    BY <1>2, <1>5, <1>6, <1>7, HandlingLeaves DEF Mine, LeavesOthers, Own

\* A step of a request that nobody is beside, by what it asks for.
LEMMA HandlingKept ==
  ASSUME IInv, Courses, Keeping, NEW t \in Clients, Handling(t)
  PROVE  Loaded(t)' /\ Stage(t)' /\ Taken(t)' /\ Left(t)'
  <1> DEFINE a == answer'[t]
             r == rq[t]
             v == r.url.view
             F == [user |-> r.form.user, pw |-> r.form.pw]
             form == [code |-> 303, to |-> {Nuri(r.form.page)}]
             Asking1(w) == pc'[t] \in {"fill", "get"} /\ why'[t] = w
             OnLogin == alone[t] /\ ToLogin(t)
             Does ==
               /\ alone[t] /\ pc'[t] = "get" => book' # 0
               /\ pc'[t] = "leave" \/ Asking1("bye") => v = "logout"
               /\ Asking1("text") => v # "login"
               /\ alone[t] /\ pc'[t] = "respond" /\ jar'[t].user # NoUser /\ HoldsAll(t, jar'[t])
                    => login'[t] = jar'[t].user
               /\ OnLogin /\ Asking1("seal") => login'[t] = r.form.user
               /\ OnLogin /\ pc'[t] \in {"finish", "done"} /\ a.code # 500 => jar'[t] = F
  <1>d. /\ DOMAIN pc = Clients /\ DOMAIN why = Clients /\ DOMAIN jar = Clients
        /\ DOMAIN answer = Clients /\ DOMAIN login = Clients
    BY DEF IInv, Shape, TypeOK, Courses
  <1>k. Loaded(t) /\ Stage(t) /\ Taken(t) /\ Left(t)
    BY DEF Keeping, Kept
  <1>c. Stack(r) = Nothing
    BY HandlingMine DEF Courses, Course
  <1>m. /\ world' = world /\ since' = since /\ alone' = alone /\ rq' = rq /\ InFlight(t)
    BY HandlingMine
  <1>g. \A w : Goto(t, w) => pc'[t] = w /\ why'[t] = why[t]
    BY <1>d DEF Goto
  <1>q. \A w : Ask(t, w) => pc'[t] = "fill" /\ why'[t] = w
    BY <1>d DEF Ask
  <1>w. \A x : Answer(t, x) => pc'[t] = "finish" /\ a = x
    BY <1>d, <1>g DEF Answer
  <1>x. Dies(t) => pc'[t] = "done" /\ a.code = 500
    BY <1>d, <1>g DEF Dies, Error
  <1>j. UNCHANGED jar => jar'[t] = jar[t]
    OBVIOUS
  <1>p. AfterPage(t) => \/ pc'[t] = "fill" /\ why'[t] = "proof" /\ jar[t].user # NoUser
                        \/ pc'[t] = "respond" /\ jar[t].user = NoUser
    BY <1>g, <1>q DEF AfterPage
  <1>e. Error(500).code = 500
    BY DEF Error
  <1>v. Good(r.form) <=> Good(F)
    BY DEF Good
  <1>l. OnLogin => v = "login" /\ r.form # NoForm /\ HoldsAll(t, F)
    BY DEF ToLogin, HoldsAll, Holds
  <1>f. ASSUME alone[t], pc[t] = "get", NEW c, HoldsAll(t, c)
        PROVE  Good(c) /\ Entry(c.user) = c.pw /\ c.pw # NoEntry
    BY <1>f, <1>k, <1>m, FoundHeld DEF Loaded
  <1>s. SUFFICES Does
    <2>1. HoldsAll(t, jar'[t]) <=> HoldsAll(t, jar[t])'
      BY <1>m DEF HoldsAll, Times, Now
    <2>2. ToLogin(t)' <=> ToLogin(t)
      BY <1>m DEF ToLogin, HoldsAll, Times, Now
    <2> HIDE DEF a
    <2>3. Loaded(t)' /\ Stage(t)'
      BY <1>m DEF Loaded, Stage, Asking
    <2>4. Taken(t)'
      BY <1>m, <2>1 DEF Taken
    <2>5. Left(t)'
      BY <1>m, <2>2 DEF Left, Asking, a
    <2> QED
      BY <2>3, <2>4, <2>5
  <1> HIDE DEF a, form, F, OnLogin
  <1>1. CASE Fill(t)
    <2>1. pc[t] = "fill" /\ jar'[t] = jar[t] /\ login'[t] = login[t]
      BY <1>1 DEF Fill, browser
    <2>2. \/ pc'[t] = "finish" /\ a = Error(500)
          \/ pc'[t] = "get" /\ why'[t] = why[t] /\ book' = IF book = 0 THEN Now ELSE book
      BY <1>1, <1>g, <1>w DEF Fill
    <2>3. Now # 0
      BY DEF IInv, TypeOK, Now
    <2>4. CASE pc'[t] = "finish" /\ a = Error(500)
      BY <1>e, <2>4
    <2>5. CASE pc'[t] = "get" /\ why'[t] = why[t] /\ book' = IF book = 0 THEN Now ELSE book
      BY <1>k, <2>1, <2>3, <2>5 DEF Stage, Left, Asking, OnLogin
    <2> QED
      BY <2>2, <2>4, <2>5
  <1>2. CASE Guest(t)
    BY <1>2, <1>g DEF Guest
  <1>3. CASE Opens(t)
    BY <1>3, <1>g, <1>j, <1>p DEF Opens, browser
  <1>4. CASE Takes(t)
    BY <1>4, <1>j, <1>p, <1>x DEF Takes, browser
  <1>5. CASE Proves(t)
    <2>1. pc[t] = "get" /\ jar'[t] = jar[t]
      BY <1>5 DEF Proves, Asks, browser
    <2>2. \/ Good(jar[t]) /\ pc'[t] = "fill" /\ why'[t] = "vouch"
          \/ ~ Good(jar[t]) /\ pc'[t] = "respond"
      BY <1>5, <1>g, <1>q DEF Proves
    <2> QED
      BY <1>f, <2>1, <2>2
  <1>6. CASE Vouches(t)
    <2>1. pc[t] = "get" /\ why[t] \in {"vouch", "enter"} /\ jar'[t] = jar[t]
      BY <1>6 DEF Vouches, Asks, browser
    <2>2. Claim(t) = IF why[t] = "vouch" THEN jar[t] ELSE F
      BY DEF Claim, F
    <2>3. Entry(Claim(t).user) # NoEntry => login'[t] = Claim(t).user
      BY <1>6, <1>d DEF Vouches
    <2>4. CASE why[t] = "vouch"
      <3>1. pc'[t] = "respond"
        BY <1>6, <1>g, <2>4 DEF Vouches
      <3> QED
        BY <1>f, <2>1, <2>2, <2>3, <2>4, <3>1
    <2>5. CASE why[t] = "enter"
      <3>1. \/ Entry(Claim(t).user) # NoEntry /\ pc'[t] = "fill" /\ why'[t] = "seal"
            \/ Entry(Claim(t).user) = NoEntry /\ pc'[t] = "finish"
        BY <1>6, <1>q, <1>w, <2>5 DEF Vouches
      <3>2. OnLogin => Entry(Claim(t).user) # NoEntry
        BY <1>f, <1>l, <2>1, <2>2, <2>5 DEF OnLogin
      <3>3. Claim(t).user = r.form.user
        BY <2>2, <2>5 DEF F
      <3> QED
        BY <2>3, <3>1, <3>2, <3>3
    <2> QED
      BY <2>1, <2>4, <2>5
  <1>7. CASE Responds(t)
    <2>1. CASE v \in {"login", "logout"} /\ r.form = NoForm
      <3>1. pc'[t] = "finish"
        BY <1>7, <1>w, <2>1 DEF Responds
      <3> QED
        BY <1>l, <2>1, <3>1
    <2>2. CASE v = "login" /\ r.form # NoForm
      <3>1. pc'[t] = "fill" /\ why'[t] = "check"
        BY <1>7, <1>q, <2>2 DEF Responds
      <3> QED
        BY <3>1
    <2>3. CASE v = "logout" /\ r.form # NoForm
      <3>1. \/ pc'[t] = "fill" /\ why'[t] = "bye"
            \/ pc'[t] = "leave"
        BY <1>7, <1>g, <1>q, <2>3 DEF Responds
      <3> QED
        BY <2>3, <3>1
    <2>4. CASE v \notin {"login", "logout"}
      <3>1. \/ pc'[t] = "fill" /\ why'[t] = "text"
            \/ pc'[t] = "finish"
        BY <1>7, <1>q, <1>w, <2>4 DEF Responds
      <3> QED
        BY <1>l, <2>4, <3>1
    <2> QED
      BY <2>1, <2>2, <2>3, <2>4
  <1>8. CASE Checks(t)
    <2>1. pc[t] = "get"
      BY <1>8 DEF Checks, Asks
    <2>2. \/ pc'[t] = "fill" /\ why'[t] = "enter"
          \/ pc'[t] = "finish" /\ ~ Good(r.form)
      BY <1>8, <1>q, <1>w DEF Checks
    <2>3. OnLogin => Good(r.form)
      BY <1>f, <1>l, <1>v, <2>1 DEF OnLogin
    <2> QED
      BY <2>2, <2>3
  <1>9. CASE Seals(t)
    <2>1. pc[t] = "get" /\ why[t] = "seal" /\ pc'[t] = "finish"
      BY <1>9, <1>w DEF Seals, Asks
    <2>2. jar'[t] = IF Entry(login[t]) # NoEntry
                    THEN [user |-> login[t], pw |-> Entry(login[t])] ELSE NoProof
      BY <1>9, <1>d DEF Seals
    <2>3. OnLogin => login[t] = r.form.user
      BY <1>k, <2>1 DEF Left, Asking, OnLogin
    <2>4. OnLogin => Entry(F.user) = F.pw /\ F.pw # NoEntry
      BY <1>f, <1>l, <2>1 DEF OnLogin
    <2>5. F.user = r.form.user /\ F.pw = r.form.pw
      BY DEF F
    <2>6. OnLogin => jar'[t] = [user |-> r.form.user, pw |-> r.form.pw]
      BY <2>2, <2>3, <2>4, <2>5
    <2> QED
      BY <2>1, <2>6 DEF F
  <1>10. CASE LogsOut(t)
    <2>1. v = "logout" /\ pc'[t] = "finish"
      BY <1>10, <1>k, <1>w DEF LogsOut, Asks, Stage, Asking
    <2> QED
      BY <1>l, <2>1
  <1>11. CASE Renderings(t)
    <2>1. v # "login"
      BY <1>11, <1>k DEF Renderings, Asks, Stage, Asking
    <2>2. pc'[t] \in {"finish", "done"}
      BY <1>11, <1>w, <1>x DEF Renderings
    <2> QED
      BY <1>l, <2>1, <2>2
  <1>12. CASE Finishes(t)
    <2>1. pc[t] = "finish" /\ pc'[t] = "done" /\ a = answer[t] /\ jar'[t] = jar[t]
      BY <1>12, <1>g DEF Finishes, inRequest, browser, a
    <2>2. OnLogin /\ a.code # 500 => jar[t] = F
      BY <1>c, <1>k, <2>1 DEF Left, OnLogin, F
    <2> QED
      BY <2>1, <2>2
  <1> QED
    BY <1>1, <1>2, <1>3, <1>4, <1>5, <1>6, <1>7, <1>8, <1>9, <1>10, <1>11, <1>12 DEF Handling

LEMMA ArriveKept ==
  ASSUME IInv, Keeping, NEW t \in Clients, ~ InFlight(t), NEW r, Arrive(t, r), LeavesOthers(t)
  PROVE  Keeping'
  <1>d. /\ DOMAIN pc = Clients /\ DOMAIN why = Clients /\ DOMAIN rq = Clients
        /\ DOMAIN login = Clients /\ DOMAIN since = Clients /\ DOMAIN alone = Clients /\ DOMAIN answer = Clients
    BY DEF IInv, Shape, TypeOK, Keeping
  <1>k. \A s \in Clients : Kept(s)
    BY DEF Keeping
  <1>w. /\ world' = world /\ book' = book /\ debris' = debris /\ jar' = jar
        /\ rq' = [rq EXCEPT ![t] = r] /\ login' = [login EXCEPT ![t] = NoUser]
        /\ DOMAIN answer' = Clients
    BY DEF Arrive, LeavesOthers
  <1> DEFINE others == {s \in Clients \ {t} : InFlight(s)}
  <1>1. CASE Stack(r) # Nothing
    <2>1. pc' = [pc EXCEPT ![t] = "done"] /\ UNCHANGED <<why, since, alone>>
      BY <1>1 DEF Arrive
    <2>2. pc'[t] = "done" /\ rq'[t] = r /\ \A s \in Clients \ {t} : pc'[s] = pc[s]
      BY <1>d, <1>w, <2>1
    <2>3. \A s \in Clients : InFlight(s)' <=> InFlight(s)
      BY <2>2 DEF InFlight
    <2>4. ASSUME NEW s \in Clients, s # t PROVE Kept(s)'
      <3>1. Mine(s)' = Mine(s)
        BY <1>d, <1>w, <2>1, <2>4 DEF Mine, LeavesOthers
      <3>2. Stage(s)' /\ Taken(s)' /\ Left(s)'
        BY <1>k, <1>w, <2>1, <3>1, KeptStays DEF Kept, Times, Now
      <3>3. Lonely(s)' /\ Loaded(s)'
        BY <1>k, <1>w, <2>1, <2>2, <2>3, <2>4 DEF Kept, Lonely, Loaded
      <3> QED
        BY <3>2, <3>3 DEF Kept
    <2>5. Kept(t)'
      BY <1>1, <2>2 DEF Kept, Lonely, Loaded, Stage, Taken, Left, InFlight, Asking
    <2> QED
      BY <1>d, <1>w, <2>1, <2>4, <2>5 DEF Keeping
  <1>2. CASE Stack(r) = Nothing
    <2>1. /\ alone' = [s \in Clients |-> IF s = t THEN others = {} /\ debris = 0
                                         ELSE alone[s] /\ s \notin others]
          /\ \E age : since' = [since EXCEPT ![t] = age]
          /\ \/ pc' = [pc EXCEPT ![t] = "fill"] /\ why' = [why EXCEPT ![t] = "guest"]
             \/ pc' = [pc EXCEPT ![t] = "open"] /\ UNCHANGED why
      BY <1>2 DEF Arrive
    <2>2. /\ pc'[t] = "open" \/ (pc'[t] = "fill" /\ why'[t] = "guest")
          /\ \A s \in Clients \ {t} : pc'[s] = pc[s] /\ since'[s] = since[s]
      BY <1>d, <2>1
    <2>3. \A s \in Clients \ {t} : InFlight(s)' <=> InFlight(s)
      BY <2>2 DEF InFlight
    <2>4. ASSUME NEW s \in Clients, s # t PROVE Kept(s)'
      <3>1. Mine(s)' = Mine(s)
        BY <1>d, <1>w, <2>2, <2>4 DEF Mine, LeavesOthers
      <3>a. alone'[s] => alone[s] /\ ~ InFlight(s)
        BY <2>1, <2>4
      <3>2. Stage(s)' /\ Taken(s)' /\ Left(s)'
        BY <1>k, <1>w, <2>2, <2>4, <3>1, <3>a, KeptStays DEF Kept, Times, Now
      <3>3. Lonely(s)' /\ Loaded(s)'
        BY <2>2, <2>3, <2>4, <3>a DEF Lonely, Loaded, InFlight
      <3> QED
        BY <3>2, <3>3 DEF Kept
    <2>5. Kept(t)'
      <3>1. alone'[t] => debris' = 0 /\ \A s \in Clients \ {t} : ~ InFlight(s)'
        BY <1>w, <2>1, <2>3
      <3> QED
        BY <2>2, <3>1 DEF Kept, Lonely, Loaded, Stage, Taken, Left, Asking
    <2>6. DOMAIN alone' = Clients
      BY <2>1
    <2> QED
      BY <1>w, <2>4, <2>5, <2>6 DEF Keeping
  <1> QED
    BY <1>1, <1>2

LEMMA RestKept ==
  ASSUME IInv, Keeping, NEW t \in Clients, Rest(t), LeavesOthers(t)
  PROVE  Keeping'
  <1>d. /\ DOMAIN pc = Clients /\ DOMAIN login = Clients /\ DOMAIN since = Clients /\ DOMAIN alone = Clients
    BY DEF IInv, Shape, TypeOK, Keeping
  <1>w. /\ world' = world /\ book' = book /\ debris' = debris /\ jar' = jar
        /\ pc' = [pc EXCEPT ![t] = "idle"] /\ alone' = [alone EXCEPT ![t] = TRUE]
        /\ login' = [login EXCEPT ![t] = NoUser] /\ since' = [since EXCEPT ![t] = 1]
        /\ DOMAIN answer' = Clients /\ pc[t] = "done"
    BY DEF Rest, memory, LeavesOthers
  <1>1. pc'[t] = "idle" /\ DOMAIN alone' = Clients
    BY <1>d, <1>w
  <1>2. \A s \in Clients \ {t} : /\ pc'[s] = pc[s] /\ alone'[s] = alone[s] /\ login'[s] = login[s]
                                 /\ since'[s] = since[s]
    BY <1>d, <1>w
  <1>3. \A s \in Clients : InFlight(s)' <=> InFlight(s)
    BY <1>1, <1>2, <1>w DEF InFlight
  <1>4. ASSUME NEW s \in Clients, s # t PROVE Kept(s)'
    <2>k. Kept(s)
      BY DEF Keeping
    <2>1. Mine(s)' = Mine(s)
      BY <1>2, <1>4, <1>w DEF Mine, LeavesOthers
    <2>2. Stage(s)' /\ Taken(s)' /\ Left(s)'
      BY <1>2, <1>4, <1>w, <2>1, <2>k, KeptStays DEF Kept, Times, Now
    <2>3. Lonely(s)' /\ Loaded(s)'
      BY <1>2, <1>3, <1>4, <1>w, <2>k DEF Kept, Lonely, Loaded
    <2> QED
      BY <2>2, <2>3 DEF Kept
  <1>5. Kept(t)'
    BY <1>1 DEF Kept, Lonely, Loaded, Stage, Taken, Left, InFlight, Asking
  <1> QED
    BY <1>1, <1>4, <1>5, <1>w DEF Keeping

LEMMA KeepingHandled ==
  ASSUME IInv, Courses, Keeping, NEW t \in Clients, Handling(t)
  PROVE  Keeping'
  <1>m. /\ \A s \in Clients \ {t} : Mine(s)' = Mine(s)
        /\ world' = world /\ since' = since /\ alone' = alone
        /\ InFlight(t) /\ (InFlight(t)' => debris' = debris)
    BY HandlingMine
  <1>a. LeavesOthers(t)
    BY HandlingLeaves
  <1>k. \A s \in Clients : Kept(s)
    BY DEF Keeping
  <1>1. \A s \in Clients \ {t} : pc'[s] = pc[s]
    BY <1>m DEF Mine, Own
  <1>2. \A s \in Clients \ {t} : InFlight(s)' <=> InFlight(s)
    BY <1>1 DEF InFlight
  <1>3. ASSUME NEW s \in Clients, s # t PROVE Kept(s)'
    <2>1. Stage(s)' /\ Taken(s)' /\ Left(s)'
      BY <1>3, <1>k, <1>m, KeptStays DEF Kept, Times, Now
    <2>2. alone'[s] => ~ InFlight(s)'
      BY <1>2, <1>3, <1>k, <1>m DEF Kept, Lonely
    <2>3. Lonely(s)' /\ Loaded(s)'
      BY <2>2 DEF Lonely, Loaded, InFlight
    <2> QED
      BY <2>1, <2>3 DEF Kept
  <1>4. Lonely(t)'
    BY <1>2, <1>k, <1>m DEF Kept, Lonely
  <1>5. Kept(t)'
    BY <1>4, HandlingKept DEF Kept
  <1> QED
    BY <1>3, <1>5, <1>a, <1>m DEF Keeping, LeavesOthers

LEMMA KeepingInitially == Init => Keeping
  <1> SUFFICES ASSUME Init PROVE Keeping
    OBVIOUS
  <1>1. /\ pc = [t \in Clients |-> "idle"] /\ answer = [t \in Clients |-> Nothing]
        /\ alone = [t \in Clients |-> TRUE]
    BY DEF Init
  <1>2. ASSUME NEW t \in Clients PROVE Kept(t)
    <2>1. pc[t] = "idle"
      BY <1>1
    <2> QED
      BY <2>1 DEF Kept, Lonely, Loaded, Stage, Taken, Left, InFlight, Asking
  <1> QED
    BY <1>1, <1>2 DEF Keeping

LEMMA KeepingKept == IInv /\ Courses /\ Keeping /\ [Next]_vars => Keeping'
  <1> SUFFICES ASSUME IInv, Courses, Keeping, [Next]_vars PROVE Keeping'
    OBVIOUS
  <1>1. ASSUME NEW t \in Clients, Steps(t) PROVE Keeping'
    <2>1. ASSUME NEW r \in Bookmarks[t], Visit(t, r) PROVE Keeping'
      BY <2>1, VisitCourse, ArriveKept DEF Visit, InFlight
    <2>2. ASSUME NEW u \in answer[t].to, Follow(t, u) PROVE Keeping'
      <3>1. LeavesOthers(t)
        BY <2>2, FollowCourse
      <3>2. ~ InFlight(t) /\ \E r : Arrive(t, r)
        BY <2>2 DEF Follow, InFlight
      <3> QED
        BY <3>1, <3>2, ArriveKept
    <2>3. CASE Rest(t)
      BY <2>3, RestCourse, RestKept
    <2>4. CASE Handling(t)
      BY <2>4, KeepingHandled
    <2> QED
      BY <1>1, <2>1, <2>2, <2>3, <2>4 DEF Steps, Handling
  <1>2. ASSUME UNCHANGED vars \/ \E e \in Editions : Edit(e)
        PROVE  Keeping'
    <2>1. /\ UNCHANGED <<book, debris, pc, why, rq, answer, trail, login, jar, since, alone>>
          /\ world' = world \/ \E e \in Editions : world' = Append(world, e)
      BY <1>2, Zenon DEF vars, Edit, memory, inRequest, browser
    <2>2. Now \in Nat /\ Now' \in Nat /\ Now <= Now' /\ \A n \in 1 .. Now : world'[n] = world[n]
      <3>1. world \in Seq(Edition) /\ Editions \subseteq Edition
        BY UsersAssumption DEF IInv, TypeOK
      <3> QED
        BY <2>1, <3>1 DEF Now
    <2>3. ASSUME NEW s \in Clients PROVE Kept(s)'
      <3>1. Kept(s) /\ since[s] \in 1 .. Now
        BY DEF Keeping, IInv, TypeOK
      <3>2. Times(s) \subseteq Times(s)' /\ \A n \in Times(s) : world'[n] = world[n]
        BY <2>1, <2>2, <3>1 DEF Times
      <3>3. Mine(s)' = Mine(s)
        BY <2>1 DEF Mine, Own
      <3>4. Stage(s)' /\ Taken(s)' /\ Left(s)'
        BY <2>1, <3>1, <3>2, <3>3, KeptStays DEF Kept
      <3>5. Lonely(s)' /\ Loaded(s)'
        BY <2>1, <3>1 DEF Kept, Lonely, Loaded, InFlight
      <3> QED
        BY <3>4, <3>5 DEF Kept
    <2> QED
      BY <2>1, <2>3 DEF Keeping
  <1> QED
    BY <1>1, <1>2 DEF Next

\* A request that nobody else is beside keeps the login it is good for, and
\* leaves the cookie that it earns: get_user finds what is on the disk, since
\* nobody finishes between its two steps.
THEOREM LoginsAreKept == Spec => []KeepsLogin
  <1>1. Keeping => KeepsLogin
    <2> SUFFICES ASSUME Keeping, NEW t \in Clients, alone[t]
                 PROVE  /\ pc[t] = "respond" /\ jar[t].user # NoUser /\ HoldsAll(t, jar[t])
                             => login[t] = jar[t].user
                        /\ pc[t] = "done" /\ ToLogin(t) /\ Stack(rq[t]) = Nothing /\ answer[t].code # 500
                             => jar[t] = [user |-> rq[t].form.user, pw |-> rq[t].form.pw]
      BY DEF KeepsLogin, HoldsAll, ToLogin
    <2>1. Taken(t) /\ Left(t)
      BY DEF Keeping, Kept
    <2> QED
      BY <2>1 DEF Taken, Left
  <1> QED
    BY <1>1, KeepingInitially, KeepingKept, Invariance, CoursesHold, PTL DEF Spec
=============================================================================
