----------------------------- MODULE HttpCache -----------------------------
(***************************************************************************)
(* The two brute-force page caches of httpcore.py: the IMC, in the memory  *)
(* of each worker, in front of the BFC, on the disk they share.  Each has  *)
(* its own TTL, and the IMC fills itself from BFC hits too.  Requests that *)
(* carry a cookie pass both by, which is how a browser that has just       *)
(* posted a comment gets to see it: comments.setCommentCookie gives it a   *)
(* cookie that outlives the TTLs.                                          *)
(*                                                                         *)
(* A response is what the properties tell of it: the time its page began   *)
(* to be made, and whether the comment was there by then.  Time is in      *)
(* whole units; looking up and storing take none, making a page takes at   *)
(* most GenMax (the module's name: the code has no bound).                 *)
(***************************************************************************)
EXTENDS Naturals, FiniteSets

CONSTANTS Workers,
          Asked,      \* the kinds of requests that come in
          ImcTTL,     \* imc-cache-ttl
          BfcTTL,     \* bfc-cache-ttl
          AtomTTL,    \* bfc-atom-ttl
          NocondTTL,  \* bfc-atom-nocond-ttl
          ImcEntries, \* imc-cache-entries
          Slack,      \* what setCommentCookie adds to the TTLs: five minutes
          GenMax,     \* longest time to make a page
          MaxTime     \* the bound of the clock in a run

Lengths == {ImcTTL, BfcTTL, AtomTTL, NocondTTL, Slack, GenMax, MaxTime}
ASSUME LengthsAssumption == Lengths \subseteq Nat
ASSUME EntriesAssumption == ImcEntries \in Nat \ {0}
\* What makes the cookie enough: the five minutes cover the shorter TTL and the
\* making of a page.
ASSUME SlackAssumption == Slack > GenMax + ImcTTL \/ Slack > GenMax + BfcTTL

\* The requests the caches tell apart: pages, Atom feeds asked for with or
\* without a conditional GET, which have one key, and static files, which are
\* served in front of the BFC and so have no TTL in it.
Kinds == {"page", "feed", "condfeed", "static"}
Keys == {"page", "feed", "static"}
KeyOf(kd) == IF kd = "condfeed" THEN "feed" ELSE kd
TTLOf(kd) == CASE kd = "page"     -> BfcTTL
               [] kd = "feed"     -> NocondTTL
               [] kd = "condfeed" -> AtomTTL

ASSUME AskedAssumption == Asked \subseteq Kinds

\* How long the comment's cookie lives.
Longer(m, n) == IF m > n THEN m ELSE n
BareCookieLife == Longer(ImcTTL, BfcTTL)
CookieLife == Longer(ImcTTL, BfcTTL) + Slack

VARIABLES now,
          imc,      \* the in-memory cache of each worker
          bfc,      \* the cache on disk
          pc,       \* where each worker is in its request
          kind,     \* what it was asked for
          owes,     \* whether the browser that posted the comment asked
          resp,     \* the response it has
          since,    \* when it began to make a page
          posted,   \* whether the comment is in the store
          told,     \* whether its browser was answered, and given the cookie
          cookie    \* when the cookie expires

postVars == <<posted, told, cookie>>
vars == <<now, imc, bfc, pc, kind, owes, resp, since, posted, told, cookie>>

Times == 0 .. MaxTime
Responses == [made : Times, has : BOOLEAN]
Entries == [stored : Times, made : Times, has : BOOLEAN]

\* A cache has a set of entries for each key, empty or of one.
Cache == [Keys -> SUBSET Entries]
Empty == [k \in Keys |-> {}]

TypeOK ==
    /\ now \in Times
    /\ imc \in [Workers -> Cache]
    /\ bfc \in Cache
    /\ pc \in [Workers -> {"idle", "posting", "bfc", "make", "served"}]
    /\ kind \in [Workers -> Kinds]
    /\ owes \in [Workers -> BOOLEAN]
    /\ resp \in [Workers -> Responses]
    /\ since \in [Workers -> Times]
    /\ posted \in BOOLEAN
    /\ told \in BOOLEAN
    /\ cookie \in 0 .. MaxTime + CookieLife

NoResponse == [made |-> 0, has |-> FALSE]

Init ==
    /\ now = 0
    /\ imc = [w \in Workers |-> Empty]
    /\ bfc = Empty
    /\ pc = [w \in Workers |-> "idle"]
    /\ kind = [w \in Workers |-> "page"]
    /\ owes = [w \in Workers |-> FALSE]
    /\ resp = [w \in Workers |-> NoResponse]
    /\ since = [w \in Workers |-> 0]
    /\ posted = FALSE
    /\ told = FALSE
    /\ cookie = 0

Go(w, phase) == pc' = [pc EXCEPT ![w] = phase]
Key(w) == KeyOf(kind[w])
Live(e, ttl) == e.stored + ttl >= now
HasResponse(w, e) == resp' = [resp EXCEPT ![w] = [made |-> e.made, has |-> e.has]]

-----------------------------------------------------------------------------
(* Posting the comment *)

Post(w) ==
    /\ pc[w] = "idle"
    /\ ~ posted
    /\ posted' = TRUE
    /\ Go(w, "posting")
    /\ UNCHANGED <<now, imc, bfc, kind, owes, resp, since, told, cookie>>

\* The answer sets the cookie, and so empties the IMC of this worker.
PostAnswered(w) ==
    /\ pc[w] = "posting"
    /\ told' = TRUE
    /\ cookie' = now + CookieLife
    /\ imc' = [imc EXCEPT ![w] = Empty]
    /\ Go(w, "idle")
    /\ UNCHANGED <<now, bfc, kind, owes, resp, since, posted>>

-----------------------------------------------------------------------------
(* Asking for a page *)

\* The worker's memory c after InMemCache has put in what it got, wherever it got
\* it from: the oldest entries are purged to make room for it.
Full(c) == {k \in Keys : c[k] # {}}
Kept(c, limit) ==
    IF Cardinality(Full(c)) < limit THEN {Full(c)}
    ELSE {kept \in SUBSET Full(c) :
             /\ Cardinality(kept) = limit - 1
             /\ \A k \in Full(c) \ kept, j \in kept :
                    \A d \in c[k], e \in c[j] : d.stored <= e.stored}
With(c, limit, key, e) ==
    {[k \in Keys |-> IF k = key THEN {[stored |-> now, made |-> e.made, has |-> e.has]}
                     ELSE IF k \in kept THEN c[k] ELSE {}] : kept \in Kept(c, limit)}

KeepOver(w, e) ==
    imc' \in {[imc EXCEPT ![w] = c] : c \in With(imc[w], ImcEntries + 1, Key(w), e)}

\* It does not put in an error, or a page that is too large.
Keep(w, e) ==
    \/ imc' \in {[imc EXCEPT ![w] = c] : c \in With(imc[w], ImcEntries, Key(w), e)}
    \/ UNCHANGED imc

\* The browser that posted sends its cookie while it lasts, which makes the
\* request one that is_cacheable_request turns down: the page is made for it.
GetPast(w, c) ==
    /\ pc[w] = "idle"
    /\ told /\ now < cookie
    /\ kind' = [kind EXCEPT ![w] = c]
    /\ owes' = [owes EXCEPT ![w] = TRUE]
    /\ HasResponse(w, [made |-> now, has |-> posted])
    /\ Go(w, "served")
    /\ UNCHANGED <<now, imc, bfc, since, postVars>>

\* Anyone else's request, and the poster's later ones (mine), look into the
\* worker's memory first: InMemFetch, which deletes an entry that is too old.
Get(w, c, mine) ==
    /\ pc[w] = "idle"
    /\ mine => told /\ now >= cookie
    /\ kind' = [kind EXCEPT ![w] = c]
    /\ owes' = [owes EXCEPT ![w] = mine]
    /\ \/ \E e \in imc[w][KeyOf(c)] :
            /\ Live(e, ImcTTL)
            /\ HasResponse(w, e)
            /\ Go(w, "served")
            /\ UNCHANGED imc
       \/ /\ \A e \in imc[w][KeyOf(c)] : ~ Live(e, ImcTTL)
          /\ imc' = [imc EXCEPT ![w][KeyOf(c)] = {}]
          /\ Go(w, "bfc")
          /\ UNCHANGED resp
    /\ UNCHANGED <<now, bfc, since, postVars>>

\* StaticServ stands between the two caches: a static file is read anew.
Static(w) ==
    /\ pc[w] = "bfc"
    /\ kind[w] = "static"
    /\ HasResponse(w, [made |-> now, has |-> posted])
    /\ Keep(w, [made |-> now, has |-> posted])
    /\ Go(w, "served")
    /\ UNCHANGED <<now, bfc, kind, owes, since, postVars>>

\* BFCache: the TTL is the asker's, whoever filled the entry.
UsableAtAnyAge(w, e) == e.stored \in Times
Usable(w, e) == Live(e, TTLOf(kind[w]))

BfcHit(w) ==
    /\ pc[w] = "bfc"
    /\ kind[w] # "static"
    /\ \E e \in bfc[Key(w)] :
           /\ Usable(w, e)
           /\ HasResponse(w, e)
           /\ Keep(w, e)
    /\ Go(w, "served")
    /\ UNCHANGED <<now, bfc, kind, owes, since, postVars>>

\* A miss: the page is made, of what the store has at some time from now on.
BfcMiss(w) ==
    /\ pc[w] = "bfc"
    /\ kind[w] # "static"
    /\ \A e \in bfc[Key(w)] : ~ Usable(w, e)
    /\ HasResponse(w, [made |-> now, has |-> posted])
    /\ since' = [since EXCEPT ![w] = now]
    /\ Go(w, "make")
    /\ UNCHANGED <<now, imc, bfc, kind, owes, postVars>>

\* The page is made.  It goes into the BFC if it took long, or the load is high,
\* or the feed is always cached; not if it is an error or a robot asked.
Made(w) ==
    /\ pc[w] = "make"
    /\ bfc' \in {bfc, [bfc EXCEPT ![Key(w)] =
                          {[stored |-> now, made |-> resp[w].made, has |-> resp[w].has]}]}
    /\ Keep(w, resp[w])
    /\ since' = [since EXCEPT ![w] = 0]
    /\ Go(w, "served")
    /\ UNCHANGED <<now, kind, owes, resp, postVars>>

End(w) ==
    /\ pc[w] = "served"
    /\ Go(w, "idle")
    /\ kind' = [kind EXCEPT ![w] = "page"]
    /\ owes' = [owes EXCEPT ![w] = FALSE]
    /\ resp' = [resp EXCEPT ![w] = NoResponse]
    /\ UNCHANGED <<now, imc, bfc, since, postVars>>

-----------------------------------------------------------------------------
\* Only making a page, or storing the comment, takes time.
Tick ==
    /\ now < MaxTime
    /\ \A w \in Workers : /\ pc[w] \in {"idle", "posting", "make"}
                          /\ pc[w] = "make" => now < since[w] + GenMax
    /\ now' = now + 1
    /\ UNCHANGED <<imc, bfc, pc, kind, owes, resp, since, postVars>>

Next ==
    \/ Tick
    \/ \E w \in Workers :
        \/ Post(w) \/ PostAnswered(w)
        \/ \E c \in Asked : GetPast(w, c)
        \/ \E c \in Asked, mine \in BOOLEAN : Get(w, c, mine)
        \/ Static(w) \/ BfcHit(w) \/ BfcMiss(w) \/ Made(w) \/ End(w)

Spec == Init /\ [][Next]_vars

-----------------------------------------------------------------------------
Age(w) == now - resp[w].made

\* The caches stand one behind the other, and their ages add up: what is served
\* may be as old as both TTLs together, for a feed those of its slowest askers.
MaxTTL(key) == CASE key = "page"   -> BfcTTL
                 [] key = "feed"   -> Longer(AtomTTL, NocondTTL)
                 [] key = "static" -> 0
AgeBounded ==
    \A w \in Workers :
        pc[w] = "served" => Age(w) <= ImcTTL + MaxTTL(Key(w)) + GenMax

\* The browser that posted the comment sees it on every page it is served from
\* then on, in spite of the caches and after its cookie has expired too.
PosterSees ==
    \A w \in Workers :
        pc[w] = "served" /\ owes[w] /\ kind[w] = "page" => resp[w].has

\* What the proofs carry along: how old entries and responses can be, and that
\* one without the comment was begun before the cookie was given.
Older(x) == told /\ ~ x.has => x.made + CookieLife <= cookie
BfcAges ==
    \A k \in Keys : \A e \in bfc[k] :
        e.made <= e.stored /\ e.stored <= e.made + GenMax /\ e.stored <= now /\ Older(e)
ImcAges ==
    \A w \in Workers, k \in Keys : \A e \in imc[w][k] :
        /\ e.made <= e.stored /\ e.stored <= e.made + GenMax + MaxTTL(k)
        /\ e.stored <= now /\ Older(e)
RespAges ==
    \A w \in Workers :
        /\ pc[w] \in {"make", "served"} => resp[w].made <= now /\ Older(resp[w])
        /\ pc[w] = "make" => resp[w].made = since[w] /\ now <= since[w] + GenMax
CookieSpent ==
    /\ told => posted
    /\ \A v, w \in Workers : pc[v] = "posting" /\ pc[w] = "posting" => v = w
    /\ \A w \in Workers :
           /\ pc[w] = "posting" => posted /\ ~ told
           /\ owes[w] => told
           /\ pc[w] \in {"bfc", "make"} /\ owes[w] => cookie <= now

IInv ==
    /\ TypeOK
    /\ BfcAges
    /\ ImcAges
    /\ RespAges
    /\ CookieSpent
    /\ AgeBounded
    /\ PosterSees

\* A worker's memory holds no more pages than it is configured to.
ImcBounded == \A w \in Workers : Cardinality(Full(imc[w])) <= ImcEntries

\* Caching (test/pages/dwiki): 'even people doing proper conditional GET requests
\* will use the cached results for as long as their (lower) TTL says to.'
CondGetsKeepTheirTTL ==
    \A w \in Workers :
        pc[w] = "served" /\ kind[w] = "condfeed" => Age(w) <= ImcTTL + AtomTTL + GenMax
=============================================================================
