------------------------------ MODULE Request ------------------------------
(***************************************************************************)
(* Requests, from the browser that sends them through the stack of         *)
(* httpcore.py to the views and back, in the threads of one process:       *)
(* dwiki-serv.py makes one for each connection unless told otherwise, and  *)
(* they share one Model, whose password file and pages are read once and   *)
(* kept until somebody's request is finished.  Nothing locks them.         *)
(*                                                                         *)
(* Each client has one request at a time, sends its cookie with it and     *)
(* goes where a redirect sends it.  Meanwhile the administrator edits the  *)
(* password file and the pages; world is every edition there has been, and *)
(* what a thread has read is the number of an edition.  A step of a thread *)
(* is one use of what is shared; a view is chosen and a page rendered in   *)
(* one step each, so what comes between the parts of them is not modelled. *)
(***************************************************************************)
EXTENDS Site

CONSTANTS Clients,
          Users,
          DefaultUser,  \* the defaultuser, or NoUser
          Editions,     \* what the administrator may make of the site
          FirstEdition,
          Bookmarks,    \* the requests each client may begin with
          Bombs,        \* pages whose rendering fails an assertion
          Misread,      \* pages whose name must be quoted, and what it says if not
          MaxEditions,
          MaxTrail      \* bounds of a run

\* An edition of what is on the disk: who has which password (0: is not there),
\* whether the password file can be read, and what the pages say.
Passwords == Nat
Edition == [pw : [Users -> Passwords], broken : BOOLEAN, acl : [Files -> SUBSET (Users \cup Open)]]

ASSUME UsersAssumption ==
  /\ NoUser \notin Users \cup Open /\ DefaultUser \in Users \cup {NoUser}
  /\ Editions \subseteq Edition /\ FirstEdition \in Edition
  /\ Clients # {}

\* A URL as gather_reqdata takes it apart; of a form, only the page it came from.
Urls == [path : Seq(STRING), slash : BOOLEAN, view : STRING \cup {"unset"},
         quirks : SUBSET STRING]
ASSUME RequestsAssumption ==
  /\ \A t \in Clients : \A r \in Bookmarks[t] :
       r.url \in Urls /\ r.method \in {"GET", "POST"} /\ r.form.page \in Seq(STRING)
  /\ \A p \in DOMAIN Misread : Misread[p] \in Seq(STRING)

VARIABLES world,   \* every edition of the site so far
          book,    \* model.pwdict: the edition it was read from, 0 if empty
          pcache,  \* model.pcache: each page in it and when it was read, 0 if not
          debris,  \* 0, or the age of what a request that died has left there
          pc, why, \* where each thread is, and for what it asks for a user
          rq,      \* the request it has
          era,     \* the edition there was when it came
          since,   \* the oldest one that may have been in memory for it
          alone,   \* no other request has been there beside it
          login,   \* context.login
          proof,   \* the user and password that login rests on
          answer, shown, posted,   \* the response, its texts, and a comment made
          jar,     \* the browser's login cookie
          trail    \* the URLs that the redirects have led it through
vars == <<world, book, pcache, debris, pc, why, rq, era, since, alone, login, proof,
          answer, shown, posted, jar, trail>>
memory == <<book, pcache, debris>>
inRequest == <<rq, era, since, login, proof, answer, shown, posted>>
browser == <<jar, trail>>

Now == Len(world)
NoEntry == 0
NoProof == [user |-> NoUser, pw |-> NoEntry]
NoForm == [user |-> NoUser, pw |-> NoEntry, page |-> <<>>]
Get(u) == [url |-> u, method |-> "GET", form |-> NoForm]
Nothing == Error(0)
InFlight(t) == pc[t] \notin {"idle", "done"}

(* The stack, from the top: what it refuses, and what it sends elsewhere.  *)

BadRobotViews == {"atom", "writecomment", "source", "blogdir", "blog", "rss2"}
Refused(r) ==
  LET u == r.url
      robot == r.method = "GET" /\ u.view \in BadRobotViews
  IN \/ "bad-host" \in u.quirks                          \* HostKiller
     \/ "unknown-parameter" \in u.quirks                 \* ReqKiller
     \/ "banned" \in u.quirks                            \* IpKiller, RobotKiller2
     \/ robot /\ "robot" \in u.quirks                    \* RobotKiller, IpBadKiller
     \/ u.view = "writecomment" /\ "no-comments" \in u.quirks
\* InsaneKiller comes before the killers of robots; both just say no.
Insane(u) == "insane" \in u.quirks

\* What is true of the client and not of the URL goes where the client goes.
OfClient == {"bad-host", "banned", "robot", "no-comments"}

\* The path of a URL is decoded; put into a Location as it is, it is decoded twice.
Unquoted(p) == IF p \in DOMAIN Misread THEN Misread[p] ELSE p
Without(u, q) == [u EXCEPT !.path = Unquoted(u.path), !.quirks = @ \ {q}]

\* doPOSTMangling.  A form has the parameters that its view knows: any other would
\* be refused here, too (403).
PostError(r) ==
  IF "outside" \in r.url.quirks THEN Error(404)
  ELSE IF r.url.view \in {"unset", "normal"} \/ ~ ViewExists(r.url.view) THEN Error(403)
  ELSE IF ~ Accepts(r.url.view, "POST") THEN Error(405)
  ELSE Nothing

\* What is answered before the context is made; Nothing if the views must.
Stack(r) ==
  LET u == r.url
  IN IF r.method = "POST" /\ PostError(r) # Nothing THEN PostError(r)
     ELSE IF Insane(u) THEN Error(404)
     ELSE IF Refused(r) THEN Error(403)
     ELSE IF "utm" \in u.quirks THEN Redirect(Without(u, "utm"))           \* UtmRedirecter
     ELSE IF "other-host" \in u.quirks THEN Redirect(Without(u, "other-host")) \* CanonRedir
     ELSE IF "static" \in u.quirks
          THEN IF r.method = "POST" THEN Error(403)
               ELSE IF u.view \in {"unset", "normal"} THEN Page ELSE Error(404)
     ELSE IF "outside" \in u.quirks \/ ~ ViewExists(ViewOf(<<>>, u.view)) THEN Error(404)
     ELSE IF ~ Accepts(IF u.view = "unset" THEN "normal" ELSE u.view, r.method) THEN Error(403)
     ELSE IF u.path = <<>> /\ ~ u.slash THEN Redirect([u EXCEPT !.slash = TRUE, !.view = "unset"])
     ELSE Nothing

Init ==
  /\ world = <<FirstEdition>>
  /\ book = 0 /\ pcache = <<>> /\ debris = 0
  /\ pc = [t \in Clients |-> "idle"] /\ why = [t \in Clients |-> "nothing"]
  /\ rq = [t \in Clients |-> Get(Url(<<>>, TRUE, "unset"))]
  /\ era = [t \in Clients |-> 1] /\ since = [t \in Clients |-> 1]
  /\ alone = [t \in Clients |-> TRUE]
  /\ login = [t \in Clients |-> NoUser] /\ proof = [t \in Clients |-> NoProof]
  /\ answer = [t \in Clients |-> Nothing] /\ shown = [t \in Clients |-> {}]
  /\ posted = [t \in Clients |-> FALSE]
  /\ jar = [t \in Clients |-> NoProof] /\ trail = [t \in Clients |-> <<>>]

\* A request arrives: what the stack answers itself is answered.
Arrive(t, r) ==
  /\ rq' = [rq EXCEPT ![t] = r]
  /\ login' = [login EXCEPT ![t] = NoUser] /\ proof' = [proof EXCEPT ![t] = NoProof]
  /\ shown' = [shown EXCEPT ![t] = {}] /\ posted' = [posted EXCEPT ![t] = FALSE]
  /\ answer' = [answer EXCEPT ![t] = Stack(r)]
  /\ IF Stack(r) # Nothing
     THEN /\ pc' = [pc EXCEPT ![t] = "done"]
          /\ UNCHANGED <<why, era, since, alone>>
     ELSE LET others == {s \in Clients \ {t} : InFlight(s)}
              ages == {Now} \cup {era[s] : s \in others} \cup ({debris} \ {0})
          IN /\ era' = [era EXCEPT ![t] = Now]
             /\ \E age \in ages : (\A n \in ages : age <= n) /\ since' = [since EXCEPT ![t] = age]
             /\ alone' = [s \in Clients |->
                            IF s = t THEN others = {} /\ debris = 0
                            ELSE alone[s] /\ s \notin others]
             /\ IF DefaultUser # NoUser
                THEN pc' = [pc EXCEPT ![t] = "fill"] /\ why' = [why EXCEPT ![t] = "guest"]
                ELSE pc' = [pc EXCEPT ![t] = "open"] /\ UNCHANGED why
  /\ UNCHANGED <<world, book, pcache, debris, jar>>

Visit(t, r) ==
  /\ pc[t] = "idle" /\ r \in Bookmarks[t]
  /\ trail' = [trail EXCEPT ![t] = <<r.url>>]
  /\ Arrive(t, r)
Follow(t, u) ==
  /\ pc[t] = "done" /\ u \in answer[t].to /\ Len(trail[t]) < MaxTrail
  /\ LET to == [u EXCEPT !.quirks = @ \cup (rq[t].url.quirks \cap OfClient)]
     IN trail' = [trail EXCEPT ![t] = Append(@, to)] /\ Arrive(t, Get(to))
Rest(t) ==
  /\ pc[t] = "done" /\ (answer[t].to = {} \/ Len(trail[t]) = MaxTrail)
  /\ pc' = [pc EXCEPT ![t] = "idle"]
  /\ trail' = [trail EXCEPT ![t] = <<>>]
  /\ answer' = [answer EXCEPT ![t] = Nothing]
  /\ shown' = [shown EXCEPT ![t] = {}] /\ posted' = [posted EXCEPT ![t] = FALSE]
  /\ login' = [login EXCEPT ![t] = NoUser] /\ proof' = [proof EXCEPT ![t] = NoProof]
  /\ rq' = [rq EXCEPT ![t] = Get(Url(<<>>, TRUE, "unset"))]
  /\ era' = [era EXCEPT ![t] = 1] /\ since' = [since EXCEPT ![t] = 1]
  /\ alone' = [alone EXCEPT ![t] = TRUE]
  /\ why' = [why EXCEPT ![t] = "nothing"]
  /\ UNCHANGED <<world, memory, jar>>

(* model.get_user, in its two steps: read the password file if nothing of  *)
(* it is there, then look in what is there.                                *)

Ask(t, what) == pc' = [pc EXCEPT ![t] = "fill"] /\ why' = [why EXCEPT ![t] = what]
Goto(t, where) == pc' = [pc EXCEPT ![t] = where] /\ UNCHANGED why
Answer(t, a) == answer' = [answer EXCEPT ![t] = a] /\ Goto(t, "finish")

Fill(t) ==
  /\ pc[t] = "fill"
  /\ IF book = 0 /\ world[Now].broken
     THEN Answer(t, Error(500)) /\ UNCHANGED book
     ELSE /\ book' = IF book = 0 THEN Now ELSE book
          /\ Goto(t, "get")
          /\ UNCHANGED answer
  /\ UNCHANGED <<world, pcache, debris, rq, era, since, alone, login, proof, shown, posted, browser>>

Entry(u) == IF book = 0 \/ u \notin Users THEN NoEntry ELSE world[book].pw[u]
Asks(t, what) == pc[t] = "get" /\ why[t] = what

\* _logstate, for the default user at first.
Guest(t) ==
  /\ Asks(t, "guest")
  /\ login' = [login EXCEPT ![t] = IF Entry(DefaultUser) # NoEntry THEN DefaultUser ELSE NoUser]
  /\ Goto(t, "open")
  /\ UNCHANGED <<world, memory, rq, era, since, alone, proof, answer, shown, posted, browser>>

\* get_page: in the cache or not, and then taken from it.
PageOf(t) == rq[t].url.path
Cached(ps, n) == [p \in DOMAIN pcache \cup ps |-> IF p \in DOMAIN pcache THEN pcache[p] ELSE n]
AfterPage(t) == IF jar[t].user # NoUser THEN Ask(t, "proof") ELSE Goto(t, "respond")
Opens(t) ==
  /\ pc[t] = "open"
  /\ IF PageOf(t) \in DOMAIN pcache
     THEN Goto(t, "take") /\ UNCHANGED pcache
     ELSE pcache' = Cached({PageOf(t)}, 0) /\ AfterPage(t)
  /\ UNCHANGED <<world, book, debris, inRequest, alone, browser>>

\* A request that dies leaves the memory as it is: finish() is not reached.
Dies(t) ==
  /\ debris' = IF debris # 0 /\ debris < era[t] THEN debris ELSE era[t]
  /\ answer' = [answer EXCEPT ![t] = Error(500)]
  /\ Goto(t, "done")
Takes(t) ==
  /\ pc[t] = "take"
  /\ IF PageOf(t) \in DOMAIN pcache
     THEN AfterPage(t) /\ UNCHANGED <<debris, answer>>
     ELSE Dies(t)
  /\ UNCHANGED <<world, book, pcache, rq, era, since, alone, login, proof, shown, posted, browser>>

\* setLoginFromCookie: the cookie's hash is made of the user's password hash.
Good(c) == Entry(c.user) # NoEntry /\ c.pw = Entry(c.user)
\* A mutant: a proved cookie logs nobody in.
ProvesIdly(t) ==
  /\ Asks(t, "proof") /\ Goto(t, "respond")
  /\ UNCHANGED <<world, memory, inRequest, alone, browser>>
Proves(t) ==
  /\ Asks(t, "proof")
  /\ IF Good(jar[t]) THEN Ask(t, "vouch") ELSE Goto(t, "respond")
  /\ UNCHANGED <<world, memory, inRequest, alone, browser>>

\* What the request says it is: its cookie, or the form's user and password.
Claim(t) == IF why[t] = "vouch" THEN jar[t]
            ELSE [user |-> rq[t].form.user, pw |-> rq[t].form.pw]

\* do_login, and the _logstate in it: after a cookie, or after a password.
Vouches(t) ==
  /\ Asks(t, "vouch") \/ Asks(t, "enter")
  /\ LET user == Claim(t).user
         known == Entry(user) # NoEntry
     IN /\ login' = [login EXCEPT ![t] = IF known THEN user ELSE NoUser]
        /\ proof' = [proof EXCEPT ![t] = IF known THEN Claim(t) ELSE NoProof]
        /\ IF why[t] = "vouch" THEN Goto(t, "respond") /\ UNCHANGED answer
           ELSE IF known THEN Ask(t, "seal") /\ UNCHANGED answer
           ELSE Answer(t, [code |-> 303, to |-> {Nuri(rq[t].form.page)}])
  /\ UNCHANGED <<world, memory, rq, era, since, alone, shown, posted, browser>>

(* The views. *)

Responds(t) ==
  /\ pc[t] = "respond"
  /\ LET u == rq[t].url
     IN CASE u.view \in {"login", "logout"} /\ rq[t].form = NoForm ->
               Answer(t, Error(403))
          [] u.view = "login" /\ rq[t].form # NoForm -> Ask(t, "check") /\ UNCHANGED answer
          [] u.view = "logout" /\ rq[t].form # NoForm ->
               /\ IF DefaultUser # NoUser THEN Ask(t, "bye") ELSE Goto(t, "leave")
               /\ UNCHANGED answer
          [] OTHER -> IF Respond(u) = Page THEN Ask(t, "text") /\ UNCHANGED answer
                      ELSE Answer(t, Respond(u))
  /\ UNCHANGED <<world, memory, rq, era, since, alone, login, proof, shown, posted, browser>>

\* LoginView.post: the form's password against the file's.
Checks(t) ==
  /\ Asks(t, "check")
  /\ IF Good(rq[t].form) THEN Ask(t, "enter") /\ UNCHANGED answer
     ELSE Answer(t, Page)    \* loginerror
  /\ UNCHANGED <<world, memory, rq, era, since, alone, login, proof, shown, posted, browser>>
\* A mutant: a cookie is made without looking whether the user is still there.
SealsBlindly(t) ==
  /\ Asks(t, "seal")
  /\ jar' = [jar EXCEPT ![t] = [user |-> login[t], pw |-> Entry(login[t])]]
  /\ Answer(t, [code |-> 303, to |-> {Nuri(rq[t].form.page)}])
  /\ UNCHANGED <<world, memory, rq, era, since, alone, login, proof, shown, posted, trail>>
\* setUserCookie: what the file says of the user by then goes into the cookie.
Seals(t) ==
  /\ Asks(t, "seal")
  /\ jar' = [jar EXCEPT ![t] = IF Entry(login[t]) # NoEntry
                               THEN [user |-> login[t], pw |-> Entry(login[t])] ELSE NoProof]
  /\ Answer(t, [code |-> 303, to |-> {Nuri(rq[t].form.page)}])
  /\ UNCHANGED <<world, memory, rq, era, since, alone, login, proof, shown, posted, trail>>
LogsOut(t) ==
  /\ Asks(t, "bye") \/ pc[t] = "leave"
  /\ jar' = [jar EXCEPT ![t] = NoProof]
  /\ login' = [login EXCEPT ![t] = IF Entry(DefaultUser) # NoEntry THEN DefaultUser ELSE NoUser]
  /\ proof' = [proof EXCEPT ![t] = NoProof]
  /\ Answer(t, [code |-> 303, to |-> {Nuri(rq[t].form.page)}])
  /\ UNCHANGED <<world, memory, rq, era, since, alone, shown, posted, trail>>

\* What the pages say, as the threads have it in memory.
SeenAcl == [f \in Files |->
              LET n == IF f \in DOMAIN pcache THEN pcache[f] ELSE 0
              IN world[IF n = 0 THEN Now ELSE n].acl[f]]
Read(ps) ==
  [p \in DOMAIN pcache \cup ps |->
     IF p \in DOMAIN pcache /\ pcache[p] # 0 THEN pcache[p]
     ELSE IF p \in ps \cap Files THEN Now ELSE 0]

Renderings(t) ==
  /\ Asks(t, "text")
  /\ LET p == PageOf(t)
         v == ViewOf(p, rq[t].url.view)
         who == IF Entry(login[t]) # NoEntry THEN login[t] ELSE NoUser
         texts == Shown(p, v, who, SeenAcl)
         reads == UNION {Walked(f) : f \in Included(p, v) \cup {p}}
     IN /\ pcache' = Read(reads)
        /\ IF v # "source" /\ texts \cap Bombs # {}
           THEN Dies(t) /\ UNCHANGED <<shown, posted>>
           ELSE /\ shown' = [shown EXCEPT ![t] = texts]
                /\ posted' = [posted EXCEPT ![t] = v = "writecomment" /\ rq[t].method = "POST"
                                                   /\ CommentOk(p, who, SeenAcl)]
                /\ Answer(t, IF v = "source" /\ texts = {} THEN Error(403) ELSE Page)
                /\ UNCHANGED debris
  /\ UNCHANGED <<world, book, rq, era, since, alone, login, proof, browser>>

\* A mutant: finish() forgets the password file.
FinishesPages(t) ==
  /\ pc[t] = "finish"
  /\ pcache' = <<>> /\ debris' = 0
  /\ Goto(t, "done")
  /\ UNCHANGED <<world, book, inRequest, alone, browser>>
\* modelserv.finish(), for everybody.
Finishes(t) ==
  /\ pc[t] = "finish"
  /\ book' = 0 /\ pcache' = <<>> /\ debris' = 0
  /\ Goto(t, "done")
  /\ UNCHANGED <<world, inRequest, alone, browser>>

(* The administrator. *)
Edit(e) ==
  /\ Now < MaxEditions /\ e # world[Now]
  /\ world' = Append(world, e)
  /\ UNCHANGED <<memory, pc, why, inRequest, alone, browser>>

Steps(t) ==
  \/ \E r \in Bookmarks[t] : Visit(t, r)
  \/ \E u \in answer[t].to : Follow(t, u)
  \/ Rest(t) \/ Fill(t) \/ Guest(t) \/ Opens(t) \/ Takes(t) \/ Proves(t) \/ Vouches(t)
  \/ Responds(t) \/ Checks(t) \/ Seals(t) \/ LogsOut(t) \/ Renderings(t) \/ Finishes(t)
Next == (\E t \in Clients : Steps(t)) \/ (\E e \in Editions : Edit(e))
Spec == Init /\ [][Next]_vars

(* Properties. *)

TypeOK ==
  /\ world \in Seq(Edition) /\ world # <<>>
  /\ book \in 0 .. Now /\ debris \in 0 .. Now
  /\ era \in [Clients -> 1 .. Now] /\ since \in [Clients -> 1 .. Now]
  /\ login \in [Clients -> Users \cup {NoUser}]
  /\ \A t \in Clients : jar[t] = NoProof \/ (jar[t].user \in Users /\ jar[t].pw # NoEntry)

\* A redirect never leads back to a URL that the browser has come through,
\* unless one of the pages on the way is a redirect that the author wrote, or
\* the root of a wiki that is configured to be its own front page
\* (views.GenericView.redirect_page and the three redirects of the stack).
MagicUrl(u) == IsRedirect(Me(u.path)) \/ IsRedirect(Child(u.path, "__index"))
OwnFront(u) == u.path = <<>> /\ WikiRoot = <<>>
NoRedirectLoop ==
  \A t \in Clients : \A i, j \in DOMAIN trail[t] :
    i < j /\ trail[t][i] = trail[t][j] =>
      \E k \in i .. j - 1 : MagicUrl(trail[t][k]) \/ OwnFront(trail[t][k])

\* Whoever is to be refused is refused at once: no request that a redirect led
\* to is turned away by the stack (UtmRedirecter is placed after what can fail
\* the request for that), but for a robot that comments: what it sends with POST
\* is not looked at, and where that is redirected to is (is_bad_robot_request).
\* And where a view redirects of its own accord, for the root, a slash or a view
\* that the directory declines, there is a page, or a redirect of the author's.
ByView(u) == Stack(Get(u)) = Nothing /\ ~ MagicUrl(u)
LandsWell ==
  \A t \in Clients : pc[t] = "done" /\ Len(trail[t]) > 1 =>
    /\ Refused(rq[t]) => rq[t].url.view = "writecomment" /\ "robot" \in rq[t].url.quirks
    /\ ByView(trail[t][Len(trail[t]) - 1]) /\ ~ MagicUrl(rq[t].url)
         => answer[t].code \notin {403, 404, 405, 503}

\* The times a request may speak of: it may find in memory what was read for a
\* request that was there when it came, or one that died.
Times(t) == since[t] .. Now

\* Nobody is shown the text of a page, or comments on one, unless at some time
\* for each page that decides it, the nearest one with a restriction to say,
\* going up from the page, admitted him: whichever view showed it, and though
\* _render and access_ok decide it each for itself.
Restricting(f, acl) ==
  {q \in Above(f) : /\ Speaker(q) \in Files /\ acl[Speaker(q)] # Open
                    /\ q # f => RealPage(Speaker(q))}
Admitted(f, who, acl) ==
  \/ Restricting(f, acl) = {}
  \/ \E q \in Restricting(f, acl) : Nearest(q, Restricting(f, acl)) /\ who \in acl[Speaker(q)]
Texts(w, f, at) == [g \in Files |-> IF g \in Walked(f) THEN w[at[g]].acl[g] ELSE Open]
MayRead(w, times, who, f) ==
  \E at \in [Walked(f) -> times] : Admitted(f, who, Texts(w, f, at))
OnlyReaders ==
  \A t \in Clients : \A f \in shown[t] \cup (IF posted[t] THEN {PageOf(t)} ELSE {}) :
    MayRead(world, Times(t), login[t], f)

\* A request runs as a user other than the default one only on a cookie or a
\* password that was the user's in the password file at such a time
\* (htmlauth.setLoginFromCookie, setLoginFromPassword).
Holds(w, n, c) == c.user \in Users /\ c.pw # NoEntry /\ w[n].pw[c.user] = c.pw
LoggedInAsProved ==
  \A t \in Clients : login[t] \notin {NoUser, DefaultUser} =>
    /\ proof[t].user = login[t]
    /\ proof[t] \in {jar[t], [user |-> rq[t].form.user, pw |-> rq[t].form.pw]}
    /\ \E n \in Times(t) : Holds(world, n, proof[t])

\* With no other request beside it, a request is not robbed of its login: a
\* cookie that is good all the while is taken, and a login that is good all the
\* while leaves a good cookie.  (Beside others it may be: finish() empties the
\* password file between the two steps of get_user.)
KeepsLogin ==
  \A t \in Clients : alone[t] =>
    /\ pc[t] = "respond" /\ jar[t].user # NoUser /\ (\A n \in Times(t) : Holds(world, n, jar[t]))
         => login[t] = jar[t].user
    /\ pc[t] = "done" /\ rq[t].url.view = "login" /\ rq[t].form # NoForm
         /\ Stack(rq[t]) = Nothing /\ answer[t].code # 500
         /\ (\A n \in Times(t) : Holds(world, n, rq[t].form))
         => jar[t] = [user |-> rq[t].form.user, pw |-> rq[t].form.pw]
=============================================================================
