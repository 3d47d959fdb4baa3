# A TLA+ verification project for DWiki

DWiki is a wiki and blog engine in Python 2. It has no database: pages,
templates, comments, caches and passwords are files, and requests are handled
by any number of worker processes that share them. Most of what is hard in it
is therefore between processes, and hard to reach with a test.

This directory holds TLA+ models of DWiki's code, TLC configurations that check
them on small instances, and proofs, checked by TLAPS, of what holds for every
instance. Paths are those of the repository.

To check: `tlc -config MCPrefork.cfg MCPrefork` (and so on for each `.cfg`);
to prove: `tlapm PreforkProofs.tla` (and so on for each `*Proofs.tla`).

## 1. The system

    web server --SCGI--> [ prefork pool ] --> [ request stack ] --> [ views ]
                          master, workers      IMC, static files,     templates,
                                               BFC, cleaner           macros, wikitext
                                                   |                     |
                                          cache store (files)   page, template and
                                          BFC entries, listings comment stores (files)

| component | state | operations | where |
|---|---|---|---|
| prefork pool | tables of workers, a channel to each, whether it accepts | fork, dispatch, acknowledge, reap, shoot, shut down | `wsgi/prefork.py`, `wsgi/scgipf.py` |
| comment store | a directory per page, a file per comment | post (`newblob`), list, load | `storage.py`, `model.py`, `comments.py` |
| listing cache | an entry per page, one flag, TTL and delta | fetch, store, invalidate | `rendcache.py`, `storage.py` |
| page caches | IMC per worker, BFC on disk, the poster's cookie | look up, fill, purge, clear | `httpcore.py`, `comments.py` |
| renderer cache | entries with validators (ctime, mtime) | fetch, verify, store | `rendcache.py` |
| file storage | files, and a cache of stats and objects per request | get, children, contents, flush | `storage.py` |
| request stack | none but the request's | redirects, refusals, caches, POST | `httpcore.py`, `httputil.py` |
| views and pages | the context of a request: variables, times, errors | respond: errors, redirects, rendering | `views.py`, `pages.py`, `context.py`, `htmlview.py` |
| authentication | password file, cookie in the browser | log in, log out, verify, `dpasswd` | `htmlauth.py`, `authcookie.py`, `dpasswd.py` |
| access control | `__access` pages up to the root | access, comment permission | `access.py` |
| page ranges, blogs | a restriction in the context | restrict, navigate, page through | `pageranges.py`, `blogdir.py` |
| configuration | name to value | load, default, check (again) | `config.py`, `dwconfig.py`, `contread.py` |
| renderers | a stack of open blocks | wikitext, templates, macros, feeds | `wikirend.py`, `template.py`, `macros.py`, `atomgen.py` |
| front ends | listening socket and its file, lock file | bind, stop, supervise, pass on | `dwiki-scgi.py`, `supervise-sock.py`, `sockact.py`, `wsgi/*.py` |
| revision files | parsed RCS header | locks, history | `rcsfile.py`, `histview.py` |
| threaded server | pages and passwords that its threads share | read, keep, forget at the end of a request | `wsgi/server.py`, `model.py` |

How they interact, and what is hard about it:

* The **master** of the pool and its **workers** talk over socket pairs. A
  message can be late, cross another one, or never come because the process
  died; the master waits one second for an answer, then kills. Correct is: the
  asserts in `dispatch()` hold, master and worker agree on what comes next, no
  worker runs that the master has forgotten, and no connection waits for ever.
* **Posting a comment** is a sequence of system calls that can fail or be cut
  off at any point, next to other workers that post the same comment or read
  the page. Correct is: what the poster is told is true, nobody fails by
  losing a race, readers miss nothing complete.
* A **listing of comments** takes long to make, so it is stored, and the next
  post makes it stale by touching a *flag* file. The listing may be made before
  a comment and stored after its flag. Correct is: no stale listing passes for
  a fresh one; if the flag fails, the TTL ends it.
* The **page caches** know nothing of comments; a TTL and a cookie have to do.
  Correct is: nothing is older than documented, and whoever posts sees it.
* Views **read** files that change, follow **redirects** over several requests,
  and check **permissions** by a walk to the root. In the threaded server they
  share what was read, with no lock, and a request that fails leaves it behind.
  Correct is: no redirect comes back to itself or ends at an error, the nearest
  page decides who reads, and nobody is logged in on what he never proved.
* The **renderer of wikitext** is a machine whose handlers push tokens back for
  one another. Correct is: it ends, what it writes nests, no word is lost.
* A **blog's listings** hand over to one another by links, in four ways of
  counting, and neighbours and texts come out of **caches** whose validators
  see some changes and not others. Correct is: the links lead to every entry
  once, and what is cached is wrong only as long, and for those, as the code
  says it may be.

`PROJECT.json` lists every component with its status, and under `hazards` every
such difficulty at its line, with the properties that cover it.

## 2. The modules

| module | what it is |
|---|---|
| `Prefork` | the pool, master step by step, workers, channels, clients |
| `PoolService` | what a pool promises: the abstract specification of `Prefork` |
| `PreforkInv` | the inductive invariant of the pool |
| `PreforkProofs` | its proofs, and the proof that `Prefork` implements `PoolService` |
| `MCPrefork` | instances for TLC |
| `CommentStore`, `CommentProofs`, `MCCommentStore` | the comment store of a page |
| `FlagCache`, `FlagProofs`, `MCFlagCache` | the listing cache and its flag |
| `HttpCache`, `HttpCacheProofs`, `MCHttpCache` | IMC, BFC and the poster's cookie |
| `Site` | what a wiki of pages answers to a URL, and who may read what: operators only |
| `Request`, `RequestProofs`, `MCRequest` | browsers, the stack and the views on top of `Site`, in threads, while an administrator edits |
| `PageRanges` | restrictions, clipping and navigation of listings: operators only |
| `Blog`, `BlogProofs`, `MCBlog` | readers of a blog through the renderer caches, on top of `PageRanges`, while the author works |
| `Wikitext` | the renderer of wikitext, one handler or call a step |
| `WikitextEnd` | how much a page can still cost to render: a measure, for TLC only, since it is recursive |
| `WikitextInv` | the inductive invariant of the renderer, and what is written at any point |
| `WikitextProofs` | that the first is one, so that only the known failures happen |
| `WikitextNests` | that what is written nests |
| `MCWikitext` | pages for TLC |

Some definitions come in two forms, `CreateOver` before `Create`. The first is
no part of the model: it is `Create` with a plausible bug, kept to show that a
property notices (`mutants` in `PROJECT.json`).

### Prefork

The master is a program with a program counter `pc`; it takes a step for each
point at which it looks at another process, and workers step in between.
`mode` is the function it is in: `serve()`, `shutdown_accept()` ("drain"),
`shutdown()` ("down"). `kids`, `idle_kids` and `pending_kids` are the tables of
the same name, `older` the order of `ctimes`. A worker is a record: where its
process is (`st`), what lies unread in its channel (`chan`), the command it was
sent, the requests it has handled, the stop its request asked for.

| code | actions |
|---|---|
| `serve()` | `BootStart`, `BootAcked`, `BootDone`, `ServeLoop`, `Stopped` |
| `cycle()` | `Select`, `SelectTimeout`, `Ack...`, `AcksDone`, `InsureDone` |
| `dispatch()` | `AwaitPending`, `PendingAcked`, `Dispatch...`, `Offer...`, `NoOffer` |
| `start_worker()` | `StartWorker`, `StartAcked` |
| `insure_min_kids()` | `InsureFork`, `InsureDone` |
| `shutdown_idle()`, `shutdown()` | `ShutIdle`, `ExitAnswered`, `DownWait`, `DownDone`, `TimeRunsOut` |
| `worker()` | `WorkerUp`, `WorkerRecv`, `WorkerAccept`, `WorkerBusy`, `Served`, ... |
| anything a process may do to die | `WorkerDies` |

A timeout of `recv_resp()` (`RespTimesOut`) and the kill that follows it
(`ShootLate`) are two steps: in between the worker may accept() and say BUSY, which
nobody reads any more, and it is shot while it serves. `BusyNeverShot` excepts
exactly this worker, and `LossAccounted` charges its connection to the late
answer. Merged into one step are: a `waitpid()` and the call beside it, since a
process that dies between the two is collected by the next `waitpid()`, and
`drop_kid()` forgets it all the same; a `recv()` and the kill for a wrong answer,
which is EOF or DYING, from a process that does nothing more but exit; and the
kills at the end of `shutdown()`, since workers do not look at one another.

The bytes of SCGI, the request itself and its time are left out; a request ends
when it ends. Clients only arrive. `MaxConns`, `MaxFaults` and `MaxSlow` bound
how many connections, deaths and late answers a run has; the proofs do not
depend on them.

### CommentStore

One page, whose directory is `Depth` levels deep. A worker is either posting
(`where`, `descend`, `mkdir`, `create`, `write`, `sync`, `close`: the calls of
`newblob()` and `makedirs()` in their order), or showing the page (`list`,
`load`), or has an answer: `good`, `bad` (the posted-bad page), `page`,
`interr` (an IntErr). A file is `absent`, `empty`, `part` or `full`. Each call
fails if the run's `Faults` let it, and a worker may die anywhere
(`Crash`). `told` and `cut` remember what posters were told and whose writer
was cut short; they are history, nothing reads them. The text, permissions and
the preview are left out. Power failure is not modelled, so fsync() matters
only by failing.

### FlagCache

The listing for one page, made by `ListDir` one directory at a time, while
`PutComment`, `WriteFlag` and `RenameFlag` happen to any comment; the entry and
the flag are each written (which fixes the file's time) and then renamed into
place. A request stats the entry and the flag, in either order since a stat may
be left from before in its pool, reads the entry by name and judges by the two
times, as `get_flagged()` does. The clock is one variable; `Tick` respects
`GenMax`, the longest walk, and `StoreMax`, the longest time from a write to
its rename. The code bounds neither: these two constants *are* the assumption
under which a delta can work at all, and the model says which one is needed:
`Delta >= GenMax + 2 * StoreMax`. The default of 30 seconds is enough for
listings made in well under 30 seconds.

### HttpCache

A request goes through `Get` (`InMemFetch`), then `Static`, `BfcHit`, or
`BfcMiss` and `Made`. `Keep` puts what came back into the worker's memory,
purging the oldest. `GetPast` is a request with the cookie. A response is the
time at which its page began to be made, and whether it has the comment. The
stores of the BFC are atomic here (`FlagCache` has the same pool's `store()` in
detail). `Slack` is the five minutes of `setCommentCookie`; the proofs
assume that they exceed `GenMax` plus the shorter of `ImcTTL` and `BfcTTL`. A site
that sets both TTLs to five minutes or more is outside that assumption.

### Site and Request

`Site` says what the code computes from a tree of pages: the views a page takes
(`ViewOf`, `PrefView`, `Accepts`), the answer to a URL (`Respond`, which follows
`GenericView.respond`: errors, root, redirect pages, directories, then the
page), who may read (`PermCheck`, `AccessOk`, `RenderOk`, and `Renders` for
`_render()`, which decides it in another way), and which texts a view shows
(`Included`, `Shown`). The text of the macros is a parameter, since it changes.
Requests with POST are those of the program's own forms: the view of a comment is in
the form's URL (`comments.py:399`), so that it counts as set (`ViewOf`), and a form
has no parameters that its view does not know (`PostError`; `httpcore.py:230`
answers 403 otherwise). A POST whose view is only in the form would not count as
having set it (`httpcore.py:188`), and `viewFactory()` could show another view.

In `Request` a client's request goes through the stack (`Arrive`, `Stack`), the
context (`Fill`, `Guest`, `Opens`, `Takes`), the cookie (`Proves`, `Vouches`),
the view (`Responds`), a login or logout (`Checks`, `Seals`, `LogsOut`), the
texts (`Renderings`) and `finish()` (`Finishes`). A step is one use of what the
threads share: `book` is `model.pwdict`, `pcache` the pages, each as the number
of the edition it was read from; `world` holds the editions. A request that
fails with anything but a `WikiErr` (`Dies`) skips `finish()` and leaves
`debris`. `since` is the oldest edition that may be in memory for a request;
`since`, `era`, `alone`, `proof` and `trail` are history that nothing reads.

`Bombs` are pages whose rendering fails an assertion (there are such pages, see
below), `Misread` those whose name must be quoted in a Location. Hashes are
perfect: a cookie is of a user and his password's entry. Choosing the view and
rendering are one step each, so a page that changes between the choice of its
view and its rendering is read as of one moment or the other, not of both; the
existence of pages does not change. When several `.flag.prefview` flags are in
one directory the code takes the first of a dictionary; the model takes one by
`CHOOSE`.

### PageRanges and Blog

`PageRanges` works on a list of entries with times. A suffix of a URL is a
sequence such as `<<"latest", 5>>`; `RestrictTo` is `restrict()`, `Positions`
what `filter_files()` takes, `Hits` what it leaves for the navigation,
`ClipDown` where a listing is cut, and each bar of links is the set of suffixes
it links to. `Date` gives the date of each time; a later time is never on an
earlier day. `Suffixes` are the suffixes that `restMatches` takes, and numbers
below zero, which the code may write into a link (`latest/-1`) and its patterns
do not take: `restrict()` refuses such a name, as it does the 13th month, so
`virtualize_page()` finds no virtual directory and the page is missing
(`Shown`). Left out are the suffixes that raise an exception: the year 0 and
`latest/` without a number.

Three views show a list. `blog` and `titles` take what is below the directory
(`PageKids`), redirects and utility pages included; it is this list that is
restricted, counted, clipped and linked, and what is no page of its own, or in
`titles` not for the reader, is skipped only when the page is written
(`Shows`, the fields `listed` and `shown`). `blogdir` drops what is not real
first, and if nothing is left it ends before it has counted anything
(`UncountedBar`). So a link of `blog` may lead to a day of which the only entry
is a redirect, and to an empty page; and `range/` of an empty blogdir links
back and back for ever (`Furthest` bounds that). A file under two names (hard
links) is shown once on a page; no two `Files` are one.

In `Blog` a listing (`Opens`, `Goes`), an entry (`Reads`) or a text (`Gets`) is
made in one step, through the lists `page-kids` (`kids`) and `pnc-kids` (`pnc`),
each with the directories' times and its own, and the renderings (`texts`),
each with its stamp: the page's ctime and two directories' mtimes. The author
adds, removes, rewrites and backdates files and restricts them, or what is
above them (`Closes`); each such act takes a tick. `caching` is one of four
configurations: no cache, `generator-cache`, `render-cache`, and the latter with
`render-anonymous-only`. The blog is the root of the site, and the site has no
alias and search paths.

### Wikitext

A page is a sequence of tokens, one for each line. Each handler of
`wikirend.py` is an action that takes the tokens in front of `queue`, and writes
or pushes others back; `ListStart` to `ListEnd` are the loop of `handle_list`,
whose gathered tokens are in `loop`. `calls` is what the handler at work has
still to do: its calls of `handle_begin()`, `handle_text()`, `handle_end()` and
so on in their order. Each call is an action (`Call`), and may put calls of its
own before those that are left: `handle_text()` the rest of its text, `brlink()`
the text of its link and the end of it, a macro what it has the renderer do. So
`calls` is the Python stack from `run()` down, and a text within a link within
a text takes no recursion. How many calls of `handle_text()` one of them is in
is its `lvl`: a `RuntimeError` (`TooDeep`) comes when that is more than `Deepest`,
which stands for Python's recursion limit.

`subs` are the substitutions of `.pn sub` and `.pn wordsub`, which `handle_text()`
makes in each text it is called with, those within others included (`TextCall`,
`InnerText`). Words are tokens, so the two notes come to the same. They are kept
in a dictionary: `MakeSub` puts a new one at any place in the order in which
`values()` may return them. `.pn prewrap` changes an attribute of `<pre>` only. A
page on which nothing is substituted (`~Substitutes`) renders as if `subs` were
not there. Every page is rendered to its end: the early way out of `run()` for
somebody who wants the title only (`TITLEONLY`, `wikirend.py:963`) is left out.

`stack` and `styles` are the open elements and font styles; `barrier` is the
stack of `set_style_barrier()`; `res` is what has been written since the last
block and `blocks` are the pushed blocks, of which views take a part (`Filter`).
The text of a line is a sequence of words, marks and brackets; a macro is known
by what it does to what is around it.

Two fields of `rend` are there for the properties and have no counterpart in the
code. `floor` is how many styles were open before the link or abbreviation at
hand began. `leak` is set in the three ways in which a page comes not to nest: an
element is begun while a style is open; a style from below the floor is ended
within a link or an abbreviation (even if it is begun again there); a style begun
within one is open at its end. These are defects of the code (section 3), and
`ViewsNest` speaks of the pages without them.

`Nesting` is how many lines may be in one another (a quote in an indented line
in a quote); `WikitextAssumption` says that every input is a page: `IsLine` is
what `getTokFromLine()` can return for a line, with the line within if it is of
a class that has one, and the notes of a processing note, each with the
arguments it asks for.

## 3. The runs

| run | instance | shows |
|---|---|---|
| `prefork` | 3 slots, `wmax` 2, 3 connections, 1 death, 1 late answer | safety of the pool, and that it implements `PoolService` |
| `prefork_live` | one worker at a time, stalling on overload | liveness |
| `prefork_retire` (violated) | as above, no faults | a worker serves `rqmax + 1` requests |
| `prefork_minimum` (violated) | 1 death, 1 connection | the pool stays below `wmin` |
| `comments` | 2 workers, 2 comments, depth 2, every fault | the comment store |
| `comment_retry` (violated) | 1 worker, a failing write | a retry is told a falsehood |
| `flag_cache` | 2 requests, 3 comments, time to 4 | the listing cache |
| `page_caches` | 2 workers, memory of 1 page, time to 5 | the page caches |
| `cond_get` (violated) | feeds only | conditional GETs get older feeds |
| `requests` | 2 browsers, 3 users, 10 files in 3 directories, 2 editions, 19 first requests | redirects, permissions and logins |
| `blog` | 6 entries, 3 of them in a directory below, two of the 6 redirects and one closed to most, TTL 1, clipped at 2, ranges up to 12, time to 6, 8 or 9 | listings, neighbours, texts |
| `rendering` | lines of 16 kinds up to 3, of 9 up to 4, text of up to 6 marks, macros, notes also within quotes, a style across an abbreviation | the renderer |

Are the bounds enough? In `prefork` the third slot lets a worker that was shot
or retired still be around while two others run, and three connections are what
it takes to have one served, one waiting and one refused; one fault and one
late answer may come at any point, also in the midst of a shutdown. In
`comments`, two workers are two posts of the same text, two of different ones,
or a post and a reader; with depth 2 each can lose the race at either level. In
`flag_cache`, `Delta` is exactly the least value the theorem allows, and one
unit less is a violation found within the bound of the clock. In `page_caches`,
`Slack` is again the least, and two pages compete for one place in memory. In
`requests` one browser has every kind of request and the other one a single
one, which is all it takes to be there when memory is emptied or to be left with
what another one read; two editions are one change at any point, and a trail
of four is longer than any that does not loop. In `blog` the entries are so
dated that two are of one day, two of the same day of different months, and a
year ends among them; one day and one year have a redirect only, and one day
titles that not every reader sees; the blogdir may become empty; the typed
ranges are at, below and past their limits. The
readers of one behaviour come for one thing, since the caches of texts and of
lists share nothing; neighbours need the longest time, two TTLs after a change.
`rendering` takes each rule of nesting to the depth at which it repeats: a list
in a list in a quote, a style within a style within brackets. Words are replaced
by each thing that can stand in a text and was not there when the handler was
called for it, one of them by another one and by itself; `Deepest` is 3, one more
than a page that substitutes nothing reaches. Every
action fires in each run that uses it, and every property fails for its mutant.

### What is checked

* Pool. `NoAssertionFails`, `InStep` (a message read is one the master expects
  there), `NoStrayWorkers`, `WorkerLimit`, `LossAccounted` (a connection is lost
  only with a worker that was killed or died), `BusyNeverShot`, `NeverBlind`
  (it never listens to nothing), `ConnectionsTaken`, `DrainComplete`,
  `ShutdownEnds`, `ImplementsService`.
* Comments. `OneWriter`, `ToldIsThere`, `BadHasCause`, `ShowsAll`, `Kept`, `TakesHold`.
* Listings. `FreshAfterFlag`, `StalenessBounded`.
* Pages. `AgeBounded`, `PosterSees`, `ImcBounded`.
* Requests. `NoRedirectLoop`, `LandsWell` (no redirect by a view ends in an
  error, none is refused later), `OnlyReaders`, `LoggedInAsProved`, `KeepsLogin`
  (alone, a good cookie or password logs in).
* Blogs. `Continues` (links neither skip nor repeat, nor lead to a page that is
  missing or on which no entry is listed; what is listed may be skipped, but
  for a blogdir),
  `NeighboursTrue`, `GivenToReaders`.
* Wikitext. `ViewsNest` (whatever blocks a view takes), `WordsKept`,
  `FailsAsKnown`, `NearsTheEnd` (a measure that every step lowers: the lines that
  are left, then what is left of texts, the outermost first, since a text makes
  none but such as are within it, and these no deeper than `Deepest`).

Each is explained where it is defined. `IInv` is each module's inductive
invariant; the runs that list it check it because the proofs use it.

### What the violated runs show

1. `RetiresOnTime`: `handled > self.rqmax` is tested after the increment, so a
   worker handles one request more than the documented maximum.
2. `MinimumRestored`: nobody starts a worker in place of one that died until the
   next connection is dispatched; "always have NUM worker processes" is not so.
3. `GoodIsThere`: a file left behind by a failed write is taken for the comment
   when the post is repeated, as the posted-bad page suggests. The poster reads
   "Your comment has been posted"; the page is an internal error from then on.
4. `CondGetsKeepTheirTTL`: the IMC takes over from the BFC, under one key, what
   an unconditional request for a feed was served, and gives it to conditional
   ones, which were to have the lower TTL.

### Defects met that no run is for

The properties of the passing runs except these by name, or the instances avoid
them; each can be seen by taking the exception away.

* `pageranges.py:261` `oldest_rel`: `oldest/N` of N entries or fewer links to
  `latest/0` or `latest/-k`, which show nothing or are not found; `oldest/0`
  shows everything, since `flist[-0:]` does.
* `pageranges.py:631` `gen_pnp_direct` takes `page-kids` from the disk cache when
  there is a render cache, and that list is not validated by the entries. The
  super-validation of `gen_pnpages` is for nothing then, and neighbours may be
  wrong for two TTLs (`Lag`).
* `rendcache.py:32`: a rendering for nobody in particular, of a page its own
  macro restricts, is stored under the general name when there is no default
  user. It is empty, and is given to users who may read the page and have no
  entry of their own. `GivenToReaders` says only that no text is given away.
* `rendcache.py:98`: with `render-anonymous-only` and no default user nothing that is
  per user is stored at all.
* `wikirend.py:1641` `.pn unlit` of a literal that was declared raises
  AttributeError; `wikirend.py:1005` a header in a first line that is quoted
  fails an assertion. `[[*a ((b* c))|d]]` and its like do not nest (`leak`).
* `wikirend.py:1486` Substitutions reach texts that handlers have looked at
  already. With `.pn sub a b` an empty header (`== `), whose text is None, raises
  TypeError; with `.pn sub L {{RecentChanges}}`, `{{ST:big:L}}` has its style ended
  by the list, and `end_style()` (1911) raises IndexError; with
  `.pn sub w {{ST:big:w}}`, any `w` calls `handle_text()` without end, until Python
  gives up. `FailsAsKnown` admits these three errors on pages that substitute, and
  no others; `NearsTheEnd` holds because of the recursion limit.
* `views.py:140`: a wiki whose `wikiroot` is the root directory itself redirects
  from the root to the root, without end; nothing in the configuration's checks
  refuses it. `NoRedirectLoop` excepts it by `OwnFront`. (`test/pages/dwiki/ConfigurationFile:80`
  says that a `wikiroot` that does not exist is looked for as a `wikiname`;
  `context.py:64` and `:181` take the one that is set, there or not.)
* `httpcore.py:811` looks for robots among GET and HEAD requests only, so one that
  comments by a POST with utm parameters is first redirected and then refused:
  the exception in `LandsWell`.
* `httpcore.py:966` and `:507` redirect a POST like anything else: a login at
  another host's name, or with utm parameters in its URL, comes back as a GET
  without its form, and nobody is logged in. `KeepsLogin` speaks only of what the
  stack lets through (`Stack(rq[t]) = Nothing`).
* `httpcore.py:363`: after an exception that is no `WikiErr`, `finish()` is not
  called. In a worker of the pool that exception ends the process; in
  `dwiki-serv.py` a later request finds what was read, however old.
* `model.py:353`: `finish()` of one thread empties the passwords between the two
  steps of another one's `get_user()`, whose user is then not logged in; two
  threads may also meet in `get_page()`, one of which fails with a KeyError.
* `httputil.py:51`, `httpcore.py:970`, `httpcore.py:507`: three redirects put the
  unquoted path into Location.
* `dwconfig.py:104` reads `imx-resp-max-size`, so `imc-resp-max-size` in
  kilobytes does not load.

### Fairness

Safety needs none. `Prefork!Fairness` is weak fairness of the master, of each
worker's process, and of the fifteen seconds of `shutdown()` running out: the
operating system runs processes that can run, the request handler returns, time
passes. Nothing obliges a client to connect or a worker to die or to idle out.
`CommentStore!Fairness` is weak fairness of each worker's steps in a request:
its handlers wait for no other process. New requests are not fair.

## 4. The proofs

All theorems are of the form `Spec => []Inv` or `Spec => [][A]_vars`, or say that
one specification implements another, for every value of the constants that
satisfies the module's `ASSUME`s. Each component's proof module
has an inductive invariant `IInv`, a lemma that `Init` implies it, one lemma per
action that it is kept, and the properties as corollaries.

* **PreforkProofs.** That an answer is what the master waits for cannot be
  shown from the tables alone. `RolesOK` says for each role a channel has
  (pending, idle, busy, asked to accept, told to exit) which states its process
  can be in together with what is unread in the channel: `Starting`, `Idle`,
  `Busy`, `Told`, `Leaving`. Worker steps move within a role; the master gives
  a role only after reading the message that entitles it. From it follow
  `TypeCorrect`, `AssertionsHold`, `StaysInStep`, `NoneStray` and
  `BusyAreSpared`. `LimitHolds` adds the count of workers still to be started
  at boot (`CountOK`). `ShotsSpare` goes through the places at which the master
  shoots a worker: only one that was silent after an ACCEPT may hold a
  connection, and its timeout has paid for it beforehand (`LossDue`), whence
  `LossesHaveCauses`. `AlwaysListens` and `DrainsWhole` are
  about a pool that keeps a minimum of workers (`wmin + min_idle > 0`): after an
  overload `insure_min_kids()` leaves a worker to wait for. A pool that keeps none
  may have nothing to select() on, and end a drain with a connection waiting.
  For the refinement each step is a step of `PoolService` or a stutter. An accept()
  has room, since who serves is in `kids`, of which there are at most `Limit`
  (`RoomToServe`), and is never made in `shutdown()`, since its worker is the one
  whose answer `dispatch()` awaits.
* **CommentProofs.** A file that is not complete has a writer or was cut short
  (`IncompleteHasCause`), a file in `write` is empty (`WriterHoldsFile`),
  together with `OneWriter`: no file changes under anyone's feet. `ListingIsFresh`
  ties a listing to the request that made it: `must \subseteq shown \cup todo`.
* **FlagProofs.** `Covers(list, t)`: a list in a file of time t has whatever
  was posted more than `GenMax` before t. With the order of posts, flags and
  renames (`PostsInOrder`) a request that accepts an entry has
  `flag + Delta < stat`, hence a list that covers everything flagged. The entry
  may be replaced between stat and read, by one that was written up to
  `StoreMax` earlier than the one it replaces; this is one of the two
  `StoreMax` in the assumption, the flags' own reordering is the other.
* **HttpCacheProofs.** `BfcAges` and `ImcAges` bound the age of entries level by
  level; `Older` says that what lacks the comment was begun at least a cookie's
  life before the cookie expires. `CookieOutlives` then shows that no cache can
  still have it. `MemoryIsBounded` counts: `PurgeMakesRoom`, and nothing else adds.
* **RequestProofs.** What is in memory was read for a request that is still
  there, or for one that died (`Remembered`), and every request's `since` is not
  later: so whatever a request takes from memory it takes from an edition of
  `Times(t)`. `Vouched` carries this from the step that checks a cookie or a
  password to the one that logs in, and `Proved` to the end, though others empty
  the memory in between. For texts, `MayReadText` shows that `Renders` and
  `AccessOk`, each in its own way, admit nobody but those the nearest page with
  a restriction admits, and look at no other pages than `Walked`.
  `LoginsAreProved`, `TextsForReaders` and `RequestTypes` follow, for any tree,
  users, editions and number of threads.
  - *Redirects* (`Course`, in `CoursesHold`). `Rank` adds up what a redirect can
    take away from a URL: the utm parameters and the wrong host, a form, the
    root, a missing slash, a view. `WellSent` says of each answer that
    redirects: the rank falls, unless the page is `Excused` (a redirect that
    the author wrote, or the root as its own front page); the stack would not
    refuse the request that follows; and where a view of its own accord leads
    there is something (`Welcome`). The views' part is shown one case of
    `Respond` at a time: `uri()` of a page drops a view that its target would
    decline. `Descends` carries the rank along the trail, whence
    `NoRedirectLoops`; `Refused` and `Welcome` give `RedirectsLandWell`.
  - *Logins* (`Keeping`). `alone` means that no other request was in flight
    since this one came (`Lonely`), so the passwords in memory, if there are
    any, were read for it, of an edition within `Times(t)` (`Loaded`), at which
    a proof that is good all the while is good (`FoundHeld`). `Taken` and `Left`
    follow the cookie and the form from step to step up to `LoginsAreKept`.
* **BlogProofs.** A macro of a page's own can change only with the page's ctime,
  which is in the stamp; so an entry that still verifies was made under the
  macro there is now (`Current`). An entry is under the name of a reader who was
  admitted, or under the general name, and then nothing restricted the page
  when it was made (`Addressed`), as a macro admits users and never the guest.
  Both together give `TextsNotGivenAway`.
  - *Neighbours* (`NInv`). `ListedIs`: the list of files has each once, newest
    first; that the ranks of its entries are `0 .. n - 1` is the pigeonhole
    principle of the library. A list is `Good` for a time b if it is so ordered
    and tells of every file that has not changed since b what is so now. The
    author's work makes no list worse, since what he touches changes after b
    (`WorkIsTrue`). `page-kids` are as good as the time they were stored
    (`KidsTrue`); the list of an entry was made from them, and is kept in its
    turn, so it may lag twice (`PncTrue`), which is where `Lag` comes from.
    `BesideIs`: no real page is between an entry of a list and the one that
    steppage() finds. `TakenIsTrue` puts it together: what is settled is in the
    list where it is now, `valid_pos` says so of the page and the two beside it
    when the list is a kept one, so that nothing can be between.
  - *Links* (`WInv`). A list goes back in time (`Told`), so a calendar parts it
    in what is after it, within and before (`CalendarParts`, by `Prefix`: what
    is closed downwards is an interval), and `CalendarSpan` says what its page
    shows and which entries are beside it. `EntryLink` is about every link that
    is made of an entry's date: the entry is in what it leads to, which begins,
    or ends, there if the entry beside it is of another date. With it and the
    arithmetic of `RangePrev` and `GenRange`, each kind of bar leads to what is
    beside the page (`BarLeads`); a clip is between two entries of different
    days of the month, so a blog goes on at the first one that is not on the page
    (`ClipIs`, `ClippedLeads`); and what a calendar's bar names holds an entry
    (`CalBarLinks`). A name that is made so is never one that `restrict()` refuses
    (`On`). What a page lists and does not show is skipped by its view, and a
    blogdir lists real files only (`ListingIs`). `Continues` speaks of two pages: what the second shows must
    be where the links of the first led, so the invariant says of the page that
    a reader has before him that its links are right for the list that the next
    page will be made of (`Ways`, `SeenTrue`), and `ListsStay` that it is made
    of the same list, whether or not it is in the cache by then.
* **WikitextProofs.** No handler knows what is open: it ends what it has begun,
  and trusts those between. That `handle_end()` never ends another element
  ("Programming error") is not inductive by itself, nor is any invariant of `stack`
  alone: it depends on what is in `queue`, `calls` and `loop.out`. `Mark` says of a token or a call that it
  begins or ends an element, or asks that there be one open; `Walk(a, h, b)`
  that h, gone over from left to right, leads from what is open in a to b. The
  core of `IInv` is `StackOK`: the calls that are left, and the queue after
  them, lead from `rend.stack` to nothing open. Everything else is there to keep it:
  - `TypeOK`: which tokens can be where (`Toks`, `CallToks`), of which a handler
    relies on the kid of a quote, or the literals' three parts.
  - `HeaderOK`: a title is the first line's only, and nothing is written before it;
    its handler takes what was written for the title.
  - `SubsOK`: what is replaced by what; nothing on a page that does not ask for it.
  - `CallsOK` (`Before`): what may be left to do after what. Nothing begins or
    ends an element within a link or an abbreviation, nor, if nothing is
    substituted, within a macro's style.
  - `DepthOK`, `StylesOK`: on pages that substitute nothing, how deep a text may be
    in others; and that no style is open twice, and that a barrier hides those that
    were open when it was set, so that nothing but the macro ends the style of
    `showtext()`. Without them, `handle_text()` could get too deep and `end_style()`
    find its style gone, as they do where something is substituted. That is a case
    of its own in the proofs of `ShowText`, `EndsText` and the calls of texts.
  - `FailsAsKnown`: the errors there are, and on which pages.

  `TypeCorrect` and `FailsKnown` follow from `Inductive`. The proof goes call by
  call (`DoesKeep`: what a call writes and puts before the other calls leads
  from the stack before to the stack after) and handler by handler
  (`HandlerCalls`, `HandlerWrites` and `HandlerPushes`: what it calls for, writes
  or pushes back leads where what it took led);
  the loop of `handle_list` has its own part of `StackOK`, for a list that is
  begun and not yet pushed back.
* **WikitextNests.** `WrittenOK` says what is written, as long as nothing has
  leaked: each block and the title are complete by themselves (`Shut`), and
  `res` is a walk from nothing to what is open, in this order: the styles
  begun within a link or an abbreviation, its own element, the styles begun before it
  (`floor` of them), the elements of the stack (`Layered`). It is inductive
  together with `IInv` (`Written`), on pages that substitute, too (there the style
  of a macro may be open within another one of its kind, but never one that a
  mark starts, `Single`): `calls` tells whether a link or an
  abbreviation is open (`LinkEl`), and `CallsOK` that no element ends, and so
  no block is pushed, before it is. `Moves` says of each thing that the renderer writes that
  it keeps this form; the hard ones are `unwind_inline()`, which turns the
  starts of the styles above the one it ends back into text (`TurnedWalk`,
  `UnwindWalk`), and `end_style()`, which ends those too; `~leak` says that all
  of them are above the link. `Titling` follows the title from its header to its end. `NestsAlways`
  is then about `Filter`: a sequence of complete blocks is complete
  (`WalkFlatten`), whichever they are, and what is complete nests (`ShutNested`:
  `Nested` looks at tags from the outside, as a recursive function; the walk is
  its certificate).
* **Induction.** The library's induction theorems have an operator as a
  parameter and cannot be used; that `<` on the naturals is well-founded, and
  that well-founded relations have minimal elements, are statements about sets
  and can. Each module that needs it begins from there (`LessIsWellFounded`,
  `Least`, `SetInduction`). With `SetInduction` and `Recursion`, which
  constructs a function step by step, also what a recursive function yields for
  every sequence can be proved: `FlattenSteps`, `TurnedWalk`, `WalkFlatten`.

Model-checked only: liveness (`TakesHold`, `ConnectionsTaken`, `ShutdownEnds`),
since TLAPS has no rules for fairness; `NearsTheEnd`, whose measure is a
RECURSIVE operator, out of the prover's reach; and `WordsKept`, which is a
property of the instance: it is about words that are neither the target of a
link nor the argument of a macro, as those are not written, nor are replaced, and about lines
whose text is that of the lines within them. Every other property of a passing
run is a theorem.

The proofs corrected two properties. `ViewsNest` counted the open styles at the
beginning and the end of a link or an abbreviation, and did not except a style
that is ended and begun again in between, which does not nest; `leak` is now set
by what ends it, with `floor`. `FailsAsKnown` looked for the note that fails among the lines
of the page and not among those within quotes. Both were found where a step would
not go through, and pages that show them are now in the run (`CrossDocs`).

What is assumed of the constants (`ASSUME`s, which TLC evaluates on every run):
of the tree, that what is above a page is a directory, and which pages
redirects may name; of users, that the guest is none; of bookmarks, that each is
a GET or a POST of a URL that `gather_reqdata` could have taken apart; of files,
that there are finitely many, each with a place of its own in the order of
names; of dates, that they have a month and a day, and that a later time is not
on an earlier day (`localtime` with a fixed zone: a clock that goes over
midnight and back at the end of summer would break it, and `filter_files` with
it); of the times that files are given, that there is a date for each; of what
readers type in, that it is one of the `Suffixes`; of pages, that their lines are
such as `getTokFromLine()` makes, in one another to some depth; of the times of the caches, what the paragraphs on `FlagCache` and
`HttpCache` say.

## 5. What is not modelled

`PROJECT.json` names every component with its status and the reason.

* Bytes on the wire, HTML and XML text, hashing, logging, profiling, and files
  that are damaged by a loss of power.
* A page that changes while one request reads it: `FileObj`'s test for that, and
  views that look at the file twice. Creation and removal of pages are in
  `Blog`, not in `Request`.
* Between choosing a redirect and writing it, `uri()` of a virtual page looks
  into the page cache once more; the threads' race there is not modelled.
* The front ends that have no state of their own, the life of the listening
  socket, `dpasswd`, and the forking SCGI server, the pool's predecessor.
* Parsers: configuration, RCS files, templates, and the patterns of wikitext
  (what is a token is given, what is done with it is modelled).
* Last-Modified, ETags and 304 answers beyond the page caches; Atom feeds.

What would come next: `FileObj` and pages that change while they are read;
Last-Modified of a page made of parts; and the socket's life over restarts.
