-------------------------------- MODULE Site --------------------------------
(***************************************************************************)
(* The pages of a wiki as a request sees them: pages.py (what a page is,   *)
(* its parents, redirects and virtual directories), access.py (who may     *)
(* read it, from the macros in it and in the __access files above it),     *)
(* views.py and htmlview.py (which views there are, which of them a page   *)
(* takes, and what the answer to a URL is: a redirect, an error or a       *)
(* page).                                                                  *)
(*                                                                         *)
(* A path is a sequence of names, as utils.py makes of it.  The tree does  *)
(* not change; what does, the text of the macros, is a parameter acl of    *)
(* the operators: the users whom the Restricted macro in a file admits, or *)
(* Open when the file has none.                                            *)
(***************************************************************************)
EXTENDS Naturals, Sequences, FiniteSets

CONSTANTS NoUser,         \* nobody logged in
          Dirs, Files,    \* the paths there are; a name begins with a path
          Broken,         \* files that are there and cannot be displayed
          Target,         \* redirect pages, and where to: a path or a URL
          WikiRoot,       \* the wikiroot, or the page named as the wiki
          PrefFlag,       \* .flag.prefview: of a directory, a set of views
          NoViewFlag,     \* .flag.noview:, likewise
          Historied,      \* files with a revision history
          Suffixes,       \* the names that restrict() takes for a range
          Commented,      \* files with a CanComment macro in them
          Remapped        \* remap-normal-to-showcomments

Pages == Dirs \cup Files
Open == {"everybody"}
NoPath == <<"no-such-path">>

ASSUME TreeAssumption ==
  /\ Pages \subseteq Seq(STRING) /\ <<>> \in Dirs /\ Dirs \cap Files = {} /\ NoPath \notin Pages
  /\ \A p \in Pages \ {<<>>} : SubSeq(p, 1, Len(p) - 1) \in Dirs
  /\ \A p \in DOMAIN Target : Target[p] \in Pages \cup {NoPath, <<"elsewhere">>}
  /\ DOMAIN Target \subseteq Pages /\ DOMAIN PrefFlag = Dirs /\ DOMAIN NoViewFlag = Dirs

(* Pages. *)

Parent(p) == IF p = <<>> THEN p ELSE SubSeq(p, 1, Len(p) - 1)
Name(p) == p[Len(p)]

\* walk_to_root: the page and what is above it, by length.
Above(p) == {SubSeq(p, 1, n) : n \in 0 .. Len(p)}
Longest(S) == CHOOSE p \in S : \A q \in S : Len(q) <= Len(p)

\* The parts of a page that does not exist: the directory above it that does,
\* and the suffix that is left.
Stem(p) == Longest(Above(p) \cap Pages)
IsVirtual(p) ==
  LET root == Stem(p)
  IN /\ p \notin Pages
     /\ root \in Dirs
     /\ root # <<>> \/ WikiRoot \notin Pages \ Broken
     /\ SubSeq(p, Len(root) + 1, Len(p)) \in Suffixes

Me(p) == IF IsVirtual(p) THEN Stem(p) ELSE p
Exists(p) == p \in Pages \/ IsVirtual(p)
IsDir(p) == Me(p) \in Dirs
Displayable(p) == Exists(p) /\ p \notin Broken
IsRedirect(p) == p \in DOMAIN Target
RealPage(p) == Displayable(p) /\ ~ IsRedirect(Me(p))
IsUtil(p) == p # <<>> /\ Name(p) \in {"__access", "__readme", "__index"}
Curdir(p) == IF IsDir(p) THEN Me(p) ELSE Parent(p)
Child(p, name) == Append(Me(p), name)
Children(p) == {f \in Files : Len(f) = Len(Me(p)) + 1 /\ Parent(f) = Me(p)}
Descendants(p) == {f \in Files : Me(p) \in Above(f)}

(* Access. *)

\* The page whose macros speak for q; and of those that say something, the
\* nearest one decides.
Speaker(q) == IF q \in Dirs THEN Child(q, "__access") ELSE q
Says(q, acl) == Speaker(q) \in Files /\ RealPage(Speaker(q)) /\ acl[Speaker(q)] # Open
Nearest(q, S) == q \in S /\ \A r \in S : Len(r) <= Len(q)
\* A mutant: the outermost restriction decides.
PermCheckOuter(p, who, acl) ==
  LET saying == {q \in Above(Me(p)) : Says(q, acl)}
  IN saying = {} \/ \E q \in saying : (\A r \in saying : Len(q) <= Len(r)) /\ who \in acl[Speaker(q)]
PermCheck(p, who, acl) ==
  LET saying == {q \in Above(Me(p)) : Says(q, acl)}
  IN saying = {} \/ \E q \in saying : Nearest(q, saying) /\ who \in acl[Speaker(q)]

AccessOk(p, who, acl) == RealPage(p) /\ PermCheck(p, who, acl)
RenderOk(p, who, acl) == RealPage(p) /\ PermCheck(Parent(p), who, acl)

\* The pages whose texts the walk reads.
Walked(p) == {Speaker(q) : q \in Above(Me(p))} \cap Files

CommentOk(p, who, acl) ==
  p \in Files /\ who # NoUser /\ AccessOk(p, who, acl) /\ p \in Commented

\* _render: a page with a restriction of its own answers for itself, and the
\* macro cuts it short; any other asks its directory.
Renders(p, who, acl) ==
  IF acl[p] # Open THEN who \in acl[p] ELSE RenderOk(p, who, acl)

(* Views. *)

View(dir, file, pub, get, post) ==
  [onDir |-> dir, onFile |-> file, pubDir |-> pub, canGET |-> get, canPOST |-> post]
KnownViews ==
  [v \in {"normal", "blog", "blogdir", "index", "atom", "search", "source", "history",
          "showcomments", "writecomment", "login", "logout"} |->
     CASE v = "normal" -> View(TRUE, TRUE, TRUE, TRUE, FALSE)
       [] v \in {"blog", "blogdir", "index"} -> View(TRUE, FALSE, TRUE, TRUE, FALSE)
       [] v = "atom" -> View(TRUE, FALSE, FALSE, TRUE, FALSE)
       [] v = "search" -> View(TRUE, TRUE, FALSE, TRUE, FALSE)
       [] v \in {"source", "history", "showcomments"} -> View(FALSE, TRUE, FALSE, TRUE, FALSE)
       [] v = "writecomment" -> View(FALSE, TRUE, FALSE, TRUE, TRUE)
       [] v \in {"login", "logout"} -> View(FALSE, TRUE, FALSE, FALSE, TRUE)]
ViewExists(v) == v \in DOMAIN KnownViews
Accepts(v, method) == IF method = "POST" THEN KnownViews[v].canPOST ELSE KnownViews[v].canGET
PubDirViews == {v \in DOMAIN KnownViews : KnownViews[v].pubDir}

\* pref_view_and_dir: the nearest directory with a flag; index is for itself.
PrefView(p) ==
  LET wants(q) == {v \in PrefFlag[q] \cap PubDirViews : v = "index" => q = p}
      flagged == {q \in Above(Me(p)) \cap Dirs : wants(q) # {}}
  IN IF IsDir(p) /\ flagged # {} THEN CHOOSE v \in wants(Longest(flagged)) : TRUE ELSE "unset"
Disallows(p, v) == IsDir(p) /\ v \in NoViewFlag[Me(p)]
IsIndexDir(p) == IsDir(p) /\ Displayable(Child(p, "__index"))

ViewBad(p, v) ==
  \/ ~ ViewExists(v)
  \/ IF IsDir(p) THEN ~ KnownViews[v].onDir ELSE ~ KnownViews[v].onFile
  \/ v = "history" /\ p \notin Historied
PageViewOk(p, v) ==
  (v = "index" => IsIndexDir(p)) /\ ~ Disallows(p, v) /\ ~ ViewBad(p, v)

\* viewFactory: the view that is used where the URL sets none.  A POST is taken to
\* name its view in its URL, as comments::form has it; one that names it only in
\* the form would not count as having set it, and a directory or Remapped
\* overrides it.
ViewOf(p, v) ==
  IF v # "unset" THEN v
  ELSE IF IsDir(p) THEN IF PrefView(p) # "unset" THEN PrefView(p) ELSE "normal"
  ELSE IF p \in Files /\ Remapped THEN "showcomments"
  ELSE "normal"

(* URLs.  A URL is what the stack and the views tell of it. *)

Url(p, slash, v) == [path |-> p, slash |-> slash, view |-> v, quirks |-> {}]
Nuri(p) == Url(p, IsDir(p), "unset")
\* The view of a URL is kept where the other page takes it and it is not the
\* one the page has anyway.
KeptAsIs(p, v) == v    \* a mutant
KeptView(p, v) ==
  IF v # "unset" /\ PageViewOk(p, v) /\ v # PrefView(p) /\ ~ (v = "normal" /\ PrefView(p) = "unset")
  THEN v ELSE "unset"
UriBare(p, v) == Url(p, FALSE, KeptView(p, v))    \* a mutant: without the slash
Uri(p, v) == Url(p, IsDir(p), KeptView(p, v))

(* GenericView.respond.  An answer is an error, with its code, a redirect, *)
(* or a page to be rendered.                                               *)

Error(n) == [code |-> n, to |-> {}]
Redirect(u) == [code |-> 301, to |-> {u}]
Page == [code |-> 200, to |-> {}]

\* redirect_page's last part, which the index view uses for __index too.
Magic(p, v) ==
  IF Target[p] = NoPath THEN Error(404)
  ELSE IF Target[p] = <<"elsewhere">> THEN [code |-> 301, to |-> {}]
  ELSE Redirect(Uri(Target[p], v))

PageError(p) == ~ Exists(p) \/ ~ Displayable(p)
RedirectsRoot(p, v) ==
  p = <<>> /\ v \notin {"atom", "search"} /\ WikiRoot \in Pages \ Broken
Declined(u, v) == IsDir(u.path) /\ u.view # "unset" /\ Disallows(u.path, v)

\* The order of redirect_page: root, slash, declined view, magic redirect.
Respond(u) ==
  LET p == u.path
      v == ViewOf(p, u.view)
      special == IF ViewBad(p, v) THEN "unset" ELSE v    \* BadView has no hooks
  IN IF PageError(p) THEN Error(IF p \in Broken THEN 503 ELSE 404)
     ELSE IF RedirectsRoot(p, special) THEN Redirect(Nuri(WikiRoot))
     ELSE IF IsDir(p) /\ ~ u.slash THEN Redirect(Uri(p, u.view))
     ELSE IF ~ IsDir(p) /\ u.slash THEN Error(404)
     ELSE IF Declined(u, v) THEN Redirect(Nuri(p))
     ELSE IF IsRedirect(Me(p)) THEN Magic(Me(p), u.view)
     ELSE IF special = "index" /\ IsRedirect(Child(p, "__index"))
          THEN Magic(Child(p, "__index"), u.view)
     ELSE IF special = "unset" THEN Error(404)
     ELSE Page

\* What a view puts on the page: each of these renders every page it includes.
Included(p, v) ==
  LET real(S) == {f \in S : RealPage(f) /\ ~ IsUtil(f)}
      inject(name) == {f \in {Child(Curdir(p), name)} : f \in Files /\ Displayable(f)}
  IN CASE v \in {"blog", "atom"} -> real(Descendants(p))
       [] v = "blogdir" -> real(Children(p))
       [] v = "index" -> inject("__index")
       [] v = "normal" /\ IsDir(p) -> inject("__readme")
       [] v \in {"normal", "showcomments", "source"} /\ ~ IsDir(p) -> {p} \cap Files
       [] OTHER -> {}
Shown(p, v, who, acl) ==
  IF v = "source" THEN {f \in {p} \cap Files : AccessOk(f, who, acl)}
  ELSE {f \in Included(p, v) : Renders(f, who, acl)}
=============================================================================
