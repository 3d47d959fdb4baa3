---------------------------- MODULE WikitextInv ----------------------------
(***************************************************************************)
(* The inductive invariant of the renderer.  Whatever handlers have pushed *)
(* back, and whatever calls they have still to make, the elements that are *)
(* open now and those that are yet to begin are ended in their order; and  *)
(* what is written since the last block opens just the styles and elements *)
(* that the renderer has for open.                                         *)
(***************************************************************************)
EXTENDS Wikitext

Fonts == {"em", "strong", "code", "big"}
Elements == {"p", "h", "pre", "table", "tr", "td", "blockquote", "div",
             "ul", "ol", "dl", "li", "dt", "dd"}

\* All strings; of these the provers know that they are.
Strings == STRING \cup Elements \cup Fonts \cup Marks \cup Opener
           \cup {"", "a", "abbr", "nl", "starsep", "hr", "<p>", "]]", "}}",
                 "{macro suppressed}", "page1", "page2"}
Stacks == Seq(Strings)
Html == {"+", "-", "t"} \X Strings

(***************************************************************************)
(* Tokens.                                                                 *)
(***************************************************************************)
QueueKinds == LineKinds \cup {"header1", "nl", "para", "ptext", "iquote", "begin", "end", "insert"}

Links == {"endlink", "endabbr"}
CallKinds == {"begin", "end", "title", "plain", "text", "ltext", "endstyle", "notes"}
             \cup Opener \cup Links
Tokens(A) ==
  [k : QueueKinds \cup CallKinds \cup NoteKinds, off : Nat, txt : Seq(Strings), def : Seq(Strings),
   kid : Seq(A), lvl : Nat, digit : BOOLEAN, para : BOOLEAN, el : Strings]

\* A token that handlers may find in front of them.
Fits(t) ==
  /\ t.k \in QueueKinds
  /\ t.k \in {"begin", "end"} => t.el \in Elements
  /\ t.k \in Inners \cup {"iquote"} => Len(t.kid) = 1 /\ t.kid[1].k \in LineKinds \cup {"header1"}
  /\ t.k = "innerlist" => t.kid[1].k \in Lists \cup {"innerlist", "starsep", "p"}
  /\ t.k = "procnote" => \A i \in DOMAIN t.kid : t.kid[i].k \in NoteKinds

Apt(t) ==
  /\ t.k \in {"no", "sub", "unsub"} => Len(t.txt) = 1
  /\ t.k \in {"lit", "unlit"} => Len(t.txt) = 3

\* Lines, with the lines and notes that are within them.
Sound(A) == A \subseteq Tokens(A) /\ \A t \in A : Apt(t) /\ (t.k \in NoteKinds \/ Fits(t))
Toks(A) == {t \in Tokens(A) : Fits(t)}

\* The lines of a page, the first of which may hold its title.
Titled(doc) == Within(doc) \cup {FirstLine(doc[1])} \cup ToSet(FirstLine(doc[1]).kid)

CallToks(A) ==
  {c \in Tokens(A) :
     /\ c.k \in CallKinds
     /\ c.k \in {"begin", "end"} => c.el \in Elements
     /\ c.k \in Opener => c.txt # <<>>
     /\ c.k = "{{" => \A i \in 2 .. Len(c.txt) : c.txt[i] # "}}"
     /\ c.k = "notes" => \A i \in DOMAIN c.kid : c.kid[i].k \in NoteKinds}

Whats == Elements \cup {"blank", "title", "chunk", "cutshort", "end"}
Feats == {"hascomments", "comments", "hasrestricted", "restricted"}
Substituting == {"TypeError", "IndexError", "RuntimeError"}
Errors == {"", "IntErr", "ReturnNothing", "AssertionError", "AttributeError"} \cup Substituting
Rends ==
  [mode : Modes, res : Seq(Html), blocks : Seq([what : Whats, html : Seq(Html)]),
   spos : Nat, pushing : BOOLEAN, stack : Seq(Elements), styles : Seq(Fonts),
   barrier : Seq(Seq(Fonts)), off : SUBSET Strings, lits : Seq(Seq(Strings)),
   abbrs : SUBSET Seq(Strings), known : SUBSET ((Seq(Strings) \ {<<>>}) \X Seq(Strings)),
   title : Seq(Html), feats : SUBSET Feats, empty : BOOLEAN, err : Errors,
   floor : Nat, leak : BOOLEAN]
Here == Titled(input.doc)
Loops == [on : BOOLEAN, ltype : Lists \cup {""}, first : BOOLEAN, isiquote : BOOLEAN,
          low : Nat, base : Nat, out : Seq(Toks(Here))]

TypeOK ==
  /\ input \in Inputs
  /\ queue \in Seq(Toks(Here))
  /\ rend \in Rends
  /\ \A i \in DOMAIN rend.lits : Len(rend.lits[i]) = 3
  /\ calls \in Seq(CallToks(Here))
  /\ loop \in Loops
  /\ done \in BOOLEAN
  /\ calls # <<>> => ~loop.on
  /\ loop.on => loop.ltype \in Lists

\* What to replace, and by what; nothing on a page that does not ask for it.
SubsOK ==
  /\ subs \in Seq(Strings \X Seq(Strings))
  /\ subs # <<>> => Substitutes

(***************************************************************************)
(* Beginnings and ends.  What is open is a sequence, innermost first.  A   *)
(* walk goes over beginnings and ends from what is open before to what is  *)
(* open after; an "in" asks that something is open.  A style that a mark   *)
(* starts is not open twice; that of a macro is, if one is in another.     *)
(***************************************************************************)
Single == {"em", "strong", "code"}
Step(a, x, b) ==
  \/ /\ x[1] = "+" /\ b = <<x[2]>> \o a
     /\ x[2] \in Single => \A i \in DOMAIN a : a[i] # x[2]
  \/ x[1] = "-" /\ a # <<>> /\ Head(a) = x[2] /\ b = Tail(a)
  \/ x[1] = "t" /\ b = a
  \/ x[1] = "in" /\ a # <<>> /\ b = a
Marks_ == {"+", "-", "t", "in"} \X Strings
Trails(a, h, b) ==
  {f \in [0 .. Len(h) -> Stacks] :
     /\ f[0] = a /\ f[Len(h)] = b
     /\ \A i \in 1 .. Len(h) : Step(f[i - 1], h[i], f[i])}
Walk(a, h, b) == Trails(a, h, b) # {}

Mark(t) ==
  CASE t.k = "begin" -> <<"+", t.el>>
    [] t.k = "end" -> <<"-", t.el>>
    [] t.k = "title" -> <<"-", "h">>
    [] t.k \in {"text", "ltext", "ptext", "iquote", "{{", "[["} -> <<"in", "">>
    [] OTHER -> <<"t", "">>
Marked(q) == [i \in DOMAIN q |-> Mark(q[i])]

Item(ltype) == IF ltype = "dl" THEN "dd" ELSE "li"
StackOK ==
  /\ Walk(rend.stack, Marked(calls \o queue), <<>>)
  /\ loop.on =>
       /\ loop.first => queue # <<>> /\ Head(queue).k = loop.ltype
       /\ Walk(rend.stack, Marked(loop.out),
               IF loop.first THEN <<loop.ltype>> \o rend.stack
               ELSE <<Item(loop.ltype), loop.ltype>> \o rend.stack)

(***************************************************************************)
(* A title is in the first line.  If that is not quoted, nothing else has  *)
(* been written by then.                                                   *)
(***************************************************************************)
Untitled(q) == q \in Seq(Toks(Within(input.doc))) /\ \A i \in DOMAIN q : q[i].k # "header1"
HeaderOK ==
  \/ input.doc[1].k = "quote"
  \/ Untitled(queue) /\ Untitled(loop.out)
  \/ /\ queue # <<>> /\ Head(queue).k \in {"header1", "indented"} /\ Untitled(Tail(queue))
     /\ ~loop.on /\ loop.out = <<>> /\ calls = <<>> /\ rend.res = <<>>

(***************************************************************************)
(* Calls.  Nothing that begins or ends an element is called for within a   *)
(* link, an abbreviation or a style that a macro has started; in the last  *)
(* of these, unless a substitution puts it there.  Then there is no telling *)
(* how deep handle_text() gets either: by itself, it is to the text of a   *)
(* link in a style.                                                        *)
(***************************************************************************)
Before(c, d) ==
  /\ c.k # "title"
  /\ d.k \in Links => c.k \in {"ltext", "((", "quote"}
  /\ d.k = "endstyle" /\ ~Substitutes =>
       /\ c.k \in {"text", "plain", "((", "quote", "[[", "ltext", "endlink"}
       /\ c.k \in {"text", "[["} => ~Contains(c.txt, "}}")
CallsOK == \A i, j \in DOMAIN calls : j < i => Before(calls[j], calls[i])

Shallow(c) ==
  CASE c.k = "text" -> \/ c.lvl = 0
                       \/ c.lvl = 1 /\ ~Contains(c.txt, "}}")
                       \/ c.lvl \in {1, 2} /\ Len(c.txt) <= 1
    [] c.k = "ltext" -> c.lvl <= 2
    [] c.k = "{{" -> c.lvl = 0
    [] c.k = "[[" -> c.lvl <= 1
    [] OTHER -> TRUE
DepthOK == ~Substitutes => \A i \in DOMAIN calls : Shallow(calls[i])

(***************************************************************************)
(* Styles.  A barrier hides the styles that were open when it was set, and *)
(* so the style of a macro is open until the macro ends it.  (A list ends   *)
(* it; but only a substitution puts one into the text of a style.)         *)
(***************************************************************************)
Has(q, kind) == \E i \in DOMAIN q : q[i].k = kind
Pending(kind) == Has(calls, kind)
StylesHold ==
  /\ \A i, j \in DOMAIN rend.styles : rend.styles[i] = rend.styles[j] => i = j
  /\ Pending("endstyle") <=> Contains(rend.styles, "big")
  /\ Pending("endstyle") =>
       \A i, j \in DOMAIN rend.styles, m \in DOMAIN rend.barrier :
          rend.styles[i] = "big" /\ i <= j => Contains(rend.barrier[m], rend.styles[j])
  /\ Len(rend.barrier) = (IF Pending("endstyle") THEN 1 ELSE 0) + (IF Pending("endlink") THEN 1 ELSE 0)
StylesOK == ~Substitutes => StylesHold

IInv == TypeOK /\ SubsOK /\ StackOK /\ HeaderOK /\ CallsOK /\ DepthOK /\ StylesOK /\ FailsAsKnown

(***************************************************************************)
(* What is written.                                                        *)
(***************************************************************************)
LinkEl ==
  IF Pending("endabbr") THEN <<"abbr">>
  ELSE IF Pending("endlink") /\ rend.mode.links THEN <<"a">> ELSE <<>>
\* What is written since the last block opens the styles begun in a link or an
\* abbreviation, what that begins, the styles begun before it, and the elements.
Layered(r, l, u, v) ==
  /\ r.styles = u \o v /\ Len(v) = r.floor
  /\ Walk(<<>>, r.res, u \o (l \o (v \o r.stack)))
Stands(r, l) == \E u, v \in Seq(Fonts) : Layered(r, l, u, v)

Shut(html) == Walk(<<>>, html, <<>>)
ShutBlocks(r) == Shut(r.title) /\ \A i \in DOMAIN r.blocks : Shut(r.blocks[i].html)

\* What is written of a title: it begins with the header, which nothing else
\* in it begins or ends.
Headed(h) ==
  /\ h # <<>> /\ h[1] = <<"+", "h">>
  /\ \A i \in 2 .. Len(h) : h[i][1] # "t" => h[i][2] # "h"
Unheaded(cs) == \A i \in DOMAIN cs : cs[i].k \in {"begin", "end"} => cs[i].el # "h"
Titling ==
  Pending("title") =>
    \/ /\ calls[1] = Begin("h") /\ Unheaded(Tail(calls))
       /\ rend.res = <<>> /\ rend.stack = <<>> /\ rend.styles = <<>>
    \/ Headed(rend.res) /\ Unheaded(calls)

Writing ==
  /\ ~Pending("endlink") /\ ~Pending("endabbr") => rend.floor = 0
  /\ Stands(rend, LinkEl)
  /\ rend.styles # <<>> => rend.stack # <<>>
  /\ Titling
WrittenOK == ~rend.leak => ShutBlocks(rend) /\ (~done => Writing)
=============================================================================
