------------------------------ MODULE Wikitext ------------------------------
(***************************************************************************)
(* The renderer of wikitext, wikirend.py, with the macros that bear on the *)
(* structure of what it writes, macros.py.                                 *)
(*                                                                         *)
(* A page is a sequence of tokens, one for each line.  A handler takes the *)
(* token in front, and as many after it as belong to it; it writes HTML,   *)
(* or it pushes other tokens back in front.  `rend' is the object of the   *)
(* class WikiRend, `queue' what pull() is yet to return, `calls' what the  *)
(* handler at work has still to do: its calls of handle_begin(),           *)
(* handle_text() and so on, and what those have still to do in their turn. *)
(*                                                                         *)
(* A text is a sequence of words, font marks and brackets.  HTML is a      *)
(* sequence of <<"+", e>> (a start tag), <<"-", e>> (an end tag) and       *)
(* <<"t", w>> (text, and elements without an end tag).                     *)
(***************************************************************************)
EXTENDS Integers, Sequences, SequencesExt, FiniteSetsExt

CONSTANTS Words,       \* the words whose way through the renderer is followed
          Nesting,     \* how deep a line may stand in others: a quote in an indented line
          Deepest,     \* how deep handle_text() may call itself: Python's recursion limit
          Inputs       \* what to render: a page, which is a sequence of tokens, and
                       \* the mode: what macros may do, and whether the reader may read

VARIABLES input,
          queue, rend, subs, calls, loop, done

vars == <<input, queue, rend, subs, calls, loop, done>>

-----------------------------------------------------------------------------
(* Tokens. `kid' holds the token inside an indented or quoted one.          *)

Blank == [k |-> "blank", off |-> 0, txt |-> <<>>, def |-> <<>>, kid |-> <<>>,
          lvl |-> 0, digit |-> FALSE, para |-> FALSE, el |-> ""]
Tok(k, off, txt) == [Blank EXCEPT !.k = k, !.off = off, !.txt = txt]
Begin(e) == [Blank EXCEPT !.k = "begin", !.el = e]
End(e)   == [Blank EXCEPT !.k = "end", !.el = e]
Insert(e) == [Blank EXCEPT !.k = "insert", !.el = e]
Text(k, txt) == [Blank EXCEPT !.k = k, !.txt = txt]
Lists == {"ul", "ol", "dl"}
Inners == {"quote", "indented", "innerlist"}
LineKinds == Lists \cup Inners \cup
             {"blank", "p", "header", "starsep", "hr", "table", "procnote", "cutshort"}
NoteKinds == {"no", "yes", "lit", "unlit", "nosubs", "sub", "unsub", "prewrap", "what"}

\* The lines of a page, and the lines and notes within them.
Kids(toks) == UNION {ToSet(t.kid) : t \in toks}
Depths(doc) ==
  LET at[n \in Nat] == IF n = 0 THEN ToSet(doc) ELSE Kids(at[n - 1])
  IN at
Within(doc) == UNION {Depths(doc)[n] : n \in 0 .. Nesting}

Modes == [macros : {"none", "some", "all"}, links : BOOLEAN, reader : BOOLEAN]
Token(kids) == [k : LineKinds \cup NoteKinds, off : Nat, txt : Seq(STRING), def : Seq(STRING),
                kid : Seq(kids), lvl : Nat, digit : BOOLEAN, para : BOOLEAN, el : {""}]

\* What getTokFromLine() makes of a line: the line within, if it is of a class
\* that has one; a processing note has its notes, and each of them as many
\* arguments as it asks for.
IsLine(t) ==
  /\ CASE t.k = "innerlist" -> Len(t.kid) = 1 /\ t.kid[1].k \in Lists \cup {"innerlist", "starsep", "p"}
       [] t.k \in Inners \ {"innerlist"} -> Len(t.kid) = 1 /\ t.kid[1].k \in LineKinds
       [] t.k = "procnote" -> \A i \in DOMAIN t.kid : t.kid[i].k \in NoteKinds
       [] OTHER -> t.kid = <<>>
  /\ t.k \in {"no", "sub", "unsub"} => Len(t.txt) = 1
  /\ t.k \in {"lit", "unlit"} => Len(t.txt) = 3
IsPage(doc) ==
  LET all == Within(doc)
  IN /\ doc \in Seq(all) /\ doc # <<>> /\ \A i \in DOMAIN doc : doc[i].k \in LineKinds
     /\ all \subseteq Token(all) /\ \A t \in all : IsLine(t)
     /\ Depths(doc)[Nesting + 1] = {}

ASSUME WikitextAssumption ==
  /\ Nesting \in Nat
  /\ Deepest \in Nat /\ Deepest >= 2
  /\ \A in \in Inputs : in.mode \in Modes /\ IsPage(in.doc)

\* How many tokens from the front on satisfy a test, the first one apart.
Run(q, Test(_)) ==
  Max({n \in 1 .. Len(q) : \A i \in 2 .. n : Test(q[i])})
Rest(q, n) == SubSeq(q, n + 1, Len(q))
Join(q, n) == FlattenSeq([i \in 1 .. n |->
                 IF i = 1 THEN q[i].txt ELSE <<"nl">> \o q[i].txt])

-----------------------------------------------------------------------------
(* The renderer's own state: `res' is what is written since the last block, *)
(* `stack' and `styles' are the elements and font styles that are open,     *)
(* innermost first.                                                         *)

NewRend(mode) == [mode |-> mode, res |-> <<>>, blocks |-> <<>>, spos |-> 0, pushing |-> TRUE,
            stack |-> <<>>, styles |-> <<>>, barrier |-> <<>>, off |-> {},
            lits |-> <<>>, abbrs |-> {}, known |-> {}, title |-> <<>>,
            feats |-> {}, empty |-> FALSE, err |-> "", floor |-> 0, leak |-> FALSE]

Put(r, w) == [r EXCEPT !.res = Append(@, <<"t", w>>)]
Open(r, e) == [r EXCEPT !.res = Append(@, <<"+", e>>)]
Close(r, e) == [r EXCEPT !.res = Append(@, <<"-", e>>)]
Plain(r, s) == [r EXCEPT !.res = @ \o [i \in DOMAIN s |-> <<"t", s[i]>>]]
Ends(es) == [i \in DOMAIN es |-> <<"-", es[i]>>]
CloseStyles(r) == [r EXCEPT !.res = @ \o Ends(r.styles), !.styles = <<>>]
Fail(r, what) == [r EXCEPT !.err = what]

AddBlock(r, what) ==
  [r EXCEPT !.blocks = Append(@, [what |-> what, html |-> r.res]), !.res = <<>>]
ForceBlock(r, what) == IF r.res = <<>> THEN r ELSE AddBlock(r, what)
PushBlock(r, what) ==
  IF ~r.pushing THEN r
  ELSE IF r.spos # 0 THEN [r EXCEPT !.pushing = FALSE] ELSE AddBlock(r, what)
PushBlank(r) ==
  IF ~r.pushing THEN r
  ELSE IF Len(r.res) # 1 THEN [r EXCEPT !.pushing = FALSE] ELSE AddBlock(r, "blank")

\* `leak' remembers that an element was begun within an open font style.
HandleBegin(r, e) ==
  [Open(r, e) EXCEPT !.spos = IF r.stack = <<>> THEN Len(r.res) ELSE @,
                     !.stack = <<e>> \o @,
                     !.leak = @ \/ r.styles # <<>>]

HandleEndAs(r, e, what) ==
  LET c == [CloseStyles(r) EXCEPT !.stack = Tail(@)]
  IN CASE r.stack[1] # e -> Fail(r, "IntErr")
       [] r.stack[1] = e /\ Last(c.res) = <<"+", e>> /\ e \in {"p", "blockquote"} ->
            [c EXCEPT !.res = Front(@)]
       [] OTHER -> IF c.stack = <<>> THEN PushBlock(Close(c, e), what) ELSE Close(c, e)
HandleEnd(r, e) == HandleEndAs(r, e, e)

-----------------------------------------------------------------------------
(* Font styles.  A mark starts one only if an end can be seen further on in *)
(* the text, which is a search in plain characters: it sees marks that are  *)
(* inside brackets.                                                         *)

Marks == {"*", "~~", "_"}
Styled(m) == CASE m = "*" -> "em" [] m = "~~" -> "strong" [] m = "_" -> "code"
MarkOf(e) == CHOOSE m \in Marks : Styled(m) = e
Spaces == {" ", "nl"}
SetStyleBarrier(r) == [r EXCEPT !.barrier = Append(@, r.styles)]
ClearStyleBarrier(r) == [r EXCEPT !.barrier = Front(@)]
BlockedStyle(r, e) == r.barrier # <<>> /\ Contains(Last(r.barrier), e)

\* A link or an abbreviation leaks if a style that was open when it began is
\* closed in it, or one that began in it is open at its end.
StylesBut(r, n) ==
  [r EXCEPT !.styles = Rest(@, n), !.leak = @ \/ Len(r.styles) - n < r.floor]
OpenInline(r, e) == [Open(r, e) EXCEPT !.floor = Len(r.styles)]
CloseInline(r, e) == [Close(r, e) EXCEPT !.floor = 0, !.leak = @ \/ Len(r.styles) # r.floor]

First(r, e) == Min({i \in DOMAIN r.styles : r.styles[i] = e})
\* With a bug: they are left as they are, and just forgotten.
UnwindOver(r, e) == Close(StylesBut(r, First(r, e)), e)
\* Closing a style turns the starts of those inside it back into their marks.
UnwindInline(r, e) ==
  LET n == First(r, e)
      Back(h, x) ==
        LET at == {i \in DOMAIN h : h[i] = <<"+", x>>}
        IN IF x \notin {"em", "strong", "code"} \/ at = {}
           THEN Append(h, <<"-", x>>)
           ELSE [h EXCEPT ![Max(at)] = <<"t", MarkOf(x)>>]
      back[i \in 0 .. n - 1] == IF i = 0 THEN r.res ELSE Back(back[i - 1], r.styles[i])
  IN Close([StylesBut(r, n) EXCEPT !.res = back[n - 1]], e)

\* A minimal complete span: an end, and no other start before it in its line.
Spans(m, text) ==
  IF m = "_" THEN Contains(text, m)
  ELSE LET ends == {i \in 2 .. Len(text) : text[i] = m /\ text[i - 1] \notin Spaces}
       IN /\ ends # {}
          /\ LET e == Min(ends)
                 line == Max({0} \cup {i \in 1 .. e : text[i] = "nl"})
             IN ~\E j \in line + 1 .. e - 3 : text[j] = m /\ text[j + 1] \notin Spaces

InlineFont(r, m, text, last) ==
  LET e == Styled(m)
  IN CASE BlockedStyle(r, e) \/ m \in r.off -> Put(r, m)
       [] ~BlockedStyle(r, e) /\ m \notin r.off /\ Contains(r.styles, e) -> UnwindInline(r, e)
       [] OTHER ->
            IF \/ text = <<>>
               \/ m # "_" /\ text[1] \in Spaces
               \/ m = "_" /\ last \notin Marks \cup Spaces \cup {"", "))", "}}", "]]", "endquote"}
               \/ ~Spans(m, text)
            THEN Put(r, m)
            ELSE [Open(r, e) EXCEPT !.styles = <<e>> \o @]

StartStyle(r, e) == [Open(r, e) EXCEPT !.styles = <<e>> \o @]
EndStyle(r, e) == [StylesBut(r, First(r, e)) EXCEPT !.res = @ \o Ends(SubSeq(r.styles, 1, First(r, e)))]

\* A literal word has a mark between a character before and one after it.
FindStopword(r, s) ==
  \E i \in DOMAIN r.lits :
     /\ r.lits[i][2] = s[1]
     /\ r.res # <<>> /\ Last(r.res) = <<"t", r.lits[i][1]>>
     /\ Len(s) > 1 /\ s[2] = r.lits[i][3]

-----------------------------------------------------------------------------
(* Texts: brackets first, then marks, then plain text.                      *)

Opener == {"((", "quote", "{{", "[["}
Closer(b) == CASE b = "((" -> "))" [] b = "quote" -> "endquote" [] b = "{{" -> "}}" [] b = "[[" -> "]]"
\* What is allowed in the text of a link.
LimitedText == {"((", "quote"}
\* Where the bracket that is in front closes; 0 if nothing closes it.
Closes(typ, s) ==
  IF s[1] \notin Opener \/ (typ = "ltext" /\ s[1] \notin LimitedText) THEN 0
  ELSE LET at == {j \in 3 .. Len(s) : s[j] = Closer(s[1])}
       IN IF at = {} THEN 0 ELSE Min(at)

\* [[text|link]], [[text link]] or [[link]]. A text and a link that were seen
\* together stand for each other afterwards.
SplitLink(r, s) ==
  LET bar == {i \in DOMAIN s : s[i] = "|"}
      gap == {i \in DOMAIN s : s[i] \in Spaces}
      text == IF bar # {} THEN SubSeq(s, 1, Min(bar) - 1)
              ELSE IF gap # {} THEN SubSeq(s, 1, Max(gap) - 1) ELSE <<>>
      link == IF bar # {} THEN Rest(s, Min(bar))
              ELSE IF gap # {} THEN Rest(s, Max(gap)) ELSE s
      KnownText(l) == {p[1] : p \in {q \in r.known : q[2] = l}}
      KnownLink(t) == {p[2] : p \in {q \in r.known : q[1] = t}}
  IN CASE bar = {} /\ KnownLink(s) # {} -> [text |-> s, link |-> CHOOSE l \in KnownLink(s) : TRUE]
       [] bar # {} /\ text = <<>> /\ KnownText(link) # {} ->
            [text |-> CHOOSE t \in KnownText(link) : TRUE, link |-> link]
       [] bar # {} /\ link = <<>> /\ KnownLink(text) # {} ->
            [text |-> text, link |-> CHOOSE l \in KnownLink(text) : TRUE]
       [] OTHER -> [text |-> IF text = <<>> THEN link ELSE text, link |-> link]

\* Lists of pages and the like: a list that is an element of its own, and so
\* ends the paragraph it is in.
MacroList(r) ==
  LET list == <<Begin("ul"), Begin("li"), Text("plain", <<"page1">>), End("li"),
                Begin("li"), Text("plain", <<"page2">>), End("li"), End("ul")>>
  IN IF r.stack[1] = "p" THEN <<End("p")>> \o list \o <<Begin("p")>> ELSE list

TextMacros == {"AB", "C", "ST"}
ListMacros == {"RecentChanges"}
AllMacros == TextMacros \cup ListMacros \cup {"Striped", "Restricted", "CanComment", "CutShort", "IMG"}
AllowedMacro(mode, m) ==
  \/ m \in TextMacros
  \/ mode.macros = "some" /\ m \in {"Restricted", "CanComment", "CutShort", "IMG"}
  \/ mode.macros = "all" /\ m # "CutShort"
Abbr(args) == SubSeq(args, 1, Min({Len(args) + 1} \cup {i \in DOMAIN args : args[i] = ":"}) - 1)
\* These render as themselves: what is no macro, what is switched off, what
\* does not like its arguments.
Literal(r, m, args) ==
  \/ m \notin AllMacros
  \/ r.mode.macros = "none" /\ m \notin TextMacros
  \/ m = "AB" /\ (args = <<>> \/ (~Contains(args, ":") /\ Abbr(args) \notin r.abbrs))
  \/ m = "ST" /\ args = <<>>
  \/ m = "CutShort" /\ AllowedMacro(r.mode, m)

CanComment(r) ==
  [r EXCEPT !.feats = @ \cup {"hascomments"} \cup IF r.mode.reader THEN {"comments"} ELSE {}]
Restricted(r) ==
  LET d == [r EXCEPT !.feats = @ \cup {"hasrestricted"}]
  IN IF r.mode.reader THEN d ELSE Fail(d, "ReturnNothing")

-----------------------------------------------------------------------------
(* Substitutions: `subs' is the dictionary of words and what is put in      *)
(* their place, in the order in which its values are met.  A word is a      *)
(* token here, so that .pn sub and .pn wordsub do the same.                 *)

Sub(note) == <<note.txt[1], note.def>>
MakeSub(s, p) ==
  IF \E i \in DOMAIN s : s[i][1] = p[1]
  THEN {[i \in DOMAIN s |-> IF s[i][1] = p[1] THEN p ELSE s[i]]}
  ELSE {InsertAt(s, i, p) : i \in 1 .. Len(s) + 1}
DelSub(s, word) ==
  LET at == {i \in DOMAIN s : s[i][1] = word}
  IN IF at = {} THEN s ELSE RemoveAt(s, Min(at))

\* All of them are made in all of a text, one after the other.
Replaced(txt, p) == FlattenSeq([j \in DOMAIN txt |-> IF txt[j] = p[1] THEN p[2] ELSE <<txt[j]>>])
Substituted(txt) ==
  LET after[i \in 0 .. Len(subs)] == IF i = 0 THEN txt ELSE Replaced(after[i - 1], subs[i])
  IN after[Len(subs)]

-----------------------------------------------------------------------------
(* The calls that a handler makes, in their order: those of handle_begin()  *)
(* and handle_end() are the tokens that do the same.  A call of             *)
(* handle_text() has in `el' what it has dealt with last, and in `lvl' how  *)
(* many others it is in.                                                    *)

Calling(kinds) == ~done /\ rend.err = "" /\ calls # <<>> /\ Head(calls).k \in kinds
Cl == Head(calls)
\* The call writes r, and makes the calls cs in its turn.
Does(r, cs) ==
  /\ rend' = r
  /\ calls' = cs \o Tail(calls)
  /\ UNCHANGED <<input, queue, subs, loop, done>>

TextCall(k, txt, lvl) == [Text(k, Substituted(txt)) EXCEPT !.lvl = lvl]
InnerText(k, txt) == TextCall(k, txt, Cl.lvl + 1)

Begins == Calling({"begin"}) /\ Does(HandleBegin(rend, Cl.el), <<>>)
EndsIt == Calling({"end"}) /\ Does(HandleEnd(rend, Cl.el), <<>>)
EndsTitle ==
  /\ Calling({"title"})
  /\ Does([HandleEndAs(rend, "h", "title") EXCEPT !.title = Rest(CloseStyles(rend).res, 1)], <<>>)
InlinePlain == Calling({"plain", "quote"}) /\ Does(Plain(rend, Cl.txt), <<>>)
InlineCode ==
  /\ Calling({"(("})
  /\ Does(IF Contains(rend.styles, "code") THEN Plain(rend, Cl.txt)
          ELSE Close(Plain(Open(rend, "code"), Cl.txt), "code"), <<>>)

\* One turn of the loop of handle_text().
HandleText ==
  /\ Calling({"text", "ltext"}) /\ Cl.lvl <= Deepest
  /\ LET s == Cl.txt
         n == Closes(Cl.k, s)
         Goes(m, last) == [Cl EXCEPT !.txt = Rest(s, m), !.el = last]
     IN \/ s = <<>> /\ Does(rend, <<>>)
        \/ s # <<>> /\ n # 0 /\ Does(rend, <<[Text(s[1], SubSeq(s, 2, n - 1)) EXCEPT !.lvl = Cl.lvl], Goes(n, s[n])>>)
        \/ /\ s # <<>> /\ n = 0
           /\ \/ s[1] \notin Marks /\ Does(Put(rend, s[1]), <<Goes(1, s[1])>>)
              \/ /\ s[1] \in Marks /\ Cl.k = "text" /\ FindStopword(rend, s)
                 /\ Does(Plain(rend, SubSeq(s, 1, 2)), <<Goes(2, Cl.el)>>)
              \/ /\ s[1] \in Marks /\ ~(Cl.k = "text" /\ FindStopword(rend, s))
                 /\ Does(InlineFont(rend, s[1], Tail(s), Cl.el), <<Goes(1, s[1])>>)

\* A text that a substitution puts into itself calls for itself without end.
TooDeep == Calling({"text", "ltext"}) /\ Cl.lvl > Deepest /\ Does(Fail(rend, "RuntimeError"), <<>>)

BrLink ==
  /\ Calling({"[["})
  /\ LET p == SplitLink(rend, Cl.txt)
         told == IF p.text # p.link /\ p.link # <<>>
                 THEN [rend EXCEPT !.known = @ \cup {<<p.text, p.link>>}] ELSE rend
         start == IF rend.mode.links THEN OpenInline(told, "a") ELSE [told EXCEPT !.floor = Len(rend.styles)]
     IN \/ p.text = <<>> /\ Does(Put(rend, "[["), <<InnerText("text", Cl.txt), Text("plain", <<"]]">>)>>)
        \/ p.text # <<>> /\ p.link = <<>> /\ Does(Plain(rend, p.text), <<>>)
        \/ p.text # <<>> /\ p.link # <<>>
             /\ Does(SetStyleBarrier(start), <<InnerText("ltext", p.text), Text("endlink", <<>>)>>)
EndsLink ==
  /\ Calling({"endlink"})
  /\ LET c == CloseInline(rend, "a")
     IN Does(ClearStyleBarrier(IF rend.mode.links THEN c ELSE [c EXCEPT !.res = rend.res]), <<>>)

\* macro(), as far as to the macro's own function.
Name == Cl.txt[1]
Args == Tail(Cl.txt)
Unheard ==
  /\ Calling({"{{"})
  /\ \/ Literal(rend, Name, Args) /\ Does(Put(Plain(Put(rend, "{{"), Cl.txt), "}}"), <<>>)
     \/ /\ ~Literal(rend, Name, Args) /\ ~AllowedMacro(rend.mode, Name)
        /\ Does(IF rend.mode.macros = "some" THEN Put(rend, "{macro suppressed}") ELSE rend, <<>>)
Runs(macros) ==
  /\ Calling({"{{"}) /\ Name \in macros
  /\ ~Literal(rend, Name, Args) /\ AllowedMacro(rend.mode, Name)
ListMacro == Runs(ListMacros) /\ Does(rend, MacroList(rend))
PutMacro == Runs({"Striped", "C", "IMG"}) /\ Does(Put(rend, Name), <<>>)
CanCommentMacro == Runs({"CanComment"}) /\ Does(CanComment(rend), <<>>)
RestrictedMacro == Runs({"Restricted"}) /\ Does(Restricted(rend), <<>>)
ShowAbbr ==
  /\ Runs({"AB"})
  /\ Does([OpenInline(rend, "abbr") EXCEPT !.abbrs = @ \cup {Abbr(Args)}],
          <<InnerText("ltext", Abbr(Args)), Text("endabbr", <<>>)>>)
EndsAbbr == Calling({"endabbr"}) /\ Does(CloseInline(rend, "abbr"), <<>>)
ShowText ==
  /\ Runs({"ST"})
  /\ Does(SetStyleBarrier(StartStyle(rend, "big")), <<InnerText("text", Args), Text("endstyle", <<>>)>>)
\* end_style() pops what is open until it meets the style; a list in the text
\* has ended it already.
EndsText ==
  /\ Calling({"endstyle"})
  /\ Does(IF Contains(rend.styles, "big") THEN ClearStyleBarrier(EndStyle(rend, "big"))
          ELSE Fail(rend, "IndexError"), <<>>)

\* Processing notes: the first that is not understood makes the whole line a
\* paragraph, and undoes nothing.  What a handler declines goes back as one.
AsParagraph(t) == Text("para", t.txt)
DisableStyle(r, args) == [r EXCEPT !.off = @ \cup {args[1]}]
AddStopword(r, args) == [r EXCEPT !.lits = IF Contains(@, args) THEN @ ELSE Append(@, args)]
ClearStopword(r) == Fail(r, "AttributeError")
Understood(r, note) ==
  \/ note.k \in {"no", "yes", "lit", "nosubs", "sub", "unsub", "prewrap"}
  \/ note.k = "unlit" /\ Contains(r.lits, note.txt)
Heed(r, note) ==
  CASE note.k = "no" -> DisableStyle(r, note.txt)
    [] note.k = "yes" -> [r EXCEPT !.off = {}]
    [] note.k = "lit" -> AddStopword(r, note.txt)
    [] note.k = "unlit" -> ClearStopword(r)
    [] note.k = "nosubs" -> [r EXCEPT !.lits = <<>>]
    [] OTHER -> r
\* A dictionary does not keep an order: a new word may be met anywhere.
SubsAfter(s, note) ==
  CASE note.k = "sub" -> MakeSub(s, Sub(note))
    [] note.k = "unsub" -> {DelSub(s, note.txt[1])}
    [] note.k = "nosubs" -> {<<>>}
    [] OTHER -> {s}
PNote ==
  /\ Calling({"notes"})
  /\ \/ Cl.kid = <<>> /\ Does(rend, <<>>)
     \/ /\ Cl.kid # <<>> /\ Understood(rend, Head(Cl.kid))
        /\ rend' = Heed(rend, Head(Cl.kid))
        /\ subs' \in SubsAfter(subs, Head(Cl.kid))
        /\ calls' = <<[Cl EXCEPT !.kid = Tail(@)]>> \o Tail(calls)
        /\ UNCHANGED <<input, queue, loop, done>>
     \/ /\ Cl.kid # <<>> /\ ~Understood(rend, Head(Cl.kid))
        /\ queue' = <<AsParagraph(Cl)>> \o queue
        /\ calls' = Tail(calls)
        /\ UNCHANGED <<input, rend, subs, loop, done>>

Call ==
  \/ Begins \/ EndsIt \/ EndsTitle \/ InlinePlain \/ InlineCode \/ HandleText \/ TooDeep
  \/ BrLink \/ EndsLink \/ Unheard \/ ListMacro \/ PutMacro \/ CanCommentMacro
  \/ RestrictedMacro \/ ShowAbbr \/ EndsAbbr \/ ShowText \/ EndsText \/ PNote

-----------------------------------------------------------------------------
(* Handlers.  `loop' is list_handler() at work; it takes a token at a time.  *)

NoLoop == [on |-> FALSE, ltype |-> "", first |-> TRUE, isiquote |-> FALSE,
           low |-> 0, base |-> 0, out |-> <<>>]
Infinity == 99999

\* A header in the first line is the title, also when it is the inner token of
\* a quoted line.
FirstLine(t) ==
  LET Titled(u) == [u EXCEPT !.k = IF @ = "header" THEN "header1" ELSE @]
  IN [Titled(t) EXCEPT !.kid = [i \in DOMAIN @ |-> Titled(@[i])]]

Init ==
  /\ input \in Inputs
  /\ queue = <<FirstLine(input.doc[1])>> \o Tail(input.doc)
  /\ rend = NewRend(input.mode)
  /\ subs = <<>>
  /\ calls = <<>>
  /\ loop = NoLoop
  /\ done = FALSE

\* The loop of run().  (It is left early where only a title is asked for, TITLEONLY;
\* pages here are rendered whole.)
Front1(kinds) ==
  ~done /\ ~loop.on /\ calls = <<>> /\ rend.err = "" /\ queue # <<>> /\ Head(queue).k \in kinds
Tk == Head(queue)

\* The handler writes r, and has taken n tokens.
Writes(r, n) ==
  /\ rend' = r
  /\ queue' = Rest(queue, n)
  /\ UNCHANGED <<input, subs, calls, loop, done>>
\* It makes the calls cs.
Calls(n, cs) ==
  /\ calls' = cs
  /\ queue' = Rest(queue, n)
  /\ UNCHANGED <<input, rend, subs, loop, done>>
\* It pushes back toks in place of the n it has taken.
Pushes(n, toks) ==
  /\ queue' = toks \o Rest(queue, n)
  /\ UNCHANGED <<input, rend, subs, calls, loop, done>>
Element(e, txt) == <<Begin(e), TextCall("text", txt, 0), End(e)>>

BlankLine == Front1({"blank"}) /\ Writes(PushBlank(Put(rend, "nl")), 1)
Rule      == Front1({"starsep", "hr"}) /\ Writes(Put(rend, Tk.k), 1)
Newline   == Front1({"nl"}) /\ Writes(Put(rend, "nl"), 1)
\* The text of a header that has none is None, in which nothing can be replaced.
NoText == Tk.txt = <<>> /\ subs # <<>>
Header ==
  /\ Front1({"header"})
  /\ \/ NoText /\ Writes(Fail(rend, "TypeError"), 1)
     \/ ~NoText /\ Calls(1, Element("h", Tk.txt))
Header1 ==
  /\ Front1({"header1"})
  /\ \/ rend.res # <<>> /\ Writes(Fail(rend, "AssertionError"), 1)
     \/ rend.res = <<>> /\ NoText /\ Writes(Fail(rend, "TypeError"), 1)
     \/ rend.res = <<>> /\ ~NoText
        /\ Calls(1, <<Begin("h"), TextCall("text", Tk.txt, 0), Text("title", <<>>)>>)

Paragraph ==
  /\ Front1({"p"})
  /\ LET n == Run(queue, LAMBDA t : t.k = "p" \/ (t.k = "ol" /\ t.digit))
     IN Calls(n, Element("p", Join(queue, n)))
Para ==
  /\ Front1({"para"})
  /\ LET n == Run(queue, LAMBDA t : t.k \in {"para", "ptext"})
     IN Calls(n, Element("p", Join(queue, n)))
PText ==
  /\ Front1({"ptext"})
  /\ LET n == Run(queue, LAMBDA t : t.k = "ptext")
     IN Calls(n, <<TextCall("text", Join(queue, n), 0)>>)

\* Preformatted text goes on over a blank line, but not right after its first.
PreRun(q) ==
  Max({n \in 1 .. Len(q) :
         /\ q[n].k = "indented"
         /\ \A i \in 2 .. n : q[i].k # "indented" =>
              q[i].k = "blank" /\ i > 2 /\ {q[i - 1].k, q[i + 1].k} = {"indented"}})
Indented ==
  /\ Front1({"indented"})
  /\ LET n == PreRun(queue)
     IN Calls(n, <<Begin("pre"), Text("plain", Join(queue, n)), End("pre")>>)

\* The cells of the first i words of a row, the last of which is not ended yet.
Cut(row) ==
  LET cut[i \in 0 .. Len(row)] ==
        IF i = 0 THEN <<<<>>>>
        ELSE IF row[i] = "|" THEN Append(cut[i - 1], <<>>)
        ELSE Append(Front(cut[i - 1]), Append(Last(cut[i - 1]), row[i]))
  IN cut[Len(row)]
\* With a bug: the last cell is dropped whatever is in it.
CellsOver(row) == Front(Cut(row))
Cells(row) == IF Last(Cut(row)) = <<>> THEN Front(Cut(row)) ELSE Cut(row)
\* A row is a line, and the indented lines that follow it.
TableRows ==
  /\ Front1({"table"})
  /\ LET n == Run(queue, LAMBDA t : t.k \in {"table", "indented"})
         starts == {i \in 1 .. n : queue[i].k = "table"}
         RowText(i) == Join(Rest(queue, i - 1), Min({j \in starts : j > i} \cup {n + 1}) - i)
         RowCalls(cells) == <<Begin("tr")>> \o FlattenSeq([j \in DOMAIN cells |-> Element("td", cells[j])])
                                           \o <<End("tr")>>
         rows == [i \in 1 .. n |-> IF i \in starts THEN RowCalls(Cells(RowText(i))) ELSE <<>>]
     IN Calls(n, <<Begin("table")>> \o FlattenSeq(rows) \o <<End("table")>>)

\* With a bug: one end too few.
LevelsOver(from, to, e) ==
  IF to > from THEN [i \in 1 .. to - from |-> Begin(e)] ELSE IF to = from THEN <<>> ELSE [i \in 1 .. from - to - 1 |-> End(e)]
Levels(from, to, e) ==
  IF to > from THEN [i \in 1 .. to - from |-> Begin(e)] ELSE [i \in 1 .. from - to |-> End(e)]
Quote ==
  /\ Front1({"quote"})
  /\ LET n == Run(queue, LAMBDA t : t.k = "quote")
         Lvl(i) == IF i = 0 THEN 0 ELSE queue[i].lvl
         lines == [i \in 1 .. n |-> Levels(Lvl(i - 1), Lvl(i), "blockquote") \o queue[i].kid]
     IN Pushes(n, FlattenSeq(lines) \o Levels(Lvl(n), 0, "blockquote"))

\* Quotes by indentation, in lists; p is turned into ptext.
IQuote ==
  /\ Front1({"iquote"})
  /\ LET n == Run(queue, LAMBDA t : t.k = "iquote")
         Line(i) == queue[i].kid[1]
         lvls[i \in 0 .. n] ==
           IF i = 0 THEN <<0>>
           ELSE LET l == lvls[i - 1]
                IN IF Line(i).off > Last(l) THEN Append(l, Line(i).off)
                   ELSE SubSeq(l, 1, Max({j \in DOMAIN l : l[j] <= Line(i).off}))
         lines == [i \in 1 .. n |->
                    (IF Len(lvls[i]) > Len(lvls[i - 1]) THEN <<[Blank EXCEPT !.k = "nl"]>> ELSE <<>>)
                      \o Levels(Len(lvls[i - 1]), Len(lvls[i]), "blockquote")
                      \o <<IF Line(i).k = "p" THEN [Line(i) EXCEPT !.k = "ptext"] ELSE Line(i)>>]
     IN Pushes(n, FlattenSeq(lines) \o Levels(Len(lvls[n]), 1, "blockquote"))

\* With a bug: the line goes back as it is.
InnerOver(t) == t
InnerLine(t) == IF t.k = "innerlist" THEN t.kid[1] ELSE t
InnerList ==
  /\ Front1({"innerlist"})
  /\ LET n == Run(queue, LAMBDA t : t.k \in {"innerlist", "indented"})
     IN Pushes(n, <<Begin("div")>> \o [i \in 1 .. n |-> InnerLine(queue[i])] \o <<End("div")>>)

ListStart ==
  /\ Front1(Lists)
  /\ loop' = [NoLoop EXCEPT !.on = TRUE, !.ltype = Tk.k, !.low = Infinity,
                             !.base = Tk.off + 2, !.out = <<Begin(Tk.k)>>]
  /\ UNCHANGED <<input, queue, rend, subs, calls, done>>

InList(kinds) == loop.on /\ queue # <<>> /\ Tk.k \in kinds
Takes(n, l) ==
  /\ loop' = l
  /\ queue' = Rest(queue, n)
  /\ UNCHANGED <<input, rend, subs, calls, done>>
Out(toks) == [loop EXCEPT !.out = @ \o toks]

ListIndented ==
  /\ InList({"indented"})
  /\ LET s == Tk.kid[1]
         iq == [Blank EXCEPT !.k = "iquote", !.kid = <<s>>, !.txt = s.txt]
     IN Takes(1,
          IF s.off > loop.low THEN Out(<<Tk>>)
          ELSE IF loop.isiquote /\ s.off > loop.base + 2 THEN Out(<<iq>>)
          ELSE IF s.k \in Lists \cup {"quote"} THEN [Out(<<s>>) EXCEPT !.low = s.off]
          ELSE IF s.off > loop.base + 2 THEN [Out(<<iq>>) EXCEPT !.isiquote = TRUE]
          ELSE [Out(<<Text("ptext", s.txt)>>) EXCEPT !.low = Infinity, !.isiquote = FALSE])

ListInner ==
  /\ InList({"innerlist"})
  /\ Takes(1, [Out(Tk.kid) EXCEPT !.low = Tk.kid[1].off, !.isiquote = FALSE])

ListItem ==
  /\ InList({loop.ltype})
  /\ LET first(e) == IF loop.first THEN <<>> ELSE <<End(e)>>
         Say(k, txt) == IF txt = <<>> THEN <<>> ELSE <<Text(k, txt)>>
         item == IF Tk.k = "dl"
                 THEN first("dd") \o <<Begin("dt")>> \o Say("ptext", Tk.txt)
                        \o <<End("dt"), Begin("dd")>> \o Say("ptext", Tk.def)
                 ELSE first("li") \o <<Begin("li")>>
                        \o Say(IF Tk.para THEN "para" ELSE "ptext", Tk.txt)
     IN Takes(1, [Out(item) EXCEPT !.first = FALSE, !.low = Infinity, !.isiquote = FALSE])

\* cont_list_cond(): what comes after a blank line still belongs to the list.
Continues(t) ==
  /\ t.k \in Lists \cup {"indented"}
  /\ t.k = "indented" => /\ t.kid[1].off <= loop.low
                         /\ t.kid[1].off <= loop.base \/ loop.isiquote
Swallows(t) == t.k = "indented" /\ t.kid[1].off > loop.low
ListBlank ==
  /\ InList({"blank"})
  /\ Len(queue) > 1
  /\ \/ Continues(queue[2]) /\ Takes(1, Out(<<Insert("p")>>))
     \/ Swallows(queue[2]) /\ Takes(2, Out(SubSeq(queue, 1, 2)))

ListEnd ==
  /\ loop.on
  /\ \/ queue = <<>>
     \/ queue # <<>> /\ Tk.k \notin {"indented", "innerlist", "blank", loop.ltype}
     \/ InList({"blank"}) /\ (Len(queue) > 1 => ~Continues(queue[2]) /\ ~Swallows(queue[2]))
  /\ queue' = loop.out \o <<End(IF loop.ltype = "dl" THEN "dd" ELSE "li"), End(loop.ltype)>> \o queue
  /\ loop' = NoLoop
  /\ UNCHANGED <<input, rend, subs, calls, done>>

ProcNote == Front1({"procnote"}) /\ Calls(1, <<[Tk EXCEPT !.k = "notes"]>>)

\* It cuts only where nothing is open; elsewhere it is a paragraph.
CutShort ==
  /\ Front1({"cutshort"})
  /\ \/ /\ rend.mode.macros = "none" \/ rend.stack # <<>>
        /\ Pushes(1, <<AsParagraph(Tk)>>)
     \/ /\ rend.mode.macros # "none" /\ rend.stack = <<>>
        /\ Writes(AddBlock(ForceBlock(rend, "chunk"), "cutshort"), 1)

BeginElement == Front1({"begin"}) /\ Writes(HandleBegin(rend, Tk.el), 1)
EndElement == Front1({"end"}) /\ Writes(HandleEnd(rend, Tk.el), 1)
InsertElement == Front1({"insert"}) /\ Writes(Put(CloseStyles(rend), "<p>"), 1)

Finish ==
  /\ ~done /\ ~loop.on /\ calls = <<>> /\ queue = <<>> /\ rend.err = ""
  /\ rend' = ForceBlock([rend EXCEPT !.res = @ \o Ends(rend.styles) \o Ends(rend.stack),
                                     !.styles = <<>>, !.stack = <<>>], "end")
  /\ done' = TRUE
  /\ UNCHANGED <<input, queue, subs, calls, loop>>
\* A restriction that the reader does not meet leaves nothing, but says so.
Nothing ==
  /\ ~done /\ rend.err = "ReturnNothing"
  /\ rend' = [rend EXCEPT !.res = <<>>, !.blocks = <<>>, !.empty = TRUE, !.title = <<>>,
                          !.feats = @ \cup {"restricted"}]
  /\ done' = TRUE
  /\ UNCHANGED <<input, queue, subs, calls, loop>>
\* Any other exception is the request's end.
Raise ==
  /\ ~done /\ rend.err \notin {"", "ReturnNothing"}
  /\ done' = TRUE
  /\ UNCHANGED <<input, queue, rend, subs, calls, loop>>

Handler ==
  \/ BlankLine \/ Rule \/ Newline \/ Header \/ Header1 \/ Paragraph \/ Para \/ PText
  \/ Indented \/ TableRows \/ Quote \/ IQuote \/ InnerList
  \/ ListStart \/ ListIndented \/ ListInner \/ ListItem \/ ListBlank \/ ListEnd
  \/ ProcNote \/ CutShort \/ BeginElement \/ EndElement \/ InsertElement
Terminated == done /\ UNCHANGED vars
Next == Call \/ Handler \/ Finish \/ Nothing \/ Raise \/ Terminated

Spec == Init /\ [][Next]_vars
-----------------------------------------------------------------------------
(* What the renderings of a page are made of: all of it, without the title, *)
(* to the first paragraph, or to a cut.                                     *)

Filter(blocks, view, skip, stopafter, cutshort) ==
  LET first == Min({i \in DOMAIN blocks : skip = "" \/ blocks[i].what \notin {skip, "blank"}}
                   \cup {Len(blocks) + 1})
      At(what) == {i \in first .. Len(blocks) : blocks[i].what = what}
      cut == IF cutshort /\ view # "normal" THEN {i - 1 : i \in At("cutshort")} ELSE {}
      last == Min(cut \cup At(stopafter) \cup {Len(blocks)})
  IN FlattenSeq([i \in 1 .. last - first + 1 |-> blocks[first + i - 1].html])
All == Filter(rend.blocks, "normal", "", "", FALSE)

\* Every end tag ends the element that was started last, and none is left.
Nested(html) ==
  LET Tag(a, x) == CASE x[1] = "t" -> a
                     [] x[1] = "+" -> [a EXCEPT !.open = <<x[2]>> \o @]
                     [] x[1] = "-" -> IF a.open # <<>> /\ a.open[1] = x[2]
                                      THEN [a EXCEPT !.open = Tail(@)] ELSE [a EXCEPT !.ok = FALSE]
      after[i \in 0 .. Len(html)] ==
        IF i = 0 THEN [ok |-> TRUE, open |-> <<>>] ELSE Tag(after[i - 1], html[i])
  IN after[Len(html)] = [ok |-> TRUE, open |-> <<>>]
Rendered == done /\ rend.err = ""
WordsOf(s) == SelectSeq(s, LAMBDA w : w \in Words)

\* "WikiText rendering should result in valid and properly nested HTML"
\* (wikirend.py), and it does, unless a font style was open when an element
\* began, or a link or an abbreviation left or ended one: [[*a ((b* c))|d]] does
\* not nest.  It does so for every way of showing the page, whatever it skips
\* and wherever it stops: no block is pushed with an element open, and a cut
\* closes all.
ViewsNest ==
  Rendered /\ ~rend.leak =>
    \A view \in {"normal", "blog"}, skip \in {"", "title"}, stop \in {"", "p"}, cut \in BOOLEAN :
      Nested(Filter(rend.blocks, view, skip, stop, cut)) /\ Nested(rend.title)

\* No word of a page is lost, doubled or moved, however its lines are taken
\* apart into lists and quotes and pushed back: they come out in their order.
WordsKept ==
  Rendered => WordsOf(LET texts == SelectSeq(All, LAMBDA x : x[1] = "t")
                      IN [i \in DOMAIN texts |-> texts[i][2]])
              = WordsOf(FlattenSeq([i \in DOMAIN input.doc |-> input.doc[i].txt \o input.doc[i].def]))

\* An element never ends another one ("Programming error" in handle_end()), and
\* nothing else fails but what is known to: a title in a quote, unlit, and, on a
\* page that substitutes, a header without a text, a text that is put into itself,
\* and a list that is put into the text of a style.
NotesOf(kind) == {t \in Within(input.doc) : t.k = kind}
Substitutes == NotesOf("sub") # {}
FailsAsKnown ==
  /\ rend.err \in {"", "ReturnNothing", "AssertionError", "AttributeError",
                  "TypeError", "IndexError", "RuntimeError"}
  /\ rend.err = "AssertionError" => input.doc[1].k = "quote"
  /\ rend.err = "AttributeError" => NotesOf("unlit") # {}
  /\ rend.err \in {"TypeError", "IndexError", "RuntimeError"} => Substitutes

=============================================================================
