----------------------------- MODULE MCWikitext -----------------------------
(* Pages for TLC: a few lines of each class of line, and single lines of      *)
(* marks and brackets.                                                        *)
EXTENDS WikitextEnd

MCWords == {"a", "b", "c", "d"}

Num(t) == [t EXCEPT !.digit = TRUE]
Plus(t) == [t EXCEPT !.para = TRUE]
\* An indented line, and a quoted one, around a line.
In(n, t) == [Tok("indented", 0, t.txt) EXCEPT !.kid = <<[t EXCEPT !.off = n]>>, !.def = t.def]
Quoted(n, t) == [Tok("quote", 0, t.txt) EXCEPT !.kid = <<[t EXCEPT !.off = 2 * n]>>, !.lvl = n]
Double(t) == [Tok("innerlist", 0, t.txt) EXCEPT !.kid = <<[t EXCEPT !.off = 1]>>]
Def == [Tok("dl", 0, <<"a">>) EXCEPT !.def = <<"b">>]

P(w) == Tok("p", 0, <<w>>)
\* The lines that lists, quotes and preformatted text are made of.
Lines == {Blank, P("a"), Tok("ul", 0, <<"b">>), Plus(Tok("ul", 0, <<"d">>)), Tok("ol", 0, <<"c">>),
          Num(Tok("ol", 0, <<"c">>)), Def, Double(Tok("ul", 0, <<"b">>)),
          In(1, P("c")), In(3, P("d")), In(5, P("a")), In(7, P("b")),
          In(2, Tok("ul", 0, <<"a">>)), In(6, Tok("ul", 0, <<"c">>)),
          Quoted(1, P("a")), Quoted(2, Tok("ul", 0, <<"b">>))}
\* The other ones, with which fewer things can happen.
Others == {Tok("header", 0, <<"a">>), Quoted(1, Tok("header", 0, <<"b">>)), Tok("hr", 0, <<>>),
           Tok("table", 0, <<"a", "|", "*", "b", "*", "|">>), Tok("cutshort", 0, <<"{{", "CutShort", "}}">>),
           In(2, Quoted(1, P("a"))), P("c"), Tok("ul", 0, <<"d">>), Blank, In(1, P("b")),
           Tok("ul", 0, <<"*", "a", "((", "*", "))">>)}

Code(w) == <<"((", w, "))">>
Link(s) == <<"[[">> \o s \o <<"]]">>
Mac(s) == <<"{{">> \o s \o <<"}}">>
Bits == {<<"*">>, <<"~~">>, <<"_">>, <<"a">>, <<" ">>, Code("*"), <<"quote", "~~", "endquote">>,
         Link(<<"*", "b">>), Link(<<"c", "|", "u">>), Mac(<<"RecentChanges">>)}
MoreBits == {<<"*">>, <<"a">>, <<"nl">>, Code("b"), Link(<<"n", " ", "u">>), Link(<<"|", "u">>), Link(<<"n", "|">>),
             Mac(<<"AB", "n", "*", ":", "x">>), Mac(<<"AB", "n">>),
             Mac(<<"ST", "*", "b", "((", "*", "))">>), Mac(<<"Restricted">>),
             Mac(<<"CanComment">>), Mac(<<"Striped">>), Mac(<<"CutShort">>), Mac(<<"other">>)}
\* Two equal marks side by side would be another token.
NoDoubles(t) == \A i \in 1 .. Len(t) - 1 : t[i] = t[i + 1] => t[i] \notin Marks
Concat(S, n) == {t \in {FlattenSeq(s) : s \in [1 .. n -> S]} : NoDoubles(t)}
Note(k, args) == Text(k, args)
Lit == Note("lit", <<"x", "*", "y">>)
NoteLists == {<<Note("no", <<"*">>)>>, <<Note("yes", <<>>)>>, <<Lit>>, <<Lit, Note("what", <<>>)>>,
              <<Note("unlit", <<"x", "*", "y">>)>>, <<Note("nosubs", <<>>)>>}
Notes == {[Tok("procnote", 0, <<".pn", "x", "*", "y">>) EXCEPT !.kid = l] : l \in NoteLists}
Starred == Tok("p", 0, <<"*", "c", "*", "x", "*", "y">>)

Page == [macros |-> "all", links |-> TRUE, reader |-> TRUE]
OtherModes == {[Page EXCEPT !.reader = FALSE], [Page EXCEPT !.macros = "some", !.links = FALSE],
               [Page EXCEPT !.macros = "none"]}
With(mode, docs) == {[mode |-> mode, doc |-> d] : d \in docs}
FewLines == Lines \ {P("a"), Plus(Tok("ul", 0, <<"d">>)), Num(Tok("ol", 0, <<"c">>)), Def,
                      Double(Tok("ul", 0, <<"b">>)), Quoted(2, Tok("ul", 0, <<"b">>)), In(5, P("a"))}
LineDocs == (UNION {[1 .. n -> Lines] : n \in 1 .. 3}) \cup [1 .. 4 -> FewLines] \cup [1 .. 3 -> Others]
TextDocs == {<<Tok("p", 0, t)>> : t \in Concat(Bits, 4) \cup Concat({<<"*">>, <<"~~">>, <<"_">>, <<"a">>, Code("*")}, 6)}
MacroDocs == {<<Tok(k, 0, t)>> : k \in {"p", "header", "ul"}, t \in Concat(MoreBits, 2)}
NoteDocs == {<<m, n, Starred>> : m \in Notes, n \in Notes \cup {Blank}}
\* A style that is closed in an abbreviation and opened again in it, and notes in a quote.
CrossDocs == {<<Tok("p", 0, <<"*", "a", " ", "{{", "AB", "b", "*", " ", "*", "c", "((", "d", "*", "))",
                              ":", "x", "}}", " ", "n", "*">>)>>}
             \cup {<<Quoted(1, m), Quoted(1, n)>> : m \in Notes, n \in Notes}
\* Words that are replaced: by a style or a link around a word, by themselves, by a
\* list, in an order or the other; and what they are replaced in.
Subst(new) == [Note("sub", <<"x">>) EXCEPT !.def = new]
SubLists == {<<Subst(new)>> : new \in {<<"*", "y">>, <<"y", "*">>, Mac(<<"RecentChanges">>), Mac(<<"ST", "x">>), Mac(<<"ST", "y">>),
                                      Link(<<"|">>), <<"x">>}}
            \cup {<<Subst(<<"y", "y">>), [Note("sub", <<"y">>) EXCEPT !.def = new]>> :
                  new \in {<<"~~">>, Mac(<<"ST", "x", "*">>), Mac(<<"RecentChanges">>)}}
            \cup {<<[Note("sub", <<"|">>) EXCEPT !.def = Link(<<"|">>)]>>}
Unsubs == {<<>>, <<Note("unsub", <<"x">>)>>, <<Note("nosubs", <<>>)>>, <<Note("prewrap", <<"on">>), Subst(<<"z">>)>>}
SubBits == {<<"x">>, <<"*", "a">>, Mac(<<"ST", "b", "x">>), Mac(<<"AB", "x">>), Mac(<<"AB", "x", ":", "z">>), Link(<<"x", "|", "u">>), Link(<<"|">>)}
PNotes(l) == [Tok("procnote", 0, <<".pn">>) EXCEPT !.kid = l]
SubTexts == {Tok("p", 0, t) : t \in Concat(SubBits, 2)}
            \cup UNION {{Tok("header", 0, t), Tok("ul", 0, t)} : t \in Concat(SubBits, 1)}
            \cup {Tok("header", 0, <<>>), Quoted(1, Tok("p", 0, <<"x">>)), Tok("table", 0, <<"x", "|", "c", "|">>)}
SubDocs == {<<PNotes(l \o u), t>> : l \in SubLists, u \in Unsubs, t \in SubTexts}
           \cup {<<Tok("header", 0, <<>>), P("c")>>}
MCInputs ==
  With(Page, SubDocs \cup LineDocs \cup TextDocs \cup MacroDocs \cup NoteDocs \cup CrossDocs)
  \cup UNION {With(m, MacroDocs \cup [1 .. 2 -> Others]) : m \in OtherModes}
=============================================================================
