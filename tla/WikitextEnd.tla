---------------------------- MODULE WikitextEnd ----------------------------
(***************************************************************************)
(* That the renderer comes to an end: a measure of what is left to do.     *)
(***************************************************************************)
EXTENDS Wikitext

\* The most steps a token can still cost: its own, and those of all that it is
\* turned into.
RECURSIVE Weight(_)
Weight(t) ==
  LET kids == FoldLeft(LAMBDA n, u : n + Weight(u), 0, t.kid)
  IN CASE t.k \in {"blank", "procnote", "cutshort"} -> 2
       [] t.k \in Lists -> 12
       [] t.k = "quote" -> 1 + 2 * t.lvl + kids
       [] t.k = "innerlist" -> 3 + kids
       [] t.k = "iquote" -> 4 + kids
       [] t.k = "indented" -> 5 + kids
       [] OTHER -> 1
Left ==
  LET all == FoldLeft(LAMBDA n, t : n + Weight(t), 0, queue \o loop.out)
  IN all + Cardinality({i \in DOMAIN calls : calls[i].k = "notes"})
         + (IF done THEN 0 ELSE 1)
         + (IF ~loop.on THEN 0 ELSE IF loop.first THEN 0 - 2 ELSE 3)

\* What is left of the texts that are in n others, in calls of handle_text() and
\* of what it calls; and of a line of notes.
TextLeft(n) ==
  FoldLeft(LAMBDA w, c : w + CASE c.lvl # n -> 0
                               [] c.lvl = n /\ c.k \in {"text", "ltext"} -> 1 + Len(c.txt)
                               [] c.lvl = n /\ c.k \in Opener -> 1
                               [] c.lvl = n /\ c.k = "notes" -> 1 + Len(c.kid)
                               [] OTHER -> 0,
           0, calls)

\* The handlers push tokens back for each other, and no counter stops them; all
\* the same every page comes to an end: each step leaves less to do, or takes a
\* token into the list that is being gathered and adds nothing, or goes on with a
\* text, from which only texts within it can come, to a depth that is bounded; or
\* one of the calls that have no text is made.
NearsTheEnd ==
  [][\/ Left' < Left
     \/ /\ Left' = Left
        /\ \/ loop.on /\ Len(queue') < Len(queue)
           \/ \E n \in 0 .. Deepest + 1 :
                /\ TextLeft(n)' < TextLeft(n)
                /\ \A m \in 0 .. n - 1 : TextLeft(m)' = TextLeft(m)
           \/ /\ \A n \in 0 .. Deepest + 1 : TextLeft(n)' = TextLeft(n)
              /\ Len(calls') < Len(calls)]_vars

=============================================================================
