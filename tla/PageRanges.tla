----------------------------- MODULE PageRanges -----------------------------
(***************************************************************************)
(* Virtual directories: pageranges.py, and the clipping of blogdir.py.  A  *)
(* name after a directory restricts the list of what is in it; the list    *)
(* goes from the newest entry to the oldest.  A listing offers links to    *)
(* the listings beside it.                                                 *)
(*                                                                         *)
(* A suffix is what the name says, as a sequence: <<"latest", n>>,         *)
(* <<"oldest", n>>, <<"range", m, n>> or <<"calendar", y, m, d>>, with 0   *)
(* for a month or day that is not named; the first three may come alone.   *)
(* An entry of a list is a record of a time and a path.                    *)
(***************************************************************************)
EXTENDS Integers, Sequences, FiniteSets, FiniteSetsExt

CONSTANTS Date,     \* the date of each time: <<year, month, day>>
          Days      \* the dates that there are

\* Later is never on an earlier day: the order in which the loops of pageranges.py
\* take the entries and stop.
Earlier(c, e) == c[1] < e[1] \/ (c[1] = e[1] /\ (c[2] < e[2] \/ (c[2] = e[2] /\ c[3] < e[3])))
ASSUME DateAssumption ==
  /\ Days \subseteq (Nat \ {0}) \X (1 .. 12) \X (1 .. 31)
  /\ DOMAIN Date \subseteq Nat /\ \A t \in DOMAIN Date : Date[t] \in Days
  /\ \A t, u \in DOMAIN Date : t < u => ~ Earlier(Date[u], Date[t])

\* What may follow a directory's name: numbers, of which a link may have one below
\* zero, or a year, a month of it or a day of that.
Suffixes ==
  {<<"latest">>, <<"oldest">>, <<"range">>}
    \cup ({"latest"} \X Int) \cup ({"oldest"} \X Nat) \cup ({"range"} \X Nat \X Nat)
    \cup {s \in {"calendar"} \X (Nat \ {0}) \X Nat \X Nat : s[3] = 0 => s[4] = 0}

None == {}
NoRestriction == [type |-> "none", val |-> <<>>]

\* restrict: the restriction that a suffix means; none if it is not one, and then
\* there is no page of that name.
Swapped(m, n) == IF m > n THEN <<n, m>> ELSE <<m, n>>
Positive(r) == IF r[1] = 0 THEN <<r[1] + 1, r[2] + 1>> ELSE r
DefVals(kind) == IF kind = "range" THEN <<1, 1>> ELSE <<1>>
RestrictTo(suf) ==
  LET kind == suf[1]
      args == IF Len(suf) > 1 THEN Tail(suf) ELSE DefVals(kind)
      is(val) == [type |-> kind, val |-> val]
  IN IF \E i \in DOMAIN args : args[i] < 0 THEN NoRestriction     \* the pattern takes digits
     ELSE CASE kind \in {"latest", "oldest"} -> is(args)
            [] kind = "range" -> is(Positive(Swapped(args[1], args[2])))
            [] kind = "calendar" -> IF args[2] > 12 \/ args[3] > 31 THEN NoRestriction ELSE is(args)

\* restriction: a calendar is of a year, a month or a day.
Restriction(r) ==
  IF r.type # "calendar" THEN r.type
  ELSE IF r.val[3] # 0 THEN "day" ELSE IF r.val[2] # 0 THEN "month" ELSE "year"

(* Dates. *)

\* The day, month or year of a time, as a calendar names it that is as long as c.
Cut(t, c) == <<Date[t][1], IF c[2] = 0 THEN 0 ELSE Date[t][2], IF c[3] = 0 THEN 0 ELSE Date[t][3]>>
Dated(c) == c[3] = 0 \/ c \in Days    \* crange_to_limits: else there is an exception

\* calendar_cmp, of a time and a calendar.
After(t, c) == Earlier(c, Cut(t, c))
Before(t, c) == Earlier(Cut(t, c), c)
Within(t, c) == Cut(t, c) = c

\* The nearest entries on either side of a calendar: the loops stop at the
\* first one that is too old.
Outside(dl, c) ==
  LET newer == {i \in DOMAIN dl : After(dl[i].time, c)}
      older == {i \in DOMAIN dl : Before(dl[i].time, c)}
  IN [newer |-> IF newer = {} THEN None ELSE {dl[Max(newer)].time},
      older |-> IF older = {} THEN None ELSE {dl[Min(older)].time}]
NoHits == [newer |-> None, older |-> None]

(* Lists. *)

\* filter_files, as the positions from which to which it takes, and what it
\* leaves for the navigation: how many there are, or the entries outside.
First(n, dl) == IF n < Len(dl) THEN n ELSE Len(dl)
Positions(r, dl) ==
  CASE r.type = "none" -> <<1, Len(dl)>>
    [] r.type = "latest" -> <<1, First(r.val[1], dl)>>
    [] r.type = "oldest" ->    \* flist[-0:] is everything
         <<IF r.val[1] = 0 THEN 1 ELSE Len(dl) - First(r.val[1], dl) + 1, Len(dl)>>
    [] r.type = "range" -> <<r.val[1], First(r.val[2], dl)>>
    [] r.type = "calendar" ->
         LET newer == {i \in DOMAIN dl : After(dl[i].time, r.val)}
             within == {i \in DOMAIN dl : Within(dl[i].time, r.val)}
         IN IF ~ Dated(r.val) THEN <<1, 0>>
            ELSE <<Cardinality(newer) + 1, Cardinality(newer) + Cardinality(within)>>
Hits(r, dl) ==
  IF r.type = "calendar" THEN IF Dated(r.val) THEN Outside(dl, r.val) ELSE NoHits
  ELSE Len(dl)

\* clipDown: where a list without a limit is cut, at a change of the day of the
\* month; 0 if it is not.
ClipAnywhere(r, dl, howmany) ==    \* a mutant: whatever the day
  IF Len(dl) > howmany /\ Restriction(r) \in {"none", "year", "month"} THEN howmany ELSE 0
ClipDown(r, dl, howmany) ==
  LET mday(i) == Date[dl[i].time][3]
      cuts == {i \in howmany + 1 .. Len(dl) : mday(i) # mday(howmany)}
  IN IF Len(dl) > howmany /\ Restriction(r) \in {"none", "year", "month"} /\ cuts # {}
     THEN Min(cuts) - 1 ELSE 0

(* Navigation: the links of a listing, as sets of suffixes. *)

\* range_prev: total is None where the list was not counted.
RangePrev(total, start, end) ==
  LET counted == total # None
      last == IF counted THEN Min(total \cup {end}) ELSE end
      gap == last - start + 1
  IN IF gap <= 0 THEN {}
     ELSE IF total = {last} THEN {<<"oldest", gap>>}
     ELSE {<<"range", start, last>>}
GenRange(start, end) == IF start > 1 THEN <<"range", start, end>> ELSE <<"latest", end>>

LatestRel(n, total) == [older |-> RangePrev({total}, n + 1, n * 2), newer |-> {}]
OldestRel(n, total) ==
  LET end == total - n
  IN [older |-> {}, newer |-> {GenRange(Max({end - n + 1, 1}), end)}]
RangeRel(start, end, total) ==
  LET gap == end - start + 1
  IN [older |-> RangePrev({total}, end + 1, end + gap),
      newer |-> IF start > 1 THEN {GenRange(Max({start - gap, 1}), start - 1)} ELSE {}]
CalSuffix(c) == <<"calendar", c[1], c[2], c[3]>>
CalLink(c, times) == {CalSuffix(Cut(t, c)) : t \in times}
CalendarRel(c, hits) == [older |-> CalLink(c, hits.older), newer |-> CalLink(c, hits.newer)]

RangeBar(r, hits) ==
  CASE r.type = "none" -> [older |-> {}, newer |-> {}]
    [] r.type = "latest" -> LatestRel(r.val[1], hits)
    [] r.type = "oldest" -> OldestRel(r.val[1], hits)
    [] r.type = "range" -> RangeRel(r.val[1], r.val[2], hits)
    [] r.type = "calendar" -> CalendarRel(r.val, hits)

\* rangebar where nothing was counted: back it goes all the same.
UncountedBar(r) ==
  CASE r.type = "latest" -> [older |-> RangePrev(None, r.val[1] + 1, r.val[1] * 2), newer |-> {}]
    [] r.type = "range" ->
         [older |-> RangePrev(None, r.val[2] + 1, r.val[2] + r.val[2] - r.val[1] + 1),
          newer |-> RangeRel(r.val[1], r.val[2], 0).newer]
    [] OTHER -> [older |-> {}, newer |-> {}]

\* blograngebar: a listing that was clipped links to days; clip is the first
\* entry that is not shown.
AnyDay == <<1, 1, 1>>
BlogRangeBar(r, hits, clip) ==
  CalendarRel(AnyDay, [newer |-> IF r.type = "none" THEN None ELSE hits.newer, older |-> {clip.time}])
\* blogbackmore: and to as many more as were shown.
BlogBackMore(r, clipsize) ==
  IF r.type = "none" THEN RangePrev(None, clipsize + 1, clipsize * 2) ELSE {}
\* cutoff, month_cutoff: the day, month and year where it goes on.
CutOff(clip) == CalLink(AnyDay, {clip.time})
MonthCutOff(clip) == CalLink(<<1, 1, 0>>, {clip.time}) \cup CalLink(<<1, 0, 0>>, {clip.time})

\* calbar: the days, or in a year the months, that have an entry; and the month
\* or year itself, and what is beside it.
GenScope(c) ==
  IF c[2] # 0 THEN {d \in Days : d[1] = c[1] /\ d[2] = c[2]} ELSE {<<c[1], m, 0>> : m \in 1 .. 12}
EntriesIn(dl, c) == {i \in DOMAIN dl : Within(dl[i].time, c)}
CalBar(dl, c) ==
  LET bar == {e \in GenScope(c) : EntriesIn(dl, e) # {}}
      scope == <<c[1], c[2], 0>>
      beside == Outside(dl, scope)
  IN IF bar = {} THEN {}
     ELSE {CalSuffix(e) : e \in bar} \cup {CalSuffix(scope), CalSuffix(<<c[1], 0, 0>>)}
            \cup CalLink(c, beside.older) \cup CalLink(c, beside.newer)
\* datecrumbs: the day, month and year of a page.
DateCrumbs(time) == UNION {CalLink(c, {time}) : c \in {AnyDay, <<1, 1, 0>>, <<1, 0, 0>>}}

(* The pages before and after a page of a list. *)

Place(dl, path) == {i \in DOMAIN dl : dl[i].path = path}
\* steppage: the nearest one, going one way, that is a page of its own.
StepPage(dl, i, real, older) ==
  LET ahead == {j \in DOMAIN dl : dl[j].path \in real /\ IF older THEN j > i ELSE j < i}
  IN IF ahead = {} THEN None ELSE {dl[IF older THEN Min(ahead) ELSE Max(ahead)]}
=============================================================================
