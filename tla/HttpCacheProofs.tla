------------------------- MODULE HttpCacheProofs -------------------------
(***************************************************************************)
(* Proofs about the page caches, for any workers and any TTLs, provided    *)
(* the cookie's slack covers the shorter TTL and the making of a page.     *)
(* The argument: an entry on disk is at most GenMax older than its file, a *)
(* hit adds the asker's TTL and the worker's memory its own (BfcAges,      *)
(* ImcAges); what was begun before the poster had its answer is therefore  *)
(* gone when the cookie expires (Older, CookieSpent).                      *)
(***************************************************************************)
EXTENDS HttpCache, FiniteSetTheorems, TLAPS

\* A cookie outlives the two TTLs and the making of a page together.
LEMMA CookieOutlives ==
    /\ CookieLife \in Nat
    /\ CookieLife > ImcTTL + BfcTTL + GenMax
  BY LengthsAssumption, SlackAssumption DEF CookieLife, Longer, Lengths

\* The longest TTL of a key covers that of each kind of request.
LEMMA TTLs ==
    /\ \A k \in Keys : MaxTTL(k) \in Nat
    /\ \A kd \in Kinds : KeyOf(kd) \in Keys
    /\ \A kd \in Kinds \ {"static"} : TTLOf(kd) \in Nat /\ TTLOf(kd) <= MaxTTL(KeyOf(kd))
  BY LengthsAssumption DEF Keys, Kinds, KeyOf, TTLOf, MaxTTL, Longer, Lengths

\* Keeping a response adds one entry to the worker's memory, and no other.
LEMMA KeepAdds ==
  ASSUME TypeOK, NEW w \in Workers, NEW e \in Responses, Keep(w, e)
  PROVE  /\ imc' \in [Workers -> Cache]
         /\ \A v \in Workers, k \in Keys : \A x \in imc'[v][k] :
               \/ x \in imc[v][k]
               \/ v = w /\ k = Key(w)
                  /\ x = [stored |-> now, made |-> e.made, has |-> e.has]
  <1>n. [stored |-> now, made |-> e.made, has |-> e.has] \in Entries
    BY DEF TypeOK, Responses, Entries
  <1>1. CASE UNCHANGED imc
    BY <1>1 DEF TypeOK
  <1>2. ASSUME NEW c \in With(imc[w], ImcEntries, Key(w), e), imc' = [imc EXCEPT ![w] = c]
        PROVE  /\ imc' \in [Workers -> Cache]
               /\ \A v \in Workers, k \in Keys : \A x \in imc'[v][k] :
                     \/ x \in imc[v][k]
                     \/ v = w /\ k = Key(w)
                        /\ x = [stored |-> now, made |-> e.made, has |-> e.has]
    <2>1. /\ c \in Cache
          /\ \A k \in Keys : \A x \in c[k] :
                \/ x \in imc[w][k]
                \/ k = Key(w) /\ x = [stored |-> now, made |-> e.made, has |-> e.has]
      <3>1. PICK kept \in Kept(imc[w], ImcEntries) :
               c = [k \in Keys |->
                      IF k = Key(w) THEN {[stored |-> now, made |-> e.made, has |-> e.has]}
                      ELSE IF k \in kept THEN imc[w][k] ELSE {}]
        BY <1>2 DEF With
      <3> QED
        BY <3>1, <1>n DEF Cache, TypeOK
    <2> QED
      BY <1>2, <2>1 DEF TypeOK
  <1> QED
    BY <1>1, <1>2 DEF Keep

\* Nothing is cached at first.
LEMMA Initial == Init => IInv
  <1> SUFFICES ASSUME Init PROVE IInv
    OBVIOUS
  <1>1. TypeOK
    <2>1. Empty \in Cache
      BY DEF Empty, Cache
    <2>2. 0 \in Times /\ NoResponse \in Responses
      BY LengthsAssumption DEF Times, NoResponse, Responses, Lengths
    <2>3. 0 \in 0 .. MaxTime + CookieLife
      BY LengthsAssumption, CookieOutlives DEF Lengths
    <2> QED
      BY <2>1, <2>2, <2>3 DEF Init, TypeOK, Kinds
  <1>2. BfcAges /\ ImcAges /\ RespAges /\ CookieSpent /\ AgeBounded /\ PosterSees
    BY DEF Init, BfcAges, ImcAges, RespAges, CookieSpent, AgeBounded, PosterSees, Empty, Keys
  <1> QED
    BY <1>1, <1>2 DEF IInv

\* Tick: a page being made keeps within GenMax; the rest ages with the clock.
LEMMA TickKeeps ==
  ASSUME IInv, Tick
  PROVE  IInv'
  <1>t. TypeOK
    BY DEF IInv
  <1>n. /\ {ImcTTL, BfcTTL, AtomTTL, NocondTTL, Slack, GenMax, MaxTime} \subseteq Nat
        /\ CookieLife \in Nat
        /\ CookieLife > ImcTTL + BfcTTL + GenMax
    BY LengthsAssumption, CookieOutlives DEF Lengths
  <1>1. TypeOK'
    BY <1>t, <1>n, TTLs
       DEF TypeOK, Times, Responses, Entries, Cache, Key, Tick, postVars
  <1>2. BfcAges'
    BY <1>t, <1>n, TTLs
       DEF IInv, TypeOK, Times, Responses, Entries, Cache, BfcAges, Older,
           RespAges, CookieSpent, Key, Tick, postVars
  <1>3. ImcAges'
    BY <1>t, <1>n, TTLs
       DEF IInv, TypeOK, Times, Responses, Entries, Cache, ImcAges, Older,
           BfcAges, RespAges, CookieSpent, Key, Tick, postVars
  <1>4. RespAges'
    BY <1>t, <1>n, TTLs
       DEF IInv, TypeOK, Times, Responses, Entries, Cache, RespAges, Older,
           ImcAges, BfcAges, CookieSpent, Key, Tick, postVars
  <1>5. CookieSpent'
    BY <1>t, <1>n, TTLs
       DEF IInv, TypeOK, Times, Responses, Entries, Cache, CookieSpent, Tick,
           postVars
  <1>6. AgeBounded'
    BY <1>t, <1>n, TTLs
       DEF IInv, TypeOK, Times, Responses, Entries, Cache, AgeBounded, Age,
           RespAges, ImcAges, BfcAges, Key, Tick, postVars
  <1>7. PosterSees'
    BY <1>t, <1>n, TTLs
       DEF IInv, TypeOK, Times, Responses, Entries, Cache, PosterSees,
           CookieSpent, Older, RespAges, ImcAges, BfcAges, Key, KeyOf, MaxTTL,
           TTLOf, Tick, postVars
  <1> QED
    BY <1>1, <1>2, <1>3, <1>4, <1>5, <1>6, <1>7 DEF IInv

\* Post(w): the comment is in the store.
LEMMA PostKeeps ==
  ASSUME IInv, NEW w \in Workers, Post(w)
  PROVE  IInv'
  <1>t. TypeOK
    BY DEF IInv
  <1>n. /\ {ImcTTL, BfcTTL, AtomTTL, NocondTTL, Slack, GenMax, MaxTime} \subseteq Nat
        /\ CookieLife \in Nat
        /\ CookieLife > ImcTTL + BfcTTL + GenMax
    BY LengthsAssumption, CookieOutlives DEF Lengths
  <1>1. TypeOK'
    BY <1>t, <1>n, TTLs
       DEF TypeOK, Times, Responses, Entries, Cache, Key, Post, Go, postVars
  <1>2. BfcAges'
    BY <1>t, <1>n, TTLs
       DEF IInv, TypeOK, Times, Responses, Entries, Cache, BfcAges, Older,
           RespAges, CookieSpent, Key, Post, Go, postVars
  <1>3. ImcAges'
    BY <1>t, <1>n, TTLs
       DEF IInv, TypeOK, Times, Responses, Entries, Cache, ImcAges, Older,
           BfcAges, RespAges, CookieSpent, Key, Post, Go, postVars
  <1>4. RespAges'
    BY <1>t, <1>n, TTLs
       DEF IInv, TypeOK, Times, Responses, Entries, Cache, RespAges, Older,
           ImcAges, BfcAges, CookieSpent, Key, Post, Go, postVars
  <1>5. CookieSpent'
    BY <1>t, <1>n, TTLs
       DEF IInv, TypeOK, Times, Responses, Entries, Cache, CookieSpent, Post,
           Go, postVars
  <1>6. AgeBounded'
    BY <1>t, <1>n, TTLs
       DEF IInv, TypeOK, Times, Responses, Entries, Cache, AgeBounded, Age,
           RespAges, ImcAges, BfcAges, Key, Post, Go, postVars
  <1>7. PosterSees'
    BY <1>t, <1>n, TTLs
       DEF IInv, TypeOK, Times, Responses, Entries, Cache, PosterSees,
           CookieSpent, Older, RespAges, ImcAges, BfcAges, Key, KeyOf, MaxTTL,
           TTLOf, Post, Go, postVars
  <1> QED
    BY <1>1, <1>2, <1>3, <1>4, <1>5, <1>6, <1>7 DEF IInv

\* PostAnswered(w): all there is was begun by now, when the cookie's life begins.
LEMMA PostAnsweredKeeps ==
  ASSUME IInv, NEW w \in Workers, PostAnswered(w)
  PROVE  IInv'
  <1>t. TypeOK
    BY DEF IInv
  <1>n. /\ {ImcTTL, BfcTTL, AtomTTL, NocondTTL, Slack, GenMax, MaxTime} \subseteq Nat
        /\ CookieLife \in Nat
        /\ CookieLife > ImcTTL + BfcTTL + GenMax
    BY LengthsAssumption, CookieOutlives DEF Lengths
  <1>1. TypeOK'
    BY <1>t, <1>n, TTLs
       DEF TypeOK, Times, Responses, Entries, Cache, Key, PostAnswered, Go,
           Empty, postVars
  <1>2. BfcAges'
    BY <1>t, <1>n, TTLs
       DEF IInv, TypeOK, Times, Responses, Entries, Cache, BfcAges, Older,
           RespAges, CookieSpent, Key, PostAnswered, Go, Empty, postVars
  <1>3. ImcAges'
    BY <1>t, <1>n, TTLs
       DEF IInv, TypeOK, Times, Responses, Entries, Cache, ImcAges, Older,
           BfcAges, RespAges, CookieSpent, Key, PostAnswered, Go, Empty, postVars
  <1>4. RespAges'
    BY <1>t, <1>n, TTLs
       DEF IInv, TypeOK, Times, Responses, Entries, Cache, RespAges, Older,
           ImcAges, BfcAges, CookieSpent, Key, PostAnswered, Go, Empty, postVars
  <1>5. CookieSpent'
    BY <1>t, <1>n, TTLs
       DEF IInv, TypeOK, Times, Responses, Entries, Cache, CookieSpent,
           PostAnswered, Go, Empty, postVars
  <1>6. AgeBounded'
    BY <1>t, <1>n, TTLs
       DEF IInv, TypeOK, Times, Responses, Entries, Cache, AgeBounded, Age,
           RespAges, ImcAges, BfcAges, Key, PostAnswered, Go, Empty, postVars
  <1>7. PosterSees'
    BY <1>t, <1>n, TTLs
       DEF IInv, TypeOK, Times, Responses, Entries, Cache, PosterSees,
           CookieSpent, Older, RespAges, ImcAges, BfcAges, Key, KeyOf, MaxTTL,
           TTLOf, PostAnswered, Go, Empty, postVars
  <1> QED
    BY <1>1, <1>2, <1>3, <1>4, <1>5, <1>6, <1>7 DEF IInv

\* GetPast(w, c): a page made now has the comment.
LEMMA GetPastKeeps ==
  ASSUME IInv, NEW w \in Workers, NEW c \in Kinds, GetPast(w, c)
  PROVE  IInv'
  <1>t. TypeOK
    BY DEF IInv
  <1>n. /\ {ImcTTL, BfcTTL, AtomTTL, NocondTTL, Slack, GenMax, MaxTime} \subseteq Nat
        /\ CookieLife \in Nat
        /\ CookieLife > ImcTTL + BfcTTL + GenMax
    BY LengthsAssumption, CookieOutlives DEF Lengths
  <1>1. TypeOK'
    BY <1>t, <1>n, TTLs
       DEF TypeOK, Times, Responses, Entries, Cache, Key, GetPast, Go,
           HasResponse, postVars
  <1>2. BfcAges'
    BY <1>t, <1>n, TTLs
       DEF IInv, TypeOK, Times, Responses, Entries, Cache, BfcAges, Older,
           RespAges, CookieSpent, Key, GetPast, Go, HasResponse, postVars
  <1>3. ImcAges'
    BY <1>t, <1>n, TTLs
       DEF IInv, TypeOK, Times, Responses, Entries, Cache, ImcAges, Older,
           BfcAges, RespAges, CookieSpent, Key, GetPast, Go, HasResponse,
           postVars
  <1>4. RespAges'
    BY <1>t, <1>n, TTLs
       DEF IInv, TypeOK, Times, Responses, Entries, Cache, RespAges, Older,
           ImcAges, BfcAges, CookieSpent, Key, GetPast, Go, HasResponse, postVars
  <1>5. CookieSpent'
    BY <1>t, <1>n, TTLs
       DEF IInv, TypeOK, Times, Responses, Entries, Cache, CookieSpent,
           GetPast, Go, HasResponse, postVars
  <1>6. AgeBounded'
    BY <1>t, <1>n, TTLs
       DEF IInv, TypeOK, Times, Responses, Entries, Cache, AgeBounded, Age,
           RespAges, ImcAges, BfcAges, Key, GetPast, Go, HasResponse, postVars
  <1>7. PosterSees'
    BY <1>t, <1>n, TTLs
       DEF IInv, TypeOK, Times, Responses, Entries, Cache, PosterSees,
           CookieSpent, Older, RespAges, ImcAges, BfcAges, Key, KeyOf, MaxTTL,
           TTLOf, GetPast, Go, HasResponse, postVars
  <1> QED
    BY <1>1, <1>2, <1>3, <1>4, <1>5, <1>6, <1>7 DEF IInv

\* Get(w, c, mine): an entry of the worker's memory ages by ImcTTL at most.
LEMMA GetKeeps ==
  ASSUME IInv,
         NEW w \in Workers, NEW c \in Kinds, NEW mine \in BOOLEAN, Get(w, c, mine)
  PROVE  IInv'
  <1>t. TypeOK
    BY DEF IInv
  <1>n. /\ {ImcTTL, BfcTTL, AtomTTL, NocondTTL, Slack, GenMax, MaxTime} \subseteq Nat
        /\ CookieLife \in Nat
        /\ CookieLife > ImcTTL + BfcTTL + GenMax
    BY LengthsAssumption, CookieOutlives DEF Lengths
  <1>c. KeyOf(c) \in Keys /\ imc[w] \in Cache
    BY <1>t, TTLs DEF TypeOK
  <1>m. /\ imc' \in [Workers -> Cache]
        /\ \A v \in Workers, k \in Keys : imc'[v][k] \subseteq imc[v][k]
    <2>1. CASE UNCHANGED imc
      BY <2>1, <1>t DEF TypeOK
    <2>2. CASE imc' = [imc EXCEPT ![w][KeyOf(c)] = {}]
      <3>1. [imc[w] EXCEPT ![KeyOf(c)] = {}] \in Cache
        BY <1>c DEF Cache
      <3> QED
        BY <2>2, <3>1, <1>c, <1>t DEF TypeOK, Cache
    <2> QED
      BY <2>1, <2>2 DEF Get
  <1>p. \/ /\ resp' = resp
           /\ pc' = [pc EXCEPT ![w] = "bfc"]
        \/ /\ pc' = [pc EXCEPT ![w] = "served"]
           /\ \E e \in imc[w][KeyOf(c)] :
                 /\ e \in Entries
                 /\ e.stored + ImcTTL >= now
                 /\ resp' = [resp EXCEPT ![w] = [made |-> e.made, has |-> e.has]]
    BY <1>t, <1>c DEF Get, Go, HasResponse, Live, TypeOK, Cache
  <1>r. resp' \in [Workers -> Responses]
    <2>1. ASSUME NEW e \in Entries
          PROVE  [made |-> e.made, has |-> e.has] \in Responses
      BY DEF Entries, Responses
    <2> QED
      BY <1>t, <1>p, <2>1 DEF TypeOK
  <1>1. TypeOK'
    BY <1>t, <1>m, <1>p, <1>r DEF TypeOK, Get, postVars
  <1>2. BfcAges'
    BY <1>t, <1>n, <1>c, <1>m, <1>p, TTLs
       DEF IInv, TypeOK, Times, Responses, Entries, Cache, BfcAges, Older,
           RespAges, CookieSpent, Key, Get, Go, HasResponse, Live, postVars
  <1>3. ImcAges'
    BY <1>t, <1>n, <1>c, <1>m, <1>p, TTLs
       DEF IInv, TypeOK, Times, Responses, Entries, Cache, ImcAges, Older,
           BfcAges, RespAges, CookieSpent, Key, Get, Go, HasResponse, Live,
           postVars
  <1>4. RespAges'
    BY <1>t, <1>n, <1>c, <1>m, <1>p, TTLs
       DEF IInv, TypeOK, Times, Responses, Entries, Cache, RespAges, Older,
           ImcAges, BfcAges, CookieSpent, Key, Get, Go, HasResponse, Live,
           postVars
  <1>5. CookieSpent'
    BY <1>t, <1>n, <1>c, <1>m, <1>p, TTLs
       DEF IInv, TypeOK, Times, Responses, Entries, Cache, CookieSpent, Get,
           Go, HasResponse, Live, postVars
  <1>6. AgeBounded'
    BY <1>t, <1>n, <1>c, <1>m, <1>p, TTLs
       DEF IInv, TypeOK, Times, Responses, Entries, Cache, AgeBounded, Age,
           RespAges, ImcAges, BfcAges, Key, Get, Go, HasResponse, Live, postVars
  <1>7. PosterSees'
    BY <1>t, <1>n, <1>c, <1>m, <1>p, TTLs
       DEF IInv, TypeOK, Times, Responses, Entries, Cache, PosterSees,
           CookieSpent, Older, RespAges, ImcAges, BfcAges, Key, KeyOf, MaxTTL,
           TTLOf, Get, Go, HasResponse, Live, postVars
  <1> QED
    BY <1>1, <1>2, <1>3, <1>4, <1>5, <1>6, <1>7 DEF IInv

\* Static(w): a file read now is new.
LEMMA StaticKeeps ==
  ASSUME IInv, NEW w \in Workers, Static(w)
  PROVE  IInv'
  <1>t. TypeOK
    BY DEF IInv
  <1>n. /\ {ImcTTL, BfcTTL, AtomTTL, NocondTTL, Slack, GenMax, MaxTime} \subseteq Nat
        /\ CookieLife \in Nat
        /\ CookieLife > ImcTTL + BfcTTL + GenMax
    BY LengthsAssumption, CookieOutlives DEF Lengths
  <1>r. [made |-> now, has |-> posted] \in Responses
    BY <1>t DEF TypeOK, Responses
  <1>k. /\ imc' \in [Workers -> Cache]
        /\ \A v \in Workers, k \in Keys : \A x \in imc'[v][k] :
              \/ x \in imc[v][k]
              \/ v = w /\ k = Key(w)
                 /\ x = [stored |-> now, made |-> now, has |-> posted]
    BY <1>t, <1>r, KeepAdds DEF Static
  <1>1. TypeOK'
    BY <1>t, <1>n, <1>k, TTLs
       DEF TypeOK, Times, Responses, Entries, Cache, Key, Static, Go,
           HasResponse, postVars
  <1>2. BfcAges'
    BY <1>t, <1>n, <1>k, TTLs
       DEF IInv, TypeOK, Times, Responses, Entries, Cache, BfcAges, Older,
           RespAges, CookieSpent, Key, Static, Go, HasResponse, postVars
  <1>3. ImcAges'
    BY <1>t, <1>n, <1>k, TTLs
       DEF IInv, TypeOK, Times, Responses, Entries, Cache, ImcAges, Older,
           BfcAges, RespAges, CookieSpent, Key, Static, Go, HasResponse, postVars
  <1>4. RespAges'
    BY <1>t, <1>n, <1>k, TTLs
       DEF IInv, TypeOK, Times, Responses, Entries, Cache, RespAges, Older,
           ImcAges, BfcAges, CookieSpent, Key, Static, Go, HasResponse, postVars
  <1>5. CookieSpent'
    BY <1>t, <1>n, <1>k, TTLs
       DEF IInv, TypeOK, Times, Responses, Entries, Cache, CookieSpent,
           Static, Go, HasResponse, postVars
  <1>6. AgeBounded'
    BY <1>t, <1>n, <1>k, TTLs
       DEF IInv, TypeOK, Times, Responses, Entries, Cache, AgeBounded, Age,
           RespAges, ImcAges, BfcAges, Key, Static, Go, HasResponse, postVars
  <1>7. PosterSees'
    BY <1>t, <1>n, <1>k, TTLs
       DEF IInv, TypeOK, Times, Responses, Entries, Cache, PosterSees,
           CookieSpent, Older, RespAges, ImcAges, BfcAges, Key, KeyOf, MaxTTL,
           TTLOf, Static, Go, HasResponse, postVars
  <1> QED
    BY <1>1, <1>2, <1>3, <1>4, <1>5, <1>6, <1>7 DEF IInv

\* BfcHit(w): an entry on the disk ages by the asker's TTL at most.
LEMMA BfcHitKeeps ==
  ASSUME IInv, NEW w \in Workers, BfcHit(w)
  PROVE  IInv'
  <1>t. TypeOK
    BY DEF IInv
  <1>n. /\ {ImcTTL, BfcTTL, AtomTTL, NocondTTL, Slack, GenMax, MaxTime} \subseteq Nat
        /\ CookieLife \in Nat
        /\ CookieLife > ImcTTL + BfcTTL + GenMax
    BY LengthsAssumption, CookieOutlives DEF Lengths
  <1>e. PICK e \in bfc[Key(w)] :
               /\ Usable(w, e)
               /\ HasResponse(w, e)
               /\ Keep(w, e)
    BY DEF BfcHit
  <1>f. e \in Entries /\ e.stored + TTLOf(kind[w]) >= now /\ kind[w] # "static"
    BY <1>t, <1>e, TTLs DEF TypeOK, Cache, Key, Usable, Live, BfcHit
  <1>r. [made |-> e.made, has |-> e.has] \in Responses
    BY <1>f DEF Entries, Responses
  <1>w. Keep(w, [made |-> e.made, has |-> e.has])
    BY <1>e DEF Keep, With
  <1>k. /\ imc' \in [Workers -> Cache]
        /\ \A v \in Workers, k \in Keys : \A x \in imc'[v][k] :
              \/ x \in imc[v][k]
              \/ v = w /\ k = Key(w)
                 /\ x = [stored |-> now, made |-> e.made, has |-> e.has]
    BY <1>t, <1>r, <1>w, KeepAdds
  <1>1. TypeOK'
    BY <1>t, <1>n, <1>k, <1>e, <1>f, TTLs
       DEF TypeOK, Times, Responses, Entries, Cache, Key, BfcHit, Go,
           HasResponse, Live, Usable, postVars
  <1>2. BfcAges'
    BY <1>t, <1>n, <1>k, <1>e, <1>f, TTLs
       DEF IInv, TypeOK, Times, Responses, Entries, Cache, BfcAges, Older,
           RespAges, CookieSpent, Key, BfcHit, Go, HasResponse, Live, Usable,
           postVars
  <1>3. ImcAges'
    BY <1>t, <1>n, <1>k, <1>e, <1>f, TTLs
       DEF IInv, TypeOK, Times, Responses, Entries, Cache, ImcAges, Older,
           BfcAges, RespAges, CookieSpent, Key, BfcHit, Go, HasResponse, Live,
           Usable, postVars
  <1>4. RespAges'
    BY <1>t, <1>n, <1>k, <1>e, <1>f, TTLs
       DEF IInv, TypeOK, Times, Responses, Entries, Cache, RespAges, Older,
           ImcAges, BfcAges, CookieSpent, Key, BfcHit, Go, HasResponse, Live,
           Usable, postVars
  <1>5. CookieSpent'
    BY <1>t, <1>n, <1>k, <1>e, <1>f, TTLs
       DEF IInv, TypeOK, Times, Responses, Entries, Cache, CookieSpent,
           BfcHit, Go, HasResponse, Live, Usable, postVars
  <1>6. AgeBounded'
    BY <1>t, <1>n, <1>k, <1>e, <1>f, TTLs
       DEF IInv, TypeOK, Times, Responses, Entries, Cache, AgeBounded, Age,
           RespAges, ImcAges, BfcAges, Key, BfcHit, Go, HasResponse, Live,
           Usable, postVars
  <1>7. PosterSees'
    BY <1>t, <1>n, <1>k, <1>e, <1>f, TTLs
       DEF IInv, TypeOK, Times, Responses, Entries, Cache, PosterSees,
           CookieSpent, Older, RespAges, ImcAges, BfcAges, Key, KeyOf, MaxTTL,
           TTLOf, BfcHit, Go, HasResponse, Live, Usable, postVars
  <1> QED
    BY <1>1, <1>2, <1>3, <1>4, <1>5, <1>6, <1>7 DEF IInv

\* BfcMiss(w): the page begins to be made.
LEMMA BfcMissKeeps ==
  ASSUME IInv, NEW w \in Workers, BfcMiss(w)
  PROVE  IInv'
  <1>t. TypeOK
    BY DEF IInv
  <1>n. /\ {ImcTTL, BfcTTL, AtomTTL, NocondTTL, Slack, GenMax, MaxTime} \subseteq Nat
        /\ CookieLife \in Nat
        /\ CookieLife > ImcTTL + BfcTTL + GenMax
    BY LengthsAssumption, CookieOutlives DEF Lengths
  <1>1. TypeOK'
    BY <1>t, <1>n, TTLs
       DEF TypeOK, Times, Responses, Entries, Cache, Key, BfcMiss, Go,
           HasResponse, postVars
  <1>2. BfcAges'
    BY <1>t, <1>n, TTLs
       DEF IInv, TypeOK, Times, Responses, Entries, Cache, BfcAges, Older,
           RespAges, CookieSpent, Key, BfcMiss, Go, HasResponse, postVars
  <1>3. ImcAges'
    BY <1>t, <1>n, TTLs
       DEF IInv, TypeOK, Times, Responses, Entries, Cache, ImcAges, Older,
           BfcAges, RespAges, CookieSpent, Key, BfcMiss, Go, HasResponse,
           postVars
  <1>4. RespAges'
    BY <1>t, <1>n, TTLs
       DEF IInv, TypeOK, Times, Responses, Entries, Cache, RespAges, Older,
           ImcAges, BfcAges, CookieSpent, Key, BfcMiss, Go, HasResponse, postVars
  <1>5. CookieSpent'
    BY <1>t, <1>n, TTLs
       DEF IInv, TypeOK, Times, Responses, Entries, Cache, CookieSpent,
           BfcMiss, Go, HasResponse, postVars
  <1>6. AgeBounded'
    BY <1>t, <1>n, TTLs
       DEF IInv, TypeOK, Times, Responses, Entries, Cache, AgeBounded, Age,
           RespAges, ImcAges, BfcAges, Key, BfcMiss, Go, HasResponse, postVars
  <1>7. PosterSees'
    BY <1>t, <1>n, TTLs
       DEF IInv, TypeOK, Times, Responses, Entries, Cache, PosterSees,
           CookieSpent, Older, RespAges, ImcAges, BfcAges, Key, KeyOf, MaxTTL,
           TTLOf, BfcMiss, Go, HasResponse, postVars
  <1> QED
    BY <1>1, <1>2, <1>3, <1>4, <1>5, <1>6, <1>7 DEF IInv

\* Made(w): the page took GenMax at most.
LEMMA MadeKeeps ==
  ASSUME IInv, NEW w \in Workers, Made(w)
  PROVE  IInv'
  <1>t. TypeOK
    BY DEF IInv
  <1>n. /\ {ImcTTL, BfcTTL, AtomTTL, NocondTTL, Slack, GenMax, MaxTime} \subseteq Nat
        /\ CookieLife \in Nat
        /\ CookieLife > ImcTTL + BfcTTL + GenMax
    BY LengthsAssumption, CookieOutlives DEF Lengths
  <1>r. resp[w] \in Responses
    BY <1>t DEF TypeOK, Responses
  <1>k. /\ imc' \in [Workers -> Cache]
        /\ \A v \in Workers, k \in Keys : \A x \in imc'[v][k] :
              \/ x \in imc[v][k]
              \/ v = w /\ k = Key(w)
                 /\ x = [stored |-> now, made |-> resp[w].made, has |-> resp[w].has]
    BY <1>t, <1>r, KeepAdds DEF Made
  <1>b. /\ bfc' \in Cache
        /\ \A k \in Keys : \A x \in bfc'[k] :
              \/ x \in bfc[k]
              \/ k = Key(w)
                 /\ x = [stored |-> now, made |-> resp[w].made, has |-> resp[w].has]
    <2>1. [stored |-> now, made |-> resp[w].made, has |-> resp[w].has] \in Entries
      BY <1>t DEF TypeOK, Responses, Entries
    <2>2. CASE bfc' = bfc
      BY <2>2, <1>t DEF TypeOK
    <2>3. CASE bfc' = [bfc EXCEPT ![Key(w)] =
                 {[stored |-> now, made |-> resp[w].made, has |-> resp[w].has]}]
      BY <2>1, <2>3, <1>t DEF TypeOK, Cache
    <2> QED
      BY <2>2, <2>3 DEF Made
  <1>1. TypeOK'
    BY <1>t, <1>n, <1>b, <1>k, TTLs
       DEF TypeOK, Times, Responses, Entries, Cache, Key, Made, Go, postVars
  <1>2. BfcAges'
    BY <1>t, <1>n, <1>b, <1>k, TTLs
       DEF IInv, TypeOK, Times, Responses, Entries, Cache, BfcAges, Older,
           RespAges, CookieSpent, Key, Made, Go, postVars
  <1>3. ImcAges'
    BY <1>t, <1>n, <1>b, <1>k, TTLs
       DEF IInv, TypeOK, Times, Responses, Entries, Cache, ImcAges, Older,
           BfcAges, RespAges, CookieSpent, Key, Made, Go, postVars
  <1>4. RespAges'
    BY <1>t, <1>n, <1>b, <1>k, TTLs
       DEF IInv, TypeOK, Times, Responses, Entries, Cache, RespAges, Older,
           ImcAges, BfcAges, CookieSpent, Key, Made, Go, postVars
  <1>5. CookieSpent'
    BY <1>t, <1>n, <1>b, <1>k, TTLs
       DEF IInv, TypeOK, Times, Responses, Entries, Cache, CookieSpent, Made,
           Go, postVars
  <1>6. AgeBounded'
    BY <1>t, <1>n, <1>b, <1>k, TTLs
       DEF IInv, TypeOK, Times, Responses, Entries, Cache, AgeBounded, Age,
           RespAges, ImcAges, BfcAges, Key, Made, Go, postVars
  <1>7. PosterSees'
    BY <1>t, <1>n, <1>b, <1>k, TTLs
       DEF IInv, TypeOK, Times, Responses, Entries, Cache, PosterSees,
           CookieSpent, Older, RespAges, ImcAges, BfcAges, Key, KeyOf, MaxTTL,
           TTLOf, Made, Go, postVars
  <1> QED
    BY <1>1, <1>2, <1>3, <1>4, <1>5, <1>6, <1>7 DEF IInv

\* End(w): the response is gone, the caches stay.
LEMMA EndKeeps ==
  ASSUME IInv, NEW w \in Workers, End(w)
  PROVE  IInv'
  <1>t. TypeOK
    BY DEF IInv
  <1>n. /\ {ImcTTL, BfcTTL, AtomTTL, NocondTTL, Slack, GenMax, MaxTime} \subseteq Nat
        /\ CookieLife \in Nat
        /\ CookieLife > ImcTTL + BfcTTL + GenMax
    BY LengthsAssumption, CookieOutlives DEF Lengths
  <1>r. NoResponse \in Responses
    BY <1>n DEF NoResponse, Responses, Times
  <1>1. TypeOK'
    BY <1>t, <1>n, <1>r, TTLs
       DEF TypeOK, Times, Responses, Entries, Cache, Key, End, Go, Kinds,
           postVars
  <1>2. BfcAges'
    BY <1>t, <1>n, <1>r, TTLs
       DEF IInv, TypeOK, Times, Responses, Entries, Cache, BfcAges, Older,
           RespAges, CookieSpent, Key, End, Go, Kinds, postVars
  <1>3. ImcAges'
    BY <1>t, <1>n, <1>r, TTLs
       DEF IInv, TypeOK, Times, Responses, Entries, Cache, ImcAges, Older,
           BfcAges, RespAges, CookieSpent, Key, End, Go, Kinds, postVars
  <1>4. RespAges'
    BY <1>t, <1>n, <1>r, TTLs
       DEF IInv, TypeOK, Times, Responses, Entries, Cache, RespAges, Older,
           ImcAges, BfcAges, CookieSpent, Key, End, Go, Kinds, postVars
  <1>5. CookieSpent'
    BY <1>t, <1>n, <1>r, TTLs
       DEF IInv, TypeOK, Times, Responses, Entries, Cache, CookieSpent, End,
           Go, Kinds, postVars
  <1>6. AgeBounded'
    BY <1>t, <1>n, <1>r, TTLs
       DEF IInv, TypeOK, Times, Responses, Entries, Cache, AgeBounded, Age,
           RespAges, ImcAges, BfcAges, Key, End, Go, Kinds, postVars
  <1>7. PosterSees'
    BY <1>t, <1>n, <1>r, TTLs
       DEF IInv, TypeOK, Times, Responses, Entries, Cache, PosterSees,
           CookieSpent, Older, RespAges, ImcAges, BfcAges, Key, KeyOf, MaxTTL,
           TTLOf, End, Go, Kinds, postVars
  <1> QED
    BY <1>1, <1>2, <1>3, <1>4, <1>5, <1>6, <1>7 DEF IInv

\* Every step of the caches keeps the invariant.
LEMMA Inductive ==
  ASSUME IInv, [Next]_vars
  PROVE  IInv'
  <1>1. CASE UNCHANGED vars
    BY <1>1 DEF vars, IInv, TypeOK, BfcAges, ImcAges, RespAges, CookieSpent,
                AgeBounded, PosterSees, Older, Age, Key
  <1>2. CASE Tick
    BY <1>2, TickKeeps
  <1>3. ASSUME NEW w \in Workers, Post(w) \/ PostAnswered(w)
        PROVE  IInv'
    BY <1>3, PostKeeps, PostAnsweredKeeps
  <1>4. ASSUME NEW w \in Workers, NEW c \in Asked, GetPast(w, c)
        PROVE  IInv'
    BY <1>4, AskedAssumption, GetPastKeeps
  <1>5. ASSUME NEW w \in Workers, NEW c \in Asked, NEW mine \in BOOLEAN, Get(w, c, mine)
        PROVE  IInv'
    BY <1>5, AskedAssumption, GetKeeps
  <1>6. ASSUME NEW w \in Workers,
               Static(w) \/ BfcHit(w) \/ BfcMiss(w) \/ Made(w) \/ End(w)
        PROVE  IInv'
    BY <1>6, StaticKeeps, BfcHitKeeps, BfcMissKeeps, MadeKeeps, EndKeeps
  <1> QED
    BY <1>1, <1>2, <1>3, <1>4, <1>5, <1>6 DEF Next

\* What is in a worker's memory is of finitely many keys, and fewer pages are fewer.
LEMMA FewerPages ==
  ASSUME NEW c, NEW d, Full(c) \subseteq Full(d)
  PROVE  /\ IsFiniteSet(Full(d))
         /\ Cardinality(Full(d)) \in Nat
         /\ Cardinality(Full(c)) \in Nat
         /\ Cardinality(Full(c)) <= Cardinality(Full(d))
  <1>1. IsFiniteSet({"page"})
    BY FS_Singleton
  <1>2. IsFiniteSet({"page"} \cup {"feed"})
    BY <1>1, FS_AddElement
  <1>3. IsFiniteSet({"page"} \cup {"feed"} \cup {"static"})
    BY <1>2, FS_AddElement
  <1>4. IsFiniteSet(Keys) /\ Full(d) \subseteq Keys /\ Full(c) \subseteq Keys
    <2>1. Keys = {"page"} \cup {"feed"} \cup {"static"}
      BY DEF Keys
    <2> QED
      BY <1>3, <2>1 DEF Full
  <1>5. IsFiniteSet(Full(d)) /\ IsFiniteSet(Full(c))
    BY <1>4, FS_Subset
  <1> QED
    BY <1>5, FS_Subset, FS_CardinalityType

\* Purging makes room for one page, and one is put in.
LEMMA PurgeMakesRoom ==
  ASSUME NEW c, NEW key \in Keys, NEW e, NEW d \in With(c, ImcEntries, key, e)
  PROVE  Cardinality(Full(d)) <= ImcEntries
  <1>1. PICK kept \in Kept(c, ImcEntries) :
           d = [k \in Keys |->
                  IF k = key THEN {[stored |-> now, made |-> e.made, has |-> e.has]}
                  ELSE IF k \in kept THEN c[k] ELSE {}]
    BY DEF With
  <1>2. IsFiniteSet(Full(c)) /\ Cardinality(Full(c)) \in Nat
    BY FewerPages
  <1>3. kept \subseteq Full(c) /\ Cardinality(kept) <= ImcEntries - 1
    BY <1>2, EntriesAssumption DEF Kept
  <1>4. IsFiniteSet(kept) /\ Cardinality(kept) \in Nat
    BY <1>2, <1>3, FS_Subset, FS_CardinalityType
  <1>5. /\ IsFiniteSet(kept \cup {key})
        /\ Cardinality(kept \cup {key}) \in Nat
        /\ Cardinality(kept \cup {key}) <= Cardinality(kept) + 1
    <2>1. /\ IsFiniteSet(kept \cup {key})
          /\ Cardinality(kept \cup {key}) = IF key \in kept THEN Cardinality(kept) ELSE Cardinality(kept) + 1
      BY <1>4, FS_AddElement
    <2> QED
      BY <1>4, <2>1
  <1>6. Full(d) \subseteq kept \cup {key}
    BY <1>1 DEF Full
  <1>7. Cardinality(Full(d)) \in Nat /\ Cardinality(Full(d)) <= Cardinality(kept \cup {key})
    BY <1>5, <1>6, FS_Subset, FS_CardinalityType
  <1> QED
    BY <1>3, <1>4, <1>5, <1>7, EntriesAssumption

LEMMA KeepBounds ==
  ASSUME TypeOK, ImcBounded, NEW w \in Workers, NEW e, Keep(w, e)
  PROVE  ImcBounded'
  <1>1. CASE UNCHANGED imc
    BY <1>1 DEF ImcBounded
  <1>2. ASSUME NEW c \in With(imc[w], ImcEntries, Key(w), e), imc' = [imc EXCEPT ![w] = c]
        PROVE  ImcBounded'
    <2>1. Key(w) \in Keys
      BY TTLs DEF TypeOK, Key
    <2>2. Cardinality(Full(c)) <= ImcEntries
      BY <2>1, PurgeMakesRoom
    <2> QED
      BY <1>2, <2>2 DEF ImcBounded, TypeOK
  <1> QED
    BY <1>1, <1>2 DEF Keep

\* A memory that is emptied, wholly or of one key, holds no more than before.
LEMMA EmptyingBounds ==
  ASSUME TypeOK, ImcBounded, NEW w \in Workers, NEW c, Full(c) \subseteq Full(imc[w]),
         imc' = [imc EXCEPT ![w] = c]
  PROVE  ImcBounded'
  <1>1. /\ Cardinality(Full(imc[w])) <= ImcEntries
        /\ Cardinality(Full(imc[w])) \in Nat
        /\ Cardinality(Full(c)) \in Nat
        /\ Cardinality(Full(c)) <= Cardinality(Full(imc[w]))
    BY FewerPages DEF ImcBounded
  <1>2. Cardinality(Full(c)) <= ImcEntries
    BY <1>1, EntriesAssumption
  <1> QED
    BY <1>2 DEF ImcBounded, TypeOK

LEMMA BoundKept ==
  ASSUME TypeOK, ImcBounded, [Next]_vars
  PROVE  ImcBounded'
  <1>1. CASE UNCHANGED imc
    BY <1>1 DEF ImcBounded
  <1>2. ASSUME NEW w \in Workers, PostAnswered(w)
        PROVE  ImcBounded'
    <2>1. Full(Empty) \subseteq Full(imc[w])
      BY DEF Full, Empty
    <2> QED
      BY <1>2, <2>1, EmptyingBounds DEF PostAnswered
  <1>3. ASSUME NEW w \in Workers, NEW c \in Asked, NEW mine \in BOOLEAN, Get(w, c, mine)
        PROVE  ImcBounded'
    <2>1. CASE imc' = [imc EXCEPT ![w][KeyOf(c)] = {}]
      <3>1. imc[w] \in Cache
        BY DEF TypeOK
      <3>2. Full([imc[w] EXCEPT ![KeyOf(c)] = {}]) \subseteq Full(imc[w])
        BY <3>1 DEF Full, Cache
      <3>3. imc' = [imc EXCEPT ![w] = [imc[w] EXCEPT ![KeyOf(c)] = {}]]
        BY <2>1
      <3> QED
        BY <3>2, <3>3, EmptyingBounds
    <2> QED
      BY <1>1, <1>3, <2>1 DEF Get
  <1>4. ASSUME NEW w \in Workers, Static(w) \/ BfcHit(w) \/ Made(w)
        PROVE  ImcBounded'
    BY <1>4, KeepBounds DEF Static, BfcHit, Made
  <1> QED
    BY <1>1, <1>2, <1>3, <1>4
       DEF Next, vars, Tick, Post, GetPast, BfcMiss, End

\* The invariant holds throughout, for every value of the constants.
THEOREM Invariance == Spec => []IInv
  <1>1. IInv /\ [Next]_vars => IInv'
    BY Inductive
  <1> QED
    BY Initial, <1>1, PTL DEF Spec

\* The ages of the two caches add up, and to no more than both TTLs and the time
\* it takes to make a page.
THEOREM AgesAddUp == Spec => []AgeBounded
  BY Invariance, PTL DEF IInv

\* The cookie does what it is for: whoever posted the comment never gets a page
\* without it, before or after the cookie expires.
THEOREM CookieIsEnough == Spec => []PosterSees
  BY Invariance, PTL DEF IInv

\* A worker's memory never holds more pages than imc-cache-entries says: every
\* way a page gets into it purges first.
THEOREM MemoryIsBounded == Spec => []ImcBounded
  <1>1. Init => ImcBounded
    <2>1. Full(Empty) = {}
      BY DEF Full, Empty
    <2> QED
      BY <2>1, FS_EmptySet, EntriesAssumption DEF Init, ImcBounded
  <1>2. IInv => TypeOK
    BY DEF IInv
  <1>3. TypeOK /\ ImcBounded /\ [Next]_vars => ImcBounded'
    BY BoundKept
  <1> QED
    BY <1>1, <1>2, <1>3, Invariance, PTL DEF Spec
=============================================================================
