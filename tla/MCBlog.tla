------------------------------- MODULE MCBlog -------------------------------
(* Six entries over two years in a blog with one directory below it, for TLC. *)
EXTENDS Blog, TLC

MCFiles == {"a", "b", "c", "d", "e", "new"}
MCDirOf == [f \in MCFiles |-> IF f \in {"a", "b", "d"} THEN "sub" ELSE "blog"]
MCRank == "a" :> 1 @@ "b" :> 2 @@ "c" :> 3 @@ "d" :> 4 @@ "e" :> 5 @@ "new" :> 6
MCUnreal == {"a", "c"}
\* The fourth and the fifth are of the same day of two months, the second and the
\* third of the same day.
MCDate == <<<<1, 12, 30>>, <<2, 1, 3>>, <<2, 1, 3>>, <<2, 1, 4>>, <<2, 2, 4>>, <<2, 2, 5>>,
            <<2, 2, 6>>, <<2, 2, 6>>, <<2, 2, 7>>>>
MCDays == {MCDate[t] : t \in DOMAIN MCDate} \cup {<<2, 2, 1>>}
MCTime == "a" :> 1 @@ "b" :> 2 @@ "c" :> 3 @@ "d" :> 4 @@ "e" :> 5 @@ "new" :> 0
MCFirstDisk == [f \in MCFiles |-> [mtime |-> MCTime[f], ctime |-> 2, acl |-> IF f = "b" THEN {"ann"} ELSE {"everybody"}]]
MCTyped == {<<"latest">>, <<"latest", 2>>, <<"oldest", 2>>, <<"range", 0, 1>>, <<"range", 2, 2>>, <<"range", 4, 3>>,
            <<"range", 8, 9>>, <<"calendar", 2, 0, 0>>, <<"calendar", 2, 1, 0>>,
            <<"calendar", 2, 2, 1>>, <<"calendar", 2, 2, 31>>,
            <<"calendar", 2, 13, 0>>}
MCLastClock == "listings" :> 6 @@ "entries" :> 9 @@ "texts" :> 8
MCWorked == "listings" :> {"d", "e", "new"} @@ "entries" :> {"d", "new"} @@ "texts" :> {"d"}
MCAcls == {{"everybody"}, {"ann"}}
=============================================================================
