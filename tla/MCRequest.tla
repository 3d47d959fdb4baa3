---------------------------- MODULE MCRequest ----------------------------
(* A small wiki, two browsers and an administrator, for TLC. *)
EXTENDS Request, TLC

MCDirs == {<<>>, <<"blog">>, <<"idx">>}
Entry1 == <<"blog", "entry">>
MCFiles == {<<"front">>, Entry1, <<"blog", "bomb">>, <<"blog", "__access">>, <<"old">>,
            <<"lost">>, <<"ring">>, <<"bad">>, <<"odd">>, <<"idx", "__index">>}
MCTarget == <<"old">> :> <<"blog">> @@ <<"lost">> :> NoPath @@ <<"ring">> :> <<"ring">>
            @@ <<"idx", "__index">> :> <<"blog">>
MCPrefFlag == <<>> :> {} @@ <<"blog">> :> {"blog"} @@ <<"idx">> :> {"index"}
MCNoViewFlag == <<>> :> {} @@ <<"blog">> :> {"blogdir"} @@ <<"idx">> :> {}
MCRoot == <<"front">>
MCSuffixes == {<<"latest">>}
MCCommented == {Entry1}
MCBombs == {<<"blog", "bomb">>}
MCMisread == <<"odd">> :> <<"cut">>

\* Who may read the blog, and who the entry and the one that fails.
Acl(blog, entry) ==
  [f \in MCFiles |-> CASE f = <<"blog", "__access">> -> blog
                       [] f = Entry1 -> entry
                       [] f = <<"blog", "bomb">> -> {"ann"}
                       [] OTHER -> Open]
Site0(ann, broken, blog, entry) ==
  [pw |-> "ann" :> ann @@ "bob" :> 1 @@ "guest" :> 1, broken |-> broken, acl |-> Acl(blog, entry)]
MCFirst == Site0(1, FALSE, {"ann", "bob"}, {"bob"})
MCEditions == {Site0(2, FALSE, {"bob"}, {"bob"}), Site0(0, FALSE, {"ann", "bob"}, Open),
               Site0(1, TRUE, Open, {"ann"})}

Asks1(p, slash, v, quirks) == Get([Url(p, slash, v) EXCEPT !.quirks = quirks])
Login(user, pw) ==
  [url |-> Url(<<".login">>, FALSE, "login"), method |-> "POST",
   form |-> [user |-> user, pw |-> pw, page |-> <<"blog">>]]
Logout == [url |-> Url(<<".logout">>, FALSE, "logout"), method |-> "POST",
           form |-> [user |-> NoUser, pw |-> 0, page |-> Entry1]]
MCBookmarks ==
  "one" :> {Asks1(<<>>, FALSE, "blog", {}), Asks1(<<"blog">>, FALSE, "source", {"utm"}),
            Asks1(<<"blog">>, TRUE, "blogdir", {"utm", "robot"}),
            Asks1(<<"blog">>, TRUE, "blogdir", {"other-host"}),
            Asks1(<<"blog", "latest">>, FALSE, "unset", {}),
            Asks1(<<"ring">>, FALSE, "unset", {}), Asks1(<<"lost">>, FALSE, "unset", {}),
            Asks1(<<"idx">>, TRUE, "unset", {}), Asks1(<<"odd">>, FALSE, "unset", {"utm"}),
            Asks1(Entry1, FALSE, "source", {}), Login("ann", 1), Login("bob", 1), Logout,
            [Login("ann", 1) EXCEPT !.url.quirks = {"utm"}],
            Asks1(<<>>, TRUE, "unset", {"static"}), Asks1(<<>>, TRUE, "unset", {"outside"}),
            [Asks1(Entry1, FALSE, "writecomment", {}) EXCEPT !.method = "POST"],
            [Asks1(Entry1, FALSE, "writecomment", {"utm", "robot"}) EXCEPT !.method = "POST"]}
  @@ "two" :> {Asks1(<<"blog">>, TRUE, "unset", {})}
=============================================================================
