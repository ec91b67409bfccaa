---------------------------- MODULE MCRpcProject ----------------------------
(* Proto files whose services, packages and imports change, and one service  *)
(* over every graph of imports of three files.                               *)
EXTENDS RpcProject

MCName == {"a", "b", "c", "d", "xa", "google"}
MCProtoPaths == <<"src", "lib">>

\* "ext" is the package of two files, which may have two Go packages.
Layout(disk, broken, imports, split) ==
    [disk |-> disk, broken |-> broken,
     imports |-> [f \in ProtoFile |-> IF f[2] \in DOMAIN imports THEN imports[f[2]] ELSE <<>>],
     package |-> [f \in ProtoFile |-> IF f[2] = "a" THEN "main" ELSE IF f[2] = "xa" THEN "x" ELSE "ext"],
     goPackage |-> [f \in ProtoFile |-> IF f[2] = "c" /\ split THEN "more" ELSE "ext"],
     served |-> {<<"lib", "xa">>}]

Everywhere == {<<"src", "a">>} \cup {"lib"} \X {"b", "c", "xa"}

Plainly == Layout(Everywhere, {}, [a |-> <<"b">>], FALSE)
Splitting == Layout(Everywhere, {}, [a |-> <<"c", "b", "google">>], TRUE)
Likely == Layout(Everywhere, {}, [a |-> <<"b", "d">>, b |-> <<"xa">>], FALSE)

\* What the files of a graph may import.
ByMain == <<<<>>, <<"b">>, <<"b", "c">>, <<"c", "b">>>>
ByOther == <<<<>>, <<"a">>, <<"b">>, <<"c">>, <<"b", "c">>, <<"c", "a">>>>

Disks == <<{<<"src", "a">>, <<"src", "b">>, <<"lib", "b">>, <<"lib", "c">>}, {<<"src", "a">>, <<"lib", "a">>, <<"lib", "b">>}>>

Graph(d, broken, i, j, k) ==
    Layout(Disks[d], broken, [a |-> ByMain[i], b |-> ByOther[j], c |-> ByOther[k]], FALSE)

\* All graphs of the first disk, with and without a broken file, and of the second.
Graphs ==
    [g \in 1 .. 432 |->
       LET n == (g - 1) % 144
           a == 1 + (n % 4)
           b == 1 + ((n \div 4) % 6)
           c == 1 + (n \div 24)
       IN  IF g <= 144 THEN Graph(1, {}, a, b, c)
           ELSE IF g <= 288 THEN Graph(1, {<<"lib", "c">>}, a, b, c)
           ELSE Graph(2, {}, a, b, c)]

MCOn == <<Plainly, Splitting, Likely>> \o Graphs

MCLayouts == DOMAIN MCOn

Message(pkg, go) == [pkg |-> pkg, go |-> go, wellKnown |-> go = "emptypb"]
Own(dir) == Message("", dir)
Ext == Message("ext", "ext")
Empties == Message("google", "emptypb")
Unlisted == Message("google", "apipb")

Method(name, req, resp, in, out) == [name |-> name, req |-> req, resp |-> resp, in |-> in, out |-> out]
Plains(name, req, resp) == Method(name, req, resp, FALSE, FALSE)

Of(l, dir, services) == [layout |-> l, dir |-> dir, name |-> IF dir = "old" THEN "other" ELSE "main", declares |-> TRUE, services |-> services]
S(name, rpcs) == [name |-> name, lower |-> name, camel |-> name, rpcs |-> rpcs]

First == Of(1, "pb", <<S("s", <<Plains("m", Own("pb"), Ext), Plains("n", Ext, Empties)>>)>>)
Grown == Of(1, "zpb", <<S("s", <<Plains("m", Own("zpb"), Own("zpb"))>>),
                        S("t", <<Method("o", Own("zpb"), Own("zpb"), FALSE, TRUE)>>)>>)
Mixed == Of(2, "pb", <<S("s", <<Plains("m", Ext, Own("pb"))>>), S("t", <<>>),
                       S("u", <<Plains("n", Own("pb"), Unlisted)>>), S("v", <<Plains("q", Message("main", "pb"), Own("pb"))>>)>>)
\* An unqualified message that another file of the package declares.
Twin == Of(3, "pb", <<S("s", <<Plains("m", Own("pb"), Own("ext"))>>)>>)
Renamed == Of(1, "old", <<S("t", <<Method("m", Own("old"), Ext, TRUE, FALSE), Method("o", Ext, Own("old"), FALSE, TRUE)>>)>>)

Evolving == 1 .. 5

\* A service whose client stands among the pb files, there with a message of theirs
\* that is written with a package, and one called like the Go package.
Housed(lower, dir, rpcs) == Of(1, dir, <<[name |-> "h", lower |-> lower, camel |-> dir, rpcs |-> rpcs]>>)

Houses ==
    <<Housed("p_b", "pb", <<Plains("m", Own("pb"), Ext), Method("o", Own("pb"), Own("pb"), FALSE, TRUE)>>),
      Housed("e_xt", "ext", <<Plains("m", Own("ext"), Ext)>>),
      Housed("pb", "pb", <<Plains("m", Own("pb"), Empties)>>)>>

Few == 1 .. 8

MCSays == <<First, Grown, Mixed, Twin, Renamed>> \o Houses \o
          [i \in 1 .. Len(MCOn) - 3 |-> Of(i + 3, "pb", <<S("s", <<Plains("m", Own("pb"), Ext)>>)>>)]

MCService == UNION {ToSet(MCSays[p].services) : p \in 1 .. 9}

MCProto == DOMAIN MCSays
MCBecomes == [p \in MCProto |-> IF p \in Evolving THEN Evolving \ {p} ELSE {}]
MCModes == [p \in MCProto |-> IF p \in Few THEN BOOLEAN \X BOOLEAN ELSE {<<FALSE, FALSE>>}]
MCMaxRuns == [p \in MCProto |-> IF p \in Evolving THEN 2 ELSE 1]
MCGoDirs == <<"ext", "more", "old", "out", "pb", "zpb">>
MCTouched == {<<"main", "main">>, LogicFile(TRUE, First.services[1], First.services[1].rpcs[1])}
=============================================================================
