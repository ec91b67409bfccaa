---------------------------- MODULE MCApiAnalyze ----------------------------
(***************************************************************************)
(* Instances of ApiAnalyze for TLC: files "a" (the root), "b" and "c", the *)
(* type names 1, 2 and 3 and the base type 9.                              *)
(***************************************************************************)
EXTENDS ApiAnalyze

Term(k, n, d) == [k |-> k, n |-> n, d |-> d]
Str == Term("base", 9, << >>)
Ref(n) == Term("base", n, << >>)
Struct(ms) == Term("struct", 0, ms)

Leaf == {Str, Ref(1), Ref(2), Term("any", 0, << >>), Term("interface", 0, << >>)}
Wrap(S) == {Term(k, 0, <<t>>) : k \in {"ptr", "array", "dynarray", "slice", "struct"}, t \in S}
Compound == Wrap(Leaf) \cup {Struct(<< >>), Term("struct", Commented, << >>)} \cup {Term("map", 0, <<k, v>>) : k, v \in Leaf}
Deep == Wrap(Compound) \cup {Term("map", 0, <<k, Str>>) : k \in Compound}
        \cup {Term("map", 0, <<Str, v>>) : v \in Compound}
Member == Leaf \cup Compound \cup Deep
Pair == {Struct(<<Ref(n), Term("slice", 0, <<Ref(n)>>)>>) : n \in {1, 2, 3}}
Types == UNION {Member, Pair, {Struct(<<t>>) : t \in Member},
                {Term("slice", 0, <<Ref(n)>>) : n \in {1, 2, 3}}, {Ref(3)}}
MCDataType == Types     \* TLC keeps the value of Types, and evaluates what replaces a constant each time
MCBaseType == {9}

Good(imports, version) == [status |-> "good", imports |-> imports, syntax |-> version]
Decl(n, p, t) == [name |-> n, pos |-> p, dt |-> t]
Holds(ts, ss) == [repeatsImport |-> FALSE, repeatsInfo |-> FALSE, types |-> ts, services |-> ss]
Empty == Holds(<< >>, << >>)

\* One file: a declaration of every data type, and a declaration of every data
\* type that is not deep beside one that refers to it.
OneFile == {[p \in Path |-> Good({}, "v1")]}
TypeBodies ==
  {[p \in Path |-> Holds(<<Decl(1, 1, t)>>, << >>)] : t \in MCDataType}
    \cup {[p \in Path |-> Holds(<<Decl(1, 1, Struct(<<t>>)), Decl(2, 2, Struct(<<Ref(1)>>))>>, << >>)] :
            t \in Leaf \cup Compound}

\* Three files that import each other in various ways, circles included, with
\* declarations that fit together or clash, and repeated imports and info keys.
ThreeFiles ==
  {[a |-> Good({"b", "c"}, "v1"), b |-> Good(x, "v1"), c |-> Good(y, v)] :
     x \in {{}, {"c"}}, y \in {{}, {"b"}}, v \in {"v1", "v2"}}
FileBodies ==
  {[a |-> [Holds(ta, << >>) EXCEPT !.repeatsImport = r = 1, !.repeatsInfo = r = 2],
    b |-> [Holds(tb, << >>) EXCEPT !.repeatsImport = r = 3, !.repeatsInfo = r = 3],
    c |-> Holds(tc, << >>)] :
     ta \in {<< >>, <<Decl(3, 1, Struct(<<Ref(2)>>))>>,
             <<Decl(1, 1, Struct(<<Str>>)), Decl(1, 2, Struct(<<Str>>))>>},
     tb \in {<< >>, <<Decl(1, 11, Struct(<<Str>>)), Decl(2, 12, Struct(<<Ref(1), Term("slice", 0, <<Ref(1)>>)>>))>>},
     tc \in {<< >>, <<Decl(2, 21, Struct(<<Str>>))>>, <<Decl(1, 21, Struct(<<Ref(2)>>))>>,
             <<Decl(3, 21, Ref(2))>>},
     r \in 0 .. 3}

\* Services in the imported files.
Body_(form, n) == [form |-> form, n |-> n]
NoBody == Body_("none", 0)
Route(h, path, req, resp, p) ==
  [handler |-> h, at |-> p, path |-> <<"get", path>>, req |-> req, resp |-> resp, note |-> 0, pos |-> p]
Svc(name, group, prefix, sse, routes) ==
  [name |-> name, group |-> group, prefix |-> prefix, sse |-> sse, routes |-> routes]

\* Variants of the service of c: another name, server-sent events with and
\* without a response, bodies of every form, an item without handler, a comment, two routes.
SvcVariants(g, f, h, p) ==
  LET one(req, resp) == <<Route(h, p, req, resp, 21)>>
  IN  {Svc(1, g, f, FALSE, one(NoBody, NoBody)),
       Svc(2, g, f, FALSE, one(NoBody, NoBody)),
       Svc(1, g, f, TRUE, one(NoBody, NoBody)),
       Svc(1, g, f, TRUE, one(NoBody, Body_("plain", 1))),
       Svc(1, g, f, FALSE, one(Body_("list", 1), NoBody)),
       Svc(1, g, f, FALSE, one(Body_("ptr", 1), Body_("ptrlist", 1))),
       Svc(1, g, f, FALSE, one(Body_("plain", 9), Body_("plain", 2))),
       Svc(1, g, f, FALSE, one(Body_("plain", 1), NoBody)),
       Svc(1, g, f, FALSE, <<Route(NoHandler, p, NoBody, NoBody, 21)>>),
       Svc(1, g, f, FALSE, << >>),
       Svc(1, g, f, FALSE, <<[Route(h, p, NoBody, NoBody, 21) EXCEPT !.note = 1]>>),
       Svc(1, g, f, FALSE, <<Route(h, p, NoBody, NoBody, 21), Route(3 - h, 3 - p, NoBody, NoBody, 22)>>)}
SvcBodies ==
  {[a |-> Holds(<<Decl(1, 1, Struct(<<Str>>))>>, <<Svc(1, 0, 0, FALSE, << >>)>>),
    b |-> Holds(<< >>, <<Svc(1, 1, 1, FALSE, <<Route(1, 1, req, NoBody, 11)>>)>>),
    c |-> Holds(<< >>, <<s>>)] :
     req \in {NoBody, Body_("plain", 1)},
     s \in UNION {SvcVariants(g, f, h, p) : g, f \in {0, 1}, h, p \in {1, 2}}}
Importing ==
  {[a |-> Good({"b", "c"}, "v1"), b |-> Good(x, "v1"), c |-> Good({}, "v1")] : x \in {{}, {"c"}}}

\* b and c have one base name, in different directories: what c declares stands
\* at the places b uses, or at others.
TwinRoute(h, p, at, pos, note) == [Route(h, p, NoBody, NoBody, pos) EXCEPT !.at = at, !.note = note]
TwinBodies ==
  {[a |-> Empty,
    b |-> Holds(<<Decl(1, 11, Struct(<<Str>>)), Decl(2, 12, Struct(<<Str>>))>>,
                <<Svc(1, 0, 0, FALSE, <<TwinRoute(1, 1, 11, 11, 0)>>)>>),
    c |-> Holds(<<Decl(n, q, Struct(<<t>>))>>, <<Svc(1, g, 0, FALSE, <<TwinRoute(h, p, at, pos, note)>>)>>)] :
     n \in 1 .. 3, q \in 11 .. 13, t \in {Str, Ref(1)}, g \in {0, 1}, h, p \in {1, 2},
     at, pos \in {11, 12}, note \in {0, 1}}

----------------------------------------------------------------------------
\* What is checked together: each set of bodies with the disks it is made for.
Family == {[disks |-> OneFile, bodies |-> TypeBodies],
           [disks |-> ThreeFiles, bodies |-> FileBodies],
           [disks |-> Importing, bodies |-> SvcBodies \cup TwinBodies]}
AnyDisk == UNION {OneFile, ThreeFiles, Importing}
AnyBody == UNION {TypeBodies, FileBodies, SvcBodies, TwinBodies}

FamilyInit == \E f \in Family : disk \in f.disks /\ body \in f.bodies /\ Init /\ AnalyzeStart
FamilySpec == FamilyInit /\ [][AnalyzeNext]_allVars /\ WF_allVars(AnalyzeNext)
=============================================================================
