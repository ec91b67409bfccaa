---------------------------- MODULE MCGenProject ----------------------------
(* Two handlers, three types, groups whose names become one file name.       *)
EXTENDS GenProject

R(h, g, uses) == [handler |-> h, group |-> g, uses |-> uses]
A(routes, types, fit) == [routes |-> routes, types |-> types, routesFit |-> fit]

One == R("h1", "user", {"T"})
Moved == R("h1", "User", {"T"})
Ungrouped == R("h2", "types", {"U"})
Both == R("h2", "User", {"T", "U"})

MCRoute == {One, Moved, Ungrouped, Both}
MCApi == {A(<<One>>, {"T", "U"}, TRUE),
          A(<<Moved, Ungrouped>>, {"T", "U"}, TRUE),
          A(<<One, Both>>, {"T", "U"}, TRUE),
          A(<<One, Ungrouped>>, {"T", "U"}, FALSE),
          A(<<>>, {}, TRUE)}
MCFileName == [k \in {"user", "User", "types"} |-> IF k = "types" THEN "types" ELSE "user"]
MCBefore == <<"main">>
MCTouched == {RouteFile("logic", One), RouteFile("handler", Ungrouped)}
MCTests == <<"integration">>
=============================================================================
