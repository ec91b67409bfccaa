------------------------------ MODULE ApiParse ------------------------------
(***************************************************************************)
(* What Parse promises, without its stack, its merging and its passes: a   *)
(* verdict on a root file and the files it reaches, and for accepted ones  *)
(* the names of the types in the ApiSpec.  Everything is said of the set   *)
(* of files; no order is mentioned.                                        *)
(***************************************************************************)
EXTENDS ApiTypes

CONSTANTS Path, Root

VARIABLES disk, body,       \* the files, whatever they are: read and not written
          verdict, names

absVars == <<disk, body, verdict, names>>

Reachable ==
  {p \in Path : \A S \in SUBSET Path :
     Root \in S /\ (\A q \in S : disk[q].imports \subseteq S) => p \in S}

\* The files load: in order, of one syntax version, without an import cycle.
FilesLoad(files) ==
  /\ \A p \in files : disk[p].status = "good" /\ disk[p].syntax = disk[Root].syntax
  /\ \A C \in SUBSET files : C # {} => \E p \in C : disk[p].imports \cap C = {}

Declared(files) == UNION {ToSet(body[p].types) : p \in files}
TypeNames(files) == {t.name : t \in Declared(files)}
Routes(files) ==
  UNION {{[svc |-> s, route |-> r] : r \in ToSet(s.routes)} :
           s \in UNION {ToSet(body[p].services) : p \in files}}

\* Every type is a struct of supported members, names known types only, and is
\* declared at one place.
TypesFit(declared, known) ==
  \A t \in declared :
    /\ t.dt.k = "struct"
    /\ ~Unresolved(t.dt, known)
    /\ \A i \in DOMAIN t.dt.d : ~Unsupported[t.dt.d[i]]
    /\ \A u \in declared : t.name = u.name => t.pos = u.pos

\* Every route has a handler of its own in its group, is written once, comments
\* included, in its prefix, and has bodies of known types; all belong to one service.
RoutesFit(routes, known) ==
  LET fits(b) == b.form = "none" \/ IsBaseType(b.n) \/ b.n \in known
  IN  \A x \in routes :
        /\ x.route.handler # 0
        /\ fits(x.route.req) /\ fits(x.route.resp)
        /\ x.route.req.form \notin {"list", "ptrlist"}
        /\ x.svc.sse => x.route.resp.form # "none"
        /\ \A y \in routes :
             /\ x.svc.name = y.svc.name
             /\ x.route.at # y.route.at =>
                  <<x.svc.group, x.route.handler>> # <<y.svc.group, y.route.handler>>
             /\ x.route.pos # y.route.pos =>
                  <<x.svc.prefix, x.route.path, x.route.req, x.route.resp, x.route.note>>
                    # <<y.svc.prefix, y.route.path, y.route.req, y.route.resp, y.route.note>>

\* The declarations of the files, each told by its file and its place in it.
Declarations(files) == UNION {{p} \X DOMAIN body[p].types : p \in files}

\* ns names each of the declarations once, and is in order.
NamesInOrder(ns, declarations) ==
  /\ \A m, n \in DOMAIN ns : m < n => ns[m] <= ns[n]
  /\ \E f \in Bijection(DOMAIN ns, declarations) :
       \A n \in DOMAIN ns : ns[n] = body[f[n][1]].types[f[n][2]].name

Acceptable(files) ==
  /\ FilesLoad(files)
  /\ ~body[Root].repeatsImport /\ ~body[Root].repeatsInfo
  /\ TypesFit(Declared(files), TypeNames(files))
  /\ RoutesFit(Routes(files), TypeNames(files))

----------------------------------------------------------------------------
AbsInit ==
  /\ verdict = "pending"
  /\ names = << >>

Decide ==
  /\ verdict = "pending"
  /\ \/ /\ verdict' = "accepted"
        /\ Acceptable(Reachable)
        /\ NamesInOrder(names', Declarations(Reachable))
     \/ /\ verdict' = "rejected"
        /\ ~Acceptable(Reachable)
        /\ names' = << >>
  /\ UNCHANGED <<disk, body>>

\* One verdict is given at most, and it is the right one.
Safely == AbsInit /\ [][Decide]_absVars

\* A verdict is always reached.
Spec == Safely /\ <>(verdict # "pending")
=============================================================================
