------------------------------ MODULE RouteTrie ------------------------------
(***************************************************************************)
(* The router of gee for one method: routes are registered in some order   *)
(* in a trie, and requests are looked up in it.                            *)
(*                                                                         *)
(* A pattern and a path are the sequences of their parts.  The children of *)
(* a node differ in their parts, so a node is named by the parts on the    *)
(* way to it, and the trie is a function from these names to the nodes,    *)
(* each with its pattern and the parts of its children, oldest first.      *)
(***************************************************************************)
EXTENDS Naturals, Sequences, SequencesExt

CONSTANTS Static,     \* parts without a wildcard
          Colon,      \* parts ":name"
          Star,       \* parts "*name"
          Patterns,   \* that programs register
          Requests,   \* paths that are asked for
          MaxRoutes,
          NoRoute

Wild == Colon \cup Star
Parts == Static \cup Wild

ASSUME RouteAssumption ==
    /\ Static \cap Wild = {} /\ Colon \cap Star = {}
    /\ Patterns \subseteq Seq(Parts) /\ Requests \subseteq Seq(Parts)
    /\ NoRoute \notin Seq(Parts)

VARIABLES trie,
          routes     \* the patterns registered so far: the keys of handlers

routeVars == <<trie, routes>>

\* parsePattern: nothing counts after a part with a star.
parsePattern(parts) ==
    LET Stars == {i \in DOMAIN parts : parts[i] \in Star}
    IN  IF Stars = {} THEN parts ELSE SubSeq(parts, 1, Min(Stars))

Node == [pattern |-> NoRoute, children |-> <<>>]

RouteInit == trie = [v \in {<<>>} |-> Node] /\ routes = <<>>

------------------------------------------------------------------------------
\* A slip that the property at the end must catch: search has no way back.
FirstChild(t, path, part) ==
    LET all == {i \in DOMAIN t[path].children : t[path].children[i] \in Wild \cup {part}}
    IN  {i \in all : \A j \in all : i <= j}

\* The places of the children of a node that match a part.
matchChildren(t, path, part) ==
    {i \in DOMAIN t[path].children : t[path].children[i] \in Wild \cup {part}}

\* insert: down through the first child that matches, or a new one.
Grown(t, path, part) ==
    [v \in DOMAIN t \cup {Append(path, part)} |->
        IF v \notin DOMAIN t THEN Node
        ELSE IF v = path THEN [t[v] EXCEPT !.children = Append(@, part)] ELSE t[v]]

Descend(at, part) ==
    LET found == matchChildren(at.trie, at.path, part)
    IN  IF found = {} THEN [trie |-> Grown(at.trie, at.path, part),
                            path |-> Append(at.path, part)]
        ELSE [trie |-> at.trie,
              path |-> Append(at.path, at.trie[at.path].children[Min(found)])]

insert(t, pattern) ==
    LET down[h \in 0..Len(pattern)] ==
            IF h = 0 THEN [trie |-> t, path |-> <<>>]
            ELSE Descend(down[h - 1], pattern[h])
        end == down[Len(pattern)]
    IN  [end.trie EXCEPT ![end.path].pattern = pattern]

addRoute(pattern) ==
    /\ Len(routes) < MaxRoutes
    /\ trie' = insert(trie, parsePattern(pattern))
    /\ routes' = Append(routes, parsePattern(pattern))

\* The first of some answers that is one.
FirstOf(answers) ==
    LET hits == {i \in DOMAIN answers : answers[i] # NoRoute}
    IN  IF hits = {} THEN NoRoute ELSE answers[Min(hits)]

\* search: the pattern of the first node, depth first, at which the path ends
\* or which has a star.
search(t, parts) ==
    LET below[v \in {u \in DOMAIN t : Len(u) <= Len(parts)}] ==
            IF Len(v) = Len(parts) \/ (v # <<>> /\ Last(v) \in Star)
            THEN t[v].pattern
            ELSE FirstOf([i \in matchChildren(t, v, parts[Len(v) + 1]) |->
                              below[Append(v, t[v].children[i])]])
    IN  below[<<>>]

getRoute(path) == search(trie, parsePattern(path))

RouteNext == \E p \in Patterns : addRoute(p)

RouteSpec == RouteInit /\ [][RouteNext]_routeVars

------------------------------------------------------------------------------
\* What a pattern means.
Matches(p, path) ==
    /\ Len(p) = Len(path) \/ (p # <<>> /\ Last(p) \in Star /\ Len(p) <= Len(path))
    /\ \A i \in DOMAIN p : p[i] = path[i] \/ p[i] \in Wild

\* q, registered after p, goes down through a wildcard of p in place of a part
\* of its own, and takes the place of a pattern there.
Shadowed(p, q) ==
    \E k \in DOMAIN p \cap DOMAIN q :
        /\ SubSeq(p, 1, k - 1) = SubSeq(q, 1, k - 1)
        /\ p[k] \in Wild /\ p[k] # q[k]

\* A part that p has for itself where q has a wildcard.
MoreExact(p, q, path) ==
    \E k \in DOMAIN p \cap DOMAIN q :
        /\ SubSeq(p, 1, k - 1) = SubSeq(q, 1, k - 1)
        /\ p[k] = path[k] /\ q[k] \in Wild /\ p[k] # q[k]

\* As long as the exact routes are registered before those with a wildcard in
\* their place, a request gets a route exactly when one matches it, one that
\* does match, and the most exact of them.
Dispatch ==
    (\A i, j \in DOMAIN routes : i < j => ~Shadowed(routes[i], routes[j])) =>
        \A request \in Requests :
            LET path == parsePattern(request)
                all == {p \in Range(routes) : Matches(p, path)}
                found == getRoute(request)
            IN  IF all = {} THEN found = NoRoute
                ELSE /\ found \in all
                     /\ \A q \in all \ {found} : MoreExact(found, q, path)
=============================================================================
