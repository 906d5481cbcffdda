------------------------------- MODULE Router -------------------------------
(***************************************************************************)
(* From the path of a request to its route, and to the path the target is  *)
(* asked for (gateflow/router.py, and the two lines of gateflow/proxy.py   *)
(* that join it to the URL of the target).                                 *)
(*                                                                         *)
(* A text is modelled by what split("/") makes of it: the sequence of the  *)
(* segments between its slashes, of which some are empty.  "/a//b" is      *)
(* <<"", "a", "", "b">>, and a slash at the front or at the back is an     *)
(* empty segment there.                                                    *)
(***************************************************************************)
EXTENDS Naturals, SequencesExt

CONSTANTS
    Names,          \* segments that are not empty
    MaxPrefix,      \* bound: segments of a prefix
    MaxPath,        \* bound: segments of a path, behind its first slash
    MaxRoutes       \* bound: routes of a table

Nothing == ""

(* normalise_prefix: no slash at either end, and no two in a row.           *)
RoutePrefixes == UNION {[1..n -> Names] : n \in 1..MaxPrefix}

Paths == {<<Nothing>> \o p : p \in UNION {[1..n -> Names \cup {Nothing}] : n \in 1..MaxPath}}

Routes == [prefix : RoutePrefixes, strip : BOOLEAN]

(* The dictionary of the routes, with its keys in any order.                *)
Tables ==
    {t \in BoundedSeq(Routes, MaxRoutes) : IsInjective([i \in DOMAIN t |-> t[i].prefix])}

-----------------------------------------------------------------------------
(* lstrip("/") and strip("/")                                               *)
LStrip(s) ==
    LET first == SelectInSeq(s, LAMBDA x : x # Nothing) IN
    IF first = 0 THEN <<Nothing>> ELSE SubSeq(s, first, Len(s))

Stripped(s) == Reverse(LStrip(Reverse(LStrip(s))))

(* segments[: len(prefix_segments)] == prefix_segments                      *)
Fits(s, p) == IsPrefix(p, Stripped(s))

(* The order in which the routes are tried: more segments first.            *)
Before(r, q) == Len(r.prefix) > Len(q.prefix)

(* match_route: the first route that fits, if one does.                     *)
Matched(t, s) ==
    LET candidates == SortSeq(t, Before)
        first == SelectInSeq(candidates, LAMBDA r : Fits(s, r.prefix))
    IN  IF first = 0 THEN {} ELSE {candidates[first]}

(* build_downstream_path.  original_path[len(prefix):] starts with the      *)
(* slash behind the prefix.                                                 *)
Beyond(s, p) == <<Nothing>> \o SubSeq(s, Len(p) + 2, Len(s))

Downstream(r, s) ==
    LET front == <<Nothing>> \o r.prefix IN
    CASE r.strip /\ s = front -> <<Nothing, Nothing>>
      [] r.strip /\ s # front /\ IsPrefix(front, s) -> Beyond(s, r.prefix)
      [] OTHER -> s

(* What the URL of the target ends in, behind its own path and a slash.     *)
Forwarded(t, s) == {LStrip(Downstream(r, s)) : r \in Matched(t, s)}

-----------------------------------------------------------------------------
(* Path s is p, or goes on below it in a segment of its own.                *)
Under(s, p) ==
    Len(p) <= Len(Stripped(s)) /\ \A i \in DOMAIN p : p[i] = Stripped(s)[i]

(* Of the routes the path lies under, the one with the longest prefix is    *)
(* taken, in whatever order the table has them.                             *)
LongestWins ==
    \A t \in Tables, s \in Paths :
        LET fitting == {r \in ToSet(t) : Under(s, r.prefix)} IN
        Matched(t, s) = {r \in fitting : \A q \in fitting : Len(q.prefix) <= Len(r.prefix)}

(* The segments of a path that are not empty.                               *)
Segments(s) == SelectSeq(s, LAMBDA x : x # Nothing)

(* Of a path with a single slash in front, the target is asked for all but  *)
(* the prefix, and for all of it when the prefix is kept.                   *)
NothingLost ==
    \A r \in Routes, s \in Paths :
        s[2] # Nothing =>
            \A f \in Forwarded(<<r>>, s) :
                Segments(s) = (IF r.strip THEN r.prefix ELSE <<>>) \o Segments(f)
=============================================================================
