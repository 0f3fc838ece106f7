----------------------------- MODULE RoutesTrie ------------------------------
(***************************************************************************)
(* The routes of the HTTP server: Router (libs/http/src/server/router.cpp) *)
(* numbers its rules and puts their paths into a RoutesTrie                *)
(* (libs/http/src/server/trie.cpp), which finds the rule of a URL and the  *)
(* values of its parameters.                                               *)
(*                                                                         *)
(* A URL is a sequence of characters. The path of a rule is a sequence of  *)
(* characters and types of parameters, all of them known ones: handlers    *)
(* are checked against the path when they are added. A node of the trie    *)
(* is named by the path that leads to it.                                  *)
(***************************************************************************)
EXTENDS Integers, Sequences, FiniteSets, SequencesExt, FiniteSetsExt

CONSTANT MaxParam    \* the greatest number that is not out of range (ERANGE)

ASSUME ParamAssumption == MaxParam \in Nat

(* In the order in which find tries them.                                  *)
ParamTypes == <<"INT", "UINT", "DOUBLE", "STRING", "PATH">>
IsParam(e) == e \in ToSet(ParamTypes)

----------------------------------------------------------------------------
(* What a parameter takes of a URL from position pos on.                   *)

Digits == <<"0", "1", "2", "3", "4", "5", "6", "7", "8", "9">>
Signs  == {"+", "-"}

(* The length of the run of characters in S.                               *)
RunOf(url, pos, S) ==
    Max({k \in 0 .. Len(url) - pos + 1 : \A i \in pos .. pos + k - 1 : url[i] \in S})

NumberOf(digits) ==
    FoldLeft(LAMBDA n, d : 10 * n + (CHOOSE i \in 0 .. 9 : Digits[i + 1] = d), 0, digits)

\* strtoll and strtoull: a sign, then digits, within range
IntegerTaken(url, pos, signs) ==
    LET sign   == Min({1, RunOf(url, pos, signs)})
        digits == RunOf(url, pos + sign, ToSet(Digits))
    IN  IF \/ digits = 0
           \/ NumberOf(SubSeq(url, pos + sign, pos + sign + digits - 1)) > MaxParam
        THEN 0 ELSE sign + digits

\* strtod, of decimal numbers without an exponent
DoubleTaken(url, pos) ==
    LET sign  == Min({1, RunOf(url, pos, Signs)})
        whole == RunOf(url, pos + sign, ToSet(Digits))
        point == Min({1, RunOf(url, pos + sign + whole, {"."})})
        part  == IF point = 0 THEN 0 ELSE RunOf(url, pos + sign + whole + 1, ToSet(Digits))
    IN  IF whole + part = 0 THEN 0 ELSE sign + whole + point + part

(* How many characters a parameter takes; 0 if it does not match.          *)
Taken(type, url, pos) ==
    CASE type = "INT"    -> IntegerTaken(url, pos, Signs)
      [] type = "UINT"   -> IntegerTaken(url, pos, {"+"})
      [] type = "DOUBLE" -> DoubleTaken(url, pos)
      [] type = "STRING" -> RunOf(url, pos, ToSet(url) \ {"/"})
      [] type = "PATH"   -> Len(url) - pos + 1

(* The value: an integer for INT and UINT. A floating point number stands  *)
(* as its digits, rounding is left out.                                    *)
ValueOf(type, text) ==
    <<type, IF type \notin {"INT", "UINT"} THEN text
            ELSE IF Head(text) = "-" THEN <<-NumberOf(Tail(text))>>
            ELSE <<NumberOf(SelectSeq(text, LAMBDA c : c # "+"))>> >>

----------------------------------------------------------------------------
(* Building. A rule is [path, methods, enabled]; the vector of rules       *)
(* starts with two empty places, so rule i has index i + 1.                *)

RuleSpecialRedirectSlash == 1

(* internalAddRule: what a rule adds to the trie.                          *)
EntriesOf(rules, i) ==
    LET path == rules[i].path
    IN  {[rule |-> i, path |-> path, index |-> i + 1]} \cup
        (IF Last(path) = "/"
         THEN {[rule |-> i, path |-> Front(path), index |-> RuleSpecialRedirectSlash]}
         ELSE {})

Entries(rules) == UNION {EntriesOf(rules, i) : i \in DOMAIN rules}

(* RoutesTrie::add throws when a path is there already, and validate when  *)
(* the head is not simple: it has an index or a parameter.                 *)
CanBuild(rules) ==
    \A e \in Entries(rules) :
        /\ e.path # <<>> /\ ~IsParam(e.path[1])
        /\ \A f \in Entries(rules) : e.path = f.path => e = f

Nodes(rules) == {<<>>} \cup UNION {{SubSeq(e.path, 1, k) : k \in 1 .. Len(e.path)} :
                                    e \in Entries(rules)}
Params(ns, n) == {p \in ToSet(ParamTypes) : Append(n, p) \in ns}

Index(rules) ==
    [n \in Nodes(rules) |->
        LET here == {e \in Entries(rules) : e.path = n}
        IN  IF here = {} THEN 0 ELSE (CHOOSE e \in here : TRUE).index]

(* The nodes below n that characters lead to from there.                   *)
Below(ns, n) ==
    {m \in ns : /\ Len(m) > Len(n) /\ SubSeq(m, 1, Len(n)) = n
                /\ \A i \in Len(n) + 1 .. Len(m) : ~IsParam(m[i])}

Level(ns, n, k) == {SubSeq(m, Len(n) + 1, Len(m)) : m \in {m \in Below(ns, n) : Len(m) = k}}

\* children that have an index or parameters are merged away too
Fragments_any(idx, n) ==
    LET levels == {Len(m) : m \in Below(DOMAIN idx, n)}
    IN  IF levels = {} THEN {} ELSE Level(DOMAIN idx, n, Max(levels))

(* optimizeNode: as long as all children of n are simple they are merged   *)
(* with their own children, level by level.                                *)
Fragments(idx, n) ==
    LET ns == DOMAIN idx
        Simple(m) == idx[m] = 0 /\ Params(ns, m) = {}
        stops == {Len(m) : m \in {m \in Below(ns, n) : ~Simple(m)}}
    IN  IF stops = {} THEN {} ELSE Level(ns, n, Min(stops))

(* optimize: gather only renumbers the nodes.                              *)
Trie(rules) ==
    LET idx == Index(rules)
    IN  [idx |-> idx, kids |-> [n \in DOMAIN idx |-> Fragments(idx, n)]]

----------------------------------------------------------------------------
(* RoutesTrie::find                                                        *)

(* Where a parameter leads from a node, and the value to be pushed.        *)
ByParam(t, url, n, pos, p) ==
    {[node |-> Append(n, p), pos |-> pos + k,
      push |-> <<ValueOf(p, SubSeq(url, pos, pos + k - 1))>>] :
        k \in {k \in {Taken(p, url, pos)} : k > 0 /\ Append(n, p) \in DOMAIN t.idx}}

ByFragment(t, url, n, pos) ==
    {[node |-> n \o f, pos |-> pos + Len(f), push |-> <<>>] :
        f \in {f \in t.kids[n] : IsPrefix(f, SubSeq(url, pos, Len(url)))}}

(* What find tries at a node, in order: each type of parameter, then the   *)
(* fragments. Each leads on to one node or to none: the fragments of a     *)
(* node have one length, so that one at most matches.                      *)
Alternatives(t, url, n, pos) ==
    [i \in 1 .. Len(ParamTypes) + 1 |->
        IF i <= Len(ParamTypes) THEN ByParam(t, url, n, pos, ParamTypes[i])
        ELSE ByFragment(t, url, n, pos)]

Better(found, ret) == ret.index # 0 /\ (found.index = 0 \/ found.index > ret.index)

(* Parameters are pushed to one vector that all calls share. The end of    *)
(* the URL moves the vector out, whether the node there has an index or    *)
(* not: from then on ("moved") it is empty, and what the calls above had   *)
(* pushed is missing in the later alternatives ("whole" is FALSE).         *)
Nothing == [index |-> 0, params |-> <<>>, whole |-> TRUE, moved |-> FALSE]
AtEnd(index) == [index |-> index, params |-> <<>>, whole |-> TRUE, moved |-> TRUE]

(* updateFound, when the call for an alternative has returned ret.         *)
Update(found, alt, ret) ==
    LET moved == found.moved \/ ret.moved
    IN  IF Better(found, ret)
        THEN [index  |-> ret.index,
              params |-> IF ret.whole THEN alt.push \o ret.params ELSE ret.params,
              whole  |-> ret.whole /\ ~found.moved,
              moved  |-> moved]
        ELSE [found EXCEPT !.moved = moved]

(* The element of a set that has one.                                      *)
The(S) == CHOOSE x \in S : TRUE

(* What has been found after each of the alternatives.                     *)
Updates(alts, rets) ==
    LET found[i \in 0 .. Len(alts)] ==
            IF i = 0 THEN Nothing
            ELSE IF alts[i] = {} THEN found[i - 1]
            ELSE Update(found[i - 1], The(alts[i]), The(rets[i]))
    IN  found

(* From each place in the URL and each node.                               *)
Search(t, url) ==
    LET find[pos \in 1 .. Len(url) + 1] ==
            [n \in DOMAIN t.idx |->
                IF pos > Len(url) THEN AtEnd(t.idx[n])
                ELSE LET alts == Alternatives(t, url, n, pos)
                         rets == [i \in DOMAIN alts |-> {find[a.pos][a.node] : a \in alts[i]}]
                     IN  Updates(alts, rets)[Len(alts)]]
    IN  find

Find(t, url) == Search(t, url)[1][<<>>]

----------------------------------------------------------------------------
(* Router::before, up to the check of the rule. With a base for the API,   *)
(* URLs outside of it belong to the file server. Index 1 is that of the    *)
(* paths without their trailing slash: its place in the vector of rules is *)
(* empty, and the code reads the attributes of the rule there.             *)

FileServerRoute == <<"/", "#files">>

Target(table, url) ==
    IF IsPrefix(table.base, url) THEN SubSeq(url, Len(table.base) + 1, Len(url))
    ELSE FileServerRoute

RouteOf(table, trie, url) ==
    LET ret == Find(trie, Target(table, url))
    IN  [index  |-> ret.index, params |-> ret.params,
         ends   |-> IF ret.index = 0 THEN "NotFound"
                    ELSE IF ret.index = RuleSpecialRedirectSlash THEN "Crash"
                    ELSE IF ~table.rules[ret.index - 1].enabled THEN "NotFound"
                    ELSE "Rule"]

----------------------------------------------------------------------------
(* The reference: a path matches a URL by itself, from left to right.      *)

NoMatch == [pos |-> 0, params |-> <<>>]

MatchNext(m, e, url) ==
    LET k == IF m.pos \notin DOMAIN url THEN 0
             ELSE IF IsParam(e) THEN Taken(e, url, m.pos)
             ELSE IF url[m.pos] = e THEN 1 ELSE 0
    IN  IF k = 0 THEN NoMatch
        ELSE [pos    |-> m.pos + k,
              params |-> m.params \o
                  (IF IsParam(e) THEN <<ValueOf(e, SubSeq(url, m.pos, m.pos + k - 1))>>
                   ELSE <<>>)]

MatchTo(path, url) ==
    LET to[k \in 0 .. Len(path)] ==
            IF k = 0 THEN [pos |-> 1, params |-> <<>>]
            ELSE MatchNext(to[k - 1], path[k], url)
    IN  to

Match(path, url) == MatchTo(path, url)[Len(path)]

Matches(path, url) == Match(path, url).pos = Len(url) + 1
==============================================================================
