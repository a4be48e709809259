------------------------------- MODULE MCArgParse -------------------------------
(***************************************************************************)
(* A small instance of ArgParse: tuples of at most two options that        *)
(* differ, some that clash, some with the option ':', and every tuple of   *)
(* at most three values.                                                   *)
(***************************************************************************)
EXTENDS ArgParse

UpTo(n, S) == UNION {[1 .. k -> S] : k \in 0 .. n}

Parser(short, long, kind) == [short |-> short, long |-> long, kind |-> kind]

MCParserTuples ==
    {<<>>}
    \cup {<<Parser("o", "out", k)>> : k \in Kinds}
    \cup {<<Parser("o", "out", k), Parser("v", "verb", l)>> :
             k \in {"single", "limited"}, l \in {"boolean", "multi"}}
    \cup {<<Parser("o", "out", "boolean"), Parser(s, l, "single")>> :
             s \in {"o", "v", "h"}, l \in {"out", "verb", "help"}}
    \cup {<<Parser("o", "out", k), Parser(":", "colon", l)>> :
             k \in {"boolean", "single"}, l \in {"boolean", "limited"}}
    \cup {<<Parser(":", "colon", "boolean"), Parser("o", "out", "single")>>}

MCValueTuples == UpTo(3, Digesters)
===============================================================================
