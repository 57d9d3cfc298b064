---------------------------- MODULE MCSubmissions ----------------------------
(* Two threads, and the pairs of requests that can disturb each other.     *)
EXTENDS Submissions

CONSTANTS t1, t2

MCThreads == {t1, t2}

Pair(a, b) == [t \in MCThreads |-> IF t = t1 THEN a ELSE b]

MCMixes == {Pair("checked", "plain"),
            Pair("checked", "map"), Pair("plain", "map")}
=============================================================================
