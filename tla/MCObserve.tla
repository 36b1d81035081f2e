----------------------------- MODULE MCObserve -----------------------------
(* One pod of two incarnations, with a restart, on a node that is scraped    *)
(* once an instant at most.                                                  *)
EXTENDS Observe

Bar(n, d, unit, dir, factor) == [value |-> <<n, d>>, unit |-> unit, dir |-> dir, factor |-> factor]

Bound(uid, metric, divisor, kind, bar) ==
    [uid |-> uid, metric |-> metric, divisor |-> divisor, kind |-> kind, bar |-> bar,
     state |-> "bound", validation |-> "passed"]

MCBindings ==
    UNION {LET c == <<uid, "c">> IN
        {Bound(c, "counter", "", "rate-of-change", Bar(2, 1, "", "above", 0)),
         Bound(c, "counter", "", "absolute", Bar(500, 1, "millicores", "above", 0)),
         Bound(c, "counter", "gauge", "absolute", Bar(1, 11, "", "above", 0)),
         Bound(c, "counter", "periods", "absolute", Bar(1, 2, "", "above", 0)),
         Bound(c, "gauge", "", "config-relative", Bar(10, 1, "", "above", 90)),
         Bound(c, "gauge", "", "absolute", Bar(6, 1, "", "below", 0))} : uid \in 1..2}
    \cup {Bound(<<0>>, "fs_avail", "", "absolute", Bar(1, 1, "", "above", 0))}

MCRuntime == [uid \in 1..2 |-> IF uid = 1 THEN "containerd" ELSE "dockershim"]

MCTypes ==
    [m \in Counter \cup Labelled \cup {"gauge", "fs_avail"} |->
        IF m \in Counter \cup Labelled THEN "counter" ELSE "gauge"]

=============================================================================
