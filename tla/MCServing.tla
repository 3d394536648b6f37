----------------------------- MODULE MCServing -----------------------------
(* Two checkpoints without events that differ in their logits only, one with *)
(* events and a privileged critic, one that looks ahead, one that does not   *)
(* load; two paths, and an operator who does not say what he expects beside  *)
(* one who may.                                                             *)
EXTENDS Serving

Attr(window, lookahead, privileged, loads, logits, action) ==
    [window |-> window, lookahead |-> lookahead, privileged |-> privileged,
     loads |-> loads, logits |-> logits, action |-> action]
MCModel ==
    [champion |-> Attr(0, 0, FALSE, TRUE, 1, 1), candidate |-> Attr(0, 0, FALSE, TRUE, 2, 1),
     events |-> Attr(2, 0, TRUE, TRUE, 3, 2), ahead |-> Attr(0, 1, FALSE, TRUE, 4, 1),
     torn |-> Attr(0, 0, FALSE, FALSE, 5, 1)]
MCContents == DOMAIN MCModel
MCManifest == [current |-> "p", fallback |-> "q"]

MCDisks == {[p |-> "champion", q |-> "candidate"], [p |-> "events", q |-> "champion"],
            [p |-> "champion", q |-> "ahead"]}

MCLaunches ==
    {[path |-> "p", sampling |-> s, admin |-> TRUE, evaluate |-> s, export |-> TRUE] :
        s \in BOOLEAN}
      \cup {[path |-> "q", sampling |-> FALSE, admin |-> FALSE, evaluate |-> TRUE, export |-> FALSE]}

MCCasts == {{"player", "warmer", "op1"}, {"reviewer", "op1"}, {"harness", "op1"},
            {"player", "op1", "op2"}}

Obs(fields, window, count, version) ==
    [fields |-> fields, window |-> window, count |-> count, version |-> version,
     discards |-> TRUE]
Legacy == Obs("none", 0, 0, TRUE)
Observations ==
    {Legacy, Obs("some", 2, 1, TRUE), Obs("all", 2, 1, TRUE), Obs("all", 0, 0, TRUE),
     Obs("all", 2, 1, FALSE)}
Act(obs, logits, token) ==
    [to |-> "act", obs |-> obs, logits |-> logits, length |-> TRUE, token |-> token]
Reload(path, id, expect, window) ==
    [to |-> "reload", path |-> path, id |-> id, expect |-> expect, window |-> window,
     length |-> TRUE, token |-> TRUE]

MCAsks ==
    [player |-> {Act(obs, FALSE, FALSE) : obs \in Observations}
                  \cup {[Act(Legacy, FALSE, FALSE) EXCEPT !.obs.discards = FALSE],
                        Act(Legacy, TRUE, FALSE)},
     warmer |-> {[to |-> "warmup", length |-> TRUE, token |-> t] : t \in BOOLEAN},
     reviewer |-> {[to |-> "evaluate", obs |-> Legacy, length |-> TRUE, token |-> TRUE]},
     harness |-> {Act(Obs("all", 0, 0, TRUE), TRUE, TRUE)},
     op1 |-> {Reload("q", None, None, None), Reload(None, "current", "candidate", None),
              Reload("q", None, None, 2), [Reload("p", None, None, None) EXCEPT !.token = FALSE]},
     op2 |-> {Reload(None, "fallback", None, 0), Reload("p", None, None, None)}]
=============================================================================
