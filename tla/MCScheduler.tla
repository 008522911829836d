----------------------------- MODULE MCScheduler -----------------------------
(* Constants that make Scheduler finite for TLC. *)
EXTENDS Scheduler, TLC

CONSTANTS a, b, c

MCIds == {a, b, c}
MCPayloads == {"fixed", "dynamic", "tolerant"}
MCKeys == {"policy", "boost"}
MCValues == {0, 1}

Ranked(rank, reads) == [ok |-> TRUE, rank |-> rank, reads |-> reads]
Raised(reads) == [ok |-> FALSE, rank |-> 0, reads |-> reads]

\* Rankers that read nothing; that read a second key depending on the first,
\* as in the moduledoc's example; and that rescue the KeyError of a missing key.
Rank(payload, d) ==
    CASE payload = "fixed" -> Ranked(1, {})
      [] payload = "dynamic" /\ d["policy"] = ABSENT -> Raised({"policy"})
      [] payload = "dynamic" /\ d["policy"] = 0 -> Ranked(0, {"policy"})
      [] payload = "dynamic" /\ d["policy"] = 1 /\ d["boost"] = ABSENT
           -> Raised({"policy", "boost"})
      [] payload = "dynamic" /\ d["policy"] = 1 /\ d["boost"] # ABSENT
           -> Ranked(d["boost"] + 1, {"policy", "boost"})
      [] payload = "tolerant" /\ d["boost"] = ABSENT -> Ranked(2, {"boost"})
      [] payload = "tolerant" /\ d["boost"] # ABSENT -> Ranked(d["boost"], {"boost"})

MCRanker == [payload \in MCPayloads |->
               [d \in [MCKeys -> MCValues \cup {ABSENT}] |-> Rank(payload, d)]]

\* put_task, and put_tasks with two pairs, which may be about the same id.
Pair == [id : MCIds, payload : MCPayloads]
MCTaskLists == {<<p>> : p \in Pair} \cup {<<p, q>> : p \in Pair, q \in Pair}

IdSymmetry == Permutations(MCIds)
=============================================================================
