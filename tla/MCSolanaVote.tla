---------------------------- MODULE MCSolanaVote -----------------------------
EXTENDS SolanaVote, TLC
CONSTANTS p1, p2

MCWorld(c1, c2, f, n, others) ==
  [data |-> (p1 :> c1 @@ p2 :> c2), failures |-> f, crashes |-> n, others |-> others]

\* A single event with every fault; a good one beside each kind of unusable one.
MCWorlds ==
  {MCWorld(c, "absent", f, 1, TRUE) : c \in {"same", "other"}, f \in 0..1}
  \cup {MCWorld("same", c, 0, 0, FALSE) : c \in {"broken", "roundless"}}
  \cup {MCWorld("same", "broken", 0, 1, FALSE)}
================================================================================
