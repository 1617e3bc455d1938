----------------------------- MODULE MCDevices -----------------------------
EXTENDS Devices, TLC

Symmetry ==
    Permutations(Types) \cup Permutations(Codes) \cup Permutations(Tokens)
      \cup Permutations(Serials) \cup Permutations(Admins)

UnderWay ==
    {a \in Admins : request[a] # NoRequest} \cup {u \in Uploaders : upload[u] # NoUpload}
      \cup {p \in Polls : poll[p] # NoPoll}

\* Bound: from a state with three threads at work, no further step is taken.
TwoAtWork == Cardinality(UnderWay) <= 2
=============================================================================
