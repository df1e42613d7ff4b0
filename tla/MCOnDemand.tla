----------------------------- MODULE MCOnDemand -----------------------------
(* Trees and flags for TLC.                                                *)
EXTENDS OnDemand, TLC

\* Three files.
FlatTree == {<<>>, <<1>>, <<2>>, <<3>>}

\* Two levels of directories, with entries before and behind each.
DeepTree == {<<>>, <<1>>, <<1, 1>>, <<1, 2>>, <<1, 2, 1>>, <<1, 3>>, <<2>>}

AllPlaces == FlatTree \cup DeepTree

\* The trees with these entries, in which an entry that has entries is one of dirs,
\* another one of leaves.
Trees(nodes, dirs, leaves) ==
    LET inner == {n \in nodes : Append(n, 1) \in nodes}
        absent == [n \in AllPlaces \ nodes |-> "absent"]
    IN  {d @@ l @@ absent : d \in [inner -> dirs], l \in [nodes \ inner -> leaves]}

\* With a pool and progress events.
PoolFlags == {[threaded |-> TRUE, recurse |-> TRUE, progress |-> TRUE]}

\* A scan in the calling thread, or of the top level with a pool.
WalkFlags == {[threaded |-> FALSE, recurse |-> TRUE, progress |-> TRUE],
              [threaded |-> FALSE, recurse |-> TRUE, progress |-> FALSE],
              [threaded |-> TRUE, recurse |-> FALSE, progress |-> TRUE]}

\* Files in a pool, and walks of every kind.
ScanInputs ==
    [kind : Trees(FlatTree, {"dir"}, {"CLEAN", "SUSPICIOUS", "MALWARE"}), flags : PoolFlags]
    \cup [kind : Trees(DeepTree, {"dir", "unreadable"}, {"MALWARE", "nopath", "other", "unreadable", "ioerror"}),
          flags : WalkFlags]
    \cup [kind : Trees({<<>>}, {}, {"CLEAN", "MALWARE", "other", "dir"}), flags : WalkFlags]
=============================================================================
