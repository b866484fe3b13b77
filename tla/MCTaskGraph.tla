---------------------------- MODULE MCTaskGraph ----------------------------
(***************************************************************************)
(* Small instances of TaskGraph.  The tasks are registered in the fixed    *)
(* order a, b, c; since dependencies may point in either direction,        *)
(* every registration order of every graph is covered.                     *)
(***************************************************************************)
EXTENDS TaskGraph

CONSTANTS a, b, c

NoDeps == [t \in Tasks |-> <<>>]

\* Duplicate-free lists of members of S, at most two long.
ShortLists(S) ==
    {<<>>} \cup {<<x>> : x \in S} \cup {s \in S \X S : s[1] # s[2]}

Acyclical(ds) ==
    \A S \in SUBSET Tasks :
        S # {} => \E t \in S : \A i \in DOMAIN ds[t] : ds[t][i] \notin S

GraphsOver(seq, ds, fs) ==
    {[order |-> seq, deps |-> x, finally |-> f, optional |-> f] : x \in ds, f \in fs}

\* Every DAG over three tasks, every dependency order; none, one or two finally tasks.
AllDags == {x \in [Tasks -> ShortLists(Tasks)] : Acyclical(x)}
ThreeTasks == GraphsOver(<<a, b, c>>, AllDags, {{}, {b}, {b, c}})

\* The empty graph, grown by add() alone.
EmptyGraph == GraphsOver(<<>>, {NoDeps}, {{}})
AnyDeps == ShortLists(Tasks)

\* a and b independent, c after b: the smallest graph with a descendant that
\* depends on a future other than the one whose callback is running.
Vee == GraphsOver(<<a, b, c>>, {[NoDeps EXCEPT ![c] = <<b>>]}, {{}})

\* b after a; c is not in the graph.
Chain == GraphsOver(<<a, b>>, {[NoDeps EXCEPT ![b] = <<a>>]}, {{}})
=============================================================================
