----------------------------- MODULE MCInterpose -----------------------------
(* Instances of Interpose for TLC: a thread that computes a graph of two
   nodes, of which one is not traced, and one that allocates one tensor. *)
EXTENDS Interpose, TLC

CONSTANTS t1, t2, a, b, c
TwoGraphs == (t1 :> <<a, b>>) @@ (t2 :> <<c>>)
Sizes == (a :> 1) @@ (b :> 2) @@ (c :> 4)

\* ggml_graph_compute_with_ctx (which calls ggml_graph_compute), ggml_graph_compute,
\* viz_graph_compute and ggml_gallocr_alloc_graph.
Kinds == ("with_ctx" :> "compute") @@ ("graph" :> "compute") @@ ("legacy" :> "quiet")
           @@ ("alloc_graph" :> "graph")
Users == (t1 :> {"with_ctx", "legacy"}) @@ (t2 :> {"alloc_graph"})
Inners == [f \in DOMAIN Kinds |-> IF f = "with_ctx" THEN "graph" ELSE None]
=============================================================================
