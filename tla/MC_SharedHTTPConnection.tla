---------------------- MODULE MC_SharedHTTPConnection ----------------------
(* Model-checking instance of SharedHTTPConnection: the sets of threads,  *)
(* objects, ids, URLs, headers and bodies are model values in the cfg.    *)
EXTENDS SharedHTTPConnection

\* Threads, objects, ids and valid URLs are interchangeable: nothing in the
\* code compares them other than for equality.
Symmetry ==
    Permutations(Threads) \cup Permutations(Slots) \cup Permutations(Ids)
        \cup Permutations(Urls)

=============================================================================
