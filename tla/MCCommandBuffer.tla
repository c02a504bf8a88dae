-------------------------- MODULE MCCommandBuffer --------------------------
(* Instances of CommandBuffer for TLC: chains of three short patches, so that
   commands go through two buffers, and of two the first of which has enough
   commands for a search index of two slots. *)
EXTENDS CommandBuffer

Chain(readers, max_lens) == [readers |-> readers, max_lens |-> max_lens]

ShortAndLong == {Chain({"plain", "bsdiff"}, <<2, 3, 3>>),
                 Chain({"plain", "xdelta"}, <<5, 2>>)}
=============================================================================
