---------------------------- MODULE MCCasBackend ----------------------------
(* The block store for TLC: blocks and processes are interchangeable.       *)
EXTENDS CasBackend, TLC

Interchangeable == Permutations(Blocks) \union Permutations(Processes)

\* Errors of refused puts are never looked at again, by no action and no invariant:
\* states that differ only in them are one.
WithoutRefusals ==
  <<file, cache, call, confirmed, {f \in failed : ~ f.refused}, raced, torn, lost, losses>>
=============================================================================
