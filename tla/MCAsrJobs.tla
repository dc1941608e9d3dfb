----------------------------- MODULE MCAsrJobs -----------------------------
(* AsrJobs on small sets.  Job ids, clients and workers are interchangeable. *)
EXTENDS AsrJobs, TLC

Symmetry == Permutations(JobIds) \cup Permutations(Clients) \cup Permutations(Workers)
              \cup Permutations(Fingerprints)
=============================================================================
