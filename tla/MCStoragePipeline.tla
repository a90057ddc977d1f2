-------------------------- MODULE MCStoragePipeline --------------------------
\* Shutdown alone, one request, or two requests, with a batch of two rows.
EXTENDS StoragePipeline, TLC

CONSTANTS roll1, roll2, delete1

MCWriters == 1 .. Cardinality(Requests) + 1
MCKind == [r \in Requests |-> IF r = delete1 THEN "delete" ELSE "roll"]

\* Requests of one kind, for invariants.
RollSymmetry == Permutations(Requests)

\* Bound: no more than one event in behaviours in which two requests overlap.
OverlapBound == overlapped => published <= 1
=============================================================================
