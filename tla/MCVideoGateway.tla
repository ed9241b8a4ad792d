--------------------------- MODULE MCVideoGateway ---------------------------
(* Instances of VideoGateway for TLC: one instance, two uploads of files    *)
(* that have names of their own.                                            *)
EXTENDS VideoGateway, TLC

CONSTANTS r1, r2, i1

OneServer == [r \in {r1, r2} |-> i1]
OwnPaths  == [r \in {r1, r2} |-> r]

\* Nothing distinguishes the two uploads.
Interchangeable == Permutations({r1, r2})

\* At most two things go wrong: faults of the pipeline or a stream that breaks.
TwoFailures == faults + breaks <= 2

\* Files without a chunk, or with two: one more than a broken stream can leave.
NoOrTwoChunks == \A r \in Requests : size[r] # 1
=============================================================================
