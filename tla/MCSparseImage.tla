--------------------------- MODULE MCSparseImage ---------------------------
(* Sparse files of up to four chunks of one or two blocks.                 *)
EXTENDS SparseImage

Chunks(types) == [type : types, blocks : 1 .. 2]
FilesOf(types) == UNION {[1 .. n -> Chunks(types)] : n \in 1 .. 4}

\* Raw data first, then raw data and gaps in every order.
MCRawFirst == {f \in FilesOf({"raw", "skip"}) : f[1].type = "raw"}

\* An image that begins with an area to skip.
MCSkipFirst == {f \in FilesOf({"raw", "skip"}) : f[1].type = "skip" /\ Len(f) <= 2}
=============================================================================
