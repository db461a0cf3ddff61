---------------------------- MODULE MCHttpStream ----------------------------
(* Instances of HttpStream for TLC. *)
EXTENDS HttpStream

CONSTANTS d1, d2, file, r1, s1, s2, k1

\* Two downloads to one destination, the first with a second URL to try.
MCDest == [d \in {d1, d2} |-> file]
MCUrls == (d1 :> 2) @@ (d2 :> 1)
=============================================================================
