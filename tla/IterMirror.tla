------------------------------ MODULE IterMirror ------------------------------
(***************************************************************************)
(* A call of compare_iter seen in a mirror.                                 *)
(***************************************************************************)
EXTENDS CompareIter

\* The same call with its arguments, and so its answer, exchanged.
Mirror == INSTANCE CompareIter
  WITH left <- right, right <- left, nl <- nr, nr <- nl,
       lastcmp <- Reversed(lastcmp), res <- Reversed(res)

\* Every step of one call is a step of the call with the arguments exchanged, so that
\* compare_iter(r, l) is the reverse of compare_iter(l, r).
MirrorImage == Mirror!Init /\ [][Mirror!Next]_vars
==============================================================================
