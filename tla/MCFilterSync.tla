---------------------------- MODULE MCFilterSync ----------------------------
(***************************************************************************)
(* Small instances of FilterSync for TLC: nodes are model values, and the  *)
(* ranges are so short that several are needed for the chain.              *)
(***************************************************************************)
EXTENDS FilterSync

\* The nodes that a run has are honest or liars, never both: the two together are
\* too large for TLC.  The timer calls into the behaviors of liars only.
OneKind ==
  /\ \/ \A n \in Honest : node[n] = "new"
     \/ \A n \in Nodes \ Honest : node[n] = "new"
  /\ \A n \in Honest : pc[n]["tick"] \in {"idle", "headers"}

OneKindSpec == Init /\ [][Next /\ OneKind']_vars
=============================================================================
