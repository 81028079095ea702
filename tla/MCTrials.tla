------------------------------ MODULE MCTrials ------------------------------
(* Trials on small instances: matrices, trials by hand, correctness runs. *)
EXTENDS Trials, TLC

MCRunIdOf == [t \in Trials_ |-> IF t \in Matrices THEN "matrix" ELSE t]

\* Two cases of a code, qr_2 and qr_10.
MCCases == << "qr", "qr" >>

\* What a matrix of the same run-id left behind after three rounds.
MCLeftover ==
  {<< "matrix", r, "warmup", 1 >> : r \in Runtimes}
  \cup {<< "matrix", r, "measured", i >> : r \in Runtimes, i \in 1 .. 3}

\* No constant tells two correctness runs apart.
RunSymmetry == Permutations(Drivers)
=============================================================================
