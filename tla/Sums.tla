--------------------------------- MODULE Sums ---------------------------------
(***************************************************************************)
(* Sums of numbers and of sequences, as recursive functions: the folds of  *)
(* the community modules choose an order in which to go over a set, and    *)
(* nothing could be proved about them.                                     *)
(***************************************************************************)
EXTENDS Naturals, Sequences

\* f[1] + ... + f[n]
SumTo(f, n) ==
    LET sum[k \in 0..n] == IF k = 0 THEN 0 ELSE sum[k - 1] + f[k]
    IN sum[n]

\* f[1] \o ... \o f[n]
JoinTo(f, n) ==
    LET join[k \in 0..n] == IF k = 0 THEN <<>> ELSE join[k - 1] \o f[k]
    IN join[n]

==============================================================================
