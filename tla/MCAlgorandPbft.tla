---------------------------- MODULE MCAlgorandPbft ----------------------------
(* Instances of AlgorandPbft for TLC: block hashes and seeds are numbers. *)
EXTENDS AlgorandInvariant, TLC

MCWarmUp == -1
MCValue == -1 .. MaxBatch - 1
MCGenesis == 90
MCPrefix(v) == 100 + v

\* 'F' for the initial seed, then a digit or a letter: the three wallets that
\* follow are 142, 112 and 2.
MCFirstChar(s) == IF s = MCGenesis THEN 70 ELSE IF s % 2 = 0 THEN 55 ELSE 100

\* A poor node draws nothing; the others one or two votes, by the seed.
MCDraw(n, s, w) == IF w < 100 THEN 0 ELSE 1 + (s % 2)

ReplicaSymmetry == Permutations(Replica)
=============================================================================
