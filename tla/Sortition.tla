------------------------------ MODULE Sortition ------------------------------
(***************************************************************************)
(* The lottery itself: how sortition() turns the hash of a proof into a    *)
(* number of votes, and how verify() does it again.  Both walk through the *)
(* binomial distribution of "how many of w coins win" until the interval   *)
(* the hash falls into is found.                                           *)
(*                                                                         *)
(* The code computes with doubles.  Here the probabilities are exact: all  *)
(* are whole multiples of Currency^-w, and a hash u stands for the         *)
(* fraction u / HashRange.                                                 *)
(***************************************************************************)
EXTENDS Integers, FiniteSets, Combinatorics

CONSTANTS
    Threshold,  \* expected number of votes: 20 in every call
    Currency,   \* W: the sum of all wallets
    HashRange,  \* 2^hashlen: how many values the hash is looked at for
    Wallets     \* bound: the wallets a node may hold, or is taken to hold

ASSUME LotteryAssumption ==
    /\ Currency \in Nat /\ Threshold \in 1 .. Currency - 1
    /\ HashRange \in Nat \ {0}
    /\ Wallets \subseteq Nat

VARIABLES
    upper,      \* the first bytes of the hash
    w,          \* the prover's wallet
    known,      \* what the verifier's map holds for the prover's key
    at,         \* where the two are: "sortition", "verify" or "done"
    j,          \* the votes tried
    drawn       \* dp.j: the votes sortition() returned

vars == <<upper, w, known, at, j, drawn>>

\* nCr() asked for more than n: r = n - r is negative and 1 comes out.
nCr(n, r) == IF r > n THEN 1 ELSE choose(n, r)

\* pow() of whole numbers.
Pow(b, n) == LET pow[i \in Nat] == IF i = 0 THEN 1 ELSE b * pow[i - 1] IN pow[n]

\* binary_distribution(k, n, p) and algorand_sum(0, end, n, p), in units of
\* Currency^-n.  What the code adds for k > n is left out: it is only reached
\* by a loop that never ends, and keeps it from ending.
binary_distribution(k, n) ==
    nCr(n, k) * (Pow(Threshold, k) * Pow(Currency - Threshold, n - k))

algorand_sum(end, n) ==
    LET sum[i \in Nat] ==
            IF i = 0 THEN binary_distribution(0, n)
            ELSE sum[i - 1] + (IF i <= n THEN binary_distribution(i, n) ELSE 0)
    IN  sum[end]

\* hash_div < algorand_sum(0, end, n, p)
HashBelow(end, n) == upper * Pow(Currency, n) < HashRange * algorand_sum(end, n)

\* Definitions named X_Y are what X would be with mistake Y; no specification
\* uses them.  They show which property notices the mistake.

Outside_HalfOpen(n) == HashBelow(j, n)
\* The condition of the while loop.
Outside(n) == HashBelow(j, n) \/ ~HashBelow(j + 1, n)

TypeOK ==
    /\ upper \in 0 .. HashRange - 1
    /\ w \in Wallets /\ known \in Wallets
    /\ at \in {"sortition", "verify", "done"}
    /\ j \in Nat /\ drawn \in Nat

Init ==
    /\ upper \in 0 .. HashRange - 1
    /\ w \in Wallets \ {0} /\ known \in Wallets
    /\ at = "sortition" /\ j = 0 /\ drawn = 0

\* One turn of the loop.  From n + 1 on nothing changes from turn to turn.
Turn(n) ==
    /\ Outside(n)
    /\ j' = IF j > n THEN j ELSE j + 1
    /\ UNCHANGED <<upper, w, known, at, drawn>>

SortitionTurn == at = "sortition" /\ Turn(w)
SortitionReturn_OneLess ==
    /\ at = "sortition" /\ ~Outside(w)
    /\ drawn' = j - 1 /\ j' = 0 /\ at' = "verify"
    /\ UNCHANGED <<upper, w, known>>
SortitionReturn_KeepsCounter ==
    /\ at = "sortition" /\ ~Outside(w)
    /\ drawn' = j /\ at' = "verify"
    /\ UNCHANGED <<upper, w, known, j>>
SortitionReturn ==
    /\ at = "sortition" /\ ~Outside(w)
    /\ drawn' = j /\ j' = 0 /\ at' = "verify"
    /\ UNCHANGED <<upper, w, known>>

\* verify() of a valid proof, on another node.
VerifyTurn == at = "verify" /\ Turn(known)
VerifyReturn_HalfOpen ==
    /\ at = "verify" /\ ~HashBelow(j, known)
    /\ at' = "done"
    /\ UNCHANGED <<upper, w, known, j, drawn>>
VerifyReturn ==
    /\ at = "verify" /\ ~Outside(known)
    /\ at' = "done"
    /\ UNCHANGED <<upper, w, known, j, drawn>>

Done == at = "done" /\ UNCHANGED vars

Next == \/ SortitionTurn \/ SortitionReturn
        \/ VerifyTurn \/ VerifyReturn
        \/ Done

Spec == Init /\ [][Next]_vars /\ WF_vars(Next)

-----------------------------------------------------------------------------
(* Properties *)

\* The reference: how many of the sums over no more than k wins lie at or
\* below the hash.  The votes are one less: the smallest sum is the chance
\* of no win at all, and a hash below it has no votes defined.
Wins(n) == Cardinality({k \in 0 .. n - 1 : ~HashBelow(k, n)})
DrawsTheQuantile ==
    /\ at \in {"verify", "done"} => drawn = Wins(w) - 1
    /\ at = "done" => j = Wins(known) - 1

\* A verifier that knows the prover's wallet confirms the votes claimed, and
\* one that takes the prover for richer never finds fewer.
VerifyAgrees ==
    at = "done" => /\ known = w => j = drawn
                   /\ known > w => j >= drawn

\* A hash that is not below the chance of winning nothing ends both loops.
Chosen(n) == Wins(n) > 0
ReturnsWhenChosen == (Chosen(w) /\ Chosen(known)) ~> (at = "done")

\* "return value will be the number of times the user was chosen": the loop
\* of sortition() does not run past the last number of votes there is.
SortitionReturns == at = "sortition" => j <= w
=============================================================================
