------------------------------ MODULE Algorand ------------------------------
(***************************************************************************)
(* The sortition and vote layer: class Algorand, of which every node holds *)
(* one object, g_algorand.  This module has no variables: it gives the     *)
(* object's state as a record and each method as an operator from the      *)
(* record to the record (or to the value the method returns).              *)
(*                                                                         *)
(* Abstractions.  A public key is the node that owns it.  A VRF proof is   *)
(* determined by its signer and by the seed it signs, so a data package    *)
(* carries the two and no proof.  A block hash is a member of Value, and   *)
(* the seed reset() cuts out of it is Prefix(value).  The binomial lottery *)
(* is the constant operator Draw: Draw(n, s, w) is the number of votes n   *)
(* obtains from its proof on seed s with wallet w.  sum_w is 400 once the  *)
(* keys are exchanged and no operation changes it afterwards, so Draw does *)
(* not take it.                                                            *)
(***************************************************************************)
EXTENDS Nodes

CONSTANTS
    Value,          \* the block hashes
    WarmUp,         \* the hash main() runs the first sortition for
    Genesis,        \* the seed every node starts from
    Prefix(_),      \* the first characters of a block hash: the next seed
    FirstChar(_),   \* the code of the first character of a seed
    Draw(_, _, _)   \* votes drawn by a node, from a seed, with a wallet

Seed == {Genesis} \cup {Prefix(v) : v \in Value}

\* 100 to begin with, then whatever execute() makes of a character.
Wallet == 2 .. 200

ASSUME WarmUpAssumption == WarmUp \in Value

\* A block hash has more characters than a seed, and no two blocks of a run
\* agree on all of them; the initial seed is not made of hexadecimal digits.
ASSUME PrefixAssumption ==
    /\ \A v \in Value : Prefix(v) # Genesis
    /\ \A u, v \in Value : Prefix(u) = Prefix(v) => u = v

ASSUME FirstCharAssumption == \A s \in Seed : FirstChar(s) \in 0..127

ASSUME DrawAssumption ==
    \A n \in Node, s \in Seed, w \in Wallet : Draw(n, s, w) \in Nat

\* What the nodes send each other of the layer: struct dataPackage.
DataPackage == [node : Node, seed : Seed, value : Value, j : Nat]

Object ==
    [ seed : Seed,                  \* what the next proof is made on
      m_block : Value,              \* the last value given to sortition()
      counts : [Value -> Nat],      \* votes per value in this round
      countvotes_pk : SUBSET Node,  \* whose vote was counted in this round
      m_wallet : Wallet,
      wallet : [Node -> Wallet] ]

\* After init(), the warm-up sortition of main() and the key exchange.
InitialObject ==
    [ seed |-> Genesis,
      m_block |-> WarmUp,
      counts |-> [v \in Value |-> 0],
      countvotes_pk |-> {},
      m_wallet |-> 100,
      wallet |-> [n \in Node |-> 100] ]

\* Definitions named X_Y are what X would be with mistake Y; no specification
\* uses them.  They show which property notices the mistake.

Sortition_KeepsBlock(a, self, value) == [a EXCEPT !.wallet[self] = a.m_wallet]

\* What sortition() leaves behind in the object of node self.
Sortition(a, self, value) ==
    [a EXCEPT !.m_block = value, !.wallet[self] = a.m_wallet]

\* The package the callers of sortition() send: the proof is on a.seed.
Ticket(a, self, value) ==
    [ node |-> self,
      seed |-> a.seed,
      value |-> value,
      j |-> Draw(self, a.seed, a.m_wallet) ]

Invalid == -1

\* verify(): the votes of a valid proof, computed from the verifier's own
\* record of the prover's wallet; Invalid for a proof on another seed.
Verify(a, dp) ==
    IF dp.seed = a.seed THEN Draw(dp.node, a.seed, a.wallet[dp.node])
                        ELSE Invalid

CountVotes_Repeatedly(a, dp) ==
    [a EXCEPT !.countvotes_pk = @ \cup {dp.node}, !.counts[dp.value] = @ + dp.j]

\* countVotes(): a key already seen this round is refused ("double voting").
CountVotes(a, dp) ==
    IF dp.node \in a.countvotes_pk
    THEN a
    ELSE [a EXCEPT !.countvotes_pk = @ \cup {dp.node},
                   !.counts[dp.value] = @ + dp.j]

\* reset(): the round ends and the last block seen gives the next seed.
Reset(a) ==
    [a EXCEPT !.counts = [v \in Value |-> 0],
              !.countvotes_pk = {},
              !.seed = Prefix(a.m_block)]

Execute_Bankrupt(a, self, char) ==
    LET amount == (char % 100) * 2
    IN  [a EXCEPT !.m_wallet = amount, !.wallet[self] = amount]

\* execute(): the wallet becomes a function of the seed's first character.
Execute(a, self, char) ==
    LET amount == ((char % 100) + 1) * 2
    IN  [a EXCEPT !.m_wallet = amount, !.wallet[self] = amount]

=============================================================================
