-------------------------- MODULE BlockTreeProofs ---------------------------
(***************************************************************************)
(* Facts about the chains of a tree of blocks.  Chain[b] is a least fixed  *)
(* point, so each of them is proved by naming a set that holds b and the   *)
(* predecessor of each of its blocks.                                      *)
(***************************************************************************)
EXTENDS BlockTree, TLAPS, WellFoundedInduction

(* A chain holds its tip, only blocks, and the predecessor of each of its  *)
(* blocks; it is contained in every set with these properties.             *)
LEMMA ChainBasics ==
    ASSUME NEW b \in Blocks
    PROVE  /\ b \in Chain[b]
           /\ Chain[b] \subseteq Blocks
           /\ \A x \in Chain[b] \ {Genesis} : Prev[x] \in Chain[b]
  BY ChainAssumption DEF Chain

LEMMA ChainLeast ==
    ASSUME NEW b \in Blocks, NEW S, S \subseteq Blocks, b \in S,
           \A x \in S \ {Genesis} : Prev[x] \in S
    PROVE  Chain[b] \subseteq S
  BY DEF Chain

(* The chain of the genesis block is that block alone.                     *)
LEMMA ChainGenesis == Chain[Genesis] = {Genesis}
<1>1. Genesis \in Blocks
  BY ChainAssumption
<1>2. Genesis \in Chain[Genesis]
  BY <1>1, ChainBasics
<1>3. Chain[Genesis] \subseteq {Genesis}
  <2> DEFINE S == {Genesis}
  <2>1. S \subseteq Blocks /\ Genesis \in S /\ \A x \in S \ {Genesis} : Prev[x] \in S
    BY <1>1
  <2> HIDE DEF S
  <2>2. Chain[Genesis] \subseteq S
    BY <1>1, <2>1, ChainLeast
  <2> QED
    BY <2>2 DEF S
<1> QED
  BY <1>2, <1>3

(* The chain of a block is the block and the chain of its predecessor.     *)
LEMMA ChainStep ==
    ASSUME NEW b \in Blocks \ {Genesis}
    PROVE  /\ Prev[b] \in Blocks
           /\ Chain[b] = {b} \cup Chain[Prev[b]]
<1>1. Prev[b] \in Blocks
  BY ChainAssumption
<1>2. Chain[b] \subseteq {b} \cup Chain[Prev[b]]
  <2> DEFINE S == {b} \cup Chain[Prev[b]]
  <2>1. S \subseteq Blocks /\ b \in S /\ \A x \in S \ {Genesis} : Prev[x] \in S
    BY <1>1, ChainBasics
  <2> HIDE DEF S
  <2>2. Chain[b] \subseteq S
    BY <2>1, ChainLeast
  <2> QED
    BY <2>2 DEF S
<1>3. Chain[Prev[b]] \subseteq Chain[b]
  BY <1>1, ChainBasics, ChainLeast
<1> QED
  BY <1>1, <1>2, <1>3, ChainBasics

(* A block on a chain has its own chain within it.                         *)
LEMMA ChainWithin ==
    ASSUME NEW b \in Blocks, NEW a \in Chain[b]
    PROVE  a \in Blocks /\ Chain[a] \subseteq Chain[b]
  BY ChainBasics, ChainLeast

(* Heights and trusts grow along a chain.                                  *)
LEMMA ChainBelow ==
    ASSUME NEW b \in Blocks, NEW a \in Chain[b], a # b
    PROVE  Height[a] < Height[b] /\ Trust[a] < Trust[b]
<1> DEFINE S == {x \in Blocks : Height[x] < Height[b] /\ Trust[x] < Trust[b]}
<1>1. CASE b = Genesis
  BY <1>1, ChainGenesis
<1>2. CASE b # Genesis
  <2>1. Prev[b] \in Blocks /\ a \in Chain[Prev[b]]
    BY <1>2, ChainStep
  <2>2. Prev[b] \in S
    BY <1>2, <2>1, ChainAssumption
  <2>3. \A x \in S \ {Genesis} : Prev[x] \in S
    BY ChainAssumption
  <2>4. Chain[Prev[b]] \subseteq S
    BY <2>1, <2>2, <2>3, ChainLeast
  <2> QED
    BY <2>1, <2>4
<1> QED
  BY <1>1, <1>2

(* Of two blocks of a chain one is on the chain of the other.              *)
LEMMA ChainLinear ==
    ASSUME NEW b \in Blocks, NEW x \in Chain[b], NEW y \in Chain[b]
    PROVE  x \in Chain[y] \/ y \in Chain[x]
<1> DEFINE S == {z \in Chain[b] : x \in Chain[z] \/ z \in Chain[x]}
<1>1. x \in Blocks /\ S \subseteq Blocks
  BY ChainBasics
<1>2. b \in S
  BY ChainBasics
<1>3. ASSUME NEW z \in S \ {Genesis}
      PROVE  Prev[z] \in S
  <2>1. z \in Blocks \ {Genesis} /\ Prev[z] \in Chain[b]
    BY ChainBasics
  <2>2. Chain[z] = {z} \cup Chain[Prev[z]]
    BY <2>1, ChainStep
  <2>3. CASE z \in Chain[x]
    BY <1>1, <2>1, <2>3, ChainBasics
  <2>4. CASE x \in Chain[z] /\ z \notin Chain[x]
    BY <1>1, <2>1, <2>2, <2>4, ChainBasics
  <2> QED
    BY <2>3, <2>4
<1>4. Chain[b] \subseteq S
  BY <1>1, <1>2, <1>3, ChainLeast
<1> QED
  BY <1>4

(* A block has at most one child on a chain.                               *)
LEMMA NextUnique ==
    ASSUME NEW b \in Blocks, NEW x \in Chain[b] \ {Genesis}, NEW y \in Chain[b] \ {Genesis},
           Prev[x] = Prev[y]
    PROVE  x = y
<1>1. x \in Blocks /\ y \in Blocks
  BY ChainBasics
<1>2. Height[x] = Height[y] /\ Height[x] \in Nat
  BY <1>1, ChainAssumption
<1>3. x \in Chain[y] \/ y \in Chain[x]
  BY ChainLinear
<1> QED
  BY <1>1, <1>2, <1>3, ChainBelow

(* A set of blocks that holds the predecessor of each of its blocks holds  *)
(* their chains.                                                           *)
LEMMA ClosedHoldsChains ==
    ASSUME NEW S, S \subseteq Blocks, \A x \in S \ {Genesis} : Prev[x] \in S, NEW b \in S
    PROVE  Chain[b] \subseteq S
  BY ChainLeast

(* A non-empty set of naturals has a least element.                        *)
LEMMA LeastOf ==
    ASSUME NEW T, T \subseteq Nat, T # {}
    PROVE  \E m \in T : \A k \in T : m <= k
<1> DEFINE R == OpToRel(<, Nat)
<1>1. \E m \in T : \A k \in T : ~(<<k, m>> \in R)
  <2>1. IsWellFoundedOn(R, Nat)
    BY NatLessThanWellFounded
  <2> HIDE DEF R
  <2> QED
    BY <2>1, WFMin
<1>2. PICK m \in T : \A k \in T : ~(<<k, m>> \in R)
  BY <1>1
<1>3. \A k \in T : ~(k < m)
  BY <1>2 DEF OpToRel
<1> QED
  BY <1>3

(* Every chain starts at the genesis block: its lowest block has no        *)
(* predecessor.                                                            *)
LEMMA GenesisOnChain ==
    ASSUME NEW b \in Blocks
    PROVE  Genesis \in Chain[b]
<1> DEFINE H == {Height[x] : x \in Chain[b]}
<1>1. H \subseteq Nat /\ H # {}
  BY ChainBasics, ChainAssumption
<1> HIDE DEF H
<1>2. PICK m \in H : \A k \in H : m <= k
  BY <1>1, LeastOf
<1> USE DEF H
<1>3. PICK x \in Chain[b] : m = Height[x]
  BY <1>2
<1>4. ASSUME x # Genesis
      PROVE  FALSE
  <2>1. x \in Blocks \ {Genesis} /\ Prev[x] \in Chain[b] /\ Prev[x] \in Blocks
    BY <1>4, ChainBasics
  <2>2. Height[x] = Height[Prev[x]] + 1 /\ Height[Prev[x]] \in Nat
    BY <2>1, ChainAssumption
  <2>3. Height[x] <= Height[Prev[x]]
    BY <1>2, <1>3, <2>1
  <2> QED
    BY <2>2, <2>3
<1> QED
  BY <1>3, <1>4
=============================================================================
