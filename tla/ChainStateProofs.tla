-------------------------- MODULE ChainStateProofs --------------------------
(***************************************************************************)
(* Proofs about ChainState, for every tree of blocks and every set of      *)
(* transactions that satisfy the assumptions of BlockTree.                 *)
(***************************************************************************)
EXTENDS ChainState, BlockTreeProofs

-----------------------------------------------------------------------------
(* The next pointers of a chain.                                           *)

LEMMA NextOfValue ==
    ASSUME NEW tip \in Blocks, NEW b \in Blocks
    PROVE  /\ \A x : IsNextOn(x, b, tip) => NextOf(tip)[b] = x
           /\ (\A x \in Blocks : ~IsNextOn(x, b, tip)) => NextOf(tip)[b] = None
           /\ NextOf(tip)[b] \in Blocks \cup {None}
<1>1. ASSUME NEW x, IsNextOn(x, b, tip)
      PROVE  NextOf(tip)[b] = x
  <2>1. x \in Blocks
    BY <1>1, ChainBasics DEF IsNextOn
  <2>2. \A y \in Blocks : IsNextOn(y, b, tip) => y = x
    BY <1>1, NextUnique DEF IsNextOn
  <2> QED
    BY <1>1, <2>1, <2>2 DEF NextOf
<1> QED
  BY <1>1 DEF NextOf

LEMMA NextOfType ==
    ASSUME NEW tip \in Blocks
    PROVE  NextOf(tip) \in [Blocks -> Blocks \cup {None}]
  BY NextOfValue DEF NextOf

(* A block off the chain, and its tip, have no next block.                 *)
LEMMA NextOfNone ==
    ASSUME NEW tip \in Blocks, NEW b \in Blocks, b \notin Chain[tip] \/ b = tip
    PROVE  NextOf(tip)[b] = None
<1>1. SUFFICES ASSUME NEW x \in Blocks, IsNextOn(x, b, tip)
               PROVE  FALSE
  BY NextOfValue
<1>2. x \in Chain[tip] \ {Genesis} /\ Prev[x] = b /\ b \in Chain[tip]
  BY <1>1, ChainBasics DEF IsNextOn
<1>3. Height[x] = Height[b] + 1 /\ Height[x] \in Nat /\ Height[b] \in Nat
  BY <1>2, ChainAssumption
<1>4. x = tip \/ Height[x] < Height[tip]
  BY <1>2, ChainBelow
<1> QED
  BY <1>2, <1>3, <1>4

(* Connecting x to its predecessor changes one pointer of the chain.       *)
LEMMA NextOfConnect ==
    ASSUME NEW x \in Blocks \ {Genesis}
    PROVE  NextOf(x) = [NextOf(Prev[x]) EXCEPT ![Prev[x]] = x]
<1>1. Prev[x] \in Blocks /\ Chain[x] = {x} \cup Chain[Prev[x]] /\ x \in Chain[x]
  BY ChainStep
<1>2. NextOf(x) \in [Blocks -> Blocks \cup {None}] /\ NextOf(Prev[x]) \in [Blocks -> Blocks \cup {None}]
  BY <1>1, NextOfType
<1>3. NextOf(x)[Prev[x]] = x
  BY <1>1, NextOfValue DEF IsNextOn
<1>4. ASSUME NEW b \in Blocks, b # Prev[x]
      PROVE  NextOf(x)[b] = NextOf(Prev[x])[b]
  <2>1. \A y : IsNextOn(y, b, x) <=> IsNextOn(y, b, Prev[x])
    BY <1>1, <1>4 DEF IsNextOn
  <2> QED
    BY <1>1, <1>4, <2>1, NextOfValue
<1> QED
  BY <1>2, <1>3, <1>4

LEMMA NextOfDisconnect ==
    ASSUME NEW x \in Blocks \ {Genesis}
    PROVE  NextOf(Prev[x]) = [NextOf(x) EXCEPT ![Prev[x]] = None]
<1>1. Prev[x] \in Blocks
  BY ChainStep
<1>2. NextOf(Prev[x]) \in [Blocks -> Blocks \cup {None}]
  BY <1>1, NextOfType
<1>3. NextOf(Prev[x])[Prev[x]] = None
  BY <1>1, NextOfNone
<1> QED
  BY <1>1, <1>2, <1>3, NextOfConnect

-----------------------------------------------------------------------------
(* The transaction index of a chain.                                       *)

Good(tip) == Validated(tip) /\ Sound(tip)

LEMMA TxFacts ==
    ASSUME NEW b \in Blocks
    PROVE  /\ TxsIn(b) \subseteq Txs
           /\ SpentBy(b) \subseteq Txs \X Nat
           /\ \A t : t \in TxsIn(b) <=> \E i \in 1 .. Len(Vtx[b]) : t = Vtx[b][i]
           /\ DOMAIN Vtx[b] = 1 .. Len(Vtx[b]) /\ Len(Vtx[b]) \in Nat
<1>1. Vtx[b] \in Seq(Txs)
  BY TxAssumption
<1>2. DOMAIN Vtx[b] = 1 .. Len(Vtx[b]) /\ Len(Vtx[b]) \in Nat
  BY <1>1
<1>3. \A i \in 1 .. Len(Vtx[b]) : Vtx[b][i] \in Txs
  BY <1>1
<1>4. TxsIn(b) \subseteq Txs
  BY <1>2, <1>3 DEF TxsIn
<1>5. SpentBy(b) \subseteq Txs \X Nat
  BY <1>4, TxAssumption DEF SpentBy
<1> QED
  BY <1>2, <1>4, <1>5 DEF TxsIn

LEMMA SpentOfMember ==
    ASSUME NEW b \in Blocks, NEW t, NEW n
    PROVE  n \in SpentOf(b, t) <=> <<t, n>> \in SpentBy(b)
<1>1. SpentBy(b) \subseteq Txs \X Nat
  BY TxFacts
<1>2. \A o \in SpentBy(b) : o = <<o[1], o[2]>>
  BY <1>1
<1> QED
  BY <1>2 DEF SpentOf

LEMMA GenesisHoldsNothing == TxsIn(Genesis) = {} /\ SpentBy(Genesis) = {}
  BY TxAssumption DEF TxsIn, SpentBy

LEMMA IndexOfGenesis ==
    /\ IndexOf(Chain[Genesis]) = [t \in {} |-> None]
    /\ Good(Genesis)
<1>1. TxsOf(Chain[Genesis]) = {}
  BY ChainGenesis, GenesisHoldsNothing DEF TxsOf
<1>2. Good(Genesis)
  BY ChainGenesis, GenesisHoldsNothing DEF Good, Validated, Sound, SpendsOnce
<1> QED
  BY <1>1, <1>2 DEF IndexOf

(* What the index of a sound chain says of a transaction.                  *)
LEMMA IndexOfValue ==
    ASSUME NEW tip \in Blocks, Sound(tip)
    PROVE  LET C == Chain[tip] IN
           /\ DOMAIN IndexOf(C) = TxsOf(C)
           /\ \A t \in TxsOf(C) : \A n : n \in IndexOf(C)[t].spent
                                        <=> \E c \in C : <<t, n>> \in SpentBy(c)
           /\ \A c \in C : \A t \in TxsIn(c) : IndexOf(C)[t].pos = c
<1> DEFINE C == Chain[tip]
<1>1. C \subseteq Blocks
  BY ChainBasics
<1>2. DOMAIN IndexOf(C) = TxsOf(C)
  BY DEF IndexOf
<1>3. ASSUME NEW t \in TxsOf(C), NEW n
      PROVE  n \in IndexOf(C)[t].spent <=> \E c \in C : <<t, n>> \in SpentBy(c)
  <2>1. IndexOf(C)[t].spent = UNION {SpentOf(c, t) : c \in C}
    BY DEF IndexOf
  <2> QED
    BY <1>1, <2>1, SpentOfMember
<1>4. ASSUME NEW c \in C, NEW t \in TxsIn(c)
      PROVE  IndexOf(C)[t].pos = c
  <2>1. t \in TxsOf(C)
    BY DEF TxsOf
  <2>2. IndexOf(C)[t].pos = CHOOSE d \in C : t \in TxsIn(d)
    BY <2>1 DEF IndexOf
  <2>3. \A d \in C : t \in TxsIn(d) => d = c
    BY DEF Sound, SpendsOnce
  <2> QED
    BY <2>2, <2>3
<1> QED
  BY <1>2, <1>3, <1>4

(* A block that ConnectBlock accepts on top of a sound chain holds none of *)
(* the chain's transactions: the first one it repeated would spend an      *)
(* output that the chain has spent.                                        *)
LEMMA ConnectableIsFresh ==
    ASSUME NEW b \in Blocks \ {Genesis}, Sound(Prev[b]),
           Connectable(IndexOf(Chain[Prev[b]]), b)
    PROVE  TxsIn(b) \cap TxsOf(Chain[Prev[b]]) = {}
<1> DEFINE C == Chain[Prev[b]]
           T == {i \in 1 .. Len(Vtx[b]) : Vtx[b][i] \in TxsOf(C)}
<1>1. Prev[b] \in Blocks /\ C \subseteq Blocks
  BY ChainStep, ChainBasics
<1>2. SUFFICES ASSUME T # {}
               PROVE  FALSE
  BY TxFacts
<1>3. PICK i \in T : \A k \in T : i <= k
  <2>1. T \subseteq Nat
    OBVIOUS
  <2> HIDE DEF T
  <2> QED
    BY <1>2, <2>1, LeastOf
<1> DEFINE t == Vtx[b][i]
<1>4. i \in DOMAIN Vtx[b] /\ t \in TxsIn(b) /\ t \in Txs
  BY TxFacts
<1>5. PICK c \in C : t \in TxsIn(c)
  BY DEF TxsOf
<1>6. CASE Vin[t] = {}
  <2>1. Height[b] = Height[c]
    BY <1>1, <1>4, <1>5, <1>6, TxAssumption
  <2>2. Height[b] = Height[Prev[b]] + 1 /\ Height[Prev[b]] \in Nat /\ Height[c] \in Nat
    BY <1>1, ChainAssumption
  <2>3. c = Prev[b] \/ Height[c] < Height[Prev[b]]
    BY <1>1, ChainBelow
  <2>4. Height[c] < Height[b]
    BY <2>2, <2>3
  <2> QED
    BY <2>1, <2>2, <2>4
<1>7. CASE Vin[t] # {}
  <2>1. PICK o \in Vin[t] : TRUE
    BY <1>7
  <2>2. o \in SpentBy(c) /\ o \in Txs \X Nat /\ o = <<o[1], o[2]>>
    <3>1. o \in SpentBy(c)
      BY <1>5, <2>1 DEF SpentBy
    <3> QED
      BY <1>4, <2>1, <3>1, TxAssumption
  <2>3. o[1] \in TxsOf(C)
    <3>1. o[1] \in TxsOf(Chain[c])
      BY <2>2 DEF Sound
    <3>2. Chain[c] \subseteq C
      BY <1>1, ChainWithin
    <3> QED
      BY <3>1, <3>2 DEF TxsOf
  <2>4. FindsInput(IndexOf(C), b, i, o)
    BY <1>4, <2>1 DEF Connectable
  <2>5. ~\E j \in 1 .. i - 1 : Vtx[b][j] = o[1]
    BY <1>3, <2>3
  <2>6. o[2] \notin IndexOf(C)[o[1]].spent
    BY <2>4, <2>5 DEF FindsInput
  <2>7. o[2] \in IndexOf(C)[o[1]].spent
    BY <1>1, <2>2, <2>3, IndexOfValue
  <2> QED
    BY <2>6, <2>7
<1> QED
  BY <1>6, <1>7

(* The first blocks of a good chain form a good chain.                     *)
LEMMA GoodBelow ==
    ASSUME NEW tip \in Blocks, Good(tip), NEW b \in Chain[tip]
    PROVE  Good(b)
<1>1. b \in Blocks /\ Chain[b] \subseteq Chain[tip]
  BY ChainWithin
<1> QED
  BY <1>1 DEF Good, Validated, Sound, SpendsOnce

(* ConnectBlock extends a good chain to a good chain.                      *)
LEMMA ConnectIsGood ==
    ASSUME NEW b \in Blocks \ {Genesis}, Good(Prev[b]),
           Connectable(IndexOf(Chain[Prev[b]]), b)
    PROVE  Good(b)
<1> DEFINE C == Chain[Prev[b]]
<1>1. Prev[b] \in Blocks /\ C \subseteq Blocks /\ Chain[b] = {b} \cup C
  BY ChainStep, ChainBasics
<1>2. Sound(Prev[b]) /\ Validated(Prev[b])
  BY DEF Good
<1>3. TxsIn(b) \cap TxsOf(C) = {}
  BY <1>2, ConnectableIsFresh
<1>4. Validated(b)
  BY <1>1, <1>2 DEF Validated
<1>5. ASSUME NEW o \in SpentBy(b)
      PROVE  /\ o[1] \in TxsOf(Chain[b])
             /\ o[2] < NOut[o[1]]
             /\ \A c \in C : o \notin SpentBy(c)
  <2>1. PICK i \in DOMAIN Vtx[b] : o \in Vin[Vtx[b][i]]
    BY TxFacts DEF SpentBy
  <2>2. FindsInput(IndexOf(C), b, i, o)
    BY <2>1 DEF Connectable
  <2>3. o = <<o[1], o[2]>>
    <3>1. o \in Txs \X Nat
      BY TxFacts
    <3> QED
      BY <3>1
  <2>4. CASE \E j \in 1 .. i - 1 : Vtx[b][j] = o[1]
    <3>1. o[1] \in TxsIn(b)
      BY <2>1, <2>4, TxFacts
    <3>2. ASSUME NEW c \in C, o \in SpentBy(c)
          PROVE  FALSE
      <4>1. o[1] \in TxsOf(Chain[c])
        BY <1>2, <3>2 DEF Sound
      <4>2. Chain[c] \subseteq C
        BY <1>1, ChainWithin
      <4> QED
        BY <1>3, <3>1, <4>1, <4>2 DEF TxsOf
    <3> QED
      BY <1>1, <2>2, <3>1, <3>2 DEF FindsInput, TxsOf
  <2>5. CASE ~\E j \in 1 .. i - 1 : Vtx[b][j] = o[1]
    <3>1. o[1] \in DOMAIN IndexOf(C) /\ o[2] \notin IndexOf(C)[o[1]].spent
      BY <2>2, <2>5 DEF FindsInput
    <3>2. o[1] \in TxsOf(C)
      BY <3>1 DEF IndexOf
    <3>3. ASSUME NEW c \in C
          PROVE  o \notin SpentBy(c)
      BY <1>1, <1>2, <2>3, <3>1, <3>2, IndexOfValue
    <3> QED
      BY <1>1, <2>2, <3>2, <3>3 DEF FindsInput, TxsOf
  <2> QED
    BY <2>4, <2>5
<1>6. ASSUME NEW t \in TxsIn(b), NEW u \in TxsIn(b), t # u
      PROVE  Vin[t] \cap Vin[u] = {}
  <2>1. PICK i \in DOMAIN Vtx[b] : t = Vtx[b][i]
    BY TxFacts
  <2>2. PICK j \in DOMAIN Vtx[b] : u = Vtx[b][j]
    BY TxFacts
  <2> QED
    BY <1>6, <2>1, <2>2 DEF Connectable
<1>7. ASSUME NEW c \in Chain[b], NEW d \in Chain[b], c # d
      PROVE  TxsIn(c) \cap TxsIn(d) = {} /\ SpentBy(c) \cap SpentBy(d) = {}
  <2>1. CASE c \in C /\ d \in C
    BY <1>2, <1>7, <2>1 DEF Sound, SpendsOnce
  <2>2. \A e \in C : TxsIn(b) \cap TxsIn(e) = {} /\ SpentBy(b) \cap SpentBy(e) = {}
    BY <1>3, <1>5 DEF TxsOf
  <2> QED
    BY <1>1, <1>7, <2>1, <2>2
<1>8. SpendsOnce(b)
  BY <1>1, <1>2, <1>6, <1>7 DEF Sound, SpendsOnce
<1>9. Sound(b)
  BY <1>1, <1>2, <1>5, <1>8 DEF Sound
<1> QED
  BY <1>4, <1>9 DEF Good

(* A sound chain splits into its last block b and the chain C below, which *)
(* shares no transaction and no spent output with b and spends nothing     *)
(* that b creates.                                                         *)
LEMMA SoundSplit ==
    ASSUME NEW b \in Blocks \ {Genesis}, Sound(b)
    PROVE  LET C == Chain[Prev[b]] IN
           /\ Prev[b] \in Blocks /\ C \subseteq Blocks /\ Chain[b] = {b} \cup C
           /\ b \notin C
           /\ Sound(Prev[b])
           /\ TxsOf(Chain[b]) = TxsOf(C) \cup TxsIn(b)
           /\ TxsIn(b) \cap TxsOf(C) = {}
           /\ \A c \in C : SpentBy(c) \cap SpentBy(b) = {}
           /\ \A c \in C : \A o \in SpentBy(c) : o[1] \in TxsOf(C)
<1> DEFINE C == Chain[Prev[b]]
<1>1. Prev[b] \in Blocks /\ C \subseteq Blocks /\ Chain[b] = {b} \cup C
  BY ChainStep, ChainBasics
<1>2. b \notin C
  <2>1. Height[Prev[b]] < Height[b] /\ Height[Prev[b]] \in Nat /\ Height[b] \in Nat
    BY <1>1, ChainAssumption
  <2>2. ASSUME b \in C PROVE Height[b] <= Height[Prev[b]]
    BY <1>1, <2>1, <2>2, ChainBelow
  <2> QED
    BY <2>1, <2>2
<1>3. Sound(Prev[b])
  BY <1>1 DEF Sound, SpendsOnce
<1>4. TxsOf(Chain[b]) = TxsOf(C) \cup TxsIn(b)
  BY <1>1 DEF TxsOf
<1>5. \A c \in C : TxsIn(c) \cap TxsIn(b) = {} /\ SpentBy(c) \cap SpentBy(b) = {}
  BY <1>1, <1>2 DEF Sound, SpendsOnce
<1>6. \A c \in C : \A o \in SpentBy(c) : o[1] \in TxsOf(C)
  <2>1. \A c \in C : Chain[c] \subseteq C
    BY <1>1, ChainWithin
  <2> QED
    BY <1>3, <2>1 DEF Sound, TxsOf
<1> QED
  BY <1>1, <1>2, <1>3, <1>4, <1>5, <1>6 DEF TxsOf

(* The index of a chain, entry by entry: the form in which ConnectTxs and  *)
(* DisconnectTxs build it.                                                 *)
LEMMA IndexOfEntry ==
    ASSUME NEW tip \in Blocks, Sound(tip), NEW t \in TxsOf(Chain[tip])
    PROVE  /\ IndexOf(Chain[tip])[t] = [pos   |-> IndexOf(Chain[tip])[t].pos,
                                        spent |-> IndexOf(Chain[tip])[t].spent]
           /\ IndexOf(Chain[tip])[t].spent \subseteq Nat
           /\ IndexOf(Chain[tip])[t].pos \in Blocks
<1> DEFINE C == Chain[tip]
<1>1. IndexOf(C)[t] = [pos |-> CHOOSE b \in C : t \in TxsIn(b), spent |-> UNION {SpentOf(b, t) : b \in C}]
  BY DEF IndexOf
<1>2. IndexOf(C)[t].spent \subseteq Nat
  <2>1. \A n \in IndexOf(C)[t].spent : \E c \in C : <<t, n>> \in SpentBy(c)
    BY IndexOfValue
  <2>2. \A c \in C : SpentBy(c) \subseteq Txs \X Nat
    BY ChainBasics, TxFacts
  <2> QED
    BY <2>1, <2>2
<1>3. PICK c \in C : t \in TxsIn(c)
  BY DEF TxsOf
<1>4. IndexOf(C)[t].pos \in Blocks
  BY <1>3, IndexOfValue, ChainBasics
<1> QED
  BY <1>1, <1>2, <1>4

(* ConnectBlock turns the index of the chain below b into that of b.       *)
LEMMA ConnectIndex ==
    ASSUME NEW b \in Blocks \ {Genesis}, Sound(b)
    PROVE  ConnectTxs(IndexOf(Chain[Prev[b]]), b) = IndexOf(Chain[b])
<1> DEFINE C == Chain[Prev[b]]
           D == Chain[b]
           New == ConnectTxs(IndexOf(C), b)
<1>1. /\ Prev[b] \in Blocks /\ C \subseteq Blocks /\ D = {b} \cup C
      /\ Sound(Prev[b])
      /\ TxsOf(D) = TxsOf(C) \cup TxsIn(b)
      /\ TxsIn(b) \cap TxsOf(C) = {}
      /\ \A c \in C : \A o \in SpentBy(c) : o[1] \in TxsOf(C)
  BY SoundSplit
<1>2. DOMAIN New = TxsOf(D)
  BY <1>1, IndexOfValue DEF ConnectTxs
<1>3. ASSUME NEW t \in TxsOf(D)
      PROVE  New[t] = IndexOf(D)[t]
  <2>1. New[t] = [pos   |-> IF t \in TxsIn(b) THEN b ELSE IndexOf(C)[t].pos,
                  spent |-> (IF t \in TxsIn(b) THEN {} ELSE IndexOf(C)[t].spent) \cup SpentOf(b, t)]
    BY <1>1, <1>2 DEF ConnectTxs
  <2>2. \A n : n \in IndexOf(D)[t].spent <=> \E c \in D : <<t, n>> \in SpentBy(c)
    BY IndexOfValue
  <2>3. \A n : n \in SpentOf(b, t) <=> <<t, n>> \in SpentBy(b)
    BY SpentOfMember
  <2>4. CASE t \in TxsIn(b)
    <3>1. IndexOf(D)[t].pos = b
      BY <1>1, <2>4, IndexOfValue
    <3>2. \A n : \A c \in C : <<t, n>> \notin SpentBy(c)
      BY <1>1, <2>4
    <3>3. IndexOf(D)[t].spent = SpentOf(b, t)
      BY <1>1, <2>2, <2>3, <3>2
    <3> QED
      BY <2>1, <2>4, <3>1, <3>3, IndexOfEntry
  <2>5. CASE t \notin TxsIn(b)
    <3>1. t \in TxsOf(C)
      BY <1>1, <2>5
    <3>2. PICK c \in C : t \in TxsIn(c)
      BY <3>1 DEF TxsOf
    <3>3. IndexOf(D)[t].pos = c /\ IndexOf(C)[t].pos = c
      BY <1>1, <3>2, IndexOfValue
    <3>4. \A n : n \in IndexOf(C)[t].spent <=> \E d \in C : <<t, n>> \in SpentBy(d)
      BY <1>1, <3>1, IndexOfValue
    <3>5. IndexOf(D)[t].spent = IndexOf(C)[t].spent \cup SpentOf(b, t)
      BY <1>1, <2>2, <2>3, <3>4
    <3>6. IndexOf(D)[t] = [pos |-> IndexOf(D)[t].pos, spent |-> IndexOf(D)[t].spent]
      BY IndexOfEntry
    <3>7. New[t] = [pos |-> IndexOf(C)[t].pos, spent |-> IndexOf(C)[t].spent \cup SpentOf(b, t)]
      BY <2>1, <2>5
    <3> HIDE DEF New, C, D
    <3> QED
      BY <3>3, <3>5, <3>6, <3>7
  <2> QED
    BY <2>4, <2>5
<1>4. New = [t \in DOMAIN New |-> New[t]]
  BY DEF ConnectTxs
<1>5. IndexOf(D) = [t \in TxsOf(D) |-> IndexOf(D)[t]]
  BY DEF IndexOf
<1> HIDE DEF New, D, C
<1>6. New = IndexOf(D)
  BY <1>2, <1>3, <1>4, <1>5
<1> QED
  BY <1>6 DEF New, D, C

(* DisconnectBlock turns the index of b's chain into that of the chain     *)
(* below b.                                                                *)
LEMMA DisconnectIndex ==
    ASSUME NEW b \in Blocks \ {Genesis}, Sound(b)
    PROVE  DisconnectTxs(IndexOf(Chain[b]), b) = IndexOf(Chain[Prev[b]])
<1> DEFINE C == Chain[Prev[b]]
           D == Chain[b]
           Old == DisconnectTxs(IndexOf(D), b)
<1>1. /\ Prev[b] \in Blocks /\ C \subseteq Blocks /\ D = {b} \cup C
      /\ Sound(Prev[b])
      /\ TxsOf(D) = TxsOf(C) \cup TxsIn(b)
      /\ TxsIn(b) \cap TxsOf(C) = {}
      /\ \A c \in C : SpentBy(c) \cap SpentBy(b) = {}
  BY SoundSplit
<1>2. DOMAIN Old = TxsOf(C)
  <2>1. DOMAIN Old = DOMAIN IndexOf(D) \ TxsIn(b)
    BY DEF DisconnectTxs
  <2>2. DOMAIN IndexOf(D) = TxsOf(D)
    BY IndexOfValue
  <2> QED
    BY <1>1, <2>1, <2>2
<1>3. ASSUME NEW t \in TxsOf(C)
      PROVE  Old[t] = IndexOf(C)[t]
  <2>1. Old[t] = [pos |-> IndexOf(D)[t].pos, spent |-> IndexOf(D)[t].spent \ SpentOf(b, t)]
    <3>1. t \in DOMAIN Old
      BY <1>2
    <3> QED
      BY <3>1 DEF DisconnectTxs
  <2>2. PICK c \in C : t \in TxsIn(c)
    BY DEF TxsOf
  <2>3. IndexOf(D)[t].pos = c /\ IndexOf(C)[t].pos = c
    BY <1>1, <2>2, IndexOfValue
  <2>4. \A n : n \in IndexOf(C)[t].spent <=> \E d \in C : <<t, n>> \in SpentBy(d)
    BY <1>1, IndexOfValue
  <2>5. \A n : n \in IndexOf(D)[t].spent <=> \E d \in D : <<t, n>> \in SpentBy(d)
    BY <1>1, IndexOfValue
  <2>6. \A n : n \in SpentOf(b, t) <=> <<t, n>> \in SpentBy(b)
    BY SpentOfMember
  <2>7. IndexOf(C)[t].spent = IndexOf(D)[t].spent \ SpentOf(b, t)
    BY <1>1, <2>4, <2>5, <2>6
  <2>8. IndexOf(C)[t] = [pos |-> IndexOf(C)[t].pos, spent |-> IndexOf(C)[t].spent]
    BY <1>1, IndexOfEntry
  <2> HIDE DEF Old, C, D
  <2> QED
    BY <2>1, <2>3, <2>7, <2>8
<1>4. Old = [t \in DOMAIN Old |-> Old[t]]
  BY DEF DisconnectTxs
<1>5. IndexOf(C) = [t \in TxsOf(C) |-> IndexOf(C)[t]]
  BY DEF IndexOf
<1> HIDE DEF Old, D, C
<1>6. Old = IndexOf(C)
  BY <1>2, <1>3, <1>4, <1>5
<1> QED
  BY <1>6 DEF Old, D, C

-----------------------------------------------------------------------------
(* The inductive invariant.                                                *)

Working == pc \in {"disconnect", "connect", "extend", "postponed"}

(* Memory and disk know the predecessor of each block they know.           *)
RootedInv ==
    /\ \A b \in mapBlockIndex \ {Genesis} : Prev[b] \in mapBlockIndex
    /\ \A b \in disk.bidx \ {Genesis} : Prev[b] \in disk.bidx
    /\ mapBlockIndex \subseteq disk.bidx
    /\ pindexBest \in mapBlockIndex
    /\ disk.hashBestChain \in mapBlockIndex

(* What the local variables of SetBestChain are, phase by phase.           *)
JobInv ==
    /\ ~Working => batch = NoBatch
    /\ pc # "idle" =>
          /\ job.pindexNew \in mapBlockIndex \ {Genesis}
          /\ Trust[pindexBest] < Trust[job.pindexNew]
    /\ pc \in {"idle", "begin", "disconnect", "connect", "extend"} =>
          Trust[disk.hashBestChain] <= Trust[pindexBest]
    /\ pc \in {"secondary", "postponed", "finish"} =>
          Trust[disk.hashBestChain] <= Trust[job.pindexNew]
    /\ Working =>
          /\ IsDatabase(batch)
          /\ batch.bidx = disk.bidx
          /\ job.pindexIntermediate \in Chain[job.pindexNew] \ {Genesis}
          /\ Trust[pindexBest] < Trust[job.pindexIntermediate]
    /\ pc \in {"disconnect", "connect"} =>
          IsFork(job.pfork, pindexBest, job.pindexIntermediate)
    /\ pc = "disconnect" =>
          /\ job.cursor \in Chain[pindexBest]
          /\ job.cursor # job.pfork
          /\ job.pfork \in Chain[job.cursor]
    /\ pc = "connect" =>
          /\ job.cursor \in Chain[job.pindexIntermediate]
          /\ job.pfork \in Chain[job.cursor]
    /\ pc = "extend" =>
          /\ job.pfork = pindexBest
          /\ Prev[job.pindexIntermediate] = pindexBest
          /\ job.cursor \in {job.pfork, job.pindexIntermediate}
    /\ pc = "postponed" =>
          /\ job.pfork = disk.hashBestChain
          /\ Prev[job.pindexIntermediate] = disk.hashBestChain
          /\ job.cursor \in {job.pfork, job.pindexIntermediate}
    /\ pc = "secondary" =>
          /\ job.cursor = disk.hashBestChain
          /\ job.cursor \in Chain[job.pindexNew]
          /\ Trust[pindexBest] < Trust[job.cursor]

(* The database is that of a good chain, and the open batch turns it into  *)
(* that of the good chain which ends at the cursor.                        *)
ConsistentInv ==
    ~tainted =>
        /\ disk.txindex = IndexOf(Chain[disk.hashBestChain])
        /\ Good(disk.hashBestChain)
        /\ disk.hashNext = NextOf(disk.hashBestChain)
        /\ pnext = NextOf(disk.hashBestChain)
        /\ pc \in {"disconnect", "connect", "extend"} => pindexBest = disk.hashBestChain
        /\ Working =>
              /\ batch.txindex = IndexOf(Chain[job.cursor])
              /\ Good(job.cursor)
              /\ batch.hashNext = NextOf(job.cursor)

Inv == TypeOK /\ RootedInv /\ JobInv /\ ConsistentInv

-----------------------------------------------------------------------------
(* What the steps on the database and on pnext yield.                      *)

LEMMA SpentOfType ==
    ASSUME NEW b \in Blocks, NEW t
    PROVE  SpentOf(b, t) \subseteq Nat
<1>1. SpentBy(b) \subseteq Txs \X Nat
  BY TxFacts
<1> QED
  BY <1>1 DEF SpentOf

LEMMA ConnectInType ==
    ASSUME NEW d, IsDatabase(d), pnext \in [Blocks -> Blocks \cup {None}],
           NEW x \in Blocks \ {Genesis}
    PROVE  /\ IsDatabase(ConnectIn(d, x))
           /\ ConnectIn(d, x).bidx = d.bidx \cup {x, Prev[x]}
           /\ ConnectIn(d, x).hashNext = [d.hashNext EXCEPT ![x] = pnext[x], ![Prev[x]] = x]
           /\ ConnectIn(d, x).hashBestChain = d.hashBestChain
           /\ ConnectIn(d, x).txindex = ConnectTxs(d.txindex, x)
<1>1. Prev[x] \in Blocks /\ x \in Blocks
  BY ChainStep
<1>2. IsIndex(ConnectTxs(d.txindex, x))
  <2>1. DOMAIN d.txindex \subseteq Txs /\ d.txindex \in [DOMAIN d.txindex -> Entry]
    BY DEF IsDatabase, IsIndex
  <2>2. TxsIn(x) \subseteq Txs
    BY TxFacts
  <2>3. \A t : SpentOf(x, t) \subseteq Nat
    BY SpentOfType
  <2>4. DOMAIN ConnectTxs(d.txindex, x) = DOMAIN d.txindex \cup TxsIn(x)
    BY DEF ConnectTxs
  <2>5. ASSUME NEW t \in DOMAIN d.txindex \cup TxsIn(x)
        PROVE  ConnectTxs(d.txindex, x)[t] \in Entry
    <3> DEFINE ps == IF t \in TxsIn(x) THEN x ELSE d.txindex[t].pos
               sp == (IF t \in TxsIn(x) THEN {} ELSE d.txindex[t].spent) \cup SpentOf(x, t)
    <3>1. ConnectTxs(d.txindex, x)[t] = [pos |-> ps, spent |-> sp]
      BY DEF ConnectTxs
    <3>2. t \notin TxsIn(x) => d.txindex[t].pos \in Blocks /\ d.txindex[t].spent \subseteq Nat
      BY <2>1 DEF Entry
    <3>3. ps \in Blocks /\ sp \subseteq Nat
      BY <1>1, <2>3, <3>2
    <3> HIDE DEF ps, sp
    <3> QED
      BY <3>1, <3>3 DEF Entry
  <2>6. ConnectTxs(d.txindex, x) \in [DOMAIN d.txindex \cup TxsIn(x) -> Entry]
    BY <2>5 DEF ConnectTxs
  <2> QED
    BY <2>1, <2>2, <2>4, <2>6 DEF IsIndex
<1>3. d \in [bidx : SUBSET Blocks, hashNext : [Blocks -> Blocks \cup {None}],
             hashBestChain : Blocks, txindex : {d.txindex}]
  BY DEF IsDatabase
<1>4. /\ ConnectIn(d, x).bidx = d.bidx \cup {x, Prev[x]}
      /\ ConnectIn(d, x).hashNext = [d.hashNext EXCEPT ![x] = pnext[x], ![Prev[x]] = x]
      /\ ConnectIn(d, x).hashBestChain = d.hashBestChain
      /\ ConnectIn(d, x).txindex = ConnectTxs(d.txindex, x)
      /\ ConnectIn(d, x) \in [bidx : SUBSET Blocks, hashNext : [Blocks -> Blocks \cup {None}],
             hashBestChain : Blocks, txindex : {ConnectTxs(d.txindex, x)}]
  BY <1>1, <1>3 DEF ConnectIn
<1> QED
  BY <1>2, <1>4 DEF IsDatabase

LEMMA DisconnectInType ==
    ASSUME NEW d, IsDatabase(d), NEW x \in Blocks \ {Genesis}
    PROVE  /\ IsDatabase(DisconnectIn(d, x))
           /\ DisconnectIn(d, x).bidx = d.bidx \cup {Prev[x]}
           /\ DisconnectIn(d, x).hashNext = [d.hashNext EXCEPT ![Prev[x]] = None]
           /\ DisconnectIn(d, x).hashBestChain = d.hashBestChain
           /\ DisconnectIn(d, x).txindex = DisconnectTxs(d.txindex, x)
<1>1. Prev[x] \in Blocks /\ x \in Blocks
  BY ChainStep
<1>2. IsIndex(DisconnectTxs(d.txindex, x))
  <2>1. DOMAIN d.txindex \subseteq Txs /\ d.txindex \in [DOMAIN d.txindex -> Entry]
    BY DEF IsDatabase, IsIndex
  <2>2. DOMAIN DisconnectTxs(d.txindex, x) = DOMAIN d.txindex \ TxsIn(x)
    BY DEF DisconnectTxs
  <2>3. ASSUME NEW t \in DOMAIN d.txindex \ TxsIn(x)
        PROVE  DisconnectTxs(d.txindex, x)[t] \in Entry
    <3>1. d.txindex[t].pos \in Blocks /\ d.txindex[t].spent \subseteq Nat
      BY <2>1 DEF Entry
    <3>2. DisconnectTxs(d.txindex, x)[t]
             = [pos |-> d.txindex[t].pos, spent |-> d.txindex[t].spent \ SpentOf(x, t)]
      BY DEF DisconnectTxs
    <3> QED
      BY <3>1, <3>2 DEF Entry
  <2>4. DisconnectTxs(d.txindex, x) \in [DOMAIN d.txindex \ TxsIn(x) -> Entry]
    BY <2>3 DEF DisconnectTxs
  <2> QED
    BY <2>1, <2>2, <2>4 DEF IsIndex
<1>3. d \in [bidx : SUBSET Blocks, hashNext : [Blocks -> Blocks \cup {None}],
             hashBestChain : Blocks, txindex : {d.txindex}]
  BY DEF IsDatabase
<1>4. /\ DisconnectIn(d, x).bidx = d.bidx \cup {Prev[x]}
      /\ DisconnectIn(d, x).hashNext = [d.hashNext EXCEPT ![Prev[x]] = None]
      /\ DisconnectIn(d, x).hashBestChain = d.hashBestChain
      /\ DisconnectIn(d, x).txindex = DisconnectTxs(d.txindex, x)
      /\ DisconnectIn(d, x) \in [bidx : SUBSET Blocks, hashNext : [Blocks -> Blocks \cup {None}],
             hashBestChain : Blocks, txindex : {DisconnectTxs(d.txindex, x)}]
  BY <1>1, <1>3 DEF DisconnectIn
<1> QED
  BY <1>2, <1>4 DEF IsDatabase

LEMMA NewEntryType ==
    ASSUME NEW d, IsDatabase(d), NEW b \in Blocks
    PROVE  LET e == [d EXCEPT !.bidx = @ \cup {b}, !.hashNext = [@ EXCEPT ![b] = None]] IN
           /\ e.hashBestChain = d.hashBestChain /\ e.txindex = d.txindex
           /\ e.bidx = d.bidx \cup {b} /\ e.hashNext = [d.hashNext EXCEPT ![b] = None]
           /\ IsDatabase(e)
<1> DEFINE e == [d EXCEPT !.bidx = @ \cup {b}, !.hashNext = [@ EXCEPT ![b] = None]]
<1>1. d \in [bidx : SUBSET Blocks, hashNext : [Blocks -> Blocks \cup {None}],
             hashBestChain : Blocks, txindex : {d.txindex}]
  BY DEF IsDatabase
<1>2. /\ e.hashBestChain = d.hashBestChain /\ e.txindex = d.txindex
      /\ e.bidx = d.bidx \cup {b} /\ e.hashNext = [d.hashNext EXCEPT ![b] = None]
      /\ e \in [bidx : SUBSET Blocks, hashNext : [Blocks -> Blocks \cup {None}],
                hashBestChain : Blocks, txindex : {d.txindex}]
  BY <1>1
<1> QED
  BY <1>2 DEF IsDatabase

(* The pnext pointers after a commit: those of the new tip, if they were   *)
(* those of the old one and both chains hold the fork.                     *)
LEMMA CommittedPointers ==
    ASSUME NEW best \in Blocks, NEW tip \in Blocks, NEW fork \in Chain[best] \cap Chain[tip]
    PROVE  LET left == Chain[best] \ Chain[fork]
               joined == Chain[tip] \ Chain[fork]
           IN NextOf(tip) = [b \in Blocks |->
                IF \E x \in joined : Prev[x] = b THEN CHOOSE x \in joined : Prev[x] = b
                ELSE IF \E x \in left : Prev[x] = b THEN None ELSE NextOf(best)[b]]
<1> DEFINE left == Chain[best] \ Chain[fork]
           joined == Chain[tip] \ Chain[fork]
           F == [b \in Blocks |->
                IF \E x \in joined : Prev[x] = b THEN CHOOSE x \in joined : Prev[x] = b
                ELSE IF \E x \in left : Prev[x] = b THEN None ELSE NextOf(best)[b]]
<1>1. fork \in Blocks /\ Chain[fork] \subseteq Chain[best] /\ Chain[fork] \subseteq Chain[tip]
  BY ChainWithin
<1>2. Genesis \notin left /\ Genesis \notin joined
  <2>1. Genesis \in Chain[fork]
    BY <1>1, GenesisOnChain
  <2> QED
    BY <2>1
<1>3. ASSUME NEW b \in Blocks
      PROVE  F[b] = NextOf(tip)[b]
  <2>1. CASE \E x \in joined : Prev[x] = b
    <3>1. PICK x \in joined : Prev[x] = b
      BY <2>1
    <3>2. \A y \in joined : Prev[y] = b => y = x
      BY <1>2, <3>1, NextUnique
    <3>3. F[b] = x
      BY <3>1, <3>2
    <3>4. IsNextOn(x, b, tip)
      BY <1>2, <3>1 DEF IsNextOn
    <3> QED
      BY <3>3, <3>4, NextOfValue
  <2>2. CASE (~\E x \in joined : Prev[x] = b) /\ (\E x \in left : Prev[x] = b)
    <3>1. F[b] = None
      BY <2>2
    <3>2. PICK y \in left : Prev[y] = b
      BY <2>2
    <3>3. ASSUME NEW x \in Blocks, IsNextOn(x, b, tip)
          PROVE  FALSE
      <4>1. x \in Chain[fork] \ {Genesis} /\ Prev[x] = b
        BY <2>2, <3>3 DEF IsNextOn
      <4>2. x = y
        BY <1>1, <1>2, <3>2, <4>1, NextUnique
      <4> QED
        BY <3>2, <4>1, <4>2
    <3> QED
      BY <3>1, <3>3, NextOfValue
  <2>3. CASE (~\E x \in joined : Prev[x] = b) /\ ~(\E x \in left : Prev[x] = b)
    <3>1. F[b] = NextOf(best)[b]
      BY <2>3
    <3>2. \A x : IsNextOn(x, b, tip) <=> IsNextOn(x, b, best)
      BY <1>1, <2>3 DEF IsNextOn
    <3> QED
      BY <3>1, <3>2, NextOfValue
  <2> QED
    BY <2>1, <2>2, <2>3
<1>4. NextOf(tip) = [b \in Blocks |-> NextOf(tip)[b]]
  BY DEF NextOf
<1>5. F = [b \in Blocks |-> F[b]]
  OBVIOUS
<1> HIDE DEF F
<1>6. NextOf(tip) = F
  BY <1>3, <1>4, <1>5
<1> QED
  BY <1>6 DEF F

-----------------------------------------------------------------------------
(* Every step keeps the invariant: one lemma per action.                   *)

(* The chain of a known block is known.                                    *)
LEMMA KnownChains ==
    ASSUME Inv, NEW b \in mapBlockIndex
    PROVE  b \in Blocks /\ Chain[b] \subseteq mapBlockIndex
  BY ClosedHoldsChains DEF Inv, TypeOK, RootedInv

LEMMA InitInv == Init => Inv
<1> SUFFICES ASSUME Init PROVE Inv
  OBVIOUS
<1> USE DEF Init
<1>1. Genesis \in Blocks
  BY ChainAssumption
<1>2. IsDatabase(disk)
  <2>1. IsIndex(disk.txindex)
    BY DEF IsIndex
  <2> QED
    BY <1>1, <2>1 DEF IsDatabase
<1>3. TypeOK
  BY <1>1, <1>2 DEF TypeOK, Phases, NoJob
<1>4. RootedInv
  BY DEF RootedInv
<1>5. JobInv
  BY <1>1, ChainAssumption DEF JobInv, Working
<1>6. NextOf(Genesis) = [b \in Blocks |-> None]
  <2>1. \A b \in Blocks : NextOf(Genesis)[b] = None
    BY <1>1, ChainGenesis, NextOfNone
  <2> QED
    BY <1>1, <2>1, NextOfType
<1>7. ConsistentInv
  BY <1>6, IndexOfGenesis DEF ConsistentInv, Working
<1> QED
  BY <1>3, <1>4, <1>5, <1>7 DEF Inv

LEMMA AddToBlockIndexInv ==
    ASSUME Inv, NEW b \in Blocks, AddToBlockIndex(b)
    PROVE  Inv'
<1> USE DEF Inv
<1>1. /\ b \notin mapBlockIndex /\ b # Genesis /\ Prev[b] \in mapBlockIndex /\ pc = "idle"
      /\ mapBlockIndex' = mapBlockIndex \cup {b}
      /\ pnext' = [pnext EXCEPT ![b] = None]
      /\ disk' = [disk EXCEPT !.bidx = @ \cup {b}, !.hashNext = [@ EXCEPT ![b] = None]]
      /\ pindexBest' = pindexBest /\ batch' = batch /\ tainted' = tainted
  BY DEF AddToBlockIndex
<1>2. /\ disk'.hashBestChain = disk.hashBestChain /\ disk'.txindex = disk.txindex
      /\ disk'.bidx = disk.bidx \cup {b} /\ disk'.hashNext = [disk.hashNext EXCEPT ![b] = None]
      /\ IsDatabase(disk')
  <2>1. IsDatabase(disk)
    BY DEF TypeOK
  <2>2. IsDatabase([disk EXCEPT !.bidx = @ \cup {b}, !.hashNext = [@ EXCEPT ![b] = None]])
    BY <2>1, NewEntryType
  <2> QED
    BY <1>1, <2>1, <2>2, NewEntryType
<1>3. /\ pc' \in {"begin", "idle"} /\ ~Working /\ ~Working'
      /\ job' \in {NoJob, [NoJob EXCEPT !.pindexNew = b]}
      /\ returned' \in BOOLEAN
      /\ pc' = "begin" => job' = [NoJob EXCEPT !.pindexNew = b] /\ Trust[b] > Trust[pindexBest]
  BY DEF AddToBlockIndex, Return, TypeOK, Working
<1>4. TypeOK'
  BY <1>1, <1>2, <1>3, ChainAssumption DEF TypeOK, Phases, NoJob
<1>5. RootedInv'
  BY <1>1, <1>2 DEF RootedInv
<1>6. JobInv'
  BY <1>1, <1>2, <1>3 DEF JobInv, Working, TypeOK, NoJob
<1>7. ConsistentInv'
  <2>1. NextOf(disk.hashBestChain)[b] = None
    BY <1>1, KnownChains, NextOfNone DEF RootedInv
  <2>2. NextOf(disk.hashBestChain) \in [Blocks -> Blocks \cup {None}]
    BY KnownChains, NextOfType DEF RootedInv
  <2> QED
    BY <1>1, <1>2, <1>3, <2>1, <2>2 DEF ConsistentInv, Working
<1> QED
  BY <1>4, <1>5, <1>6, <1>7

LEMMA SetBestChainInv ==
    ASSUME Inv, SetBestChain
    PROVE  Inv'
<1> USE DEF Inv
<1>1. /\ pc = "begin" /\ batch' = disk /\ disk' = disk /\ pindexBest' = pindexBest
      /\ mapBlockIndex' = mapBlockIndex /\ pnext' = pnext /\ returned' = returned
      /\ tainted' = (tainted \/ pindexBest # disk.hashBestChain)
  BY DEF SetBestChain, memory
<1>2. /\ job.pindexNew \in mapBlockIndex \ {Genesis}
      /\ Trust[pindexBest] < Trust[job.pindexNew]
      /\ Trust[disk.hashBestChain] <= Trust[pindexBest]
  BY <1>1 DEF JobInv
<1>3. job.pindexNew \in Blocks /\ pindexBest \in Blocks /\ disk.hashBestChain \in Blocks
  BY <1>2 DEF TypeOK, IsDatabase
<1>4. RootedInv'
  BY <1>1 DEF RootedInv
<1>5. tainted' \in BOOLEAN
  BY <1>1 DEF TypeOK
<1>6. CASE /\ Prev[job.pindexNew] = pindexBest
           /\ pc' = "extend"
           /\ job' = [job EXCEPT !.pindexIntermediate = job.pindexNew,
                                 !.pfork = pindexBest, !.cursor = pindexBest]
  <2>1. /\ job'.pindexNew = job.pindexNew /\ job'.pindexIntermediate = job.pindexNew
        /\ job'.pfork = pindexBest /\ job'.cursor = pindexBest
    BY <1>6 DEF TypeOK
  <2>2. TypeOK'
    BY <1>1, <1>3, <1>5, <1>6 DEF TypeOK, Phases
  <2>3. JobInv'
    BY <1>1, <1>2, <1>3, <1>6, <2>1, ChainBasics DEF JobInv, Working, TypeOK
  <2>4. ConsistentInv'
    BY <1>1, <1>6, <2>1 DEF ConsistentInv, Working
  <2> QED
    BY <1>4, <2>2, <2>3, <2>4
<1>7. ASSUME NEW i \in Chain[job.pindexNew] \ {Genesis}, NEW f \in Blocks,
             Trust[pindexBest] < Trust[i],
             IsFork(f, pindexBest, i),
             pc' = IF f = pindexBest THEN "connect" ELSE "disconnect",
             job' = [job EXCEPT !.pindexIntermediate = i, !.pfork = f, !.cursor = pindexBest]
      PROVE  Inv'
  <2>1. /\ job'.pindexNew = job.pindexNew /\ job'.pindexIntermediate = i
        /\ job'.pfork = f /\ job'.cursor = pindexBest
    BY <1>7 DEF TypeOK
  <2>2. i \in Blocks
    BY <1>3, ChainBasics
  <2>3. f \in Chain[pindexBest] /\ f \in Chain[i]
    BY <1>7 DEF IsFork
  <2>4. TypeOK'
    BY <1>1, <1>3, <1>5, <1>7, <2>2 DEF TypeOK, Phases
  <2>5. pindexBest \in Chain[pindexBest]
    BY <1>3, ChainBasics
  <2>6. JobInv'
    BY <1>1, <1>2, <1>3, <1>7, <2>1, <2>3, <2>5 DEF JobInv, Working, TypeOK
  <2>7. ConsistentInv'
    BY <1>1, <1>7, <2>1 DEF ConsistentInv, Working
  <2> QED
    BY <1>4, <2>4, <2>6, <2>7
<1> QED
  BY <1>6, <1>7 DEF SetBestChain

LEMMA DisconnectBlockInv ==
    ASSUME Inv, DisconnectBlock
    PROVE  Inv'
<1> USE DEF Inv
<1> DEFINE c == job.cursor
<1>1. /\ pc = "disconnect" /\ disk' = disk /\ pindexBest' = pindexBest
      /\ mapBlockIndex' = mapBlockIndex /\ pnext' = pnext /\ returned' = returned
      /\ tainted' = tainted
      /\ batch' = DisconnectIn(batch, c)
      /\ job' = [job EXCEPT !.cursor = Prev[@]]
      /\ pc' = IF Prev[c] = job.pfork THEN "connect" ELSE "disconnect"
  BY DEF DisconnectBlock, memory
<1>2. /\ c \in Chain[pindexBest] /\ c # job.pfork /\ job.pfork \in Chain[c]
      /\ IsFork(job.pfork, pindexBest, job.pindexIntermediate)
      /\ IsDatabase(batch) /\ batch.bidx = disk.bidx
  BY <1>1 DEF JobInv, Working
<1>3. pindexBest \in Blocks /\ c \in Blocks \ {Genesis}
  <2>1. pindexBest \in Blocks /\ c \in Blocks
    BY <1>2, ChainBasics DEF TypeOK
  <2> QED
    BY <1>2, <2>1, ChainGenesis
<1>4. /\ Prev[c] \in Blocks
      /\ Prev[c] \in Chain[pindexBest]
      /\ job.pfork \in Chain[Prev[c]]
  BY <1>2, <1>3, ChainStep, ChainBasics
<1>5. /\ job'.pindexNew = job.pindexNew /\ job'.pindexIntermediate = job.pindexIntermediate
      /\ job'.pfork = job.pfork /\ job'.cursor = Prev[c]
  BY <1>1 DEF TypeOK
<1>6. /\ IsDatabase(batch')
      /\ batch'.bidx = batch.bidx \cup {Prev[c]}
      /\ batch'.hashNext = [batch.hashNext EXCEPT ![Prev[c]] = None]
      /\ batch'.txindex = DisconnectTxs(batch.txindex, c)
  BY <1>1, <1>2, <1>3, DisconnectInType
<1>7. batch'.bidx = disk.bidx
  BY <1>2, <1>4, <1>6, KnownChains DEF RootedInv
<1>8. TypeOK'
  BY <1>1, <1>4, <1>6 DEF TypeOK, Phases
<1>9. RootedInv'
  BY <1>1 DEF RootedInv
<1>10. JobInv'
  <2>1. job.pfork \in Chain[job.pindexIntermediate]
    BY <1>2 DEF IsFork
  <2>2. CASE Prev[c] = job.pfork
    BY <1>1, <1>2, <1>4, <1>5, <1>6, <1>7, <2>1, <2>2 DEF JobInv, Working
  <2>3. CASE Prev[c] # job.pfork
    BY <1>1, <1>2, <1>4, <1>5, <1>6, <1>7, <2>1, <2>3 DEF JobInv, Working
  <2> QED
    BY <2>2, <2>3
<1>11. ConsistentInv'
  <2> SUFFICES ASSUME ~tainted
               PROVE  ConsistentInv'
    BY <1>1 DEF ConsistentInv
  <2>1. /\ batch.txindex = IndexOf(Chain[c]) /\ Good(c) /\ batch.hashNext = NextOf(c)
    BY <1>1 DEF ConsistentInv, Working
  <2>2. Sound(c)
    BY <2>1 DEF Good
  <2>3. batch'.txindex = IndexOf(Chain[Prev[c]])
    BY <1>3, <1>6, <2>1, <2>2, DisconnectIndex
  <2>4. Prev[c] \in Chain[c]
    BY <1>3, ChainBasics
  <2>5. Good(Prev[c])
    BY <1>3, <2>1, <2>4, GoodBelow
  <2>6. batch'.hashNext = NextOf(Prev[c])
    BY <1>3, <1>6, <2>1, NextOfDisconnect
  <2> QED
    BY <1>1, <1>5, <2>3, <2>5, <2>6 DEF ConsistentInv, Working
<1> QED
  BY <1>8, <1>9, <1>10, <1>11

LEMMA ConnectBlockInv ==
    ASSUME Inv, NEW x \in Blocks, ConnectBlock(x)
    PROVE  Inv'
<1> USE DEF Inv
<1> DEFINE c == job.cursor
           i == job.pindexIntermediate
<1>1. /\ pc \in {"connect", "extend", "postponed"}
      /\ pc' = pc /\ disk' = disk /\ pindexBest' = pindexBest
      /\ mapBlockIndex' = mapBlockIndex /\ pnext' = pnext /\ returned' = returned
      /\ tainted' = tainted
      /\ x \in Chain[i] \ {Genesis} /\ Prev[x] = c
      /\ Connectable(batch.txindex, x)
      /\ batch' = ConnectIn(batch, x)
      /\ job' = [job EXCEPT !.cursor = x]
  BY DEF ConnectBlock, memory, IsNextOn
<1>2. /\ job.pindexNew \in mapBlockIndex /\ i \in Chain[job.pindexNew] \ {Genesis}
      /\ IsDatabase(batch) /\ batch.bidx = disk.bidx
  BY <1>1 DEF JobInv, Working
<1>3. /\ i \in Blocks \ {Genesis} /\ x \in Blocks \ {Genesis} /\ c \in Blocks
      /\ disk.hashBestChain \in Blocks /\ pindexBest \in Blocks
      /\ x \in mapBlockIndex /\ c \in mapBlockIndex
  <2>1. job.pindexNew \in Blocks /\ Chain[job.pindexNew] \subseteq mapBlockIndex
    BY <1>2, KnownChains
  <2>2. i \in Blocks /\ Chain[i] \subseteq Chain[job.pindexNew]
    BY <1>2, <2>1, ChainWithin
  <2>3. c \in Chain[i] /\ Chain[i] \subseteq Blocks
    BY <1>1, <2>2, ChainBasics
  <2> QED
    BY <1>1, <1>2, <2>1, <2>2, <2>3 DEF TypeOK, IsDatabase
<1>4. Height[x] = Height[c] + 1 /\ Height[x] \in Nat /\ Height[c] \in Nat
  BY <1>1, <1>3, ChainAssumption
<1>5. /\ job'.pindexNew = job.pindexNew /\ job'.pindexIntermediate = i
      /\ job'.pfork = job.pfork /\ job'.cursor = x
  BY <1>1 DEF TypeOK
<1>6. /\ IsDatabase(batch')
      /\ batch'.bidx = disk.bidx
      /\ batch'.hashNext = [batch.hashNext EXCEPT ![x] = pnext[x], ![c] = x]
      /\ batch'.txindex = ConnectTxs(batch.txindex, x)
  <2>1. pnext \in [Blocks -> Blocks \cup {None}]
    BY DEF TypeOK
  <2>2. /\ IsDatabase(batch')
        /\ batch'.bidx = batch.bidx \cup {x, c}
        /\ batch'.hashNext = [batch.hashNext EXCEPT ![x] = pnext[x], ![c] = x]
        /\ batch'.txindex = ConnectTxs(batch.txindex, x)
    BY <1>1, <1>2, <1>3, <2>1, ConnectInType
  <2>3. {x, c} \subseteq disk.bidx
    BY <1>3 DEF RootedInv
  <2> QED
    BY <1>2, <2>2, <2>3
<1>7. pc \in {"extend", "postponed"} => x = i /\ c = job.pfork
  <2> SUFFICES ASSUME pc \in {"extend", "postponed"}
               PROVE  x = i /\ c = job.pfork
    OBVIOUS
  <2>1. c \in {job.pfork, i} /\ job.pfork = Prev[i]
    BY DEF JobInv
  <2>2. c # i
    BY <1>1, <1>3, <1>4, ChainBelow, ChainAssumption
  <2>3. i \in Chain[i]
    BY <1>3, ChainBasics
  <2> QED
    BY <1>1, <1>3, <2>1, <2>2, <2>3, NextUnique
<1>8. TypeOK'
  BY <1>1, <1>6 DEF TypeOK
<1>9. RootedInv'
  BY <1>1 DEF RootedInv
<1>10. JobInv'
  <2>1. CASE pc = "connect"
    <3>1. c \in Chain[x] /\ Chain[c] \subseteq Chain[x]
      BY <1>1, <1>3, ChainStep, ChainBasics
    <3> QED
      BY <1>1, <1>2, <1>5, <1>6, <2>1, <3>1 DEF JobInv, Working
  <2>2. CASE pc \in {"extend", "postponed"}
    BY <1>1, <1>2, <1>5, <1>6, <1>7, <2>2 DEF JobInv, Working
  <2> QED
    BY <1>1, <2>1, <2>2
<1>11. ConsistentInv'
  <2> SUFFICES ASSUME ~tainted
               PROVE  ConsistentInv'
    BY <1>1 DEF ConsistentInv
  <2>1. /\ batch.txindex = IndexOf(Chain[c]) /\ Good(c) /\ batch.hashNext = NextOf(c)
        /\ pnext = NextOf(disk.hashBestChain)
        /\ pc \in {"connect", "extend"} => pindexBest = disk.hashBestChain
    BY <1>1 DEF ConsistentInv, Working
  <2>2. Good(x)
    BY <1>1, <1>3, <2>1, ConnectIsGood
  <2>3. batch'.txindex = IndexOf(Chain[x])
    BY <1>1, <1>3, <1>6, <2>1, <2>2, ConnectIndex DEF Good
  <2>4. x \notin Chain[disk.hashBestChain]
    <3>1. CASE pc = "connect"
      <4>1. IsFork(job.pfork, pindexBest, i) /\ job.pfork \in Chain[c]
        BY <3>1 DEF JobInv
      <4>2. job.pfork \in Blocks /\ Height[job.pfork] \in Nat
        BY <1>3, <4>1, ChainBasics, ChainAssumption
      <4>3. Height[job.pfork] <= Height[c]
        BY <1>3, <1>4, <4>1, <4>2, ChainBelow
      <4>4. x \in Chain[pindexBest] => Height[x] <= Height[job.pfork]
        BY <1>1, <4>1 DEF IsFork
      <4> QED
        BY <1>4, <2>1, <3>1, <4>2, <4>3, <4>4
    <3>2. CASE pc \in {"extend", "postponed"}
      <4>1. c = disk.hashBestChain
        BY <1>7, <2>1, <3>2 DEF JobInv
      <4> QED
        BY <1>3, <1>4, <4>1, ChainBelow
    <3> QED
      BY <1>1, <3>1, <3>2
  <2>5. pnext[x] = None
    BY <1>3, <2>1, <2>4, NextOfNone
  <2>6. batch.hashNext[x] = None /\ batch.hashNext \in [Blocks -> Blocks \cup {None}]
    <3>1. x \notin Chain[c]
      BY <1>3, <1>4, ChainBelow
    <3> QED
      BY <1>3, <2>1, <3>1, NextOfNone, NextOfType
  <2>7. batch'.hashNext = [batch.hashNext EXCEPT ![c] = x]
    BY <1>3, <1>6, <2>5, <2>6
  <2>8. batch'.hashNext = NextOf(x)
    BY <1>1, <1>3, <2>1, <2>7, NextOfConnect
  <2> QED
    BY <1>1, <1>5, <2>1, <2>2, <2>3, <2>8 DEF ConsistentInv, Working
<1> QED
  BY <1>8, <1>9, <1>10, <1>11

LEMMA BlockFailsInv ==
    ASSUME Inv, BlockFails
    PROVE  Inv'
<1> USE DEF Inv
<1>1. /\ pc \in {"disconnect", "connect", "extend", "secondary", "postponed"}
      /\ batch' = NoBatch /\ disk' = disk /\ pindexBest' = pindexBest
      /\ mapBlockIndex' = mapBlockIndex /\ pnext' = pnext
      /\ tainted' = tainted
      /\ \/ /\ pc \in {"secondary", "postponed"}
            /\ pc' = "finish" /\ job' = job /\ returned' = returned
         \/ /\ pc \notin {"secondary", "postponed"}
            /\ pc' = "idle" /\ job' = NoJob /\ returned' = FALSE
  BY DEF BlockFails, memory, Return
<1>2. TypeOK'
  <2>1. job' \in [pindexNew : Blocks \cup {None}, pindexIntermediate : Blocks \cup {None},
                 pfork : Blocks \cup {None}, cursor : Blocks \cup {None}]
    BY <1>1 DEF TypeOK, NoJob
  <2>2. returned' \in BOOLEAN /\ pc' \in Phases
    BY <1>1 DEF TypeOK, Phases
  <2> QED
    BY <1>1, <2>1, <2>2 DEF TypeOK
<1>3. RootedInv'
  BY <1>1 DEF RootedInv
<1>4. JobInv'
  BY <1>1 DEF JobInv, Working
<1>5. ConsistentInv'
  BY <1>1 DEF ConsistentInv, Working
<1> QED
  BY <1>2, <1>3, <1>4, <1>5
(* What TxnCommit leaves in the database and in pnext.                     *)
LEMMA TxnCommitEffect ==
    ASSUME Inv, TxnCommit
    PROVE  /\ Working /\ job.cursor = job.pindexIntermediate
           /\ job.cursor \in mapBlockIndex \ {Genesis} /\ job.cursor \in Blocks
           /\ job.pindexNew \in Blocks
           /\ job.cursor \in Chain[job.pindexNew]
           /\ IsDatabase(disk')
           /\ disk'.hashBestChain = job.cursor /\ disk'.bidx = disk.bidx
           /\ disk'.txindex = batch.txindex /\ disk'.hashNext = batch.hashNext
           /\ pnext' \in [Blocks -> Blocks \cup {None}]
           /\ ~tainted => pnext' = NextOf(job.cursor)
<1> USE DEF Inv
<1> DEFINE c == job.cursor
           d == disk.hashBestChain
           left == IF pc = "connect" THEN Chain[pindexBest] \ Chain[job.pfork] ELSE {}
           joined == Chain[c] \ Chain[job.pfork]
<1>1. /\ pc \in {"connect", "extend", "postponed"}
      /\ c = job.pindexIntermediate
      /\ disk' = [batch EXCEPT !.hashBestChain = c]
      /\ pnext' = [b \in Blocks |->
            IF \E x \in joined : Prev[x] = b THEN CHOOSE x \in joined : Prev[x] = b
            ELSE IF \E x \in left : Prev[x] = b THEN None ELSE pnext[b]]
  BY DEF TxnCommit
<1>2. Working
  BY <1>1 DEF Working
<1>3. /\ job.pindexNew \in mapBlockIndex /\ c \in Chain[job.pindexNew] \ {Genesis}
      /\ IsDatabase(batch) /\ batch.bidx = disk.bidx
  BY <1>1, <1>2 DEF JobInv
<1>4. job.pindexNew \in Blocks /\ c \in mapBlockIndex /\ c \in Blocks /\ d \in Blocks
      /\ pindexBest \in Blocks
  <2>1. job.pindexNew \in Blocks /\ Chain[job.pindexNew] \subseteq mapBlockIndex
    BY <1>3, KnownChains
  <2> QED
    BY <1>3, <2>1 DEF TypeOK, IsDatabase
<1>5. /\ disk'.hashBestChain = c /\ disk'.bidx = disk.bidx
      /\ disk'.txindex = batch.txindex /\ disk'.hashNext = batch.hashNext
      /\ IsDatabase(disk')
  <2>1. batch \in [bidx : SUBSET Blocks, hashNext : [Blocks -> Blocks \cup {None}],
                   hashBestChain : Blocks, txindex : {batch.txindex}]
    BY <1>3 DEF IsDatabase
  <2>2. /\ disk'.hashBestChain = c /\ disk'.bidx = batch.bidx
        /\ disk'.txindex = batch.txindex /\ disk'.hashNext = batch.hashNext
        /\ disk' \in [bidx : SUBSET Blocks, hashNext : [Blocks -> Blocks \cup {None}],
                      hashBestChain : Blocks, txindex : {batch.txindex}]
    BY <1>1, <1>4, <2>1
  <2> QED
    BY <1>3, <2>2 DEF IsDatabase
<1>6. joined \subseteq Blocks
  BY <1>4, ChainBasics
<1>7. pnext' \in [Blocks -> Blocks \cup {None}]
  <2>1. pnext \in [Blocks -> Blocks \cup {None}]
    BY DEF TypeOK
  <2> HIDE DEF joined, left
  <2> QED
    BY <1>1, <1>6, <2>1
<1>8. ASSUME ~tainted
      PROVE  pnext' = NextOf(c)
  <2>1. pnext = NextOf(d) /\ (pc \in {"connect", "extend"} => pindexBest = d)
    BY <1>8 DEF ConsistentInv
  <2>2. left = Chain[d] \ Chain[job.pfork]
    <3>1. CASE pc = "connect"
      BY <2>1, <3>1
    <3>2. CASE pc # "connect"
      <4>1. job.pfork = d
        BY <1>1, <2>1, <3>2 DEF JobInv
      <4> QED
        BY <3>2, <4>1
    <3> QED
      BY <3>1, <3>2
  <2>3. job.pfork \in Chain[d] \cap Chain[c]
    <3>1. CASE pc = "connect"
      BY <1>1, <2>1, <3>1 DEF JobInv, IsFork
    <3>2. CASE pc # "connect"
      <4>1. job.pfork = d /\ Prev[c] = d
        BY <1>1, <2>1, <3>2 DEF JobInv
      <4>2. d \in Chain[c]
        BY <1>3, <1>4, <4>1, ChainBasics
      <4> QED
        BY <1>4, <4>1, <4>2, ChainBasics
    <3> QED
      BY <3>1, <3>2
  <2>4. pnext' = [b \in Blocks |->
            IF \E x \in joined : Prev[x] = b THEN CHOOSE x \in joined : Prev[x] = b
            ELSE IF \E x \in Chain[d] \ Chain[job.pfork] : Prev[x] = b THEN None
            ELSE NextOf(d)[b]]
    BY <1>1, <2>1, <2>2
  <2>5. NextOf(c) = [b \in Blocks |->
            IF \E x \in Chain[c] \ Chain[job.pfork] : Prev[x] = b
            THEN CHOOSE x \in Chain[c] \ Chain[job.pfork] : Prev[x] = b
            ELSE IF \E x \in Chain[d] \ Chain[job.pfork] : Prev[x] = b THEN None
            ELSE NextOf(d)[b]]
    <3> HIDE DEF c, d
    <3> QED
      BY <1>4, <2>3, CommittedPointers
  <2> QED
    BY <2>4, <2>5
<1> QED
  BY <1>1, <1>2, <1>3, <1>4, <1>5, <1>7, <1>8

LEMMA TxnCommitInv ==
    ASSUME Inv, TxnCommit
    PROVE  Inv'
<1> USE DEF Inv
<1>1. /\ batch' = NoBatch /\ mapBlockIndex' = mapBlockIndex /\ pindexBest' = pindexBest
      /\ job' = job /\ returned' = returned /\ tainted' = tainted
      /\ pc' = IF job.cursor = job.pindexNew THEN "finish" ELSE "secondary"
  BY DEF TxnCommit
<1>2. /\ Working /\ job.cursor = job.pindexIntermediate
      /\ job.cursor \in mapBlockIndex \ {Genesis} /\ job.cursor \in Blocks
      /\ job.pindexNew \in Blocks
      /\ job.cursor \in Chain[job.pindexNew]
      /\ IsDatabase(disk')
      /\ disk'.hashBestChain = job.cursor /\ disk'.bidx = disk.bidx
      /\ disk'.txindex = batch.txindex /\ disk'.hashNext = batch.hashNext
      /\ pnext' \in [Blocks -> Blocks \cup {None}]
      /\ ~tainted => pnext' = NextOf(job.cursor)
  BY TxnCommitEffect
<1>3. TypeOK'
  <2>1. pc' \in Phases
    BY <1>1 DEF Phases
  <2> QED
    BY <1>1, <1>2, <2>1 DEF TypeOK
<1>4. RootedInv'
  BY <1>1, <1>2 DEF RootedInv
<1>5. JobInv'
  <2>1. /\ job.pindexNew \in mapBlockIndex \ {Genesis}
        /\ Trust[pindexBest] < Trust[job.pindexNew]
        /\ Trust[pindexBest] < Trust[job.cursor]
    BY <1>2 DEF JobInv, Working
  <2>2. Trust[job.cursor] <= Trust[job.pindexNew]
    BY <1>2, ChainBelow, ChainAssumption
  <2>3. pc' \in {"finish", "secondary"} /\ ~Working'
    BY <1>1 DEF Working
  <2> QED
    BY <1>1, <1>2, <2>1, <2>2, <2>3 DEF JobInv
<1>6. ConsistentInv'
  <2>1. pc' \in {"finish", "secondary"} /\ ~Working'
    BY <1>1 DEF Working
  <2>2. ~tainted => /\ batch.txindex = IndexOf(Chain[job.cursor])
                    /\ Good(job.cursor)
                    /\ batch.hashNext = NextOf(job.cursor)
    BY <1>2 DEF ConsistentInv
  <2> QED
    BY <1>1, <1>2, <2>1, <2>2 DEF ConsistentInv
<1> QED
  BY <1>3, <1>4, <1>5, <1>6

LEMMA NextSecondaryInv ==
    ASSUME Inv, NEW x \in Blocks, NextSecondary(x)
    PROVE  Inv'
<1> USE DEF Inv
<1>1. /\ pc = "secondary" /\ pc' = "postponed"
      /\ x \in Chain[job.pindexNew] \ {Genesis} /\ Prev[x] = job.cursor
      /\ batch' = disk /\ disk' = disk /\ mapBlockIndex' = mapBlockIndex
      /\ pnext' = pnext /\ pindexBest' = pindexBest
      /\ returned' = returned /\ tainted' = tainted
      /\ job' = [job EXCEPT !.pindexIntermediate = x, !.pfork = job.cursor]
  BY DEF NextSecondary, IsNextOn, memory
<1>2. /\ job.pindexNew \in mapBlockIndex \ {Genesis}
      /\ job.cursor = disk.hashBestChain
      /\ Trust[pindexBest] < Trust[job.pindexNew]
      /\ Trust[pindexBest] < Trust[job.cursor]
      /\ Trust[disk.hashBestChain] <= Trust[job.pindexNew]
  BY <1>1 DEF JobInv
<1>3. /\ job'.pindexNew = job.pindexNew /\ job'.pindexIntermediate = x
      /\ job'.pfork = job.cursor /\ job'.cursor = job.cursor
  BY <1>1 DEF TypeOK
<1>4. IsDatabase(disk) /\ pindexBest \in Blocks
  BY DEF TypeOK
<1>5. job.cursor \in Blocks
  BY <1>2, <1>4 DEF IsDatabase
<1>6. TypeOK'
  <2>1. job' \in [pindexNew : Blocks \cup {None}, pindexIntermediate : Blocks \cup {None},
                 pfork : Blocks \cup {None}, cursor : Blocks \cup {None}]
    BY <1>1, <1>5 DEF TypeOK
  <2> QED
    BY <1>1, <2>1 DEF TypeOK, Phases
<1>7. RootedInv'
  BY <1>1 DEF RootedInv
<1>8. JobInv'
  <2>1. Trust[pindexBest] < Trust[x]
    BY <1>1, <1>2, <1>4, <1>5, ChainAssumption
  <2>2. Working' /\ pc' = "postponed"
    BY <1>1 DEF Working
  <2> QED
    BY <1>1, <1>2, <1>3, <1>4, <2>1, <2>2 DEF JobInv
<1>9. ConsistentInv'
  BY <1>1, <1>2, <1>3 DEF ConsistentInv, Working
<1> QED
  BY <1>6, <1>7, <1>8, <1>9

LEMMA NewBestBlockInv ==
    ASSUME Inv, NewBestBlock
    PROVE  Inv'
<1> USE DEF Inv
<1>1. /\ pc = "finish" /\ pc' = "idle" /\ pindexBest' = job.pindexNew
      /\ job' = NoJob /\ returned' = TRUE
      /\ mapBlockIndex' = mapBlockIndex /\ pnext' = pnext /\ disk' = disk
      /\ batch' = batch /\ tainted' = tainted
  BY DEF NewBestBlock, Return
<1>2. /\ job.pindexNew \in mapBlockIndex /\ job.pindexNew \in Blocks /\ batch = NoBatch
      /\ Trust[disk.hashBestChain] <= Trust[job.pindexNew]
  BY <1>1, KnownChains DEF JobInv, Working
<1>3. TypeOK'
  <2>1. job' \in [pindexNew : Blocks \cup {None}, pindexIntermediate : Blocks \cup {None},
                 pfork : Blocks \cup {None}, cursor : Blocks \cup {None}]
    BY <1>1 DEF NoJob
  <2> QED
    BY <1>1, <1>2, <2>1 DEF TypeOK, Phases
<1>4. RootedInv'
  BY <1>1, <1>2 DEF RootedInv
<1>5. JobInv'
  BY <1>1, <1>2 DEF JobInv, Working
<1>6. ConsistentInv'
  BY <1>1 DEF ConsistentInv, Working
<1> QED
  BY <1>3, <1>4, <1>5, <1>6

LEMMA RestartInv ==
    ASSUME Inv, Restart
    PROVE  Inv'
<1> USE DEF Inv
<1> DEFINE d == disk.hashBestChain
<1>1. /\ mapBlockIndex' = {b \in disk.bidx : Height[b] <= Height[d]}
      /\ pnext' = disk.hashNext /\ pindexBest' = d /\ batch' = NoBatch
      /\ pc' = "idle" /\ job' = NoJob /\ returned' = TRUE
      /\ disk' = disk /\ tainted' = tainted
  BY DEF Restart, Return
<1>2. /\ IsDatabase(disk) /\ d \in Blocks /\ disk.bidx \subseteq Blocks
      /\ disk.hashNext \in [Blocks -> Blocks \cup {None}]
  BY DEF TypeOK, IsDatabase
<1>3. TypeOK'
  <2>1. job' \in [pindexNew : Blocks \cup {None}, pindexIntermediate : Blocks \cup {None},
                 pfork : Blocks \cup {None}, cursor : Blocks \cup {None}]
    BY <1>1 DEF NoJob
  <2> QED
    BY <1>1, <1>2, <2>1 DEF TypeOK, Phases
<1>4. RootedInv'
  <2>1. \A b \in mapBlockIndex' \ {Genesis} : Prev[b] \in mapBlockIndex'
    <3> SUFFICES ASSUME NEW b \in mapBlockIndex' \ {Genesis}
                 PROVE  Prev[b] \in mapBlockIndex'
      OBVIOUS
    <3>1. b \in disk.bidx /\ Height[b] <= Height[d] /\ b \in Blocks \ {Genesis}
      BY <1>1, <1>2
    <3>2. Prev[b] \in disk.bidx
      BY <3>1 DEF RootedInv
    <3>3. Height[b] = Height[Prev[b]] + 1 /\ Height[Prev[b]] \in Nat /\ Height[d] \in Nat
      BY <1>2, <3>1, <3>2, ChainAssumption
    <3> QED
      BY <1>1, <3>1, <3>2, <3>3
  <2>2. d \in mapBlockIndex'
    BY <1>1, <1>2, ChainAssumption DEF RootedInv
  <2> QED
    BY <1>1, <2>1, <2>2 DEF RootedInv
<1>5. JobInv'
  BY <1>1, <1>2, ChainAssumption DEF JobInv, Working
<1>6. ConsistentInv'
  BY <1>1 DEF ConsistentInv, Working
<1> QED
  BY <1>3, <1>4, <1>5, <1>6

LEMMA NextInv == Inv /\ [Next]_vars => Inv'
<1> SUFFICES ASSUME Inv, [Next]_vars
             PROVE  Inv'
  OBVIOUS
<1>1. CASE UNCHANGED vars
  <2>1. /\ mapBlockIndex' = mapBlockIndex /\ pnext' = pnext /\ pindexBest' = pindexBest
        /\ disk' = disk /\ batch' = batch /\ pc' = pc /\ job' = job
        /\ returned' = returned /\ tainted' = tainted
    BY <1>1 DEF vars
  <2> QED
    BY <2>1 DEF Inv, TypeOK, RootedInv, JobInv, ConsistentInv, Working
<1>2. CASE \E b \in Blocks : AddToBlockIndex(b)
  BY <1>2, AddToBlockIndexInv
<1>3. CASE Work
  BY <1>3, SetBestChainInv, DisconnectBlockInv, ConnectBlockInv, BlockFailsInv,
     TxnCommitInv, NextSecondaryInv, NewBestBlockInv DEF Work
<1>4. CASE Restart
  BY <1>4, RestartInv
<1> QED
  BY <1>1, <1>2, <1>3, <1>4 DEF Next

-----------------------------------------------------------------------------
(* The invariant is one: every reachable state satisfies it, the states    *)
(* inside SetBestChain and those after a crash included.                   *)
THEOREM Invariance == Spec => []Inv
  BY InitInv, NextInv, PTL DEF Spec

(* Every variable of the chain state keeps its type through every step of  *)
(* AddToBlockIndex, SetBestChain and LoadBlockIndex.                       *)
THEOREM TypeCorrect == Spec => []TypeOK
<1>1. Inv => TypeOK
  BY DEF Inv
<1> QED
  BY <1>1, Invariance, PTL

(* Whatever Reorganize connects, disconnects or abandons, the transaction  *)
(* index that TxnCommit leaves on disk is the one its best chain implies.  *)
THEOREM IndexIsThatOfBestChain == Spec => []IndexMatchesChain
<1>1. Inv => IndexMatchesChain
  BY DEF Inv, ConsistentInv, IndexMatchesChain, Good
<1> QED
  BY <1>1, Invariance, PTL

(* The checks of ConnectBlock and ConnectInputs let no chain of blocks     *)
(* become the best one that spends an output twice.                        *)
THEOREM NoOutputIsSpentTwice == Spec => []NoDoubleSpend
<1>1. Inv => NoDoubleSpend
  BY DEF Inv, ConsistentInv, NoDoubleSpend, Good, Sound
<1> QED
  BY <1>1, Invariance, PTL

(* The pnext and hashNext pointers that Reorganize resets and sets are     *)
(* those of the best chain on disk.                                        *)
THEOREM PointersFollowBestChain == Spec => []NextPointersFollowChain
<1>1. Inv => NextPointersFollowChain
  BY DEF Inv, ConsistentInv, NextPointersFollowChain
<1> QED
  BY <1>1, Invariance, PTL

(* The blocks that LoadBlockIndex keeps, and those that AddToBlockIndex    *)
(* adds, always come with their predecessors.                              *)
THEOREM IndexStaysRooted == Spec => []IndexRooted
<1>1. Inv => IndexRooted
  BY DEF Inv, RootedInv, IndexRooted
<1> QED
  BY <1>1, Invariance, PTL
-----------------------------------------------------------------------------
(* Every step of the node is a step of the ledger, or none.                *)

LEMMA CommitGrowsTrust ==
    ASSUME Inv, TxnCommit
    PROVE  Trust[job.cursor] > Trust[disk.hashBestChain]
<1> USE DEF Inv
<1>1. /\ Working /\ job.cursor = job.pindexIntermediate
      /\ job.cursor \in Blocks \ {Genesis}
  BY TxnCommitEffect
<1>2. pc \in {"connect", "extend", "postponed"}
  BY DEF TxnCommit
<1>3. Trust[pindexBest] \in Nat /\ Trust[job.cursor] \in Nat /\ Trust[disk.hashBestChain] \in Nat
  BY <1>1, ChainAssumption DEF TypeOK, IsDatabase
<1>4. CASE pc \in {"connect", "extend"}
  BY <1>1, <1>3, <1>4 DEF JobInv
<1>5. CASE pc = "postponed"
  <2>1. Prev[job.cursor] = disk.hashBestChain
    BY <1>1, <1>5 DEF JobInv
  <2> QED
    BY <1>1, <2>1, ChainAssumption
<1> QED
  BY <1>2, <1>4, <1>5

(* Every step but TxnCommit leaves the best chain on disk and its index.   *)
LEMMA OtherStepsKeepLedger ==
    ASSUME Inv, [Next]_vars, ~TxnCommit
    PROVE  /\ disk'.hashBestChain = disk.hashBestChain
           /\ disk'.txindex = disk.txindex
           /\ tainted' = tainted \/ (~tainted /\ tainted')
<1>1. CASE \E b \in Blocks : AddToBlockIndex(b)
  <2>1. PICK b \in Blocks : AddToBlockIndex(b)
    BY <1>1
  <2>2. /\ disk' = [disk EXCEPT !.bidx = @ \cup {b}, !.hashNext = [@ EXCEPT ![b] = None]]
        /\ tainted' = tainted
    BY <2>1 DEF AddToBlockIndex
  <2>3. IsDatabase(disk)
    BY DEF Inv, TypeOK
  <2> QED
    BY <2>2, <2>3, NewEntryType
<1>2. CASE SetBestChain
  BY <1>2 DEF SetBestChain, Inv, TypeOK
<1>3. CASE \/ DisconnectBlock \/ (\E x \in Blocks : ConnectBlock(x)) \/ BlockFails
           \/ (\E x \in Blocks : NextSecondary(x)) \/ NewBestBlock \/ Restart
           \/ UNCHANGED vars
  BY <1>3 DEF DisconnectBlock, ConnectBlock, BlockFails, NextSecondary, NewBestBlock,
     Restart, vars
<1> QED
  BY <1>1, <1>2, <1>3 DEF Next, Work

(* What the index of a sound chain leaves unspent is what the ledger says. *)
LEMMA IndexUnspent ==
    ASSUME NEW b \in Blocks, Sound(b)
    PROVE  UnspentIn(IndexOf(Chain[b])) = UnspentOf(b)
<1> DEFINE I == IndexOf(Chain[b])
           O == UNION {{t} \X (0 .. NOut[t] - 1) : t \in TxsOf(Chain[b])}
<1>1. DOMAIN I = TxsOf(Chain[b])
  BY IndexOfValue
<1>2. ASSUME NEW o \in O
      PROVE  o[2] \notin I[o[1]].spent <=> \A c \in Chain[b] : o \notin SpentBy(c)
  <2>1. o[1] \in TxsOf(Chain[b]) /\ o = <<o[1], o[2]>>
    OBVIOUS
  <2>2. o[2] \in I[o[1]].spent <=> \E c \in Chain[b] : <<o[1], o[2]>> \in SpentBy(c)
    BY <2>1, IndexOfValue
  <2> QED
    BY <2>1, <2>2
<1>3. UnspentIn(I) = {o \in O : o[2] \notin I[o[1]].spent}
  BY <1>1 DEF UnspentIn
<1>4. UnspentOf(b) = {o \in O : \A c \in Chain[b] : o \notin SpentBy(c)}
  BY DEF UnspentOf
<1> HIDE DEF I, O
<1>5. UnspentIn(I) = UnspentOf(b)
  BY <1>2, <1>3, <1>4
<1> QED
  BY <1>5 DEF I

LEMMA LedgerInit == Init => L!Init
<1> SUFFICES ASSUME Init PROVE L!Init
  OBVIOUS
<1>1. /\ disk.hashBestChain = Genesis /\ disk.txindex = [t \in {} |-> None]
      /\ tainted = FALSE
  BY DEF Init
<1>2. DOMAIN disk.txindex = {}
  BY <1>1
<1>3. UnspentIn(disk.txindex) = {}
  BY <1>2 DEF UnspentIn
<1> QED
  BY <1>1, <1>3 DEF L!Init

LEMMA LedgerStep ==
    Inv /\ Inv' /\ [Next]_vars => [L!Next]_(L!vars)
<1> SUFFICES ASSUME Inv, Inv', [Next]_vars
             PROVE  [L!Next]_(L!vars)
  OBVIOUS
<1>1. CASE TxnCommit
  <2> DEFINE b == job.cursor
  <2>1. b \in Blocks /\ disk'.hashBestChain = b
    BY <1>1, TxnCommitEffect
  <2>2. Trust[b] > Trust[disk.hashBestChain]
    BY <1>1, CommitGrowsTrust
  <2>3. tainted' = tainted /\ tainted \in BOOLEAN
    BY <1>1 DEF TxnCommit, Inv, TypeOK
  <2>4. ~tainted => Sound(b) /\ UnspentIn(disk'.txindex) = UnspentOf(b)
    <3> SUFFICES ASSUME ~tainted
                 PROVE  Sound(b) /\ UnspentIn(disk'.txindex) = UnspentOf(b)
      OBVIOUS
    <3>1. disk'.txindex = IndexOf(Chain[b]) /\ Good(b)
      BY <2>1, <2>3 DEF Inv, ConsistentInv
    <3> QED
      BY <2>1, <3>1, IndexUnspent DEF Good
  <2>5. (L!Sound(b) <=> Sound(b)) /\ L!UnspentOf(b) = UnspentOf(b)
    BY DEF L!Sound, L!SpendsOnce, L!UnspentOf, L!TxsOf, L!SpentBy, L!TxsIn, L!Chain,
           Sound, SpendsOnce, UnspentOf, TxsOf, SpentBy, TxsIn, Chain
  <2>6. L!Advance(b)
    BY <2>1, <2>2, <2>3, <2>4, <2>5 DEF L!Advance
  <2> QED
    BY <2>1, <2>6 DEF L!Next
<1>2. CASE ~TxnCommit
  <2>1. /\ disk'.hashBestChain = disk.hashBestChain
        /\ disk'.txindex = disk.txindex
        /\ tainted' = tainted \/ (~tainted /\ tainted')
    BY <1>2, OtherStepsKeepLedger
  <2>2. UnspentIn(disk'.txindex) = UnspentIn(disk.txindex)
    BY <2>1
  <2>3. tainted' \in BOOLEAN
    BY DEF Inv, TypeOK
  <2> QED
    BY <2>1, <2>2, <2>3 DEF L!Next, L!LoseTrack, L!vars
<1> QED
  BY <1>1, <1>2

(* SetBestChain, Reorganize and the loop over vpindexSecondary commit only *)
(* chains of more trust than the one the database holds.                   *)
THEOREM TrustOfBestChainGrows == Spec => BestTrustGrows
<1>1. Inv /\ [Next]_vars => [disk'.hashBestChain # disk.hashBestChain =>
                               Trust[disk'.hashBestChain] > Trust[disk.hashBestChain]]_vars
  <2> SUFFICES ASSUME Inv, [Next]_vars, disk'.hashBestChain # disk.hashBestChain
               PROVE  Trust[disk'.hashBestChain] > Trust[disk.hashBestChain]
    OBVIOUS
  <2>1. TxnCommit
    BY OtherStepsKeepLedger
  <2> QED
    BY <2>1, TxnCommitEffect, CommitGrowsTrust
<1> QED
  BY <1>1, Invariance, PTL DEF Spec, BestTrustGrows

(* The database of the node, through SetBestChain, its failures and its    *)
(* crashes, implements the abstract ledger.                                *)
THEOREM DatabaseImplementsLedger == Spec => ImplementsLedger
  BY LedgerInit, LedgerStep, Invariance, PTL DEF Spec, ImplementsLedger, L!Spec
=============================================================================
