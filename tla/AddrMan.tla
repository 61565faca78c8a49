------------------------------ MODULE AddrMan -------------------------------
(***************************************************************************)
(* The address manager, CAddrMan: the addresses a node has heard of, in    *)
(* buckets of "new" and "tried" ones, with several indexes over them.      *)
(*                                                                         *)
(* Every operation holds cs.  What depends on times, statistics and random *)
(* numbers is a choice: whether Add_ passes its tests, which entry a full  *)
(* bucket gives up.  SelectTried means to give up the entry tried least    *)
(* recently, but returns its position from before the swap: any entry may  *)
(* go.  Attempt_ and Connected_ change times only, Select_ nothing.        *)
(*                                                                         *)
(* nIdCount is left out: a new entry takes the least free id.  A service   *)
(* is an address with a port.                                              *)
(*                                                                         *)
(* Restarts are orderly ones: StopNode ends with DumpAddresses, and the    *)
(* next start reads what that has written.  After a crash the file is that *)
(* of an earlier dump, which is left out.                                  *)
(***************************************************************************)
EXTENDS Integers, FiniteSets, FiniteSetsExt, Sequences, SequencesExt

CONSTANTS
    Services, Address,       \* Address[s]: what mapAddr goes by
    Sources,                 \* who tells of addresses
    NewBuckets, NewBucket,   \* NewBucket[<<s, source>>]: GetNewBucket
    TriedBuckets, TriedBucket,
    MaxNewBucket,            \* ADDRMAN_NEW_BUCKET_SIZE
    MaxTriedBucket,          \* ADDRMAN_TRIED_BUCKET_SIZE
    MaxRefs,                 \* ADDRMAN_NEW_BUCKETS_PER_ADDRESS
    MaxPct,                  \* ADDRMAN_GETADDR_MAX_PCT
    MaxGetAddr               \* ADDRMAN_GETADDR_MAX

ASSUME AddrManAssumption ==
    /\ NewBucket \in [Services \X Sources -> NewBuckets]
    /\ TriedBucket \in [Services -> TriedBuckets]
    /\ Services = DOMAIN Address /\ IsFiniteSet(Services)
    /\ NewBuckets \subseteq Nat /\ IsFiniteSet(NewBuckets)
    /\ {MaxNewBucket, MaxTriedBucket, MaxRefs} \subseteq Nat \ {0}
    /\ MaxPct \in 0..100 /\ MaxGetAddr \in Nat

VARIABLES
    am      \* mapInfo, mapAddr, vRandom, vvNew, vvTried, nNew, nTried

Nothing == [x \in {} |-> 0]

AddrManInit ==
    am = [mapInfo |-> Nothing, mapAddr |-> Nothing, vRandom |-> << >>,
          vvNew |-> [b \in NewBuckets |-> {}], vvTried |-> [b \in TriedBuckets |-> {}],
          nNew |-> 0, nTried |-> 0]

With(f, x, v) == [y \in DOMAIN f \cup {x} |-> IF y = x THEN v ELSE f[y]]
Without(f, x) == [y \in DOMAIN f \ {x} |-> f[y]]
Ids == 1..Cardinality(Services)

-----------------------------------------------------------------------------
(* The indexes.                                                            *)

(* Create: the entry is not in a bucket yet.                               *)
Create(a, n, s, source) ==
    [a EXCEPT
        !.mapInfo = With(@, n, [service |-> s, source |-> source, nRefCount |-> 0,
                                fInTried |-> FALSE, nRandomPos |-> Len(a.vRandom) + 1]),
        !.mapAddr = With(@, Address[s], n),
        !.vRandom = Append(@, n),
        !.nNew = @ + 1]

(* SwapRandom of positions i and j.                                        *)
SwapRandom(a, i, j) ==
    LET v == a.vRandom
    IN  [a EXCEPT
            !.mapInfo = [@ EXCEPT ![v[i]].nRandomPos = j, ![v[j]].nRandomPos = i],
            !.vRandom = [@ EXCEPT ![i] = v[j], ![j] = v[i]]]

(* Mutated: the last of vRandom goes, whoever that is.                     *)
DeletePopping(a, n) ==
    [a EXCEPT !.vRandom = Front(a.vRandom),
              !.mapAddr = Without(a.mapAddr, Address[a.mapInfo[n].service]),
              !.mapInfo = Without(a.mapInfo, n), !.nNew = @ - 1]

(* An entry goes for good.                                                 *)
Delete(a, n) ==
    LET last == SwapRandom(a, a.mapInfo[n].nRandomPos, Len(a.vRandom))
    IN  [last EXCEPT !.vRandom = Front(last.vRandom),
                     !.mapAddr = Without(last.mapAddr, Address[a.mapInfo[n].service]),
                     !.mapInfo = Without(last.mapInfo, n), !.nNew = @ - 1]

(* ShrinkNew takes n out of a bucket, and deletes it with its last place.  *)
ShrinkNew(a, b, n) ==
    LET out == [a EXCEPT !.mapInfo[n].nRefCount = @ - 1, !.vvNew[b] = a.vvNew[b] \ {n}]
    IN  IF out.mapInfo[n].nRefCount = 0 THEN Delete(out, n) ELSE out

(* Add_ puts n into a bucket.                                              *)
PutNew(a, n, b) ==
    LET counted == [a EXCEPT !.mapInfo[n].nRefCount = @ + 1]
        put(less) == [less EXCEPT !.vvNew[b] = less.vvNew[b] \cup {n}]
    IN  IF n \in a.vvNew[b] THEN {a}
        ELSE IF Cardinality(a.vvNew[b]) < MaxNewBucket THEN {put(counted)}
        ELSE {put(ShrinkNew(counted, b, old)) : old \in a.vvNew[b]}

-----------------------------------------------------------------------------
(* The operations.                                                         *)

Known(s) == Address[s] \in DOMAIN am.mapAddr
IdOf(s) == am.mapAddr[Address[s]]

(* Add_ of an unknown address, or of one with fewer places than allowed;   *)
(* then the bucket is that of the service known there.                     *)
Add(s, source) ==
    \/ /\ ~Known(s)
       /\ LET n == Min(Ids \ DOMAIN am.mapInfo)
          IN  am' \in PutNew(Create(am, n, s, source), n, NewBucket[<<s, source>>])
    \/ /\ Known(s)
       /\ LET n == IdOf(s) IN
          /\ ~am.mapInfo[n].fInTried /\ am.mapInfo[n].nRefCount # MaxRefs
          /\ am' \in PutNew(am, n, NewBucket[<<am.mapInfo[n].service, source>>])

(* Mutated: an entry evicted from the tried ones is forgotten.             *)
MakeTriedForgetting(a, n, origin) ==
    LET b == TriedBucket[a.mapInfo[n].service]
        left == [a EXCEPT !.vvNew = [c \in NewBuckets |-> a.vvNew[c] \ {n}],
                          !.mapInfo[n].nRefCount = 0, !.mapInfo[n].fInTried = TRUE]
    IN  IF Cardinality(a.vvTried[b]) < MaxTriedBucket
        THEN {[left EXCEPT !.nNew = @ - 1, !.nTried = @ + 1, !.vvTried[b] = @ \cup {n}]}
        ELSE {Delete([left EXCEPT !.vvTried[b] = (@ \ {old}) \cup {n}], old) : old \in a.vvTried[b]}

(* MakeTried: n leaves every bucket of new entries.  When its bucket of    *)
(* tried ones is full another one goes back, to the bucket of its source   *)
(* or, if that is full, to where n was.                                    *)
MakeTried(a, n, origin) ==
    LET b == TriedBucket[a.mapInfo[n].service]
        left == [a EXCEPT !.vvNew = [c \in NewBuckets |-> a.vvNew[c] \ {n}],
                          !.mapInfo[n].nRefCount = @ - Cardinality({c \in NewBuckets : n \in a.vvNew[c]}),
                          !.mapInfo[n].fInTried = TRUE]
        home(old) == NewBucket[<<a.mapInfo[old].service, a.mapInfo[old].source>>]
        back(old) == IF Cardinality(left.vvNew[home(old)]) < MaxNewBucket THEN home(old) ELSE origin
    IN  IF Cardinality(a.vvTried[b]) < MaxTriedBucket
        THEN {[left EXCEPT !.nNew = @ - 1, !.nTried = @ + 1, !.vvTried[b] = @ \cup {n}]}
        ELSE {[left EXCEPT !.vvTried[b] = (@ \ {old}) \cup {n},
                           !.vvNew[back(old)] = @ \cup {old},
                           !.mapInfo[old].fInTried = FALSE,
                           !.mapInfo[old].nRefCount = 1] : old \in a.vvTried[b]}

(* Good_, of exactly the service that is known.                            *)
Good(s) ==
    /\ Known(s) /\ am.mapInfo[IdOf(s)].service = s /\ ~am.mapInfo[IdOf(s)].fInTried
    /\ \E origin \in {b \in NewBuckets : IdOf(s) \in am.vvNew[b]} :
          am' \in MakeTried(am, IdOf(s), origin)

(* GetAddr_ shuffles the first part of vRandom.                            *)
GetAddr ==
    LET size == Len(am.vRandom)
        nNodes == Min({(MaxPct * size) \div 100, MaxGetAddr})
        shuffled[i \in 0..nNodes] ==
            IF i = 0 THEN {am}
            ELSE {SwapRandom(a, i, j) : a \in shuffled[i - 1], j \in i..size}
    IN  am' \in shuffled[nNodes]

(* What peers.dat holds of entry n, read into a new place: its buckets of  *)
(* new addresses as long as it has places left.  Mutated: it has one less. *)
PlacesShort(n) ==
    LET all == {b \in NewBuckets : n \in am.vvNew[b]}
    IN  {b \in all : Cardinality({c \in all : c < b}) < MaxRefs - 1}

Places(n) ==
    LET all == {b \in NewBuckets : n \in am.vvNew[b]}
    IN  {b \in all : Cardinality({c \in all : c < b}) < MaxRefs}

Rank(n, S) == Cardinality({m \in S : m <= n})

(* An orderly restart: peers.dat is written and read again.  New entries   *)
(* come first, in the order of their ids, then the tried ones, whose       *)
(* bucket is computed and may be full; ids start anew.                     *)
Reload ==
    LET known == DOMAIN am.mapInfo
        bucket(n) == TriedBucket[am.mapInfo[n].service]
        intried == {n \in known : am.mapInfo[n].fInTried}
        new == {n \in known : am.mapInfo[n].nRefCount # 0}
        fits == {n \in intried :
                    Cardinality({m \in intried : m < n /\ bucket(m) = bucket(n)}) < MaxTriedBucket}
        id(n) == IF n \in new THEN Rank(n, new) ELSE Cardinality(new) + Rank(n, fits)
        was(i) == CHOOSE n \in new \cup fits : id(n) = i
        ids == {id(n) : n \in new \cup fits}
    IN  am' = [mapInfo |-> [i \in ids |-> [am.mapInfo[was(i)] EXCEPT
                   !.nRandomPos = i, !.nRefCount = Cardinality(Places(was(i)))]],
               mapAddr |-> [x \in {Address[am.mapInfo[was(i)].service] : i \in ids} |->
                   CHOOSE i \in ids : Address[am.mapInfo[was(i)].service] = x],
               vRandom |-> [i \in 1..Cardinality(ids) |-> i],
               vvNew |-> [b \in NewBuckets |-> {id(n) : n \in {m \in new : b \in Places(m)}}],
               vvTried |-> [b \in TriedBuckets |-> {id(n) : n \in {m \in fits : bucket(m) = b}}],
               nNew |-> Cardinality(new), nTried |-> Cardinality(fits)]

AddrManNext ==
    \/ \E s \in Services : (\E source \in Sources : Add(s, source)) \/ Good(s)
    \/ GetAddr \/ Reload

AddrManSpec == AddrManInit /\ [][AddrManNext]_am

-----------------------------------------------------------------------------
(* What Check_ tests when built with DEBUG_ADDRMAN, and the bounds it      *)
(* leaves to the constants: every index leads to the entry that leads back *)
(* to it, the counts are those of the tables, an entry has as many places  *)
(* as references, and no bucket is over its size.                          *)
AddrManConsistent ==
    LET ids == DOMAIN am.mapInfo
        tried == {n \in ids : am.mapInfo[n].fInTried}
        places(n) == {b \in NewBuckets : n \in am.vvNew[b]}
    IN  /\ Len(am.vRandom) = am.nNew + am.nTried
        /\ am.nTried = Cardinality(tried) /\ am.nNew = Cardinality(ids \ tried)
        /\ DOMAIN am.mapAddr = {Address[am.mapInfo[n].service] : n \in ids}
        /\ \A n \in ids :
              /\ am.mapAddr[Address[am.mapInfo[n].service]] = n
              /\ am.mapInfo[n].nRandomPos \in DOMAIN am.vRandom
              /\ am.vRandom[am.mapInfo[n].nRandomPos] = n
              /\ am.mapInfo[n].nRefCount = Cardinality(places(n))
              /\ IF n \in tried THEN places(n) = {}
                                ELSE Cardinality(places(n)) \in 1..MaxRefs
              /\ \A b \in TriedBuckets :
                    n \in am.vvTried[b] <=> n \in tried /\ b = TriedBucket[am.mapInfo[n].service]
        /\ \A b \in NewBuckets : am.vvNew[b] \subseteq ids /\ Cardinality(am.vvNew[b]) <= MaxNewBucket
        /\ \A b \in TriedBuckets : am.vvTried[b] \subseteq ids /\ Cardinality(am.vvTried[b]) <= MaxTriedBucket

(* addrman.h says of deletes: "They are never deleted while in the 'tried' *)
(* table, only possibly evicted back to the 'new' table."  So an address   *)
(* that was once reached stays known over a step, whatever else is added   *)
(* or proves good, and over an orderly restart.                            *)
TriedStays ==
    [][\A n \in DOMAIN am.mapInfo : am.mapInfo[n].fInTried =>
          \E m \in DOMAIN am'.mapInfo : am'.mapInfo[m].service = am.mapInfo[n].service]_am

(* An orderly restart changes ids and the random order, and no more: each  *)
(* address is in the buckets it was in, and tried if it was.  Neither      *)
(* mapAddr nor vvTried is in the file, and references are counted anew.    *)
Tables(a) ==
    {<<a.mapInfo[n].service, a.mapInfo[n].source, a.mapInfo[n].fInTried,
       {b \in NewBuckets : n \in a.vvNew[b]}, {b \in TriedBuckets : n \in a.vvTried[b]}>> :
       n \in DOMAIN a.mapInfo}

ReloadKeepsTables == [][Reload => Tables(am') = Tables(am)]_am
=============================================================================
