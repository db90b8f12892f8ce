---------------------------- MODULE TablesProofs ----------------------------
(***************************************************************************)
(* Proofs of the invariants of AtomCache and of HostSlots, the two tables  *)
(* of numbers that the host keeps for the engine: for any contexts, atoms  *)
(* and limits of the cache, and for any objects and host values.           *)
(***************************************************************************)
EXTENDS AtomCache, HostSlots, SequenceTheorems, FiniteSetTheorems, TLAPS

(* The contexts and the JSAtoms that have a reference to a name's atom.    *)
CachesOf(k) == {c \in Contexts : k \in cache[c]}
AtomsOf(k) == {a \in Atoms : atom[a].life = "live" /\ atom[a].key = k}

(* The cache still has the name of every operation under way.              *)
KeysInUseAreCached ==
    \A i \in 1..Len(stack) : stack[i].key # None => stack[i].key \in cache[stack[i].ctx]

(* Host code calls native operations and these call host code, ...         *)
Alternates ==
    /\ stack # <<>> => stack[1].kind = "native"
    /\ \A i \in 1..(Len(stack) - 1) : stack[i].kind # stack[i + 1].kind

(* ... so that hostDepth is half of the stack.  It is 0 while host code    *)
(* runs only if no operation is under way: why a cache may be emptied.     *)
DepthIsHalf ==
    /\ HostRuns => Len(stack) = 2 * hostDepth
    /\ EngineRuns => Len(stack) = 2 * hostDepth + 1

IInv ==
    /\ TypeOK
    /\ AtomRefsBalance
    /\ KeysInUseAreCached
    /\ Alternates
    /\ DepthIsHalf

-----------------------------------------------------------------------------
(* The two sums of references.                                             *)

(* Replacing one context's cache changes the number of caches that have a  *)
(* name only by that context.                                              *)
LEMMA CachesCount ==
    ASSUME NEW k, NEW c \in Contexts, NEW S, cache \in [Contexts -> SUBSET Keys],
           cache' = [cache EXCEPT ![c] = S]
    PROVE  /\ Cardinality(CachesOf(k)) \in Nat
           /\ Cardinality(CachesOf(k)') = Cardinality(CachesOf(k))
                + (IF k \in S THEN 1 ELSE 0) - (IF k \in cache[c] THEN 1 ELSE 0)
  <1> DEFINE A == CachesOf(k)
             B == CachesOf(k)'
  <1>1. IsFiniteSet(A) /\ Cardinality(A) \in Nat
    BY SetsAssumption, FS_Subset, FS_CardinalityType DEF CachesOf
  <1>2. B = {d \in Contexts : IF d = c THEN k \in S ELSE k \in cache[d]}
    BY DEF CachesOf
  <1>3. c \in A <=> k \in cache[c]
    BY DEF CachesOf
  <1>4. CASE k \in S /\ k \in cache[c]
    <2>1. B = A BY <1>2, <1>4 DEF CachesOf
    <2> QED BY <2>1, <1>1, <1>4
  <1>5. CASE k \notin S /\ k \notin cache[c]
    <2>1. B = A BY <1>2, <1>5 DEF CachesOf
    <2> QED BY <2>1, <1>1, <1>5
  <1>6. CASE k \in S /\ k \notin cache[c]
    <2>1. B = A \cup {c} BY <1>2, <1>6 DEF CachesOf
    <2>2. Cardinality(B) = Cardinality(A) + 1 BY <2>1, <1>1, <1>3, <1>6, FS_AddElement
    <2> QED BY <2>2, <1>1, <1>6
  <1>7. CASE k \notin S /\ k \in cache[c]
    <2>1. B = A \ {c} BY <1>2, <1>7 DEF CachesOf
    <2>2. Cardinality(B) = Cardinality(A) - 1 BY <2>1, <1>1, <1>3, <1>7, FS_RemoveElement
    <2> QED BY <2>2, <1>1, <1>7
  <1> QED BY <1>4, <1>5, <1>6, <1>7

(* The same of the JSAtoms that refer to a name.                           *)
LEMMA AtomsCount ==
    ASSUME NEW k, NEW a \in Atoms, NEW h, atom \in [Atoms -> AtomHandle],
           atom' = [atom EXCEPT ![a] = h]
    PROVE  /\ Cardinality(AtomsOf(k)) \in Nat
           /\ Cardinality(AtomsOf(k)') = Cardinality(AtomsOf(k))
                + (IF h.life = "live" /\ h.key = k THEN 1 ELSE 0)
                - (IF atom[a].life = "live" /\ atom[a].key = k THEN 1 ELSE 0)
  <1> DEFINE A == AtomsOf(k)
             B == AtomsOf(k)'
             new == h.life = "live" /\ h.key = k
             old == atom[a].life = "live" /\ atom[a].key = k
  <1>1. IsFiniteSet(A) /\ Cardinality(A) \in Nat
    BY SetsAssumption, FS_Subset, FS_CardinalityType DEF AtomsOf
  <1>2. B = {b \in Atoms : IF b = a THEN new ELSE atom[b].life = "live" /\ atom[b].key = k}
    BY DEF AtomsOf
  <1>3. a \in A <=> old
    BY DEF AtomsOf
  <1>4. CASE new /\ old
    <2>1. B = A BY <1>2, <1>4 DEF AtomsOf
    <2> QED BY <2>1, <1>1, <1>4
  <1>5. CASE ~new /\ ~old
    <2>1. B = A BY <1>2, <1>5 DEF AtomsOf
    <2> QED BY <2>1, <1>1, <1>5
  <1>6. CASE new /\ ~old
    <2>1. B = A \cup {a} BY <1>2, <1>6 DEF AtomsOf
    <2>2. Cardinality(B) = Cardinality(A) + 1 BY <2>1, <1>1, <1>3, <1>6, FS_AddElement
    <2> QED BY <2>2, <1>1, <1>6
  <1>7. CASE ~new /\ old
    <2>1. B = A \ {a} BY <1>2, <1>7 DEF AtomsOf
    <2>2. Cardinality(B) = Cardinality(A) - 1 BY <2>1, <1>1, <1>3, <1>7, FS_RemoveElement, SMTT(30)
    <2> QED BY <2>2, <1>1, <1>7
  <1> QED BY <1>4, <1>5, <1>6, <1>7

(* The sums when nobody's references change.                               *)
LEMMA CountsStay ==
    ASSUME NEW k
    PROVE  /\ UNCHANGED cache => CachesOf(k)' = CachesOf(k)
           /\ UNCHANGED atom => AtomsOf(k)' = AtomsOf(k)
           /\ Cardinality(CachesOf(k)) \in Nat
           /\ Cardinality(AtomsOf(k)) \in Nat
           /\ IsFiniteSet(CachesOf(k))
  <1>1. IsFiniteSet(CachesOf(k)) /\ IsFiniteSet(AtomsOf(k))
    BY SetsAssumption, FS_Subset DEF CachesOf, AtomsOf
  <1> QED BY <1>1, FS_CardinalityType DEF CachesOf, AtomsOf

(* The balance in terms of the two sets.                                   *)
LEMMA BalanceMeans ==
    /\ AtomRefsBalance <=> \A k \in Keys :
           refs[k] = Cardinality(CachesOf(k)) + Cardinality(AtomsOf(k))
                     + (IF k \in guest THEN 1 ELSE 0) + lost[k]
    /\ AtomRefsBalance' <=> \A k \in Keys :
           refs'[k] = Cardinality(CachesOf(k)') + Cardinality(AtomsOf(k)')
                     + (IF k \in guest' THEN 1 ELSE 0) + lost'[k]
  BY DEF AtomRefsBalance, CachesOf, AtomsOf

(* A count that balances is a natural number: no reference is given back   *)
(* that was not taken.                                                     *)
LEMMA BalancedIsNat ==
    ASSUME AtomRefsBalance', lost' \in [Keys -> Nat], NEW k \in Keys
    PROVE  refs'[k] \in Nat
  <1>1. IsFiniteSet(CachesOf(k)') /\ IsFiniteSet(AtomsOf(k)')
    BY SetsAssumption, FS_Subset DEF CachesOf, AtomsOf
  <1>2. Cardinality(CachesOf(k)') \in Nat /\ Cardinality(AtomsOf(k)') \in Nat
    BY <1>1, FS_CardinalityType
  <1>3. refs'[k] = Cardinality(CachesOf(k)') + Cardinality(AtomsOf(k)')
                     + (IF k \in guest' THEN 1 ELSE 0) + lost'[k]
    BY BalanceMeans
  <1> QED BY <1>2, <1>3

-----------------------------------------------------------------------------
(* The stack.                                                              *)

(* What a call leaves on the stack.                                        *)
LEMMA PushFacts ==
    ASSUME stack \in Seq(Frame), NEW f \in Frame, stack' = Append(stack, f)
    PROVE  /\ stack' \in Seq(Frame) /\ stack' # <<>>
           /\ Len(stack) \in Nat /\ Len(stack') = Len(stack) + 1
           /\ \A i \in 1..Len(stack) : stack'[i] = stack[i]
           /\ stack'[Len(stack')] = f
  <1>1. Len(stack) \in Nat
    BY LenProperties
  <1>2. /\ stack' \in Seq(Frame) /\ Len(stack') = Len(stack) + 1
        /\ \A i \in 1..Len(stack) : stack'[i] = stack[i]
        /\ stack'[Len(stack) + 1] = f
    BY AppendProperties
  <1> QED BY <1>1, <1>2, EmptySeq

(* What a return leaves on the stack.                                      *)
LEMMA PopFacts ==
    ASSUME stack \in Seq(Frame), stack # <<>>, stack' = Rest
    PROVE  /\ stack' \in Seq(Frame)
           /\ Len(stack) \in Nat \ {0} /\ Len(stack') = Len(stack) - 1
           /\ \A i \in 1..Len(stack') : stack'[i] = stack[i]
  <1>1. Len(stack) \in Nat \ {0}
    BY LenProperties, EmptySeq
  <1>2. \A i \in 1..(Len(stack) - 1) : i \in 1..Len(stack)
    BY <1>1
  <1>3. stack \in [1..Len(stack) -> Frame]
    BY LenProperties
  <1> QED BY <1>1, <1>2, <1>3, SubSeqProperties, LenProperties DEF Rest

(* Host code runs on top of the innermost callback, or of nothing.         *)
LEMMA TopIsLast ==
    ASSUME stack \in Seq(Frame)
    PROVE  /\ Len(stack) \in Nat /\ (stack = <<>> <=> Len(stack) = 0)
           /\ stack # <<>> => Len(stack) \in 1..Len(stack) /\ Top \in Frame
           /\ HostRuns <=> (Len(stack) # 0 => stack[Len(stack)].kind = "host")
           /\ EngineRuns <=> Len(stack) # 0 /\ stack[Len(stack)].kind = "native"
  <1>1. Len(stack) \in Nat /\ (stack = <<>> <=> Len(stack) = 0)
    BY LenProperties, EmptySeq
  <1>2. stack # <<>> => Len(stack) \in 1..Len(stack)
    BY <1>1
  <1> QED BY <1>1, <1>2, ElementOfSeq DEF Top, HostRuns, EngineRuns

(* Outside host calls no operation is under way where host code runs.      *)
LEMMA NothingUnderWay ==
    ASSUME TypeOK, DepthIsHalf, HostRuns, hostDepth = 0
    PROVE  stack = <<>>
  <1>1. stack \in Seq(Frame) BY DEF TypeOK
  <1> QED BY <1>1, LenProperties, EmptySeq DEF DepthIsHalf

(* Entering a frame of the other kind.                                     *)
LEMMA PushKeeps ==
    ASSUME stack \in Seq(Frame), hostDepth \in Nat, Alternates, DepthIsHalf,
           NEW f \in Frame, stack' = Append(stack, f),
           \/ HostRuns /\ f.kind = "native" /\ hostDepth' = hostDepth
           \/ EngineRuns /\ f.kind = "host" /\ hostDepth' = hostDepth + 1
    PROVE  Alternates' /\ DepthIsHalf'
  <1> USE TopIsLast, PushFacts
  <1>1. /\ Len(stack) \in Nat /\ Len(stack') = Len(stack) + 1
        /\ \A i \in 1..Len(stack) : stack'[i] = stack[i]
        /\ stack'[Len(stack')] = f
    OBVIOUS
  <1>2. /\ HostRuns' <=> f.kind = "host"
        /\ EngineRuns' <=> f.kind = "native"
    BY <1>1 DEF HostRuns, EngineRuns, Top
  <1>3. DepthIsHalf'
    BY <1>1, <1>2 DEF DepthIsHalf
  <1>4. stack'[1].kind = "native"
    <2>1. CASE stack = <<>>
      BY <2>1, <1>1
    <2>2. CASE stack # <<>>
      BY <2>2, <1>1 DEF Alternates
    <2> QED BY <2>1, <2>2
  <1>5. ASSUME NEW i \in 1..(Len(stack') - 1) PROVE stack'[i].kind # stack'[i + 1].kind
    <2>1. CASE i \in 1..(Len(stack) - 1)
      <3>1. i \in 1..Len(stack) /\ i + 1 \in 1..Len(stack)
        BY <1>1, <2>1
      <3> QED BY <2>1, <3>1, <1>1 DEF Alternates
    <2>2. CASE i = Len(stack)
      <3>1. i \in 1..Len(stack) /\ i + 1 = Len(stack') /\ stack # <<>>
        BY <1>1, <2>2
      <3>2. stack'[i] = stack[Len(stack)] /\ stack'[i + 1] = f
        BY <1>1, <3>1, <2>2
      <3>3. stack[Len(stack)].kind # f.kind
        BY <3>1
      <3> QED BY <3>2, <3>3
    <2> QED BY <2>1, <2>2, <1>1
  <1> QED BY <1>3, <1>4, <1>5 DEF Alternates

(* Leaving the innermost frame.                                            *)
LEMMA PopKeeps ==
    ASSUME stack \in Seq(Frame), hostDepth \in Nat, Alternates, DepthIsHalf,
           stack # <<>>, stack' = Rest,
           \/ Top.kind = "native" /\ hostDepth' = hostDepth
           \/ Top.kind = "host" /\ hostDepth' = hostDepth - 1
    PROVE  Alternates' /\ DepthIsHalf' /\ hostDepth' \in Nat
  <1>0. /\ Len(stack) \in Nat \ {0} /\ Len(stack') = Len(stack) - 1
        /\ stack' \in Seq(Frame)
        /\ \A i \in 1..Len(stack') : stack'[i] = stack[i]
    BY PopFacts
  <1>1. Top = stack[Len(stack)] /\ Top \in Frame /\ stack[1] \in Frame
    BY <1>0, TopIsLast, ElementOfSeq DEF Top
  <1>2. /\ Top.kind = "native" => Len(stack) = 2 * hostDepth + 1
        /\ Top.kind = "host" => Len(stack) = 2 * hostDepth
    BY DEF DepthIsHalf, HostRuns, EngineRuns
  <1>3. Alternates'
    <2>1. stack' # <<>> => stack'[1].kind = "native"
      <3>1. stack' # <<>> => 1 \in 1..Len(stack')
        BY <1>0, EmptySeq
      <3> QED BY <3>1, <1>0 DEF Alternates
    <2>2. ASSUME NEW i \in 1..(Len(stack') - 1) PROVE stack'[i].kind # stack'[i + 1].kind
      <3>1. i \in 1..Len(stack') /\ i + 1 \in 1..Len(stack') /\ i \in 1..(Len(stack) - 1)
        BY <1>0
      <3> QED BY <3>1, <1>0 DEF Alternates
    <2> QED BY <2>1, <2>2 DEF Alternates
  <1>4. CASE Len(stack) = 1
    <2>1. stack' = <<>> /\ Top.kind = "native"
      BY <1>0, <1>1, <1>4, EmptySeq DEF Alternates
    <2> QED BY <2>1, <1>0, <1>2, <1>3, <1>4 DEF DepthIsHalf, HostRuns, EngineRuns
  <1>5. CASE Len(stack) > 1
    <2>1. Len(stack') \in 1..Len(stack') /\ stack' # <<>> /\ Len(stack') + 1 = Len(stack)
      BY <1>0, <1>5, EmptySeq
    <2>2. Len(stack') \in 1..(Len(stack) - 1) /\ Len(stack') \in 1..Len(stack)
      BY <1>0, <2>1
    <2>3. stack[Len(stack')].kind # Top.kind
      BY <2>1, <2>2, <1>1 DEF Alternates
    <2>4. Top' = stack[Len(stack')] /\ Top' \in Frame
      BY <1>0, <2>1, <2>2, ElementOfSeq DEF Top
    <2>5. (HostRuns' <=> Top.kind = "native") /\ (EngineRuns' <=> Top.kind = "host")
      BY <1>1, <2>1, <2>3, <2>4 DEF HostRuns, EngineRuns, Frame
    <2> QED BY <2>5, <1>0, <1>1, <1>2, <1>3, <1>5 DEF DepthIsHalf
  <1> QED BY <1>0, <1>4, <1>5

(* A step that leaves the stack alone.                                     *)
LEMMA StackStays ==
    ASSUME Alternates, DepthIsHalf, UNCHANGED <<stack, hostDepth>>
    PROVE  Alternates' /\ DepthIsHalf'
  BY DEF Alternates, DepthIsHalf, HostRuns, EngineRuns, Top

(* Names in use stay cached when the caches only grow, ...                 *)
LEMMA KeysStay ==
    ASSUME TypeOK, KeysInUseAreCached, UNCHANGED stack,
           \A c \in Contexts : cache[c] \subseteq cache'[c]
    PROVE  KeysInUseAreCached'
  <1> SUFFICES ASSUME NEW i \in 1..Len(stack), stack[i].key # None
               PROVE  stack[i].key \in cache'[stack[i].ctx]
    BY DEF KeysInUseAreCached
  <1>0. stack[i] \in Frame
    BY ElementOfSeq DEF TypeOK
  <1>1. stack[i].ctx \in Contexts
    BY <1>0 DEF Frame
  <1> QED BY <1>1 DEF KeysInUseAreCached

(* ... also under a new operation whose name is cached.                    *)
LEMMA KeysStayBelow ==
    ASSUME TypeOK, KeysInUseAreCached,
           \A c \in Contexts : stack # <<>> => cache[c] \subseteq cache'[c],
           NEW f \in Frame, stack' = Append(stack, f), f.key # None => f.key \in cache'[f.ctx]
    PROVE  KeysInUseAreCached'
  <1>0. stack \in Seq(Frame)
    BY DEF TypeOK
  <1>1. /\ Len(stack) \in Nat /\ Len(stack') = Len(stack) + 1
        /\ \A i \in 1..Len(stack) : stack'[i] = stack[i]
        /\ stack'[Len(stack')] = f
    BY <1>0, PushFacts
  <1> SUFFICES ASSUME NEW i \in 1..Len(stack'), stack'[i].key # None
               PROVE  stack'[i].key \in cache'[stack'[i].ctx]
    BY DEF KeysInUseAreCached
  <1>2. CASE i = Len(stack')
    BY <1>1, <1>2
  <1>3. CASE i \in 1..Len(stack)
    <2>1. stack[i] \in Frame /\ stack # <<>> /\ stack'[i] = stack[i]
      BY <1>0, <1>1, <1>3, ElementOfSeq, EmptySeq
    <2>2. stack[i].ctx \in Contexts
      BY <2>1 DEF Frame
    <2> QED BY <2>1, <2>2, <1>3 DEF KeysInUseAreCached
  <1> QED BY <1>1, <1>2, <1>3

-----------------------------------------------------------------------------
(* Every action keeps the inductive invariant.                             *)

(* The invariant holds initially.                                          *)
LEMMA InitIInv == Init => IInv
  <1> SUFFICES ASSUME Init PROVE IInv
    OBVIOUS
  <1>1. TypeOK
    <2>1. stack \in Seq(Frame)
      BY EmptySeq DEF Init
    <2> QED BY <2>1 DEF Init, TypeOK, AtomHandle
  <1>2. ASSUME NEW k \in Keys PROVE CachesOf(k) = {} /\ AtomsOf(k) = {}
    BY DEF Init, CachesOf, AtomsOf
  <1>3. AtomRefsBalance
    <2>1. \A k \in Keys : Cardinality(CachesOf(k)) = 0 /\ Cardinality(AtomsOf(k)) = 0
      BY <1>2, FS_EmptySet
    <2>2. \A k \in Keys : refs[k] = 0 /\ lost[k] = 0 /\ k \notin guest
      BY DEF Init
    <2> QED BY <2>1, <2>2, BalanceMeans
  <1>4. Len(stack) = 0 /\ hostDepth = 0 /\ stack = <<>>
    BY EmptySeq DEF Init
  <1> QED BY <1>1, <1>3, <1>4
      DEF IInv, KeysInUseAreCached, Alternates, DepthIsHalf, HostRuns, EngineRuns

(* Emptying a full cache happens only when no operation is under way, and  *)
(* gives back one reference of each of its names.                          *)
LEMMA KeptFacts ==
    ASSUME TypeOK, DepthIsHalf, HostRuns, NEW c \in Contexts
    PROVE  /\ Kept(c) \subseteq cache[c]
           /\ stack # <<>> => Kept(c) = cache[c]
           /\ RefsKept(c) \in [Keys -> Int]
           /\ \A k \in Keys : RefsKept(c)[k] = refs[k]
                 + (IF k \in Kept(c) THEN 1 ELSE 0) - (IF k \in cache[c] THEN 1 ELSE 0)
  <1>1. stack # <<>> => Kept(c) = cache[c]
    BY NothingUnderWay DEF Kept, Full
  <1>2. Kept(c) \subseteq cache[c]
    BY DEF Kept
  <1>3. refs \in [Keys -> Nat]
    BY DEF TypeOK
  <1> HIDE DEF Kept
  <1> QED BY <1>1, <1>2, <1>3 DEF RefsKept

(* A name that is cached.                                                  *)
LEMMA HitStep ==
    ASSUME IInv, NEW c \in Contexts, NEW k \in Keys, Hit(c, k)
    PROVE  IInv'
  <1> DEFINE f == [kind |-> "native", ctx |-> c, key |-> k]
  <1>1. f \in Frame /\ stack' = Append(stack, f) /\ HostRuns
    BY DEF Hit, Enter, Frame
  <1>2. TypeOK /\ stack \in Seq(Frame) /\ hostDepth \in Nat
    BY DEF IInv, TypeOK
  <1>3. UNCHANGED <<cache, refs, guest, atom, lost, closed, hostDepth>>
    BY DEF Hit
  <1>4. TypeOK'
    BY <1>1, <1>2, <1>3, PushFacts DEF TypeOK
  <1>5. AtomRefsBalance'
    BY <1>3 DEF IInv, AtomRefsBalance
  <1>6. KeysInUseAreCached'
    <2>1. f.key \in cache'[f.ctx]
      BY <1>3 DEF Hit
    <2> QED BY <1>1, <1>2, <1>3, <2>1, KeysStayBelow DEF IInv
  <1>7. Alternates' /\ DepthIsHalf'
    BY <1>1, <1>2, <1>3, PushKeeps DEF IInv
  <1> QED BY <1>4, <1>5, <1>6, <1>7 DEF IInv

(* A name that is not cached.                                              *)
LEMMA MissStep ==
    ASSUME IInv, NEW c \in Contexts, NEW k \in Keys, Miss(c, k)
    PROVE  IInv'
  <1> DEFINE f == [kind |-> "native", ctx |-> c, key |-> k]
             S == Kept(c) \cup {k}
  <1>1. f \in Frame /\ stack' = Append(stack, f) /\ HostRuns
    BY DEF Miss, Enter, Frame
  <1>2. TypeOK /\ stack \in Seq(Frame) /\ hostDepth \in Nat /\ DepthIsHalf
    BY DEF IInv, TypeOK
  <1>3. /\ UNCHANGED <<guest, atom, lost, closed, hostDepth>>
        /\ k \notin cache[c]
        /\ cache' = [cache EXCEPT ![c] = S]
        /\ refs' = [RefsKept(c) EXCEPT ![k] = @ + 1]
    BY DEF Miss
  <1>4. /\ Kept(c) \subseteq cache[c] /\ (stack # <<>> => Kept(c) = cache[c])
        /\ RefsKept(c) \in [Keys -> Int]
        /\ \A q \in Keys : RefsKept(c)[q] = refs[q]
              + (IF q \in Kept(c) THEN 1 ELSE 0) - (IF q \in cache[c] THEN 1 ELSE 0)
    BY <1>1, <1>2, KeptFacts
  <1>5. cache \in [Contexts -> SUBSET Keys] /\ refs \in [Keys -> Nat] /\ lost \in [Keys -> Nat]
    BY <1>2 DEF TypeOK
  <1>6. ASSUME NEW q \in Keys
        PROVE  refs'[q] = Cardinality(CachesOf(q)') + Cardinality(AtomsOf(q)')
                        + (IF q \in guest' THEN 1 ELSE 0) + lost'[q]
    <2>1. /\ Cardinality(CachesOf(q)) \in Nat
          /\ Cardinality(CachesOf(q)') = Cardinality(CachesOf(q))
                + (IF q \in S THEN 1 ELSE 0) - (IF q \in cache[c] THEN 1 ELSE 0)
      <3> HIDE DEF S
      <3> QED BY <1>3, <1>5, CachesCount
    <2>2. AtomsOf(q)' = AtomsOf(q) /\ Cardinality(AtomsOf(q)) \in Nat
      BY <1>3, CountsStay
    <2>3. refs[q] = Cardinality(CachesOf(q)) + Cardinality(AtomsOf(q))
                    + (IF q \in guest THEN 1 ELSE 0) + lost[q]
      BY BalanceMeans DEF IInv
    <2>4. refs'[q] = refs[q] + (IF q \in S THEN 1 ELSE 0) - (IF q \in cache[c] THEN 1 ELSE 0)
      <3>1. CASE q = k
        BY <3>1, <1>3, <1>4, <1>5
      <3>2. CASE q # k
        BY <3>2, <1>3, <1>4, <1>5
      <3> QED BY <3>1, <3>2
    <2> QED BY <2>1, <2>2, <2>3, <2>4, <1>3, <1>5
  <1>7. AtomRefsBalance'
    BY <1>6, BalanceMeans
  <1>8. TypeOK'
    <2>1. \A q \in Keys : refs'[q] \in Nat
      BY <1>7, <1>3, <1>5, BalancedIsNat
    <2>2. refs' \in [Keys -> Nat]
      BY <2>1, <1>3, <1>4
    <2>3. cache' \in [Contexts -> SUBSET Keys]
      BY <1>3, <1>4, <1>5
    <2> QED BY <2>2, <2>3, <1>1, <1>2, <1>3, PushFacts DEF TypeOK
  <1>9. KeysInUseAreCached'
    <2>1. f.key \in cache'[f.ctx]
      BY <1>3, <1>5
    <2>2. \A d \in Contexts : stack # <<>> => cache[d] \subseteq cache'[d]
      BY <1>3, <1>4, <1>5
    <2> QED BY <1>1, <1>2, <2>1, <2>2, KeysStayBelow DEF IInv
  <1>10. Alternates' /\ DepthIsHalf'
    BY <1>1, <1>2, <1>3, PushKeeps DEF IInv
  <1> QED BY <1>7, <1>8, <1>9, <1>10 DEF IInv

(* A name that cannot be made into an atom.                                *)
LEMMA MissFailsStep ==
    ASSUME IInv, NEW c \in Contexts, NEW k \in Keys, MissFails(c, k)
    PROVE  IInv'
  <1>2. TypeOK /\ stack \in Seq(Frame) /\ hostDepth \in Nat /\ DepthIsHalf /\ HostRuns
    BY DEF IInv, TypeOK, MissFails
  <1>3. /\ UNCHANGED <<guest, atom, lost, closed, hostDepth, stack>>
        /\ cache' = [cache EXCEPT ![c] = Kept(c)]
        /\ refs' = RefsKept(c)
    BY DEF MissFails
  <1>4. /\ Kept(c) \subseteq cache[c] /\ (stack # <<>> => Kept(c) = cache[c])
        /\ RefsKept(c) \in [Keys -> Int]
        /\ \A q \in Keys : RefsKept(c)[q] = refs[q]
              + (IF q \in Kept(c) THEN 1 ELSE 0) - (IF q \in cache[c] THEN 1 ELSE 0)
    BY <1>2, KeptFacts
  <1>5. cache \in [Contexts -> SUBSET Keys] /\ refs \in [Keys -> Nat] /\ lost \in [Keys -> Nat]
    BY <1>2 DEF TypeOK
  <1>6. ASSUME NEW q \in Keys
        PROVE  refs'[q] = Cardinality(CachesOf(q)') + Cardinality(AtomsOf(q)')
                        + (IF q \in guest' THEN 1 ELSE 0) + lost'[q]
    <2>1. /\ Cardinality(CachesOf(q)) \in Nat
          /\ Cardinality(CachesOf(q)') = Cardinality(CachesOf(q))
                + (IF q \in Kept(c) THEN 1 ELSE 0) - (IF q \in cache[c] THEN 1 ELSE 0)
      BY <1>3, <1>5, CachesCount
    <2>2. AtomsOf(q)' = AtomsOf(q) /\ Cardinality(AtomsOf(q)) \in Nat
      BY <1>3, CountsStay
    <2>3. refs[q] = Cardinality(CachesOf(q)) + Cardinality(AtomsOf(q))
                    + (IF q \in guest THEN 1 ELSE 0) + lost[q]
      BY BalanceMeans DEF IInv
    <2>4. /\ guest' = guest /\ lost'[q] = lost[q] /\ lost[q] \in Nat /\ refs[q] \in Nat
          /\ refs'[q] = refs[q]
                + (IF q \in Kept(c) THEN 1 ELSE 0) - (IF q \in cache[c] THEN 1 ELSE 0)
      BY <1>3, <1>4, <1>5
    <2> QED BY <2>1, <2>2, <2>3, <2>4
  <1>7. AtomRefsBalance'
    BY <1>6, BalanceMeans
  <1>8. TypeOK'
    <2>1. \A q \in Keys : refs'[q] \in Nat
      BY <1>7, <1>3, <1>5, BalancedIsNat
    <2>2. refs' \in [Keys -> Nat]
      BY <2>1, <1>3, <1>4
    <2>3. cache' \in [Contexts -> SUBSET Keys]
      BY <1>3, <1>4, <1>5
    <2> QED BY <2>2, <2>3, <1>2, <1>3 DEF TypeOK
  <1>9. KeysInUseAreCached'
    <2>1. CASE stack = <<>>
      <3>1. Len(stack) = 0
        BY <2>1, EmptySeq
      <3> QED BY <3>1, <1>3 DEF KeysInUseAreCached
    <2>2. CASE stack # <<>>
      <3>1. \A d \in Contexts : cache[d] \subseteq cache'[d]
        BY <2>2, <1>3, <1>4, <1>5
      <3> QED BY <3>1, <1>2, <1>3, KeysStay DEF IInv
    <2> QED BY <2>1, <2>2
  <1>10. Alternates' /\ DepthIsHalf'
    BY <1>3, StackStays DEF IInv
  <1> QED BY <1>7, <1>8, <1>9, <1>10 DEF IInv

(* An operation without a name.                                            *)
LEMMA OperateStep ==
    ASSUME IInv, NEW c \in Contexts, Operate(c)
    PROVE  IInv'
  <1> DEFINE f == [kind |-> "native", ctx |-> c, key |-> None]
  <1>1. f \in Frame /\ stack' = Append(stack, f) /\ HostRuns
    BY DEF Operate, Enter, Frame
  <1>2. TypeOK /\ stack \in Seq(Frame) /\ hostDepth \in Nat
    BY DEF IInv, TypeOK
  <1>3. UNCHANGED <<cache, refs, guest, atom, lost, closed, hostDepth>>
    BY DEF Operate
  <1>4. TypeOK'
    BY <1>1, <1>2, <1>3, PushFacts DEF TypeOK
  <1>5. AtomRefsBalance'
    BY <1>3 DEF IInv, AtomRefsBalance
  <1>6. KeysInUseAreCached'
    BY <1>1, <1>2, <1>3, KeysStayBelow DEF IInv
  <1>7. Alternates' /\ DepthIsHalf'
    BY <1>1, <1>2, <1>3, PushKeeps DEF IInv
  <1> QED BY <1>4, <1>5, <1>6, <1>7 DEF IInv

(* The guest calls a host function.                                        *)
LEMMA CallHostStep ==
    ASSUME IInv, CallHost
    PROVE  IInv'
  <1> DEFINE f == [kind |-> "host", ctx |-> Top.ctx, key |-> None]
  <1>2. TypeOK /\ stack \in Seq(Frame) /\ hostDepth \in Nat /\ EngineRuns
    BY DEF IInv, TypeOK, CallHost
  <1>1. f \in Frame /\ stack' = Append(stack, f)
    <2>1. Top.ctx \in Contexts
      BY <1>2, TopIsLast DEF EngineRuns, Frame
    <2> QED BY <2>1 DEF CallHost, Enter, Frame
  <1>3. UNCHANGED <<cache, refs, guest, atom, lost, closed>> /\ hostDepth' = hostDepth + 1
    BY DEF CallHost
  <1>4. TypeOK'
    BY <1>1, <1>2, <1>3, PushFacts DEF TypeOK
  <1>5. AtomRefsBalance'
    BY <1>3 DEF IInv, AtomRefsBalance
  <1>6. KeysInUseAreCached'
    BY <1>1, <1>2, <1>3, KeysStayBelow DEF IInv
  <1>7. Alternates' /\ DepthIsHalf'
    BY <1>1, <1>2, <1>3, PushKeeps DEF IInv
  <1> QED BY <1>4, <1>5, <1>6, <1>7 DEF IInv

(* A native operation or a host function returns.                          *)
LEMMA ReturnStep ==
    ASSUME IInv, NativeReturns \/ HostReturns
    PROVE  IInv'
  <1>1. /\ stack # <<>> /\ stack' = Rest
        /\ \/ Top.kind = "native" /\ hostDepth' = hostDepth
           \/ Top.kind = "host" /\ hostDepth' = hostDepth - 1
        /\ UNCHANGED <<cache, refs, guest, atom, lost, closed>>
    BY DEF NativeReturns, HostReturns, EngineRuns
  <1>2. TypeOK /\ stack \in Seq(Frame) /\ hostDepth \in Nat
    BY DEF IInv, TypeOK
  <1>3. Alternates' /\ DepthIsHalf' /\ hostDepth' \in Nat
    BY <1>1, <1>2, PopKeeps DEF IInv
  <1>4. /\ stack' \in Seq(Frame)
        /\ Len(stack) \in Nat \ {0} /\ Len(stack') = Len(stack) - 1
        /\ \A i \in 1..Len(stack') : stack'[i] = stack[i]
    BY <1>1, <1>2, PopFacts
  <1>5. TypeOK'
    BY <1>1, <1>2, <1>3, <1>4 DEF TypeOK
  <1>6. AtomRefsBalance'
    BY <1>1 DEF IInv, AtomRefsBalance
  <1>7. KeysInUseAreCached'
    <2> SUFFICES ASSUME NEW i \in 1..Len(stack'), stack'[i].key # None
                 PROVE  stack'[i].key \in cache'[stack'[i].ctx]
      BY DEF KeysInUseAreCached
    <2>1. i \in 1..Len(stack) /\ stack'[i] = stack[i]
      BY <1>4
    <2> QED BY <2>1, <1>1 DEF IInv, KeysInUseAreCached
  <1> QED BY <1>3, <1>5, <1>6, <1>7 DEF IInv

(* The guest takes or drops a reference.                                   *)
LEMMA GuestStep ==
    ASSUME IInv, NEW k \in Keys, GuestKeeps(k) \/ GuestDrops(k)
    PROVE  IInv'
  <1>1. /\ UNCHANGED <<cache, atom, lost, closed, hostDepth, stack>>
        /\ \/ k \notin guest /\ guest' = guest \cup {k} /\ refs' = [refs EXCEPT ![k] = @ + 1]
           \/ k \in guest /\ guest' = guest \ {k} /\ refs' = [refs EXCEPT ![k] = @ - 1]
    BY DEF GuestKeeps, GuestDrops
  <1>2. TypeOK /\ refs \in [Keys -> Nat] /\ lost \in [Keys -> Nat] /\ guest \subseteq Keys
    BY DEF IInv, TypeOK
  <1>3. ASSUME NEW q \in Keys
        PROVE  refs'[q] = Cardinality(CachesOf(q)') + Cardinality(AtomsOf(q)')
                        + (IF q \in guest' THEN 1 ELSE 0) + lost'[q]
    <2>1. /\ CachesOf(q)' = CachesOf(q) /\ AtomsOf(q)' = AtomsOf(q)
          /\ Cardinality(CachesOf(q)) \in Nat /\ Cardinality(AtomsOf(q)) \in Nat
      BY <1>1, CountsStay
    <2>2. refs[q] = Cardinality(CachesOf(q)) + Cardinality(AtomsOf(q))
                    + (IF q \in guest THEN 1 ELSE 0) + lost[q]
      BY BalanceMeans DEF IInv
    <2> QED BY <2>1, <2>2, <1>1, <1>2
  <1>4. AtomRefsBalance'
    BY <1>3, BalanceMeans
  <1>5. TypeOK'
    <2>1. \A q \in Keys : refs'[q] \in Nat
      BY <1>1, <1>2, <1>4, BalancedIsNat
    <2>2. refs' \in [Keys -> Nat] /\ guest' \subseteq Keys
      BY <2>1, <1>1, <1>2
    <2> QED BY <2>2, <1>1, <1>2 DEF TypeOK
  <1>6. KeysInUseAreCached'
    BY <1>1 DEF IInv, KeysInUseAreCached
  <1>7. Alternates' /\ DepthIsHalf'
    BY <1>1, StackStays DEF IInv
  <1> QED BY <1>4, <1>5, <1>6, <1>7 DEF IInv

(* Host code makes, copies or disposes a JSAtom h whose state becomes n.   *)
LEMMA AtomStep ==
    ASSUME IInv, NEW a \in Atoms, NEW n \in AtomHandle,
           atom' = [atom EXCEPT ![a] = n],
           UNCHANGED <<cache, guest, closed, hostDepth, stack>>,
           refs' \in [Keys -> Int], lost' \in [Keys -> Nat],
           \A k \in Keys : refs'[k] - lost'[k] = refs[k] - lost[k]
               + (IF n.life = "live" /\ n.key = k THEN 1 ELSE 0)
               - (IF atom[a].life = "live" /\ atom[a].key = k THEN 1 ELSE 0)
    PROVE  IInv'
  <1>1. /\ TypeOK /\ refs \in [Keys -> Nat] /\ lost \in [Keys -> Nat]
        /\ atom \in [Atoms -> AtomHandle]
    BY DEF IInv, TypeOK
  <1>2. ASSUME NEW q \in Keys
        PROVE  refs'[q] = Cardinality(CachesOf(q)') + Cardinality(AtomsOf(q)')
                        + (IF q \in guest' THEN 1 ELSE 0) + lost'[q]
    <2>1. CachesOf(q)' = CachesOf(q) /\ Cardinality(CachesOf(q)) \in Nat
      BY CountsStay
    <2>2. /\ Cardinality(AtomsOf(q)) \in Nat
          /\ Cardinality(AtomsOf(q)') = Cardinality(AtomsOf(q))
                + (IF n.life = "live" /\ n.key = q THEN 1 ELSE 0)
                - (IF atom[a].life = "live" /\ atom[a].key = q THEN 1 ELSE 0)
      BY <1>1, AtomsCount
    <2>3. refs[q] = Cardinality(CachesOf(q)) + Cardinality(AtomsOf(q))
                    + (IF q \in guest THEN 1 ELSE 0) + lost[q]
      BY BalanceMeans DEF IInv
    <2>4. refs'[q] \in Int /\ lost'[q] \in Nat /\ refs[q] \in Nat /\ lost[q] \in Nat
      BY <1>1
    <2> QED BY <2>1, <2>2, <2>3, <2>4
  <1>3. AtomRefsBalance'
    BY <1>2, BalanceMeans
  <1>4. TypeOK'
    <2>1. \A q \in Keys : refs'[q] \in Nat
      BY <1>3, BalancedIsNat
    <2>2. refs' \in [Keys -> Nat] /\ atom' \in [Atoms -> AtomHandle]
      BY <2>1, <1>1
    <2> QED BY <2>2, <1>1 DEF TypeOK
  <1>5. KeysInUseAreCached'
    BY DEF IInv, KeysInUseAreCached
  <1>6. Alternates' /\ DepthIsHalf'
    BY StackStays DEF IInv
  <1> QED BY <1>3, <1>4, <1>5, <1>6 DEF IInv

(* A JSAtom is made.                                                       *)
LEMMA NewAtomStep ==
    ASSUME IInv, NEW a \in Atoms, NEW c \in Contexts, NEW k \in Keys, newAtom(a, c, k)
    PROVE  IInv'
  <1> DEFINE n == [life |-> "live", ctx |-> c, key |-> k]
  <1>1. /\ refs \in [Keys -> Nat] /\ lost \in [Keys -> Nat] /\ atom \in [Atoms -> AtomHandle]
    BY DEF IInv, TypeOK
  <1>2. /\ atom' = [atom EXCEPT ![a] = n] /\ n \in AtomHandle
        /\ UNCHANGED <<cache, guest, lost, closed, hostDepth, stack>>
        /\ refs' = [refs EXCEPT ![k] = @ + 1]
        /\ atom[a].life # "live"
    BY DEF newAtom, AtomHandle, Unborn
  <1>3. \A q \in Keys : refs'[q] - lost'[q] = refs[q] - lost[q]
               + (IF n.life = "live" /\ n.key = q THEN 1 ELSE 0)
               - (IF atom[a].life = "live" /\ atom[a].key = q THEN 1 ELSE 0)
    BY <1>1, <1>2
  <1>4. refs' \in [Keys -> Int] /\ lost' \in [Keys -> Nat]
    BY <1>1, <1>2
  <1> QED BY <1>2, <1>3, <1>4, AtomStep

(* Counting up or down at a name, or at no name at all.                    *)
LEMMA AddedTo ==
    ASSUME NEW f \in [Keys -> Nat], NEW k
    PROVE  /\ [f EXCEPT ![k] = @ + 1] \in [Keys -> Nat]
           /\ [f EXCEPT ![k] = @ + 1] \in [Keys -> Int]
           /\ [f EXCEPT ![k] = @ - 1] \in [Keys -> Int]
           /\ f \in [Keys -> Int]
  <1>1. CASE k \in Keys
    BY <1>1
  <1>2. CASE k \notin Keys
    <2>1. [f EXCEPT ![k] = @ + 1] = f /\ [f EXCEPT ![k] = @ - 1] = f
      BY <1>2
    <2>2. f \in [Keys -> Nat] /\ f \in [Keys -> Int]
      OBVIOUS
    <2> QED BY <2>1, <2>2, Zenon
  <1> QED BY <1>1, <1>2

(* A JSAtom is copied.                                                     *)
LEMMA DupStep ==
    ASSUME IInv, NEW a \in Atoms, NEW copy \in Atoms, dup(a, copy)
    PROVE  IInv'
  <1>1. /\ refs \in [Keys -> Nat] /\ lost \in [Keys -> Nat] /\ atom \in [Atoms -> AtomHandle]
    BY DEF IInv, TypeOK
  <1>2. /\ atom' = [atom EXCEPT ![copy] = atom[a]] /\ atom[a] \in AtomHandle
        /\ UNCHANGED <<cache, guest, lost, closed, hostDepth, stack>>
        /\ refs' = [refs EXCEPT ![atom[a].key] = @ + 1]
        /\ atom[copy].life # "live" /\ atom[a].life = "live"
    BY <1>1 DEF dup, Unborn
  <1>3. \A q \in Keys : refs'[q] - lost'[q] = refs[q] - lost[q]
               + (IF atom[a].life = "live" /\ atom[a].key = q THEN 1 ELSE 0)
               - (IF atom[copy].life = "live" /\ atom[copy].key = q THEN 1 ELSE 0)
    BY <1>1, <1>2
  <1>4. refs' \in [Keys -> Int] /\ lost' \in [Keys -> Nat]
    BY <1>1, <1>2, AddedTo
  <1> QED BY <1>2, <1>3, <1>4, AtomStep, ZenonT(60)

(* A JSAtom is disposed, before or after its context.                      *)
LEMMA DisposeStep ==
    ASSUME IInv, NEW a \in Atoms, dispose(a)
    PROVE  IInv'
  <1> DEFINE n == [atom[a] EXCEPT !.life = "disposed"]
  <1>1. /\ refs \in [Keys -> Nat] /\ lost \in [Keys -> Nat] /\ atom \in [Atoms -> AtomHandle]
    BY DEF IInv, TypeOK
  <1>2. /\ atom' = [atom EXCEPT ![a] = n] /\ n \in AtomHandle /\ n.life # "live"
        /\ UNCHANGED <<cache, guest, closed, hostDepth, stack>>
        /\ atom[a].life = "live"
        /\ \/ refs' = refs /\ lost' = [lost EXCEPT ![atom[a].key] = @ + 1]
           \/ lost' = lost /\ refs' = [refs EXCEPT ![atom[a].key] = @ - 1]
    BY <1>1 DEF dispose, AtomHandle
  <1>3. \A q \in Keys : refs'[q] - lost'[q] = refs[q] - lost[q]
               + (IF n.life = "live" /\ n.key = q THEN 1 ELSE 0)
               - (IF atom[a].life = "live" /\ atom[a].key = q THEN 1 ELSE 0)
    BY <1>1, <1>2
  <1>4. refs' \in [Keys -> Int] /\ lost' \in [Keys -> Nat]
    BY <1>1, <1>2, AddedTo
  <1> QED BY <1>2, <1>3, <1>4, AtomStep

(* A context is disposed: no operation is under way.                       *)
LEMMA DisposeContextStep ==
    ASSUME IInv, NEW c \in Contexts, DisposeContext(c)
    PROVE  IInv'
  <1>1. /\ UNCHANGED <<guest, atom, lost, hostDepth, stack>>
        /\ closed' = closed \cup {c}
        /\ cache' = [cache EXCEPT ![c] = {}]
        /\ refs' = [k \in Keys |-> IF k \in cache[c] THEN refs[k] - 1 ELSE refs[k]]
    BY DEF DisposeContext
  <1>2. /\ TypeOK /\ refs \in [Keys -> Nat] /\ lost \in [Keys -> Nat]
        /\ cache \in [Contexts -> SUBSET Keys]
    BY DEF IInv, TypeOK
  <1>3. stack = <<>> /\ Len(stack) = 0
    BY <1>2, NothingUnderWay, EmptySeq DEF DisposeContext, IInv
  <1>4. ASSUME NEW q \in Keys
        PROVE  refs'[q] = Cardinality(CachesOf(q)') + Cardinality(AtomsOf(q)')
                        + (IF q \in guest' THEN 1 ELSE 0) + lost'[q]
    <2>1. /\ Cardinality(CachesOf(q)) \in Nat
          /\ Cardinality(CachesOf(q)') = Cardinality(CachesOf(q))
                + (IF q \in {} THEN 1 ELSE 0) - (IF q \in cache[c] THEN 1 ELSE 0)
      <3> DEFINE S == {}
      <3>1. cache' = [cache EXCEPT ![c] = S]
        BY <1>1
      <3> HIDE DEF S
      <3>2. /\ Cardinality(CachesOf(q)) \in Nat
            /\ Cardinality(CachesOf(q)') = Cardinality(CachesOf(q))
                  + (IF q \in S THEN 1 ELSE 0) - (IF q \in cache[c] THEN 1 ELSE 0)
        BY <3>1, <1>2, CachesCount
      <3> QED BY <3>2 DEF S
    <2>2. AtomsOf(q)' = AtomsOf(q) /\ Cardinality(AtomsOf(q)) \in Nat
      BY <1>1, CountsStay
    <2>3. refs[q] = Cardinality(CachesOf(q)) + Cardinality(AtomsOf(q))
                    + (IF q \in guest THEN 1 ELSE 0) + lost[q]
      BY BalanceMeans DEF IInv
    <2> QED BY <2>1, <2>2, <2>3, <1>1, <1>2
  <1>5. AtomRefsBalance'
    BY <1>4, BalanceMeans
  <1>6. TypeOK'
    <2>1. \A q \in Keys : refs'[q] \in Nat
      BY <1>1, <1>2, <1>5, BalancedIsNat
    <2>2. refs' \in [Keys -> Nat] /\ cache' \in [Contexts -> SUBSET Keys]
      BY <2>1, <1>1, <1>2
    <2> QED BY <2>2, <1>1, <1>2 DEF TypeOK
  <1>7. KeysInUseAreCached'
    BY <1>1, <1>3 DEF KeysInUseAreCached
  <1>8. Alternates' /\ DepthIsHalf'
    BY <1>1, StackStays DEF IInv
  <1> QED BY <1>5, <1>6, <1>7, <1>8 DEF IInv

(* Every step keeps the invariant.                                         *)
LEMMA NextIInv == IInv /\ [Next]_vars => IInv'
  <1> SUFFICES ASSUME IInv, [Next]_vars PROVE IInv'
    OBVIOUS
  <1>1. CASE LookUp
    BY <1>1, HitStep, MissStep, MissFailsStep DEF LookUp
  <1>2. CASE \E c \in Contexts : Operate(c) \/ DisposeContext(c)
    BY <1>2, OperateStep, DisposeContextStep
  <1>3. CASE \E k \in Keys : GuestKeeps(k) \/ GuestDrops(k)
    BY <1>3, GuestStep
  <1>4. CASE NativeReturns \/ HostReturns
    BY <1>4, ReturnStep
  <1>5. CASE CallHost
    BY <1>5, CallHostStep
  <1>6. CASE \E a \in Atoms, c \in Contexts, k \in Keys : newAtom(a, c, k)
    BY <1>6, NewAtomStep
  <1>7. CASE \E a, copy \in Atoms : dup(a, copy)
    BY <1>7, DupStep
  <1>8. CASE \E a \in Atoms : dispose(a)
    BY <1>8, DisposeStep
  <1>9. CASE UNCHANGED vars
    BY <1>9 DEF vars, IInv, TypeOK, AtomRefsBalance, KeysInUseAreCached, Alternates,
                DepthIsHalf, HostRuns, EngineRuns, Top
  <1> QED BY <1>1, <1>2, <1>3, <1>4, <1>5, <1>6, <1>7, <1>8, <1>9 DEF Next

-----------------------------------------------------------------------------
(* The results.                                                            *)

(* The inductive invariant holds in every reachable state.                 *)
THEOREM Invariance == Spec => []IInv
  BY InitIInv, NextIInv, PTL DEF Spec

(* Every variable has its type: no reference count falls below 0.          *)
THEOREM TypeCorrect == Spec => []TypeOK
  <1>1. IInv => TypeOK BY DEF IInv
  <1> QED BY <1>1, Invariance, PTL

(* Every reference to an atom is accounted for (JSContext.atom, dispose    *)
(* of JSAtom and JSContext).                                               *)
THEOREM Balance == Spec => []AtomRefsBalance
  <1>1. IInv => AtomRefsBalance BY DEF IInv
  <1> QED BY <1>1, Invariance, PTL

(* The atom of an operation under way is alive and cached, however full    *)
(* the cache gets in the callbacks that it makes (JSContext.atom).         *)
THEOREM InUse == Spec => []AtomsInUseAreAlive
  <1>1. ASSUME IInv PROVE AtomsInUseAreAlive
    <2> SUFFICES ASSUME NEW i \in 1..Len(stack), stack[i].key # None
                 PROVE  stack[i].key \in cache[stack[i].ctx] /\ refs[stack[i].key] > 0
      BY DEF AtomsInUseAreAlive
    <2> DEFINE k == stack[i].key
               c == stack[i].ctx
    <2>0. stack[i] \in Frame
      BY <1>1, ElementOfSeq DEF IInv, TypeOK
    <2>1. k \in Keys /\ c \in Contexts
      BY <2>0 DEF Frame
    <2>2. k \in cache[c]
      BY <1>1 DEF IInv, KeysInUseAreCached
    <2>3. CachesOf(k) # {} /\ IsFiniteSet(CachesOf(k))
      BY <2>1, <2>2, CountsStay DEF CachesOf
    <2>4. Cardinality(CachesOf(k)) \in Nat /\ Cardinality(CachesOf(k)) # 0
      BY <2>3, FS_EmptySet, FS_CardinalityType
    <2>5. refs[k] = Cardinality(CachesOf(k)) + Cardinality(AtomsOf(k))
                    + (IF k \in guest THEN 1 ELSE 0) + lost[k]
      BY <1>1, <2>1, BalanceMeans DEF IInv
    <2>6. Cardinality(AtomsOf(k)) \in Nat /\ lost[k] \in Nat
      BY <1>1, <2>1, CountsStay DEF IInv, TypeOK
    <2> HIDE DEF k, c
    <2>7. refs[k] > 0
      BY <2>4, <2>5, <2>6
    <2> QED BY <2>2, <2>7 DEF k, c
  <1> QED BY <1>1, Invariance, PTL

(* Outside host calls a look-up never lets a cache outgrow its limit.      *)
THEOREM WithinLimit == Spec => CacheStaysWithinLimit
  <1> DEFINE Fits(c) == \/ Cardinality(cache'[c]) <= Limit
                        \/ Cardinality(cache'[c]) <= Cardinality(cache[c])
  <1>1. ASSUME IInv, [Next]_vars, hostDepth = 0, NEW d \in Contexts PROVE Fits(d)
    <2>1. cache \in [Contexts -> SUBSET Keys]
      BY <1>1 DEF IInv, TypeOK
    <2>2. \A c \in Contexts : IsFiniteSet(cache[c]) /\ Cardinality(cache[c]) \in Nat
      BY <2>1, KeysAssumption, FS_Subset, FS_CardinalityType
    <2>3. CASE UNCHANGED cache
      BY <2>2, <2>3
    <2>4. ASSUME NEW c \in Contexts, cache' = [cache EXCEPT ![c] = {}] PROVE Fits(d)
      <3>1. CASE d = c
        BY <3>1, <2>1, <2>4, FS_EmptySet, LimitAssumption
      <3>2. CASE d # c
        BY <3>2, <2>1, <2>2, <2>4
      <3> QED BY <3>1, <3>2
    <2>5. ASSUME NEW c \in Contexts, NEW k \in Keys, Miss(c, k) PROVE Fits(d)
      <3>1. cache' = [cache EXCEPT ![c] = Kept(c) \cup {k}] /\ k \notin cache[c]
        BY <2>5 DEF Miss
      <3>2. CASE d # c
        BY <3>1, <3>2, <2>1, <2>2
      <3>3. CASE d = c /\ Full(c)
        <4>1. cache'[d] = {} \cup {k}
          BY <3>1, <3>3, <2>1 DEF Kept
        <4>2. Cardinality(cache'[d]) = 1
          BY <4>1, FS_Singleton
        <4> QED BY <4>2, LimitAssumption
      <3>4. CASE d = c /\ ~Full(c)
        <4>1. cache'[d] = cache[c] \cup {k}
          BY <3>1, <3>4, <2>1 DEF Kept
        <4>2. Cardinality(cache'[d]) = Cardinality(cache[c]) + 1
          BY <4>1, <3>1, <2>2, FS_AddElement
        <4>3. Cardinality(cache[c]) < Limit
          BY <3>4, <1>1, <2>2, LimitAssumption DEF Full
        <4> QED BY <4>2, <4>3, <2>2, LimitAssumption
      <3> QED BY <3>2, <3>3, <3>4
    <2>6. ASSUME NEW c \in Contexts, NEW k \in Keys, MissFails(c, k) PROVE Fits(d)
      <3>1. cache' = [cache EXCEPT ![c] = {}] \/ cache' = [cache EXCEPT ![c] = cache[c]]
        BY <2>6 DEF MissFails, Kept
      <3>2. cache' = [cache EXCEPT ![c] = cache[c]] => UNCHANGED cache
        BY <2>1
      <3> QED BY <3>1, <3>2, <2>3, <2>4
    <2>7. CASE LookUp
      <3>1. \A c \in Contexts, k \in Keys : Hit(c, k) => UNCHANGED cache
        BY DEF Hit
      <3> HIDE DEF Fits
      <3> QED BY <3>1, <2>3, <2>5, <2>6, <2>7 DEF LookUp
    <2>8. CASE \E c \in Contexts : DisposeContext(c)
      <3> HIDE DEF Fits
      <3> QED BY <2>4, <2>8 DEF DisposeContext
    <2>9. CASE Next /\ ~LookUp /\ ~\E c \in Contexts : DisposeContext(c)
      BY <2>3, <2>9 DEF Next, Operate, GuestKeeps, GuestDrops, NativeReturns, CallHost,
                        HostReturns, newAtom, dup, dispose
    <2>10. CASE UNCHANGED vars
      BY <2>3, <2>10 DEF vars
    <2> QED BY <1>1, <2>7, <2>8, <2>9, <2>10
  <1>2. IInv /\ [Next]_vars => [hostDepth = 0 => \A c \in Contexts :
         Cardinality(cache'[c]) <= Limit \/ Cardinality(cache'[c]) <= Cardinality(cache[c])]_vars
    BY <1>1
  <1> QED BY <1>2, Invariance, PTL DEF Spec, CacheStaysWithinLimit

-----------------------------------------------------------------------------
(* An object that holds a slot was made for a value, and so is the one     *)
(* that is being made, which keeps its slot until it fails.                *)
ValuesAreDefined ==
    /\ \A o \in Objects : Holds(o) => object[o].val # Undefined
    /\ making.stage = "native" => making.val # Undefined /\ hosts[making.id] = making.val

(* Nothing is being made when the runtime is freed.                        *)
FreedWhenIdle == phase # "live" => making = Idle

SlotsIInv ==
    /\ SlotsTypeOK
    /\ SlotLeadsToItsValue
    /\ FreeSlotsAreFree
    /\ NoSlotLeaks
    /\ OneHolderPerSlot
    /\ ValuesAreDefined
    /\ FreedWhenIdle

-----------------------------------------------------------------------------

(* release empties the slot that it is given, leaves the others alone and  *)
(* keeps the free numbers exact, whether or not the slot was free.         *)
LEMMA ReleaseFacts ==
    ASSUME SlotsTypeOK, FreeSlotsAreFree, NEW id \in 1..Len(hosts), release(id)
    PROVE  /\ hosts' \in Seq(Values \cup {Undefined})
           /\ Len(hosts') = Len(hosts)
           /\ freeSlots' \in Seq(1..Len(hosts'))
           /\ \A i \in 1..Len(hosts) : hosts'[i] = IF i = id THEN Undefined ELSE hosts[i]
           /\ FreeSlotsAreFree'
  <1>0. /\ hosts \in Seq(Values \cup {Undefined})
        /\ freeSlots \in Seq(1..Len(hosts))
        /\ Len(hosts) \in Nat /\ Len(freeSlots) \in Nat
    BY LenProperties DEF SlotsTypeOK
  <1>1. CASE hosts[id] = Undefined
    <2>1. hosts' = hosts /\ freeSlots' = freeSlots
      BY <1>1 DEF release
    <2> QED BY <1>0, <1>1, <2>1 DEF FreeSlotsAreFree
  <1>2. CASE hosts[id] # Undefined
    <2>1. hosts' = [hosts EXCEPT ![id] = Undefined] /\ freeSlots' = Append(freeSlots, id)
      BY <1>2 DEF release
    <2>2. hosts' \in Seq(Values \cup {Undefined}) /\ Len(hosts') = Len(hosts)
      BY <1>0, <2>1, ExceptSeq
    <2>3. \A i \in 1..Len(hosts) : hosts'[i] = IF i = id THEN Undefined ELSE hosts[i]
      BY <1>0, <2>1, ExceptSeq
    <2>4. /\ freeSlots' \in Seq(1..Len(hosts))
          /\ Len(freeSlots') = Len(freeSlots) + 1
          /\ \A i \in 1..Len(freeSlots) : freeSlots'[i] = freeSlots[i]
          /\ freeSlots'[Len(freeSlots) + 1] = id
      BY <1>0, <2>1, AppendProperties
    <2>5. \A i \in 1..Len(freeSlots) : freeSlots[i] \in 1..Len(hosts) /\ freeSlots[i] # id
      BY <1>0, <1>2, ElementOfSeq DEF FreeSlotsAreFree
    <2>6. \A i \in 1..Len(freeSlots') : hosts'[freeSlots'[i]] = Undefined
      <3> SUFFICES ASSUME NEW i \in 1..Len(freeSlots') PROVE hosts'[freeSlots'[i]] = Undefined
        OBVIOUS
      <3>1. CASE i \in 1..Len(freeSlots)
        BY <3>1, <2>3, <2>4, <2>5, ZenonT(60) DEF FreeSlotsAreFree
      <3>2. CASE i = Len(freeSlots) + 1
        BY <3>2, <2>3, <2>4
      <3> QED BY <3>1, <3>2, <2>4, <1>0
    <2>7. \A i, j \in 1..Len(freeSlots') : freeSlots'[i] = freeSlots'[j] => i = j
      <3> SUFFICES ASSUME NEW i \in 1..Len(freeSlots'), NEW j \in 1..Len(freeSlots'),
                          freeSlots'[i] = freeSlots'[j]
                   PROVE  i = j
        OBVIOUS
      <3>1. (i \in 1..Len(freeSlots) \/ i = Len(freeSlots) + 1)
            /\ (j \in 1..Len(freeSlots) \/ j = Len(freeSlots) + 1)
        BY <2>4, <1>0
      <3>2. i \in 1..Len(freeSlots) => freeSlots'[i] = freeSlots[i] /\ freeSlots[i] # id
        BY <2>4, <2>5
      <3>3. j \in 1..Len(freeSlots) => freeSlots'[j] = freeSlots[j] /\ freeSlots[j] # id
        BY <2>4, <2>5
      <3> QED BY <3>1, <3>2, <3>3, <2>4 DEF FreeSlotsAreFree
    <2>8. ASSUME NEW k \in 1..Len(hosts'), hosts'[k] = Undefined
          PROVE  \E i \in 1..Len(freeSlots') : freeSlots'[i] = k
      <3>1. CASE k = id
        <4>1. Len(freeSlots) + 1 \in 1..Len(freeSlots')
          BY <2>4, <1>0
        <4> QED BY <3>1, <2>4, <4>1
      <3>2. CASE k # id
        <4>1. k \in 1..Len(hosts) /\ hosts[k] = Undefined
          BY <3>2, <2>2, <2>3, <2>8
        <4>2. PICK i \in 1..Len(freeSlots) : freeSlots[i] = k
          BY <4>1 DEF FreeSlotsAreFree
        <4>3. i \in 1..Len(freeSlots') /\ freeSlots'[i] = k
          BY <4>2, <2>4, <1>0, SMTT(30)
        <4> QED BY <4>3
      <3> QED BY <3>1, <3>2
    <2>9. FreeSlotsAreFree'
      BY <2>6, <2>7, <2>8 DEF FreeSlotsAreFree
    <2> QED BY <2>2, <2>3, <2>4, <2>9
  <1> QED BY <1>1, <1>2

(* slot fills a slot that was free or new, leaves the others alone and     *)
(* keeps the free numbers exact.                                           *)
LEMMA SlotFacts ==
    ASSUME SlotsTypeOK, FreeSlotsAreFree, NEW v \in Values, slot(v)
    PROVE  /\ hosts' \in Seq(Values \cup {Undefined})
           /\ NextSlot \in 1..Len(hosts') /\ hosts'[NextSlot] = v
           /\ freeSlots' \in Seq(1..Len(hosts'))
           /\ Len(hosts) \in Nat /\ Len(hosts') \in Nat /\ Len(hosts) <= Len(hosts')
           /\ \A i \in 1..Len(hosts') : i # NextSlot => i \in 1..Len(hosts) /\ hosts'[i] = hosts[i]
           /\ NextSlot \in 1..Len(hosts) => hosts[NextSlot] = Undefined
           /\ FreeSlotsAreFree'
  <1>0. /\ hosts \in Seq(Values \cup {Undefined})
        /\ freeSlots \in Seq(1..Len(hosts))
        /\ Len(hosts) \in Nat /\ Len(freeSlots) \in Nat
        /\ v # Undefined
    BY LenProperties, UndefinedAssumption DEF SlotsTypeOK
  <1>1. CASE freeSlots = <<>>
    <2>1. NextSlot = Len(hosts) + 1 /\ hosts' = Append(hosts, v) /\ freeSlots' = freeSlots
      BY <1>1 DEF NextSlot, slot
    <2>2. /\ hosts' \in Seq(Values \cup {Undefined}) /\ Len(hosts') = Len(hosts) + 1
          /\ \A i \in 1..Len(hosts) : hosts'[i] = hosts[i]
          /\ hosts'[Len(hosts) + 1] = v
      BY <1>0, <2>1, AppendProperties
    <2>3. Len(freeSlots) = 0
      BY <1>1
    <2>4. \A i \in 1..Len(hosts') : i # NextSlot => i \in 1..Len(hosts) /\ hosts'[i] = hosts[i]
      BY <1>0, <2>1, <2>2
    <2>5. \A i \in 1..Len(hosts) : hosts[i] # Undefined
      BY <2>3 DEF FreeSlotsAreFree
    <2>6. \A i \in 1..Len(hosts') : hosts'[i] # Undefined
      BY <1>0, <2>1, <2>2, <2>4, <2>5
    <2>7. FreeSlotsAreFree'
      BY <1>1, <2>1, <2>3, <2>6 DEF FreeSlotsAreFree
    <2>8. freeSlots' \in Seq(1..Len(hosts'))
      BY <1>1, <2>1
    <2>9. NextSlot \in 1..Len(hosts') /\ ~(NextSlot \in 1..Len(hosts)) /\ Len(hosts) <= Len(hosts')
      BY <1>0, <2>1, <2>2
    <2> QED BY <1>0, <2>1, <2>2, <2>4, <2>7, <2>8, <2>9
  <1>2. CASE freeSlots # <<>>
    <2> DEFINE n == Len(freeSlots)
               rest == SubSeq(freeSlots, 1, n - 1)
    <2>1. NextSlot = freeSlots[n] /\ hosts' = [hosts EXCEPT ![NextSlot] = v] /\ freeSlots' = rest
      BY <1>2 DEF NextSlot, slot
    <2>2. n \in Nat \ {0}
      BY <1>0, <1>2, EmptySeq, LenProperties
    <2>3. \A i \in 1..n : freeSlots[i] \in 1..Len(hosts)
      BY <1>0, ElementOfSeq
    <2>4. /\ rest \in Seq(1..Len(hosts)) /\ Len(rest) = n - 1
          /\ \A i \in 1..(n - 1) : rest[i] = freeSlots[i]
      <3>1. n - 1 \in Int /\ 1 \in Int /\ \A i \in 1..(n - 1) : freeSlots[i] \in 1..Len(hosts)
        BY <2>2, <2>3
      <3>2. /\ rest \in Seq(1..Len(hosts))
            /\ Len(rest) = IF 1 <= n - 1 THEN (n - 1) - 1 + 1 ELSE 0
            /\ \A i \in 1..((n - 1) - 1 + 1) : rest[i] = freeSlots[1 + i - 1]
        BY <3>1, SubSeqProperties
      <3> HIDE DEF rest, n
      <3>3. Len(rest) = n - 1
        BY <2>2, <3>2
      <3>4. ASSUME NEW i \in 1..(n - 1) PROVE rest[i] = freeSlots[i]
        <4>1. i \in 1..((n - 1) - 1 + 1) /\ 1 + i - 1 = i
          BY <2>2
        <4> QED BY <3>2, <4>1
      <3> QED BY <3>2, <3>3, <3>4
    <2> HIDE DEF rest, n
    <2>5. NextSlot \in 1..Len(hosts) /\ hosts[NextSlot] = Undefined
      <3>1. n \in 1..n
        BY <2>2
      <3> QED BY <3>1, <2>1, <2>3 DEF FreeSlotsAreFree, n
    <2>6. hosts' \in Seq(Values \cup {Undefined}) /\ Len(hosts') = Len(hosts)
      BY <1>0, <2>1, <2>5, ExceptSeq
    <2>7. \A i \in 1..Len(hosts) : hosts'[i] = IF i = NextSlot THEN v ELSE hosts[i]
      BY <1>0, <2>1, <2>5, ExceptSeq
    <2>8. \A i \in 1..(n - 1) : i \in 1..n /\ freeSlots[i] # NextSlot
      <3>1. n \in 1..n /\ \A i \in 1..(n - 1) : i \in 1..n /\ i # n
        BY <2>2
      <3> QED BY <3>1, <2>1 DEF FreeSlotsAreFree, n
    <2>9. \A i \in 1..Len(freeSlots') : hosts'[freeSlots'[i]] = Undefined
      BY <2>1, <2>3, <2>4, <2>7, <2>8, SMTT(30) DEF FreeSlotsAreFree, n
    <2>10. \A i, j \in 1..Len(freeSlots') : freeSlots'[i] = freeSlots'[j] => i = j
      BY <2>1, <2>4, <2>8 DEF FreeSlotsAreFree, n
    <2>11. ASSUME NEW k \in 1..Len(hosts'), hosts'[k] = Undefined
           PROVE  \E i \in 1..Len(freeSlots') : freeSlots'[i] = k
      <3>1. k \in 1..Len(hosts) /\ k # NextSlot /\ hosts[k] = Undefined
        BY <1>0, <2>6, <2>7, <2>11
      <3>2. PICK i \in 1..n : freeSlots[i] = k
        BY <3>1 DEF FreeSlotsAreFree, n
      <3>3. i # n
        BY <3>1, <3>2, <2>1
      <3>4. i \in 1..(n - 1)
        BY <2>2, <3>3
      <3> QED BY <3>2, <3>4, <2>1, <2>4
    <2>12. FreeSlotsAreFree'
      BY <2>9, <2>10, <2>11 DEF FreeSlotsAreFree
    <2> QED BY <1>0, <2>1, <2>4, <2>5, <2>6, <2>7, <2>12
  <1> QED BY <1>1, <1>2

-----------------------------------------------------------------------------

(* Starting to make an object takes a slot that nobody holds.              *)
LEMMA BeginStep ==
    ASSUME SlotsIInv, NEW k \in {"function", "buffer"}, NEW v \in Values, Begin(k, v)
    PROVE  SlotsIInv'
  <1>0. SlotsTypeOK /\ FreeSlotsAreFree /\ slot(v)
    BY DEF SlotsIInv, Begin
  <1> DEFINE n == NextSlot
  <1>1. /\ hosts' \in Seq(Values \cup {Undefined})
        /\ n \in 1..Len(hosts') /\ hosts'[n] = v
        /\ freeSlots' \in Seq(1..Len(hosts'))
        /\ Len(hosts) \in Nat /\ Len(hosts') \in Nat /\ Len(hosts) <= Len(hosts')
        /\ \A i \in 1..Len(hosts') : i # n => i \in 1..Len(hosts) /\ hosts'[i] = hosts[i]
        /\ n \in 1..Len(hosts) => hosts[n] = Undefined
        /\ FreeSlotsAreFree'
    BY <1>0, SlotFacts
  <1>2. /\ making = Idle /\ object' = object /\ phase' = phase /\ phase = "live"
        /\ making' = [stage |-> "native", kind |-> k, id |-> n, val |-> v]
    BY DEF Begin
  <1> HIDE DEF n
  <1>3. v # Undefined /\ n \in Nat
    BY UndefinedAssumption, <1>1
  <1>4. ASSUME NEW o \in Objects, Holds(o)
        PROVE  /\ object[o].id \in 1..Len(hosts) /\ object[o].id # n
               /\ object[o].id \in 1..Len(hosts') /\ hosts'[object[o].id] = object[o].val
    <2>1. object[o].id \in 1..Len(hosts) /\ hosts[object[o].id] = object[o].val
          /\ object[o].val # Undefined
      BY <1>4 DEF SlotsIInv, SlotLeadsToItsValue, ValuesAreDefined
    <2>2. object[o].id # n
      BY <1>1, <2>1
    <2>3. object[o].id \in 1..Len(hosts')
      BY <1>1, <2>1
    <2> QED BY <1>1, <2>1, <2>2, <2>3
  <1>5. \A o \in Objects : Holds(o)' <=> Holds(o)
    BY <1>2 DEF Holds
  <1>6. SlotsTypeOK'
    BY <1>0, <1>1, <1>2, <1>3 DEF SlotsTypeOK, Making
  <1>7. SlotLeadsToItsValue'
    BY <1>2, <1>4, <1>5 DEF SlotLeadsToItsValue
  <1>8. NoSlotLeaks'
    <2> SUFFICES ASSUME NEW id \in 1..Len(hosts'), hosts'[id] # Undefined, id # n
                 PROVE  \E o \in Objects : Holds(o) /\ object[o].id = id
      BY <1>2, <1>5 DEF NoSlotLeaks
    <2>1. id \in 1..Len(hosts) /\ hosts[id] # Undefined
      BY <1>1
    <2>2. making.stage = "idle"
      BY <1>2 DEF Idle
    <2> QED BY <2>1, <2>2 DEF SlotsIInv, NoSlotLeaks
  <1>9. OneHolderPerSlot'
    BY <1>2, <1>4, <1>5 DEF SlotsIInv, OneHolderPerSlot
  <1>10. ValuesAreDefined'
    BY <1>1, <1>2, <1>3, <1>5 DEF SlotsIInv, ValuesAreDefined
  <1>11. FreedWhenIdle'
    BY <1>2 DEF FreedWhenIdle
  <1> QED BY <1>1, <1>6, <1>7, <1>8, <1>9, <1>10, <1>11 DEF SlotsIInv

(* A step that leaves the table alone.                                     *)
LEMMA MadeStep == ASSUME SlotsIInv, NEW o \in Objects, Made(o) PROVE SlotsIInv'
  <1>1. /\ making.stage = "native" /\ hosts' = hosts /\ freeSlots' = freeSlots /\ phase' = phase
        /\ making' = Idle /\ object[o].life = "none"
        /\ object' = [object EXCEPT ![o] = [life |-> "live", kind |-> making.kind, holds |-> TRUE,
                                            id |-> making.id, val |-> making.val]]
    BY DEF Made
  <1>2. /\ SlotsTypeOK /\ object \in [Objects -> Object] /\ making \in Making
        /\ making.id \in 1..Len(hosts)
        /\ hosts[making.id] = making.val /\ making.val # Undefined
    BY <1>1 DEF SlotsIInv, SlotsTypeOK, ValuesAreDefined
  <1>3. /\ object' \in [Objects -> Object]
        /\ object'[o].id = making.id /\ object'[o].val = making.val
        /\ Holds(o)' /\ ~Holds(o)
        /\ \A p \in Objects \ {o} : object'[p] = object[p]
    BY <1>1, <1>2 DEF Object, Making, Holds
  <1>4. \A p \in Objects \ {o} : Holds(p)' <=> Holds(p)
    BY <1>3 DEF Holds
  <1>5. making'.stage = "idle" /\ making' \in Making
    BY <1>1 DEF Idle, Making
  <1>6. SlotsTypeOK'
    BY <1>1, <1>2, <1>3, <1>5 DEF SlotsTypeOK
  <1>7. SlotLeadsToItsValue'
    BY <1>1, <1>2, <1>3, <1>4 DEF SlotsIInv, SlotLeadsToItsValue
  <1>8. FreeSlotsAreFree'
    BY <1>1 DEF SlotsIInv, FreeSlotsAreFree
  <1>9. NoSlotLeaks'
    <2> SUFFICES ASSUME NEW id \in 1..Len(hosts), hosts[id] # Undefined
                 PROVE  \E p \in Objects : Holds(p)' /\ object'[p].id = id
      BY <1>1 DEF NoSlotLeaks
    <2>1. CASE making.id = id
      BY <2>1, <1>3
    <2>2. CASE making.id # id
      <3>1. PICK p \in Objects : Holds(p) /\ object[p].id = id
        BY <2>2 DEF SlotsIInv, NoSlotLeaks
      <3>2. p # o
        BY <3>1, <1>3
      <3> QED BY <3>1, <3>2, <1>3, <1>4
    <2> QED BY <2>1, <2>2
  <1>10. OneHolderPerSlot'
    <2>1. \A p \in Objects : Holds(p) => object[p].id # making.id
      BY <1>1 DEF SlotsIInv, OneHolderPerSlot
    <2> QED BY <2>1, <1>3, <1>4, <1>5 DEF SlotsIInv, OneHolderPerSlot
  <1>11. ValuesAreDefined'
    BY <1>2, <1>3, <1>4, <1>5 DEF SlotsIInv, ValuesAreDefined
  <1>12. FreedWhenIdle'
    BY <1>1 DEF FreedWhenIdle
  <1> QED BY <1>6, <1>7, <1>8, <1>9, <1>10, <1>11, <1>12 DEF SlotsIInv

(* The engine gives up before the object has its slot.                     *)
LEMMA FailsEarlyStep == ASSUME SlotsIInv, FailsEarly PROVE SlotsIInv'
  <1>1. /\ making.stage = "native" /\ hosts' = hosts /\ freeSlots' = freeSlots
        /\ object' = object /\ phase' = phase
        /\ making' = [making EXCEPT !.stage = "failed"]
    BY DEF FailsEarly
  <1>2. making \in Making /\ making' \in Making /\ making'.stage = "failed" /\ making'.id = making.id
        /\ making # Idle
    BY <1>1 DEF SlotsIInv, SlotsTypeOK, Making, Idle
  <1>3. \A o \in Objects : Holds(o)' <=> Holds(o)
    BY <1>1 DEF Holds
  <1>4. SlotsTypeOK'
    BY <1>1, <1>2 DEF SlotsIInv, SlotsTypeOK
  <1>5. SlotLeadsToItsValue' /\ FreeSlotsAreFree'
    BY <1>1, <1>3 DEF SlotsIInv, SlotLeadsToItsValue, FreeSlotsAreFree
  <1>6. NoSlotLeaks'
    BY <1>1, <1>2, <1>3 DEF SlotsIInv, NoSlotLeaks
  <1>7. OneHolderPerSlot' /\ ValuesAreDefined' /\ FreedWhenIdle'
    BY <1>1, <1>2, <1>3 DEF SlotsIInv, OneHolderPerSlot, ValuesAreDefined, FreedWhenIdle
  <1> QED BY <1>4, <1>5, <1>6, <1>7 DEF SlotsIInv

(* The slot of the object being made is released, by its finalizer or by   *)
(* the catch clause, and nobody else holds it.                             *)
LEMMA ReleaseMakingStep ==
    ASSUME SlotsIInv, making.stage # "idle", release(making.id), object' = object, phase' = phase,
           making' = Idle \/ (making.stage = "native" /\ making' = [making EXCEPT !.stage = "failed"])
    PROVE  SlotsIInv'
  <1> DEFINE n == making.id
  <1>1. SlotsTypeOK /\ FreeSlotsAreFree /\ n \in 1..Len(hosts) /\ release(n)
    BY DEF SlotsIInv, SlotsTypeOK
  <1>2. /\ hosts' \in Seq(Values \cup {Undefined})
        /\ Len(hosts') = Len(hosts)
        /\ freeSlots' \in Seq(1..Len(hosts'))
        /\ \A i \in 1..Len(hosts) : hosts'[i] = IF i = n THEN Undefined ELSE hosts[i]
        /\ FreeSlotsAreFree'
    BY <1>1, ReleaseFacts
  <1>3. /\ making' \in Making /\ making'.stage # "native"
        /\ making'.stage = "idle" \/ making'.id \in 1..Len(hosts')
        /\ making'.stage = "idle" => making' = Idle
        /\ making'.stage # "idle" => making'.id = n
    BY <1>1, <1>2 DEF SlotsTypeOK, Making, Idle
  <1>4. \A o \in Objects : Holds(o)' <=> Holds(o)
    BY DEF Holds
  <1>5. \A o \in Objects : Holds(o) => object[o].id # n
    BY DEF SlotsIInv, OneHolderPerSlot
  <1> HIDE DEF n
  <1>6. SlotsTypeOK'
    BY <1>1, <1>2, <1>3 DEF SlotsTypeOK
  <1>7. SlotLeadsToItsValue'
    BY <1>2, <1>4, <1>5 DEF SlotsIInv, SlotLeadsToItsValue
  <1>8. NoSlotLeaks'
    <2> SUFFICES ASSUME NEW id \in 1..Len(hosts'), hosts'[id] # Undefined
                 PROVE  \E o \in Objects : Holds(o) /\ object[o].id = id
      BY <1>4 DEF NoSlotLeaks
    <2>1. id \in 1..Len(hosts) /\ id # n /\ hosts[id] # Undefined
      BY <1>2
    <2> QED BY <2>1 DEF SlotsIInv, NoSlotLeaks, n
  <1>9. OneHolderPerSlot'
    BY <1>3, <1>4, <1>5 DEF SlotsIInv, OneHolderPerSlot
  <1>10. ValuesAreDefined'
    BY <1>3, <1>4 DEF SlotsIInv, ValuesAreDefined
  <1>11. FreedWhenIdle'
    BY DEF SlotsIInv, FreedWhenIdle, Idle
  <1> QED BY <1>2, <1>6, <1>7, <1>8, <1>9, <1>10, <1>11 DEF SlotsIInv

(* An object gives up the slot that it holds.                              *)
LEMMA DropStep ==
    ASSUME SlotsIInv, NEW o \in Objects, Holds(o), release(object[o].id),
           object' \in [Objects -> Object], ~Holds(o)',
           \A p \in Objects \ {o} : object'[p] = object[p],
           making' = making, making.stage # "failed", phase' = phase
    PROVE  SlotsIInv'
  <1> DEFINE n == object[o].id
  <1>1. SlotsTypeOK /\ FreeSlotsAreFree /\ n \in 1..Len(hosts) /\ release(n)
    BY DEF SlotsIInv, SlotLeadsToItsValue
  <1>2. /\ hosts' \in Seq(Values \cup {Undefined})
        /\ Len(hosts') = Len(hosts)
        /\ freeSlots' \in Seq(1..Len(hosts'))
        /\ \A i \in 1..Len(hosts) : hosts'[i] = IF i = n THEN Undefined ELSE hosts[i]
        /\ FreeSlotsAreFree'
    BY <1>1, ReleaseFacts
  <1>3. \A p \in Objects \ {o} : (Holds(p)' <=> Holds(p)) /\ (Holds(p) => object[p].id # n)
    BY DEF SlotsIInv, OneHolderPerSlot, Holds
  <1>4. making.stage # "idle" => making.id # n
    BY DEF SlotsIInv, OneHolderPerSlot
  <1> HIDE DEF n
  <1>5. SlotsTypeOK'
    BY <1>1, <1>2 DEF SlotsTypeOK
  <1>6. SlotLeadsToItsValue'
    BY <1>2, <1>3 DEF SlotsIInv, SlotLeadsToItsValue
  <1>7. NoSlotLeaks'
    <2> SUFFICES ASSUME NEW id \in 1..Len(hosts'), hosts'[id] # Undefined,
                        ~(making.stage # "idle" /\ making.id = id)
                 PROVE  \E p \in Objects : Holds(p)' /\ object'[p].id = id
      BY DEF NoSlotLeaks
    <2>1. id \in 1..Len(hosts) /\ id # n /\ hosts[id] # Undefined
      BY <1>2
    <2>2. PICK p \in Objects : Holds(p) /\ object[p].id = id
      BY <2>1 DEF SlotsIInv, NoSlotLeaks
    <2>3. p # o
      BY <2>1, <2>2 DEF n
    <2> QED BY <1>3, <2>2, <2>3
  <1>8. OneHolderPerSlot'
    BY <1>3 DEF SlotsIInv, OneHolderPerSlot
  <1>9. ValuesAreDefined'
    <2>1. making.stage = "native" => making.id \in 1..Len(hosts) /\ making.id # n
      BY <1>1, <1>4 DEF SlotsTypeOK
    <2> QED BY <1>2, <1>3, <2>1 DEF SlotsIInv, ValuesAreDefined
  <1>10. FreedWhenIdle'
    BY DEF SlotsIInv, FreedWhenIdle
  <1> QED BY <1>2, <1>5, <1>6, <1>7, <1>8, <1>9, <1>10 DEF SlotsIInv

(* Finalizers, with and without a slot to release.                         *)
LEMMA FinalizeStep == ASSUME SlotsIInv, NEW o \in Objects, Finalize(o) PROVE SlotsIInv'
  <1>1. /\ object' = [object EXCEPT ![o] = Absent] /\ making' = making /\ phase' = phase
        /\ making.stage # "failed" /\ object[o].life = "live"
    BY DEF Finalize, EngineActs
  <1>2. /\ object' \in [Objects -> Object] /\ ~Holds(o)'
        /\ \A p \in Objects \ {o} : object'[p] = object[p]
    BY <1>1 DEF SlotsIInv, SlotsTypeOK, Object, Absent, Holds
  <1>3. CASE object[o].holds
    <2>1. Holds(o) /\ release(object[o].id)
      BY <1>1, <1>3 DEF Finalize, Holds
    <2> QED BY <1>1, <1>2, <2>1, DropStep
  <1>4. CASE ~object[o].holds
    <2>1. hosts' = hosts /\ freeSlots' = freeSlots
      BY <1>4 DEF Finalize
    <2>2. ~Holds(o)
      BY <1>4 DEF Holds
    <2>3. \A p \in Objects : (Holds(p)' <=> Holds(p)) /\ (Holds(p) => object'[p] = object[p])
      BY <1>2, <2>2 DEF Holds
    <2>4. SlotsTypeOK'
      BY <1>1, <1>2, <2>1 DEF SlotsIInv, SlotsTypeOK
    <2>5. SlotLeadsToItsValue' /\ FreeSlotsAreFree'
      BY <2>1, <2>3 DEF SlotsIInv, SlotLeadsToItsValue, FreeSlotsAreFree
    <2>6. NoSlotLeaks' /\ OneHolderPerSlot'
      BY <1>1, <2>1, <2>3 DEF SlotsIInv, NoSlotLeaks, OneHolderPerSlot
    <2>7. ValuesAreDefined' /\ FreedWhenIdle'
      BY <1>1, <2>1, <2>3 DEF SlotsIInv, ValuesAreDefined, FreedWhenIdle
    <2> QED BY <2>4, <2>5, <2>6, <2>7 DEF SlotsIInv
  <1> QED BY <1>3, <1>4

(* A detached buffer releases its slot and lives on without one.           *)
LEMMA DetachStep == ASSUME SlotsIInv, NEW o \in Objects, Detach(o) PROVE SlotsIInv'
  <1>1. /\ object' = [object EXCEPT ![o].holds = FALSE] /\ making' = making /\ phase' = phase
        /\ making.stage # "failed" /\ Holds(o) /\ release(object[o].id)
    BY DEF Detach, EngineActs
  <1>2. /\ object' \in [Objects -> Object] /\ ~Holds(o)'
        /\ \A p \in Objects \ {o} : object'[p] = object[p]
    BY <1>1 DEF SlotsIInv, SlotsTypeOK, Object, Holds
  <1> QED BY <1>1, <1>2, DropStep

(* A transferred buffer hands its slot over.                               *)
LEMMA TransferStep ==
    ASSUME SlotsIInv, NEW o \in Objects, NEW new \in Objects, Transfer(o, new) PROVE SlotsIInv'
  <1>1. /\ object' = [object EXCEPT ![new] = object[o], ![o].holds = FALSE]
        /\ making' = making /\ phase' = phase /\ hosts' = hosts /\ freeSlots' = freeSlots
        /\ Holds(o) /\ object[new].life = "none"
    BY DEF Transfer
  <1>2. o # new /\ ~Holds(new)
    BY <1>1 DEF Holds
  <1>3. object \in [Objects -> Object]
    BY DEF SlotsIInv, SlotsTypeOK
  <1>4. /\ object' \in [Objects -> Object]
        /\ ~Holds(o)' /\ Holds(new)' /\ object'[new] = object[o]
        /\ \A p \in Objects \ {o, new} : object'[p] = object[p]
    BY <1>1, <1>2, <1>3, ZenonT(60) DEF Object, Holds
  <1>5. \A p \in Objects \ {o, new} : Holds(p)' <=> Holds(p)
    BY <1>4 DEF Holds
  <1>6. SlotsTypeOK'
    BY <1>1, <1>4 DEF SlotsIInv, SlotsTypeOK
  <1>7. SlotLeadsToItsValue' /\ FreeSlotsAreFree'
    BY <1>1, <1>4, <1>5 DEF SlotsIInv, SlotLeadsToItsValue, FreeSlotsAreFree
  <1>8. NoSlotLeaks'
    <2> SUFFICES ASSUME NEW id \in 1..Len(hosts), hosts[id] # Undefined,
                        ~(making.stage # "idle" /\ making.id = id)
                 PROVE  \E p \in Objects : Holds(p)' /\ object'[p].id = id
      BY <1>1 DEF NoSlotLeaks
    <2>1. PICK p \in Objects : Holds(p) /\ object[p].id = id
      BY DEF SlotsIInv, NoSlotLeaks
    <2>2. CASE p = o
      BY <2>1, <2>2, <1>4
    <2>3. CASE p # o
      <3>1. p \in Objects \ {o, new}
        BY <2>1, <2>3, <1>2
      <3> QED BY <2>1, <3>1, <1>4, <1>5
    <2> QED BY <2>2, <2>3
  <1>9. OneHolderPerSlot'
    <2>1. \A p \in Objects \ {o, new} : Holds(p) => object[p].id # object[o].id
      BY <1>1 DEF SlotsIInv, OneHolderPerSlot
    <2> QED BY <1>1, <1>4, <1>5, <2>1 DEF SlotsIInv, OneHolderPerSlot
  <1>10. ValuesAreDefined' /\ FreedWhenIdle'
    BY <1>1, <1>4, <1>5 DEF SlotsIInv, ValuesAreDefined, FreedWhenIdle
  <1> QED BY <1>6, <1>7, <1>8, <1>9, <1>10 DEF SlotsIInv

(* The end of the runtime.                                                 *)
LEMMA SlotsDisposeStep == ASSUME SlotsIInv, FreeRuntime \/ ClearTable PROVE SlotsIInv'
  <1>1. CASE FreeRuntime
    <2>1. hosts' = hosts /\ freeSlots' = freeSlots /\ object' = object /\ making' = making
          /\ making = Idle /\ phase' = "freeing"
      BY <1>1 DEF FreeRuntime
    <2>2. \A o \in Objects : Holds(o)' <=> Holds(o)
      BY <2>1 DEF Holds
    <2>3. SlotsTypeOK' /\ FreeSlotsAreFree' /\ FreedWhenIdle'
      BY <2>1 DEF SlotsIInv, SlotsTypeOK, FreeSlotsAreFree, FreedWhenIdle
    <2>4. SlotLeadsToItsValue' /\ NoSlotLeaks' /\ OneHolderPerSlot' /\ ValuesAreDefined'
      BY <2>1, <2>2 DEF SlotsIInv, SlotLeadsToItsValue, NoSlotLeaks, OneHolderPerSlot, ValuesAreDefined
    <2> QED BY <2>3, <2>4 DEF SlotsIInv
  <1>2. CASE ClearTable
    <2>1. hosts' = <<>> /\ freeSlots' = <<>> /\ object' = object /\ making' = making
          /\ phase' = "disposed" /\ phase = "freeing"
          /\ \A o \in Objects : object[o].life = "none"
      BY <1>2 DEF ClearTable
    <2>2. making = Idle /\ making.stage = "idle"
      BY <2>1 DEF SlotsIInv, FreedWhenIdle, Idle
    <2>3. \A o \in Objects : ~Holds(o)'
      BY <2>1 DEF Holds
    <2>4. Len(hosts') = 0 /\ Len(freeSlots') = 0
      BY <2>1
    <2>5. SlotsTypeOK'
      BY <2>1, <2>2 DEF SlotsIInv, SlotsTypeOK
    <2>6. SlotLeadsToItsValue' /\ FreeSlotsAreFree' /\ NoSlotLeaks'
      BY <2>3, <2>4 DEF SlotLeadsToItsValue, FreeSlotsAreFree, NoSlotLeaks
    <2>7. OneHolderPerSlot' /\ ValuesAreDefined' /\ FreedWhenIdle'
      BY <2>1, <2>2, <2>3 DEF OneHolderPerSlot, ValuesAreDefined, FreedWhenIdle
    <2> QED BY <2>5, <2>6, <2>7 DEF SlotsIInv
  <1> QED BY <1>1, <1>2

-----------------------------------------------------------------------------

(* The table starts empty.                                                 *)
LEMMA InitInv == SlotsInit => SlotsIInv
  <1> SUFFICES ASSUME SlotsInit PROVE SlotsIInv
    OBVIOUS
  <1>1. hosts = <<>> /\ freeSlots = <<>> /\ making = Idle /\ phase = "live"
        /\ object = [o \in Objects |-> Absent]
    BY DEF SlotsInit
  <1>2. Len(hosts) = 0 /\ Len(freeSlots) = 0 /\ making.stage = "idle"
    BY <1>1 DEF Idle
  <1>3. \A o \in Objects : ~Holds(o)
    BY <1>1 DEF Holds, Absent
  <1>4. object \in [Objects -> Object] /\ making \in Making
    BY <1>1 DEF Object, Absent, Idle, Making
  <1>5. hosts \in Seq(Values \cup {Undefined}) /\ freeSlots \in Seq(1..Len(hosts))
    BY <1>1
  <1>6. SlotsTypeOK
    BY <1>1, <1>2, <1>4, <1>5 DEF SlotsTypeOK
  <1> QED BY <1>1, <1>2, <1>3, <1>6 DEF SlotsIInv, SlotLeadsToItsValue, FreeSlotsAreFree, NoSlotLeaks,
                                     OneHolderPerSlot, ValuesAreDefined, FreedWhenIdle

(* Every step keeps the invariant.                                         *)
LEMMA NextStep == SlotsIInv /\ [SlotsNext]_slotsVars => SlotsIInv'
  <1> SUFFICES ASSUME SlotsIInv, [SlotsNext]_slotsVars PROVE SlotsIInv'
    OBVIOUS
  <1>1. CASE \E v \in Values : newFunction(v) \/ newArrayBuffer(v)
    <2>1. PICK v \in Values : newFunction(v) \/ newArrayBuffer(v)
      BY <1>1
    <2>2. PICK k \in {"function", "buffer"} : Begin(k, v)
      BY <2>1 DEF newFunction, newArrayBuffer
    <2> QED BY <2>2, BeginStep
  <1>2. CASE \E o \in Objects : Made(o) \/ Finalize(o) \/ Detach(o)
    BY <1>2, MadeStep, FinalizeStep, DetachStep
  <1>3. CASE \E o, new \in Objects : Transfer(o, new)
    BY <1>3, TransferStep
  <1>4. CASE FailsEarly
    BY <1>4, FailsEarlyStep
  <1>5. CASE FailsLate
    BY <1>5, ReleaseMakingStep DEF FailsLate
  <1>6. CASE CatchFailure
    BY <1>6, ReleaseMakingStep DEF CatchFailure
  <1>7. CASE FreeRuntime \/ ClearTable
    BY <1>7, SlotsDisposeStep
  <1>8. CASE UNCHANGED slotsVars
    BY <1>8 DEF slotsVars, SlotsIInv, SlotsTypeOK, SlotLeadsToItsValue, FreeSlotsAreFree, NoSlotLeaks,
                OneHolderPerSlot, ValuesAreDefined, FreedWhenIdle, Holds
  <1> QED BY <1>1, <1>2, <1>3, <1>4, <1>5, <1>6, <1>7, <1>8 DEF SlotsNext

(* The inductive invariant holds throughout.                               *)
THEOREM SlotsInvariance == SlotsSpec => []SlotsIInv
  BY InitInv, NextStep, PTL DEF SlotsSpec

(* The variables of HostSlots have their types.                            *)
THEOREM SlotsTypeCorrect == SlotsSpec => []SlotsTypeOK
  <1>1. SlotsIInv => SlotsTypeOK
    BY DEF SlotsIInv
  <1> QED BY <1>1, SlotsInvariance, PTL

(* However many functions and buffers come and go, collections and         *)
(* failures included, a live one leads to its own closure or array.        *)
THEOREM SlotsLead == SlotsSpec => []SlotLeadsToItsValue
  <1>1. SlotsIInv => SlotLeadsToItsValue
    BY DEF SlotsIInv
  <1> QED BY <1>1, SlotsInvariance, PTL

(* The stack of free numbers is exact and free of duplicates: the second   *)
(* release of a failed newFunction never gives a number away twice.        *)
THEOREM FreeSlotsExact == SlotsSpec => []FreeSlotsAreFree
  <1>1. SlotsIInv => FreeSlotsAreFree
    BY DEF SlotsIInv
  <1> QED BY <1>1, SlotsInvariance, PTL

(* No closure or array is kept for an object that is gone.                 *)
THEOREM SlotsDoNotLeak == SlotsSpec => []NoSlotLeaks
  <1>1. SlotsIInv => NoSlotLeaks
    BY DEF SlotsIInv
  <1> QED BY <1>1, SlotsInvariance, PTL

(* A slot is never held by two objects.                                    *)
THEOREM HolderIsUnique == SlotsSpec => []OneHolderPerSlot
  <1>1. SlotsIInv => OneHolderPerSlot
    BY DEF SlotsIInv
  <1> QED BY <1>1, SlotsInvariance, PTL

=============================================================================
