---------------------------- MODULE ReadsProofs -----------------------------
(***************************************************************************)
(* Proofs about what the host reads from a guest: of the invariants of     *)
(* Dump, for any memory and any limits, and of OwnKeys, for any contents,  *)
(* buffers and number of retries.  The heart of the inductive invariant of *)
(* Dump is that an address in seen still holds the value it was entered    *)
(* for, because kept or the dumped handle holds on to it.                  *)
(***************************************************************************)
EXTENDS Dump, OwnKeys, SequenceTheorems, TLAPS

(* What somebody refers to is not freed.                                   *)
HeldIsLive == \A a \in Addresses : a \in guest \cup Held => heap[a] # 0

(* A guest value has one address.                                          *)
OneAddress == \A a, b \in Addresses : heap[a] # 0 /\ heap[a] = heap[b] => a = b

(* The value about to be visited is held.                                  *)
CurIsHeld == mode = "visit" /\ cur # None => cur \in Held

(* The addresses in seen hold the values that they were entered for.       *)
SeenIsCurrent ==
    rootHeld /\ mode # "idle" =>
        \A a \in Addresses : seen[a] # 0 => a \in Held /\ heap[a] = made[seen[a]]

(* Every host value was entered in seen.                                   *)
MadeIsSeen == \A n \in 1..Len(made) : \E a \in Addresses : seen[a] = n

(* Every guest value visited was made into one host value.                 *)
MadeOnce ==
    rootHeld =>
        /\ \A p \in pairs : p[2] \in 1..Len(made) /\ p[1] = made[p[2]]
        /\ \A m, n \in 1..Len(made) : made[m] = made[n] => m = n

(* While a dump goes on, its count is that of the visits.                  *)
VisitsCounted == mode \notin {"idle", "failed"} => nodes = Len(visits)

IInv ==
    /\ TypeOK
    /\ HeldIsLive
    /\ OneAddress
    /\ CurIsHeld
    /\ SeenIsCurrent
    /\ MadeIsSeen
    /\ MadeOnce
    /\ VisitsCounted
    /\ WithinLimits

-----------------------------------------------------------------------------
(* The stack.                                                              *)

(* Popping a stack.                                                        *)
LEMMA RestProperties ==
    ASSUME stack \in Seq(Frame), stack # <<>>
    PROVE  /\ Len(stack) \in Nat \ {0}
           /\ Rest \in Seq(Frame)
           /\ Len(Rest) = Len(stack) - 1
           /\ Top \in Frame
  <1>1. Len(stack) \in Nat \ {0}
    BY EmptySeq, LenProperties
  <1>2. \A i \in 1..Len(stack) : stack[i] \in Frame
    BY ElementOfSeq
  <1>3. Top \in Frame
    BY <1>1, <1>2 DEF Top
  <1> DEFINE n == Len(stack) - 1
  <1>4. n \in Nat /\ 1 \in Int /\ \A i \in 1..n : stack[i] \in Frame
    BY <1>1, <1>2
  <1>5. /\ SubSeq(stack, 1, n) \in Seq(Frame)
        /\ Len(SubSeq(stack, 1, n)) = IF 1 <= n THEN n - 1 + 1 ELSE 0
    BY <1>4, SubSeqProperties
  <1>6. Rest = SubSeq(stack, 1, n)
    BY DEF Rest
  <1> HIDE DEF n
  <1>7. Len(Rest) = n
    BY <1>4, <1>5, <1>6
  <1> QED BY <1>1, <1>3, <1>5, <1>6, <1>7 DEF n

(* Changing how many entries the innermost array or object has left.       *)
LEMMA RetopProperties ==
    ASSUME stack \in Seq(Frame), stack # <<>>, NEW n \in Nat
    PROVE  /\ Append(Rest, [Top EXCEPT !.left = n]) \in Seq(Frame)
           /\ Len(Append(Rest, [Top EXCEPT !.left = n])) = Len(stack)
           /\ Append(Rest, [Top EXCEPT !.left = n]) # <<>>
  <1>1. [Top EXCEPT !.left = n] \in Frame
    BY RestProperties DEF Frame
  <1>2. Rest \in Seq(Frame) /\ Len(Rest) = Len(stack) - 1 /\ Len(stack) \in Nat \ {0}
    BY RestProperties
  <1> DEFINE t == Append(Rest, [Top EXCEPT !.left = n])
  <1>3. t \in Seq(Frame) /\ Len(t) = Len(Rest) + 1
    BY <1>1, <1>2, AppendProperties
  <1>4. Len(t) # 0
    BY <1>2, <1>3
  <1>5. t # <<>>
    BY <1>3, <1>4, EmptySeq
  <1> QED BY <1>2, <1>3, <1>5

-----------------------------------------------------------------------------

(* The limits.                                                             *)

(* A step that visits nothing keeps within the limits, and a visit that is *)
(* about to be refused is refused rightly.                                 *)
LEMMA NothingVisited ==
    ASSUME IInv, visits' = visits, mode' \notin {"idle", "failed"} => nodes' = nodes,
           mode \in {"idle", "failed"} => mode' \in {"idle", "failed"}
    PROVE  VisitsCounted' /\ WithinLimits'
  <1>1. /\ visits \in Seq(Nat) /\ Len(visits) \in Nat /\ Len(visits) <= MaxNodes
        /\ \A i \in DOMAIN visits : visits[i] <= MaxDepth
    BY LenProperties DEF IInv, TypeOK, WithinLimits
  <1>2. VisitsCounted'
    BY DEF IInv, VisitsCounted
  <1>3. mode' = "visit" /\ nodes' + 1 > MaxNodes => Len(visits) = MaxNodes
    BY <1>1, <1>2, LimitsAssumption DEF VisitsCounted
  <1> QED BY <1>1, <1>2, <1>3 DEF WithinLimits, TooMany

(* A value is visited only if both limits allow it, and then it is counted. *)
LEMMA OneVisited ==
    ASSUME IInv, Visits, Visit, Count, mode' # "visit"
    PROVE  VisitsCounted' /\ WithinLimits' /\ nodes' \in Nat /\ visits' \in Seq(Nat)
  <1>1. /\ visits \in Seq(Nat) /\ Len(visits) \in Nat /\ nodes = Len(visits)
        /\ nodes + 1 <= MaxNodes /\ Len(stack) \in Nat /\ Len(stack) <= MaxDepth
        /\ \A i \in DOMAIN visits : visits[i] <= MaxDepth
    BY LenProperties, LimitsAssumption
       DEF IInv, TypeOK, WithinLimits, VisitsCounted, Visits, TooMany, TooDeep
  <1>2. /\ visits' \in Seq(Nat) /\ Len(visits') = Len(visits) + 1
        /\ \A i \in 1..Len(visits) : visits'[i] = visits[i]
        /\ visits'[Len(visits) + 1] = Len(stack)
    BY <1>1, AppendProperties DEF Visit
  <1>3. DOMAIN visits = 1..Len(visits) /\ DOMAIN visits' = 1..(Len(visits) + 1)
    BY <1>1, <1>2, LenProperties
  <1>4. \A i \in DOMAIN visits' : visits'[i] <= MaxDepth
    <2> SUFFICES ASSUME NEW i \in 1..(Len(visits) + 1) PROVE visits'[i] <= MaxDepth
      BY <1>3
    <2>1. CASE i = Len(visits) + 1
      BY ONLY <1>1, <1>2, <2>1
    <2>2. CASE i # Len(visits) + 1
      <3>1. i \in 1..Len(visits)
        BY ONLY <1>1, <2>2, i \in 1..(Len(visits) + 1)
      <3> QED BY ONLY <1>1, <1>2, <1>3, <3>1
    <2> QED BY <2>1, <2>2
  <1> QED BY <1>1, <1>2, <1>4 DEF VisitsCounted, WithinLimits, Count

-----------------------------------------------------------------------------

(* The first state.                                                        *)
LEMMA InitInv == Init => IInv
  <1> SUFFICES ASSUME Init PROVE IInv
    OBVIOUS
  <1>1. /\ Len(<<>>) = 0 /\ <<>> \in Seq(Frame) /\ made = <<>> /\ made \in Seq(1..born) /\ Len(made) = 0
        /\ visits = <<>> /\ visits \in Seq(Nat) /\ Len(visits) = 0 /\ DOMAIN visits = 1..0
    BY EmptySeq, LenProperties DEF Init
  <1>2. TypeOK
    <2>1. rootHeld \in BOOLEAN /\ (rootHeld => root # None)
      BY DEF Init
    <2>2. heap \in [Addresses -> 0..born] /\ seen \in [Addresses -> 0..Len(made)]
      BY <1>1 DEF Init
    <2>3. kind \in [Addresses -> Kinds]
      BY DEF Init, Kinds
    <2>4. stack \in Seq(Frame) /\ mode \in Modes /\ mode \notin {"open", "entry"}
      BY <1>1 DEF Init, Modes
    <2>5. born \in Nat /\ nodes \in Nat /\ guest \subseteq Addresses /\ kept \subseteq Addresses
      BY DEF Init
    <2>6. root = None /\ cur = None /\ pairs = {}
      BY DEF Init
    <2> QED BY <1>1, <2>1, <2>2, <2>3, <2>4, <2>5, <2>6 DEF TypeOK
  <1>3. HeldIsLive /\ OneAddress /\ CurIsHeld /\ SeenIsCurrent /\ MadeOnce
    BY DEF Init, HeldIsLive, OneAddress, CurIsHeld, SeenIsCurrent, MadeOnce, Held
  <1>4. MadeIsSeen /\ VisitsCounted /\ WithinLimits
    BY <1>1, LimitsAssumption DEF Init, MadeIsSeen, VisitsCounted, WithinLimits
  <1> QED BY <1>2, <1>3, <1>4 DEF IInv

(* A step of the guest makes or frees a value that is not held.            *)
LEMMA GuestMakesStep ==
    ASSUME IInv, NEW a \in Addresses, NEW k \in Kinds, GuestMakes(a, k)
    PROVE  IInv'
  <1> USE DEF IInv, GuestMakes, handles, maps, progress
  <1>1. born \in Nat /\ born' = born + 1 /\ heap \in [Addresses -> 0..born]
    BY DEF TypeOK
  <1>2. heap' \in [Addresses -> 0..born']
    BY <1>1
  <1>3. made' \in Seq(1..born')
    <2>1. made \in Seq(1..born) /\ Len(made) \in Nat
      BY LenProperties DEF TypeOK
    <2>2. \A i \in 1..Len(made) : made[i] \in 1..born
      BY <2>1, ElementOfSeq
    <2>3. \A i \in 1..Len(made) : made[i] \in 1..born'
      BY <1>1, <2>2
    <2>4. made = [i \in 1..Len(made) |-> made[i]]
      BY <2>1, LenProperties
    <2>5. [i \in 1..Len(made) |-> made[i]] \in Seq(1..born')
      BY <2>1, <2>3, IsASeq
    <2> QED BY <2>4, <2>5
  <1>4. TypeOK'
    BY <1>1, <1>2, <1>3 DEF TypeOK
  <1>5. a \notin Held /\ heap[a] = 0 /\ Held' = Held
    BY DEF HeldIsLive, Live, Held
  <1>6. HeldIsLive' /\ CurIsHeld'
    BY <1>1, <1>5 DEF HeldIsLive, CurIsHeld
  <1>7. OneAddress'
    BY <1>1 DEF OneAddress
  <1>8. SeenIsCurrent'
    BY <1>1, <1>5 DEF SeenIsCurrent
  <1>9. MadeIsSeen' /\ MadeOnce'
    BY DEF MadeIsSeen, MadeOnce
  <1>10. VisitsCounted' /\ WithinLimits'
    BY NothingVisited
  <1> QED BY <1>4, <1>6, <1>7, <1>8, <1>9, <1>10

(* The guest lets go of a value, which is freed unless dump holds it.      *)
LEMMA GuestDropsStep ==
    ASSUME IInv, NEW a \in Addresses, GuestDrops(a)
    PROVE  IInv'
  <1> USE DEF IInv, GuestDrops, handles, maps, progress
  <1>1. TypeOK'
    <2>1. heap \in [Addresses -> 0..born] /\ 0 \in 0..born
      BY DEF TypeOK
    <2>2. heap' \in [Addresses -> 0..born]
      BY <2>1
    <2>3. guest' \subseteq Addresses
      BY DEF TypeOK
    <2> QED BY <2>2, <2>3 DEF TypeOK
  <1>2. Held' = Held /\ heap \in [Addresses -> 0..born] /\ born \in Nat
    BY DEF Held, TypeOK
  <1>3. \A b \in Addresses : heap'[b] = heap[b] \/ (b = a /\ a \notin Held /\ heap'[b] = 0)
    BY <1>2
  <1>4. HeldIsLive' /\ CurIsHeld'
    BY <1>2, <1>3 DEF HeldIsLive, CurIsHeld
  <1>5. OneAddress'
    BY <1>2, <1>3 DEF OneAddress
  <1>6. SeenIsCurrent'
    BY <1>2, <1>3 DEF SeenIsCurrent
  <1>7. MadeIsSeen' /\ MadeOnce'
    BY DEF MadeIsSeen, MadeOnce
  <1>8. VisitsCounted' /\ WithinLimits'
    BY NothingVisited
  <1> QED BY <1>1, <1>4, <1>5, <1>6, <1>7, <1>8

(* Without the dumped handle nothing is claimed about sharing.             *)
LEMMA DisposeRootStep ==
    ASSUME IInv, DisposeRoot
    PROVE  IInv'
  <1> USE DEF IInv, DisposeRoot, maps, progress
  <1>1. TypeOK'
    <2>1. rootHeld' \in BOOLEAN /\ (rootHeld' => root' # None)
      OBVIOUS
    <2>2. heap' \in [Addresses -> 0..born']
      BY DEF TypeOK
    <2> QED BY <2>1, <2>2 DEF TypeOK
  <1>2. heap \in [Addresses -> 0..born] /\ born \in Nat /\ Held' = kept /\ kept \subseteq Held
    BY DEF Held, TypeOK
  <1>3. \A b \in Addresses : heap'[b] = heap[b] \/ (b = root /\ root \notin guest \cup kept /\ heap'[b] = 0)
    BY <1>2
  <1>4. HeldIsLive'
    BY <1>2, <1>3 DEF HeldIsLive
  <1>5. CurIsHeld' /\ SeenIsCurrent' /\ MadeOnce'
    BY DEF CurIsHeld, SeenIsCurrent, MadeOnce, GuestRuns
  <1>6. OneAddress'
    BY <1>2, <1>3 DEF OneAddress
  <1>7. MadeIsSeen' /\ VisitsCounted' /\ WithinLimits'
    BY NothingVisited DEF MadeIsSeen
  <1> QED BY <1>1, <1>4, <1>5, <1>6, <1>7

-----------------------------------------------------------------------------
(* The dump.                                                               *)

(* A dump starts with nothing seen.                                        *)
LEMMA DumpStep ==
    ASSUME IInv, NEW a \in Addresses, dump(a)
    PROVE  IInv'
  <1> USE DEF IInv, dump, engine
  <1>1. /\ made' = <<>> /\ Len(made') = 0 /\ made' \in Seq(1..born)
        /\ visits' \in Seq(Nat) /\ Len(visits') = 0 /\ DOMAIN visits' = 1..0
    BY EmptySeq, LenProperties
  <1>2. TypeOK'
    BY <1>1, NoneAssumption DEF TypeOK, Modes
  <1>3. Held' = kept \cup {a} /\ kept \subseteq Held
    BY DEF Held
  <1>4. HeldIsLive' /\ OneAddress' /\ CurIsHeld'
    BY <1>3 DEF HeldIsLive, OneAddress, CurIsHeld, Live
  <1>5. SeenIsCurrent' /\ MadeIsSeen' /\ MadeOnce'
    BY <1>1 DEF SeenIsCurrent, MadeIsSeen, MadeOnce
  <1>6. VisitsCounted' /\ WithinLimits'
    BY <1>1, LimitsAssumption DEF VisitsCounted, WithinLimits, TooMany
  <1> QED BY <1>2, <1>4, <1>5, <1>6

(* Giving a number one higher than all the others.                         *)
LEMMA NumberNext ==
    ASSUME NEW S, NEW n \in Nat, NEW f \in [S -> 0..n], NEW c \in S
    PROVE  [f EXCEPT ![c] = n + 1] \in [S -> 0..(n + 1)]
  <1>1. \A x \in S : f[x] \in 0..(n + 1)
    <2>1. \A x \in S : f[x] \in 0..n
      OBVIOUS
    <2>2. 0..n \subseteq 0..(n + 1)
      OBVIOUS
    <2> QED BY <2>1, <2>2
  <1>2. n + 1 \in 0..(n + 1)
    OBVIOUS
  <1> QED BY <1>1, <1>2

(* A conversion: the value was not made into a host value before.          *)
LEMMA ConvertProperties ==
    ASSUME IInv, NEW k, Unseen(k), Convert(cur),
           UNCHANGED <<engine, handles, cur>>, mode' # "visit", mode' \in Modes
    PROVE  /\ HeldIsLive' /\ OneAddress' /\ CurIsHeld' /\ SeenIsCurrent'
           /\ MadeIsSeen' /\ MadeOnce'
           /\ made' \in Seq(1..born')
           /\ seen' \in [Addresses -> 0..Len(made')]
           /\ pairs' \subseteq Nat \X Nat
  <1> USE DEF IInv, engine, handles
  <1>1. /\ cur \in Addresses /\ cur \in Held /\ mode = "visit"
        /\ seen[cur] = 0 /\ heap[cur] \in 1..born
    BY DEF Unseen, Visits, TypeOK, CurIsHeld, HeldIsLive
  <1>2. /\ made \in Seq(1..born) /\ Len(made) \in Nat
        /\ made' \in Seq(1..born) /\ Len(made') = Len(made) + 1
        /\ \A i \in 1..Len(made) : made'[i] = made[i]
        /\ made'[Len(made) + 1] = heap[cur]
    BY <1>1, AppendProperties, LenProperties DEF TypeOK, Convert
  <1>3. /\ seen \in [Addresses -> 0..Len(made)]
        /\ seen' = [seen EXCEPT ![cur] = Len(made) + 1]
    BY DEF TypeOK, Convert
  <1>4. seen' \in [Addresses -> 0..Len(made')]
    <2>1. [seen EXCEPT ![cur] = Len(made) + 1] \in [Addresses -> 0..(Len(made) + 1)]
      BY <1>1, <1>2, <1>3, NumberNext
    <2> QED BY <1>2, <1>3, <2>1
  <1>5. born \in Nat /\ born' = born
    BY DEF TypeOK
  <1>6. pairs' \subseteq Nat \X Nat
    BY <1>1, <1>2, <1>5 DEF Convert, TypeOK
  <1>7. Held' = Held /\ heap' = heap /\ guest' = guest
    BY DEF Held
  <1>8. HeldIsLive' /\ OneAddress' /\ CurIsHeld'
    BY <1>7 DEF HeldIsLive, OneAddress, CurIsHeld
  <1>9. SeenIsCurrent'
    <2> SUFFICES ASSUME rootHeld', NEW a \in Addresses, seen'[a] # 0
                 PROVE  a \in Held /\ heap[a] = made'[seen'[a]]
      BY <1>7 DEF SeenIsCurrent
    <2>1. CASE a = cur
      BY <1>1, <1>2, <1>3, <2>1
    <2>2. CASE a # cur
      <3>1. seen'[a] = seen[a] /\ seen[a] \in 1..Len(made)
        BY <1>2, <1>3, <2>2
      <3>2. a \in Held /\ heap[a] = made[seen[a]]
        BY <1>1, <3>1 DEF SeenIsCurrent
      <3> QED BY <1>2, <3>1, <3>2
    <2> QED BY <2>1, <2>2
  <1>10. MadeIsSeen'
    <2> SUFFICES ASSUME NEW n \in 1..Len(made') PROVE \E a \in Addresses : seen'[a] = n
      BY DEF MadeIsSeen
    <2>1. CASE n = Len(made) + 1
      BY <1>1, <1>3, <2>1
    <2>2. CASE n # Len(made) + 1
      <3>1. n \in 1..Len(made)
        BY <1>2, <2>2
      <3>2. PICK a \in Addresses : seen[a] = n
        BY <3>1 DEF MadeIsSeen
      <3>3. a # cur
        BY <1>1, <3>1, <3>2
      <3> QED BY <1>3, <3>2, <3>3
    <2> QED BY <2>1, <2>2
  <1>11. MadeOnce'
    <2> SUFFICES ASSUME rootHeld
                 PROVE  /\ \A p \in pairs' : p[2] \in 1..Len(made') /\ p[1] = made'[p[2]]
                        /\ \A m, n \in 1..Len(made') : made'[m] = made'[n] => m = n
      BY DEF MadeOnce
    <2>1. ASSUME NEW p \in pairs' PROVE p[2] \in 1..Len(made') /\ p[1] = made'[p[2]]
      <3>1. CASE p \in pairs
        BY <1>2, <3>1 DEF MadeOnce
      <3>2. CASE p = <<heap[cur], Len(made) + 1>>
        BY <1>2, <3>2
      <3> QED BY <2>1, <3>1, <3>2 DEF Convert
    <2>2. ASSUME NEW n \in 1..Len(made) PROVE made[n] # heap[cur]
      <3>1. PICK a \in Addresses : seen[a] = n
        BY DEF MadeIsSeen
      <3>2. heap[a] = made[n] /\ seen[a] # 0
        BY <1>1, <1>2, <3>1 DEF SeenIsCurrent
      <3>3. heap[a] = heap[cur] => a = cur
        BY <1>1 DEF OneAddress
      <3> QED BY <1>1, <3>2, <3>3
    <2>3. ASSUME NEW m \in 1..Len(made'), NEW n \in 1..Len(made'), made'[m] = made'[n]
          PROVE  m = n
      <3>1. CASE m \in 1..Len(made) /\ n \in 1..Len(made)
        BY <1>2, <2>3, <3>1 DEF MadeOnce
      <3>2. CASE m = Len(made) + 1 \/ n = Len(made) + 1
        BY <1>2, <2>2, <2>3, <3>2
      <3> QED BY <1>2, <3>1, <3>2
    <2> QED BY <2>1, <2>3
  <1> QED BY <1>2, <1>4, <1>6, <1>8, <1>9, <1>10, <1>11

(* A string, bigint or error is converted at once.                         *)
LEMMA VisitLeafStep == ASSUME IInv, VisitLeaf PROVE IInv'
  <1> USE DEF VisitLeaf
  <1>1. mode' \in {"done", "entry"} /\ (mode' = "entry" => stack # <<>>)
    BY DEF Return
  <1>2. mode' # "visit" /\ mode' \in Modes
    BY <1>1 DEF Modes
  <1>3. /\ HeldIsLive' /\ OneAddress' /\ CurIsHeld' /\ SeenIsCurrent'
        /\ MadeIsSeen' /\ MadeOnce' /\ made' \in Seq(1..born')
        /\ seen' \in [Addresses -> 0..Len(made')] /\ pairs' \subseteq Nat \X Nat
    BY <1>2, ConvertProperties
  <1>4. VisitsCounted' /\ WithinLimits' /\ nodes' \in Nat /\ visits' \in Seq(Nat)
    BY <1>2, OneVisited DEF Unseen
  <1>5. TypeOK'
    BY <1>1, <1>2, <1>3, <1>4 DEF IInv, TypeOK, engine, handles
  <1> QED BY <1>3, <1>4, <1>5 DEF IInv

(* An array or object is noted and goes onto the stack.                    *)
LEMMA VisitContainerStep == ASSUME IInv, VisitContainer PROVE IInv'
  <1> USE DEF VisitContainer
  <1>1. mode' # "visit" /\ mode' \in Modes
    BY DEF Modes
  <1>2. /\ HeldIsLive' /\ OneAddress' /\ CurIsHeld' /\ SeenIsCurrent'
        /\ MadeIsSeen' /\ MadeOnce' /\ made' \in Seq(1..born')
        /\ seen' \in [Addresses -> 0..Len(made')] /\ pairs' \subseteq Nat \X Nat
    BY <1>1, ConvertProperties
  <1>3. [addr |-> cur, left |-> 0] \in Frame
    BY DEF IInv, TypeOK, Unseen, Frame
  <1>4. stack \in Seq(Frame) /\ Len(stack) \in Nat
    BY LenProperties DEF IInv, TypeOK
  <1>5. stack' \in Seq(Frame) /\ Len(stack') = Len(stack) + 1
    BY <1>3, <1>4, AppendProperties
  <1>6. stack' # <<>>
    BY <1>4, <1>5, EmptySeq
  <1>7. VisitsCounted' /\ WithinLimits' /\ nodes' \in Nat /\ visits' \in Seq(Nat)
    BY <1>1, OneVisited DEF Unseen
  <1>8. TypeOK'
    BY <1>1, <1>2, <1>5, <1>6, <1>7 DEF IInv, TypeOK, engine, handles
  <1> QED BY <1>2, <1>7, <1>8 DEF IInv

(* Steps that leave the values alone.                                      *)
LEMMA QuietStep ==
    ASSUME IInv, UNCHANGED <<engine, handles, maps>>, mode # "idle" \/ mode' = "idle",
           cur' = cur, mode' # "visit", mode' \in Modes, nodes' \in Nat, visits' \in Seq(Nat),
           VisitsCounted', WithinLimits',
           stack' \in Seq(Frame), mode' \in {"open", "entry"} => stack' # <<>>
    PROVE  IInv'
  <1> USE DEF IInv, engine, handles, maps
  <1>1. TypeOK'
    BY DEF TypeOK
  <1>2. Held' = Held
    BY DEF Held
  <1>3. HeldIsLive' /\ OneAddress' /\ CurIsHeld' /\ SeenIsCurrent' /\ MadeIsSeen' /\ MadeOnce'
    BY <1>2 DEF HeldIsLive, OneAddress, CurIsHeld, SeenIsCurrent, MadeIsSeen, MadeOnce
  <1> QED BY <1>1, <1>3

(* A value met again: its address still has the value it was seen at.      *)
LEMMA VisitSeenStep == ASSUME IInv, VisitSeen PROVE IInv'
  <1> USE DEF IInv, VisitSeen, engine, handles
  <1>1. mode' \in {"done", "entry"} /\ (mode' = "entry" => stack # <<>>)
    BY DEF Return
  <1>2. /\ cur \in Addresses /\ mode = "visit" /\ seen[cur] \in 1..Len(made)
        /\ made \in Seq(1..born) /\ Len(made) \in Nat /\ heap[cur] \in Nat
    BY LenProperties DEF TypeOK, Visits
  <1>3. VisitsCounted' /\ WithinLimits' /\ nodes' \in Nat /\ visits' \in Seq(Nat)
    BY <1>1, OneVisited
  <1>4. TypeOK'
    <2>1. TypeOK /\ UNCHANGED <<heap, kind, born, guest, root, rootHeld, kept, cur, stack, seen, made>>
      OBVIOUS
    <2>2. pairs' \subseteq Nat \X Nat
      <3>1. pairs \subseteq Nat \X Nat /\ seen[cur] \in Nat /\ heap[cur] \in Nat
        BY <1>2 DEF TypeOK
      <3>2. pairs' = pairs \cup {<<heap[cur], seen[cur]>>}
        OBVIOUS
      <3> QED BY ONLY <3>1, <3>2
    <2>3. mode' \in Modes
      BY <1>1 DEF Modes
    <2> QED BY ONLY <1>1, <1>3, <2>1, <2>2, <2>3 DEF TypeOK
  <1>5. Held' = Held
    BY DEF Held
  <1>6. HeldIsLive' /\ OneAddress' /\ CurIsHeld' /\ SeenIsCurrent' /\ MadeIsSeen'
    BY <1>1, <1>2, <1>5 DEF HeldIsLive, OneAddress, CurIsHeld, SeenIsCurrent, MadeIsSeen
  <1>7. MadeOnce'
    <2> SUFFICES ASSUME rootHeld, NEW p \in pairs'
                 PROVE  p[2] \in 1..Len(made) /\ p[1] = made[p[2]]
      BY DEF MadeOnce
    <2>1. heap[cur] = made[seen[cur]]
      BY <1>2 DEF SeenIsCurrent
    <2> QED BY <1>2, <2>1 DEF MadeOnce
  <1> QED BY <1>3, <1>4, <1>6, <1>7

(* An entry that is read is held from then on.                             *)
LEMMA ReadEntryStep ==
    ASSUME IInv, NEW v \in Addresses \cup {None}, ReadEntry(v)
    PROVE  IInv'
  <1> USE DEF IInv, ReadEntry, engine, maps, progress
  <1>0. stack \in Seq(Frame) /\ stack # <<>> /\ Top.left > 0
    BY DEF TypeOK
  <1>1. Top \in Frame /\ Top.left - 1 \in Nat
    <2>1. Top \in Frame
      BY <1>0, RestProperties
    <2>2. Top.left \in Nat
      BY <2>1 DEF Frame
    <2> QED BY <1>0, <2>1, <2>2
  <1>2. [Top EXCEPT !.left = @ - 1] = [Top EXCEPT !.left = Top.left - 1]
    OBVIOUS
  <1>3. stack' \in Seq(Frame) /\ Len(stack') = Len(stack)
    BY <1>0, <1>1, <1>2, RetopProperties
  <1>4. kept' \subseteq Addresses /\ (v # None => v \in Addresses)
    BY DEF Keep, TypeOK
  <1>5. TypeOK'
    BY <1>3, <1>4 DEF TypeOK, Modes
  <1>6. Held' = Held \cup (IF v = None THEN {} ELSE {v})
    BY DEF Held, Keep
  <1>7. HeldIsLive' /\ CurIsHeld'
    BY <1>6 DEF HeldIsLive, CurIsHeld, Live
  <1>8. OneAddress' /\ SeenIsCurrent' /\ MadeIsSeen' /\ MadeOnce'
    BY <1>6 DEF OneAddress, SeenIsCurrent, MadeIsSeen, MadeOnce
  <1>9. VisitsCounted' /\ WithinLimits'
    BY NothingVisited
  <1> QED BY <1>5, <1>7, <1>8, <1>9

(* The end of a dump frees what only dump held; seen is not used again.    *)
LEMMA FinishStep == ASSUME IInv, Finish PROVE IInv'
  <1> USE DEF IInv, Finish, maps, progress
  <1>1. stack' \in Seq(Frame) /\ Len(stack') = 0
    BY EmptySeq
  <1>2. heap \in [Addresses -> 0..born] /\ born \in Nat
    BY DEF TypeOK
  <1>3. heap' \in [Addresses -> 0..born]
    BY <1>2
  <1>4. TypeOK'
    BY <1>1, <1>3 DEF TypeOK, Modes
  <1>5. Held' = IF rootHeld THEN {root} ELSE {}
    BY DEF Held
  <1>6. HeldIsLive'
    BY <1>5 DEF HeldIsLive, Held
  <1>7. OneAddress'
    BY <1>2 DEF OneAddress
  <1>8. CurIsHeld' /\ SeenIsCurrent' /\ MadeIsSeen' /\ MadeOnce'
    BY DEF CurIsHeld, SeenIsCurrent, MadeIsSeen, MadeOnce
  <1>9. VisitsCounted' /\ WithinLimits'
    BY NothingVisited
  <1> QED BY <1>4, <1>6, <1>7, <1>8, <1>9

(* Every step keeps the inductive invariant.                               *)
LEMMA NextStep == ASSUME IInv, [Next]_vars PROVE IInv'
  <1>0. /\ stack \in Seq(Frame) /\ Len(stack) \in Nat /\ nodes \in Nat /\ visits \in Seq(Nat)
        /\ mode \in {"open", "entry"} => stack # <<>>
    BY LenProperties DEF IInv, TypeOK
  <1>1. CASE Guest
    BY <1>1, GuestMakesStep, GuestDropsStep, DisposeRootStep DEF Guest
  <1>2. CASE \E a \in Addresses : dump(a)
    BY <1>2, DumpStep
  <1>3. CASE VisitPrimitive
    <2>1. mode' \in {"done", "entry"} /\ (mode' = "entry" => stack # <<>>) /\ mode = "visit"
      BY <1>3 DEF VisitPrimitive, Return, Visits
    <2>2. VisitsCounted' /\ WithinLimits' /\ nodes' \in Nat /\ visits' \in Seq(Nat)
      BY <1>3, <2>1, OneVisited DEF VisitPrimitive
    <2> QED BY <1>0, <1>3, <2>1, <2>2, QuietStep DEF VisitPrimitive, Modes
  <1>4. CASE VisitSeen
    BY <1>4, VisitSeenStep
  <1>5. CASE VisitLeaf
    BY <1>5, VisitLeafStep
  <1>6. CASE VisitContainer
    BY <1>6, VisitContainerStep
  <1>7. CASE VisitFails
    <2>1. VisitsCounted' /\ WithinLimits' /\ nodes' \in Nat /\ visits' \in Seq(Nat)
      BY <1>7, OneVisited DEF VisitFails
    <2> QED BY <1>0, <1>7, <2>1, QuietStep DEF VisitFails, Visits, Modes
  <1>8. CASE VisitRefused
    <2>1. VisitsCounted' /\ WithinLimits'
      BY <1>8, NothingVisited DEF VisitRefused
    <2>2. nodes' \in Nat
      BY <1>0, <1>8 DEF VisitRefused, Count
    <2> QED BY <1>0, <1>8, <2>1, <2>2, QuietStep DEF VisitRefused, Modes
  <1>9. CASE \E n \in 0..MaxEntries : ReadKeys(n)
    <2>1. PICK n \in 0..MaxEntries : ReadKeys(n)
      BY <1>9
    <2>2. n \in Nat /\ stack # <<>>
      BY <2>1, BoundsAssumption DEF ReadKeys, IInv, TypeOK
    <2>3. stack' \in Seq(Frame) /\ Len(stack') = Len(stack) /\ stack' # <<>>
      BY <1>0, <2>1, <2>2, RetopProperties DEF ReadKeys
    <2>4. VisitsCounted' /\ WithinLimits'
      BY <2>1, NothingVisited DEF ReadKeys, progress
    <2> QED BY <1>0, <2>1, <2>3, <2>4, QuietStep DEF ReadKeys, Modes, progress
  <1>10. CASE \E v \in Addresses \cup {None} : ReadEntry(v)
    BY <1>10, ReadEntryStep
  <1>11. CASE ReadFails
    <2>1. VisitsCounted' /\ WithinLimits'
      BY <1>11, NothingVisited DEF ReadFails, progress
    <2> QED BY <1>0, <1>11, <2>1, QuietStep DEF ReadFails, Modes, progress
  <1>12. CASE CloseContainer
    <2>1. stack # <<>>
      BY <1>12 DEF CloseContainer, IInv, TypeOK
    <2>2. Rest \in Seq(Frame) /\ Len(Rest) = Len(stack) - 1
      BY <1>0, <2>1, RestProperties
    <2>3. mode' \in {"done", "entry"} /\ (mode' = "entry" => Rest # <<>>) /\ mode = "entry"
      BY <1>12 DEF CloseContainer, Return
    <2>4. VisitsCounted' /\ WithinLimits'
      BY <1>12, <2>3, NothingVisited DEF CloseContainer, progress
    <2> QED BY <1>0, <1>12, <2>2, <2>3, <2>4, QuietStep DEF CloseContainer, Modes, progress
  <1>13. CASE Finish
    BY <1>13, FinishStep
  <1>14. CASE UNCHANGED vars
    BY <1>14 DEF vars, IInv, TypeOK, HeldIsLive, OneAddress, CurIsHeld, SeenIsCurrent, MadeIsSeen,
                 MadeOnce, VisitsCounted, WithinLimits, TooMany, Held
  <1> QED BY <1>1, <1>2, <1>3, <1>4, <1>5, <1>6, <1>7, <1>8, <1>9, <1>10, <1>11, <1>12, <1>13,
            <1>14
          DEF Next, Dump

(* The inductive invariant holds throughout.                               *)
THEOREM Invariance == Spec => []IInv
  BY InitInv, NextStep, PTL DEF Spec

(* The variables of Dump have their types.                                 *)
THEOREM TypeCorrect == Spec => []TypeOK
  <1>1. IInv => TypeOK
    BY DEF IInv
  <1> QED BY <1>1, Invariance, PTL

(* Shared guest values stay shared and distinct ones distinct in what      *)
(* JSContext.dump returns, for any memory and any guest.                   *)
THEOREM FaithfulSharing == Spec => []SharingIsFaithful
  <1>1. IInv => SharingIsFaithful
    <2> SUFFICES ASSUME IInv, rootHeld, NEW p \in pairs, NEW q \in pairs
                 PROVE  p[1] = q[1] <=> p[2] = q[2]
      BY DEF SharingIsFaithful
    <2>1. /\ p[2] \in 1..Len(made) /\ p[1] = made[p[2]]
          /\ q[2] \in 1..Len(made) /\ q[1] = made[q[2]]
          /\ \A m, n \in 1..Len(made) : made[m] = made[n] => m = n
      BY DEF IInv, MadeOnce
    <2> QED BY <2>1
  <1> QED BY <1>1, Invariance, PTL

(* A dump visits at most maxNodes values, of any kind and however often    *)
(* they occur, none deeper than maxDepth, and refuses a value for its      *)
(* number only after maxNodes visits: whatever the guest answers, for all  *)
(* limits (visit in JSContext.dump).                                       *)
THEOREM LimitsHold == Spec => []WithinLimits
  <1>1. IInv => WithinLimits
    BY DEF IInv
  <1> QED BY <1>1, Invariance, PTL

-----------------------------------------------------------------------------
(* Only the innermost call is past its read.                               *)
OthersWait == \A i \in 1..(Len(calls) - 1) : calls[i].phase = "reading"

(* A buffer that was read into holds what was read.                        *)
TopHolds == calls # <<>> /\ Innermost.phase = "read" => holds[Innermost.buf] = Innermost.names

(* Every short read asked for more than a buffer of twice the size that    *)
(* the one before had asked for; sz gives the sizes of the buffers.        *)
Doubling(needs) == \A j \in 1..(Len(needs) - 1) : needs[j + 1] > 2 * needs[j]
CallOK(f, sz) ==
    /\ Doubling(f.needs)
    /\ f.phase = "short" => f.needs # <<>> /\ Len(f.needs) <= Retries + 1
    /\ f.phase # "short" => Len(f.needs) <= Retries
    /\ f.phase = "reading" /\ f.needs # <<>> => sz[f.buf] = 2 * f.needs[Len(f.needs)]

CallsOK == \A i \in 1..Len(calls) : CallOK(calls[i], size)

KeysIInv ==
    /\ KeysTypeOK
    /\ OthersWait
    /\ TopHolds
    /\ CallsOK
    /\ ReturnsOwnRead
    /\ GivesUpOnGrowth

-----------------------------------------------------------------------------
(* The stack of calls.                                                     *)

(* The innermost call and the others.                                      *)
LEMMA Stack ==
    ASSUME calls \in Seq(Call), calls # <<>>
    PROVE  /\ Len(calls) \in Nat \ {0}
           /\ Innermost \in Call
           /\ Outer \in Seq(Call)
           /\ Len(Outer) = Len(calls) - 1
           /\ \A i \in 1..(Len(calls) - 1) : Outer[i] = calls[i]
  <1>1. Len(calls) \in Nat \ {0}
    BY EmptySeq, LenProperties
  <1>2. \A i \in 1..Len(calls) : calls[i] \in Call
    BY ElementOfSeq
  <1>3. Innermost \in Call
    BY <1>1, <1>2 DEF Innermost
  <1> DEFINE n == Len(calls) - 1
  <1>4. n \in Nat /\ 1 \in Int /\ \A i \in 1..n : calls[i] \in Call
    BY <1>1, <1>2
  <1>5. /\ SubSeq(calls, 1, n) \in Seq(Call)
        /\ Len(SubSeq(calls, 1, n)) = IF 1 <= n THEN n - 1 + 1 ELSE 0
        /\ \A i \in 1..(n - 1 + 1) : SubSeq(calls, 1, n)[i] = calls[1 + i - 1]
    BY <1>4, SubSeqProperties
  <1>6. Outer = SubSeq(calls, 1, n)
    BY DEF Outer
  <1> HIDE DEF n
  <1>7. Len(Outer) = n /\ \A i \in 1..n : Outer[i] = calls[i]
    BY <1>4, <1>5, <1>6
  <1> QED BY <1>1, <1>3, <1>5, <1>6, <1>7 DEF n

(* Replacing the innermost call.                                           *)
LEMMA Retop ==
    ASSUME calls \in Seq(Call), calls # <<>>, NEW f \in Call
    PROVE  /\ Append(Outer, f) \in Seq(Call)
           /\ Append(Outer, f) # <<>>
           /\ Len(Append(Outer, f)) = Len(calls)
           /\ Append(Outer, f)[Len(calls)] = f
           /\ \A i \in 1..(Len(calls) - 1) : Append(Outer, f)[i] = calls[i]
  <1>1. /\ Len(calls) \in Nat \ {0} /\ Outer \in Seq(Call) /\ Len(Outer) = Len(calls) - 1
        /\ \A i \in 1..(Len(calls) - 1) : Outer[i] = calls[i]
    BY Stack
  <1>2. /\ Append(Outer, f) \in Seq(Call)
        /\ Append(Outer, f) # <<>>
        /\ Len(Append(Outer, f)) = Len(Outer) + 1
        /\ \A i \in 1..Len(Outer) : Append(Outer, f)[i] = Outer[i]
        /\ Append(Outer, f)[Len(Outer) + 1] = f
    BY <1>1, AppendProperties
  <1>3. Len(Outer) + 1 = Len(calls)
    BY <1>1
  <1> QED BY <1>1, <1>2, <1>3

-----------------------------------------------------------------------------
(* Steps on the innermost call f: it is replaced, or it ends.              *)

(* A call goes on as f, with the sizes of the other buffers unchanged.     *)
LEMMA ReplaceStep ==
    ASSUME KeysIInv, calls # <<>>, NEW f \in Call, calls' = Append(Outer, f),
           CallOK(f, size'), f.phase = "read" => holds'[f.buf] = f.names,
           scratch' \in Buffers, size' \in [Buffers -> Nat],
           holds' \in [Buffers -> Contents \cup {NoContents}], last' = last,
           \A i \in 1..(Len(calls) - 1) : size'[calls[i].buf] = size[calls[i].buf]
    PROVE  KeysIInv'
  <1>1. calls \in Seq(Call) /\ Len(calls) \in Nat \ {0}
    BY Stack DEF KeysIInv, KeysTypeOK
  <1>2. /\ calls' \in Seq(Call) /\ calls' # <<>> /\ Len(calls') = Len(calls)
        /\ calls'[Len(calls)] = f
        /\ \A i \in 1..(Len(calls) - 1) : calls'[i] = calls[i]
    BY <1>1, Retop
  <1>3. \A i \in 1..Len(calls) : CallOK(calls'[i], size')
    <2> SUFFICES ASSUME NEW i \in 1..Len(calls) PROVE CallOK(calls'[i], size')
      OBVIOUS
    <2>1. CASE i = Len(calls)
      BY <1>2, <2>1
    <2>2. CASE i # Len(calls)
      <3>1. i \in 1..(Len(calls) - 1)
        BY <1>1, <2>2
      <3>2. CallOK(calls[i], size) /\ size'[calls[i].buf] = size[calls[i].buf]
        BY <3>1 DEF KeysIInv, CallsOK
      <3> QED BY <1>2, <3>1, <3>2 DEF CallOK
    <2> QED BY <2>1, <2>2
  <1>4. CallsOK'
    BY <1>2, <1>3 DEF CallsOK
  <1>5. OthersWait'
    BY <1>2 DEF KeysIInv, OthersWait
  <1>6. Innermost' = f
    BY <1>2 DEF Innermost
  <1>7. TopHolds'
    BY <1>6 DEF TopHolds
  <1>8. \A i \in 1..Len(calls') : Len(calls'[i].needs) <= Retries + 1
    <2> SUFFICES ASSUME NEW i \in 1..Len(calls) PROVE Len(calls'[i].needs) <= Retries + 1
      BY <1>2
    <2>1. calls'[i] \in Call
      BY <1>2, ElementOfSeq
    <2>2. calls'[i].needs \in Seq(Nat)
      BY <2>1 DEF Call
    <2>3. Len(calls'[i].needs) \in Nat
      BY <2>2, LenProperties
    <2>4. Len(calls'[i].needs) <= Retries + 1 \/ Len(calls'[i].needs) <= Retries
      BY <1>3 DEF CallOK
    <2>5. \A m \in Nat : m <= Retries + 1 \/ m <= Retries => m <= Retries + 1
      BY RetriesAssumption
    <2> QED BY <2>3, <2>4, <2>5, Zenon
  <1>9. KeysTypeOK'
    BY <1>2, <1>8 DEF KeysIInv, KeysTypeOK
  <1>10. ReturnsOwnRead' /\ GivesUpOnGrowth'
    BY DEF KeysIInv, ReturnsOwnRead, GivesUpOnGrowth
  <1> QED BY <1>4, <1>5, <1>7, <1>9, <1>10 DEF KeysIInv

(* The innermost call ends; the one around it is still reading.            *)
LEMMA EndStep ==
    ASSUME KeysIInv, calls # <<>>, calls' = Outer, UNCHANGED <<scratch, size>>,
           holds' \in [Buffers -> Contents \cup {NoContents}], last' \in Ended,
           ReturnsOwnRead', GivesUpOnGrowth'
    PROVE  KeysIInv'
  <1>1. /\ calls \in Seq(Call) /\ Len(calls) \in Nat \ {0}
        /\ calls' \in Seq(Call) /\ Len(calls') = Len(calls) - 1
        /\ \A i \in 1..(Len(calls) - 1) : calls'[i] = calls[i]
    BY Stack DEF KeysIInv, KeysTypeOK
  <1>2. CallsOK'
    BY <1>1 DEF KeysIInv, CallsOK, CallOK
  <1>3. OthersWait'
    BY <1>1 DEF KeysIInv, OthersWait
  <1>4. TopHolds'
    <2> SUFFICES ASSUME calls' # <<>> PROVE Innermost'.phase = "reading"
      BY DEF TopHolds
    <2>1. Len(calls') \in Nat \ {0}
      BY <1>1, EmptySeq, LenProperties
    <2>2. Len(calls') \in 1..(Len(calls) - 1)
      BY <1>1, <2>1
    <2> QED BY <1>1, <2>2 DEF Innermost, KeysIInv, OthersWait
  <1>5. KeysTypeOK'
    BY <1>1 DEF KeysIInv, KeysTypeOK
  <1> QED BY <1>2, <1>3, <1>4, <1>5 DEF KeysIInv

(* A step of the host program, outside keys or in the trap.                *)
LEMMA TextStep ==
    ASSUME KeysIInv, HostRuns, calls' = calls, scratch' \in Buffers, size' \in [Buffers -> Nat],
           holds' \in [Buffers -> Contents \cup {NoContents}], last' \in Ended,
           ReturnsOwnRead', GivesUpOnGrowth',
           \A i \in 1..Len(calls) : size'[calls[i].buf] = size[calls[i].buf]
    PROVE  KeysIInv'
  <1>1. CallsOK'
    BY DEF KeysIInv, CallsOK, CallOK
  <1>2. OthersWait'
    BY DEF KeysIInv, OthersWait
  <1>3. TopHolds'
    BY DEF HostRuns, TopHolds, Innermost
  <1>4. KeysTypeOK'
    BY DEF KeysIInv, KeysTypeOK
  <1> QED BY <1>1, <1>2, <1>3, <1>4 DEF KeysIInv

-----------------------------------------------------------------------------
(* The actions.                                                            *)

(* Allocating a buffer leaves the buffers in use alone.                    *)
LEMMA Allocated ==
    ASSUME KeysTypeOK, NEW b \in Buffers, NEW n \in Nat, NEW c \in Contents \cup {NoContents}, Allocate(b, n, c)
    PROVE  /\ scratch' \in Buffers /\ size' \in [Buffers -> Nat]
           /\ holds' \in [Buffers -> Contents \cup {NoContents}]
           /\ size'[b] = 2 * n
           /\ \A i \in 1..Len(calls) : size'[calls[i].buf] = size[calls[i].buf]
  <1>1. \A i \in 1..Len(calls) : calls[i].buf # b
    BY DEF Allocate, Free
  <1>2. scratch' = b /\ size' = [size EXCEPT ![b] = 2 * n] /\ holds' = [holds EXCEPT ![b] = c]
    BY DEF Allocate
  <1>3. size \in [Buffers -> Nat] /\ holds \in [Buffers -> Contents \cup {NoContents}] /\ 2 * n \in Nat
    BY DEF KeysTypeOK
  <1>4. \A i \in 1..Len(calls) : calls[i].buf \in Buffers
    <2> SUFFICES ASSUME NEW i \in 1..Len(calls) PROVE calls[i].buf \in Buffers
      OBVIOUS
    <2>1. calls[i] \in Call
      BY ElementOfSeq DEF KeysTypeOK
    <2> QED BY <2>1 DEF Call
  <1> QED BY <1>1, <1>2, <1>3, <1>4

(* What ends well, or fails without giving up, claims nothing of needs.    *)
LEMMA EndedWell ==
    ASSUME NEW o \in {"text", "names", "error"}, NEW c \in Contents \cup {NoContents},
           last' = [out |-> o, got |-> c, own |-> c, needs |-> <<>>]
    PROVE  last' \in Ended /\ ReturnsOwnRead' /\ GivesUpOnGrowth'
  <1>1. last'.out # "grows" /\ last'.got = last'.own
    OBVIOUS
  <1>2. <<>> \in Seq(Nat)
    BY EmptySeq
  <1>3. last' \in Ended
    BY <1>2 DEF Ended
  <1> QED BY <1>1, <1>3 DEF ReturnsOwnRead, GivesUpOnGrowth

(* Reading a string, in the scratch buffer or in a new one.                *)
LEMMA TextSteps ==
    ASSUME KeysIInv, NEW c \in Contents, NEW b \in Buffers,
           TextFits(c) \/ TextGrows(c, b) \/ TextFails \/ TextGrowsFails(c, b)
    PROVE  KeysIInv'
  <1>1. KeysTypeOK /\ Bytes[c] \in Nat
    BY BytesAssumption DEF KeysIInv
  <1>2. CASE TextFits(c)
    <2>1. last' \in Ended /\ ReturnsOwnRead' /\ GivesUpOnGrowth'
      BY <1>2, EndedWell DEF TextFits
    <2>2. holds' \in [Buffers -> Contents \cup {NoContents}]
      BY <1>1, <1>2 DEF KeysTypeOK, TextFits
    <2> QED BY <1>1, <1>2, <2>1, <2>2, TextStep DEF TextFits, KeysTypeOK
  <1>3. CASE TextGrows(c, b)
    <2>1. last' \in Ended /\ ReturnsOwnRead' /\ GivesUpOnGrowth'
      BY <1>3, EndedWell DEF TextGrows
    <2> QED BY <1>1, <1>3, <2>1, Allocated, TextStep DEF TextGrows
  <1>4. CASE TextFails
    <2>1. last' \in Ended /\ ReturnsOwnRead' /\ GivesUpOnGrowth'
      BY <1>4, EndedWell DEF TextFails
    <2> QED BY <1>1, <1>4, <2>1, TextStep DEF TextFails, KeysTypeOK
  <1>5. CASE TextGrowsFails(c, b)
    <2>1. last' \in Ended /\ ReturnsOwnRead' /\ GivesUpOnGrowth'
      BY <1>5, EndedWell DEF TextGrowsFails
    <2> QED BY <1>1, <1>5, <2>1, Allocated, TextStep DEF TextGrowsFails
  <1> QED BY <1>2, <1>3, <1>4, <1>5

(* A call of keys starts, possibly in the trap of another.                 *)
LEMMA KeysStep == ASSUME KeysIInv, keys PROVE KeysIInv'
  <1> DEFINE f == [buf |-> scratch, phase |-> "reading", names |-> NoContents, needs |-> <<>>]
  <1>1. calls \in Seq(Call) /\ Len(calls) \in Nat /\ scratch \in Buffers
    BY LenProperties DEF KeysIInv, KeysTypeOK
  <1>2. f \in Call
    BY <1>1, EmptySeq DEF Call
  <1>3. /\ calls' \in Seq(Call) /\ Len(calls') = Len(calls) + 1
        /\ \A i \in 1..Len(calls) : calls'[i] = calls[i]
        /\ calls'[Len(calls) + 1] = f
    BY <1>1, <1>2, AppendProperties DEF keys
  <1>4. Len(f.needs) = 0 /\ f.needs = <<>> /\ f.phase = "reading"
    BY EmptySeq
  <1>5. CallOK(f, size)
    BY <1>4, RetriesAssumption DEF CallOK, Doubling
  <1> HIDE DEF f
  <1>6. UNCHANGED <<scratch, size, holds, last>>
    BY DEF keys
  <1>7. \A i \in 1..Len(calls') : i \in 1..Len(calls) \/ i = Len(calls) + 1
    BY <1>1, <1>3
  <1>8. CallsOK'
    <2>1. \A i \in 1..Len(calls) : CallOK(calls[i], size)
      BY DEF KeysIInv, CallsOK
    <2> QED BY <1>3, <1>5, <1>6, <1>7, <2>1 DEF CallsOK
  <1>9. OthersWait'
    <2> SUFFICES ASSUME NEW i \in 1..Len(calls) PROVE calls[i].phase = "reading"
      BY <1>1, <1>3 DEF OthersWait
    <2>1. CASE i = Len(calls)
      <3>1. calls # <<>>
        BY <1>1, <2>1, EmptySeq
      <3> QED BY <2>1, <3>1 DEF keys, HostRuns, Innermost
    <2>2. CASE i # Len(calls)
      BY <1>1, <2>2 DEF KeysIInv, OthersWait
    <2> QED BY <2>1, <2>2
  <1>10. TopHolds'
    BY <1>3, <1>4 DEF TopHolds, Innermost
  <1>11. KeysTypeOK'
    <2>1. \A i \in 1..Len(calls) : Len(calls[i].needs) <= Retries + 1
      BY DEF KeysIInv, KeysTypeOK
    <2>2. Len(f.needs) <= Retries + 1
      BY <1>4, RetriesAssumption
    <2>3. \A i \in 1..Len(calls') : Len(calls'[i].needs) <= Retries + 1
      BY <1>3, <1>7, <2>1, <2>2
    <2> QED BY <1>3, <1>6, <2>3 DEF KeysIInv, KeysTypeOK
  <1>12. ReturnsOwnRead' /\ GivesUpOnGrowth'
    BY <1>6 DEF KeysIInv, ReturnsOwnRead, GivesUpOnGrowth
  <1> QED BY <1>8, <1>9, <1>10, <1>11, <1>12 DEF KeysIInv

(* The innermost call has its type and satisfies CallOK.                   *)
LEMMA TopFacts ==
    ASSUME KeysIInv, calls # <<>>
    PROVE  /\ Innermost \in Call /\ CallOK(Innermost, size) /\ Innermost.needs \in Seq(Nat)
           /\ Innermost.buf \in Buffers /\ Len(Innermost.needs) \in Nat
           /\ size \in [Buffers -> Nat] /\ holds \in [Buffers -> Contents \cup {NoContents}]
           /\ scratch \in Buffers /\ Len(calls) \in Nat \ {0}
  <1>1. Innermost \in Call /\ Len(calls) \in Nat \ {0}
    BY Stack DEF KeysIInv, KeysTypeOK
  <1>2. CallOK(Innermost, size)
    BY <1>1 DEF KeysIInv, CallsOK, Innermost
  <1>3. Innermost.needs \in Seq(Nat) /\ Innermost.buf \in Buffers
    BY <1>1 DEF Call
  <1> QED BY <1>1, <1>2, <1>3, LenProperties DEF KeysIInv, KeysTypeOK

(* The names fit, and overwrite what nested reads left in the buffer.      *)
LEMMA ReadFitsStep == ASSUME KeysIInv, NEW c \in Contents, ReadFits(c) PROVE KeysIInv'
  <1> DEFINE f == [Innermost EXCEPT !.phase = "read", !.names = c]
  <1>1. calls # <<>> /\ Innermost.phase = "reading" /\ calls' = Append(Outer, f)
        /\ UNCHANGED <<scratch, size, last>> /\ holds' = [holds EXCEPT ![Innermost.buf] = c]
    BY DEF ReadFits
  <1>2. f \in Call /\ f.phase = "read" /\ f.names = c /\ f.buf = Innermost.buf /\ f.needs = Innermost.needs
    BY <1>1, TopFacts DEF Call
  <1> HIDE DEF f
  <1>3. CallOK(f, size') /\ holds' \in [Buffers -> Contents \cup {NoContents}] /\ holds'[f.buf] = f.names
    BY <1>1, <1>2, TopFacts DEF CallOK
  <1> QED BY <1>1, <1>2, <1>3, TopFacts, ReplaceStep

(* Noting what another short read asked for.                               *)
LEMMA AppendNeed ==
    ASSUME NEW t \in Seq(Nat), NEW x \in Nat
    PROVE  /\ Append(t, x) \in Seq(Nat) /\ Append(t, x) # <<>> /\ Len(Append(t, x)) = Len(t) + 1
           /\ \A j \in 1..Len(t) : Append(t, x)[j] = t[j]
           /\ Append(t, x)[Len(t) + 1] = x
  BY AppendProperties

(* The names do not fit into twice what the read before asked for.         *)
LEMMA ReadShortStep == ASSUME KeysIInv, NEW c \in Contents, ReadShort(c) PROVE KeysIInv'
  <1> DEFINE f == [Innermost EXCEPT !.phase = "short", !.needs = Append(Innermost.needs, Bytes[c])]
             s == Append(Innermost.needs, Bytes[c])
  <1>1. calls # <<>> /\ Innermost.phase = "reading" /\ calls' = Append(Outer, f)
        /\ UNCHANGED <<scratch, size, last>> /\ holds' = [holds EXCEPT ![Innermost.buf] = NoContents]
        /\ Bytes[c] > size[Innermost.buf]
    BY DEF ReadShort
  <1>2. Bytes[c] \in Nat
    BY BytesAssumption
  <1>3. /\ s \in Seq(Nat) /\ s # <<>> /\ Len(s) = Len(Innermost.needs) + 1
        /\ \A j \in 1..Len(Innermost.needs) : s[j] = Innermost.needs[j]
        /\ s[Len(Innermost.needs) + 1] = Bytes[c]
    <2>1. Innermost.needs \in Seq(Nat)
      BY <1>1, TopFacts
    <2> QED BY <1>2, <2>1, AppendNeed
  <1>4. f \in Call /\ f.phase = "short" /\ f.needs = s
    BY <1>1, <1>3, TopFacts DEF Call
  <1> HIDE DEF f, s
  <1>5. Len(Innermost.needs) <= Retries /\ Len(Innermost.needs) \in Nat
    BY <1>1, TopFacts DEF CallOK
  <1>6. Doubling(s)
    <2> SUFFICES ASSUME NEW j \in 1..(Len(s) - 1) PROVE s[j + 1] > 2 * s[j]
      BY DEF Doubling
    <2>1. CASE j = Len(Innermost.needs)
      <3>1. Innermost.needs # <<>>
        BY <1>3, <1>5, <2>1, EmptySeq
      <3>2. size[Innermost.buf] = 2 * Innermost.needs[Len(Innermost.needs)]
        BY <1>1, <3>1, TopFacts DEF CallOK
      <3>3. s[j] = Innermost.needs[j] /\ s[j + 1] = Bytes[c]
        <4>1. Len(s) = Len(Innermost.needs) + 1 /\ s[Len(Innermost.needs) + 1] = Bytes[c]
          BY <1>3
        <4>2. j \in 1..Len(Innermost.needs)
          BY ONLY <1>5, <4>1, j \in 1..(Len(s) - 1)
        <4>3. s[j] = Innermost.needs[j]
          BY ONLY <1>3, <4>2
        <4> QED BY ONLY <2>1, <4>1, <4>3
      <3> QED BY <1>1, <2>1, <3>2, <3>3
    <2>2. CASE j # Len(Innermost.needs)
      <3>1. j \in 1..(Len(Innermost.needs) - 1) /\ j \in 1..Len(Innermost.needs) /\ j + 1 \in 1..Len(Innermost.needs)
        BY <1>3, <1>5, <2>2
      <3>2. Innermost.needs[j + 1] > 2 * Innermost.needs[j]
        BY <1>1, <3>1, TopFacts DEF CallOK, Doubling
      <3> QED BY <1>3, <3>1, <3>2
    <2> QED BY <2>1, <2>2
  <1>7. Len(s) <= Retries + 1
    BY <1>3, <1>5, RetriesAssumption
  <1>8. CallOK(f, size')
    BY <1>3, <1>4, <1>6, <1>7 DEF CallOK
  <1>9. holds' \in [Buffers -> Contents \cup {NoContents}]
    BY <1>1, TopFacts
  <1> QED BY <1>1, <1>4, <1>8, <1>9, TopFacts, ReplaceStep

(* The buffer for the next read has twice the size asked for.              *)
LEMMA RetryStep == ASSUME KeysIInv, NEW b \in Buffers, Retry(b) PROVE KeysIInv'
  <1> DEFINE f == [Innermost EXCEPT !.buf = b, !.phase = "reading"]
             n == Innermost.needs[Len(Innermost.needs)]
  <1>1. calls # <<>> /\ Innermost.phase = "short" /\ calls' = Append(Outer, f) /\ last' = last
        /\ Len(Innermost.needs) <= Retries /\ Allocate(b, n, NoContents)
    BY DEF Retry, MayRetry
  <1>2. Innermost.needs # <<>> /\ Innermost.needs \in Seq(Nat)
    BY <1>1, TopFacts DEF CallOK
  <1>3. Len(Innermost.needs) \in 1..Len(Innermost.needs)
    BY <1>2, EmptySeq, LenProperties
  <1>4. n \in Nat
    BY <1>2, <1>3, ElementOfSeq
  <1>5. f \in Call /\ f.phase = "reading" /\ f.buf = b /\ f.needs = Innermost.needs
    BY <1>1, TopFacts DEF Call
  <1>6. /\ scratch' \in Buffers /\ size' \in [Buffers -> Nat]
        /\ holds' \in [Buffers -> Contents \cup {NoContents}] /\ size'[b] = 2 * n
        /\ \A i \in 1..Len(calls) : size'[calls[i].buf] = size[calls[i].buf]
    BY <1>1, <1>4, Allocated DEF KeysIInv
  <1> HIDE DEF f
  <1>7. CallOK(f, size')
    BY <1>1, <1>5, <1>6, TopFacts DEF CallOK
  <1>8. \A i \in 1..(Len(calls) - 1) : size'[calls[i].buf] = size[calls[i].buf]
    BY <1>1, <1>6, TopFacts
  <1> QED BY <1>1, <1>5, <1>6, <1>7, <1>8, ReplaceStep

(* A failed read ends the call.                                            *)
LEMMA ReadFailsStep ==
    ASSUME KeysIInv, NEW c \in Contents \cup {NoContents}, KeysFail(c)
    PROVE  KeysIInv'
  <1>1. last' \in Ended /\ ReturnsOwnRead' /\ GivesUpOnGrowth'
    BY EndedWell DEF KeysFail
  <1>2. holds' \in [Buffers -> Contents \cup {NoContents}]
    BY TopFacts DEF KeysFail
  <1> QED BY <1>1, <1>2, EndStep DEF KeysFail

(* A failed allocation ends the call.                                      *)
LEMMA RetryFailsStep == ASSUME KeysIInv, RetryFails PROVE KeysIInv'
  <1>1. last' \in Ended /\ ReturnsOwnRead' /\ GivesUpOnGrowth'
    BY EndedWell DEF RetryFails
  <1> QED BY <1>1, TopFacts, EndStep DEF RetryFails

(* The names are decoded from the buffer of the call.                      *)
LEMMA DecodeStep == ASSUME KeysIInv, Decode PROVE KeysIInv'
  <1>1. calls # <<>> /\ holds[Innermost.buf] = Innermost.names
    BY DEF Decode, KeysIInv, TopHolds
  <1>2. Innermost.names \in Contents \cup {NoContents}
    BY <1>1, TopFacts DEF Call
  <1>3. last' \in Ended /\ ReturnsOwnRead' /\ GivesUpOnGrowth'
    BY <1>1, <1>2, EndedWell DEF Decode
  <1> QED BY <1>1, <1>3, TopFacts, EndStep DEF Decode

(* After the last retry all needs have doubled.                            *)
LEMMA GiveUpStep == ASSUME KeysIInv, GiveUp PROVE KeysIInv'
  <1>1. calls # <<>> /\ Innermost.phase = "short" /\ ~(Len(Innermost.needs) <= Retries)
    BY DEF GiveUp, MayRetry
  <1>2. Innermost.needs \in Seq(Nat) /\ Len(Innermost.needs) = Retries + 1 /\ Doubling(Innermost.needs)
    BY <1>1, TopFacts, RetriesAssumption DEF CallOK
  <1>3. last'.out = "grows" /\ last'.needs = Innermost.needs /\ last'.got = last'.own
    BY DEF GiveUp
  <1>4. last' \in Ended
    BY <1>2 DEF GiveUp, Ended
  <1>5. \A i \in 1..Retries : Innermost.needs[i + 1] > 2 * Innermost.needs[i]
    <2>1. Len(Innermost.needs) - 1 = Retries
      BY <1>2, RetriesAssumption
    <2> QED BY <1>2, <2>1 DEF Doubling
  <1>6. ReturnsOwnRead' /\ GivesUpOnGrowth'
    BY <1>2, <1>3, <1>5 DEF ReturnsOwnRead, GivesUpOnGrowth
  <1> QED BY <1>1, <1>4, <1>6, TopFacts, EndStep DEF GiveUp

(* The first state.                                                        *)
LEMMA KeysInitInv == KeysInit => KeysIInv
  <1> SUFFICES ASSUME KeysInit PROVE KeysIInv
    OBVIOUS
  <1>1. calls = <<>> /\ Len(calls) = 0 /\ calls \in Seq(Call) /\ <<>> \in Seq(Nat)
    BY EmptySeq DEF KeysInit
  <1>2. last \in Ended /\ last.got = last.own /\ last.out # "grows"
    BY <1>1 DEF KeysInit, Ended
  <1>3. KeysTypeOK
    BY <1>1, <1>2, SizeAssumption DEF KeysInit, KeysTypeOK
  <1>4. OthersWait /\ TopHolds /\ CallsOK
    BY <1>1 DEF OthersWait, TopHolds, CallsOK
  <1> QED BY <1>2, <1>3, <1>4 DEF KeysIInv, ReturnsOwnRead, GivesUpOnGrowth

(* Every step keeps the inductive invariant.                               *)
LEMMA KeysNextStep == ASSUME KeysIInv, [KeysNext]_keysVars PROVE KeysIInv'
  <1>1. CASE KeysNext
    <2>1. scratch \in Buffers
      BY DEF KeysIInv, KeysTypeOK
    <2>2. CASE TextFails
      <3>1. last' \in Ended /\ ReturnsOwnRead' /\ GivesUpOnGrowth'
        BY <2>2, EndedWell DEF TextFails
      <3> QED BY <2>2, <3>1, TextStep DEF TextFails, KeysIInv, KeysTypeOK
    <2> QED BY <1>1, <2>1, <2>2, TextSteps, KeysStep, ReadFitsStep, ReadShortStep, ReadFailsStep,
               RetryStep, RetryFailsStep, GiveUpStep, DecodeStep DEF KeysNext
  <1>2. CASE UNCHANGED keysVars
    BY <1>2 DEF keysVars, KeysIInv, KeysTypeOK, OthersWait, TopHolds, CallsOK, ReturnsOwnRead, GivesUpOnGrowth, Innermost
  <1> QED BY <1>1, <1>2

(* The inductive invariant holds throughout.                               *)
THEOREM KeysInvariance == KeysSpec => []KeysIInv
  BY KeysInitInv, KeysNextStep, PTL DEF KeysSpec

(* The variables of OwnKeys have their types.                              *)
THEOREM KeysTypeCorrect == KeysSpec => []KeysTypeOK
  <1>1. KeysIInv => KeysTypeOK
    BY DEF KeysIInv
  <1> QED BY <1>1, KeysInvariance, PTL

(* JSValue.keys and #text return what their own read reported, however     *)
(* reads nest.                                                             *)
THEOREM OwnRead == KeysSpec => []ReturnsOwnRead
  <1>1. KeysIInv => ReturnsOwnRead
    BY DEF KeysIInv
  <1> QED BY <1>1, KeysInvariance, PTL

(* JSValue.keys gives up only on names that keep doubling.                 *)
THEOREM GiveUpOnGrowth == KeysSpec => []GivesUpOnGrowth
  <1>1. KeysIInv => GivesUpOnGrowth
    BY DEF KeysIInv
  <1> QED BY <1>1, KeysInvariance, PTL

=============================================================================
