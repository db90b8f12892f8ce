-------------------------- MODULE LifecycleProofs --------------------------
(***************************************************************************)
(* Proofs, for any number of runtimes and contexts, any nesting of         *)
(* operations and host code, and any number of jobs and objects, of the    *)
(* safety properties of Lifecycle.                                         *)
(***************************************************************************)
EXTENDS Lifecycle, SequenceTheorems, FiniteSetTheorems, TLAPS

(* The stages in which a runtime is used by its contexts.                  *)
Used == {"live", "contexts"}

(* What is so of every frame: its context belongs to its runtime and is    *)
(* alive, and its runtime has not been freed.  Only "end" and "finalizer"  *)
(* are not for a context.                                                  *)
FrameOK(f, ow, na, st, rg) ==
    /\ f.kind \in {"end", "finalizer"} => f.ctx = None
    /\ f.kind \notin {"end", "finalizer"} =>
          f.ctx \in Contexts /\ ow[f.ctx] = f.rt /\ na[f.ctx] = "alive" /\ st[f.rt] \in Used
    /\ f.kind = "finalizer" => st[f.rt] \in Used \cup {"native"}
    /\ f.kind = "host" => f.ctx \in rg

FramesOK == \A i \in 1..Len(stack) : FrameOK(stack[i], owner, native, stage, registered)

(* On top of engine code there is only host code of the same runtime, or   *)
(* the disposal of a context by that of the runtime, ...                   *)
Adjacent ==
    \A i \in 1..(Len(stack) - 1) : stack[i].kind \in Engine =>
        /\ stack[i + 1].rt = stack[i].rt
        /\ \/ stack[i + 1].kind \in Callbacks
           \/ stack[i].kind = "end" /\ stack[i + 1].kind \in {"dispose", "free"}

(* ... so that hostDepth, which counts the host code of a runtime, keeps   *)
(* these disposals from starting under anything else of the runtime.       *)
Alone ==
    \A i, j \in 1..Len(stack) : j < i /\ stack[i].kind \in {"end", "dispose", "free"} =>
        \/ stack[j].rt # stack[i].rt
        \/ stack[j].kind = "end" /\ stack[i].kind # "end"

HostsOf(r) == {i \in 1..Len(stack) : stack[i].kind \in Callbacks /\ stack[i].rt = r}
DepthCounts == \A r \in Runtimes : hostDepth[r] = Cardinality(HostsOf(r))

(* The stack.                                                              *)
Nests ==
    /\ stack \in Seq(Frame)
    /\ hostDepth \in [Runtimes -> Nat]
    /\ Adjacent
    /\ Alone
    /\ DepthCounts

RegisteredOK == \A c \in registered : native[c] = "alive" /\ stage[owner[c]] \in Used

JobsOK ==
    \A r \in Runtimes :
        /\ \A i \in 1..Len(jobs[r]) : owner[jobs[r][i]] = r /\ native[jobs[r][i]] = "alive"
        /\ stage[r] \notin Used => jobs[r] = <<>>

CallbacksOpen == \A r \in Runtimes : Exists(r) \/ stage[r] = "callbacks" => r \in callbacks

Live == {r \in Runtimes : stage[r] = "live"}
LiveCount == IsFiniteSet(Live) /\ runtimes = Cardinality(Live)

IInv ==
    /\ TypeOK
    /\ Nests
    /\ FramesOK
    /\ RegisteredOK
    /\ JobsOK
    /\ CallbacksOpen
    /\ LiveCount
    /\ EntriesMatchContexts
    /\ NoLiveRuntimeWhenClosed

-----------------------------------------------------------------------------
(* The list of the bridge.                                                 *)

(* The elements of a sequence.                                             *)
LEMMA ToSetIs ==
    ASSUME NEW S, NEW s \in Seq(S)
    PROVE  /\ Len(s) \in Nat /\ DOMAIN s = 1..Len(s)
           /\ \A x : x \in ToSet(s) <=> \E i \in 1..Len(s) : s[i] = x
           /\ IsInjective(s) <=> \A i, j \in 1..Len(s) : s[i] = s[j] => i = j
  BY LenProperties DEF ToSet, IsInjective

(* The list of a new runtime.                                              *)
LEMMA EmptyList == ToSet(<<>>) = {} /\ IsInjective(<<>>)
  BY DEF ToSet, IsInjective

(* Unlinking the entry at place p.                                         *)
LEMMA RemoveAtFacts ==
    ASSUME NEW S, NEW s \in Seq(S), NEW p \in 1..Len(s)
    PROVE  /\ RemoveAt(s, p) \in Seq(S)
           /\ Len(RemoveAt(s, p)) = Len(s) - 1
           /\ \A i \in 1..(Len(s) - 1) : RemoveAt(s, p)[i] = IF i < p THEN s[i] ELSE s[i + 1]
  <1> DEFINE n == Len(s)
             a == SubSeq(s, 1, p - 1)
             b == SubSeq(s, p + 1, n)
  <1>1. n \in Nat /\ p \in Nat /\ 1 <= p /\ p <= n /\ \A i \in 1..n : s[i] \in S
    BY LenProperties, ElementOfSeq
  <1>2. /\ a \in Seq(S) /\ Len(a) = p - 1
        /\ \A i \in 1..(p - 1) : a[i] = s[i]
    <2> DEFINE m == p - 1
    <2>1. m \in Int /\ m >= 0 /\ \A i \in 1..m : s[i] \in S
      BY <1>1
    <2> HIDE DEF m
    <2>2. /\ SubSeq(s, 1, m) \in Seq(S)
          /\ Len(SubSeq(s, 1, m)) = IF 1 <= m THEN m - 1 + 1 ELSE 0
          /\ \A i \in 1..(m - 1 + 1) : SubSeq(s, 1, m)[i] = s[1 + i - 1]
      BY <2>1, SubSeqProperties
    <2>3. Len(SubSeq(s, 1, m)) = m /\ \A i \in 1..m : SubSeq(s, 1, m)[i] = s[i]
      BY <2>1, <2>2
    <2> QED BY <2>2, <2>3 DEF m
  <1>3. /\ b \in Seq(S) /\ Len(b) = n - p
        /\ \A i \in 1..(n - p) : b[i] = s[p + i]
    <2> DEFINE m == p + 1
    <2>1. m \in Int /\ n \in Int /\ \A i \in m..n : s[i] \in S
      BY <1>1
    <2>2. /\ SubSeq(s, m, n) \in Seq(S)
          /\ Len(SubSeq(s, m, n)) = IF m <= n THEN n - m + 1 ELSE 0
          /\ \A i \in 1..(n - m + 1) : SubSeq(s, m, n)[i] = s[m + i - 1]
      <3> HIDE DEF m, n
      <3> QED BY <2>1, SubSeqProperties
    <2> HIDE DEF n
    <2>3. Len(SubSeq(s, m, n)) = n - p
      BY <1>1, <2>2
    <2>4. \A i \in 1..(n - p) : SubSeq(s, m, n)[i] = s[p + i]
      <3>1. n - m + 1 = n - p /\ \A i \in 1..(n - p) : m + i - 1 = p + i
        BY <1>1
      <3> HIDE DEF m
      <3> QED BY <2>2, <3>1
    <2> QED BY <2>2, <2>3, <2>4
  <1> HIDE DEF a, b, n
  <1>4. /\ a \o b \in Seq(S) /\ Len(a \o b) = Len(a) + Len(b)
        /\ \A i \in 1..(Len(a) + Len(b)) : (a \o b)[i] =
               IF i <= Len(a) THEN a[i] ELSE b[i - Len(a)]
    BY <1>2, <1>3, ConcatProperties
  <1>5. Len(a) + Len(b) = n - 1
    BY <1>1, <1>2, <1>3
  <1>6. ASSUME NEW i \in 1..(n - 1) PROVE (a \o b)[i] = IF i < p THEN s[i] ELSE s[i + 1]
    <2>1. CASE i < p
      <3>1. i \in 1..(p - 1) /\ i <= Len(a)
        BY <2>1, <1>1, <1>2
      <3> QED BY <2>1, <3>1, <1>2, <1>4, <1>5
    <2>2. CASE ~(i < p)
      <3>1. i - (p - 1) \in 1..(n - p) /\ ~(i <= Len(a)) /\ p + (i - (p - 1)) = i + 1
        BY <2>2, <1>1, <1>2
      <3>2. (a \o b)[i] = b[i - (p - 1)]
        BY <3>1, <1>2, <1>4, <1>5
      <3>3. b[i - (p - 1)] = s[p + (i - (p - 1))]
        BY <3>1, <1>3
      <3> QED BY <2>2, <3>1, <3>2, <3>3
    <2> QED BY <2>1, <2>2
  <1>7. RemoveAt(s, p) = a \o b
    BY DEF RemoveAt, a, b, n
  <1> QED BY <1>4, <1>5, <1>6, <1>7 DEF n

(* Unlinking a context from a list that has it at most once.               *)
LEMMA RemoveFirstFacts ==
    ASSUME NEW S, NEW s \in Seq(S), IsInjective(s), NEW e
    PROVE  /\ RemoveFirst(s, e) \in Seq(S)
           /\ IsInjective(RemoveFirst(s, e))
           /\ ToSet(RemoveFirst(s, e)) = ToSet(s) \ {e}
  <1>1. CASE ~\E i \in 1..Len(s) : s[i] = e
    <2>1. RemoveFirst(s, e) = s
      BY <1>1 DEF RemoveFirst
    <2>2. e \notin ToSet(s)
      BY <1>1, ToSetIs
    <2> QED BY <2>1, <2>2
  <1>2. ASSUME NEW p \in 1..Len(s), s[p] = e
        PROVE  /\ RemoveFirst(s, e) \in Seq(S)
               /\ IsInjective(RemoveFirst(s, e))
               /\ ToSet(RemoveFirst(s, e)) = ToSet(s) \ {e}
    <2> DEFINE I == {i \in 1..Len(s) : s[i] = e}
               t == RemoveFirst(s, e)
    <2>1. \A i, j \in 1..Len(s) : s[i] = s[j] => i = j
      BY ToSetIs
    <2>2. I = {p} /\ I # {} /\ p \in Nat
      BY <1>2, <2>1, LenProperties
    <2>3. Min(I) = p
      <3>1. p \in I /\ \A y \in I : p <= y
        BY <2>2
      <3>2. \A x \in I : (\A y \in I : x <= y) => x = p
        BY <2>2
      <3> HIDE DEF I
      <3> QED BY <3>1, <3>2 DEF Min
    <2>4. SelectInSeq(s, LAMBDA v : v = e) = IF I # {} THEN Min(I) ELSE 0
      BY DEF SelectInSeq
    <2>5. t = RemoveAt(s, p)
      <3>1. t = RemoveAt(s, SelectInSeq(s, LAMBDA v : v = e))
        BY <1>2 DEF RemoveFirst
      <3> QED BY <3>1, <2>2, <2>3, <2>4
    <2> HIDE DEF t, I
    <2>6. /\ t \in Seq(S) /\ Len(t) = Len(s) - 1 /\ Len(s) \in Nat
          /\ \A i \in 1..(Len(s) - 1) : t[i] = IF i < p THEN s[i] ELSE s[i + 1]
      BY <2>5, RemoveAtFacts, LenProperties
    <2>7. IsInjective(t)
      <3> SUFFICES ASSUME NEW i \in 1..Len(t), NEW j \in 1..Len(t), t[i] = t[j] PROVE i = j
        BY <2>6, ToSetIs
      <3> DEFINE k(m) == IF m < p THEN m ELSE m + 1
      <3>1. k(i) \in 1..Len(s) /\ k(j) \in 1..Len(s) /\ t[i] = s[k(i)] /\ t[j] = s[k(j)]
        BY <2>6
      <3>2. k(i) = k(j)
        BY <3>1, <2>1
      <3> QED BY <3>2, <2>2, <2>6
    <2>8. ASSUME NEW x PROVE x \in ToSet(t) <=> x \in ToSet(s) /\ x # e
      <3>1. ASSUME NEW i \in 1..Len(t), t[i] = x PROVE x \in ToSet(s) /\ x # e
        <4> DEFINE m == IF i < p THEN i ELSE i + 1
        <4>1. m \in 1..Len(s) /\ m # p /\ s[m] = x
          BY <3>1, <2>2, <2>6
        <4>2. s[m] # s[p]
          BY <4>1, <2>1
        <4> QED BY <4>1, <4>2, <1>2, ToSetIs
      <3>2. ASSUME NEW m \in 1..Len(s), s[m] = x, x # e PROVE \E i \in 1..Len(t) : t[i] = x
        <4>1. m # p
          BY <3>2, <1>2
        <4>2. CASE m < p
          <5>1. m \in 1..Len(t) /\ t[m] = s[m]
            BY <4>2, <2>2, <2>6
          <5> QED BY <5>1, <3>2
        <4>3. CASE m > p
          <5>1. m - 1 \in 1..(Len(s) - 1) /\ ~(m - 1 < p) /\ m - 1 + 1 = m
            BY <4>3, <2>2, <2>6
          <5>2. m - 1 \in 1..Len(t) /\ t[m - 1] = s[m]
            BY <5>1, <2>6
          <5> QED BY <5>2, <3>2
        <4> QED BY <4>1, <4>2, <4>3, <2>2, <2>6
      <3> QED BY <3>1, <3>2, <2>6, ToSetIs
    <2>9. ToSet(t) = ToSet(s) \ {e}
      BY <2>8
    <2> QED BY <2>6, <2>7, <2>9 DEF t
  <1> QED BY <1>1, <1>2

(* Adding a context in front of a list that does not have it.              *)
LEMMA ConsFacts ==
    ASSUME NEW S, NEW s \in Seq(S), IsInjective(s), NEW e \in S, e \notin ToSet(s)
    PROVE  /\ <<e>> \o s \in Seq(S)
           /\ IsInjective(<<e>> \o s)
           /\ ToSet(<<e>> \o s) = ToSet(s) \cup {e}
  <1> DEFINE t == <<e>> \o s
  <1>1. <<e>> \in Seq(S) /\ Len(<<e>>) = 1 /\ <<e>>[1] = e
    OBVIOUS
  <1>2. /\ t \in Seq(S) /\ Len(t) = 1 + Len(s) /\ Len(s) \in Nat
        /\ \A i \in 1..(1 + Len(s)) : t[i] = IF i <= 1 THEN <<e>>[i] ELSE s[i - 1]
    <2> DEFINE u == <<e>>
    <2>1. u \in Seq(S) /\ Len(u) = 1
      BY <1>1
    <2> HIDE DEF u
    <2>2. /\ u \o s \in Seq(S) /\ Len(u \o s) = Len(u) + Len(s)
          /\ \A i \in 1..(Len(u) + Len(s)) : (u \o s)[i] =
                IF i <= Len(u) THEN u[i] ELSE s[i - Len(u)]
      BY <2>1, ConcatProperties
    <2> QED BY <2>1, <2>2, LenProperties DEF u
  <1> HIDE DEF t
  <1>3. t[1] = e /\ \A i \in 1..Len(s) : t[i + 1] = s[i]
    <2>1. 1 \in 1..(1 + Len(s)) /\ t[1] = e
      BY <1>1, <1>2
    <2>2. ASSUME NEW i \in 1..Len(s) PROVE t[i + 1] = s[i]
      <3>1. i + 1 \in 1..(1 + Len(s)) /\ ~(i + 1 <= 1) /\ i + 1 - 1 = i
        BY <1>2
      <3> QED BY <3>1, <1>2
    <2> QED BY <2>1, <2>2
  <1>4. \A i \in 1..Len(t) : i = 1 \/ (i - 1 \in 1..Len(s) /\ t[i] = s[i - 1])
    <2> SUFFICES ASSUME NEW i \in 1..Len(t), i # 1 PROVE i - 1 \in 1..Len(s) /\ t[i] = s[i - 1]
      OBVIOUS
    <2>1. i - 1 \in 1..Len(s) /\ i - 1 + 1 = i
      BY <1>2
    <2> QED BY <2>1, <1>3
  <1>5. \A i, j \in 1..Len(s) : s[i] = s[j] => i = j
    BY ToSetIs
  <1>6. \A i \in 1..Len(s) : s[i] # e
    BY ToSetIs
  <1>7. \A i, j \in 1..Len(t) : t[i] = t[j] => i = j
    <2> SUFFICES ASSUME NEW i \in 1..Len(t), NEW j \in 1..Len(t), t[i] = t[j] PROVE i = j
      OBVIOUS
    <2>1. CASE i = 1 \/ j = 1
      BY <2>1, <1>3, <1>4, <1>6
    <2>2. CASE i # 1 /\ j # 1
      <3>1. i - 1 = j - 1
        BY <2>2, <1>4, <1>5
      <3> QED BY <3>1, <1>2
    <2> QED BY <2>1, <2>2
  <1>8. IsInjective(t)
    BY <1>2, <1>7, ToSetIs
  <1>9. ASSUME NEW x PROVE x \in ToSet(t) <=> x = e \/ x \in ToSet(s)
    <2>1. x \in ToSet(t) => x = e \/ x \in ToSet(s)
      BY <1>2, <1>3, <1>4, ToSetIs
    <2>2. e \in ToSet(t)
      <3>1. 1 \in 1..Len(t)
        BY <1>2
      <3> QED BY <3>1, <1>2, <1>3, ToSetIs
    <2>3. ASSUME NEW i \in 1..Len(s), s[i] = x PROVE x \in ToSet(t)
      <3>1. i + 1 \in 1..Len(t) /\ t[i + 1] = x
        BY <2>3, <1>2, <1>3
      <3> QED BY <3>1, <1>2, ToSetIs
    <2> QED BY <2>1, <2>2, <2>3, ToSetIs
  <1> QED BY <1>2, <1>8, <1>9 DEF t

-----------------------------------------------------------------------------
(* The stack.                                                              *)

(* The innermost frame.                                                    *)
LEMMA TopFacts ==
    ASSUME stack \in Seq(Frame), stack # <<>>
    PROVE  /\ Len(stack) \in Nat \ {0} /\ Len(stack) \in 1..Len(stack)
           /\ Top = stack[Len(stack)] /\ Top \in Frame
           /\ Top.rt \in Runtimes /\ Top.kind \in Engine \cup Callbacks
           /\ Top.ctx \in Contexts \cup {None}
  <1>1. Len(stack) \in Nat \ {0} /\ Len(stack) \in 1..Len(stack)
    BY EmptySeq
  <1>2. Top = stack[Len(stack)] /\ Top \in Frame
    BY <1>1, ElementOfSeq DEF Top
  <1> QED BY <1>1, <1>2 DEF Frame

(* What entering a frame leaves on the stack.                              *)
LEMMA PushFacts ==
    ASSUME stack \in Seq(Frame), NEW f \in Frame, stack' = Append(stack, f)
    PROVE  /\ stack' \in Seq(Frame) /\ Len(stack) \in Nat /\ Len(stack') = Len(stack) + 1
           /\ \A i \in 1..Len(stack) : stack'[i] = stack[i]
           /\ stack'[Len(stack) + 1] = f
  BY AppendProperties, LenProperties

(* What leaving a frame leaves on the stack.                               *)
LEMMA PopFacts ==
    ASSUME stack \in Seq(Frame), stack # <<>>
    PROVE  /\ Rest \in Seq(Frame) /\ Len(stack) \in Nat \ {0} /\ Len(Rest) = Len(stack) - 1
           /\ \A i \in 1..(Len(stack) - 1) : Rest[i] = stack[i]
  <1>1. Len(stack) \in Nat \ {0}
    BY EmptySeq
  <1>2. \A i \in 1..(Len(stack) - 1) : i \in 1..Len(stack)
    BY <1>1
  <1>3. \A i \in 1..(Len(stack) - 1) : stack[i] \in Frame
    BY <1>2, ElementOfSeq
  <1> DEFINE n == Len(stack) - 1
  <1>4. n \in Int /\ n >= 0 /\ Rest = SubSeq(stack, 1, n)
    BY <1>1 DEF Rest
  <1> HIDE DEF n
  <1>5. /\ SubSeq(stack, 1, n) \in Seq(Frame)
        /\ Len(SubSeq(stack, 1, n)) = IF 1 <= n THEN n - 1 + 1 ELSE 0
        /\ \A i \in 1..(n - 1 + 1) : SubSeq(stack, 1, n)[i] = stack[1 + i - 1]
    BY <1>3, <1>4, SubSeqProperties DEF n
  <1>6. Len(Rest) = n
    BY <1>4, <1>5
  <1>7. \A i \in 1..n : Rest[i] = stack[i]
    BY <1>4, <1>5
  <1> QED BY <1>1, <1>4, <1>5, <1>6, <1>7 DEF n

(* What a change of the innermost frame leaves on the stack.               *)
LEMMA RetopFacts ==
    ASSUME stack \in Seq(Frame), stack # <<>>, NEW f \in Frame, stack' = Append(Rest, f)
    PROVE  /\ stack' \in Seq(Frame) /\ Len(stack) \in Nat \ {0} /\ Len(stack') = Len(stack)
           /\ \A i \in 1..(Len(stack) - 1) : stack'[i] = stack[i]
           /\ stack'[Len(stack)] = f
  <1>1. /\ Rest \in Seq(Frame) /\ Len(stack) \in Nat \ {0} /\ Len(Rest) = Len(stack) - 1
        /\ \A i \in 1..(Len(stack) - 1) : Rest[i] = stack[i]
    BY PopFacts
  <1>2. /\ Append(Rest, f) \in Seq(Frame) /\ Len(Append(Rest, f)) = Len(Rest) + 1
        /\ \A i \in 1..Len(Rest) : Append(Rest, f)[i] = Rest[i]
        /\ Append(Rest, f)[Len(Rest) + 1] = f
    BY <1>1, AppendProperties
  <1>3. Len(Rest) + 1 = Len(stack)
    BY <1>1
  <1> QED BY <1>1, <1>2, <1>3

(* The host code of a runtime is finite.                                   *)
LEMMA HostsFinite ==
    ASSUME stack \in Seq(Frame), NEW r
    PROVE  IsFiniteSet(HostsOf(r)) /\ Cardinality(HostsOf(r)) \in Nat
  <1>1. Len(stack) \in Int
    BY LenProperties
  <1>2. IsFiniteSet(1..Len(stack)) /\ HostsOf(r) \subseteq 1..Len(stack)
    BY <1>1, FS_Interval DEF HostsOf
  <1>3. IsFiniteSet(HostsOf(r))
    BY <1>2, FS_Subset
  <1> QED BY <1>3, FS_CardinalityType

(* Entering a frame, ...                                                   *)
LEMMA NestsPush ==
    ASSUME Nests, NEW f \in Frame, stack' = Append(stack, f),
           hostDepth' = IF f.kind \in Callbacks THEN [hostDepth EXCEPT ![f.rt] = @ + 1]
                                                ELSE hostDepth,
           stack # <<>> /\ Top.kind \in Engine =>
               /\ f.rt = Top.rt
               /\ f.kind \in Callbacks \/ (Top.kind = "end" /\ f.kind = "dispose"),
           f.kind \in {"end", "dispose", "free"} =>
               \A j \in 1..Len(stack) :
                   \/ stack[j].rt # f.rt
                   \/ stack[j].kind = "end" /\ f.kind # "end"
    PROVE  Nests'
  <1> DEFINE n == Len(stack)
  <1>0. /\ stack \in Seq(Frame) /\ hostDepth \in [Runtimes -> Nat] /\ Adjacent /\ Alone
        /\ DepthCounts
    BY DEF Nests
  <1>1. /\ stack' \in Seq(Frame) /\ n \in Nat /\ Len(stack') = n + 1
        /\ \A i \in 1..n : stack'[i] = stack[i]
        /\ stack'[n + 1] = f
    BY <1>0, PushFacts
  <1>2. stack # <<>> <=> n # 0
    BY <1>0, EmptySeq
  <1>3. n # 0 => Top = stack[n]
    BY DEF Top
  <1> HIDE DEF n
  <1>4. Adjacent'
    <2> SUFFICES ASSUME NEW i \in 1..(Len(stack') - 1), stack'[i].kind \in Engine
                 PROVE  /\ stack'[i + 1].rt = stack'[i].rt
                        /\ \/ stack'[i + 1].kind \in Callbacks
                           \/ stack'[i].kind = "end" /\ stack'[i + 1].kind \in {"dispose", "free"}
      BY DEF Adjacent
    <2>1. CASE i \in 1..(n - 1)
      <3>1. i \in 1..n /\ i + 1 \in 1..n
        BY <2>1, <1>1
      <3>2. stack'[i] = stack[i] /\ stack'[i + 1] = stack[i + 1]
        BY <3>1, <1>1
      <3> QED BY <2>1, <3>2, <1>0 DEF Adjacent, n
    <2>2. CASE i = n
      <3>1. n # 0 /\ stack'[i] = stack[n] /\ stack'[i + 1] = f
        BY <2>2, <1>1
      <3> QED BY <3>1, <1>2, <1>3
    <2> QED BY <2>1, <2>2, <1>1
  <1>5. Alone'
    <2> SUFFICES ASSUME NEW i \in 1..Len(stack'), NEW j \in 1..Len(stack'), j < i,
                        stack'[i].kind \in {"end", "dispose", "free"}
                 PROVE  \/ stack'[j].rt # stack'[i].rt
                        \/ stack'[j].kind = "end" /\ stack'[i].kind # "end"
      BY DEF Alone
    <2>0. j \in 1..n
      BY <1>1
    <2>1. CASE i \in 1..n
      BY <2>0, <2>1, <1>0, <1>1 DEF Alone, n
    <2>2. CASE i = n + 1
      BY <2>0, <2>2, <1>1 DEF n
    <2> QED BY <2>1, <2>2, <1>1
  <1>6. ASSUME NEW r \in Runtimes
        PROVE  hostDepth'[r] = Cardinality(HostsOf(r)') /\ hostDepth'[r] \in Nat
    <2>1. IsFiniteSet(HostsOf(r)) /\ Cardinality(HostsOf(r)) \in Nat
      BY <1>0, HostsFinite
    <2>2. hostDepth[r] = Cardinality(HostsOf(r))
      BY <1>0 DEF DepthCounts
    <2>3. HostsOf(r) = {i \in 1..n : stack[i].kind \in Callbacks /\ stack[i].rt = r}
      BY DEF HostsOf, n
    <2>4. HostsOf(r)' = {i \in 1..(n + 1) : stack'[i].kind \in Callbacks /\ stack'[i].rt = r}
      BY <1>1 DEF HostsOf
    <2>5. 1..(n + 1) = (1..n) \cup {n + 1} /\ n + 1 \notin 1..n
      BY <1>1
    <2>6. CASE f.kind \in Callbacks /\ f.rt = r
      <3>1. HostsOf(r)' = HostsOf(r) \cup {n + 1} /\ n + 1 \notin HostsOf(r)
        BY <2>3, <2>4, <2>5, <2>6, <1>1
      <3>2. Cardinality(HostsOf(r)') = Cardinality(HostsOf(r)) + 1
        BY <3>1, <2>1, FS_AddElement
      <3>3. hostDepth'[r] = hostDepth[r] + 1
        BY <2>6, <1>0
      <3> QED BY <3>2, <3>3, <2>1, <2>2
    <2>7. CASE ~(f.kind \in Callbacks /\ f.rt = r)
      <3>1. HostsOf(r)' = HostsOf(r)
        BY <2>3, <2>4, <2>5, <2>7, <1>1
      <3>2. hostDepth'[r] = hostDepth[r]
        BY <2>7, <1>0
      <3> QED BY <3>1, <3>2, <2>1, <2>2
    <2> QED BY <2>6, <2>7
  <1>7. hostDepth' \in [Runtimes -> Nat]
    BY <1>0, <1>6
  <1> QED BY <1>1, <1>4, <1>5, <1>6, <1>7 DEF Nests, DepthCounts

(* ... leaving one ...                                                     *)
LEMMA NestsPop ==
    ASSUME Nests, stack # <<>>, stack' = Rest,
           hostDepth' = IF Top.kind \in Callbacks THEN [hostDepth EXCEPT ![Top.rt] = @ - 1]
                                                  ELSE hostDepth
    PROVE  Nests'
  <1> DEFINE n == Len(stack)
  <1>0. /\ stack \in Seq(Frame) /\ hostDepth \in [Runtimes -> Nat] /\ Adjacent /\ Alone
        /\ DepthCounts
    BY DEF Nests
  <1>1. /\ stack' \in Seq(Frame) /\ n \in Nat \ {0} /\ Len(stack') = n - 1
        /\ \A i \in 1..(n - 1) : stack'[i] = stack[i]
        /\ Top = stack[n]
    BY <1>0, PopFacts, TopFacts
  <1> HIDE DEF n
  <1>2. Adjacent'
    <2> SUFFICES ASSUME NEW i \in 1..(Len(stack') - 1), stack'[i].kind \in Engine
                 PROVE  /\ stack'[i + 1].rt = stack'[i].rt
                        /\ \/ stack'[i + 1].kind \in Callbacks
                           \/ stack'[i].kind = "end" /\ stack'[i + 1].kind \in {"dispose", "free"}
      BY DEF Adjacent
    <2>1. i \in 1..(n - 1) /\ i + 1 \in 1..(n - 1)
      BY <1>1
    <2>2. stack'[i] = stack[i] /\ stack'[i + 1] = stack[i + 1]
      BY <2>1, <1>1
    <2> QED BY <2>1, <2>2, <1>0 DEF Adjacent, n
  <1>3. Alone'
    <2>1. \A i \in 1..Len(stack') : i \in 1..n /\ stack'[i] = stack[i]
      BY <1>1
    <2> QED BY <2>1, <1>0 DEF Alone, n
  <1>4. ASSUME NEW r \in Runtimes
        PROVE  hostDepth'[r] = Cardinality(HostsOf(r)') /\ hostDepth'[r] \in Nat
    <2>1. IsFiniteSet(HostsOf(r)) /\ Cardinality(HostsOf(r)) \in Nat
      BY <1>0, HostsFinite
    <2>2. hostDepth[r] = Cardinality(HostsOf(r))
      BY <1>0 DEF DepthCounts
    <2>3. HostsOf(r) = {i \in 1..n : stack[i].kind \in Callbacks /\ stack[i].rt = r}
      BY DEF HostsOf, n
    <2>4. HostsOf(r)' = {i \in 1..(n - 1) : stack'[i].kind \in Callbacks /\ stack'[i].rt = r}
      BY <1>1 DEF HostsOf
    <2>5. 1..n = (1..(n - 1)) \cup {n} /\ n \notin 1..(n - 1)
      BY <1>1
    <2>6. CASE Top.kind \in Callbacks /\ Top.rt = r
      <3>1. HostsOf(r)' = HostsOf(r) \ {n} /\ n \in HostsOf(r)
        BY <2>3, <2>4, <2>5, <2>6, <1>1
      <3>2. Cardinality(HostsOf(r)') = Cardinality(HostsOf(r)) - 1 /\ IsFiniteSet(HostsOf(r)')
        BY <3>1, <2>1, FS_RemoveElement
      <3>3. hostDepth'[r] = hostDepth[r] - 1
        BY <2>6, <1>0
      <3>4. Cardinality(HostsOf(r)') \in Nat
        BY <3>2, FS_CardinalityType
      <3> QED BY <3>2, <3>3, <3>4, <2>1, <2>2
    <2>7. CASE ~(Top.kind \in Callbacks /\ Top.rt = r)
      <3>1. HostsOf(r)' = HostsOf(r)
        BY <2>3, <2>4, <2>5, <2>7, <1>1
      <3>2. hostDepth'[r] = hostDepth[r]
        BY <2>7, <1>0
      <3> QED BY <3>1, <3>2, <2>1, <2>2
    <2> QED BY <2>6, <2>7
  <1>5. hostDepth' \in [Runtimes -> Nat]
    BY <1>0, <1>4
  <1> QED BY <1>1, <1>2, <1>3, <1>4, <1>5 DEF Nests, DepthCounts

(* ... and going from the disposal of a context to its freeing.            *)
LEMMA NestsFree ==
    ASSUME Nests, stack # <<>>, Top.kind = "dispose", UNCHANGED hostDepth,
           stack' = Append(Rest, [Top EXCEPT !.kind = "free"])
    PROVE  Nests'
  <1> DEFINE n == Len(stack)
             f == [Top EXCEPT !.kind = "free"]
  <1>0. /\ stack \in Seq(Frame) /\ hostDepth \in [Runtimes -> Nat] /\ Adjacent /\ Alone
        /\ DepthCounts
    BY DEF Nests
  <1>1. Top = stack[n] /\ Top \in Frame
    BY <1>0, TopFacts
  <1>2. f \in Frame /\ f.kind = "free" /\ f.rt = Top.rt
    BY <1>1 DEF Frame, Engine
  <1> HIDE DEF f
  <1>3. /\ stack' \in Seq(Frame) /\ n \in Nat \ {0} /\ Len(stack') = n
        /\ \A i \in 1..(n - 1) : stack'[i] = stack[i]
        /\ stack'[n] = f
    BY <1>0, <1>2, RetopFacts DEF f
  <1> HIDE DEF n
  <1>4. \A i \in 1..n : /\ stack'[i].rt = stack[i].rt
                        /\ stack'[i].kind = IF i = n THEN "free" ELSE stack[i].kind
    <2> SUFFICES ASSUME NEW i \in 1..n
                 PROVE  /\ stack'[i].rt = stack[i].rt
                        /\ stack'[i].kind = IF i = n THEN "free" ELSE stack[i].kind
      OBVIOUS
    <2>1. CASE i = n
      BY <2>1, <1>1, <1>2, <1>3
    <2>2. CASE i # n
      BY <2>2, <1>3
    <2> QED BY <2>1, <2>2
  <1>5. stack[n].kind = "dispose"
    BY <1>1
  <1>6. Adjacent'
    <2> SUFFICES ASSUME NEW i \in 1..(n - 1), stack'[i].kind \in Engine
                 PROVE  /\ stack'[i + 1].rt = stack'[i].rt
                        /\ \/ stack'[i + 1].kind \in Callbacks
                           \/ stack'[i].kind = "end" /\ stack'[i + 1].kind \in {"dispose", "free"}
      BY <1>3 DEF Adjacent
    <2>1. i \in 1..n /\ i + 1 \in 1..n /\ i # n
      BY <1>3
    <2>2. /\ stack[i + 1].rt = stack[i].rt
          /\ \/ stack[i + 1].kind \in Callbacks
             \/ stack[i].kind = "end" /\ stack[i + 1].kind \in {"dispose", "free"}
      BY <2>1, <1>0, <1>4 DEF Adjacent, n
    <2> QED BY <2>1, <2>2, <1>4, <1>5 DEF Callbacks
  <1>7. Alone'
    <2> SUFFICES ASSUME NEW i \in 1..n, NEW j \in 1..n, j < i,
                        stack'[i].kind \in {"end", "dispose", "free"}
                 PROVE  \/ stack'[j].rt # stack'[i].rt
                        \/ stack'[j].kind = "end" /\ stack'[i].kind # "end"
      BY <1>3 DEF Alone
    <2>1. j # n /\ stack'[j].kind = stack[j].kind
      BY <1>3, <1>4
    <2>2. \/ stack[j].rt # stack[i].rt
          \/ stack[j].kind = "end" /\ stack[i].kind # "end"
      BY <1>0, <1>4, <1>5 DEF Alone, n
    <2> QED BY <2>1, <2>2, <1>4
  <1>8. ASSUME NEW r \in Runtimes PROVE HostsOf(r)' = HostsOf(r)
    <2>1. HostsOf(r) = {i \in 1..n : stack[i].kind \in Callbacks /\ stack[i].rt = r}
      BY DEF HostsOf, n
    <2>2. HostsOf(r)' = {i \in 1..n : stack'[i].kind \in Callbacks /\ stack'[i].rt = r}
      BY <1>3 DEF HostsOf
    <2>3. "free" \notin Callbacks /\ "dispose" \notin Callbacks
      BY DEF Callbacks
    <2> QED BY <2>1, <2>2, <2>3, <1>4, <1>5, ZenonT(60)
  <1> QED BY <1>0, <1>3, <1>6, <1>7, <1>8 DEF Nests, DepthCounts

(* Where host code runs, a runtime with hostDepth 0 has nothing on the     *)
(* stack: why the two dispose methods may rely on it.                      *)
LEMMA IdleMeansAbsent ==
    ASSUME Nests, HostRuns, NEW r \in Runtimes, hostDepth[r] = 0, NEW i \in 1..Len(stack)
    PROVE  stack[i].rt # r
  <1> SUFFICES ASSUME stack[i].rt = r PROVE FALSE
    OBVIOUS
  <1>0. /\ stack \in Seq(Frame) /\ Adjacent /\ DepthCounts /\ Len(stack) \in Nat
    BY LenProperties DEF Nests
  <1>1. stack # <<>>
    BY <1>0, EmptySeq
  <1>2. Top = stack[Len(stack)] /\ Top.kind \in Callbacks
    BY <1>1 DEF Top, HostRuns
  <1>3. HostsOf(r) = {}
    BY <1>0, HostsFinite, FS_EmptySet DEF DepthCounts
  <1>4. \A j \in 1..Len(stack) : stack[j].rt = r => stack[j].kind \in Engine /\ j # Len(stack)
    <2> SUFFICES ASSUME NEW j \in 1..Len(stack), stack[j].rt = r
                 PROVE  stack[j].kind \in Engine /\ j # Len(stack)
      OBVIOUS
    <2>1. stack[j].kind \notin Callbacks
      BY <1>3 DEF HostsOf
    <2>2. stack[j] \in Frame
      BY <1>0, ElementOfSeq
    <2>3. stack[j].kind \in Engine
      BY <2>1, <2>2 DEF Frame
    <2> QED BY <2>1, <2>3, <1>2
  <1>5. i \in 1..(Len(stack) - 1) /\ stack[i].kind \in Engine
    BY <1>0, <1>4
  <1>6. /\ i + 1 \in 1..Len(stack) /\ stack[i + 1].rt = r
        /\ \/ stack[i + 1].kind \in Callbacks
           \/ stack[i].kind = "end" /\ stack[i + 1].kind \in {"dispose", "free"}
    BY <1>0, <1>5 DEF Adjacent
  <1>7. stack[i + 1].kind \in Engine /\ i + 1 # Len(stack)
    BY <1>4, <1>6
  <1>8. stack[i + 1].kind \in {"dispose", "free"}
    BY <1>6, <1>7 DEF Engine, Callbacks
  <1>9. i + 1 \in 1..(Len(stack) - 1)
    BY <1>0, <1>6, <1>7
  <1>10. i + 1 + 1 \in 1..Len(stack) /\ stack[i + 1 + 1].rt = r
         /\ stack[i + 1 + 1].kind \in Callbacks
    <2> DEFINE k == i + 1
    <2>1. k \in 1..(Len(stack) - 1) /\ stack[k].kind \in Engine /\ stack[k].rt = r
          /\ stack[k].kind # "end"
      BY <1>6, <1>7, <1>8, <1>9
    <2> HIDE DEF k
    <2>2. k + 1 \in 1..Len(stack) /\ stack[k + 1].rt = r /\ stack[k + 1].kind \in Callbacks
      BY <2>1, <1>0 DEF Adjacent
    <2> QED BY <2>2 DEF k
  <1> QED BY <1>10, <1>3 DEF HostsOf

-----------------------------------------------------------------------------
(* What the steps have in common.                                          *)

(* Nothing happens to the stack.                                           *)
LEMMA NestsSame ==
    ASSUME Nests, UNCHANGED <<stack, hostDepth>>
    PROVE  Nests'
  BY DEF Nests, Adjacent, Alone, DepthCounts, HostsOf

(* A frame is entered, and the others still have what they need.           *)
LEMMA FramesPush ==
    ASSUME stack \in Seq(Frame), NEW f \in Frame, stack' = Append(stack, f),
           FrameOK(f, owner', native', stage', registered'),
           \A i \in 1..Len(stack) : FrameOK(stack[i], owner', native', stage', registered')
    PROVE  FramesOK'
  <1>1. /\ Len(stack) \in Nat /\ Len(stack') = Len(stack) + 1
        /\ \A i \in 1..Len(stack) : stack'[i] = stack[i]
        /\ stack'[Len(stack) + 1] = f
    BY PushFacts
  <1> SUFFICES ASSUME NEW i \in 1..Len(stack')
               PROVE  FrameOK(stack'[i], owner', native', stage', registered')
    BY DEF FramesOK, FrameOK
  <1>2. i \in 1..Len(stack) \/ i = Len(stack) + 1
    BY <1>1
  <1> QED BY <1>1, <1>2

(* The same where no other variable of the frames changes.                 *)
LEMMA FramesEnter ==
    ASSUME stack \in Seq(Frame), FramesOK, NEW f \in Frame, stack' = Append(stack, f),
           UNCHANGED <<owner, native, stage, registered>>,
           FrameOK(f, owner, native, stage, registered)
    PROVE  FramesOK'
  <1>1. /\ FrameOK(f, owner', native', stage', registered')
        /\ \A i \in 1..Len(stack) : FrameOK(stack[i], owner', native', stage', registered')
    BY DEF FramesOK
  <1> QED BY <1>1, FramesPush

(* What the invariant says of the innermost frame.                         *)
LEMMA TopOK ==
    ASSUME IInv, stack # <<>>
    PROVE  /\ Top \in Frame /\ Top.rt \in Runtimes /\ Top.kind \in Engine \cup Callbacks
           /\ Top.ctx \in Contexts \cup {None}
           /\ FrameOK(Top, owner, native, stage, registered)
           /\ Len(stack) \in Nat \ {0} /\ Len(stack) \in 1..Len(stack)
           /\ Top = stack[Len(stack)] /\ stack \in Seq(Frame)
  <1>1. stack \in Seq(Frame) /\ FramesOK
    BY DEF IInv, TypeOK
  <1>2. /\ Len(stack) \in Nat \ {0} /\ Len(stack) \in 1..Len(stack)
        /\ Top = stack[Len(stack)] /\ Top \in Frame
        /\ Top.rt \in Runtimes /\ Top.kind \in Engine \cup Callbacks
        /\ Top.ctx \in Contexts \cup {None}
    BY <1>1, TopFacts
  <1>3. FrameOK(Top, owner, native, stage, registered)
    BY <1>1, <1>2 DEF FramesOK
  <1> QED BY <1>1, <1>2, <1>3

(* The engine's context c may be freed: nothing refers to it.              *)
LEMMA Freed ==
    ASSUME IInv, NEW c \in Contexts, UNCHANGED <<owner, registered, jobs, stage>>,
           native' = native \/ native' = [native EXCEPT ![c] = "freed"],
           native' # native => /\ c \notin registered
                               /\ c \notin ToSet(jobs[owner[c]])
                               /\ \A i \in 1..Len(stack') : stack'[i].ctx # c,
           \A i \in 1..Len(stack') : i \in 1..Len(stack) /\ stack'[i] = stack[i]
    PROVE  /\ native' \in [Contexts -> {"none", "alive", "freed"}]
           /\ FramesOK' /\ RegisteredOK' /\ JobsOK'
  <1>0. TypeOK /\ FramesOK /\ RegisteredOK /\ JobsOK
    BY DEF IInv
  <1>1. native' \in [Contexts -> {"none", "alive", "freed"}]
    BY <1>0 DEF TypeOK
  <1>2. \A d \in Contexts : native'[d] # native[d] =>
            /\ d = c /\ c \notin registered /\ c \notin ToSet(jobs[owner[c]])
            /\ \A i \in 1..Len(stack') : stack'[i].ctx # c
    BY <1>0 DEF TypeOK
  <1>3. FramesOK'
    <2> SUFFICES ASSUME NEW i \in 1..Len(stack')
                 PROVE  FrameOK(stack'[i], owner', native', stage', registered')
      BY DEF FramesOK, FrameOK
    <2>1. FrameOK(stack[i], owner, native, stage, registered) /\ stack'[i] = stack[i]
      BY <1>0 DEF FramesOK
    <2> QED BY <2>1, <1>2 DEF FrameOK
  <1>4. RegisteredOK'
    BY <1>0, <1>2 DEF RegisteredOK, TypeOK
  <1>5. JobsOK'
    <2> SUFFICES ASSUME NEW r \in Runtimes
                 PROVE  /\ \A i \in 1..Len(jobs[r]) :
                               owner[jobs[r][i]] = r /\ native'[jobs[r][i]] = "alive"
                        /\ stage[r] \notin Used => jobs[r] = <<>>
      BY DEF JobsOK
    <2>1. /\ \A i \in 1..Len(jobs[r]) : owner[jobs[r][i]] = r /\ native[jobs[r][i]] = "alive"
          /\ stage[r] \notin Used => jobs[r] = <<>>
      BY <1>0 DEF JobsOK
    <2>2. jobs[r] \in Seq(Contexts)
      BY <1>0 DEF TypeOK
    <2>3. \A i \in 1..Len(jobs[r]) : jobs[r][i] \in Contexts /\ jobs[r][i] \in ToSet(jobs[r])
      BY <2>2, ElementOfSeq, ToSetIs
    <2>4. \A i \in 1..Len(jobs[r]) : native'[jobs[r][i]] = native[jobs[r][i]]
      BY <2>1, <2>3, <1>2
    <2> QED BY <2>1, <2>4
  <1> QED BY <1>1, <1>3, <1>4, <1>5

-----------------------------------------------------------------------------
(* The invariant holds at first.                                           *)

(* Nothing has been made yet.                                              *)
LEMMA InitIInv == Init => IInv
  <1> SUFFICES ASSUME Init PROVE IInv
    OBVIOUS
  <1> USE DEF Init
  <1>1. TypeOK
    <2>1. <<>> \in Seq(Contexts) /\ <<>> \in Seq(Frame)
      OBVIOUS
    <2> QED BY <2>1 DEF TypeOK, Stages
  <1>2. Nests
    <2>1. stack = <<>> /\ Len(stack) = 0 /\ stack \in Seq(Frame)
      OBVIOUS
    <2>2. Adjacent /\ Alone
      BY <2>1 DEF Adjacent, Alone
    <2>3. \A r : HostsOf(r) = {}
      BY <2>1 DEF HostsOf
    <2>4. DepthCounts
      BY <2>3, FS_EmptySet DEF DepthCounts
    <2> QED BY <2>1, <2>2, <2>4 DEF Nests
  <1>3. FramesOK
    BY DEF FramesOK
  <1>4. RegisteredOK /\ JobsOK /\ CallbacksOpen /\ NoLiveRuntimeWhenClosed
    BY DEF RegisteredOK, JobsOK, CallbacksOpen, Exists, NoLiveRuntimeWhenClosed
  <1>5. LiveCount
    <2>1. Live = {}
      BY DEF Live
    <2> QED BY <2>1, FS_EmptySet DEF LiveCount
  <1>6. EntriesMatchContexts
    <2>1. \A r \in Runtimes : entries[r] = <<>> /\ {c \in registered : owner[c] = r} = {}
      OBVIOUS
    <2> QED BY <2>1, EmptyList DEF EntriesMatchContexts
  <1> QED BY <1>1, <1>2, <1>3, <1>4, <1>5, <1>6 DEF IInv

-----------------------------------------------------------------------------
(* Making runtimes and contexts.                                           *)

(* One more runtime is live.                                               *)
LEMMA NewRuntimeStep == ASSUME IInv, NEW r \in Runtimes, NewRuntime(r) PROVE IInv'
  <1> USE DEF NewRuntime, contexts, guests
  <1>0. /\ TypeOK /\ Nests /\ FramesOK /\ RegisteredOK /\ JobsOK /\ CallbacksOpen /\ LiveCount
        /\ EntriesMatchContexts /\ NoLiveRuntimeWhenClosed
    BY DEF IInv
  <1>1. TypeOK'
    BY <1>0 DEF TypeOK, Stages
  <1>2. Nests'
    BY <1>0, NestsSame
  <1>3. stage' \in [Runtimes -> Stages] /\ \A q \in Runtimes : stage'[q] = IF q = r THEN "live" ELSE stage[q]
    BY <1>0, <1>1 DEF TypeOK
  <1>4. FramesOK'
    <2> SUFFICES ASSUME NEW i \in 1..Len(stack)
                 PROVE  FrameOK(stack[i], owner, native, stage', registered)
      BY DEF FramesOK, FrameOK
    <2>1. FrameOK(stack[i], owner, native, stage, registered) /\ stack[i] \in Frame
      BY <1>0, ElementOfSeq DEF FramesOK, TypeOK
    <2>2. stack[i].rt \in Runtimes
      BY <2>1 DEF Frame
    <2> QED BY <2>1, <2>2, <1>3 DEF FrameOK, Used
  <1>5. RegisteredOK'
    BY <1>0, <1>3 DEF RegisteredOK, TypeOK, Used
  <1>6. JobsOK'
    BY <1>0, <1>3 DEF JobsOK, Used
  <1>7. CallbacksOpen'
    BY <1>0, <1>3 DEF CallbacksOpen, Exists
  <1>8. LiveCount'
    <2>1. Live' = Live \cup {r} /\ r \notin Live
      BY <1>3 DEF Live
    <2>2. IsFiniteSet(Live) /\ runtimes = Cardinality(Live)
      BY <1>0 DEF LiveCount
    <2>3. IsFiniteSet(Live') /\ Cardinality(Live') = Cardinality(Live) + 1
      BY <2>1, <2>2, FS_AddElement
    <2> QED BY <2>2, <2>3 DEF LiveCount
  <1>9. EntriesMatchContexts' /\ NoLiveRuntimeWhenClosed'
    BY <1>0 DEF EntriesMatchContexts, NoLiveRuntimeWhenClosed
  <1> QED BY <1>1, <1>2, <1>4, <1>5, <1>6, <1>7, <1>8, <1>9 DEF IInv

(* A context that was not registered is, on both sides.                    *)
LEMMA NewContextStep == ASSUME IInv, NEW c \in Contexts, NewContext(c) PROVE IInv'
  <1> DEFINE r == owner[c]
  <1> USE DEF NewContext, hosts, guests
  <1>0. /\ TypeOK /\ Nests /\ FramesOK /\ RegisteredOK /\ JobsOK /\ CallbacksOpen /\ LiveCount
        /\ EntriesMatchContexts /\ NoLiveRuntimeWhenClosed
    BY DEF IInv
  <1>1. /\ r \in Runtimes /\ c \notin registered /\ entries[r] \in Seq(Contexts)
        /\ registered' = registered \cup {c} /\ registered' \subseteq Contexts
        /\ \A d \in Contexts : native'[d] = IF d = c THEN "alive" ELSE native[d]
        /\ native' \in [Contexts -> {"none", "alive", "freed"}]
        /\ \A q \in Runtimes : entries'[q] = IF q = r THEN <<c>> \o entries[q] ELSE entries[q]
    BY <1>0 DEF TypeOK, RegisteredOK
  <1>2. /\ <<c>> \o entries[r] \in Seq(Contexts)
        /\ IsInjective(<<c>> \o entries[r])
        /\ ToSet(<<c>> \o entries[r]) = ToSet(entries[r]) \cup {c}
    <2>1. c \notin ToSet(entries[r]) /\ IsInjective(entries[r])
      BY <1>0, <1>1 DEF EntriesMatchContexts
    <2> HIDE DEF r
    <2> QED BY <2>1, <1>1, ConsFacts
  <1>3. TypeOK'
    <2>1. entries' \in [Runtimes -> Seq(Contexts)]
      BY <1>0, <1>1, <1>2 DEF TypeOK
    <2> QED BY <1>0, <1>1, <2>1 DEF TypeOK
  <1>4. Nests'
    BY <1>0, NestsSame
  <1>5. FramesOK'
    <2> SUFFICES ASSUME NEW i \in 1..Len(stack)
                 PROVE  FrameOK(stack[i], owner, native', stage, registered')
      BY DEF FramesOK, FrameOK
    <2>1. FrameOK(stack[i], owner, native, stage, registered)
      BY <1>0 DEF FramesOK
    <2> QED BY <2>1, <1>1 DEF FrameOK
  <1>6. RegisteredOK'
    BY <1>0, <1>1 DEF RegisteredOK, TypeOK, Used
  <1>7. JobsOK'
    <2> SUFFICES ASSUME NEW q \in Runtimes
                 PROVE  /\ \A i \in 1..Len(jobs[q]) :
                               owner[jobs[q][i]] = q /\ native'[jobs[q][i]] = "alive"
                        /\ stage[q] \notin Used => jobs[q] = <<>>
      BY DEF JobsOK
    <2>1. \A i \in 1..Len(jobs[q]) : jobs[q][i] \in Contexts
      BY <1>0, ElementOfSeq DEF TypeOK
    <2> QED BY <2>1, <1>0, <1>1 DEF JobsOK
  <1>8. CallbacksOpen' /\ LiveCount' /\ NoLiveRuntimeWhenClosed'
    BY <1>0 DEF CallbacksOpen, Exists, LiveCount, Live, NoLiveRuntimeWhenClosed
  <1>9. EntriesMatchContexts'
    <2> SUFFICES ASSUME NEW q \in Runtimes
                 PROVE  /\ ToSet(entries'[q]) = {d \in registered' : owner[d] = q}
                        /\ IsInjective(entries'[q])
      BY DEF EntriesMatchContexts
    <2>1. /\ ToSet(entries[q]) = {d \in registered : owner[d] = q}
          /\ IsInjective(entries[q])
      BY <1>0 DEF EntriesMatchContexts
    <2>2. CASE q = r
      <3>1. {d \in registered' : owner[d] = q} = {d \in registered : owner[d] = q} \cup {c}
        BY <2>2, <1>1
      <3> QED BY <2>1, <2>2, <3>1, <1>1, <1>2
    <2>3. CASE q # r
      <3>1. {d \in registered' : owner[d] = q} = {d \in registered : owner[d] = q}
        BY <2>3, <1>1
      <3> QED BY <2>1, <2>3, <3>1, <1>1
    <2> QED BY <2>2, <2>3
  <1> QED BY <1>3, <1>4, <1>5, <1>6, <1>7, <1>8, <1>9 DEF IInv

-----------------------------------------------------------------------------
(* Operations and jobs.                                                    *)

(* The entry of the context comes to the front, the others stay.           *)
LEMMA OperateStep == ASSUME IInv, NEW c \in Contexts, Operate(c) PROVE IInv'
  <1> DEFINE r == owner[c]
             f == [kind |-> "op", rt |-> r, ctx |-> c]
  <1> USE DEF Operate, hosts, guests
  <1>0. /\ TypeOK /\ Nests /\ FramesOK /\ RegisteredOK /\ JobsOK /\ CallbacksOpen /\ LiveCount
        /\ EntriesMatchContexts /\ NoLiveRuntimeWhenClosed
    BY DEF IInv
  <1>1. /\ r \in Runtimes /\ c \in registered /\ entries[r] \in Seq(Contexts)
        /\ native[c] = "alive" /\ stage[r] \in Used
        /\ \A q \in Runtimes : entries'[q] = IF q = r THEN MoveToFront(c, entries[q]) ELSE entries[q]
        /\ stack \in Seq(Frame)
    BY <1>0 DEF TypeOK, RegisteredOK
  <1>2. f \in Frame /\ stack' = Append(stack, f)
    BY <1>1 DEF Push, Frame, Engine
  <1>3. /\ MoveToFront(c, entries[r]) \in Seq(Contexts)
        /\ IsInjective(MoveToFront(c, entries[r]))
        /\ ToSet(MoveToFront(c, entries[r])) = ToSet(entries[r])
    <2> DEFINE s == entries[r]
               t == RemoveFirst(s, c)
    <2>1. c \in ToSet(s) /\ IsInjective(s) /\ s \in Seq(Contexts)
      BY <1>0, <1>1 DEF EntriesMatchContexts
    <2> HIDE DEF s
    <2>2. t \in Seq(Contexts) /\ IsInjective(t) /\ ToSet(t) = ToSet(s) \ {c}
      BY <2>1, RemoveFirstFacts
    <2> HIDE DEF t
    <2>3. /\ <<c>> \o t \in Seq(Contexts) /\ IsInjective(<<c>> \o t)
          /\ ToSet(<<c>> \o t) = ToSet(t) \cup {c}
      BY <2>2, ConsFacts
    <2>4. MoveToFront(c, s) = <<c>> \o t
      BY <2>1 DEF MoveToFront, t
    <2> QED BY <2>1, <2>2, <2>3, <2>4 DEF s
  <1>4. Nests'
    <2>1. f.kind = "op" /\ "op" \notin Callbacks /\ f.kind \notin {"end", "dispose", "free"}
      BY DEF Callbacks
    <2>2. hostDepth' = IF f.kind \in Callbacks THEN [hostDepth EXCEPT ![f.rt] = @ + 1]
                                               ELSE hostDepth
      BY <2>1
    <2>3. ~(stack # <<>> /\ Top.kind \in Engine)
      BY DEF HostRuns, Engine, Callbacks
    <2> HIDE DEF f
    <2> QED BY <2>1, <2>2, <2>3, <1>0, <1>2, NestsPush
  <1>5. TypeOK'
    <2>1. entries' \in [Runtimes -> Seq(Contexts)]
      BY <1>0, <1>1, <1>3 DEF TypeOK
    <2>2. stack' \in Seq(Frame) /\ hostDepth' \in [Runtimes -> Nat]
      BY <1>4 DEF Nests
    <2> QED BY <1>0, <2>1, <2>2 DEF TypeOK
  <1>6. FramesOK'
    <2>1. FrameOK(f, owner, native, stage, registered)
      BY <1>1 DEF FrameOK
    <2> HIDE DEF f
    <2> QED BY <2>1, <1>0, <1>1, <1>2, FramesEnter
  <1>7. /\ RegisteredOK' /\ JobsOK' /\ CallbacksOpen' /\ LiveCount'
        /\ NoLiveRuntimeWhenClosed'
    BY <1>0 DEF RegisteredOK, JobsOK, CallbacksOpen, Exists, LiveCount, Live,
                NoLiveRuntimeWhenClosed
  <1>8. EntriesMatchContexts'
    <2> SUFFICES ASSUME NEW q \in Runtimes
                 PROVE  /\ ToSet(entries'[q]) = {d \in registered : owner[d] = q}
                        /\ IsInjective(entries'[q])
      BY DEF EntriesMatchContexts
    <2>1. /\ ToSet(entries[q]) = {d \in registered : owner[d] = q}
          /\ IsInjective(entries[q])
      BY <1>0 DEF EntriesMatchContexts
    <2>2. CASE q = r
      BY <2>1, <2>2, <1>1, <1>3
    <2>3. CASE q # r
      BY <2>1, <2>3, <1>1
    <2> QED BY <2>2, <2>3
  <1> QED BY <1>4, <1>5, <1>6, <1>7, <1>8 DEF IInv

(* The first job leaves the queue and runs in its context.                 *)
LEMMA JobStep == ASSUME IInv, NEW r \in Runtimes, executePendingJob(r) PROVE IInv'
  <1> DEFINE c == Head(jobs[r])
             f == [kind |-> "job", rt |-> r, ctx |-> c]
  <1> USE DEF executePendingJob, hosts, contexts
  <1>0. /\ TypeOK /\ Nests /\ FramesOK /\ RegisteredOK /\ JobsOK /\ CallbacksOpen /\ LiveCount
        /\ EntriesMatchContexts /\ NoLiveRuntimeWhenClosed
    BY DEF IInv
  <1>1. /\ jobs[r] \in Seq(Contexts) /\ jobs[r] # <<>> /\ stack \in Seq(Frame)
        /\ stage[r] = "live"
    BY <1>0 DEF TypeOK
  <1>2. /\ Len(jobs[r]) \in Nat \ {0} /\ c = jobs[r][1] /\ c \in Contexts
        /\ Tail(jobs[r]) \in Seq(Contexts) /\ Len(Tail(jobs[r])) = Len(jobs[r]) - 1
        /\ \A i \in 1..(Len(jobs[r]) - 1) : Tail(jobs[r])[i] = jobs[r][i + 1]
    BY <1>1, EmptySeq, HeadTailProperties
  <1>3. owner[c] = r /\ native[c] = "alive"
    BY <1>0, <1>2 DEF JobsOK
  <1>4. f \in Frame /\ stack' = Append(stack, f)
    BY <1>2 DEF Push, Frame, Engine
  <1>5. Nests'
    <2>1. f.kind = "job" /\ "job" \notin Callbacks /\ f.kind \notin {"end", "dispose", "free"}
      BY DEF Callbacks
    <2>2. hostDepth' = IF f.kind \in Callbacks THEN [hostDepth EXCEPT ![f.rt] = @ + 1]
                                               ELSE hostDepth
      BY <2>1
    <2>3. ~(stack # <<>> /\ Top.kind \in Engine)
      BY DEF HostRuns, Engine, Callbacks
    <2> HIDE DEF f
    <2> QED BY <2>1, <2>2, <2>3, <1>0, <1>4, NestsPush
  <1>6. \A q \in Runtimes : jobs'[q] = IF q = r THEN Tail(jobs[q]) ELSE jobs[q]
    BY <1>0 DEF TypeOK
  <1>7. TypeOK'
    <2>1. jobs' \in [Runtimes -> Seq(Contexts)]
      BY <1>0, <1>2, <1>6 DEF TypeOK
    <2>2. stack' \in Seq(Frame) /\ hostDepth' \in [Runtimes -> Nat]
      BY <1>5 DEF Nests
    <2> QED BY <1>0, <2>1, <2>2 DEF TypeOK
  <1>8. FramesOK'
    <2>1. FrameOK(f, owner, native, stage, registered)
      BY <1>1, <1>2, <1>3 DEF FrameOK, Used
    <2> HIDE DEF f
    <2> QED BY <2>1, <1>0, <1>1, <1>4, FramesEnter
  <1>9. JobsOK'
    <2> SUFFICES ASSUME NEW q \in Runtimes
                 PROVE  /\ \A i \in 1..Len(jobs'[q]) :
                               owner[jobs'[q][i]] = q /\ native[jobs'[q][i]] = "alive"
                        /\ stage[q] \notin Used => jobs'[q] = <<>>
      BY DEF JobsOK
    <2>1. /\ \A i \in 1..Len(jobs[q]) : owner[jobs[q][i]] = q /\ native[jobs[q][i]] = "alive"
          /\ stage[q] \notin Used => jobs[q] = <<>>
      BY <1>0 DEF JobsOK
    <2>2. CASE q = r
      <3>1. stage[q] \in Used
        BY <2>2, <1>1 DEF Used
      <3>2. ASSUME NEW i \in 1..Len(jobs'[q])
            PROVE  owner[jobs'[q][i]] = q /\ native[jobs'[q][i]] = "alive"
        <4>1. i \in 1..(Len(jobs[r]) - 1) /\ i + 1 \in 1..Len(jobs[r])
          <5>1. jobs'[q] = Tail(jobs[r])
            BY <2>2, <1>6
          <5>2. i \in 1..(Len(jobs[r]) - 1)
            BY <5>1, <1>2
          <5> QED BY <5>2, <1>2
        <4>2. jobs'[q][i] = jobs[q][i + 1]
          BY <2>2, <4>1, <1>2, <1>6
        <4> QED BY <2>1, <2>2, <4>1, <4>2
      <3> QED BY <3>1, <3>2
    <2>3. CASE q # r
      BY <2>1, <2>3, <1>6
    <2> QED BY <2>2, <2>3
  <1>10. /\ RegisteredOK' /\ CallbacksOpen' /\ LiveCount'
         /\ EntriesMatchContexts' /\ NoLiveRuntimeWhenClosed'
    BY <1>0 DEF RegisteredOK, CallbacksOpen, Exists, LiveCount, Live,
                EntriesMatchContexts, NoLiveRuntimeWhenClosed
  <1> QED BY <1>5, <1>7, <1>8, <1>9, <1>10 DEF IInv

(* A job is added for the context at work, which is alive.                 *)
LEMMA EnqueueJobStep == ASSUME IInv, EnqueueJob PROVE IInv'
  <1> DEFINE r == Top.rt
             c == Top.ctx
  <1> USE DEF EnqueueJob, hosts, contexts, Is
  <1>0. /\ TypeOK /\ Nests /\ FramesOK /\ RegisteredOK /\ JobsOK /\ CallbacksOpen /\ LiveCount
        /\ EntriesMatchContexts /\ NoLiveRuntimeWhenClosed
    BY DEF IInv
  <1>1. /\ r \in Runtimes /\ c \in Contexts /\ owner[c] = r /\ native[c] = "alive"
        /\ stage[r] \in Used
    BY TopOK DEF FrameOK
  <1>2. jobs[r] \in Seq(Contexts)
    BY <1>0, <1>1 DEF TypeOK
  <1>3. /\ Append(jobs[r], c) \in Seq(Contexts) /\ Len(jobs[r]) \in Nat
        /\ Len(Append(jobs[r], c)) = Len(jobs[r]) + 1
        /\ \A i \in 1..Len(jobs[r]) : Append(jobs[r], c)[i] = jobs[r][i]
        /\ Append(jobs[r], c)[Len(jobs[r]) + 1] = c
    <2> HIDE DEF r, c
    <2> QED BY <1>1, <1>2, AppendProperties, LenProperties
  <1>4. \A q \in Runtimes : jobs'[q] = IF q = r THEN Append(jobs[q], c) ELSE jobs[q]
    BY <1>0 DEF TypeOK
  <1> HIDE DEF r, c
  <1>5. TypeOK'
    <2>1. jobs' \in [Runtimes -> Seq(Contexts)]
      <3>1. jobs' = [q \in Runtimes |-> jobs'[q]]
        BY <1>0 DEF TypeOK
      <3> QED BY <1>0, <1>3, <1>4, <3>1 DEF TypeOK
    <2> QED BY <1>0, <2>1 DEF TypeOK
  <1>6. Nests'
    BY <1>0, NestsSame
  <1>7. JobsOK'
    <2> SUFFICES ASSUME NEW q \in Runtimes
                 PROVE  /\ \A i \in 1..Len(jobs'[q]) :
                               owner[jobs'[q][i]] = q /\ native[jobs'[q][i]] = "alive"
                        /\ stage[q] \notin Used => jobs'[q] = <<>>
      BY DEF JobsOK
    <2>1. /\ \A i \in 1..Len(jobs[q]) : owner[jobs[q][i]] = q /\ native[jobs[q][i]] = "alive"
          /\ stage[q] \notin Used => jobs[q] = <<>>
      BY <1>0 DEF JobsOK
    <2>2. CASE q = r
      <3>1. jobs'[q] = Append(jobs[r], c)
        BY <2>2, <1>4
      <3>2. ASSUME NEW i \in 1..Len(jobs'[q])
            PROVE  owner[jobs'[q][i]] = q /\ native[jobs'[q][i]] = "alive"
        <4>1. i \in 1..Len(jobs[r]) \/ i = Len(jobs[r]) + 1
          BY <3>1, <1>3
        <4> QED BY <2>1, <2>2, <3>1, <4>1, <1>1, <1>3
      <3> QED BY <2>2, <3>2, <1>1
    <2>3. CASE q # r
      BY <2>1, <2>3, <1>4
    <2> QED BY <2>2, <2>3
  <1>8. /\ FramesOK' /\ RegisteredOK' /\ CallbacksOpen' /\ LiveCount'
        /\ EntriesMatchContexts' /\ NoLiveRuntimeWhenClosed'
    BY <1>0 DEF FramesOK, FrameOK, RegisteredOK, CallbacksOpen, Exists, LiveCount, Live,
                EntriesMatchContexts, NoLiveRuntimeWhenClosed
  <1> QED BY <1>5, <1>6, <1>7, <1>8 DEF IInv

(* Objects are only counted.                                               *)
LEMMA NewObjectStep == ASSUME IInv, NewObject PROVE IInv'
  <1> USE DEF NewObject, hosts, contexts, Is
  <1>0. /\ TypeOK /\ Nests /\ FramesOK /\ RegisteredOK /\ JobsOK /\ CallbacksOpen /\ LiveCount
        /\ EntriesMatchContexts /\ NoLiveRuntimeWhenClosed
    BY DEF IInv
  <1>1. TypeOK'
    <2>1. objects' \in [Runtimes -> Nat]
      BY <1>0, TopOK, SMTT(30) DEF TypeOK
    <2> QED BY <1>0, <2>1 DEF TypeOK
  <1>2. Nests'
    BY <1>0, NestsSame
  <1>3. /\ FramesOK' /\ RegisteredOK' /\ JobsOK' /\ CallbacksOpen' /\ LiveCount'
        /\ EntriesMatchContexts' /\ NoLiveRuntimeWhenClosed'
    BY <1>0 DEF FramesOK, FrameOK, RegisteredOK, JobsOK, CallbacksOpen, Exists, LiveCount, Live,
                EntriesMatchContexts, NoLiveRuntimeWhenClosed
  <1> QED BY <1>1, <1>2, <1>3 DEF IInv

(* The engine leaves an operation, a job or a context that is disposed,    *)
(* and frees the context if nothing else refers to it.                     *)
LEMMA LeaveStep ==
    ASSUME IInv, stack # <<>>, Top.kind \in {"op", "job", "free"}, stack' = Rest,
           LetGo(Top.ctx, Rest),
           UNCHANGED <<hosts, owner, registered, entries, guests, hostDepth>>
    PROVE  IInv'
  <1> DEFINE c == Top.ctx
  <1> USE DEF hosts, guests
  <1>0. /\ TypeOK /\ Nests /\ FramesOK /\ RegisteredOK /\ JobsOK /\ CallbacksOpen /\ LiveCount
        /\ EntriesMatchContexts /\ NoLiveRuntimeWhenClosed
    BY DEF IInv
  <1>1. c \in Contexts
    BY TopOK DEF FrameOK
  <1>2. Nests'
    <2>1. Top.kind \notin Callbacks
      BY DEF Callbacks
    <2> QED BY <2>1, <1>0, NestsPop
  <1>3. \A i \in 1..Len(stack') : i \in 1..Len(stack) /\ stack'[i] = stack[i]
    <2>1. /\ Len(stack) \in Nat \ {0} /\ Len(stack') = Len(stack) - 1
          /\ \A i \in 1..(Len(stack) - 1) : stack'[i] = stack[i]
      BY <1>0, PopFacts DEF TypeOK
    <2> QED BY <2>1
  <1>4. /\ native' = native \/ native' = [native EXCEPT ![c] = "freed"]
        /\ native' # native => /\ c \notin registered
                               /\ c \notin ToSet(jobs[owner[c]])
                               /\ \A i \in 1..Len(stack') : stack'[i].ctx # c
    BY DEF LetGo, Referenced
  <1> HIDE DEF c
  <1>5. /\ native' \in [Contexts -> {"none", "alive", "freed"}]
        /\ FramesOK' /\ RegisteredOK' /\ JobsOK'
    BY <1>1, <1>3, <1>4, Freed
  <1>6. TypeOK'
    BY <1>0, <1>2, <1>5 DEF TypeOK, Nests
  <1>7. /\ CallbacksOpen' /\ LiveCount' /\ EntriesMatchContexts' /\ NoLiveRuntimeWhenClosed'
    BY <1>0 DEF CallbacksOpen, Exists, LiveCount, Live, EntriesMatchContexts,
                NoLiveRuntimeWhenClosed
  <1> QED BY <1>2, <1>5, <1>6, <1>7 DEF IInv

(* A collection frees a context that nothing refers to.                    *)
LEMMA CollectStep == ASSUME IInv, NEW c \in Contexts, Collect(c) PROVE IInv'
  <1> USE DEF Collect, hosts, guests
  <1>0. /\ TypeOK /\ Nests /\ FramesOK /\ RegisteredOK /\ JobsOK /\ CallbacksOpen /\ LiveCount
        /\ EntriesMatchContexts /\ NoLiveRuntimeWhenClosed
    BY DEF IInv
  <1>1. /\ native' \in [Contexts -> {"none", "alive", "freed"}]
        /\ FramesOK' /\ RegisteredOK' /\ JobsOK'
    <2>1. /\ c \notin registered
          /\ c \notin ToSet(jobs[owner[c]])
          /\ \A i \in 1..Len(stack') : stack'[i].ctx # c
      BY DEF Referenced
    <2>2. \A i \in 1..Len(stack') : i \in 1..Len(stack) /\ stack'[i] = stack[i]
      OBVIOUS
    <2>3. UNCHANGED <<owner, registered, jobs, stage>> /\ native' = [native EXCEPT ![c] = "freed"]
      OBVIOUS
    <2> QED BY <2>1, <2>2, <2>3, Freed
  <1>2. Nests'
    BY <1>0, NestsSame
  <1>3. TypeOK'
    BY <1>0, <1>1 DEF TypeOK
  <1>4. /\ CallbacksOpen' /\ LiveCount' /\ EntriesMatchContexts' /\ NoLiveRuntimeWhenClosed'
    BY <1>0 DEF CallbacksOpen, Exists, LiveCount, Live, EntriesMatchContexts,
                NoLiveRuntimeWhenClosed
  <1> QED BY <1>1, <1>2, <1>3, <1>4 DEF IInv

(* The engine calls the host on behalf of a registered context, ...        *)
LEMMA CallHostStep == ASSUME IInv, CallHost PROVE IInv'
  <1> DEFINE f == [kind |-> "host", rt |-> Top.rt, ctx |-> Top.ctx]
  <1> USE DEF CallHost, hosts, contexts, guests, Is
  <1>0. /\ TypeOK /\ Nests /\ FramesOK /\ RegisteredOK /\ JobsOK /\ CallbacksOpen /\ LiveCount
        /\ EntriesMatchContexts /\ NoLiveRuntimeWhenClosed
    BY DEF IInv
  <1>1. /\ Top.rt \in Runtimes /\ Top.ctx \in Contexts /\ stack \in Seq(Frame)
        /\ FrameOK(Top, owner, native, stage, registered)
    BY TopOK DEF FrameOK
  <1>2. f \in Frame /\ stack' = Append(stack, f)
    BY <1>1 DEF Push, Frame, Callbacks
  <1>3. /\ f.kind = "host" /\ f.rt = Top.rt /\ f.kind \in Callbacks
        /\ f.kind \notin {"end", "dispose", "free"}
    BY DEF Callbacks
  <1>4. FrameOK(f, owner, native, stage, registered)
    BY <1>1 DEF FrameOK
  <1> HIDE DEF f
  <1>5. Nests'
    <2>1. hostDepth' = IF f.kind \in Callbacks THEN [hostDepth EXCEPT ![f.rt] = @ + 1]
                                               ELSE hostDepth
      BY <1>3
    <2> QED BY <2>1, <1>0, <1>2, <1>3, NestsPush
  <1>6. FramesOK'
    BY <1>0, <1>1, <1>2, <1>4, FramesEnter
  <1>7. TypeOK'
    <2>1. stack' \in Seq(Frame) /\ hostDepth' \in [Runtimes -> Nat]
      BY <1>5 DEF Nests
    <2> QED BY <1>0, <2>1 DEF TypeOK
  <1>8. /\ RegisteredOK' /\ JobsOK' /\ CallbacksOpen' /\ LiveCount'
        /\ EntriesMatchContexts' /\ NoLiveRuntimeWhenClosed'
    BY <1>0 DEF RegisteredOK, JobsOK, CallbacksOpen, Exists, LiveCount, Live,
                EntriesMatchContexts, NoLiveRuntimeWhenClosed
  <1> QED BY <1>5, <1>6, <1>7, <1>8 DEF IInv

(* ... or a finalizer on behalf of none.                                   *)
LEMMA FinalizeStep == ASSUME IInv, Finalize PROVE IInv'
  <1> DEFINE f == [kind |-> "finalizer", rt |-> Top.rt, ctx |-> None]
  <1> USE DEF Finalize, hosts, contexts, Is
  <1>0. /\ TypeOK /\ Nests /\ FramesOK /\ RegisteredOK /\ JobsOK /\ CallbacksOpen /\ LiveCount
        /\ EntriesMatchContexts /\ NoLiveRuntimeWhenClosed
    BY DEF IInv
  <1>1. /\ Top.rt \in Runtimes /\ stack \in Seq(Frame)
        /\ FrameOK(Top, owner, native, stage, registered)
    BY TopOK
  <1>2. f \in Frame /\ stack' = Append(stack, f)
    BY <1>1 DEF Push, Frame, Callbacks
  <1>3. /\ f.kind = "finalizer" /\ f.rt = Top.rt /\ f.kind \in Callbacks
        /\ f.kind \notin {"end", "dispose", "free"}
    BY DEF Callbacks
  <1>4. FrameOK(f, owner, native, stage, registered)
    <2>1. Top.kind # "end" => stage[Top.rt] \in Used
      BY <1>1 DEF FrameOK, Engine
    <2> QED BY <2>1 DEF FrameOK
  <1> HIDE DEF f
  <1>5. Nests'
    <2>1. hostDepth' = IF f.kind \in Callbacks THEN [hostDepth EXCEPT ![f.rt] = @ + 1]
                                               ELSE hostDepth
      BY <1>3
    <2> QED BY <2>1, <1>0, <1>2, <1>3, NestsPush
  <1>6. FramesOK'
    BY <1>0, <1>1, <1>2, <1>4, FramesEnter
  <1>7. TypeOK'
    <2>1. stack' \in Seq(Frame) /\ hostDepth' \in [Runtimes -> Nat]
      BY <1>5 DEF Nests
    <2>2. objects' \in [Runtimes -> Nat]
      BY <1>0, <1>1, SMTT(30) DEF TypeOK
    <2> QED BY <1>0, <2>1, <2>2 DEF TypeOK
  <1>8. /\ RegisteredOK' /\ JobsOK' /\ CallbacksOpen' /\ LiveCount'
        /\ EntriesMatchContexts' /\ NoLiveRuntimeWhenClosed'
    BY <1>0 DEF RegisteredOK, JobsOK, CallbacksOpen, Exists, LiveCount, Live,
                EntriesMatchContexts, NoLiveRuntimeWhenClosed
  <1> QED BY <1>5, <1>6, <1>7, <1>8 DEF IInv

(* Host code returns to the engine.                                        *)
LEMMA HostReturnsStep == ASSUME IInv, HostReturns PROVE IInv'
  <1> USE DEF HostReturns, hosts, contexts, guests, Is
  <1>0. /\ TypeOK /\ Nests /\ FramesOK /\ RegisteredOK /\ JobsOK /\ CallbacksOpen /\ LiveCount
        /\ EntriesMatchContexts /\ NoLiveRuntimeWhenClosed
    BY DEF IInv
  <1>1. Nests'
    BY <1>0, NestsPop
  <1>2. FramesOK'
    <2>1. /\ Len(stack) \in Nat \ {0} /\ Len(stack') = Len(stack) - 1
          /\ \A i \in 1..(Len(stack) - 1) : stack'[i] = stack[i]
      BY <1>0, PopFacts DEF TypeOK
    <2>2. \A i \in 1..Len(stack') : i \in 1..Len(stack) /\ stack'[i] = stack[i]
      BY <2>1
    <2> QED BY <2>2, <1>0 DEF FramesOK, FrameOK
  <1>3. TypeOK'
    BY <1>0, <1>1 DEF TypeOK, Nests
  <1>4. /\ RegisteredOK' /\ JobsOK' /\ CallbacksOpen' /\ LiveCount'
        /\ EntriesMatchContexts' /\ NoLiveRuntimeWhenClosed'
    BY <1>0 DEF RegisteredOK, JobsOK, CallbacksOpen, Exists, LiveCount, Live,
                EntriesMatchContexts, NoLiveRuntimeWhenClosed
  <1> QED BY <1>1, <1>2, <1>3, <1>4 DEF IInv

-----------------------------------------------------------------------------
(* Disposing contexts.                                                     *)

(* Under the disposal of a runtime there is nothing of that runtime.       *)
LEMMA BelowEnd ==
    ASSUME IInv, stack # <<>>, Top.kind = "end"
    PROVE  \A j \in 1..(Len(stack) - 1) : j \in 1..Len(stack) /\ stack[j].rt # Top.rt
  <1>1. Len(stack) \in Nat \ {0} /\ Len(stack) \in 1..Len(stack) /\ Top = stack[Len(stack)]
    BY TopOK
  <1>2. Alone
    BY DEF IInv, Nests
  <1>3. \A j \in 1..(Len(stack) - 1) : j \in 1..Len(stack) /\ j < Len(stack)
    BY <1>1
  <1> QED BY <1>1, <1>2, <1>3 DEF Alone

(* A registered context is disposed where nothing of its runtime, or only  *)
(* the disposal of its runtime, is at work.                                *)
LEMMA DisposeStep ==
    ASSUME IInv, NEW c \in Contexts, c \in registered,
           stack' = Append(stack, [kind |-> "dispose", rt |-> owner[c], ctx |-> c]),
           stack # <<>> /\ Top.kind \in Engine => owner[c] = Top.rt /\ Top.kind = "end",
           \A j \in 1..Len(stack) : stack[j].rt # owner[c] \/ stack[j].kind = "end",
           UNCHANGED <<hosts, contexts, guests, hostDepth>>
    PROVE  IInv'
  <1> DEFINE f == [kind |-> "dispose", rt |-> owner[c], ctx |-> c]
  <1> USE DEF hosts, contexts, guests
  <1>0. /\ TypeOK /\ Nests /\ FramesOK /\ RegisteredOK /\ JobsOK /\ CallbacksOpen /\ LiveCount
        /\ EntriesMatchContexts /\ NoLiveRuntimeWhenClosed
    BY DEF IInv
  <1>1. /\ owner[c] \in Runtimes /\ native[c] = "alive" /\ stage[owner[c]] \in Used
        /\ stack \in Seq(Frame)
    BY <1>0 DEF TypeOK, RegisteredOK
  <1>2. f \in Frame /\ stack' = Append(stack, f)
    BY <1>1 DEF Frame, Engine
  <1>3. f.kind = "dispose" /\ f.rt = owner[c] /\ f.kind \notin Callbacks
    BY DEF Callbacks
  <1>4. FrameOK(f, owner, native, stage, registered)
    BY <1>1 DEF FrameOK
  <1> HIDE DEF f
  <1>5. Nests'
    <2>1. hostDepth' = IF f.kind \in Callbacks THEN [hostDepth EXCEPT ![f.rt] = @ + 1]
                                               ELSE hostDepth
      BY <1>3
    <2> QED BY <2>1, <1>0, <1>2, <1>3, NestsPush
  <1>6. FramesOK'
    BY <1>0, <1>1, <1>2, <1>4, FramesEnter
  <1>7. TypeOK'
    <2>1. stack' \in Seq(Frame) /\ hostDepth' \in [Runtimes -> Nat]
      BY <1>5 DEF Nests
    <2> QED BY <1>0, <2>1 DEF TypeOK
  <1>8. /\ RegisteredOK' /\ JobsOK' /\ CallbacksOpen' /\ LiveCount'
        /\ EntriesMatchContexts' /\ NoLiveRuntimeWhenClosed'
    BY <1>0 DEF RegisteredOK, JobsOK, CallbacksOpen, Exists, LiveCount, Live,
                EntriesMatchContexts, NoLiveRuntimeWhenClosed
  <1> QED BY <1>5, <1>6, <1>7, <1>8 DEF IInv

(* Host code disposes a context.                                           *)
LEMMA DisposeContextStep == ASSUME IInv, NEW c \in Contexts, DisposeContext(c) PROVE IInv'
  <1>1. /\ HostRuns /\ c \in registered /\ hostDepth[owner[c]] = 0
        /\ stack' = Append(stack, [kind |-> "dispose", rt |-> owner[c], ctx |-> c])
        /\ UNCHANGED <<hosts, contexts, guests, hostDepth>>
    BY DEF DisposeContext, MayDispose, Push
  <1>2. ~(stack # <<>> /\ Top.kind \in Engine)
    BY <1>1 DEF HostRuns, Engine, Callbacks
  <1>3. Nests /\ owner[c] \in Runtimes
    BY DEF IInv, TypeOK
  <1>4. \A j \in 1..Len(stack) : stack[j].rt # owner[c]
    BY <1>1, <1>3, IdleMeansAbsent
  <1> QED BY <1>1, <1>2, <1>4, DisposeStep

(* The disposal of a runtime disposes its contexts.                        *)
LEMMA DisposeNextContextStep ==
    ASSUME IInv, NEW c \in Contexts, DisposeNextContext(c) PROVE IInv'
  <1>1. /\ stack # <<>> /\ Top.kind = "end" /\ owner[c] = Top.rt /\ c \in registered
        /\ stack' = Append(stack, [kind |-> "dispose", rt |-> owner[c], ctx |-> c])
        /\ UNCHANGED <<hosts, contexts, guests, hostDepth>>
    BY DEF DisposeNextContext, MayDispose, Push, Is
  <1>2. Len(stack) \in Nat \ {0} /\ Top = stack[Len(stack)]
    BY <1>1, TopOK
  <1>3. \A j \in 1..Len(stack) : j = Len(stack) \/ j \in 1..(Len(stack) - 1)
    BY <1>2
  <1>4. \A j \in 1..Len(stack) : stack[j].rt # owner[c] \/ stack[j].kind = "end"
    BY <1>1, <1>2, <1>3, BelowEnd
  <1> QED BY <1>1, <1>4, DisposeStep

(* The context is forgotten on both sides; no host code runs for it.       *)
LEMMA FreeContextStep == ASSUME IInv, FreeContext PROVE IInv'
  <1> DEFINE c == Top.ctx
             r == Top.rt
             n == Len(stack)
             f == [Top EXCEPT !.kind = "free"]
  <1> USE DEF FreeContext, hosts, guests, Is
  <1>0. /\ TypeOK /\ Nests /\ FramesOK /\ RegisteredOK /\ JobsOK /\ CallbacksOpen /\ LiveCount
        /\ EntriesMatchContexts /\ NoLiveRuntimeWhenClosed
    BY DEF IInv
  <1>1. /\ stack # <<>> /\ Top.kind = "dispose" /\ Top = stack[n] /\ Top \in Frame
        /\ c \in Contexts /\ r \in Runtimes /\ owner[c] = r /\ native[c] = "alive"
        /\ stage[r] \in Used /\ n \in Nat \ {0} /\ n \in 1..n
    BY TopOK DEF FrameOK
  <1>2. f \in Frame /\ f.kind = "free" /\ f.rt = r /\ f.ctx = c
    BY <1>1 DEF Frame, Engine
  <1>3. Nests'
    BY <1>0, <1>1, NestsFree
  <1> HIDE DEF f
  <1>4. /\ stack' \in Seq(Frame) /\ Len(stack') = n
        /\ \A i \in 1..(n - 1) : stack'[i] = stack[i]
        /\ stack'[n] = f
    BY <1>0, <1>1, <1>2, RetopFacts DEF f, TypeOK
  <1>5. /\ entries[r] \in Seq(Contexts)
        /\ \A q \in Runtimes : entries'[q] = IF q = r THEN RemoveFirst(entries[q], c) ELSE entries[q]
    BY <1>0, <1>1 DEF TypeOK
  <1>6. registered' = registered \ {c}
    OBVIOUS
  <1>7. /\ RemoveFirst(entries[r], c) \in Seq(Contexts)
        /\ IsInjective(RemoveFirst(entries[r], c))
        /\ ToSet(RemoveFirst(entries[r], c)) = ToSet(entries[r]) \ {c}
    <2>1. IsInjective(entries[r])
      BY <1>0, <1>1 DEF EntriesMatchContexts
    <2> HIDE DEF r, c
    <2> QED BY <2>1, <1>5, RemoveFirstFacts
  <1>8. FramesOK'
    <2> SUFFICES ASSUME NEW i \in 1..n
                 PROVE  FrameOK(stack'[i], owner, native, stage, registered')
      BY <1>4 DEF FramesOK, FrameOK
    <2>1. CASE i = n
      BY <2>1, <1>1, <1>2, <1>4 DEF FrameOK
    <2>2. CASE i # n
      <3>1. i \in 1..(n - 1) /\ i < n /\ stack'[i] = stack[i]
        BY <2>2, <1>1, <1>4
      <3>2. FrameOK(stack[i], owner, native, stage, registered)
        BY <1>0 DEF FramesOK
      <3>3. stack[i].rt # r \/ stack[i].kind = "end"
        BY <3>1, <1>0, <1>1 DEF Nests, Alone
      <3>4. stack[i].kind = "host" => stack[i].ctx # c
        BY <3>2, <3>3, <1>1 DEF FrameOK
      <3> QED BY <3>1, <3>2, <3>4, <1>6 DEF FrameOK
    <2> QED BY <2>1, <2>2
  <1> HIDE DEF r, c, n
  <1>9. TypeOK'
    <2>1. entries' \in [Runtimes -> Seq(Contexts)]
      <3>1. entries' = [q \in Runtimes |-> entries'[q]]
        BY <1>0 DEF TypeOK
      <3>2. ASSUME NEW q \in Runtimes PROVE entries'[q] \in Seq(Contexts)
        <4>1. entries[q] \in Seq(Contexts)
          BY <1>0 DEF TypeOK
        <4> QED BY <4>1, <1>5, <1>7
      <3> QED BY <3>1, <3>2
    <2> QED BY <2>1, <1>0, <1>4, <1>6 DEF TypeOK
  <1>10. RegisteredOK' /\ JobsOK' /\ CallbacksOpen' /\ LiveCount' /\ NoLiveRuntimeWhenClosed'
    BY <1>0, <1>6 DEF RegisteredOK, JobsOK, CallbacksOpen, Exists, LiveCount, Live,
                      NoLiveRuntimeWhenClosed
  <1>11. EntriesMatchContexts'
    <2> SUFFICES ASSUME NEW q \in Runtimes
                 PROVE  /\ ToSet(entries'[q]) = {d \in registered' : owner[d] = q}
                        /\ IsInjective(entries'[q])
      BY DEF EntriesMatchContexts
    <2>1. /\ ToSet(entries[q]) = {d \in registered : owner[d] = q}
          /\ IsInjective(entries[q])
      BY <1>0 DEF EntriesMatchContexts
    <2>2. CASE q = r
      <3>1. {d \in registered' : owner[d] = q} = {d \in registered : owner[d] = q} \ {c}
        BY <1>6
      <3> QED BY <2>1, <2>2, <3>1, <1>5, <1>7
    <2>3. CASE q # r
      <3>1. {d \in registered' : owner[d] = q} = {d \in registered : owner[d] = q}
        BY <2>3, <1>1, <1>6
      <3> QED BY <2>1, <2>3, <3>1, <1>5
    <2> QED BY <2>2, <2>3
  <1> QED BY <1>3, <1>8, <1>9, <1>10, <1>11 DEF IInv

-----------------------------------------------------------------------------
(* Disposing runtimes and closing the library.                             *)

(* A runtime that nothing is at work in stops being live.                  *)
LEMMA DisposeRuntimeStep == ASSUME IInv, NEW r \in Runtimes, DisposeRuntime(r) PROVE IInv'
  <1> DEFINE f == [kind |-> "end", rt |-> r, ctx |-> None]
  <1> USE DEF DisposeRuntime, contexts, guests
  <1>0. /\ TypeOK /\ Nests /\ FramesOK /\ RegisteredOK /\ JobsOK /\ CallbacksOpen /\ LiveCount
        /\ EntriesMatchContexts /\ NoLiveRuntimeWhenClosed
    BY DEF IInv
  <1>1. f \in Frame /\ stack' = Append(stack, f) /\ stack \in Seq(Frame)
    BY <1>0 DEF Push, Frame, Engine, TypeOK
  <1>2. f.kind = "end" /\ f.rt = r /\ f.ctx = None /\ f.kind \notin Callbacks
    BY DEF Callbacks
  <1> HIDE DEF f
  <1>3. Nests'
    <2>1. \A j \in 1..Len(stack) : stack[j].rt # r
      BY <1>0, IdleMeansAbsent
    <2>2. ~(stack # <<>> /\ Top.kind \in Engine)
      BY DEF HostRuns, Engine, Callbacks
    <2>3. hostDepth' = IF f.kind \in Callbacks THEN [hostDepth EXCEPT ![f.rt] = @ + 1]
                                               ELSE hostDepth
      BY <1>2
    <2> QED BY <2>1, <2>2, <2>3, <1>0, <1>1, <1>2, NestsPush
  <1>4. \A q \in Runtimes : stage'[q] = IF q = r THEN "contexts" ELSE stage[q]
    BY <1>0 DEF TypeOK
  <1>5. FramesOK'
    <2>1. FrameOK(f, owner', native', stage', registered')
      BY <1>2 DEF FrameOK
    <2>2. ASSUME NEW i \in 1..Len(stack)
          PROVE  FrameOK(stack[i], owner', native', stage', registered')
      <3>1. FrameOK(stack[i], owner, native, stage, registered) /\ stack[i] \in Frame
        BY <1>0, ElementOfSeq DEF FramesOK, TypeOK
      <3>2. stack[i].rt \in Runtimes
        BY <3>1 DEF Frame
      <3> QED BY <3>1, <3>2, <1>4 DEF FrameOK, Used
    <2> QED BY <2>1, <2>2, <1>1, FramesPush
  <1>6. LiveCount' /\ runtimes' \in Nat
    <2>1. Live' = Live \ {r} /\ r \in Live
      BY <1>4 DEF Live
    <2>2. IsFiniteSet(Live) /\ runtimes = Cardinality(Live)
      BY <1>0 DEF LiveCount
    <2>3. IsFiniteSet(Live') /\ Cardinality(Live') = Cardinality(Live) - 1
      BY <2>1, <2>2, FS_RemoveElement
    <2>4. Cardinality(Live') \in Nat
      BY <2>3, FS_CardinalityType
    <2> QED BY <2>2, <2>3, <2>4 DEF LiveCount
  <1>7. TypeOK'
    <2>1. stack' \in Seq(Frame) /\ hostDepth' \in [Runtimes -> Nat]
      BY <1>3 DEF Nests
    <2>2. stage' \in [Runtimes -> Stages]
      BY <1>0 DEF TypeOK, Stages
    <2> QED BY <1>0, <1>6, <2>1, <2>2 DEF TypeOK
  <1>8. RegisteredOK' /\ JobsOK'
    BY <1>0, <1>4 DEF RegisteredOK, JobsOK, Used, TypeOK
  <1>9. CallbacksOpen'
    BY <1>0, <1>4 DEF CallbacksOpen, Exists
  <1>10. EntriesMatchContexts' /\ NoLiveRuntimeWhenClosed'
    BY <1>0, <1>4 DEF EntriesMatchContexts, NoLiveRuntimeWhenClosed
  <1> QED BY <1>3, <1>5, <1>6, <1>7, <1>8, <1>9, <1>10 DEF IInv

(* The contexts are gone, and the jobs with them.                          *)
LEMMA FreeRuntimeStep == ASSUME IInv, FreeRuntime PROVE IInv'
  <1> DEFINE r == Top.rt
  <1> USE DEF FreeRuntime, contexts, Is
  <1>0. /\ TypeOK /\ Nests /\ FramesOK /\ RegisteredOK /\ JobsOK /\ CallbacksOpen /\ LiveCount
        /\ EntriesMatchContexts /\ NoLiveRuntimeWhenClosed
    BY DEF IInv
  <1>1. /\ stack # <<>> /\ Top.kind = "end" /\ r \in Runtimes /\ stage[r] = "contexts"
        /\ Len(stack) \in Nat \ {0} /\ Top = stack[Len(stack)]
        /\ \A c \in registered : owner[c] # r
    BY TopOK
  <1>2. /\ \A q \in Runtimes : stage'[q] = IF q = r THEN "native" ELSE stage[q]
        /\ \A q \in Runtimes : jobs'[q] = IF q = r THEN <<>> ELSE jobs[q]
        /\ stage' \in [Runtimes -> Stages] /\ jobs' \in [Runtimes -> Seq(Contexts)]
    BY <1>0, <1>1 DEF TypeOK, Stages
  <1>3. \A i \in 1..Len(stack) : i = Len(stack) \/ stack[i].rt # r
    <2>1. \A i \in 1..Len(stack) : i = Len(stack) \/ i \in 1..(Len(stack) - 1)
      BY <1>1
    <2> QED BY <2>1, <1>1, BelowEnd
  <1> HIDE DEF r
  <1>4. TypeOK'
    BY <1>0, <1>2 DEF TypeOK
  <1>5. Nests'
    BY <1>0, NestsSame
  <1>6. FramesOK'
    <2> SUFFICES ASSUME NEW i \in 1..Len(stack)
                 PROVE  FrameOK(stack[i], owner, native, stage', registered)
      BY DEF FramesOK, FrameOK
    <2>1. FrameOK(stack[i], owner, native, stage, registered) /\ stack[i] \in Frame
      BY <1>0, ElementOfSeq DEF FramesOK, TypeOK
    <2>2. stack[i].rt \in Runtimes
      BY <2>1 DEF Frame
    <2>3. stack[i].rt # r \/ stack[i].kind = "end"
      BY <1>1, <1>3
    <2> QED BY <2>1, <2>2, <2>3, <1>2 DEF FrameOK
  <1>7. RegisteredOK'
    BY <1>0, <1>1, <1>2 DEF RegisteredOK, TypeOK
  <1>8. JobsOK'
    <2> SUFFICES ASSUME NEW q \in Runtimes
                 PROVE  /\ \A i \in 1..Len(jobs'[q]) :
                               owner[jobs'[q][i]] = q /\ native[jobs'[q][i]] = "alive"
                        /\ stage'[q] \notin Used => jobs'[q] = <<>>
      BY DEF JobsOK
    <2>1. CASE q = r
      BY <2>1, <1>2
    <2>2. CASE q # r
      BY <2>2, <1>0, <1>2 DEF JobsOK
    <2> QED BY <2>1, <2>2
  <1>9. CallbacksOpen'
    BY <1>0, <1>1, <1>2 DEF CallbacksOpen, Exists
  <1>10. LiveCount'
    <2>1. Live' = Live
      BY <1>1, <1>2 DEF Live
    <2> QED BY <2>1, <1>0 DEF LiveCount
  <1>11. EntriesMatchContexts' /\ NoLiveRuntimeWhenClosed'
    BY <1>0, <1>1, <1>2 DEF EntriesMatchContexts, NoLiveRuntimeWhenClosed
  <1> QED BY <1>4, <1>5, <1>6, <1>7, <1>8, <1>9, <1>10, <1>11 DEF IInv

(* What was left of the contexts is freed with the runtime.                *)
LEMMA RuntimeFreedStep == ASSUME IInv, RuntimeFreed PROVE IInv'
  <1> DEFINE r == Top.rt
  <1> USE DEF RuntimeFreed, guests, Is
  <1>0. /\ TypeOK /\ Nests /\ FramesOK /\ RegisteredOK /\ JobsOK /\ CallbacksOpen /\ LiveCount
        /\ EntriesMatchContexts /\ NoLiveRuntimeWhenClosed
    BY DEF IInv
  <1>1. /\ stack # <<>> /\ Top.kind = "end" /\ r \in Runtimes /\ stage[r] = "native"
        /\ Len(stack) \in Nat \ {0} /\ Top = stack[Len(stack)]
    BY TopOK
  <1>2. /\ \A q \in Runtimes : stage'[q] = IF q = r THEN "callbacks" ELSE stage[q]
        /\ \A q \in Runtimes : entries'[q] = IF q = r THEN <<>> ELSE entries[q]
        /\ \A c \in Contexts : owner[c] # r => native'[c] = native[c]
        /\ stage' \in [Runtimes -> Stages] /\ entries' \in [Runtimes -> Seq(Contexts)]
        /\ native' \in [Contexts -> {"none", "alive", "freed"}]
    BY <1>0, <1>1 DEF TypeOK, Stages
  <1>3. \A i \in 1..Len(stack) : i = Len(stack) \/ stack[i].rt # r
    <2>1. \A i \in 1..Len(stack) : i = Len(stack) \/ i \in 1..(Len(stack) - 1)
      BY <1>1
    <2> QED BY <2>1, <1>1, BelowEnd
  <1>4. (\A c \in registered : owner[c] # r) /\ jobs[r] = <<>>
    BY <1>0, <1>1 DEF RegisteredOK, JobsOK, Used
  <1> HIDE DEF r
  <1>5. TypeOK'
    BY <1>0, <1>2 DEF TypeOK
  <1>6. Nests'
    BY <1>0, NestsSame
  <1>7. FramesOK'
    <2> SUFFICES ASSUME NEW i \in 1..Len(stack)
                 PROVE  FrameOK(stack[i], owner, native', stage', registered)
      BY DEF FramesOK, FrameOK
    <2>1. FrameOK(stack[i], owner, native, stage, registered) /\ stack[i] \in Frame
      BY <1>0, ElementOfSeq DEF FramesOK, TypeOK
    <2>2. stack[i].rt \in Runtimes
      BY <2>1 DEF Frame
    <2>3. stack[i].rt # r \/ stack[i].kind = "end"
      BY <1>1, <1>3
    <2> QED BY <2>1, <2>2, <2>3, <1>2 DEF FrameOK
  <1>8. RegisteredOK'
    BY <1>0, <1>2, <1>4 DEF RegisteredOK, TypeOK
  <1>9. JobsOK'
    <2> SUFFICES ASSUME NEW q \in Runtimes
                 PROVE  /\ \A i \in 1..Len(jobs[q]) :
                               owner[jobs[q][i]] = q /\ native'[jobs[q][i]] = "alive"
                        /\ stage'[q] \notin Used => jobs[q] = <<>>
      BY DEF JobsOK
    <2>1. CASE q = r
      BY <2>1, <1>4
    <2>2. CASE q # r
      <3>1. \A i \in 1..Len(jobs[q]) : jobs[q][i] \in Contexts
        BY <1>0, ElementOfSeq DEF TypeOK
      <3> QED BY <2>2, <3>1, <1>0, <1>2 DEF JobsOK
    <2> QED BY <2>1, <2>2
  <1>10. CallbacksOpen'
    BY <1>0, <1>1, <1>2 DEF CallbacksOpen, Exists
  <1>11. LiveCount'
    <2>1. Live' = Live
      BY <1>1, <1>2 DEF Live
    <2> QED BY <2>1, <1>0 DEF LiveCount
  <1>12. NoLiveRuntimeWhenClosed'
    BY <1>0, <1>2 DEF NoLiveRuntimeWhenClosed
  <1>13. EntriesMatchContexts'
    <2> SUFFICES ASSUME NEW q \in Runtimes
                 PROVE  /\ ToSet(entries'[q]) = {d \in registered : owner[d] = q}
                        /\ IsInjective(entries'[q])
      BY DEF EntriesMatchContexts
    <2>1. CASE q = r
      <3>1. {d \in registered : owner[d] = q} = {} /\ entries'[q] = <<>>
        BY <2>1, <1>2, <1>4
      <3> QED BY <3>1, EmptyList
    <2>2. CASE q # r
      BY <2>2, <1>0, <1>2 DEF EntriesMatchContexts
    <2> QED BY <2>1, <2>2
  <1> QED BY <1>5, <1>6, <1>7, <1>8, <1>9, <1>10, <1>11, <1>12, <1>13 DEF IInv

(* The callbacks close when nothing of the runtime is left to call them.   *)
LEMMA CloseCallbacksStep == ASSUME IInv, CloseCallbacks PROVE IInv'
  <1> DEFINE r == Top.rt
  <1> USE DEF CloseCallbacks, contexts, guests, Is
  <1>0. /\ TypeOK /\ Nests /\ FramesOK /\ RegisteredOK /\ JobsOK /\ CallbacksOpen /\ LiveCount
        /\ EntriesMatchContexts /\ NoLiveRuntimeWhenClosed
    BY DEF IInv
  <1>1. /\ stack # <<>> /\ Top.kind = "end" /\ r \in Runtimes /\ stage[r] = "callbacks"
        /\ Len(stack) \in Nat \ {0}
    BY TopOK
  <1>2. /\ \A q \in Runtimes : stage'[q] = IF q = r THEN "done" ELSE stage[q]
        /\ stage' \in [Runtimes -> Stages] /\ callbacks' = callbacks \ {r}
    BY <1>0, <1>1 DEF TypeOK, Stages
  <1>3. /\ \A j \in 1..(Len(stack) - 1) : j \in 1..Len(stack) /\ stack[j].rt # r
        /\ Len(stack') = Len(stack) - 1
        /\ \A i \in 1..(Len(stack) - 1) : stack'[i] = stack[i]
    BY <1>0, <1>1, BelowEnd, PopFacts DEF TypeOK
  <1>4. Nests'
    <2>1. Top.kind \notin Callbacks
      BY <1>1 DEF Callbacks
    <2> QED BY <2>1, <1>0, <1>1, NestsPop
  <1> HIDE DEF r
  <1>5. TypeOK'
    BY <1>0, <1>2, <1>4 DEF TypeOK, Nests
  <1>6. FramesOK'
    <2> SUFFICES ASSUME NEW i \in 1..Len(stack')
                 PROVE  FrameOK(stack'[i], owner, native, stage', registered)
      BY DEF FramesOK, FrameOK
    <2>1. i \in 1..Len(stack) /\ stack'[i] = stack[i] /\ stack[i].rt # r
      BY <1>3
    <2>2. FrameOK(stack[i], owner, native, stage, registered) /\ stack[i] \in Frame
      BY <2>1, <1>0, ElementOfSeq DEF FramesOK, TypeOK
    <2>3. stack[i].rt \in Runtimes
      BY <2>2 DEF Frame
    <2> QED BY <2>1, <2>2, <2>3, <1>2 DEF FrameOK
  <1>7. RegisteredOK' /\ JobsOK'
    <2>1. RegisteredOK'
      BY <1>0, <1>1, <1>2 DEF RegisteredOK, TypeOK, Used
    <2>2. ASSUME NEW q \in Runtimes, stage'[q] \notin Used PROVE jobs[q] = <<>>
      BY <2>2, <1>0, <1>1, <1>2 DEF JobsOK, Used
    <2>3. JobsOK'
      BY <2>2, <1>0 DEF JobsOK
    <2> QED BY <2>1, <2>3
  <1>8. CallbacksOpen'
    BY <1>0, <1>2 DEF CallbacksOpen, Exists
  <1>9. LiveCount'
    <2>1. Live' = Live
      BY <1>1, <1>2 DEF Live
    <2> QED BY <2>1, <1>0 DEF LiveCount
  <1>10. EntriesMatchContexts' /\ NoLiveRuntimeWhenClosed'
    BY <1>0, <1>2 DEF EntriesMatchContexts, NoLiveRuntimeWhenClosed
  <1> QED BY <1>4, <1>5, <1>6, <1>7, <1>8, <1>9, <1>10 DEF IInv

(* The count of live runtimes is 0 only if there is none.                  *)
LEMMA CloseStep == ASSUME IInv, close PROVE IInv'
  <1> USE DEF close, contexts, guests
  <1>0. /\ TypeOK /\ Nests /\ FramesOK /\ RegisteredOK /\ JobsOK /\ CallbacksOpen /\ LiveCount
        /\ EntriesMatchContexts /\ NoLiveRuntimeWhenClosed
    BY DEF IInv
  <1>1. Live = {}
    BY <1>0, FS_EmptySet DEF LiveCount, MayClose
  <1>2. NoLiveRuntimeWhenClosed'
    BY <1>1 DEF NoLiveRuntimeWhenClosed, Live
  <1>3. TypeOK' /\ Nests'
    BY <1>0, NestsSame DEF TypeOK
  <1>4. /\ FramesOK' /\ RegisteredOK' /\ JobsOK' /\ CallbacksOpen' /\ LiveCount'
        /\ EntriesMatchContexts'
    BY <1>0 DEF FramesOK, FrameOK, RegisteredOK, JobsOK, CallbacksOpen, Exists, LiveCount, Live,
                EntriesMatchContexts
  <1> QED BY <1>2, <1>3, <1>4 DEF IInv

-----------------------------------------------------------------------------
(* The invariant and what follows from it.                                 *)

(* No step breaks the invariant.                                           *)
LEMMA NextIInv == IInv /\ [Next]_vars => IInv'
  <1> SUFFICES ASSUME IInv, [Next]_vars PROVE IInv'
    OBVIOUS
  <1>1. ASSUME NEW r \in Runtimes, NewRuntime(r) PROVE IInv'
    BY <1>1, NewRuntimeStep
  <1>2. ASSUME NEW r \in Runtimes, executePendingJob(r) PROVE IInv'
    BY <1>2, JobStep
  <1>3. ASSUME NEW r \in Runtimes, DisposeRuntime(r) PROVE IInv'
    BY <1>3, DisposeRuntimeStep
  <1>4. ASSUME NEW c \in Contexts, NewContext(c) PROVE IInv'
    BY <1>4, NewContextStep
  <1>5. ASSUME NEW c \in Contexts, Operate(c) PROVE IInv'
    BY <1>5, OperateStep
  <1>6. ASSUME NEW c \in Contexts, DisposeContext(c) PROVE IInv'
    BY <1>6, DisposeContextStep
  <1>7. ASSUME NEW c \in Contexts, Collect(c) PROVE IInv'
    BY <1>7, CollectStep
  <1>8. CASE EnqueueJob
    BY <1>8, EnqueueJobStep
  <1>9. CASE NewObject
    BY <1>9, NewObjectStep
  <1>10. CASE Returns
    BY <1>10, LeaveStep DEF Returns, Is
  <1>11. CASE CallHost
    BY <1>11, CallHostStep
  <1>12. CASE Finalize
    BY <1>12, FinalizeStep
  <1>13. CASE HostReturns
    BY <1>13, HostReturnsStep
  <1>14. CASE FreeContext
    BY <1>14, FreeContextStep
  <1>15. CASE ContextFreed
    BY <1>15, LeaveStep DEF ContextFreed, Is
  <1>16. CASE FreeRuntime
    BY <1>16, FreeRuntimeStep
  <1>17. CASE RuntimeFreed
    BY <1>17, RuntimeFreedStep
  <1>18. CASE CloseCallbacks
    BY <1>18, CloseCallbacksStep
  <1>19. ASSUME NEW c \in Contexts, DisposeNextContext(c) PROVE IInv'
    BY <1>19, DisposeNextContextStep
  <1>20. CASE close
    BY <1>20, CloseStep
  <1>21. CASE UNCHANGED vars
    <2> USE <1>21 DEF vars
    <2>1. TypeOK' /\ Nests'
      BY NestsSame DEF IInv, TypeOK
    <2>2. /\ FramesOK' /\ RegisteredOK' /\ JobsOK' /\ CallbacksOpen' /\ LiveCount'
          /\ EntriesMatchContexts' /\ NoLiveRuntimeWhenClosed'
      BY DEF IInv, FramesOK, FrameOK, RegisteredOK, JobsOK, CallbacksOpen, Exists, LiveCount,
             Live, EntriesMatchContexts, NoLiveRuntimeWhenClosed
    <2> QED BY <2>1, <2>2 DEF IInv
  <1> QED BY <1>1, <1>2, <1>3, <1>4, <1>5, <1>6, <1>7, <1>8, <1>9, <1>10, <1>11, <1>12,
             <1>13, <1>14, <1>15, <1>16, <1>17, <1>18, <1>19, <1>20, <1>21
          DEF Next, Ending

(* The inductive invariant holds in every behaviour of QuickJS, JSRuntime  *)
(* and JSContext, fair or not.                                             *)
THEOREM Invariance == Spec => []IInv
  BY InitIInv, NextIInv, PTL DEF Spec

(* Every variable has its type: in particular no count of runtimes or of   *)
(* host calls (QuickJS.runtimes, JSRuntime.hostDepth) falls below 0.       *)
THEOREM TypeCorrect == Spec => []TypeOK
  <1>1. IInv => TypeOK
    BY DEF IInv
  <1> QED BY <1>1, Invariance, PTL

(* The bridge's list has every context of JSRuntime.contexts once, and     *)
(* nothing else, in whatever order contexts are used and disposed.         *)
THEOREM Lists == Spec => []EntriesMatchContexts
  <1>1. IInv => EntriesMatchContexts
    BY DEF IInv
  <1> QED BY <1>1, Invariance, PTL

(* No runtime, context or callback is freed under a frame that is still to *)
(* return to it: dispose is refused while hostDepth is not 0, and a        *)
(* context that a job runs in outlives its JSContext.                      *)
THEOREM NothingFreedUnderFrames == Spec => []FramesAreAlive
  <1>1. ASSUME IInv PROVE FramesAreAlive
    <2>0. FramesOK /\ CallbacksOpen /\ TypeOK
      BY <1>1 DEF IInv
    <2> SUFFICES ASSUME NEW i \in 1..Len(stack)
                 PROVE  /\ stack[i].ctx # None => native[stack[i].ctx] = "alive"
                        /\ stack[i].kind # "end" => Exists(stack[i].rt)
                        /\ stack[i].kind \in Callbacks => stack[i].rt \in callbacks
      BY DEF FramesAreAlive
    <2>1. FrameOK(stack[i], owner, native, stage, registered) /\ stack[i] \in Frame
      BY <2>0, ElementOfSeq DEF FramesOK, TypeOK
    <2>2. stack[i].rt \in Runtimes
      BY <2>1 DEF Frame
    <2>3. stack[i].ctx # None => native[stack[i].ctx] = "alive"
      BY <2>1 DEF FrameOK
    <2>4. stack[i].kind # "end" => Exists(stack[i].rt)
      BY <2>1 DEF FrameOK, Exists, Used
    <2>5. stack[i].kind \in Callbacks => stack[i].rt \in callbacks
      BY <2>0, <2>2, <2>4 DEF CallbacksOpen, Callbacks
    <2> QED BY <2>3, <2>4, <2>5
  <1> QED BY <1>1, Invariance, PTL

(* The JSContext that a host function or callback was called for is not    *)
(* disposed before it returns.                                             *)
THEOREM HostCode == Spec => []HostCodeHasItsContext
  <1>1. IInv => HostCodeHasItsContext
    BY DEF IInv, FramesOK, FrameOK, HostCodeHasItsContext
  <1> QED BY <1>1, Invariance, PTL

(* Every pending job has its engine context, disposed or not, until        *)
(* JSRuntime.dispose drops the queue.                                      *)
THEOREM Jobs == Spec => []JobsKeepTheirContext
  <1>1. IInv => JobsKeepTheirContext
    BY DEF IInv, JobsOK, JobsKeepTheirContext
  <1> QED BY <1>1, Invariance, PTL

(* close succeeds only after dispose was called on every runtime, however  *)
(* many there were: the count that it reads is that of the live ones.      *)
THEOREM Closing == Spec => []NoLiveRuntimeWhenClosed
  <1>1. IInv => NoLiveRuntimeWhenClosed
    BY DEF IInv
  <1> QED BY <1>1, Invariance, PTL

=============================================================================
