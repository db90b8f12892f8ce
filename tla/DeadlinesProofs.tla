-------------------------- MODULE DeadlinesProofs --------------------------
(***************************************************************************)
(* Proofs, for any number of contexts, any timeouts and any bounds, of the *)
(* invariants of Deadlines.  The inductive invariant says of every scope   *)
(* on the stack what DeadlineIsTightest says of the innermost one, and     *)
(* accounts for the polls that are left to every context.                  *)
(***************************************************************************)
EXTENDS Deadlines, SequenceTheorems, TLAPS

(* The host program enters the engine through a scope.                     *)
BottomIsScope == stack # <<>> => IsScope(stack[1])

(* What a scope will restore is tightest for the frames below it.          *)
SavedIsTightest ==
    \A i \in 1..Len(stack) : IsScope(stack[i]) => Tightest(stack[i].saved, stack, i - 1)

(* Past the deadline, the polls let through and the polls left are two.    *)
PollBudget ==
    hot => /\ Expired(deadline)
           /\ \A c \in Contexts : counter[c] + passed[c] <= 2

(* An interrupt on its way to a promise has left both polls untouched.     *)
RejectBudget ==
    \/ mode = "throw" /\ exc = "uncatchable"
    \/ mode = "reject" /\ Top.held = "uncatchable"
    => \A c \in Contexts : counter[c] = 2

(* Wherever an interrupt is kept or thrown, a scope around it has expired. *)
InterruptIsBlamed ==
    /\ \A i \in 1..Len(stack) : stack[i].held \in Interrupts => SomeExpired(stack, i - 1)
    /\ mode = "throw" /\ exc \in Interrupts => SomeExpired(stack, Len(stack))

IInv ==
    /\ TypeOK
    /\ BottomIsScope
    /\ DeadlineIsTightest
    /\ SavedIsTightest
    /\ PollBudget
    /\ RejectBudget
    /\ CutBodyRejects
    /\ InterruptIsBlamed
    /\ NoRawInterruptOutside

-----------------------------------------------------------------------------
(* Stacks.                                                                 *)

(* s and t have the same scopes at the same depths.                        *)
SameScopes(s, t) ==
    /\ \A i \in 1..Len(s) : IsScope(s[i]) =>
          i <= Len(t) /\ IsScope(t[i]) /\ t[i].own = s[i].own /\ t[i].saved = s[i].saved
    /\ \A i \in 1..Len(t) : IsScope(t[i]) =>
          i <= Len(s) /\ IsScope(s[i]) /\ t[i].own = s[i].own /\ t[i].saved = s[i].saved

(* Popping a non-empty stack leaves the other frames as they are.          *)
LEMMA BelowProperties ==
    ASSUME NEW s \in Seq(Frame), s # <<>>
    PROVE  /\ Len(s) \in Nat \ {0}
           /\ SubSeq(s, 1, Len(s) - 1) \in Seq(Frame)
           /\ Len(SubSeq(s, 1, Len(s) - 1)) = Len(s) - 1
           /\ \A i \in 1..(Len(s) - 1) : SubSeq(s, 1, Len(s) - 1)[i] = s[i]
           /\ \A i \in 1..Len(s) : s[i] \in Frame
  <1>1. Len(s) \in Nat \ {0}
    BY EmptySeq, LenProperties
  <1>2. \A i \in 1..Len(s) : s[i] \in Frame
    BY ElementOfSeq
  <1>3. /\ SubSeq(s, 1, Len(s) - 1) \in Seq(Frame)
        /\ Len(SubSeq(s, 1, Len(s) - 1)) = Len(s) - 1
        /\ \A i \in 1..(Len(s) - 1) : SubSeq(s, 1, Len(s) - 1)[i] = s[i]
    <2> DEFINE n == Len(s) - 1
               t == SubSeq(s, 1, n)
    <2>1. n \in Int /\ 1 \in Int /\ \A i \in 1..n : s[i] \in Frame
      BY <1>1, <1>2
    <2>2. /\ t \in Seq(Frame)
          /\ Len(t) = IF 1 <= n THEN n - 1 + 1 ELSE 0
          /\ \A i \in 1..(n - 1 + 1) : t[i] = s[1 + i - 1]
      BY <2>1, SubSeqProperties
    <2>3. n \in Nat
      BY <1>1
    <2> HIDE DEF t, n
    <2>4. Len(t) = n
      BY <2>2, <2>3
    <2>5. ASSUME NEW i \in 1..n PROVE t[i] = s[i]
      <3>1. i \in 1..(n - 1 + 1) /\ 1 + i - 1 = i
        BY <2>3
      <3> QED BY <2>2, <3>1
    <2> QED BY <2>2, <2>4, <2>5 DEF t, n
  <1> QED BY <1>1, <1>2, <1>3

(* Pushing a frame.                                                        *)
LEMMA PushProperties ==
    ASSUME NEW s \in Seq(Frame), NEW f \in Frame
    PROVE  /\ Append(s, f) \in Seq(Frame)
           /\ Len(Append(s, f)) = Len(s) + 1
           /\ Len(s) \in Nat
           /\ \A i \in 1..Len(s) : Append(s, f)[i] = s[i]
           /\ Append(s, f)[Len(s) + 1] = f
  BY AppendProperties, LenProperties

(* Tightness and expiry depend on the scopes alone.                        *)
LEMMA SameScopesTight ==
    ASSUME NEW s \in Seq(Frame), NEW t \in Seq(Frame), SameScopes(s, t), NEW d,
           Tightest(d, s, Len(s))
    PROVE  Tightest(d, t, Len(t))
  BY LenProperties DEF SameScopes, Tightest

(* What the scopes saved depends on the scopes alone, too.                 *)
LEMMA SameScopesSaved ==
    ASSUME NEW s \in Seq(Frame), NEW t \in Seq(Frame), SameScopes(s, t),
           \A i \in 1..Len(s) : IsScope(s[i]) => Tightest(s[i].saved, s, i - 1)
    PROVE  \A i \in 1..Len(t) : IsScope(t[i]) => Tightest(t[i].saved, t, i - 1)
  <1> SUFFICES ASSUME NEW i \in 1..Len(t), IsScope(t[i])
               PROVE  Tightest(t[i].saved, t, i - 1)
    OBVIOUS
  <1>1. i \in 1..Len(s) /\ IsScope(s[i]) /\ t[i].saved = s[i].saved
    BY LenProperties DEF SameScopes
  <1>2. Tightest(t[i].saved, s, i - 1)
    BY <1>1
  <1>3. \A j \in 1..(i - 1) : j \in 1..Len(s) /\ j \in 1..Len(t)
    BY <1>1, LenProperties
  <1>4. \A j \in 1..(i - 1) : (IsScope(s[j]) <=> IsScope(t[j])) /\ (IsScope(t[j]) => s[j].own = t[j].own)
    BY <1>3 DEF SameScopes
  <1> QED BY <1>2, <1>4 DEF Tightest

(* So does whether some scope has expired.                                 *)
LEMMA SameScopesExpired ==
    ASSUME NEW s \in Seq(Frame), NEW t \in Seq(Frame), SameScopes(s, t),
           NEW n \in 0..Len(s), NEW m \in 0..Len(t), m >= n \/ m = Len(t),
           SomeExpired(s, n)
    PROVE  SomeExpired(t, m)
  <1>1. PICK i \in 1..n : IsScope(s[i]) /\ Expired(s[i].own)
    BY DEF SomeExpired
  <1>2. i \in 1..Len(s)
    BY LenProperties
  <1>3. i <= Len(t) /\ IsScope(t[i]) /\ t[i].own = s[i].own
    BY <1>1, <1>2 DEF SameScopes
  <1>4. i \in 1..m
    BY <1>3, LenProperties
  <1> QED BY <1>1, <1>3, <1>4 DEF SomeExpired

(* The moves of guest code: they leave the scopes alone, and a frame that  *)
(* comes to hold an interrupt does so under an expired scope.              *)
HeldFrom(s, t) ==
    \A i \in 1..Len(t) : t[i].held \in Interrupts =>
        \/ i \in 1..Len(s) /\ s[i].held \in Interrupts
        \/ i >= Len(s) /\ ~IsScope(t[i]) /\ SomeExpired(s, Len(s))

GuestMove(s, t) ==
    /\ t \in Seq(Frame) /\ t # <<>> /\ IsScope(t[1])
    /\ SameScopes(s, t)
    /\ HeldFrom(s, t)

(* Pushing a guest frame is a guest move.                                  *)
LEMMA PushMove ==
    ASSUME NEW s \in Seq(Frame), s # <<>>, IsScope(s[1]),
           NEW f \in Frame, ~IsScope(f), f.held \notin Interrupts
    PROVE  GuestMove(s, Append(s, f))
  <1> DEFINE t == Append(s, f)
  <1>1. /\ t \in Seq(Frame)
        /\ Len(t) = Len(s) + 1
        /\ \A i \in 1..Len(s) : t[i] = s[i]
        /\ t[Len(s) + 1] = f
    BY PushProperties
  <1>2. Len(s) \in Nat \ {0}
    BY BelowProperties
  <1> HIDE DEF t
  <1>3. t # <<>> /\ t[1] = s[1]
    BY <1>1, <1>2
  <1>4. \A i \in 1..Len(t) : i \in 1..Len(s) \/ i = Len(s) + 1
    BY <1>1, <1>2
  <1>5. SameScopes(s, t)
    BY <1>1, <1>2, <1>4 DEF SameScopes
  <1>6. HeldFrom(s, t)
    BY <1>1, <1>2, <1>4 DEF HeldFrom
  <1> QED BY <1>1, <1>3, <1>5, <1>6 DEF GuestMove, t

(* Popping a guest frame is a guest move.                                  *)
LEMMA PopMove ==
    ASSUME NEW s \in Seq(Frame), s # <<>>, IsScope(s[1]), ~IsScope(s[Len(s)])
    PROVE  GuestMove(s, SubSeq(s, 1, Len(s) - 1))
  <1> DEFINE t == SubSeq(s, 1, Len(s) - 1)
  <1>1. /\ Len(s) \in Nat \ {0}
        /\ t \in Seq(Frame)
        /\ Len(t) = Len(s) - 1
        /\ \A i \in 1..(Len(s) - 1) : t[i] = s[i]
    BY BelowProperties
  <1> HIDE DEF t
  <1>2. Len(s) # 1
    OBVIOUS
  <1>3. t # <<>> /\ t[1] = s[1]
    BY <1>1, <1>2
  <1>4. \A i \in 1..Len(s) : i \in 1..Len(t) \/ i = Len(s)
    BY <1>1
  <1>5. \A i \in 1..Len(t) : i \in 1..Len(s) /\ t[i] = s[i] /\ i <= Len(s)
    BY <1>1
  <1>6. SameScopes(s, t)
    BY <1>1, <1>4, <1>5, SMTT(30) DEF SameScopes
  <1>7. HeldFrom(s, t)
    BY <1>5 DEF HeldFrom
  <1> QED BY <1>1, <1>3, <1>6, <1>7 DEF GuestMove, t

(* Replacing the innermost guest frame is a guest move.                    *)
LEMMA RetopMove ==
    ASSUME NEW s \in Seq(Frame), s # <<>>, IsScope(s[1]), ~IsScope(s[Len(s)]),
           NEW g \in Frame, ~IsScope(g),
           g.held \in Interrupts => s[Len(s)].held \in Interrupts \/ SomeExpired(s, Len(s))
    PROVE  /\ GuestMove(s, Append(SubSeq(s, 1, Len(s) - 1), g))
           /\ Len(Append(SubSeq(s, 1, Len(s) - 1), g)) = Len(s)
           /\ Append(SubSeq(s, 1, Len(s) - 1), g)[Len(s)] = g
  <1> DEFINE b == SubSeq(s, 1, Len(s) - 1)
             t == Append(b, g)
  <1>1. /\ Len(s) \in Nat \ {0}
        /\ b \in Seq(Frame)
        /\ Len(b) = Len(s) - 1
        /\ \A i \in 1..(Len(s) - 1) : b[i] = s[i]
    BY BelowProperties
  <1> HIDE DEF b
  <1>2. /\ t \in Seq(Frame)
        /\ Len(t) = Len(b) + 1
        /\ \A i \in 1..Len(b) : t[i] = b[i]
        /\ t[Len(b) + 1] = g
    BY <1>1, PushProperties
  <1> HIDE DEF t
  <1>3. Len(s) # 1
    OBVIOUS
  <1>4. /\ Len(t) = Len(s)
        /\ t[Len(s)] = g
        /\ \A i \in 1..(Len(s) - 1) : t[i] = s[i]
    BY <1>1, <1>2
  <1>5. t # <<>> /\ t[1] = s[1]
    BY <1>1, <1>2, <1>3, <1>4
  <1>6. \A i \in 1..Len(s) : i \in 1..(Len(s) - 1) \/ i = Len(s)
    BY <1>1
  <1>7. SameScopes(s, t)
    BY <1>1, <1>4, <1>6, SMTT(30) DEF SameScopes
  <1>8. HeldFrom(s, t)
    BY <1>1, <1>4, <1>6 DEF HeldFrom
  <1> QED BY <1>2, <1>4, <1>5, <1>7, <1>8 DEF GuestMove, t, b

(* Moves compose when the second one adds no interrupt.                    *)
LEMMA RetopPushMove ==
    ASSUME NEW s \in Seq(Frame), s # <<>>, IsScope(s[1]), ~IsScope(s[Len(s)]),
           NEW g \in Frame, ~IsScope(g),
           g.held \in Interrupts => s[Len(s)].held \in Interrupts \/ SomeExpired(s, Len(s)),
           NEW f \in Frame, ~IsScope(f), f.held \notin Interrupts
    PROVE  GuestMove(s, Append(Append(SubSeq(s, 1, Len(s) - 1), g), f))
  <1> DEFINE m == Append(SubSeq(s, 1, Len(s) - 1), g)
             t == Append(m, f)
  <1>1. GuestMove(s, m) /\ Len(m) = Len(s)
    BY RetopMove
  <1>2. Len(s) \in Nat
    BY BelowProperties
  <1> HIDE DEF m
  <1>3. /\ t \in Seq(Frame)
        /\ Len(t) = Len(m) + 1
        /\ \A i \in 1..Len(m) : t[i] = m[i]
        /\ t[Len(m) + 1] = f
    BY <1>1, PushProperties DEF GuestMove
  <1> HIDE DEF t
  <1>4. t # <<>> /\ t[1] = m[1]
    <2>1. Len(m) \in Nat \ {0}
      BY <1>1, BelowProperties DEF GuestMove
    <2> QED BY <1>3, <2>1
  <1>5. \A i \in 1..Len(t) : i \in 1..Len(m) \/ i = Len(m) + 1
    BY <1>1, <1>2, <1>3
  <1>6. SameScopes(s, t)
    BY <1>1, <1>2, <1>3, <1>5 DEF SameScopes, GuestMove
  <1>7. HeldFrom(s, t)
    BY <1>1, <1>2, <1>3, <1>5 DEF HeldFrom, GuestMove
  <1> QED BY <1>1, <1>3, <1>4, <1>6, <1>7 DEF GuestMove, t, m

(* Leaving the stack alone is a guest move.                                *)
LEMMA StayMove ==
    ASSUME NEW s \in Seq(Frame), s # <<>>, IsScope(s[1])
    PROVE  GuestMove(s, s)
  BY LenProperties DEF GuestMove, SameScopes, HeldFrom

-----------------------------------------------------------------------------
(* Polls.                                                                  *)

(* A poll that passes moves one from the polls left to the polls made.     *)
LEMMA PollPassesBudget ==
    ASSUME TypeOK, PollBudget, NEW c \in Contexts, PollPasses(c),
           deadline' = deadline, now' = now
    PROVE  /\ counter' \in [Contexts -> 1..CounterInit]
           /\ passed' \in [Contexts -> Nat]
           /\ hot' \in BOOLEAN
           /\ PollBudget'
  <1>1. counter \in [Contexts -> 1..CounterInit] /\ passed \in [Contexts -> Nat]
        /\ hot \in BOOLEAN /\ CounterInit \in Nat /\ CounterInit > 2
    BY CounterAssumption DEF TypeOK
  <1>2. counter' \in [Contexts -> 1..CounterInit]
    BY <1>1 DEF PollPasses
  <1>3. passed' \in [Contexts -> Nat] /\ hot' \in BOOLEAN
    BY <1>1 DEF PollPasses
  <1>4. ASSUME hot'
        PROVE  Expired(deadline)' /\ \A x \in Contexts : counter'[x] + passed'[x] <= 2
    <2>1. hot /\ Expired(deadline) /\ \A x \in Contexts : counter[x] + passed[x] <= 2
      BY <1>4 DEF PollPasses, PollBudget
    <2>2. counter[c] > 1
      BY <2>1, <1>1 DEF PollPasses, Fires
    <2>3. counter' = [counter EXCEPT ![c] = counter[c] - 1] /\ passed' = [passed EXCEPT ![c] = passed[c] + 1]
      BY <2>1, <2>2 DEF PollPasses
    <2>4. \A x \in Contexts : counter'[x] + passed'[x] <= 2
      BY <2>1, <2>3, <1>1
    <2> QED BY <2>1, <2>4 DEF Expired
  <1> QED BY <1>2, <1>3, <1>4 DEF PollBudget

(* A poll that fires starts the budget again.                              *)
LEMMA PollFiresBudget ==
    ASSUME TypeOK, NEW c \in Contexts, PollFires(c), deadline' = deadline, now' = now
    PROVE  /\ counter' \in [Contexts -> 1..CounterInit]
           /\ passed' \in [Contexts -> Nat]
           /\ hot' \in BOOLEAN
           /\ PollBudget'
           /\ \A x \in Contexts : counter'[x] = 2
           /\ Expired(deadline)
  BY CounterAssumption DEF PollFires, Fires, qjs_bun_interrupt, PollBudget, Expired

(* The deadline that an interrupt finds expired is that of an open scope.  *)
LEMMA ExpiredIsBlamed ==
    ASSUME TypeOK, DeadlineIsTightest, Expired(deadline)
    PROVE  SomeExpired(stack, Len(stack))
  <1>1. deadline # Inf
    BY DEF Expired, Before, TypeOK, Inf
  <1> QED BY <1>1 DEF DeadlineIsTightest, Tightest, SomeExpired

-----------------------------------------------------------------------------
(* Steps of guest code and of the engine between scopes.                   *)

(* A guest move keeps what the invariant says of scopes and blame.         *)
LEMMA MoveKeepsInv ==
    ASSUME IInv, GuestMove(stack, stack'), TypeOK', PollBudget', RejectBudget', CutBodyRejects',
           deadline' = deadline, now' = now, result' = result,
           mode' = "throw" /\ exc' \in Interrupts => SomeExpired(stack, Len(stack))
    PROVE  IInv'
  <1>1. stack \in Seq(Frame) /\ stack' \in Seq(Frame) /\ SameScopes(stack, stack')
    BY DEF IInv, TypeOK, GuestMove
  <1>2. BottomIsScope'
    BY DEF GuestMove, BottomIsScope
  <1>3. DeadlineIsTightest'
    BY <1>1, SameScopesTight DEF IInv, DeadlineIsTightest
  <1>4. SavedIsTightest'
    BY <1>1, SameScopesSaved DEF IInv, SavedIsTightest
  <1>5. ASSUME NEW i \in 1..Len(stack'), stack'[i].held \in Interrupts
        PROVE  SomeExpired(stack', i - 1)
    <2>1. Len(stack) \in Nat /\ Len(stack') \in Nat
      BY <1>1, LenProperties
    <2>2. CASE i \in 1..Len(stack) /\ stack[i].held \in Interrupts
      <3>1. SomeExpired(stack, i - 1)
        BY <2>2 DEF IInv, InterruptIsBlamed
      <3>2. i - 1 \in 0..Len(stack) /\ i - 1 \in 0..Len(stack') /\ i - 1 >= i - 1
        BY <2>1, <2>2
      <3> QED BY <3>1, <3>2, <1>1, SameScopesExpired
    <2>3. CASE i >= Len(stack) /\ ~IsScope(stack'[i]) /\ SomeExpired(stack, Len(stack))
      <3>1. SomeExpired(stack', Len(stack'))
        <4>1. Len(stack) \in 0..Len(stack) /\ Len(stack') \in 0..Len(stack')
          BY <2>1
        <4> QED BY <4>1, <2>3, <1>1, SameScopesExpired
      <3>2. PICK j \in 1..Len(stack') : IsScope(stack'[j]) /\ Expired(stack'[j].own)
        BY <3>1 DEF SomeExpired
      <3>3. j <= Len(stack)
        BY <3>2, <1>1 DEF SameScopes
      <3>4. j \in 1..(i - 1)
        BY <3>2, <3>3, <2>1, <2>3
      <3> QED BY <3>2, <3>4 DEF SomeExpired
    <2> QED BY <1>5, <2>2, <2>3 DEF GuestMove, HeldFrom
  <1>6. ASSUME mode' = "throw", exc' \in Interrupts
        PROVE  SomeExpired(stack', Len(stack'))
    <2>1. Len(stack) \in 0..Len(stack) /\ Len(stack') \in 0..Len(stack')
      BY <1>1, LenProperties
    <2> QED BY <1>1, <1>6, <2>1, SameScopesExpired
  <1>7. InterruptIsBlamed'
    BY <1>5, <1>6 DEF InterruptIsBlamed, SomeExpired, Expired
  <1>8. NoRawInterruptOutside'
    BY DEF IInv, NoRawInterruptOutside
  <1> QED BY <1>2, <1>3, <1>4, <1>7, <1>8 DEF IInv

(* There is a scope under every guest frame.                               *)
LEMMA TopFacts ==
    ASSUME IInv, TopKind # "program"
    PROVE  /\ stack \in Seq(Frame) /\ stack # <<>> /\ IsScope(stack[1])
           /\ Top \in Frame /\ Top.kind = TopKind /\ Top.ctx \in Contexts
           /\ Top.held \in Exceptions /\ Len(stack) \in Nat \ {0}
  <1>1. stack \in Seq(Frame) /\ stack # <<>> /\ TopKind = Top.kind
    BY DEF IInv, TypeOK, TopKind
  <1>2. IsScope(stack[1])
    BY <1>1 DEF IInv, BottomIsScope
  <1>3. Top \in Frame /\ Len(stack) \in Nat \ {0}
    BY <1>1, BelowProperties DEF Top
  <1>4. Top.ctx \in Contexts /\ Top.held \in Exceptions
    BY <1>3 DEF Frame
  <1> QED BY <1>1, <1>2, <1>3, <1>4

(* Frames of guest code are no scopes and hold nothing.                    *)
LEMMA GuestFrameType ==
    ASSUME NEW k \in {"js", "async", "iterate", "host", "reaction"}, NEW c \in Contexts
    PROVE  /\ GuestFrame(k, c) \in Frame /\ ~IsScope(GuestFrame(k, c))
           /\ GuestFrame(k, c).held \notin Interrupts
           /\ GuestFrame(k, c).kind = k
  BY DEF GuestFrame, Frame, IsScope, ScopeKinds, Interrupts, Kinds, BodyKinds, Exceptions, Time

(* The frame that takes the place of the innermost one.                    *)
LEMMA RetopType ==
    ASSUME IInv, TopKind # "program", NEW k \in Kinds, NEW e \in Exceptions
    PROVE  /\ [Top EXCEPT !.kind = k] \in Frame
           /\ [Top EXCEPT !.kind = k].kind = k
           /\ [Top EXCEPT !.kind = k].held = Top.held
           /\ [Top EXCEPT !.held = e] \in Frame
           /\ [Top EXCEPT !.held = e].kind = Top.kind
           /\ [Top EXCEPT !.held = e].held = e
           /\ [Top EXCEPT !.kind = k, !.held = e] \in Frame
           /\ [Top EXCEPT !.kind = k, !.held = e].kind = k
           /\ [Top EXCEPT !.kind = k, !.held = e].held = e
  <1>1. Top \in Frame
    BY TopFacts
  <1> QED BY <1>1 DEF Frame

(* A call that its poll lets through.                                      *)
LEMMA CallPassesStep ==
    ASSUME IInv, NEW k \in {"js", "async", "iterate", "host"}, CallPasses(k)
    PROVE  IInv'
  <1>1. TopKind \in Callers /\ mode = "run" /\ TopKind # "program"
    BY DEF CallPasses, Runs, Callers, BodyKinds
  <1>2. /\ stack \in Seq(Frame) /\ stack # <<>> /\ IsScope(stack[1])
        /\ Top \in Frame /\ Top.kind = TopKind /\ Top.ctx \in Contexts
        /\ GuestFrame(k, Top.ctx) \in Frame /\ ~IsScope(GuestFrame(k, Top.ctx))
        /\ GuestFrame(k, Top.ctx).held \notin Interrupts /\ GuestFrame(k, Top.ctx).kind = k
    BY <1>1, TopFacts, GuestFrameType
  <1>3. /\ counter' \in [Contexts -> 1..CounterInit] /\ passed' \in [Contexts -> Nat]
        /\ hot' \in BOOLEAN /\ PollBudget'
    BY <1>2, PollPassesBudget DEF CallPasses, IInv
  <1>4. GuestMove(stack, stack')
    <2>1. CASE Top.kind = "reaction"
      <3>1. [Top EXCEPT !.kind = "settle"] \in Frame /\ [Top EXCEPT !.kind = "settle"].kind = "settle"
            /\ [Top EXCEPT !.kind = "settle"].held = Top.held
        BY <1>1, RetopType DEF Kinds, Exceptions
      <3>2. ~IsScope([Top EXCEPT !.kind = "settle"]) /\ ~IsScope(stack[Len(stack)])
        BY <2>1, <3>1 DEF IsScope, ScopeKinds, Top
      <3> QED BY <1>2, <2>1, <3>1, <3>2, RetopPushMove DEF CallPasses, Calling, Below, Top
    <2>2. CASE Top.kind # "reaction"
      BY <1>2, <2>2, PushMove DEF CallPasses, Calling
    <2> QED BY <2>1, <2>2
  <1>5. stack' # <<>> /\ TopKind' = k
    <2>1. Calling \in Seq(Frame)
      <3>1. [Top EXCEPT !.kind = "settle"] \in Frame
        BY <1>1, RetopType DEF Kinds, Exceptions
      <3> QED BY <1>2, <3>1, BelowProperties, PushProperties DEF Calling, Below
    <2>2. stack' = Append(Calling, GuestFrame(k, Top.ctx))
      BY DEF CallPasses
    <2>3. /\ Len(stack') = Len(Calling) + 1 /\ Len(Calling) \in Nat
          /\ stack'[Len(Calling) + 1] = GuestFrame(k, Top.ctx)
      BY <1>2, <2>1, <2>2, PushProperties
    <2>4. stack'[Len(stack')].kind = k
      BY <1>2, <2>3
    <2> QED BY <1>4, <2>4 DEF TopKind, Top, GuestMove
  <1>6. TypeOK'
    BY <1>1, <1>3, <1>4, <1>5 DEF CallPasses, IInv, TypeOK, GuestMove, Modes
  <1>7. RejectBudget'
    BY DEF RejectBudget, CallPasses
  <1>8. CutBodyRejects' /\ ~(mode' = "throw")
    BY DEF CutBodyRejects, IInv, CallPasses
  <1> QED BY <1>3, <1>4, <1>6, <1>7, <1>8, MoveKeepsInv DEF CallPasses

(* Guest moves without a poll, with a poll that passes and with one that   *)
(* fires.                                                                  *)
LEMMA QuietStep ==
    ASSUME IInv, GuestMove(stack, stack'),
           UNCHANGED <<now, deadline, counter, result, history>>,
           mode' \in Modes, exc' \in Exceptions,
           mode' \in {"reject", "resolve"} => TopKind' \in {"async", "reaction", "settle"},
           mode' # "resume", RejectBudget',
           mode' = "throw" /\ exc' \in Interrupts => SomeExpired(stack, Len(stack))
    PROVE  IInv'
  <1>1. TypeOK'
    BY DEF IInv, TypeOK, GuestMove, history
  <1>2. PollBudget'
    BY DEF IInv, PollBudget, Expired, history
  <1>3. CutBodyRejects'
    BY DEF IInv, CutBodyRejects, history
  <1> QED BY <1>1, <1>2, <1>3, MoveKeepsInv

(* A guest move with a poll that passes.                                   *)
LEMMA PassesStep ==
    ASSUME IInv, GuestMove(stack, stack'), NEW c \in Contexts, PollPasses(c),
           UNCHANGED <<now, deadline, result, unsettled>>, mode' = "run", exc' \in Exceptions
    PROVE  IInv'
  <1>1. /\ counter' \in [Contexts -> 1..CounterInit] /\ passed' \in [Contexts -> Nat]
        /\ hot' \in BOOLEAN /\ PollBudget'
    BY PollPassesBudget DEF IInv
  <1>2. TypeOK'
    BY <1>1 DEF IInv, TypeOK, GuestMove, Modes
  <1>3. CutBodyRejects' /\ RejectBudget'
    BY DEF IInv, CutBodyRejects, RejectBudget
  <1> QED BY <1>1, <1>2, <1>3, MoveKeepsInv

(* A guest move with a poll that fires.                                    *)
LEMMA FiresStep ==
    ASSUME IInv, GuestMove(stack, stack'), NEW c \in Contexts, PollFires(c),
           UNCHANGED <<now, deadline, result>>,
           mode' \in {"run", "throw", "reject"}, exc' \in Exceptions,
           mode' = "reject" => TopKind' \in {"async", "reaction", "settle"},
           unsettled' \subseteq Kinds \X Interrupts, CutBodyRejects'
    PROVE  IInv'
  <1>1. /\ counter' \in [Contexts -> 1..CounterInit] /\ passed' \in [Contexts -> Nat]
        /\ hot' \in BOOLEAN /\ PollBudget'
        /\ \A x \in Contexts : counter'[x] = 2
        /\ Expired(deadline)
    BY PollFiresBudget DEF IInv
  <1>2. TypeOK'
    BY <1>1 DEF IInv, TypeOK, GuestMove, Modes
  <1>3. RejectBudget'
    BY <1>1 DEF RejectBudget
  <1>4. SomeExpired(stack, Len(stack))
    BY <1>1, ExpiredIsBlamed DEF IInv
  <1> QED BY <1>1, <1>2, <1>3, <1>4, MoveKeepsInv

(* A call that its poll interrupts.                                        *)
LEMMA CallFiresStep == ASSUME IInv, CallFires PROVE IInv'
  <1>1. TopKind \in Callers /\ TopKind # "program"
    BY DEF CallFires, Runs, Callers, BodyKinds
  <1>2. /\ stack \in Seq(Frame) /\ stack # <<>> /\ IsScope(stack[1]) /\ Top.ctx \in Contexts
    BY <1>1, TopFacts
  <1>3. GuestMove(stack, stack')
    <2>1. CASE Top.kind = "reaction"
      <3>1. [Top EXCEPT !.kind = "settle"] \in Frame /\ [Top EXCEPT !.kind = "settle"].kind = "settle"
            /\ [Top EXCEPT !.kind = "settle"].held = Top.held
        BY <1>1, RetopType DEF Kinds, Exceptions
      <3>2. ~IsScope([Top EXCEPT !.kind = "settle"]) /\ ~IsScope(stack[Len(stack)])
        BY <2>1, <3>1 DEF IsScope, ScopeKinds, Top
      <3> QED BY <1>2, <2>1, <3>1, <3>2, RetopMove DEF CallFires, Calling, Below, Top
    <2>2. CASE Top.kind # "reaction"
      BY <1>2, <2>2, StayMove DEF CallFires, Calling
    <2> QED BY <2>1, <2>2
  <1>4. /\ mode' = "throw" /\ exc' = "uncatchable" /\ UNCHANGED <<now, deadline, result, unsettled>>
        /\ PollFires(Top.ctx)
    BY DEF CallFires
  <1>5. unsettled' \subseteq Kinds \X Interrupts /\ CutBodyRejects'
    BY <1>4 DEF IInv, TypeOK, CutBodyRejects
  <1> QED BY <1>2, <1>3, <1>4, <1>5, FiresStep DEF Exceptions

(* Loop back-edges.                                                        *)
LEMMA LoopStep == ASSUME IInv, LoopPasses \/ LoopFires PROVE IInv'
  <1>1. TopKind \in BodyKinds /\ TopKind # "program" /\ mode = "run"
    BY DEF LoopPasses, LoopFires, Runs, BodyKinds
  <1>2. stack' = stack /\ stack \in Seq(Frame) /\ stack # <<>> /\ IsScope(stack[1]) /\ Top.ctx \in Contexts
    BY <1>1, TopFacts DEF LoopPasses, LoopFires
  <1>3. GuestMove(stack, stack')
    BY <1>2, StayMove
  <1>4. CASE LoopPasses
    <2>1. PollPasses(Top.ctx) /\ UNCHANGED <<now, deadline, result, unsettled>> /\ mode' = "run"
          /\ exc' \in Exceptions
      BY <1>1, <1>4 DEF LoopPasses, IInv, TypeOK
    <2> QED BY <1>2, <1>3, <2>1, PassesStep
  <1>5. CASE LoopFires
    <2>1. PollFires(Top.ctx) /\ UNCHANGED <<now, deadline, result, unsettled>> /\ mode' = "throw"
          /\ exc' \in Exceptions
      BY <1>5 DEF LoopFires, Exceptions
    <2>2. unsettled' \subseteq Kinds \X Interrupts /\ CutBodyRejects'
      BY <2>1 DEF IInv, TypeOK, CutBodyRejects
    <2> QED BY <1>2, <1>3, <2>1, <2>2, FiresStep
  <1> QED BY <1>4, <1>5

(* An async body starts or resumes.                                        *)
LEMMA ResumeStep == ASSUME IInv, ResumePasses \/ ResumeFires PROVE IInv'
  <1>1. TopKind = "async" /\ TopKind # "program"
    BY DEF ResumePasses, ResumeFires, IInv, TypeOK
  <1>2. stack' = stack /\ stack \in Seq(Frame) /\ stack # <<>> /\ IsScope(stack[1]) /\ Top.ctx \in Contexts
    BY <1>1, TopFacts DEF ResumePasses, ResumeFires
  <1>3. GuestMove(stack, stack')
    BY <1>2, StayMove
  <1>4. CASE ResumePasses
    <2>1. PollPasses(Top.ctx) /\ UNCHANGED <<now, deadline, result, unsettled>> /\ mode' = "run"
          /\ exc' \in Exceptions
      BY <1>4 DEF ResumePasses, IInv, TypeOK
    <2> QED BY <1>2, <1>3, <2>1, PassesStep
  <1>5. CASE ResumeFires
    <2>1. PollFires(Top.ctx) /\ UNCHANGED <<now, deadline, result, unsettled>> /\ mode' = "throw"
          /\ exc' \in Exceptions
      BY <1>5 DEF ResumeFires, Exceptions
    <2>2. unsettled' \subseteq Kinds \X Interrupts /\ CutBodyRejects'
      BY <2>1 DEF IInv, TypeOK, CutBodyRejects
    <2> QED BY <1>2, <1>3, <2>1, <2>2, FiresStep
  <1> QED BY <1>4, <1>5

(* The frames that guest moves pop, and steps that leave the stack alone.  *)
LEMMA PopGuest ==
    ASSUME IInv, TopKind \notin ScopeKinds \cup {"program"}, stack' = Below
    PROVE  GuestMove(stack, stack')
  <1>1. stack \in Seq(Frame) /\ stack # <<>> /\ IsScope(stack[1]) /\ Top.kind = TopKind
    BY TopFacts
  <1>2. ~IsScope(stack[Len(stack)])
    BY <1>1 DEF IsScope, Top
  <1> QED BY <1>1, <1>2, PopMove DEF Below

(* An interrupt kept by the innermost frame has a scope to blame.          *)
LEMMA HeldIsBlamed ==
    ASSUME IInv, TopKind # "program", Top.held \in Interrupts
    PROVE  SomeExpired(stack, Len(stack))
  <1>1. Len(stack) \in Nat \ {0}
    BY TopFacts
  <1>2. SomeExpired(stack, Len(stack) - 1)
    BY <1>1 DEF IInv, InterruptIsBlamed, Top
  <1>3. PICK i \in 1..(Len(stack) - 1) : IsScope(stack[i]) /\ Expired(stack[i].own)
    BY <1>2 DEF SomeExpired
  <1>4. i \in 1..Len(stack)
    BY <1>1
  <1> QED BY <1>3, <1>4 DEF SomeExpired

(* Steps that pop a guest frame without a poll.                            *)
LEMMA PopStep ==
    ASSUME IInv, Return \/ Unwind \/ HostReturn \/ HostThrow \/ DropReaction \/ CloseDone
    PROVE  IInv'
  <1>1. TopKind \in {"js", "iterate", "host", "settle", "closing"} /\ stack' = Below
        /\ UNCHANGED <<now, deadline, counter, result, history>>
    BY DEF Return, Unwind, HostReturn, HostThrow, DropReaction, CloseDone, Runs, Unwinds
  <1>2. TopKind # "program" /\ GuestMove(stack, stack')
    BY <1>1, PopGuest DEF ScopeKinds
  <1>3. Top.held \in Exceptions /\ exc \in Exceptions /\ mode \in Modes
    BY <1>2, TopFacts DEF IInv, TypeOK
  <1>4. mode' \in {"run", "throw"} /\ exc' \in Exceptions
    BY <1>3 DEF Return, Unwind, HostReturn, HostThrow, DropReaction, CloseDone, Runs, Unwinds,
                Exceptions, Thrown
  <1>5. ASSUME mode' = "throw", exc' \in Interrupts
        PROVE  SomeExpired(stack, Len(stack)) /\ (exc' = "uncatchable" => \A c \in Contexts : counter'[c] = 2)
    <2>1. CASE Unwind
      <3>1. mode = "throw" /\ exc' = exc /\ counter' = counter
        BY <2>1 DEF Unwind, Unwinds
      <3> QED BY <1>5, <3>1 DEF IInv, InterruptIsBlamed, RejectBudget
    <2>2. CASE HostThrow
      <3>1. Top.held \in Interrupts /\ exc' # "uncatchable"
        BY <1>5, <2>2 DEF HostThrow, Thrown, Interrupts
      <3> QED BY <3>1, <1>2, HeldIsBlamed
    <2>3. CASE CloseDone
      <3>1. Top.held \in Interrupts /\ exc' # "uncatchable"
        BY <1>5, <2>3 DEF CloseDone, Thrown, Interrupts
      <3> QED BY <3>1, <1>2, HeldIsBlamed
    <2>4. CASE Return \/ HostReturn \/ DropReaction
      BY <1>5, <2>4 DEF Return, HostReturn, DropReaction, Runs
    <2> QED BY <2>1, <2>2, <2>3, <2>4
  <1>6. RejectBudget'
    BY <1>4, <1>5 DEF RejectBudget, Interrupts
  <1> QED BY <1>1, <1>2, <1>4, <1>5, <1>6, QuietStep DEF Modes

(* Steps that leave the stack and the counters alone.                      *)
LEMMA StayStep ==
    ASSUME IInv, Throw \/ Catch \/ CompleteBody \/ CompleteReaction \/ DumpThrow
    PROVE  IInv'
  <1>1. TopKind # "program" /\ stack' = stack
        /\ UNCHANGED <<now, deadline, counter, result, history>>
    BY DEF Throw, Catch, CompleteBody, CompleteReaction, DumpThrow, Runs, Unwinds, BodyKinds
  <1>2. GuestMove(stack, stack')
    BY <1>1, TopFacts, StayMove
  <1>3. mode' \in {"run", "throw", "resolve"} /\ exc' \in Exceptions
        /\ ~(mode' = "throw" /\ exc' \in Interrupts)
    BY DEF Throw, Catch, CompleteBody, CompleteReaction, DumpThrow, IInv, TypeOK, Exceptions, Interrupts
  <1>4. mode' = "resolve" => TopKind' \in {"async", "reaction", "settle"}
    BY <1>1 DEF Throw, Catch, CompleteBody, CompleteReaction, DumpThrow, Runs, TopKind, Top
  <1>5. RejectBudget'
    BY <1>3 DEF RejectBudget, Interrupts
  <1> QED BY <1>1, <1>2, <1>3, <1>4, <1>5, QuietStep DEF Modes

(* A promise job starts.                                                   *)
LEMMA StartReactionStep == ASSUME IInv, StartReaction PROVE IInv'
  <1>1. TopKind = "job" /\ TopKind # "program" /\ mode = "run"
        /\ stack' = Append(stack, GuestFrame("reaction", Top.ctx))
        /\ UNCHANGED <<now, deadline, counter, mode, exc, result, history>>
    BY DEF StartReaction, Runs
  <1>2. GuestMove(stack, stack')
    BY <1>1, TopFacts, GuestFrameType, PushMove
  <1>3. RejectBudget'
    BY <1>1 DEF RejectBudget
  <1>4. exc' \in Exceptions /\ mode' = "run"
    BY <1>1 DEF IInv, TypeOK
  <1> QED BY <1>1, <1>2, <1>3, <1>4, QuietStep DEF Modes

(* An exception is taken, to be passed to a reject function.               *)
LEMMA TakeExceptionStep == ASSUME IInv, TakeException PROVE IInv'
  <1>1. TopKind \in {"async", "reaction", "settle"} /\ TopKind # "program" /\ mode = "throw"
        /\ stack' = Append(Below, [Top EXCEPT !.held = exc]) /\ mode' = "reject" /\ exc' = "none"
        /\ UNCHANGED <<now, deadline, counter, result, history>>
    BY DEF TakeException, Unwinds
  <1>2. stack \in Seq(Frame) /\ stack # <<>> /\ IsScope(stack[1]) /\ Top.kind = TopKind
        /\ exc \in Exceptions
    BY <1>1, TopFacts DEF IInv, TypeOK
  <1> DEFINE g == [Top EXCEPT !.held = exc]
  <1>3. g \in Frame /\ g.kind = Top.kind /\ g.held = exc
    BY <1>1, <1>2, RetopType DEF Kinds
  <1> HIDE DEF g
  <1>4. ~IsScope(g) /\ ~IsScope(stack[Len(stack)])
    BY <1>1, <1>2, <1>3 DEF IsScope, ScopeKinds, Top
  <1>5. g.held \in Interrupts => SomeExpired(stack, Len(stack))
    BY <1>1, <1>3 DEF IInv, InterruptIsBlamed
  <1>6. GuestMove(stack, Append(Below, g)) /\ Len(Append(Below, g)) = Len(stack)
        /\ Append(Below, g)[Len(stack)] = g
    BY <1>2, <1>3, <1>4, <1>5, RetopMove DEF Below
  <1>7. stack' = Append(Below, g)
    BY <1>1 DEF g
  <1>8. stack' # <<>> /\ Top' = g
    BY <1>6, <1>7 DEF Top, GuestMove
  <1>9. TopKind' \in {"async", "reaction", "settle"}
    BY <1>1, <1>2, <1>3, <1>8 DEF TopKind
  <1>10. RejectBudget'
    BY <1>1, <1>3, <1>8 DEF RejectBudget, IInv
  <1> QED BY <1>1, <1>6, <1>7, <1>9, <1>10, QuietStep DEF Modes, Exceptions

(* An iterator is closed while an exception is on its way.                 *)
LEMMA CloseStep == ASSUME IInv, ClosePasses \/ CloseFires PROVE IInv'
  <1>1. TopKind = "iterate" /\ TopKind # "program" /\ mode = "throw"
    BY DEF ClosePasses, CloseFires, Unwinds
  <1>2. stack \in Seq(Frame) /\ stack # <<>> /\ IsScope(stack[1]) /\ Top.kind = TopKind
        /\ exc \in Exceptions /\ Top.ctx \in Contexts
    BY <1>1, TopFacts DEF IInv, TypeOK
  <1>3. CASE ClosePasses
    <2> DEFINE g == [Top EXCEPT !.kind = "closing", !.held = exc]
               f == GuestFrame("js", Top.ctx)
    <2>1. g \in Frame /\ g.kind = "closing" /\ g.held = exc
      BY <1>1, <1>2, RetopType DEF Kinds
    <2>2. f \in Frame /\ ~IsScope(f) /\ f.held \notin Interrupts
      BY <1>2, GuestFrameType
    <2>3. stack' = Append(Append(Below, g), f)
      BY <1>3 DEF ClosePasses
    <2> HIDE DEF g, f
    <2>4. ~IsScope(g) /\ ~IsScope(stack[Len(stack)])
      BY <1>1, <1>2, <2>1 DEF IsScope, ScopeKinds, Top
    <2>5. g.held \in Interrupts => SomeExpired(stack, Len(stack))
      BY <1>1, <2>1 DEF IInv, InterruptIsBlamed
    <2>6. GuestMove(stack, stack')
      BY <1>2, <2>1, <2>2, <2>3, <2>4, <2>5, RetopPushMove DEF Below
    <2>7. PollPasses(Top.ctx) /\ UNCHANGED <<now, deadline, result, unsettled>> /\ mode' = "run"
          /\ exc' \in Exceptions
      BY <1>3 DEF ClosePasses, Exceptions
    <2> QED BY <1>2, <2>6, <2>7, PassesStep
  <1>4. CASE CloseFires
    <2>1. GuestMove(stack, stack')
      BY <1>1, <1>4, PopGuest DEF CloseFires, ScopeKinds
    <2>2. PollFires(Top.ctx) /\ UNCHANGED <<now, deadline, result, unsettled>> /\ mode' = "throw"
          /\ exc' \in Exceptions
      BY <1>1, <1>2, <1>4 DEF CloseFires, Thrown, Exceptions
    <2>3. unsettled' \subseteq Kinds \X Interrupts /\ CutBodyRejects'
      BY <2>2 DEF IInv, TypeOK, CutBodyRejects
    <2> QED BY <1>2, <2>1, <2>2, <2>3, FiresStep
  <1> QED BY <1>3, <1>4

(* An async body suspends.                                                 *)
LEMMA AwaitStep == ASSUME IInv, AwaitSuspends \/ AwaitFires PROVE IInv'
  <1>1. TopKind = "async" /\ TopKind # "program" /\ mode = "run"
    BY DEF AwaitSuspends, AwaitFires, Runs
  <1>2. stack \in Seq(Frame) /\ stack # <<>> /\ IsScope(stack[1]) /\ Top.kind = TopKind
        /\ exc \in Exceptions /\ Top.ctx \in Contexts
    BY <1>1, TopFacts DEF IInv, TypeOK
  <1>3. CASE AwaitSuspends
    <2>1. GuestMove(stack, stack')
      BY <1>1, <1>3, PopGuest DEF AwaitSuspends, ScopeKinds
    <2>2. PollPasses(Top.ctx) /\ UNCHANGED <<now, deadline, result, unsettled>> /\ mode' = "run"
          /\ exc' \in Exceptions
      BY <1>1, <1>2, <1>3 DEF AwaitSuspends
    <2> QED BY <1>2, <2>1, <2>2, PassesStep
  <1>4. CASE AwaitFires
    <2> DEFINE g == [Top EXCEPT !.held = "uncatchable"]
    <2>1. g \in Frame /\ g.kind = Top.kind /\ g.held = "uncatchable"
      BY <1>1, <1>2, RetopType DEF Kinds, Exceptions
    <2>2. stack' = Append(Below, g)
      BY <1>4 DEF AwaitFires
    <2> HIDE DEF g
    <2>3. ~IsScope(g) /\ ~IsScope(stack[Len(stack)])
      BY <1>1, <1>2, <2>1 DEF IsScope, ScopeKinds, Top
    <2>4. PollFires(Top.ctx) /\ UNCHANGED <<now, deadline, result, unsettled>> /\ mode' = "reject"
          /\ exc' \in Exceptions
      BY <1>4 DEF AwaitFires, Exceptions
    <2>5. SomeExpired(stack, Len(stack))
      BY <2>4, ExpiredIsBlamed DEF PollFires, Fires, IInv
    <2>6. GuestMove(stack, Append(Below, g)) /\ Len(Append(Below, g)) = Len(stack)
          /\ Append(Below, g)[Len(stack)] = g
      BY <1>2, <2>1, <2>3, <2>5, RetopMove DEF Below
    <2>7. TopKind' = "async"
      BY <1>1, <1>2, <2>1, <2>2, <2>6 DEF TopKind, Top, GuestMove
    <2>8. unsettled' \subseteq Kinds \X Interrupts /\ CutBodyRejects'
      BY <2>4 DEF IInv, TypeOK, CutBodyRejects
    <2> QED BY <1>2, <2>2, <2>4, <2>6, <2>7, <2>8, FiresStep
  <1> QED BY <1>3, <1>4

(* A promise is settled, or left pending by an interrupt.                  *)
LEMMA SettleStep == ASSUME IInv, SettlePasses \/ SettleFires PROVE IInv'
  <1>1. mode \in {"reject", "resolve"} /\ TopKind \in {"async", "reaction", "settle"}
        /\ TopKind # "program" /\ stack' = Below
    BY DEF SettlePasses, SettleFires, IInv, TypeOK
  <1>2. Top.kind = TopKind /\ exc \in Exceptions /\ Top.ctx \in Contexts /\ Top.held \in Exceptions
    BY <1>1, TopFacts DEF IInv, TypeOK
  <1>3. GuestMove(stack, stack')
    BY <1>1, PopGuest DEF ScopeKinds
  <1>4. CASE SettlePasses
    <2>1. PollPasses(Top.ctx) /\ UNCHANGED <<now, deadline, result, unsettled>> /\ mode' = "run"
          /\ exc' \in Exceptions
      BY <1>2, <1>4 DEF SettlePasses
    <2> QED BY <1>2, <1>3, <2>1, PassesStep
  <1>5. CASE SettleFires
    <2>1. PollFires(Top.ctx) /\ UNCHANGED <<now, deadline, result>> /\ mode' \in {"run", "throw"}
          /\ exc' \in Exceptions
      BY <1>5 DEF SettleFires, Exceptions
    <2>2. ~(mode = "reject" /\ Top.held = "uncatchable")
      BY <1>2, <2>1 DEF PollFires, Fires, IInv, RejectBudget
    <2>3. unsettled' = unsettled \/ (unsettled' = unsettled \cup {<<Top.kind, Top.held>>}
                                     /\ Top.held \in Interrupts /\ Top.held # "uncatchable")
      BY <1>5, <2>2 DEF SettleFires
    <2>4. Top.kind \in Kinds
      BY <1>1, <1>2 DEF Kinds, BodyKinds
    <2>5. unsettled' \subseteq Kinds \X Interrupts
      BY <2>3, <2>4 DEF IInv, TypeOK
    <2>6. CutBodyRejects'
      BY <2>3 DEF IInv, CutBodyRejects
    <2> QED BY <1>2, <1>3, <2>1, <2>5, <2>6, FiresStep
  <1> QED BY <1>4, <1>5

-----------------------------------------------------------------------------
(* The clock: what has expired stays expired.                              *)

(* What has expired stays expired.                                         *)
LEMMA TickStep == ASSUME IInv, Tick PROVE IInv'
  <1>1. now \in 0..MaxNow /\ now' = now + 1 /\ now < MaxNow /\ MaxNow \in Nat
        /\ UNCHANGED <<deadline, counter, stack, mode, exc, result, history>>
    BY BoundsAssumption DEF Tick, IInv, TypeOK
  <1>2. \A d \in Time : Expired(d) => Expired(d)'
    BY <1>1 DEF Expired, Before, Time, Inf
  <1>3. stack \in Seq(Frame) /\ deadline \in Time
    BY DEF IInv, TypeOK
  <1>4. \A i \in 1..Len(stack) : stack[i].own \in Time
    <2>1. \A i \in 1..Len(stack) : stack[i] \in Frame
      BY <1>3, ElementOfSeq
    <2> QED BY <2>1 DEF Frame
  <1>5. \A n \in 0..Len(stack) : SomeExpired(stack, n) => SomeExpired(stack, n)'
    BY <1>1, <1>2, <1>3, <1>4, LenProperties DEF SomeExpired
  <1>6. TypeOK'
    BY <1>1 DEF IInv, TypeOK, TopKind, Top, history
  <1>7. BottomIsScope' /\ DeadlineIsTightest' /\ SavedIsTightest' /\ CutBodyRejects'
        /\ NoRawInterruptOutside' /\ RejectBudget'
    BY <1>1 DEF IInv, BottomIsScope, DeadlineIsTightest, SavedIsTightest, CutBodyRejects,
                NoRawInterruptOutside, RejectBudget, Top, history
  <1>8. PollBudget'
    BY <1>1, <1>2, <1>3 DEF IInv, PollBudget, history
  <1>9. InterruptIsBlamed'
    <2>1. \A i \in 1..Len(stack) : i - 1 \in 0..Len(stack)
      BY <1>3, LenProperties
    <2>2. Len(stack) \in 0..Len(stack)
      BY <1>3, LenProperties
    <2> QED BY <1>1, <1>5, <2>1, <2>2 DEF IInv, InterruptIsBlamed
  <1> QED BY <1>6, <1>7, <1>8, <1>9 DEF IInv

-----------------------------------------------------------------------------
(* Scopes.                                                                 *)

(* A scope is entered.                                                     *)
LEMMA EnterStep ==
    ASSUME IInv, NEW k \in ScopeKinds, NEW c \in Contexts, NEW t \in Timeouts,
           mode = "run", qjs_bun_enter(k, c, t),
           UNCHANGED <<now, counter, mode, exc, result, history>>
    PROVE  IInv'
  <1> DEFINE own == now + t
             f == [kind |-> k, ctx |-> c, saved |-> deadline, own |-> own, held |-> "none"]
  <1>1. now \in Nat /\ deadline \in Time /\ own \in Nat /\ own \in Time /\ stack \in Seq(Frame)
    BY TimeoutsAssumption, BoundsAssumption DEF IInv, TypeOK, Time
  <1>2. f \in Frame /\ IsScope(f) /\ f.own = own /\ f.saved = deadline /\ f.held = "none"
    BY <1>1 DEF Frame, IsScope, ScopeKinds, Kinds, Exceptions
  <1>3. stack' = Append(stack, f) /\ deadline' = Earlier(own, deadline)
    BY DEF qjs_bun_enter
  <1> HIDE DEF f, own
  <1>4. /\ stack' \in Seq(Frame) /\ Len(stack') = Len(stack) + 1 /\ Len(stack) \in Nat
        /\ \A i \in 1..Len(stack) : stack'[i] = stack[i]
        /\ stack'[Len(stack) + 1] = f
    BY <1>1, <1>2, <1>3, PushProperties
  <1>5. \A i \in 1..Len(stack') : i \in 1..Len(stack) \/ i = Len(stack) + 1
    BY <1>4
  <1>6. \A i \in 1..Len(stack) : stack[i].own \in Time
    <2>1. \A i \in 1..Len(stack) : stack[i] \in Frame
      BY <1>1, ElementOfSeq
    <2> QED BY <2>1 DEF Frame
  <1>7. deadline' \in Time /\ (Expired(deadline) => Expired(deadline)')
        /\ (deadline' = own \/ deadline' = deadline)
        /\ ~Before(own, deadline') /\ (\A d \in Time : ~Before(d, deadline) => ~Before(d, deadline'))
        /\ deadline' # Inf
    BY <1>1, <1>3 DEF Earlier, Before, Expired, Time, Inf
  <1>8. TypeOK'
    BY <1>4, <1>7 DEF IInv, TypeOK, history
  <1>9. BottomIsScope'
    <2>1. CASE stack = <<>>
      BY <1>2, <1>4, <2>1 DEF BottomIsScope
    <2>2. CASE stack # <<>>
      <3>1. Len(stack) \in Nat \ {0}
        BY <1>1, <2>2, BelowProperties
      <3> QED BY <1>4, <2>2, <3>1 DEF IInv, BottomIsScope
    <2> QED BY <2>1, <2>2
  <1>10. DeadlineIsTightest'
    <2>1. \A i \in 1..Len(stack') : IsScope(stack'[i]) => ~Before(stack'[i].own, deadline')
      BY <1>2, <1>4, <1>5, <1>6, <1>7 DEF IInv, DeadlineIsTightest, Tightest
    <2>2. \E i \in 1..Len(stack') : IsScope(stack'[i]) /\ stack'[i].own = deadline'
      <3>1. CASE deadline' = own
        <4>1. Len(stack) + 1 \in 1..Len(stack')
          BY <1>4
        <4> QED BY <1>2, <1>4, <3>1, <4>1
      <3>2. CASE deadline' = deadline
        <4>1. PICK i \in 1..Len(stack) : IsScope(stack[i]) /\ stack[i].own = deadline
          BY <1>7, <3>2 DEF IInv, DeadlineIsTightest, Tightest
        <4>2. i \in 1..Len(stack') /\ stack'[i] = stack[i]
          BY <1>4
        <4> QED BY <3>2, <4>1, <4>2
      <3> QED BY <1>7, <3>1, <3>2
    <2> QED BY <2>1, <2>2 DEF DeadlineIsTightest, Tightest
  <1>11. \A n \in 0..Len(stack) : \A d : Tightest(d, stack, n) => Tightest(d, stack', n)
    BY <1>4 DEF Tightest
  <1>12. SavedIsTightest'
    <2> SUFFICES ASSUME NEW i \in 1..Len(stack'), IsScope(stack'[i])
                 PROVE  Tightest(stack'[i].saved, stack', i - 1)
      BY DEF SavedIsTightest
    <2>1. CASE i \in 1..Len(stack)
      BY <1>4, <1>11, <2>1 DEF IInv, SavedIsTightest
    <2>2. CASE i = Len(stack) + 1
      <3>1. i - 1 = Len(stack) /\ Len(stack) \in 0..Len(stack) /\ stack'[i].saved = deadline
        BY <1>2, <1>4, <2>2
      <3> QED BY <1>11, <3>1 DEF IInv, DeadlineIsTightest
    <2> QED BY <1>5, <2>1, <2>2
  <1>13. PollBudget' /\ CutBodyRejects' /\ NoRawInterruptOutside' /\ RejectBudget'
    BY <1>7 DEF IInv, PollBudget, CutBodyRejects, NoRawInterruptOutside, RejectBudget, history
  <1>14. InterruptIsBlamed'
    <2>1. \A n \in 0..Len(stack) : SomeExpired(stack, n) => SomeExpired(stack, n)'
      BY <1>4 DEF SomeExpired, Expired
    <2>2. \A i \in 1..Len(stack) : i - 1 \in 0..Len(stack)
      BY <1>4
    <2> QED BY <1>2, <1>4, <1>5, <2>1, <2>2 DEF IInv, InterruptIsBlamed, Interrupts
  <1> QED BY <1>8, <1>9, <1>10, <1>12, <1>13, <1>14 DEF IInv

(* What is below a scope, with the deadline that the scope saved.          *)
LEMMA BelowScope ==
    ASSUME IInv, TopKind \in ScopeKinds
    PROVE  /\ Below \in Seq(Frame) /\ Top.saved \in Time /\ Top.own \in Time
           /\ Below # <<>> => IsScope(Below[1])
           /\ Tightest(Top.saved, Below, Len(Below))
           /\ \A i \in 1..Len(Below) : IsScope(Below[i]) => Tightest(Below[i].saved, Below, i - 1)
           /\ \A i \in 1..Len(Below) : Below[i].held \in Interrupts => SomeExpired(Below, i - 1)
           /\ SomeExpired(stack, Len(stack)) /\ ~Expired(Top.own) => SomeExpired(Below, Len(Below))
  <1>1. /\ stack \in Seq(Frame) /\ stack # <<>> /\ IsScope(stack[1]) /\ Top \in Frame
        /\ Top.kind = TopKind /\ Len(stack) \in Nat \ {0}
    BY TopFacts DEF ScopeKinds
  <1> DEFINE b == SubSeq(stack, 1, Len(stack) - 1)
  <1>2. /\ b \in Seq(Frame) /\ Len(b) = Len(stack) - 1 /\ Below = b
        /\ \A i \in 1..(Len(stack) - 1) : b[i] = stack[i]
    BY <1>1, BelowProperties DEF Below
  <1> HIDE DEF b
  <1>3. \A i \in 1..Len(b) : i \in 1..Len(stack) /\ b[i] = stack[i] /\ i - 1 \in 0..Len(b)
    BY <1>1, <1>2
  <1>4. Top.saved \in Time /\ Top.own \in Time
    BY <1>1 DEF Frame
  <1>5. b # <<>> => IsScope(b[1])
    <2>1. b # <<>> => 1 \in 1..Len(b)
      BY <1>2, BelowProperties
    <2> QED BY <1>1, <1>3, <2>1
  <1>6. ASSUME NEW n \in 0..Len(b)
        PROVE  /\ SomeExpired(stack, n) <=> SomeExpired(b, n)
               /\ \A d : Tightest(d, stack, n) <=> Tightest(d, b, n)
    <2>1. \A i \in 1..n : b[i] = stack[i]
      BY <1>1, <1>2
    <2>2. SomeExpired(stack, n) <=> SomeExpired(b, n)
      BY <2>1 DEF SomeExpired
    <2>3. \A d : Tightest(d, stack, n) <=> Tightest(d, b, n)
      BY <2>1 DEF Tightest
    <2> QED BY <2>2, <2>3
  <1>7. Tightest(Top.saved, b, Len(b))
    <2>1. Tightest(Top.saved, stack, Len(stack) - 1)
      BY <1>1 DEF IInv, SavedIsTightest, Top, IsScope
    <2> QED BY <1>1, <1>2, <1>6, <2>1
  <1>8. \A i \in 1..Len(b) : IsScope(b[i]) => Tightest(b[i].saved, b, i - 1)
    BY <1>3, <1>6 DEF IInv, SavedIsTightest
  <1>9. \A i \in 1..Len(b) : b[i].held \in Interrupts => SomeExpired(b, i - 1)
    BY <1>3, <1>6 DEF IInv, InterruptIsBlamed
  <1>10. SomeExpired(stack, Len(stack)) /\ ~Expired(Top.own) => SomeExpired(b, Len(b))
    <2>1. \A i \in 1..Len(stack) : i \in 1..Len(b) \/ i = Len(stack)
      BY <1>1, <1>2
    <2> QED BY <1>3, <2>1 DEF SomeExpired, Top
  <1> QED BY <1>2, <1>4, <1>5, <1>7, <1>8, <1>9, <1>10

(* A scope is left: the frames below it stay, but for the exception that a *)
(* host function comes to hold, and the deadline is the one it saved.      *)
LEMMA LeaveStep ==
    ASSUME IInv, TopKind \in ScopeKinds, RestoreDeadline,
           UNCHANGED <<now, counter, unsettled>>,
           stack' \in Seq(Frame), Len(stack') = Len(Below), SameScopes(Below, stack'),
           \A i \in 1..Len(stack') : stack'[i].held \in Interrupts => SomeExpired(Below, i - 1),
           mode' \in {"run", "throw"}, exc' \in Exceptions, result' \in Exceptions \ Interrupts,
           mode' = "throw" => /\ Below # <<>>
                              /\ exc' # "uncatchable"
                              /\ exc' \in Interrupts => SomeExpired(Below, Len(Below))
    PROVE  IInv'
  <1>1. /\ Below \in Seq(Frame) /\ Top.saved \in Time
        /\ Below # <<>> => IsScope(Below[1])
        /\ Tightest(Top.saved, Below, Len(Below))
        /\ \A i \in 1..Len(Below) : IsScope(Below[i]) => Tightest(Below[i].saved, Below, i - 1)
    BY BelowScope
  <1>2. Len(Below) \in Nat
    BY <1>1, LenProperties
  <1>3. hot' \in BOOLEAN /\ passed' \in [Contexts -> Nat] /\ deadline' = Top.saved
        /\ (hot' => hot /\ Expired(deadline') /\ passed' = passed)
    BY DEF RestoreDeadline, IInv, TypeOK
  <1>4. mode' = "throw" => stack' # <<>>
    <2>1. Below # <<>> => Len(Below) # 0
      BY <1>1, EmptySeq
    <2> QED BY <2>1
  <1>5. TypeOK'
    BY <1>1, <1>3, <1>4 DEF IInv, TypeOK, Modes
  <1>6. BottomIsScope'
    <2> SUFFICES ASSUME stack' # <<>> PROVE IsScope(stack'[1])
      BY DEF BottomIsScope
    <2>1. Len(stack') \in Nat \ {0}
      BY BelowProperties
    <2>2. Below # <<>> /\ 1 \in 1..Len(Below)
      BY <2>1, EmptySeq
    <2> QED BY <1>1, <2>2 DEF SameScopes
  <1>7. DeadlineIsTightest'
    BY <1>1, <1>3, SameScopesTight DEF DeadlineIsTightest
  <1>8. SavedIsTightest'
    BY <1>1, SameScopesSaved DEF SavedIsTightest
  <1>9. PollBudget'
    BY <1>3 DEF IInv, PollBudget, Expired
  <1>10. RejectBudget' /\ CutBodyRejects' /\ NoRawInterruptOutside'
    BY DEF IInv, RejectBudget, CutBodyRejects, NoRawInterruptOutside
  <1>11. ASSUME NEW n \in 0..Len(Below), SomeExpired(Below, n)
         PROVE  SomeExpired(stack', n)
    BY <1>1, <1>2, <1>11, SameScopesExpired
  <1>12. InterruptIsBlamed'
    <2>1. \A i \in 1..Len(stack') : i - 1 \in 0..Len(Below)
      BY <1>2
    <2>2. Len(stack') \in 0..Len(Below)
      BY <1>2
    <2>3. \A i \in 1..Len(stack') : stack'[i].held \in Interrupts => SomeExpired(stack', i - 1)
      BY <1>11, <2>1
    <2>4. mode' = "throw" /\ exc' \in Interrupts => SomeExpired(stack', Len(stack'))
      BY <1>11, <2>2
    <2> QED BY <2>3, <2>4 DEF InterruptIsBlamed, SomeExpired, Expired
  <1> QED BY <1>5, <1>6, <1>7, <1>8, <1>9, <1>10, <1>12 DEF IInv

(* A scope ends well.                                                      *)
LEMMA LeaveOkStep == ASSUME IInv, LeaveOk \/ DumpOk PROVE IInv'
  <1>1. /\ TopKind \in ScopeKinds /\ RestoreDeadline /\ DeliverSuccess
        /\ UNCHANGED <<now, counter, unsettled>> /\ mode = "run"
    BY DEF LeaveOk, DumpOk, Runs, ScopeKinds
  <1>2. stack' = Below /\ mode' = "run" /\ exc' \in Exceptions /\ result' \in Exceptions \ Interrupts
    BY <1>1 DEF DeliverSuccess, IInv, TypeOK, NoRawInterruptOutside, Exceptions, Interrupts
  <1>3. stack' \in Seq(Frame)
        /\ \A i \in 1..Len(stack') : stack'[i].held \in Interrupts => SomeExpired(Below, i - 1)
    BY <1>1, <1>2, BelowScope
  <1>4. SameScopes(Below, stack')
    BY <1>2, <1>3, LenProperties DEF SameScopes
  <1> QED BY <1>1, <1>2, <1>3, <1>4, LeaveStep

(* A scope fails.  The exception that it reports is an interrupt only when *)
(* its own deadline is not past, and then that of a scope below it is.     *)
LEMMA LeaveFailedStep == ASSUME IInv, LeaveFailed \/ DumpCatch PROVE IInv'
  <1>1. PICK r \in Outcomes :
           /\ TopKind \in ScopeKinds /\ RestoreDeadline /\ DeliverFailure(r)
           /\ UNCHANGED <<now, counter, unsettled>> /\ mode = "throw"
    BY DEF LeaveFailed, DumpCatch, Unwinds, ScopeKinds
  <1>2. r \in Exceptions /\ r # "uncatchable" /\ (r \in Interrupts => ~Expired(Top.own) /\ exc \in Interrupts)
    BY DEF Outcomes, OwnExpired, Thrown, Exceptions, Interrupts, IInv, TypeOK
  <1>3. r \in Interrupts => SomeExpired(Below, Len(Below))
    <2>1. r \in Interrupts => SomeExpired(stack, Len(stack))
      BY <1>1, <1>2 DEF IInv, InterruptIsBlamed
    <2> QED BY <1>1, <1>2, <2>1, BelowScope
  <1> DEFINE b == Below
             into == IF b = <<>> THEN "program" ELSE b[Len(b)].kind
  <1>4. /\ b \in Seq(Frame)
        /\ \A i \in 1..Len(b) : b[i].held \in Interrupts => SomeExpired(b, i - 1)
    BY <1>1, BelowScope
  <1>5. /\ stack' = IF into = "host" THEN [b EXCEPT ![Len(b)].held = r] ELSE b
        /\ result' = IF into = "program" THEN r ELSE result
        /\ mode' = IF into = "dump" THEN "throw" ELSE "run"
        /\ exc' = IF into = "dump" THEN r ELSE "none"
    BY <1>1 DEF DeliverFailure
  <1>6. r \in Interrupts => SomeExpired(b, Len(b))
    BY <1>3
  <1>7. Below = b
    OBVIOUS
  <1> HIDE DEF b
  <1>8. Len(b) \in Nat /\ (b # <<>> => Len(b) \in 1..Len(b))
    <2>1. b # <<>> => Len(b) \in Nat \ {0}
      BY <1>4, BelowProperties
    <2>2. Len(b) \in Nat
      BY <1>4, LenProperties
    <2> QED BY <2>1, <2>2
  <1>9. b = <<>> => r \notin Interrupts
    <2>1. b = <<>> => Len(b) = 0
      BY <1>4, EmptySeq
    <2> QED BY <1>6, <2>1 DEF SomeExpired
  <1>10. mode' \in {"run", "throw"} /\ exc' \in Exceptions /\ result' \in Exceptions \ Interrupts
    <2>1. into = "program" => b = <<>> \/ b[Len(b)].kind = "program"
      OBVIOUS
    <2>2. b # <<>> => b[Len(b)] \in Frame
      BY <1>4, <1>8, ElementOfSeq
    <2>3. b # <<>> => b[Len(b)].kind # "program"
      BY <2>2 DEF Frame, Kinds, ScopeKinds, BodyKinds
    <2>4. result' \in Exceptions \ Interrupts
      BY <1>2, <1>5, <1>9, <2>1, <2>3 DEF IInv, TypeOK, NoRawInterruptOutside
    <2> QED BY <1>2, <1>5, <2>4 DEF Exceptions
  <1>11. mode' = "throw" => /\ b # <<>>
                            /\ exc' # "uncatchable"
                            /\ exc' \in Interrupts => SomeExpired(b, Len(b))
    BY <1>2, <1>5, <1>6
  <1>12. CASE into = "host"
    <2> DEFINE n == Len(b)
               g == [b[n] EXCEPT !.held = r]
    <2>1. b # <<>> /\ n \in 1..n /\ b[n].kind = "host"
      BY <1>8, <1>12
    <2>2. \A i \in 1..n : b[i] \in Frame
      BY <1>4, ElementOfSeq
    <2>3. g \in Frame /\ g.held = r /\ g.kind = "host"
      BY <1>2, <2>1, <2>2 DEF Frame
    <2>4. stack' = [b EXCEPT ![n] = g]
      BY <1>5, <1>12
    <2> HIDE DEF g
    <2>5. /\ stack' \in Seq(Frame) /\ Len(stack') = n
          /\ \A i \in 1..n : stack'[i] = IF i = n THEN g ELSE b[i]
      BY <1>4, <2>1, <2>3, <2>4, ExceptSeq
    <2>6. ~IsScope(g) /\ ~IsScope(b[n])
      BY <2>1, <2>3 DEF IsScope, ScopeKinds
    <2>7. SameScopes(b, stack')
      BY <1>8, <2>5, <2>6 DEF SameScopes
    <2>8. r \in Interrupts => SomeExpired(b, n - 1)
      <3>1. \A i \in 1..n : i \in 1..(n - 1) \/ i = n
        BY <1>8
      <3> QED BY <1>6, <2>6, <3>1 DEF SomeExpired
    <2>9. \A i \in 1..Len(stack') : stack'[i].held \in Interrupts => SomeExpired(b, i - 1)
      BY <1>4, <2>3, <2>5, <2>8
    <2> QED BY <1>1, <1>7, <1>10, <1>11, <2>5, <2>7, <2>9, LeaveStep
  <1>13. CASE into # "host"
    <2>1. stack' = b
      BY <1>5, <1>13
    <2>2. SameScopes(b, stack')
      BY <1>4, <2>1, LenProperties DEF SameScopes
    <2> QED BY <1>1, <1>4, <1>7, <1>10, <1>11, <2>1, <2>2, LeaveStep
  <1> QED BY <1>12, <1>13

-----------------------------------------------------------------------------

(* Before anything has run, no scope is open.                              *)
LEMMA InitInv == Init => IInv
  <1> SUFFICES ASSUME Init PROVE IInv
    OBVIOUS
  <1>1. /\ now = 0 /\ deadline = Inf /\ counter = [c \in Contexts |-> CounterInit]
        /\ stack = <<>> /\ mode = "run" /\ exc = "none" /\ result = "none"
        /\ unsettled = {} /\ hot = FALSE /\ passed = [c \in Contexts |-> 0]
    BY DEF Init
  <1>2. stack \in Seq(Frame) /\ Len(stack) = 0
    BY <1>1, EmptySeq
  <1>3. TypeOK
    <2>1. now \in 0..MaxNow /\ counter \in [Contexts -> 1..CounterInit] /\ passed \in [Contexts -> Nat]
      BY <1>1, CounterAssumption, BoundsAssumption
    <2>2. deadline \in Time /\ mode \in Modes /\ exc \in Exceptions /\ result \in Exceptions
          /\ hot \in BOOLEAN /\ unsettled \subseteq Kinds \X Interrupts
      BY <1>1 DEF Time, Modes, Exceptions
    <2>3. ~(mode \in {"reject", "resolve"}) /\ mode # "resume" /\ mode # "throw"
      BY <1>1
    <2> QED BY <1>2, <2>1, <2>2, <2>3 DEF TypeOK
  <1>4. BottomIsScope /\ PollBudget /\ RejectBudget /\ CutBodyRejects /\ NoRawInterruptOutside
    BY <1>1 DEF BottomIsScope, PollBudget, RejectBudget, CutBodyRejects, NoRawInterruptOutside,
                Interrupts
  <1>5. DeadlineIsTightest /\ SavedIsTightest /\ InterruptIsBlamed
    BY <1>1, <1>2 DEF DeadlineIsTightest, SavedIsTightest, InterruptIsBlamed, Tightest
  <1> QED BY <1>3, <1>4, <1>5 DEF IInv

(* Every step preserves the invariant.                                     *)
LEMMA NextStep == IInv /\ [Next]_vars => IInv'
  <1> SUFFICES ASSUME IInv, [Next]_vars PROVE IInv'
    OBVIOUS
  <1>1. CASE Tick
    BY <1>1, TickStep
  <1>2. CASE Host
    <2>1. ASSUME NEW c \in Contexts, NEW t \in Timeouts, Call(c, t)
          PROVE  IInv'
      BY <2>1, EnterStep DEF Call, HostRuns, ScopeKinds
    <2>2. ASSUME NEW c \in Contexts, NEW t \in Timeouts, executePendingJob(c, t)
          PROVE  IInv'
      BY <2>2, EnterStep DEF executePendingJob, HostRuns, ScopeKinds
    <2>3. ASSUME NEW c \in Contexts, NEW t \in Timeouts, dump(c, t)
          PROVE  IInv'
      BY <2>3, EnterStep DEF dump, HostRuns, ScopeKinds
    <2> QED BY <1>2, <2>1, <2>2, <2>3, StayStep, PopStep DEF Host
  <1>3. CASE HostFinishes
    BY <1>3, LeaveOkStep, LeaveFailedStep, PopStep DEF HostFinishes
  <1>4. CASE Guest
    BY <1>4, CallPassesStep, CallFiresStep, LoopStep, PopStep, StayStep, StartReactionStep, AwaitStep
       DEF Guest
  <1>5. CASE Engine
    BY <1>5, LeaveOkStep, LeaveFailedStep, PopStep, CloseStep, ResumeStep, TakeExceptionStep,
       StayStep, SettleStep DEF Engine
  <1>6. CASE UNCHANGED vars
    <2>1. UNCHANGED <<now, deadline, counter, stack, mode, exc, result, unsettled, hot, passed>>
      BY <1>6 DEF vars
    <2>2. TypeOK' /\ BottomIsScope' /\ DeadlineIsTightest' /\ SavedIsTightest'
      BY <2>1 DEF IInv, TypeOK, TopKind, Top, BottomIsScope, DeadlineIsTightest, SavedIsTightest
    <2>3. PollBudget' /\ RejectBudget' /\ CutBodyRejects' /\ NoRawInterruptOutside'
      BY <2>1 DEF IInv, PollBudget, RejectBudget, CutBodyRejects, NoRawInterruptOutside, Top, Expired
    <2>4. InterruptIsBlamed'
      BY <2>1 DEF IInv, InterruptIsBlamed, SomeExpired, Expired
    <2> QED BY <2>2, <2>3, <2>4 DEF IInv
  <1> QED BY <1>1, <1>2, <1>3, <1>4, <1>5, <1>6 DEF Next

(* The inductive invariant holds in every reachable state.                 *)
THEOREM Invariance == Spec => []IInv
  BY InitInv, NextStep, PTL DEF Spec

(* Every variable keeps its type, and a promise is being settled only in a *)
(* frame that has one.                                                     *)
THEOREM TypeCorrect == Spec => []TypeOK
  <1>1. IInv => TypeOK
    BY DEF IInv
  <1> QED BY <1>1, Invariance, PTL

(* At any nesting of evaluations, host functions, jobs and dumps the       *)
(* runtime's deadline is the tightest of those of the open scopes          *)
(* (qjs_bun_enter, qjs_bun_leave).                                         *)
THEOREM DeadlineTight == Spec => []DeadlineIsTightest
  <1>1. IInv => DeadlineIsTightest
    BY DEF IInv
  <1> QED BY <1>1, Invariance, PTL

(* After an interrupt, each context gets at most one more poll through     *)
(* while the deadline stays past (qjs_bun_interrupt).                      *)
THEOREM SecondPoll == Spec => []SecondPollFires
  <1>1. IInv => SecondPollFires
    <2> SUFFICES ASSUME IInv, hot, NEW c \in Contexts PROVE passed[c] <= 1
      BY DEF SecondPollFires
    <2>1. counter[c] \in 1..CounterInit /\ passed[c] \in Nat /\ CounterInit \in Nat
      BY CounterAssumption DEF IInv, TypeOK
    <2>2. counter[c] + passed[c] <= 2
      BY DEF IInv, PollBudget
    <2> QED BY <2>1, <2>2
  <1> QED BY <1>1, Invariance, PTL

(* An async body or promise job that a fresh interrupt cut short gets its  *)
(* promise rejected (qjs_bun_interrupt leaves the reject call its poll).   *)
THEOREM CutRejects == Spec => []CutBodyRejects
  <1>1. IInv => CutBodyRejects
    BY DEF IInv
  <1> QED BY <1>1, Invariance, PTL

(* The raw interrupt that a host function holds comes from a deadline      *)
(* outside the call that reported it (qjs_bun_leave).                      *)
THEOREM RawIsOuter == Spec => []RawInterruptIsOuter
  <1>1. IInv => RawInterruptIsOuter
    BY DEF IInv, InterruptIsBlamed, RawInterruptIsOuter
  <1> QED BY <1>1, Invariance, PTL

(* No outermost operation ends with the engine's raw interrupt.            *)
THEOREM NoRawOutside == Spec => []NoRawInterruptOutside
  <1>1. IInv => NoRawInterruptOutside
    BY DEF IInv
  <1> QED BY <1>1, Invariance, PTL

=============================================================================
