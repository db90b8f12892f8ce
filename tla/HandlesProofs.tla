--------------------------- MODULE HandlesProofs ---------------------------
(***************************************************************************)
(* Proofs, for any number of contexts, handles and objects, and any        *)
(* nesting of callbacks, of the properties of Handles.                     *)
(***************************************************************************)
EXTENDS Handles, SequenceTheorems, FiniteSetTheorems, TLAPS

(* The handles that own a reference to an object.                          *)
OwnersOf(o) == {h \in Handles : Registered(h) /\ obj[h] = o}

(* What is so of every frame: a callback or a disposal is for a context    *)
(* that is still there, only callbacks borrow, and what a callback has     *)
(* given back stays disposed.                                              *)
FrameOK(f, lf, gone) ==
    /\ f.next # 0 /\ (f.phase # "end" => f.next = 1)
    /\ f.kind \in Borrowers \cup {"dispose"} => f.ctx \in Contexts \ gone
    /\ f.kind \notin Borrowers => f.args = <<>>
    /\ \A j \in 1..Len(f.args) : j < f.next => lf[f.args[j]] = "disposed"

(* A context is disposed under nothing else.                               *)
FramesOK ==
    \A i \in 1..Len(stack) :
        FrameOK(stack[i], life, closed) /\ (stack[i].kind = "dispose" => i = 1)

(* The frames that hostDepth stands for, so that it is 0 where host code   *)
(* runs only outside every callback and finalizer.                         *)
Counted(f) ==
    f.kind \in {"finalizer", "loader"} \/ (f.kind \in {"call", "tracker"} /\ f.phase # "end")
CountedAt == {i \in 1..Len(stack) : Counted(stack[i])}
DepthCounts == hostDepth = Cardinality(CountedAt)

IInv ==
    /\ TypeOK
    /\ TableAgrees
    /\ RefsBalance
    /\ ClosedOwnsNothing
    /\ FramesOK
    /\ DepthCounts

(* Whether a handle owns a reference after a step.                         *)
RegisteredNext(h) == life'[h] = "live" /\ obj'[h] # Nil

CellsTyped ==
    /\ table \in [Contexts -> Seq(Handles)]
    /\ slot \in [Handles -> Nat \cup {-1}]
    /\ life \in [Handles -> Lives]
    /\ vm \in [Handles -> Contexts \cup {Nil}]
    /\ obj \in [Handles -> Objects \cup {Nil}]

CountsTyped ==
    /\ refs \in [Objects -> Nat]
    /\ guest \in [Objects -> Nat]
    /\ zero \in Seq(Finalized)

(* What concerns the tables and the reference counts.                      *)
Owns ==
    /\ CellsTyped
    /\ CountsTyped
    /\ TableAgrees
    /\ RefsBalance
    /\ ClosedOwnsNothing

(* What concerns the stack.                                                *)
Nests ==
    /\ stack \in Seq(Frame)
    /\ hostDepth \in Nat
    /\ FramesOK
    /\ DepthCounts

(* No handle in an argument list comes back to life in a step.             *)
NoArgRevives ==
    \A i \in 1..Len(stack) : \A j \in 1..Len(stack[i].args) :
        life[stack[i].args[j]] = "disposed" => life'[stack[i].args[j]] = "disposed"

-----------------------------------------------------------------------------
(* The tables.                                                             *)

(* A handle in a table is one of Handles.                                  *)
LEMMA InTable ==
    ASSUME table \in [Contexts -> Seq(Handles)], NEW c \in Contexts
    PROVE  /\ table[c] \in Seq(Handles) /\ Len(table[c]) \in Nat
           /\ \A i \in 1..Len(table[c]) : table[c][i] \in Handles
  <1>1. table[c] \in Seq(Handles)
    OBVIOUS
  <1> QED BY <1>1, LenProperties, ElementOfSeq

(* The constructor registers the handle that it makes, if its value is     *)
(* counted, and no other.                                                  *)
LEMMA ConstructFacts ==
    ASSUME CellsTyped, TableAgrees, NEW h \in Handles, life[h] # "live",
           NEW c \in Contexts \cup {Nil}, NEW v \in Objects \cup {Nil},
           v # Nil => c \in Contexts, Construct(h, c, v)
    PROVE  /\ CellsTyped'
           /\ TableAgrees'
           /\ life'[h] = "live" /\ vm'[h] = c /\ obj'[h] = v
           /\ \A x \in Handles : x # h =>
                 life'[x] = life[x] /\ vm'[x] = vm[x] /\ obj'[x] = obj[x]
  <1>1. /\ table \in [Contexts -> Seq(Handles)]
        /\ slot \in [Handles -> Nat \cup {-1}] /\ life \in [Handles -> Lives]
        /\ vm \in [Handles -> Contexts \cup {Nil}] /\ obj \in [Handles -> Objects \cup {Nil}]
    BY DEF CellsTyped
  <1>2. /\ life' = [life EXCEPT ![h] = "live"] /\ vm' = [vm EXCEPT ![h] = c]
        /\ obj' = [obj EXCEPT ![h] = v]
        /\ slot' = [slot EXCEPT ![h] = IF v = Nil THEN -1 ELSE Len(table[c])]
        /\ table' = IF v = Nil THEN table ELSE [table EXCEPT ![c] = Append(@, h)]
    BY DEF Construct
  <1>3. /\ life'[h] = "live" /\ vm'[h] = c /\ obj'[h] = v
        /\ \A x \in Handles : x # h =>
              life'[x] = life[x] /\ vm'[x] = vm[x] /\ obj'[x] = obj[x] /\ slot'[x] = slot[x]
    BY <1>1, <1>2
  <1>4. /\ life' \in [Handles -> Lives] /\ vm' \in [Handles -> Contexts \cup {Nil}]
        /\ obj' \in [Handles -> Objects \cup {Nil}]
    BY <1>1, <1>2 DEF Lives
  <1>5. ~Registered(h)
    BY DEF Registered
  <1>6. \A x \in Handles : x # h => (RegisteredNext(x) <=> Registered(x))
    BY <1>3 DEF Registered, RegisteredNext
  <1>7. \A d \in Contexts : \A i \in 1..Len(table[d]) :
           /\ table[d][i] \in Handles /\ table[d][i] # h /\ Registered(table[d][i])
           /\ vm[table[d][i]] = d /\ slot[table[d][i]] = i - 1
    BY <1>1, <1>5, InTable DEF TableAgrees
  <1>8. CASE v = Nil
    <2>1. table' = table /\ slot' \in [Handles -> Nat \cup {-1}]
      BY <1>1, <1>2, <1>8
    <2>2. ~RegisteredNext(h)
      BY <1>3, <1>8 DEF RegisteredNext
    <2>3. \A d \in Contexts : \A i \in 1..Len(table'[d]) :
             /\ RegisteredNext(table'[d][i]) /\ vm'[table'[d][i]] = d
             /\ slot'[table'[d][i]] = i - 1
      BY <1>3, <1>6, <1>7, <2>1
    <2>4. \A x \in Handles : RegisteredNext(x) =>
             /\ vm'[x] \in Contexts
             /\ slot'[x] + 1 \in 1..Len(table'[vm'[x]])
             /\ table'[vm'[x]][slot'[x] + 1] = x
      BY <1>3, <1>6, <2>1, <2>2 DEF TableAgrees
    <2> QED BY <1>1, <1>3, <1>4, <2>1, <2>3, <2>4 DEF CellsTyped, TableAgrees, Registered, RegisteredNext
  <1>9. CASE v # Nil
    <2> DEFINE n == Len(table[c])
    <2>1. c \in Contexts /\ table[c] \in Seq(Handles) /\ n \in Nat
      BY <1>1, <1>9, InTable
    <2>2. /\ Append(table[c], h) \in Seq(Handles) /\ Len(Append(table[c], h)) = n + 1
          /\ \A i \in 1..n : Append(table[c], h)[i] = table[c][i]
          /\ Append(table[c], h)[n + 1] = h
      BY <2>1, AppendProperties
    <2>3. /\ table' \in [Contexts -> Seq(Handles)] /\ table'[c] = Append(table[c], h)
          /\ \A d \in Contexts : d # c => table'[d] = table[d]
      BY <1>1, <1>2, <1>9, <2>1, <2>2
    <2>4. slot' \in [Handles -> Nat \cup {-1}] /\ slot'[h] = n
      BY <1>1, <1>2, <1>9, <2>1
    <2>5. RegisteredNext(h)
      BY <1>3, <1>9 DEF RegisteredNext
    <2>6. ASSUME NEW d \in Contexts, NEW i \in 1..Len(table'[d])
          PROVE  /\ RegisteredNext(table'[d][i]) /\ vm'[table'[d][i]] = d
                 /\ slot'[table'[d][i]] = i - 1
      <3>1. CASE d # c \/ i \in 1..n
        <4>1. i \in 1..Len(table[d]) /\ table'[d][i] = table[d][i]
          BY <3>1, <2>2, <2>3, <2>6
        <4> QED BY <4>1, <1>3, <1>6, <1>7
      <3>2. CASE d = c /\ i = n + 1
        <4>1. table'[d][i] = h /\ i - 1 = n
          BY <3>2, <2>1, <2>2, <2>3
        <4> QED BY <4>1, <3>2, <1>3, <2>4, <2>5
      <3> QED BY <3>1, <3>2, <2>1, <2>2, <2>3
    <2>7. ASSUME NEW x \in Handles, RegisteredNext(x)
          PROVE  /\ vm'[x] \in Contexts
                 /\ slot'[x] + 1 \in 1..Len(table'[vm'[x]])
                 /\ table'[vm'[x]][slot'[x] + 1] = x
      <3>1. CASE x = h
        <4>1. n + 1 \in 1..(n + 1)
          BY <2>1
        <4> QED BY <3>1, <4>1, <1>3, <2>1, <2>2, <2>3, <2>4
      <3>2. CASE x # h
        <4>1. /\ vm'[x] = vm[x] /\ slot'[x] = slot[x] /\ vm[x] \in Contexts
              /\ slot[x] + 1 \in 1..Len(table[vm[x]]) /\ table[vm[x]][slot[x] + 1] = x
          BY <3>2, <2>7, <1>3, <1>6 DEF TableAgrees
        <4>2. CASE vm[x] = c
          BY <4>1, <4>2, <2>1, <2>2, <2>3
        <4>3. CASE vm[x] # c
          BY <4>1, <4>3, <2>3
        <4> QED BY <4>2, <4>3
      <3> QED BY <3>1, <3>2
    <2> QED BY <1>3, <1>4, <2>3, <2>4, <2>6, <2>7 DEF CellsTyped, TableAgrees, Registered, RegisteredNext
  <1> QED BY <1>8, <1>9

(* Leaving the table: the handle that takes the free place knows it.       *)
LEMMA UnregisterFacts ==
    ASSUME CellsTyped, TableAgrees, NEW h \in Handles, Registered(h),
           life' = [life EXCEPT ![h] = "disposed"], Unregister(h), UNCHANGED <<vm, obj>>
    PROVE  CellsTyped' /\ TableAgrees'
  <1> DEFINE c == vm[h]
             t == table[c]
             n == Len(t)
             s == slot[h] + 1
             last == t[n]
             front == SubSeq(t, 1, n - 1)
  <1>1. /\ table \in [Contexts -> Seq(Handles)]
        /\ slot \in [Handles -> Nat \cup {-1}] /\ life \in [Handles -> Lives]
        /\ vm \in [Handles -> Contexts \cup {Nil}] /\ obj \in [Handles -> Objects \cup {Nil}]
    BY DEF CellsTyped
  <1>2. c \in Contexts /\ s \in 1..n /\ t[s] = h
    BY DEF TableAgrees
  <1>3. t \in Seq(Handles) /\ n \in Nat /\ n # 0 /\ last \in Handles
    <2>1. t \in Seq(Handles) /\ n \in Nat
      BY <1>1, <1>2, InTable
    <2>2. n \in 1..n
      BY <1>2, <2>1
    <2> QED BY <1>1, <1>2, <2>1, <2>2, InTable
  <1>4. /\ front \in Seq(Handles) /\ Len(front) = n - 1
        /\ \A i \in 1..(n - 1) : front[i] = t[i]
    <2>1. \A i \in 1..(n - 1) : i \in 1..n
      BY <1>3
    <2>2. \A i \in 1..(n - 1) : t[i] \in Handles
      BY <1>3, <2>1, ElementOfSeq
    <2> HIDE DEF t, n
    <2> QED BY <1>3, <2>2, SubSeqProperties
  <1>5. /\ table' = [table EXCEPT ![c] =
                        IF last = h THEN front ELSE [front EXCEPT ![s] = last]]
        /\ slot' = IF last = h THEN slot ELSE [slot EXCEPT ![last] = slot[h]]
    BY DEF Unregister
  <1>6. \A d \in Contexts : \A i \in 1..Len(table[d]) :
           /\ table[d][i] \in Handles /\ Registered(table[d][i])
           /\ vm[table[d][i]] = d /\ slot[table[d][i]] = i - 1
    BY <1>1, InTable DEF TableAgrees
  <1>7. /\ \A i \in 1..n : /\ t[i] \in Handles /\ Registered(t[i])
                           /\ vm[t[i]] = c /\ slot[t[i]] = i - 1
        /\ Registered(last) /\ vm[last] = c /\ slot[last] = n - 1
    BY <1>2, <1>3, <1>6, SMTT(30)
  <1>8. \A x \in Handles : RegisteredNext(x) <=> Registered(x) /\ x # h
    BY <1>1 DEF Registered, RegisteredNext, Lives
  <1>9. life' \in [Handles -> Lives] /\ vm' = vm /\ obj' = obj
    BY <1>1 DEF Lives
  <1>10. \A x \in Handles : Registered(x) =>
            /\ vm[x] \in Contexts /\ slot[x] + 1 \in 1..Len(table[vm[x]])
            /\ table[vm[x]][slot[x] + 1] = x /\ slot[x] \in Int
    BY <1>1 DEF TableAgrees
  <1>11. slot[h] \in Nat /\ slot[h] = s - 1
    BY <1>1, <1>2
  <1>12. CASE last = h
    <2>1. s = n
      BY <1>3, <1>7, <1>11, <1>12
    <2>2. /\ slot' = slot /\ table' \in [Contexts -> Seq(Handles)]
          /\ table'[c] = front /\ \A d \in Contexts : d # c => table'[d] = table[d]
      BY <1>1, <1>2, <1>4, <1>5, <1>12
    <2>3. ASSUME NEW d \in Contexts, NEW i \in 1..Len(table'[d])
          PROVE  /\ RegisteredNext(table'[d][i]) /\ vm'[table'[d][i]] = d
                 /\ slot'[table'[d][i]] = i - 1
      <3>1. CASE d # c
        BY <3>1, <1>2, <1>6, <1>8, <1>9, <2>2, <2>3
      <3>2. CASE d = c
        <4>1. i \in 1..n /\ i # n /\ table'[d][i] = t[i]
          BY <3>2, <1>3, <1>4, <2>2, <2>3
        <4>2. slot[t[i]] = i - 1 /\ slot[h] = n - 1
          BY <4>1, <1>7, <1>11, <2>1
        <4>3. t[i] # h
          BY <4>1, <4>2, <1>3
        <4> HIDE DEF t, n, c
        <4> QED BY <4>1, <4>2, <4>3, <3>2, <1>7, <1>8, <1>9, <2>2
      <3> QED BY <3>1, <3>2
    <2>4. ASSUME NEW x \in Handles, RegisteredNext(x)
          PROVE  /\ vm'[x] \in Contexts
                 /\ slot'[x] + 1 \in 1..Len(table'[vm'[x]])
                 /\ table'[vm'[x]][slot'[x] + 1] = x
      <3>1. x # h /\ Registered(x) /\ vm'[x] = vm[x] /\ slot'[x] = slot[x]
        BY <2>4, <1>8, <1>9, <2>2
      <3>2. /\ vm[x] \in Contexts /\ slot[x] + 1 \in 1..Len(table[vm[x]])
            /\ table[vm[x]][slot[x] + 1] = x
        BY <3>1, <1>10
      <3>3. CASE vm[x] # c
        BY <3>1, <3>2, <3>3, <2>2
      <3>4. CASE vm[x] = c
        <4>1. slot[x] + 1 \in 1..n /\ t[slot[x] + 1] = x /\ slot[x] + 1 # n
          BY <3>1, <3>2, <3>4, <1>12
        <4>2. slot[x] + 1 \in 1..(n - 1)
          BY <4>1, <1>3
        <4> HIDE DEF t, n, c
        <4> QED BY <4>1, <4>2, <3>1, <3>2, <3>4, <1>4, <2>2
      <3> QED BY <3>3, <3>4
    <2> QED BY <1>1, <1>9, <2>2, <2>3, <2>4 DEF CellsTyped, TableAgrees, Registered, RegisteredNext
  <1>13. CASE last # h
    <2>1. s \in 1..(n - 1) /\ s # n
      BY <1>2, <1>3, <1>13
    <2> DEFINE u == [front EXCEPT ![s] = last]
    <2>2. /\ u \in Seq(Handles) /\ Len(u) = n - 1
          /\ \A i \in 1..(n - 1) : u[i] = IF i = s THEN last ELSE t[i]
      <3> HIDE DEF front, n, s, last, t
      <3> QED BY <1>3, <1>4, <2>1, ExceptSeq
    <2>3. /\ table' \in [Contexts -> Seq(Handles)]
          /\ table'[c] = u /\ \A d \in Contexts : d # c => table'[d] = table[d]
      <3>1. table' = [table EXCEPT ![c] = u]
        BY <1>5, <1>13
      <3> HIDE DEF u, c
      <3> QED BY <3>1, <1>1, <1>2, <2>2
    <2>4. /\ slot' \in [Handles -> Nat \cup {-1}] /\ slot'[last] = s - 1
          /\ \A x \in Handles : x # last => slot'[x] = slot[x]
      <3>1. slot' = [slot EXCEPT ![last] = slot[h]]
        BY <1>5, <1>13
      <3> HIDE DEF last
      <3> QED BY <3>1, <1>1, <1>3, <1>11
    <2>5. ASSUME NEW d \in Contexts, NEW i \in 1..Len(table'[d])
          PROVE  /\ RegisteredNext(table'[d][i]) /\ vm'[table'[d][i]] = d
                 /\ slot'[table'[d][i]] = i - 1
      <3>1. CASE d # c
        <4>1. i \in 1..Len(table[d]) /\ table'[d][i] = table[d][i]
          BY <3>1, <2>3, <2>5
        <4>2. vm[table[d][i]] = d /\ table[d][i] \in Handles /\ Registered(table[d][i])
              /\ slot[table[d][i]] = i - 1
          BY <4>1, <1>6
        <4>3. table[d][i] # h /\ table[d][i] # last
          BY <4>2, <3>1, <1>7
        <4> HIDE DEF last, c
        <4> QED BY <4>1, <4>2, <4>3, <1>8, <1>9, <2>4
      <3>2. CASE d = c /\ i = s
        <4>1. table'[d][i] = last
          BY <3>2, <2>1, <2>2, <2>3
        <4> HIDE DEF last, c, t, n, s, u
        <4> QED BY <4>1, <3>2, <1>3, <1>7, <1>8, <1>9, <1>13, <2>4
      <3>3. CASE d = c /\ i # s
        <4> HIDE DEF last, c, t, n, s, u
        <4>1. i \in 1..(n - 1) /\ table'[d][i] = t[i]
          BY <3>3, <2>2, <2>3, <2>5
        <4>2. i \in 1..n /\ i # n
          BY <4>1, <1>3
        <4>3. /\ t[i] \in Handles /\ Registered(t[i]) /\ vm[t[i]] = c /\ slot[t[i]] = i - 1
          BY <4>2, <1>7
        <4>4. t[i] # h
          BY <4>2, <4>3, <1>11, <3>3, <2>1
        <4>5. t[i] # last
          BY <4>2, <4>3, <1>7, <1>3
        <4> QED BY <4>1, <4>3, <4>4, <4>5, <3>3, <1>8, <1>9, <2>4
      <3> QED BY <3>1, <3>2, <3>3
    <2>6. ASSUME NEW x \in Handles, RegisteredNext(x)
          PROVE  /\ vm'[x] \in Contexts
                 /\ slot'[x] + 1 \in 1..Len(table'[vm'[x]])
                 /\ table'[vm'[x]][slot'[x] + 1] = x
      <3>1. x # h /\ Registered(x) /\ vm'[x] = vm[x]
        BY <2>6, <1>8, <1>9
      <3>2. CASE x = last
        <4>1. slot'[x] + 1 = s /\ vm[x] = c
          BY <3>2, <1>7, <2>1, <2>4
        <4> HIDE DEF last, c, t, n, s, u
        <4> QED BY <4>1, <3>1, <3>2, <1>2, <2>1, <2>2, <2>3
      <3>3. CASE x # last
        <4>1. /\ vm[x] \in Contexts /\ slot[x] + 1 \in 1..Len(table[vm[x]])
              /\ table[vm[x]][slot[x] + 1] = x /\ slot'[x] = slot[x]
          BY <3>1, <3>3, <1>10, <2>4
        <4>2. CASE vm[x] # c
          BY <3>1, <4>1, <4>2, <2>3
        <4>3. CASE vm[x] = c
          <5>1. slot[x] + 1 \in 1..n /\ t[slot[x] + 1] = x
            BY <4>1, <4>3
          <5> HIDE DEF c, t, s, u
          <5>2. slot[x] + 1 # n /\ slot[x] + 1 # s
            BY <5>1, <1>2, <3>1, <3>3
          <5> HIDE DEF last, n
          <5>3. slot[x] + 1 \in 1..(n - 1)
            BY <5>1, <5>2, <1>3
          <5> QED BY <5>1, <5>2, <5>3, <3>1, <4>1, <4>3, <2>2, <2>3
        <4> QED BY <4>2, <4>3
      <3> QED BY <3>2, <3>3
    <2> QED BY <1>1, <1>9, <2>3, <2>4, <2>5, <2>6, SMTT(30) DEF CellsTyped, TableAgrees, Registered, RegisteredNext
  <1> QED BY <1>12, <1>13

-----------------------------------------------------------------------------
(* The reference counts.                                                   *)

(* When only the handle h changes, only h changes the number of handles    *)
(* that own a reference to an object.                                      *)
LEMMA OwnersChange ==
    ASSUME NEW h \in Handles, NEW o,
           \A x \in Handles : x # h => life'[x] = life[x] /\ obj'[x] = obj[x]
    PROVE  /\ Cardinality(OwnersOf(o)) \in Nat
           /\ Cardinality(OwnersOf(o)') = Cardinality(OwnersOf(o))
                + (IF RegisteredNext(h) /\ obj'[h] = o THEN 1 ELSE 0)
                - (IF Registered(h) /\ obj[h] = o THEN 1 ELSE 0)
  <1> DEFINE A == OwnersOf(o)
             B == OwnersOf(o)'
             new == RegisteredNext(h) /\ obj'[h] = o
             old == Registered(h) /\ obj[h] = o
  <1>1. IsFiniteSet(A) /\ Cardinality(A) \in Nat
    BY HandlesAssumption, FS_Subset, FS_CardinalityType DEF OwnersOf
  <1>2. B = {x \in Handles : IF x = h THEN new ELSE Registered(x) /\ obj[x] = o}
    BY DEF OwnersOf, Registered, RegisteredNext
  <1>3. A = {x \in Handles : Registered(x) /\ obj[x] = o}
    BY DEF OwnersOf
  <1>4. h \in A <=> old
    BY <1>3
  <1> HIDE DEF A, B
  <1>5. CASE new /\ old
    <2>1. B = A BY <1>2, <1>3, <1>5
    <2> QED BY <2>1, <1>1, <1>5 DEF A, B
  <1>6. CASE ~new /\ ~old
    <2>1. B = A BY <1>2, <1>3, <1>6
    <2> QED BY <2>1, <1>1, <1>6 DEF A, B
  <1>7. CASE new /\ ~old
    <2>1. B = A \cup {h} BY <1>2, <1>3, <1>7
    <2>2. Cardinality(B) = Cardinality(A) + 1 BY <2>1, <1>1, <1>4, <1>7, FS_AddElement
    <2> QED BY <2>2, <1>1, <1>7 DEF A, B
  <1>8. CASE ~new /\ old
    <2>1. B = A \ {h} BY <1>2, <1>3, <1>8
    <2>2. Cardinality(B) = Cardinality(A) - 1 BY <2>1, <1>1, <1>4, <1>8, FS_RemoveElement
    <2> QED BY <2>2, <1>1, <1>8 DEF A, B
  <1> QED BY <1>5, <1>6, <1>7, <1>8

(* The balance in terms of the owners.                                     *)
LEMMA BalanceMeans ==
    /\ RefsBalance <=> \A o \in Objects : refs[o] = guest[o] + Cardinality(OwnersOf(o))
    /\ RefsBalance' <=> \A o \in Objects : refs'[o] = guest'[o] + Cardinality(OwnersOf(o)')
  BY DEF RefsBalance, OwnersOf

(* One handle changes, and the counts with it: the balance is kept, and no *)
(* count falls below 0.                                                    *)
LEMMA BalanceKept ==
    ASSUME Owns, NEW h \in Handles,
           \A x \in Handles : x # h => life'[x] = life[x] /\ obj'[x] = obj[x],
           refs' \in [Objects -> Int], guest' \in [Objects -> Nat],
           \A o \in Objects : refs'[o] - guest'[o] = refs[o] - guest[o]
                + (IF RegisteredNext(h) /\ obj'[h] = o THEN 1 ELSE 0)
                - (IF Registered(h) /\ obj[h] = o THEN 1 ELSE 0)
    PROVE  RefsBalance' /\ refs' \in [Objects -> Nat]
  <1>1. ASSUME NEW o \in Objects
        PROVE  refs'[o] = guest'[o] + Cardinality(OwnersOf(o)') /\ refs'[o] \in Nat
    <2>1. /\ Cardinality(OwnersOf(o)) \in Nat
          /\ Cardinality(OwnersOf(o)') = Cardinality(OwnersOf(o))
                + (IF RegisteredNext(h) /\ obj'[h] = o THEN 1 ELSE 0)
                - (IF Registered(h) /\ obj[h] = o THEN 1 ELSE 0)
      BY OwnersChange
    <2>2. refs[o] = guest[o] + Cardinality(OwnersOf(o))
      BY BalanceMeans DEF Owns
    <2>3. refs[o] \in Nat /\ guest[o] \in Nat /\ refs'[o] \in Int /\ guest'[o] \in Nat
      BY DEF Owns, CountsTyped
    <2>4. IsFiniteSet(OwnersOf(o)')
      BY HandlesAssumption, FS_Subset DEF OwnersOf
    <2>5. Cardinality(OwnersOf(o)') \in Nat
      BY <2>4, FS_CardinalityType
    <2> QED BY <2>1, <2>2, <2>3, <2>5
  <1>2. RefsBalance'
    BY <1>1, BalanceMeans
  <1> QED BY <1>1, <1>2

(* The counts alone change.                                                *)
LEMMA BalanceKeptAlone ==
    ASSUME Owns, UNCHANGED cells, refs' \in [Objects -> Int], guest' \in [Objects -> Nat],
           \A o \in Objects : refs'[o] - guest'[o] = refs[o] - guest[o]
    PROVE  RefsBalance' /\ refs' \in [Objects -> Nat]
  <1>1. ASSUME NEW o \in Objects
        PROVE  refs'[o] = guest'[o] + Cardinality(OwnersOf(o)') /\ refs'[o] \in Nat
    <2>1. OwnersOf(o)' = OwnersOf(o) /\ IsFiniteSet(OwnersOf(o))
      BY HandlesAssumption, FS_Subset DEF OwnersOf, Registered, cells
    <2>2. refs[o] = guest[o] + Cardinality(OwnersOf(o))
      BY BalanceMeans DEF Owns
    <2>3. refs[o] \in Nat /\ guest[o] \in Nat /\ refs'[o] \in Int /\ guest'[o] \in Nat
      BY DEF Owns, CountsTyped
    <2>4. Cardinality(OwnersOf(o)) \in Nat
      BY <2>1, FS_CardinalityType
    <2> QED BY <2>1, <2>2, <2>3, <2>4
  <1>2. RefsBalance'
    BY <1>1, BalanceMeans
  <1> QED BY <1>1, <1>2

(* A handle is made that owns a reference taken for it: resultValue, dup,  *)
(* #borrow.                                                                *)
LEMMA MakeOwns ==
    ASSUME Owns, NEW h \in Handles, life[h] # "live",
           NEW c \in Contexts \cup {Nil}, NEW v \in Objects \cup {Nil},
           v # Nil => c \in Contexts \ closed,
           Construct(h, c, v), Dup(v), UNCHANGED <<guest, zero, closed>>
    PROVE  Owns' /\ \A x \in Handles : x # h => life'[x] = life[x]
  <1>1. /\ CellsTyped' /\ TableAgrees'
        /\ life'[h] = "live" /\ vm'[h] = c /\ obj'[h] = v
        /\ \A x \in Handles : x # h =>
              life'[x] = life[x] /\ vm'[x] = vm[x] /\ obj'[x] = obj[x]
    BY ConstructFacts DEF Owns
  <1>2. refs \in [Objects -> Nat] /\ guest \in [Objects -> Nat] /\ zero \in Seq(Finalized)
    BY DEF Owns, CountsTyped
  <1>3. /\ refs' \in [Objects -> Int]
        /\ \A o \in Objects : refs'[o] = refs[o] + IF v = o THEN 1 ELSE 0
    <2>1. CASE v = Nil
      BY <2>1, <1>2, ObjectsAssumption DEF Dup
    <2>2. CASE v # Nil
      BY <2>2, <1>2 DEF Dup
    <2> QED BY <2>1, <2>2
  <1>4. /\ RegisteredNext(h) <=> v # Nil
        /\ ~Registered(h)
    BY <1>1 DEF Registered, RegisteredNext
  <1>5. \A o \in Objects : refs'[o] - guest'[o] = refs[o] - guest[o]
                + (IF RegisteredNext(h) /\ obj'[h] = o THEN 1 ELSE 0)
                - (IF Registered(h) /\ obj[h] = o THEN 1 ELSE 0)
    BY <1>1, <1>2, <1>3, <1>4, ObjectsAssumption
  <1>6. guest' \in [Objects -> Nat] /\ zero' \in Seq(Finalized)
    BY <1>2
  <1>7. RefsBalance' /\ refs' \in [Objects -> Nat]
    BY <1>1, <1>3, <1>5, <1>6, BalanceKept
  <1>8. ClosedOwnsNothing'
    <2> SUFFICES ASSUME NEW x \in Handles, RegisteredNext(x) PROVE vm'[x] \notin closed'
      BY DEF ClosedOwnsNothing, Registered, RegisteredNext
    <2>1. CASE x = h
      BY <2>1, <1>1, <1>4
    <2>2. CASE x # h
      BY <2>2, <1>1 DEF Owns, ClosedOwnsNothing, Registered, RegisteredNext
    <2> QED BY <2>1, <2>2
  <1> QED BY <1>1, <1>6, <1>7, <1>8 DEF Owns, CountsTyped

(* A handle is made for a value that is not counted.                       *)
LEMMA MakePrimitive ==
    ASSUME Owns, NEW h \in Handles, life[h] # "live", NEW c \in Contexts \cup {Nil},
           Construct(h, c, Nil), UNCHANGED <<counts, closed>>
    PROVE  Owns' /\ \A x \in Handles : x # h => life'[x] = life[x]
  <1>1. Dup(Nil) /\ UNCHANGED <<guest, zero, closed>>
    BY DEF Dup, counts
  <1> QED BY <1>1, MakeOwns

(* Nothing of the tables and counts changes.                               *)
LEMMA OwnsStays ==
    ASSUME Owns, UNCHANGED <<cells, counts, closed>>
    PROVE  Owns'
  BY DEF Owns, cells, counts, CellsTyped, CountsTyped, TableAgrees, RefsBalance,
         ClosedOwnsNothing, Registered

(* A live handle stops owning: the tables, and who owns what.              *)
LEMMA RetireFacts ==
    ASSUME Owns, NEW h \in Handles, life[h] = "live",
           life' = [life EXCEPT ![h] = "disposed"], UNCHANGED <<vm, obj, closed>>,
           IF obj[h] = Nil THEN UNCHANGED <<table, slot>> ELSE Unregister(h)
    PROVE  /\ CellsTyped' /\ TableAgrees' /\ ClosedOwnsNothing'
           /\ life'[h] = "disposed" /\ \A x \in Handles : x # h => life'[x] = life[x]
           /\ ~RegisteredNext(h)
  <1>1. life \in [Handles -> Lives] /\ CellsTyped /\ TableAgrees
    BY DEF Owns, CellsTyped
  <1>2. /\ life'[h] = "disposed" /\ \A x \in Handles : x # h => life'[x] = life[x]
        /\ ~RegisteredNext(h) /\ life' \in [Handles -> Lives]
    BY <1>1 DEF RegisteredNext, Lives
  <1>3. \A x \in Handles : RegisteredNext(x) <=> Registered(x) /\ x # h
    BY <1>2 DEF RegisteredNext, Registered
  <1>4. ClosedOwnsNothing'
    BY <1>3 DEF Owns, ClosedOwnsNothing, Registered, RegisteredNext
  <1>5. CASE obj[h] # Nil
    <2>1. Registered(h) /\ Unregister(h)
      BY <1>5 DEF Registered
    <2> QED BY <1>1, <1>2, <1>4, <2>1, UnregisterFacts
  <1>6. CASE obj[h] = Nil
    <2>1. UNCHANGED <<table, slot, vm, obj>> /\ ~Registered(h)
      BY <1>6 DEF Registered
    <2>2. CellsTyped'
      BY <1>1, <1>2, <2>1 DEF CellsTyped
    <2>3. TableAgrees'
      <3>1. \A d \in Contexts : \A i \in 1..Len(table[d]) :
               table[d][i] \in Handles /\ table[d][i] # h
        BY <1>1, <2>1, InTable DEF TableAgrees, CellsTyped
      <3> QED BY <1>1, <1>3, <2>1, <3>1 DEF TableAgrees, Registered, RegisteredNext
    <2> QED BY <1>2, <1>4, <2>2, <2>3
  <1> QED BY <1>5, <1>6

(* JS_FreeValue queues objects of a class with a finalizer only.           *)
LEMMA FreeZero ==
    ASSUME zero \in Seq(Finalized), NEW v, Free(v)
    PROVE  zero' \in Seq(Finalized)
  <1>1. CASE refs[v] = 1 /\ v \in Finalized
    <2>1. <<v>> \in Seq(Finalized) /\ zero' = <<v>> \o zero
      BY <1>1 DEF Free
    <2> QED BY <2>1, ConcatProperties
  <1>2. CASE ~(refs[v] = 1 /\ v \in Finalized)
    BY <1>2 DEF Free
  <1> QED BY <1>1, <1>2

(* JSValue.dispose gives back the handle's reference, once.                *)
LEMMA DisposeOwns ==
    ASSUME Owns, NEW h \in Handles, Dispose(h), UNCHANGED closed
    PROVE  /\ Owns'
           /\ life'[h] = "disposed" /\ \A x \in Handles : x # h => life'[x] = life[x]
  <1>1. CASE life[h] = "disposed" /\ UNCHANGED <<cells, counts>>
    BY <1>1, OwnsStays DEF cells
  <1>2. CASE life[h] = "live" /\ obj[h] = Nil
             /\ life' = [life EXCEPT ![h] = "disposed"] /\ UNCHANGED <<table, slot, vm, obj, counts>>
    <2>1. /\ CellsTyped' /\ TableAgrees' /\ ClosedOwnsNothing'
          /\ life'[h] = "disposed" /\ \A x \in Handles : x # h => life'[x] = life[x]
          /\ ~RegisteredNext(h)
      BY <1>2, RetireFacts
    <2>2. ~Registered(h) /\ \A x \in Handles : obj'[x] = obj[x]
      BY <1>2 DEF Registered
    <2>3. refs \in [Objects -> Nat] /\ guest \in [Objects -> Nat] /\ zero \in Seq(Finalized)
      BY DEF Owns, CountsTyped
    <2>4. UNCHANGED <<refs, guest, zero>>
      BY <1>2 DEF counts
    <2>5. \A o \in Objects : refs'[o] - guest'[o] = refs[o] - guest[o]
                + (IF RegisteredNext(h) /\ obj'[h] = o THEN 1 ELSE 0)
                - (IF Registered(h) /\ obj[h] = o THEN 1 ELSE 0)
      BY <2>1, <2>2, <2>3, <2>4
    <2>6. refs' \in [Objects -> Int] /\ guest' \in [Objects -> Nat]
      BY <2>3, <2>4
    <2>7. RefsBalance' /\ refs' \in [Objects -> Nat]
      BY <2>1, <2>2, <2>5, <2>6, BalanceKept
    <2> QED BY <2>1, <2>3, <2>4, <2>7 DEF Owns, CountsTyped
  <1>3. CASE /\ Registered(h)
             /\ life' = [life EXCEPT ![h] = "disposed"]
             /\ Unregister(h)
             /\ IF vm[h] \in closed THEN UNCHANGED <<refs, zero>> ELSE Free(obj[h])
             /\ UNCHANGED <<vm, obj, guest>>
    <2>1. life[h] = "live" /\ obj[h] # Nil /\ vm[h] \notin closed
      BY <1>3 DEF Registered, Owns, ClosedOwnsNothing
    <2>2. /\ CellsTyped' /\ TableAgrees' /\ ClosedOwnsNothing'
          /\ life'[h] = "disposed" /\ \A x \in Handles : x # h => life'[x] = life[x]
          /\ ~RegisteredNext(h)
      BY <1>3, <2>1, RetireFacts
    <2>3. refs \in [Objects -> Nat] /\ guest \in [Objects -> Nat] /\ zero \in Seq(Finalized)
      BY DEF Owns, CountsTyped
    <2>4. obj[h] \in Objects /\ \A x \in Handles : obj'[x] = obj[x]
      BY <1>3, <2>1 DEF Owns, CellsTyped
    <2>5. refs' = [refs EXCEPT ![obj[h]] = @ - 1] /\ guest' = guest
      BY <1>3, <2>1 DEF Free
    <2>6. zero' \in Seq(Finalized)
      BY <1>3, <2>1, <2>3, FreeZero
    <2>7. \A o \in Objects : refs'[o] - guest'[o] = refs[o] - guest[o]
                + (IF RegisteredNext(h) /\ obj'[h] = o THEN 1 ELSE 0)
                - (IF Registered(h) /\ obj[h] = o THEN 1 ELSE 0)
      BY <1>3, <2>2, <2>3, <2>4, <2>5
    <2>8. refs' \in [Objects -> Int] /\ guest' \in [Objects -> Nat]
      BY <2>3, <2>4, <2>5
    <2>9. RefsBalance' /\ refs' \in [Objects -> Nat]
      BY <2>2, <2>4, <2>7, <2>8, BalanceKept
    <2> QED BY <2>2, <2>6, <2>8, <2>9 DEF Owns, CountsTyped
  <1> QED BY <1>1, <1>2, <1>3 DEF Dispose

-----------------------------------------------------------------------------
(* The stack.                                                              *)

(* The two halves of the invariant.                                        *)
LEMMA Halves ==
    /\ IInv <=> Owns /\ Nests /\ closed \subseteq Contexts
    /\ IInv' <=> Owns' /\ Nests' /\ (closed \subseteq Contexts)'
  BY DEF IInv, Owns, Nests, TypeOK, CellsTyped, CountsTyped

(* The innermost frame.                                                    *)
LEMMA TopFacts ==
    ASSUME stack \in Seq(Frame), stack # <<>>
    PROVE  /\ Len(stack) \in Nat \ {0} /\ Len(stack) \in 1..Len(stack)
           /\ Top = stack[Len(stack)] /\ Top \in Frame
           /\ Top.args \in Seq(Handles) /\ Len(Top.args) \in Nat
           /\ \A j \in 1..Len(Top.args) : Top.args[j] \in Handles
  <1>1. Len(stack) \in Nat \ {0} /\ Len(stack) \in 1..Len(stack)
    BY EmptySeq
  <1>2. Top = stack[Len(stack)] /\ Top \in Frame
    BY <1>1, ElementOfSeq DEF Top
  <1>3. Top.args \in Seq(Handles)
    BY <1>2 DEF Frame
  <1> QED BY <1>1, <1>2, <1>3, LenProperties, ElementOfSeq

(* Every frame is one of Frame.                                            *)
LEMMA FramesTyped ==
    ASSUME stack \in Seq(Frame), NEW i \in 1..Len(stack)
    PROVE  /\ stack[i] \in Frame /\ Len(stack[i].args) \in Nat
           /\ \A j \in 1..Len(stack[i].args) : stack[i].args[j] \in Handles
  <1>1. stack[i] \in Frame
    BY ElementOfSeq
  <1>2. stack[i].args \in Seq(Handles)
    BY <1>1 DEF Frame
  <1> QED BY <1>1, <1>2, LenProperties, ElementOfSeq

(* What entering a frame leaves on the stack.                              *)
LEMMA PushFacts ==
    ASSUME stack \in Seq(Frame), NEW f \in Frame, Push(f)
    PROVE  /\ stack' \in Seq(Frame) /\ Len(stack) \in Nat /\ Len(stack') = Len(stack) + 1
           /\ \A i \in 1..Len(stack) : stack'[i] = stack[i]
           /\ stack'[Len(stack) + 1] = f
  BY AppendProperties, LenProperties DEF Push

(* What leaving a frame leaves on the stack.                               *)
LEMMA PopFacts ==
    ASSUME stack \in Seq(Frame), stack # <<>>
    PROVE  /\ Rest \in Seq(Frame) /\ Len(stack) \in Nat \ {0} /\ Len(Rest) = Len(stack) - 1
           /\ \A i \in 1..(Len(stack) - 1) : Rest[i] = stack[i]
  <1>1. Len(stack) \in Nat \ {0}
    BY EmptySeq
  <1>2. \A i \in 1..(Len(stack) - 1) : i \in 1..Len(stack)
    BY <1>1
  <1>3. \A i \in 1..(Len(stack) - 1) : stack[i] \in Frame
    BY <1>2, ElementOfSeq
  <1> DEFINE n == Len(stack) - 1
  <1>4. n \in Int /\ n >= 0 /\ Rest = SubSeq(stack, 1, n)
    BY <1>1 DEF Rest
  <1> HIDE DEF n
  <1>5. /\ SubSeq(stack, 1, n) \in Seq(Frame)
        /\ Len(SubSeq(stack, 1, n)) = IF 1 <= n THEN n - 1 + 1 ELSE 0
        /\ \A i \in 1..(n - 1 + 1) : SubSeq(stack, 1, n)[i] = stack[1 + i - 1]
    BY <1>3, <1>4, SubSeqProperties DEF n
  <1>6. Len(Rest) = n
    BY <1>4, <1>5
  <1>7. \A i \in 1..n : Rest[i] = stack[i]
    BY <1>4, <1>5
  <1> QED BY <1>1, <1>4, <1>5, <1>6, <1>7 DEF n

(* What a change of the innermost frame leaves on the stack.               *)
LEMMA RetopFacts ==
    ASSUME stack \in Seq(Frame), stack # <<>>, NEW f \in Frame, Retop(f)
    PROVE  /\ stack' \in Seq(Frame) /\ Len(stack) \in Nat \ {0} /\ Len(stack') = Len(stack)
           /\ \A i \in 1..(Len(stack) - 1) : stack'[i] = stack[i]
           /\ stack'[Len(stack)] = f
  <1>1. /\ Rest \in Seq(Frame) /\ Len(stack) \in Nat \ {0} /\ Len(Rest) = Len(stack) - 1
        /\ \A i \in 1..(Len(stack) - 1) : Rest[i] = stack[i]
    BY PopFacts
  <1>2. /\ Append(Rest, f) \in Seq(Frame) /\ Len(Append(Rest, f)) = Len(Rest) + 1
        /\ \A i \in 1..Len(Rest) : Append(Rest, f)[i] = Rest[i]
        /\ Append(Rest, f)[Len(Rest) + 1] = f
    BY <1>1, AppendProperties
  <1>3. stack' = Append(Rest, f) /\ Len(Rest) + 1 = Len(stack)
    BY <1>1 DEF Retop
  <1> QED BY <1>1, <1>2, <1>3

(* The counted frames are finitely many.                                   *)
LEMMA CountedFinite ==
    ASSUME stack \in Seq(Frame)
    PROVE  IsFiniteSet(CountedAt) /\ Cardinality(CountedAt) \in Nat
  <1>1. Len(stack) \in Int
    BY LenProperties
  <1>2. IsFiniteSet(1..Len(stack)) /\ CountedAt \subseteq 1..Len(stack)
    BY <1>1, FS_Interval DEF CountedAt
  <1>3. IsFiniteSet(CountedAt)
    BY <1>2, FS_Subset
  <1> QED BY <1>3, FS_CardinalityType

(* Entering a frame, ...                                                   *)
LEMMA DepthPush ==
    ASSUME stack \in Seq(Frame), DepthCounts, NEW f \in Frame, Push(f),
           hostDepth' = hostDepth + IF Counted(f) THEN 1 ELSE 0
    PROVE  DepthCounts' /\ hostDepth' \in Nat
  <1> DEFINE n == Len(stack)
  <1>1. /\ n \in Nat /\ Len(stack') = n + 1
        /\ \A i \in 1..n : stack'[i] = stack[i]
        /\ stack'[n + 1] = f
    BY PushFacts
  <1>2. IsFiniteSet(CountedAt) /\ Cardinality(CountedAt) \in Nat /\ n + 1 \notin CountedAt
    BY <1>1, CountedFinite DEF CountedAt
  <1>3. CountedAt' = {i \in 1..Len(stack') : Counted(stack'[i])}
    BY DEF CountedAt, Counted
  <1>4. CountedAt = {i \in 1..n : Counted(stack[i])}
    BY DEF CountedAt
  <1>5. 1..Len(stack') = (1..n) \cup {n + 1} /\ n + 1 \notin 1..n
    BY <1>1
  <1> HIDE DEF n
  <1>6. CASE Counted(f)
    <2>1. CountedAt' = CountedAt \cup {n + 1}
      BY <1>1, <1>3, <1>4, <1>5, <1>6
    <2>2. Cardinality(CountedAt') = Cardinality(CountedAt) + 1
      BY <2>1, <1>2, FS_AddElement
    <2> QED BY <2>2, <1>2, <1>6 DEF DepthCounts
  <1>7. CASE ~Counted(f)
    <2>1. CountedAt' = CountedAt
      BY <1>1, <1>3, <1>4, <1>5, <1>7
    <2> QED BY <2>1, <1>2, <1>7 DEF DepthCounts
  <1> QED BY <1>6, <1>7

(* ... leaving one ...                                                     *)
LEMMA DepthPop ==
    ASSUME stack \in Seq(Frame), DepthCounts, stack # <<>>, stack' = Rest,
           hostDepth' = hostDepth - IF Counted(Top) THEN 1 ELSE 0
    PROVE  DepthCounts' /\ hostDepth' \in Nat
  <1> DEFINE n == Len(stack)
  <1>1. /\ n \in Nat \ {0} /\ Len(stack') = n - 1
        /\ \A i \in 1..(n - 1) : stack'[i] = stack[i]
        /\ Top = stack[n]
    BY PopFacts, TopFacts
  <1>2. IsFiniteSet(CountedAt) /\ Cardinality(CountedAt) \in Nat
    BY CountedFinite
  <1>3. CountedAt' = {i \in 1..Len(stack') : Counted(stack'[i])}
    BY DEF CountedAt, Counted
  <1>4. CountedAt = {i \in 1..n : Counted(stack[i])}
    BY DEF CountedAt
  <1>5. 1..n = (1..Len(stack')) \cup {n} /\ n \notin 1..Len(stack') /\ Len(stack') = n - 1
    BY <1>1
  <1> HIDE DEF n
  <1>6. CASE Counted(Top)
    <2>1. CountedAt' = CountedAt \ {n} /\ n \in CountedAt
      BY <1>1, <1>3, <1>4, <1>5, <1>6
    <2>2. Cardinality(CountedAt') = Cardinality(CountedAt) - 1 /\ IsFiniteSet(CountedAt')
      BY <2>1, <1>2, FS_RemoveElement
    <2>3. Cardinality(CountedAt') \in Nat
      BY <2>2, FS_CardinalityType
    <2> QED BY <2>2, <2>3, <1>2, <1>6 DEF DepthCounts
  <1>7. CASE ~Counted(Top)
    <2>1. CountedAt' = CountedAt
      BY <1>1, <1>3, <1>4, <1>5, <1>7
    <2> QED BY <2>1, <1>2, <1>7 DEF DepthCounts
  <1> QED BY <1>6, <1>7

(* ... and changing one are what hostDepth has to follow.                  *)
LEMMA DepthRetop ==
    ASSUME stack \in Seq(Frame), DepthCounts, stack # <<>>, NEW f \in Frame, Retop(f),
           Counted(f) => Counted(Top),
           hostDepth' = hostDepth - IF Counted(Top) /\ ~Counted(f) THEN 1 ELSE 0
    PROVE  DepthCounts' /\ hostDepth' \in Nat
  <1> DEFINE n == Len(stack)
  <1>1. /\ n \in Nat \ {0} /\ Len(stack') = n
        /\ \A i \in 1..(n - 1) : stack'[i] = stack[i]
        /\ Top = stack[n] /\ stack'[n] = f
    BY RetopFacts, TopFacts
  <1>2. IsFiniteSet(CountedAt) /\ Cardinality(CountedAt) \in Nat
    BY CountedFinite
  <1>3. CountedAt' = {i \in 1..Len(stack') : Counted(stack'[i])}
    BY DEF CountedAt, Counted
  <1>4. CountedAt = {i \in 1..n : Counted(stack[i])}
    BY DEF CountedAt
  <1>5. 1..n = (1..(n - 1)) \cup {n} /\ n \notin 1..(n - 1)
    BY <1>1
  <1> HIDE DEF n
  <1>6. CASE Counted(Top) /\ ~Counted(f)
    <2>1. CountedAt' = CountedAt \ {n} /\ n \in CountedAt
      BY <1>1, <1>3, <1>4, <1>5, <1>6
    <2>2. Cardinality(CountedAt') = Cardinality(CountedAt) - 1 /\ IsFiniteSet(CountedAt')
      BY <2>1, <1>2, FS_RemoveElement
    <2>3. Cardinality(CountedAt') \in Nat
      BY <2>2, FS_CardinalityType
    <2> QED BY <2>2, <2>3, <1>2, <1>6 DEF DepthCounts
  <1>7. CASE Counted(Top) <=> Counted(f)
    <2>1. CountedAt' = CountedAt
      BY <1>1, <1>3, <1>4, <1>5, <1>7
    <2> QED BY <2>1, <1>2, <1>7 DEF DepthCounts
  <1> QED BY <1>6, <1>7

(* Where host code runs, hostDepth is 0 only outside everything else: why  *)
(* JSContext.dispose may rely on it.                                       *)
LEMMA IdleMeansEmpty ==
    ASSUME Nests, HostRuns, hostDepth = 0
    PROVE  stack = <<>>
  <1> SUFFICES ASSUME stack # <<>> PROVE FALSE
    OBVIOUS
  <1>0. stack \in Seq(Frame) /\ DepthCounts
    BY DEF Nests
  <1>1. Len(stack) \in 1..Len(stack) /\ Top = stack[Len(stack)] /\ Top \in Frame
    BY <1>0, TopFacts
  <1>2. Counted(Top)
    <2>1. Top.kind \in Borrowers \cup {"finalizer", "dispose"}
      BY <1>1 DEF Frame
    <2> QED BY <2>1 DEF HostRuns, Counted, Borrowers
  <1>3. CountedAt # {}
    BY <1>1, <1>2 DEF CountedAt
  <1>4. Cardinality(CountedAt) # 0
    BY <1>0, <1>3, CountedFinite, FS_EmptySet
  <1> QED BY <1>0, <1>4 DEF DepthCounts

(* Making a handle that no argument list has revives none of these, and    *)
(* neither does disposing one.                                             *)
LEMMA NoneRevived ==
    ASSUME stack \in Seq(Frame), NEW h \in Handles,
           \A x \in Handles : x # h => life'[x] = life[x],
           Fresh(h) \/ life'[h] = "disposed"
    PROVE  NoArgRevives
  <1> SUFFICES ASSUME NEW i \in 1..Len(stack), NEW j \in 1..Len(stack[i].args),
                      life[stack[i].args[j]] = "disposed"
               PROVE  life'[stack[i].args[j]] = "disposed"
    BY DEF NoArgRevives
  <1>1. stack[i].args[j] \in Handles
    BY FramesTyped
  <1>2. Fresh(h) => stack[i].args[j] # h
    BY DEF Fresh, InUse
  <1> QED BY <1>1, <1>2

(* A frame on the stack stays in order.                                    *)
LEMMA FrameStays ==
    ASSUME FramesOK, NoArgRevives, UNCHANGED closed, NEW i \in 1..Len(stack)
    PROVE  FrameOK(stack[i], life', closed') /\ (stack[i].kind = "dispose" => i = 1)
  BY DEF FramesOK, FrameOK, NoArgRevives

(* The stack is not touched, ...                                           *)
LEMMA NestsStays ==
    ASSUME Nests, NoArgRevives, UNCHANGED <<closed, hostDepth, stack>>
    PROVE  Nests'
  <1>1. FramesOK'
    BY FrameStays DEF Nests, FramesOK
  <1> QED BY <1>1 DEF Nests, DepthCounts, CountedAt, Counted

(* ... a frame is entered, ...                                             *)
LEMMA NestsPush ==
    ASSUME Nests, NoArgRevives, UNCHANGED closed, NEW f \in Frame, Push(f),
           FrameOK(f, life', closed'), f.kind = "dispose" => stack = <<>>,
           hostDepth' = hostDepth + IF Counted(f) THEN 1 ELSE 0
    PROVE  Nests'
  <1>0. stack \in Seq(Frame) /\ FramesOK /\ DepthCounts
    BY DEF Nests
  <1>1. /\ stack' \in Seq(Frame) /\ Len(stack) \in Nat /\ Len(stack') = Len(stack) + 1
        /\ \A i \in 1..Len(stack) : stack'[i] = stack[i]
        /\ stack'[Len(stack) + 1] = f
    BY <1>0, PushFacts
  <1>2. DepthCounts' /\ hostDepth' \in Nat
    BY <1>0, DepthPush
  <1>3. ASSUME NEW i \in 1..Len(stack')
        PROVE  FrameOK(stack'[i], life', closed') /\ (stack'[i].kind = "dispose" => i = 1)
    <2>1. CASE i \in 1..Len(stack)
      <3>1. stack'[i] = stack[i]
        BY <2>1, <1>1
      <3> QED BY <2>1, <3>1, <1>0, FrameStays
    <2>2. CASE i = Len(stack) + 1
      <3>1. stack = <<>> => i = 1
        BY <2>2, EmptySeq
      <3> QED BY <2>2, <3>1, <1>1
    <2> QED BY <2>1, <2>2, <1>1
  <1> QED BY <1>1, <1>2, <1>3 DEF Nests, FramesOK

(* ... left, ...                                                           *)
LEMMA NestsPop ==
    ASSUME Nests, NoArgRevives, UNCHANGED closed, stack # <<>>, stack' = Rest,
           hostDepth' = hostDepth - IF Counted(Top) THEN 1 ELSE 0
    PROVE  Nests'
  <1>0. stack \in Seq(Frame) /\ FramesOK /\ DepthCounts
    BY DEF Nests
  <1>1. /\ stack' \in Seq(Frame) /\ Len(stack) \in Nat \ {0} /\ Len(stack') = Len(stack) - 1
        /\ \A i \in 1..(Len(stack) - 1) : stack'[i] = stack[i]
    BY <1>0, PopFacts
  <1>2. DepthCounts' /\ hostDepth' \in Nat
    BY <1>0, DepthPop
  <1>3. ASSUME NEW i \in 1..Len(stack')
        PROVE  FrameOK(stack'[i], life', closed') /\ (stack'[i].kind = "dispose" => i = 1)
    <2>1. stack'[i] = stack[i] /\ i \in 1..Len(stack)
      BY <1>1
    <2> QED BY <2>1, <1>0, FrameStays
  <1> QED BY <1>1, <1>2, <1>3 DEF Nests, FramesOK

(* ... or changed.                                                         *)
LEMMA NestsRetop ==
    ASSUME Nests, NoArgRevives, UNCHANGED closed, stack # <<>>, NEW f \in Frame, Retop(f),
           FrameOK(f, life', closed'), f.kind = Top.kind,
           Counted(f) => Counted(Top),
           hostDepth' = hostDepth - IF Counted(Top) /\ ~Counted(f) THEN 1 ELSE 0
    PROVE  Nests'
  <1>0. stack \in Seq(Frame) /\ FramesOK /\ DepthCounts
    BY DEF Nests
  <1>1. /\ stack' \in Seq(Frame) /\ Len(stack) \in Nat \ {0} /\ Len(stack') = Len(stack)
        /\ \A i \in 1..(Len(stack) - 1) : stack'[i] = stack[i]
        /\ stack'[Len(stack)] = f
    BY <1>0, RetopFacts
  <1>2. DepthCounts' /\ hostDepth' \in Nat
    BY <1>0, DepthRetop
  <1>3. ASSUME NEW i \in 1..Len(stack')
        PROVE  FrameOK(stack'[i], life', closed') /\ (stack'[i].kind = "dispose" => i = 1)
    <2>0. i \in 1..Len(stack)
      BY <1>1
    <2>1. CASE i \in 1..(Len(stack) - 1)
      <3>1. stack'[i] = stack[i]
        BY <2>1, <1>1
      <3> QED BY <2>0, <3>1, <1>0, FrameStays
    <2>2. CASE i = Len(stack)
      <3>1. Top.kind = "dispose" => i = 1
        BY <2>0, <2>2, <1>0, FrameStays DEF Top
      <3> QED BY <2>2, <3>1, <1>1
    <2> QED BY <2>0, <2>1, <2>2, <1>1
  <1> QED BY <1>1, <1>2, <1>3 DEF Nests, FramesOK

-----------------------------------------------------------------------------
(* Every action keeps the inductive invariant.                             *)

(* The invariant holds initially.                                          *)
LEMMA InitIInv == Init => IInv
  <1> SUFFICES ASSUME Init PROVE IInv
    OBVIOUS
  <1>1. CellsTyped /\ TableAgrees /\ ClosedOwnsNothing
    <2>1. \A h \in Handles : ~Registered(h)
      BY DEF Init, Registered
    <2>2. table \in [Contexts -> Seq(Handles)] /\ \A c \in Contexts : Len(table[c]) = 0
      BY EmptySeq DEF Init
    <2>3. CellsTyped
      BY <2>2 DEF Init, CellsTyped, Lives
    <2> QED BY <2>1, <2>2, <2>3 DEF TableAgrees, ClosedOwnsNothing
  <1>2. CountsTyped
    BY EmptySeq DEF Init, CountsTyped
  <1>3. RefsBalance
    <2>1. \A o \in Objects : OwnersOf(o) = {}
      BY DEF Init, OwnersOf, Registered
    <2>2. \A o \in Objects : Cardinality(OwnersOf(o)) = 0
      BY <2>1, FS_EmptySet
    <2> QED BY <2>2, BalanceMeans DEF Init
  <1>4. Nests
    <2>1. stack \in Seq(Frame) /\ Len(stack) = 0
      BY EmptySeq DEF Init
    <2>2. CountedAt = {}
      BY <2>1 DEF CountedAt
    <2>3. Cardinality(CountedAt) = 0
      BY <2>2, FS_EmptySet
    <2> QED BY <2>1, <2>3 DEF Init, Nests, FramesOK, DepthCounts
  <1> QED BY <1>1, <1>2, <1>3, <1>4, Halves DEF Owns, Init

(* resultValue and resultPrimitive.                                        *)
LEMMA ResultStep ==
    ASSUME IInv, NEW h \in Handles, NEW c \in Contexts,
           resultPrimitive(h, c) \/ \E o \in Objects : resultValue(h, c, o)
    PROVE  IInv'
  <1>1. Owns /\ Nests /\ closed \subseteq Contexts
    BY Halves
  <1>2. Fresh(h) /\ life[h] # "live" /\ c \notin closed
        /\ UNCHANGED <<closed, hostDepth, stack>>
    BY DEF resultPrimitive, resultValue, Fresh
  <1>3. Owns' /\ \A x \in Handles : x # h => life'[x] = life[x]
    <2>1. CASE resultPrimitive(h, c)
      BY <2>1, <1>1, <1>2, MakePrimitive DEF resultPrimitive
    <2>2. ASSUME NEW o \in Objects, resultValue(h, c, o)
          PROVE  Owns' /\ \A x \in Handles : x # h => life'[x] = life[x]
      BY <2>2, <1>1, <1>2, MakeOwns DEF resultValue
    <2> QED BY <2>1, <2>2
  <1>4. NoArgRevives
    BY <1>1, <1>2, <1>3, NoneRevived DEF Nests
  <1> QED BY <1>1, <1>2, <1>3, <1>4, NestsStays, Halves

(* JSValue.dup.                                                            *)
LEMMA DupStep ==
    ASSUME IInv, NEW h \in Handles, NEW copy \in Handles, dup(h, copy)
    PROVE  IInv'
  <1>1. Owns /\ Nests /\ closed \subseteq Contexts
    BY Halves
  <1>2. /\ Fresh(copy) /\ life[copy] # "live" /\ UNCHANGED <<guest, zero, closed, hostDepth, stack>>
        /\ Construct(copy, vm[h], obj[h]) /\ Dup(obj[h])
    BY DEF dup, Fresh
  <1>3. vm[h] \in Contexts \cup {Nil} /\ obj[h] \in Objects \cup {Nil}
    BY <1>1 DEF Owns, CellsTyped
  <1>4. obj[h] # Nil => vm[h] \in Contexts \ closed
    BY <1>1 DEF dup, Owns, TableAgrees, Registered
  <1>5. Owns' /\ \A x \in Handles : x # copy => life'[x] = life[x]
    BY <1>1, <1>2, <1>3, <1>4, MakeOwns
  <1>6. NoArgRevives
    BY <1>1, <1>2, <1>5, NoneRevived DEF Nests
  <1> QED BY <1>1, <1>2, <1>5, <1>6, NestsStays, Halves

(* JSValue.dispose called by host code, or by JSContext.dispose.           *)
LEMMA DisposeStep ==
    ASSUME IInv, NEW h \in Handles, Dispose(h), UNCHANGED <<closed, hostDepth, stack>>
    PROVE  IInv'
  <1>1. Owns /\ Nests /\ closed \subseteq Contexts
    BY Halves
  <1>2. Owns' /\ life'[h] = "disposed" /\ \A x \in Handles : x # h => life'[x] = life[x]
    BY <1>1, DisposeOwns
  <1>3. NoArgRevives
    BY <1>1, <1>2, NoneRevived DEF Nests
  <1> QED BY <1>1, <1>2, <1>3, NestsStays, Halves

(* JSContext.dispose disposes the last handle of the table.                *)
LEMMA DisposeLastStep ==
    ASSUME IInv, DisposeLast
    PROVE  IInv'
  <1>1. Owns /\ Nests
    BY Halves
  <1>2. stack # <<>> /\ Top.kind = "dispose" /\ stack \in Seq(Frame) /\ FramesOK
    BY <1>1 DEF DisposeLast, Is, Nests
  <1>3. Len(stack) \in 1..Len(stack) /\ Top = stack[Len(stack)]
    BY <1>2, TopFacts
  <1>4. Top.ctx \in Contexts
    BY <1>2, <1>3 DEF FramesOK, FrameOK
  <1> DEFINE handles == table[Top.ctx]
             last == handles[Len(handles)]
  <1>5. /\ handles # <<>> /\ Dispose(last) /\ UNCHANGED <<closed, hostDepth, stack>>
    BY DEF DisposeLast
  <1>6. handles \in Seq(Handles)
    BY <1>1, <1>4 DEF Owns, CellsTyped
  <1>7. last \in Handles
    <2>1. Len(handles) \in 1..Len(handles)
      BY <1>5, <1>6, EmptySeq
    <2> QED BY <1>6, <2>1, ElementOfSeq
  <1> HIDE DEF last
  <1> QED BY <1>5, <1>7, DisposeStep

(* The guest takes a reference.                                            *)
LEMMA GuestKeepsStep ==
    ASSUME IInv, NEW h \in Handles, GuestKeeps(h)
    PROVE  IInv'
  <1>1. Owns /\ Nests /\ closed \subseteq Contexts
    BY Halves
  <1>2. UNCHANGED <<cells, zero, closed, hostDepth, stack>> /\ obj[h] # Nil
        /\ guest' = [guest EXCEPT ![obj[h]] = @ + 1] /\ refs' = [refs EXCEPT ![obj[h]] = @ + 1]
    BY DEF GuestKeeps, Registered, Dup
  <1>3. obj[h] \in Objects /\ refs \in [Objects -> Nat] /\ guest \in [Objects -> Nat]
    BY <1>1, <1>2 DEF Owns, CellsTyped, CountsTyped
  <1>4. /\ refs' \in [Objects -> Int] /\ guest' \in [Objects -> Nat]
        /\ \A o \in Objects : refs'[o] - guest'[o] = refs[o] - guest[o]
    BY <1>2, <1>3
  <1>5. RefsBalance' /\ refs' \in [Objects -> Nat]
    BY <1>1, <1>2, <1>4, BalanceKeptAlone
  <1>6. Owns'
    BY <1>1, <1>2, <1>4, <1>5 DEF Owns, cells, CellsTyped, CountsTyped, TableAgrees,
                                  ClosedOwnsNothing, Registered
  <1>7. NoArgRevives
    BY <1>2 DEF NoArgRevives, cells
  <1> QED BY <1>1, <1>2, <1>6, <1>7, NestsStays, Halves

(* The guest drops a reference.                                            *)
LEMMA GuestDropsStep ==
    ASSUME IInv, NEW v \in Objects, GuestDrops(v)
    PROVE  IInv'
  <1>1. Owns /\ Nests /\ closed \subseteq Contexts
    BY Halves
  <1>2. /\ UNCHANGED <<cells, closed, hostDepth, stack>> /\ guest[v] > 0 /\ Free(v)
        /\ guest' = [guest EXCEPT ![v] = @ - 1] /\ refs' = [refs EXCEPT ![v] = @ - 1]
    BY DEF GuestDrops, Free
  <1>3. refs \in [Objects -> Nat] /\ guest \in [Objects -> Nat] /\ zero \in Seq(Finalized)
    BY <1>1 DEF Owns, CountsTyped
  <1>4. /\ refs' \in [Objects -> Int] /\ guest' \in [Objects -> Nat]
        /\ \A o \in Objects : refs'[o] - guest'[o] = refs[o] - guest[o]
    BY <1>2, <1>3
  <1>5. RefsBalance' /\ refs' \in [Objects -> Nat] /\ zero' \in Seq(Finalized)
    BY <1>1, <1>2, <1>3, <1>4, BalanceKeptAlone, FreeZero
  <1>6. Owns'
    BY <1>1, <1>2, <1>4, <1>5, SMTT(30) DEF Owns, cells, CellsTyped, CountsTyped, TableAgrees,
                                  ClosedOwnsNothing, Registered
  <1>7. NoArgRevives
    BY <1>2 DEF NoArgRevives, cells
  <1> QED BY <1>1, <1>2, <1>6, <1>7, NestsStays, Halves

(* What holds of the innermost frame once the handle h was made or         *)
(* disposed, or nothing was.                                               *)
LEMMA TopStays ==
    ASSUME Nests, NoArgRevives, UNCHANGED closed, stack # <<>>
    PROVE  FrameOK(Top, life', closed') /\ FrameOK(Top, life, closed)
  <1>1. stack \in Seq(Frame) /\ FramesOK
    BY DEF Nests
  <1>2. Len(stack) \in 1..Len(stack) /\ Top = stack[Len(stack)]
    BY <1>1, TopFacts
  <1> QED BY <1>1, <1>2, FrameStays DEF FramesOK

(* A callback starts and borrows its first handle.                         *)
LEMMA CallbackStep ==
    ASSUME IInv, NEW k \in Borrowers, NEW c \in Contexts, NEW h \in Handles,
           NEW v \in Objects \cup {Nil}, Callback(k, c, h, v)
    PROVE  IInv'
  <1> DEFINE f == [kind |-> k, ctx |-> c, phase |-> "borrow", args |-> <<h>>, next |-> 1]
  <1>1. Owns /\ Nests /\ closed \subseteq Contexts
    BY Halves
  <1>2. /\ Fresh(h) /\ life[h] # "live" /\ UNCHANGED <<guest, zero, closed>>
        /\ Construct(h, c, v) /\ Dup(v) /\ Push(f) /\ c \notin closed
        /\ hostDepth' = hostDepth + 1
    BY DEF Callback, Borrow, Fresh
  <1>3. Owns' /\ \A x \in Handles : x # h => life'[x] = life[x]
    BY <1>1, <1>2, MakeOwns
  <1>4. NoArgRevives
    BY <1>1, <1>2, <1>3, NoneRevived DEF Nests
  <1>5. f \in Frame
    <2>1. <<h>> \in Seq(Handles)
      OBVIOUS
    <2> HIDE DEF Borrowers
    <2> QED BY <2>1 DEF Frame
  <1>6. Counted(f) /\ f.kind # "dispose"
    BY DEF Counted, Borrowers
  <1>7. FrameOK(f, life', closed')
    BY <1>2 DEF FrameOK
  <1>8. hostDepth' = hostDepth + IF Counted(f) THEN 1 ELSE 0
    BY <1>2, <1>6
  <1> HIDE DEF f
  <1>9. Nests'
    BY <1>1, <1>2, <1>4, <1>5, <1>6, <1>7, <1>8, NestsPush
  <1> QED BY <1>1, <1>2, <1>3, <1>9, Halves

(* A callback borrows a further handle.                                    *)
LEMMA BorrowArgStep ==
    ASSUME IInv, NEW h \in Handles, NEW v \in Objects \cup {Nil}, BorrowArg(h, v)
    PROVE  IInv'
  <1> DEFINE f == [Top EXCEPT !.args = Append(Top.args, h)]
  <1>1. Owns /\ Nests /\ closed \subseteq Contexts /\ stack \in Seq(Frame)
    BY Halves DEF Nests
  <1>2. /\ Fresh(h) /\ life[h] # "live" /\ UNCHANGED <<guest, zero, closed, hostDepth>>
        /\ Construct(h, Top.ctx, v) /\ Dup(v) /\ Retop(f)
        /\ stack # <<>> /\ Top.kind \in {"call", "tracker"} /\ Top.phase = "borrow"
    BY DEF BorrowArg, Borrow, Fresh, Is
  <1>3. Top \in Frame /\ Top.args \in Seq(Handles) /\ Len(Top.args) \in Nat
    BY <1>1, <1>2, TopFacts
  <1>4. Top.ctx \in Contexts \ closed
    <2>1. Len(stack) \in 1..Len(stack) /\ Top = stack[Len(stack)]
      BY <1>1, <1>2, TopFacts
    <2> QED BY <1>1, <1>2, <2>1 DEF Nests, FramesOK, FrameOK, Borrowers
  <1>5. Owns' /\ \A x \in Handles : x # h => life'[x] = life[x]
    BY <1>1, <1>2, <1>4, MakeOwns
  <1>6. NoArgRevives
    BY <1>1, <1>2, <1>5, NoneRevived
  <1>7. FrameOK(Top, life', closed')
    BY <1>1, <1>2, <1>6, TopStays
  <1>8. /\ f \in Frame /\ f.kind = Top.kind /\ f.phase = Top.phase /\ f.next = Top.next
        /\ f.ctx = Top.ctx /\ f.args = Append(Top.args, h)
    <2>1. Append(Top.args, h) \in Seq(Handles)
      BY <1>3, AppendProperties
    <2> QED BY <1>3, <2>1 DEF Frame
  <1>9. f.next = 1 /\ f.kind \in Borrowers
    BY <1>2, <1>7, <1>8 DEF FrameOK, Borrowers
  <1>10. Counted(f) <=> Counted(Top)
    BY <1>8 DEF Counted
  <1> HIDE DEF f
  <1>11. FrameOK(f, life', closed')
    <2>1. ~\E j \in 1..Len(f.args) : j < f.next
      BY <1>9
    <2> QED BY <2>1, <1>7, <1>8, <1>9 DEF FrameOK
  <1>12. hostDepth' = hostDepth - IF Counted(Top) /\ ~Counted(f) THEN 1 ELSE 0
    BY <1>1, <1>2, <1>10 DEF Nests
  <1>13. Nests'
    BY <1>1, <1>2, <1>6, <1>8, <1>10, <1>11, <1>12, NestsRetop
  <1> QED BY <1>1, <1>2, <1>5, <1>13, Halves

(* A callback's phase changes: its user code starts or has ended.          *)
LEMMA PhaseNests ==
    ASSUME Nests, NoArgRevives, UNCHANGED closed, stack # <<>>,
           Top.kind \in Borrowers, NEW p \in {"run", "end"},
           Top.phase = IF p = "run" THEN "borrow" ELSE "run",
           Retop([Top EXCEPT !.phase = p]),
           hostDepth' = IF p = "run" THEN hostDepth ELSE DepthAtEnd
    PROVE  Nests'
  <1> DEFINE f == [Top EXCEPT !.phase = p]
  <1>1. stack \in Seq(Frame) /\ hostDepth \in Nat
    BY DEF Nests
  <1>2. Top \in Frame
    BY <1>1, TopFacts
  <1>3. FrameOK(Top, life', closed')
    BY TopStays
  <1>4. /\ f \in Frame /\ f.kind = Top.kind /\ f.phase = p /\ f.next = Top.next
        /\ f.ctx = Top.ctx /\ f.args = Top.args
    BY <1>2 DEF Frame
  <1>5. FrameOK(f, life', closed')
    <2>1. f.next = 1
      BY <1>3, <1>4 DEF FrameOK
    <2> HIDE DEF f
    <2> QED BY <1>3, <1>4, <2>1 DEF FrameOK
  <1>6. Retop(f)
    OBVIOUS
  <1> HIDE DEF f
  <1>7. Counted(Top)
    BY DEF Counted, Borrowers
  <1>8. Counted(f) <=> p = "run" \/ Top.kind = "loader"
    BY <1>4 DEF Counted, Borrowers
  <1>9. hostDepth' = hostDepth - IF Counted(Top) /\ ~Counted(f) THEN 1 ELSE 0
    BY <1>1, <1>7, <1>8 DEF DepthAtEnd
  <1> QED BY <1>4, <1>5, <1>6, <1>7, <1>9, NestsRetop

(* The user code of a callback starts, or ends without giving a handle to  *)
(* the guest.                                                              *)
LEMMA StartFinishStep ==
    ASSUME IInv, StartHost \/ FinishCallback
    PROVE  IInv'
  <1>1. Owns /\ Nests /\ closed \subseteq Contexts
    BY Halves
  <1>2. UNCHANGED <<cells, counts, closed>>
    BY DEF StartHost, FinishCallback
  <1>3. Owns'
    BY <1>1, <1>2, OwnsStays
  <1>4. NoArgRevives
    BY <1>2 DEF NoArgRevives, cells
  <1>5. CASE StartHost
    BY <1>1, <1>4, <1>5, PhaseNests, <1>3, Halves DEF StartHost, Is
  <1>6. CASE FinishCallback
    BY <1>1, <1>4, <1>6, PhaseNests, <1>3, Halves DEF FinishCallback, Is
  <1> QED BY <1>5, <1>6

(* A host function gives a handle to the guest.                            *)
LEMMA ReturnHandleStep ==
    ASSUME IInv, NEW h \in Handles, ReturnHandle(h)
    PROVE  IInv'
  <1>1. Owns /\ Nests /\ closed \subseteq Contexts /\ stack \in Seq(Frame)
    BY Halves DEF Nests
  <1>2. /\ stack # <<>> /\ Top.kind = "call" /\ Top.phase = "run" /\ life[h] = "live"
        /\ life' = [life EXCEPT ![h] = "disposed"]
        /\ Retop([Top EXCEPT !.phase = "end"]) /\ hostDepth' = DepthAtEnd
        /\ UNCHANGED <<vm, obj, refs, zero, closed>>
    BY DEF ReturnHandle, Is
  <1>3. IF obj[h] = Nil THEN UNCHANGED <<table, slot>> ELSE Unregister(h)
    BY DEF ReturnHandle
  <1>4. /\ CellsTyped' /\ TableAgrees' /\ ClosedOwnsNothing'
        /\ life'[h] = "disposed" /\ \A x \in Handles : x # h => life'[x] = life[x]
        /\ ~RegisteredNext(h)
    BY <1>1, <1>2, <1>3, RetireFacts
  <1>5. /\ refs \in [Objects -> Nat] /\ guest \in [Objects -> Nat] /\ zero \in Seq(Finalized)
        /\ obj[h] \in Objects \cup {Nil}
    BY <1>1 DEF Owns, CountsTyped, CellsTyped
  <1>6. /\ guest' \in [Objects -> Nat]
        /\ \A o \in Objects : guest'[o] = guest[o] + IF obj[h] = o THEN 1 ELSE 0
    <2>1. CASE obj[h] = Nil
      BY <2>1, <1>5, ObjectsAssumption DEF ReturnHandle
    <2>2. CASE obj[h] # Nil
      BY <2>2, <1>5 DEF ReturnHandle
    <2> QED BY <2>1, <2>2
  <1>7. \A o \in Objects : refs'[o] - guest'[o] = refs[o] - guest[o]
                + (IF RegisteredNext(h) /\ obj'[h] = o THEN 1 ELSE 0)
                - (IF Registered(h) /\ obj[h] = o THEN 1 ELSE 0)
    BY <1>2, <1>4, <1>5, <1>6, ObjectsAssumption, SMTT(30) DEF Registered
  <1>8. refs' \in [Objects -> Int] /\ \A x \in Handles : x # h => obj'[x] = obj[x]
    BY <1>2, <1>5
  <1>9. RefsBalance' /\ refs' \in [Objects -> Nat]
    BY <1>1, <1>4, <1>6, <1>7, <1>8, BalanceKept
  <1>10. Owns'
    BY <1>2, <1>4, <1>5, <1>6, <1>9 DEF Owns, CountsTyped
  <1>11. NoArgRevives
    BY <1>1, <1>4, NoneRevived
  <1>12. Nests'
    BY <1>1, <1>2, <1>11, PhaseNests DEF Borrowers
  <1> QED BY <1>1, <1>2, <1>10, <1>12, Halves

(* The end of a callback disposes the next of its handles.                 *)
LEMMA EndArgStep ==
    ASSUME IInv, EndArg
    PROVE  IInv'
  <1> DEFINE f == [Top EXCEPT !.next = Top.next + 1]
             h == Top.args[Top.next]
  <1>1. Owns /\ Nests /\ closed \subseteq Contexts /\ stack \in Seq(Frame) /\ hostDepth \in Nat
    BY Halves DEF Nests
  <1>2. /\ stack # <<>> /\ Top.kind \in Borrowers /\ Top.phase = "end"
        /\ Top.next <= Len(Top.args) /\ Dispose(h) /\ Retop(f)
        /\ UNCHANGED <<closed, hostDepth>>
    BY DEF EndArg, Is
  <1>3. /\ Top \in Frame /\ Len(Top.args) \in Nat
        /\ \A j \in 1..Len(Top.args) : Top.args[j] \in Handles
    BY <1>1, <1>2, TopFacts
  <1>4. Top.next \in Nat /\ Top.next # 0
    <2>1. Len(stack) \in 1..Len(stack) /\ Top = stack[Len(stack)]
      BY <1>1, <1>2, TopFacts
    <2> QED BY <1>1, <1>3, <2>1 DEF Frame, Nests, FramesOK, FrameOK
  <1>5. h \in Handles
    BY <1>2, <1>3, <1>4
  <1> HIDE DEF h
  <1>6. Owns' /\ life'[h] = "disposed" /\ \A x \in Handles : x # h => life'[x] = life[x]
    BY <1>1, <1>2, <1>5, DisposeOwns
  <1>7. NoArgRevives
    BY <1>1, <1>5, <1>6, NoneRevived
  <1>8. FrameOK(Top, life', closed')
    BY <1>1, <1>2, <1>7, TopStays
  <1>9. /\ f \in Frame /\ f.kind = Top.kind /\ f.phase = Top.phase /\ f.next = Top.next + 1
        /\ f.ctx = Top.ctx /\ f.args = Top.args
    BY <1>3, <1>4 DEF Frame
  <1>10. Counted(f) <=> Counted(Top)
    BY <1>9 DEF Counted
  <1> HIDE DEF f
  <1>11. FrameOK(f, life', closed')
    <2>1. ASSUME NEW j \in 1..Len(f.args), j < f.next
          PROVE  life'[f.args[j]] = "disposed"
      <3>1. CASE j = Top.next
        BY <3>1, <1>6, <1>9 DEF h
      <3>2. CASE j < Top.next
        BY <3>2, <1>8, <1>9 DEF FrameOK
      <3> QED BY <2>1, <3>1, <3>2, <1>4, <1>9
    <2>2. f.next # 0 /\ f.phase = "end"
      BY <1>2, <1>4, <1>9
    <2> QED BY <2>1, <2>2, <1>8, <1>9 DEF FrameOK
  <1>12. hostDepth' = hostDepth - IF Counted(Top) /\ ~Counted(f) THEN 1 ELSE 0
    BY <1>1, <1>2, <1>10
  <1>13. Nests'
    BY <1>1, <1>2, <1>7, <1>9, <1>10, <1>11, <1>12, NestsRetop
  <1> QED BY <1>1, <1>2, <1>6, <1>13, Halves

(* A callback or a finalizer returns to the engine.                        *)
LEMMA LeaveStep ==
    ASSUME IInv, EndCallback \/ FinalizerReturns
    PROVE  IInv'
  <1>1. Owns /\ Nests /\ closed \subseteq Contexts /\ hostDepth \in Nat
    BY Halves DEF Nests
  <1>2. UNCHANGED <<cells, counts, closed>> /\ stack # <<>> /\ stack' = Rest
    BY DEF EndCallback, FinalizerReturns, Is
  <1>3. Owns'
    BY <1>1, <1>2, OwnsStays
  <1>4. NoArgRevives
    BY <1>2 DEF NoArgRevives, cells
  <1>5. hostDepth' = hostDepth - IF Counted(Top) THEN 1 ELSE 0
    <2>1. CASE EndCallback
      BY <2>1, <1>1 DEF EndCallback, Is, DepthAtPop, Counted, Borrowers
    <2>2. CASE FinalizerReturns
      BY <2>2, <1>1 DEF FinalizerReturns, Is, Counted
    <2> QED BY <2>1, <2>2
  <1>6. Nests'
    BY <1>1, <1>2, <1>4, <1>5, NestsPop
  <1> QED BY <1>1, <1>2, <1>3, <1>6, Halves

(* The engine runs a finalizer that is due.                                *)
LEMMA StartFinalizerStep ==
    ASSUME IInv, StartFinalizer
    PROVE  IInv'
  <1> DEFINE f == [kind |-> "finalizer", ctx |-> Nil, phase |-> "run", args |-> <<>>, next |-> 1]
  <1>1. Owns /\ Nests /\ closed \subseteq Contexts
    BY Halves
  <1>2. /\ UNCHANGED <<cells, refs, guest, closed>> /\ Push(f) /\ hostDepth' = hostDepth + 1
        /\ zero # <<>> /\ zero' = Tail(zero)
    BY DEF StartFinalizer, Settled
  <1>3. zero' \in Seq(Finalized)
    BY <1>1, <1>2, HeadTailProperties DEF Owns, CountsTyped
  <1>4. Owns'
    BY <1>1, <1>2, <1>3 DEF Owns, cells, CellsTyped, CountsTyped, TableAgrees, RefsBalance,
                            ClosedOwnsNothing, Registered
  <1>5. NoArgRevives
    BY <1>2 DEF NoArgRevives, cells
  <1>6. f \in Frame
    BY EmptySeq DEF Frame
  <1>7. Counted(f) /\ f.kind # "dispose"
    BY DEF Counted
  <1>8. FrameOK(f, life', closed')
    <2>1. f.kind \notin Borrowers \cup {"dispose"} /\ f.next = 1
      BY DEF Borrowers
    <2> QED BY <2>1 DEF FrameOK
  <1>9. hostDepth' = hostDepth + IF Counted(f) THEN 1 ELSE 0
    BY <1>2, <1>7
  <1> HIDE DEF f
  <1>10. Nests'
    BY <1>1, <1>2, <1>5, <1>6, <1>7, <1>8, <1>9, NestsPush
  <1> QED BY <1>1, <1>2, <1>4, <1>10, Halves

(* JSContext.dispose starts, outside every callback and finalizer.         *)
LEMMA DisposeContextStep ==
    ASSUME IInv, NEW c \in Contexts, DisposeContext(c)
    PROVE  IInv'
  <1> DEFINE f == [kind |-> "dispose", ctx |-> c, phase |-> "run", args |-> <<>>, next |-> 1]
  <1>1. Owns /\ Nests /\ closed \subseteq Contexts /\ hostDepth \in Nat
    BY Halves DEF Nests
  <1>2. UNCHANGED <<cells, counts, closed, hostDepth>> /\ Push(f) /\ c \notin closed
    BY DEF DisposeContext
  <1>3. stack = <<>>
    BY <1>1, IdleMeansEmpty DEF DisposeContext
  <1>4. Owns'
    BY <1>1, <1>2, OwnsStays
  <1>5. NoArgRevives
    BY <1>2 DEF NoArgRevives, cells
  <1>6. f \in Frame
    BY EmptySeq DEF Frame
  <1>7. ~Counted(f)
    BY DEF Counted
  <1>8. FrameOK(f, life', closed')
    <2>1. Len(f.args) = 0
      BY EmptySeq
    <2> QED BY <2>1, <1>2 DEF FrameOK
  <1>9. hostDepth' = hostDepth + IF Counted(f) THEN 1 ELSE 0
    BY <1>1, <1>2, <1>7
  <1> HIDE DEF f
  <1>10. Nests'
    BY <1>1, <1>2, <1>3, <1>5, <1>6, <1>8, <1>9, NestsPush
  <1> QED BY <1>1, <1>2, <1>4, <1>10, Halves

(* JSContext.dispose ends: the table is empty and nothing else runs.       *)
LEMMA CloseContextStep ==
    ASSUME IInv, CloseContext
    PROVE  /\ IInv'
           /\ Top.ctx \in Contexts \ closed
  <1>1. /\ Owns /\ Nests /\ closed \subseteq Contexts
        /\ stack \in Seq(Frame) /\ hostDepth \in Nat /\ FramesOK /\ DepthCounts
    BY Halves DEF Nests
  <1>2. /\ UNCHANGED <<cells, counts, hostDepth>> /\ closed' = closed \cup {Top.ctx}
        /\ stack # <<>> /\ stack' = Rest /\ Top.kind = "dispose" /\ table[Top.ctx] = <<>>
    BY DEF CloseContext, Is
  <1>3. Len(stack) \in 1..Len(stack) /\ Top = stack[Len(stack)] /\ Len(stack) \in Nat
    BY <1>1, <1>2, TopFacts
  <1>4. Top.ctx \in Contexts \ closed /\ Len(stack) = 1
    BY <1>1, <1>2, <1>3 DEF FramesOK, FrameOK
  <1>5. Len(stack') = 0 /\ stack' \in Seq(Frame)
    BY <1>1, <1>2, <1>4, PopFacts
  <1>6. ~Counted(Top) /\ hostDepth' = hostDepth - IF Counted(Top) THEN 1 ELSE 0
    BY <1>1, <1>2 DEF Counted
  <1>7. DepthCounts' /\ hostDepth' \in Nat
    BY <1>1, <1>2, <1>6, DepthPop
  <1>8. Nests'
    BY <1>5, <1>7 DEF Nests, FramesOK
  <1>9. ClosedOwnsNothing'
    <2> SUFFICES ASSUME NEW h \in Handles, Registered(h) PROVE vm[h] # Top.ctx
      BY <1>1, <1>2 DEF Owns, ClosedOwnsNothing, Registered, cells
    <2>1. Len(table[Top.ctx]) = 0
      BY <1>2, EmptySeq
    <2>2. slot[h] + 1 \in 1..Len(table[vm[h]])
      BY <1>1 DEF Owns, TableAgrees
    <2> QED BY <2>1, <2>2
  <1>10. Owns'
    BY <1>1, <1>2, <1>9 DEF Owns, cells, counts, CellsTyped, CountsTyped, TableAgrees,
                            RefsBalance, Registered
  <1> QED BY <1>1, <1>2, <1>4, <1>8, <1>10, Halves

(* Every step keeps the invariant.                                         *)
LEMMA NextIInv == IInv /\ [Next]_vars => IInv'
  <1> SUFFICES ASSUME IInv, [Next]_vars PROVE IInv'
    OBVIOUS
  <1>1. ASSUME NEW h \in Handles, dispose(h) PROVE IInv'
    BY <1>1, DisposeStep DEF dispose
  <1>2. CASE Operate
    BY <1>1, <1>2, ResultStep, DupStep, GuestKeepsStep, GuestDropsStep DEF Operate
  <1>3. CASE CallBack
    BY <1>3, BorrowArgStep, CallbackStep, ReturnHandleStep, StartFinishStep, EndArgStep,
       LeaveStep, StartFinalizerStep DEF CallBack
  <1>4. CASE CloseDown
    BY <1>4, DisposeContextStep, DisposeLastStep, CloseContextStep DEF CloseDown
  <1>5. CASE UNCHANGED vars
    <2>1. UNCHANGED <<cells, counts, closed, hostDepth, stack>> /\ UNCHANGED life
      BY <1>5 DEF vars, cells, counts
    <2>2. NoArgRevives
      BY <2>1 DEF NoArgRevives
    <2> QED BY <2>1, <2>2, OwnsStays, NestsStays, Halves
  <1> QED BY <1>2, <1>3, <1>4, <1>5 DEF Next

-----------------------------------------------------------------------------
(* The results.                                                            *)

(* The inductive invariant holds in every reachable state.                 *)
THEOREM Invariance == Spec => []IInv
  BY InitIInv, NextIInv, PTL DEF Spec

(* Every variable has its type: in particular no reference count and not   *)
(* hostDepth ever falls below 0.                                           *)
THEOREM TypeCorrect == Spec => []TypeOK
  <1>1. IInv => TypeOK BY DEF IInv
  <1> QED BY <1>1, Invariance, PTL

(* The handles' slots and the tables agree in whatever order handles are   *)
(* made and disposed (JSValue constructor and dispose).                    *)
THEOREM Tables == Spec => []TableAgrees
  <1>1. IInv => TableAgrees BY DEF IInv
  <1> QED BY <1>1, Invariance, PTL

(* The engine's counts are what the guest and the live handles account     *)
(* for (dup, #borrow, #callHost, dispose).                                 *)
THEOREM Balance == Spec => []RefsBalance
  <1>1. IInv => RefsBalance BY DEF IInv
  <1> QED BY <1>1, Invariance, PTL

(* A disposed context has no handle left (JSContext.dispose).              *)
THEOREM ClosedIsEmpty == Spec => []ClosedOwnsNothing
  <1>1. IInv => ClosedOwnsNothing BY DEF IInv
  <1> QED BY <1>1, Invariance, PTL

(* No context is disposed under a callback that was made for it            *)
(* (JSContext.dispose, hostDepth).                                         *)
THEOREM CallbacksKeepTheirContext == Spec => []NoCallbackIntoClosed
  <1>1. IInv => NoCallbackIntoClosed
    BY DEF IInv, FramesOK, FrameOK, NoCallbackIntoClosed
  <1> QED BY <1>1, Invariance, PTL

(* A frame more.                                                           *)
LEMMA AppendLen ==
    ASSUME NEW S, NEW s \in Seq(S), NEW e
    PROVE  Len(Append(s, e)) = Len(s) + 1
  <1>1. s \in Seq(S \cup {e})
    BY SeqMonotonic
  <1> QED BY <1>1, AppendProperties

(* Every handle that was borrowed for a callback is disposed when it has   *)
(* ended (#callHost, #trackRejection, #loadModule).                        *)
THEOREM Releases == Spec => ArgsReleased
  <1>1. ASSUME IInv, [Next]_vars, stack # <<>>, stack' = Rest, NEW i \in 1..Len(Top.args)
        PROVE  life'[Top.args[i]] = "disposed"
    <2>1. /\ stack \in Seq(Frame) /\ Rest \in Seq(Frame) /\ Len(stack) \in Nat
          /\ Len(Rest) = Len(stack) - 1 /\ Len(stack) # 0
      BY <1>1, Halves, PopFacts DEF Nests
    <2>2. stack' # stack
      BY <1>1, <2>1
    <2>3. \A f : ~Push(f)
      BY <1>1, <2>1, AppendLen DEF Push
    <2>4. \A f : ~Retop(f)
      BY <1>1, <2>1, AppendLen DEF Retop
    <2>5. EndCallback \/ FinalizerReturns \/ CloseContext
      <3>1. ~Operate
        BY <2>2 DEF Operate, resultPrimitive, resultValue, dup, dispose, GuestKeeps, GuestDrops
      <3>2. CallBack => EndCallback \/ FinalizerReturns
        BY <2>3, <2>4 DEF CallBack, BorrowArg, Callback, ReturnHandle, StartHost,
                          FinishCallback, EndArg, StartFinalizer
      <3>3. CloseDown => CloseContext
        BY <2>2, <2>3 DEF CloseDown, DisposeContext, DisposeLast
      <3> QED BY <1>1, <2>2, <3>1, <3>2, <3>3 DEF Next, vars
    <2>6. FrameOK(Top, life, closed) /\ Top \in Frame /\ Len(Top.args) \in Nat
      <3>1. Len(stack) \in 1..Len(stack) /\ Top = stack[Len(stack)]
        BY <1>1, <2>1, TopFacts
      <3> QED BY <1>1, <2>1, <3>1, TopFacts DEF IInv, FramesOK
    <2>7. CASE Top.kind \notin Borrowers
      <3>1. Len(Top.args) = 0
        BY <2>6, <2>7, EmptySeq DEF FrameOK
      <3> QED BY <3>1, <1>1
    <2>8. CASE Top.kind \in Borrowers
      <3>1. EndCallback
        BY <2>5, <2>8 DEF FinalizerReturns, CloseContext, Is, Borrowers
      <3>2. life' = life /\ Top.next > Len(Top.args)
        BY <3>1 DEF EndCallback, cells
      <3>3. i < Top.next
        BY <3>2, <2>6, <1>1 DEF Frame
      <3> QED BY <3>2, <3>3, <2>6, <1>1 DEF FrameOK
    <2> QED BY <2>7, <2>8
  <1>2. IInv /\ [Next]_vars => [stack # <<>> /\ stack' = Rest =>
            \A i \in 1..Len(Top.args) : life'[Top.args[i]] = "disposed"]_vars
    BY <1>1
  <1> QED BY <1>2, Invariance, PTL DEF Spec, ArgsReleased

-----------------------------------------------------------------------------
(* The tables implement HandleSet.                                         *)

(* What a context owns, in terms of the handles.                           *)
OwnedBy(c) == {h \in Handles : Registered(h) /\ vm[h] = c}
Owned == [c \in Contexts |-> {table[c][i] : i \in 1..Len(table[c])}]

(* A table holds exactly the handles of its context that own something.    *)
LEMMA OwnedIs ==
    ASSUME CellsTyped, TableAgrees
    PROVE  Owned = [c \in Contexts |-> OwnedBy(c)]
  <1> SUFFICES ASSUME NEW c \in Contexts
               PROVE  {table[c][i] : i \in 1..Len(table[c])} = OwnedBy(c)
    BY DEF Owned
  <1>1. ASSUME NEW i \in 1..Len(table[c]) PROVE table[c][i] \in OwnedBy(c)
    BY InTable DEF CellsTyped, TableAgrees, OwnedBy
  <1>2. ASSUME NEW h \in OwnedBy(c) PROVE \E i \in 1..Len(table[c]) : table[c][i] = h
    <2>1. h \in Handles /\ Registered(h) /\ vm[h] = c
      BY DEF OwnedBy
    <2>2. slot[h] + 1 \in 1..Len(table[c]) /\ table[c][slot[h] + 1] = h
      BY <2>1 DEF TableAgrees
    <2> QED BY <2>2
  <1> QED BY <1>1, <1>2

(* The mapping before and after a step.                                    *)
LEMMA OwnedMaps ==
    ASSUME IInv, IInv'
    PROVE  /\ Owned = [c \in Contexts |-> OwnedBy(c)]
           /\ Owned' = [c \in Contexts |-> OwnedBy(c)']
  <1>1. CellsTyped /\ TableAgrees
    BY Halves DEF Owns
  <1>2. (CellsTyped /\ TableAgrees)'
    BY Halves DEF Owns
  <1>3. CellsTyped /\ TableAgrees => Owned = [c \in Contexts |-> OwnedBy(c)]
    BY OwnedIs
  <1>4. (CellsTyped /\ TableAgrees => Owned = [c \in Contexts |-> OwnedBy(c)])'
    BY OwnedIs, PTL
  <1> QED BY <1>1, <1>2, <1>3, <1>4

(* HandleSet's step, in terms of Owned.                                    *)
LEMMA OwnershipMeans ==
    /\ Ownership!vars' = Ownership!vars <=> Owned' = Owned /\ closed' = closed
    /\ \A c \in Contexts, h \in Handles :
         c \notin closed /\ (\A d \in Contexts : h \notin Owned[d])
         /\ Owned' = [Owned EXCEPT ![c] = @ \cup {h}] /\ closed' = closed => Ownership!Next
    /\ \A c \in Contexts, h \in Handles :
         h \in Owned[c] /\ Owned' = [Owned EXCEPT ![c] = @ \ {h}] /\ closed' = closed
         => Ownership!Next
    /\ \A c \in Contexts :
         c \notin closed /\ Owned[c] = {} /\ closed' = closed \cup {c} /\ Owned' = Owned
         => Ownership!Next
  BY DEF Owned, Ownership!vars, Ownership!Next, Ownership!Acquire, Ownership!Release,
         Ownership!Close

(* Making a handle acquires it, or does not concern the tables.            *)
LEMMA MakeMaps ==
    ASSUME IInv, IInv', NEW h \in Handles, life[h] # "live",
           NEW c \in Contexts \cup {Nil}, NEW v \in Objects \cup {Nil},
           v # Nil => c \in Contexts \ closed, Construct(h, c, v), UNCHANGED closed
    PROVE  [Ownership!Next]_(Ownership!vars)
  <1>1. CellsTyped /\ TableAgrees
    BY Halves DEF Owns
  <1>2. /\ life'[h] = "live" /\ vm'[h] = c /\ obj'[h] = v
        /\ \A x \in Handles : x # h =>
              life'[x] = life[x] /\ vm'[x] = vm[x] /\ obj'[x] = obj[x]
    BY <1>1, ConstructFacts
  <1>3. /\ Owned = [d \in Contexts |-> OwnedBy(d)]
        /\ Owned' = [d \in Contexts |-> OwnedBy(d)']
    BY OwnedMaps
  <1>4. \A d \in Contexts : h \notin OwnedBy(d)
    BY DEF OwnedBy, Registered
  <1>5. CASE v = Nil
    <2>1. \A d \in Contexts : OwnedBy(d)' = OwnedBy(d)
      BY <1>2, <1>5 DEF OwnedBy, Registered
    <2>2. Owned' = Owned
      BY <1>3, <2>1
    <2> QED BY <2>2, OwnershipMeans
  <1>6. CASE v # Nil
    <2>1. \A d \in Contexts : OwnedBy(d)' = IF d = c THEN OwnedBy(d) \cup {h} ELSE OwnedBy(d)
      BY <1>2, <1>6 DEF OwnedBy, Registered
    <2>2. Owned' = [Owned EXCEPT ![c] = @ \cup {h}]
      BY <1>3, <1>6, <2>1
    <2>3. \A d \in Contexts : h \notin Owned[d]
      BY <1>3, <1>4
    <2> QED BY <1>6, <2>2, <2>3, OwnershipMeans
  <1> QED BY <1>5, <1>6

(* A handle that stops being live is released, if it owned anything.       *)
LEMMA RetireMaps ==
    ASSUME IInv, IInv', NEW h \in Handles, ~RegisteredNext(h),
           \A x \in Handles : x # h => life'[x] = life[x], UNCHANGED <<vm, obj, closed>>
    PROVE  [Ownership!Next]_(Ownership!vars)
  <1>1. /\ Owned = [d \in Contexts |-> OwnedBy(d)]
        /\ Owned' = [d \in Contexts |-> OwnedBy(d)']
    BY OwnedMaps
  <1>2. \A x \in Handles : RegisteredNext(x) <=> Registered(x) /\ x # h
    BY DEF Registered, RegisteredNext
  <1>3. \A d \in Contexts : OwnedBy(d)' = {x \in Handles : RegisteredNext(x) /\ vm[x] = d}
    BY DEF OwnedBy, Registered, RegisteredNext
  <1>4. CASE ~Registered(h)
    <2>1. \A d \in Contexts : OwnedBy(d)' = OwnedBy(d)
      BY <1>2, <1>3, <1>4 DEF OwnedBy
    <2>2. Owned' = Owned
      BY <1>1, <2>1
    <2> QED BY <2>2, OwnershipMeans
  <1>5. CASE Registered(h)
    <2>1. vm[h] \in Contexts
      BY <1>5, Halves DEF Owns, TableAgrees
    <2>2. \A d \in Contexts : OwnedBy(d)' = IF d = vm[h] THEN OwnedBy(d) \ {h} ELSE OwnedBy(d)
      BY <1>2, <1>3, <1>5 DEF OwnedBy
    <2>3. Owned' = [Owned EXCEPT ![vm[h]] = @ \ {h}]
      BY <1>1, <2>1, <2>2
    <2>4. h \in Owned[vm[h]]
      BY <1>1, <1>5, <2>1 DEF OwnedBy
    <2> QED BY <2>1, <2>3, <2>4, OwnershipMeans
  <1> QED BY <1>4, <1>5

(* A step that leaves the handles alone.                                   *)
LEMMA CellsMap ==
    ASSUME UNCHANGED <<cells, closed>>
    PROVE  [Ownership!Next]_(Ownership!vars)
  <1>1. Owned' = Owned
    BY DEF Owned, cells
  <1> QED BY <1>1, OwnershipMeans

(* JSValue.dispose releases one handle, or none.                           *)
LEMMA DisposeMaps ==
    ASSUME IInv, IInv', NEW h \in Handles, Dispose(h), UNCHANGED closed
    PROVE  [Ownership!Next]_(Ownership!vars)
  <1>1. life'[h] = "disposed" /\ \A x \in Handles : x # h => life'[x] = life[x]
    BY Halves, DisposeOwns
  <1>2. UNCHANGED <<vm, obj>> /\ ~RegisteredNext(h)
    BY <1>1 DEF Dispose, cells, RegisteredNext
  <1> QED BY <1>1, <1>2, RetireMaps

(* Every step maps to a step of HandleSet or to none.                      *)
LEMMA NextMaps ==
    ASSUME IInv, IInv', [Next]_vars
    PROVE  [Ownership!Next]_(Ownership!vars)
  <1> DEFINE Maps == [Ownership!Next]_(Ownership!vars)
  <1>0. Owns /\ Nests /\ stack \in Seq(Frame) /\ FramesOK
    BY Halves DEF Nests
  <1>1. ASSUME NEW h \in Handles, NEW c \in Contexts, resultPrimitive(h, c) PROVE Maps
    <2>1. life[h] # "live" /\ Construct(h, c, Nil) /\ UNCHANGED closed
      BY <1>1 DEF resultPrimitive, Fresh
    <2> QED BY <2>1, MakeMaps
  <1>2. ASSUME NEW h \in Handles, NEW c \in Contexts, NEW o \in Objects, resultValue(h, c, o)
        PROVE  Maps
    <2>1. life[h] # "live" /\ Construct(h, c, o) /\ UNCHANGED closed /\ c \notin closed
      BY <1>2 DEF resultValue, Fresh
    <2> QED BY <2>1, MakeMaps
  <1>3. ASSUME NEW h \in Handles, NEW copy \in Handles, dup(h, copy) PROVE Maps
    <2>1. life[copy] # "live" /\ Construct(copy, vm[h], obj[h]) /\ UNCHANGED closed
      BY <1>3 DEF dup, Fresh
    <2>2. vm[h] \in Contexts \cup {Nil} /\ obj[h] \in Objects \cup {Nil}
      BY <1>0 DEF Owns, CellsTyped
    <2>3. obj[h] # Nil => vm[h] \in Contexts \ closed
      BY <1>0, <1>3 DEF dup, Owns, TableAgrees, Registered
    <2> QED BY <2>1, <2>2, <2>3, MakeMaps
  <1>4. ASSUME NEW h \in Handles, dispose(h) PROVE Maps
    BY <1>4, DisposeMaps DEF dispose
  <1>5. ASSUME NEW h \in Handles, NEW v \in Objects \cup {Nil}, BorrowArg(h, v) PROVE Maps
    <2>1. /\ life[h] # "live" /\ Construct(h, Top.ctx, v) /\ UNCHANGED closed
          /\ stack # <<>> /\ Top.kind \in Borrowers
      BY <1>5 DEF BorrowArg, Borrow, Fresh, Is, Borrowers
    <2>2. Len(stack) \in 1..Len(stack) /\ Top = stack[Len(stack)]
      BY <1>0, <2>1, TopFacts
    <2>3. Top.ctx \in Contexts \ closed
      BY <1>0, <2>1, <2>2 DEF FramesOK, FrameOK
    <2> QED BY <2>1, <2>3, MakeMaps
  <1>6. ASSUME NEW k \in Borrowers, NEW c \in Contexts, NEW h \in Handles,
               NEW v \in Objects \cup {Nil}, Callback(k, c, h, v)
        PROVE  Maps
    <2>1. life[h] # "live" /\ Construct(h, c, v) /\ UNCHANGED closed /\ c \notin closed
      BY <1>6 DEF Callback, Borrow, Fresh
    <2> QED BY <2>1, MakeMaps
  <1>7. ASSUME NEW h \in Handles, ReturnHandle(h) PROVE Maps
    <2>1. life' = [life EXCEPT ![h] = "disposed"] /\ UNCHANGED <<vm, obj, closed>>
      BY <1>7 DEF ReturnHandle
    <2>2. life \in [Handles -> Lives]
      BY <1>0 DEF Owns, CellsTyped
    <2>3. ~RegisteredNext(h) /\ \A x \in Handles : x # h => life'[x] = life[x]
      BY <2>1, <2>2 DEF RegisteredNext
    <2> QED BY <2>1, <2>3, RetireMaps
  <1>8. ASSUME EndArg PROVE Maps
    <2> DEFINE h == Top.args[Top.next]
    <2>1. /\ stack # <<>> /\ Top.next <= Len(Top.args) /\ Dispose(h) /\ UNCHANGED closed
      BY <1>8 DEF EndArg, Is
    <2>2. /\ Len(stack) \in 1..Len(stack) /\ Top = stack[Len(stack)] /\ Top \in Frame
          /\ Len(Top.args) \in Nat /\ \A j \in 1..Len(Top.args) : Top.args[j] \in Handles
      BY <1>0, <2>1, TopFacts
    <2>3. Top.next \in Nat /\ Top.next # 0
      BY <1>0, <2>2 DEF Frame, FramesOK, FrameOK
    <2>4. h \in Handles
      BY <2>1, <2>2, <2>3
    <2> HIDE DEF h
    <2> QED BY <2>1, <2>4, DisposeMaps
  <1>9. ASSUME DisposeLast PROVE Maps
    <2> DEFINE handles == table[Top.ctx]
               h == handles[Len(handles)]
    <2>1. /\ stack # <<>> /\ Top.kind = "dispose" /\ handles # <<>> /\ Dispose(h)
          /\ UNCHANGED closed
      BY <1>9 DEF DisposeLast, Is
    <2>2. Len(stack) \in 1..Len(stack) /\ Top = stack[Len(stack)]
      BY <1>0, <2>1, TopFacts
    <2>3. Top.ctx \in Contexts
      BY <1>0, <2>1, <2>2 DEF FramesOK, FrameOK
    <2>4. handles \in Seq(Handles)
      BY <1>0, <2>3 DEF Owns, CellsTyped
    <2>5. Len(handles) \in 1..Len(handles)
      BY <2>1, <2>4, EmptySeq
    <2>6. h \in Handles
      BY <2>4, <2>5, ElementOfSeq
    <2> HIDE DEF h
    <2> QED BY <2>1, <2>6, DisposeMaps
  <1>10. ASSUME CloseContext PROVE Maps
    <2>1. /\ UNCHANGED cells /\ closed' = closed \cup {Top.ctx} /\ table[Top.ctx] = <<>>
      BY <1>10 DEF CloseContext
    <2>2. Top.ctx \in Contexts \ closed
      BY <1>10, CloseContextStep
    <2>3. Owned' = Owned
      BY <2>1 DEF Owned, cells
    <2>4. Owned[Top.ctx] = {}
      <3>1. Len(table[Top.ctx]) = 0
        BY <2>1, EmptySeq
      <3> QED BY <2>2, <3>1 DEF Owned
    <2> QED BY <2>1, <2>2, <2>3, <2>4, OwnershipMeans
  <1>11. ASSUME UNCHANGED <<cells, closed>> PROVE Maps
    BY <1>11, CellsMap
  <1>12. \A h \in Handles : GuestKeeps(h) => UNCHANGED <<cells, closed>>
    BY DEF GuestKeeps
  <1>13. \A o \in Objects : GuestDrops(o) => UNCHANGED <<cells, closed>>
    BY DEF GuestDrops
  <1>14. StartHost \/ FinishCallback \/ EndCallback \/ StartFinalizer \/ FinalizerReturns
         => UNCHANGED <<cells, closed>>
    BY DEF StartHost, FinishCallback, EndCallback, StartFinalizer, FinalizerReturns
  <1>15. \A c \in Contexts : DisposeContext(c) => UNCHANGED <<cells, closed>>
    BY DEF DisposeContext
  <1> HIDE DEF Maps
  <1>16. Operate => Maps
    BY <1>1, <1>2, <1>3, <1>4, <1>11, <1>12, <1>13 DEF Operate
  <1>17. CallBack => Maps
    BY <1>5, <1>6, <1>7, <1>8, <1>11, <1>14 DEF CallBack
  <1>18. CloseDown => Maps
    BY <1>9, <1>10, <1>11, <1>15 DEF CloseDown
  <1>19. UNCHANGED vars => Maps
    BY <1>11 DEF vars, cells
  <1>20. Maps
    BY <1>16, <1>17, <1>18, <1>19 DEF Next
  <1> QED BY <1>20 DEF Maps

(* The tables implement sets of owned handles: each step of JSValue and    *)
(* JSContext acquires or releases one handle, or closes a context that     *)
(* owns none.                                                              *)
THEOREM Refinement == Spec => RefinesHandleSet
  <1>1. Init => Ownership!Init
    <2> SUFFICES ASSUME Init PROVE Ownership!Init
      OBVIOUS
    <2>1. \A c \in Contexts : Len(table[c]) = 0
      BY EmptySeq DEF Init
    <2>2. Owned = [c \in Contexts |-> {}]
      BY <2>1 DEF Owned
    <2> QED BY <2>2 DEF Owned, Ownership!Init, Init
  <1>2. IInv /\ IInv' /\ [Next]_vars => [Ownership!Next]_(Ownership!vars)
    BY NextMaps
  <1> QED BY <1>1, <1>2, Invariance, PTL DEF Spec, RefinesHandleSet, Ownership!Spec

=============================================================================
