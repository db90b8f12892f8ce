--------------------------- MODULE ModulesProofs ---------------------------
(***************************************************************************)
(* Proofs of safety properties of Modules, for any graph of modules, any   *)
(* number of calls and any nesting, as long as host code does not touch    *)
(* modules that are in use.                                                *)
(*                                                                         *)
(* The invariants are operators of the modules and the stack of calls, and *)
(* come in layers on top of ShapeInv: CycleInv (who needs whom on a cycle),*)
(* CountInv (who waits for whom, and how often) and OrderInv (reactions    *)
(* execute modules by timestamp).  Each is kept with the help of those     *)
(* before it.                                                              *)
(***************************************************************************)
EXTENDS ModulesShapeProofs

-----------------------------------------------------------------------------
(* What the calls in progress have in hand.                                *)

(* The modules that an evaluation entered and did not yet execute or make  *)
(* wait; those whose body runs; those that a reaction is still to execute, *)
(* and the one it executes.                                                *)
Opens(ms, c, x) ==
    /\ c.op = "js_evaluate_module"
    /\ \E h \in 1..Len(c.path) : c.path[h].d = x /\ c.path[h].i <= Len(ms[x].links) + 1
OpenIn(ms, st) == {x \in 1..Len(ms) : \E k \in 1..Len(st) : Opens(ms, st[k], x)}
RunIn(ms, st) == {x \in 1..Len(ms) : \E k \in 1..Len(st) : st[k].body = x}
Lists(c, x) == c.op = "fulfilled" /\ Has(c.list, x)
QueueIn(ms, st) == {x \in 1..Len(ms) : \E k \in 1..Len(st) : Lists(st[k], x)}
Executing(c, x) == c.op = "fulfilled" /\ c.body = x
ReactIn(ms, st) == {x \in 1..Len(ms) : \E k \in 1..Len(st) : Executing(st[k], x)}

(* A call adds what it has in hand.                                        *)
LEMMA ViewAppend ==
    ASSUME NEW ms \in Seq(ModRec), NEW s \in Seq(CallRec), NEW c \in CallRec
    PROVE  /\ OpenIn(ms, Append(s, c)) = OpenIn(ms, s) \cup {x \in 1..Len(ms) : Opens(ms, c, x)}
           /\ RunIn(ms, Append(s, c)) = RunIn(ms, s) \cup {x \in 1..Len(ms) : c.body = x}
           /\ QueueIn(ms, Append(s, c)) = QueueIn(ms, s) \cup {x \in 1..Len(ms) : Lists(c, x)}
           /\ ReactIn(ms, Append(s, c)) = ReactIn(ms, s) \cup {x \in 1..Len(ms) : Executing(c, x)}
  <1> DEFINE t == Append(s, c)
  <1>1. /\ Len(s) \in Nat /\ Len(t) = Len(s) + 1
        /\ \A i \in 1..Len(s) : i \in 1..Len(t) /\ t[i] = s[i]
        /\ t[Len(s) + 1] = c /\ Len(s) + 1 \in 1..Len(t)
        /\ \A i \in 1..Len(t) : i \in 1..Len(s) \/ i = Len(s) + 1
    BY AppendIs
  <1> HIDE DEF t
  <1>2. \A x : (\E k \in 1..Len(t) : Opens(ms, t[k], x)) <=> (\E k \in 1..Len(s) : Opens(ms, s[k], x)) \/ Opens(ms, c, x)
    BY ONLY <1>1
  <1>3. \A x : (\E k \in 1..Len(t) : t[k].body = x) <=> (\E k \in 1..Len(s) : s[k].body = x) \/ c.body = x
    BY ONLY <1>1
  <1>4. \A x : (\E k \in 1..Len(t) : Lists(t[k], x)) <=> (\E k \in 1..Len(s) : Lists(s[k], x)) \/ Lists(c, x)
    BY ONLY <1>1
  <1>5. \A x : (\E k \in 1..Len(t) : Executing(t[k], x)) <=> (\E k \in 1..Len(s) : Executing(s[k], x)) \/ Executing(c, x)
    BY ONLY <1>1
  <1>6. OpenIn(ms, t) = OpenIn(ms, s) \cup {x \in 1..Len(ms) : Opens(ms, c, x)}
    BY ONLY <1>2 DEF OpenIn
  <1>7. RunIn(ms, t) = RunIn(ms, s) \cup {x \in 1..Len(ms) : c.body = x}
    BY ONLY <1>3 DEF RunIn
  <1>8. QueueIn(ms, t) = QueueIn(ms, s) \cup {x \in 1..Len(ms) : Lists(c, x)}
    BY ONLY <1>4 DEF QueueIn
  <1>9. ReactIn(ms, t) = ReactIn(ms, s) \cup {x \in 1..Len(ms) : Executing(c, x)}
    BY ONLY <1>5 DEF ReactIn
  <1> QED BY <1>6, <1>7, <1>8, <1>9 DEF t

(* The views do not depend on more than the links.                         *)
LEMMA ViewSame ==
    ASSUME NEW ms, NEW ms2, NEW st, Len(ms2) = Len(ms), \A x \in 1..Len(ms) : ms2[x].links = ms[x].links
    PROVE  /\ OpenIn(ms2, st) = OpenIn(ms, st) /\ RunIn(ms2, st) = RunIn(ms, st)
           /\ QueueIn(ms2, st) = QueueIn(ms, st) /\ ReactIn(ms2, st) = ReactIn(ms, st)
  BY DEF OpenIn, Opens, RunIn, QueueIn, ReactIn

(* No call has anything in hand.                                           *)
LEMMA ViewEmpty ==
    ASSUME NEW ms
    PROVE  OpenIn(ms, <<>>) = {} /\ RunIn(ms, <<>>) = {} /\ QueueIn(ms, <<>>) = {} /\ ReactIn(ms, <<>>) = {}
  BY DEF OpenIn, RunIn, QueueIn, ReactIn

(* The calls below the innermost one do not have in hand what that needs.  *)
LEMMA BelowViews ==
    ASSUME ShapeInv, stk # <<>>, NEW x \in 1..Len(mods), mods[x].name \in NeedsOf(world, Top.n)
    PROVE  x \notin OpenIn(mods, Pop) /\ x \notin RunIn(mods, Pop) /\ x \notin QueueIn(mods, Pop) /\ x \notin ReactIn(mods, Pop)
  <1>1. /\ Pop \in Seq(CallRec) /\ Len(Pop) = Len(stk) - 1 /\ Len(stk) \in Nat \ {0} /\ Top = stk[Len(stk)]
        /\ \A k \in 1..Len(Pop) : k \in 1..Len(stk) /\ Pop[k] = stk[k]
    BY ShapeIs, PopIs
  <1>2. Apart(world, mods, stk)
    BY ShapeIs DEF StackOK, Nested
  <1>3. \A k \in 1..Len(Pop) : k < Len(stk) /\ Len(stk) \in 1..Len(stk)
    BY ONLY <1>1
  <1>4. \A k \in 1..Len(Pop) : ~Works(Pop[k], x)
    BY ONLY <1>1, <1>2, <1>3, x \in 1..Len(mods), mods[x].name \in NeedsOf(world, Top.n) DEF Apart
  <1>5. x # 0
    BY ShapeIs
  <1>6. \A k \in 1..Len(Pop) : ~Opens(mods, Pop[k], x) /\ Pop[k].body # x /\ ~Lists(Pop[k], x) /\ ~Executing(Pop[k], x)
    BY ONLY <1>4, <1>5 DEF Works, Opens, Lists, Executing
  <1> QED BY ONLY <1>6 DEF OpenIn, RunIn, QueueIn, ReactIn

(* The innermost call adds what it has in hand.                            *)
LEMMA TopViews ==
    ASSUME ShapeInv, stk # <<>>
    PROVE  /\ OpenIn(mods, stk) = OpenIn(mods, Pop) \cup {x \in 1..Len(mods) : Opens(mods, Top, x)}
           /\ RunIn(mods, stk) = RunIn(mods, Pop) \cup {x \in 1..Len(mods) : Top.body = x}
           /\ QueueIn(mods, stk) = QueueIn(mods, Pop) \cup {x \in 1..Len(mods) : Lists(Top, x)}
           /\ ReactIn(mods, stk) = ReactIn(mods, Pop) \cup {x \in 1..Len(mods) : Executing(Top, x)}
  <1>1. Pop \in Seq(CallRec) /\ Top \in CallRec /\ stk = Append(Pop, Top) /\ mods \in Seq(ModRec)
    BY ShapeIs, PopIs
  <1> QED BY ONLY <1>1, ViewAppend

(* The views when the innermost call goes on as c.                         *)
LEMMA NewTopViews ==
    ASSUME ShapeInv, stk # <<>>, NEW c \in CallRec
    PROVE  /\ OpenIn(mods, WithTop(c)) = OpenIn(mods, Pop) \cup {x \in 1..Len(mods) : Opens(mods, c, x)}
           /\ RunIn(mods, WithTop(c)) = RunIn(mods, Pop) \cup {x \in 1..Len(mods) : c.body = x}
           /\ QueueIn(mods, WithTop(c)) = QueueIn(mods, Pop) \cup {x \in 1..Len(mods) : Lists(c, x)}
           /\ ReactIn(mods, WithTop(c)) = ReactIn(mods, Pop) \cup {x \in 1..Len(mods) : Executing(c, x)}
  <1>1. Pop \in Seq(CallRec) /\ mods \in Seq(ModRec) /\ WithTop(c) = Append(Pop, c)
    BY ShapeIs, PopIs, WithTopIs
  <1> QED BY ONLY <1>1, c \in CallRec, ViewAppend

OpenNow == OpenIn(mods, stk)
RunNow == RunIn(mods, stk)
QueueNow == QueueIn(mods, stk)
ReactNow == ReactIn(mods, stk)

LinksSame == Len(mods') = Len(mods) /\ \A x \in 1..Len(mods) : mods'[x].links = mods[x].links

(* The views after a step that keeps the links.                            *)
LEMMA ViewsNext ==
    ASSUME LinksSame
    PROVE  /\ OpenNow' = OpenIn(mods, stk') /\ RunNow' = RunIn(mods, stk')
           /\ QueueNow' = QueueIn(mods, stk') /\ ReactNow' = ReactIn(mods, stk')
  <1>1. Len(mods') = Len(mods) /\ \A x \in 1..Len(mods) : mods'[x].links = mods[x].links
    BY DEF LinksSame
  <1>2. /\ OpenIn(mods', stk') = OpenIn(mods, stk') /\ RunIn(mods', stk') = RunIn(mods, stk')
        /\ QueueIn(mods', stk') = QueueIn(mods, stk') /\ ReactIn(mods', stk') = ReactIn(mods, stk')
    BY ONLY <1>1, ViewSame
  <1> QED BY <1>2 DEF OpenNow, RunNow, QueueNow, ReactNow

(* An evaluation has no reaction in it, and opens what is on its path.     *)
LEMMA EvalViews ==
    ASSUME ShapeInv, stk # <<>>, Top.op = "js_evaluate_module"
    PROVE  /\ QueueNow = QueueIn(mods, Pop) /\ ReactNow = ReactIn(mods, Pop)
           /\ RunNow = RunIn(mods, Pop) \cup {x \in 1..Len(mods) : Top.body = x}
           /\ OpenNow = OpenIn(mods, Pop) \cup {x \in 1..Len(mods) : Opens(mods, Top, x)}
           /\ \A x \in 1..Len(mods) : Opens(mods, Top, x) => Has(Top.list, x)
           /\ \A x \in 1..Len(mods) : Has(Top.list, x) =>
                 /\ mods[x].status = "evaluating" /\ mods[x].name \in NeedsOf(world, Top.n)
                 /\ x \notin OpenIn(mods, Pop) /\ x \notin RunIn(mods, Pop) /\ x \notin QueueNow /\ x \notin ReactNow
           /\ Top.body # 0 => Has(Top.list, Top.body)
  <1>1. /\ QueueNow = QueueIn(mods, Pop) \cup {x \in 1..Len(mods) : Lists(Top, x)}
        /\ ReactNow = ReactIn(mods, Pop) \cup {x \in 1..Len(mods) : Executing(Top, x)}
        /\ RunNow = RunIn(mods, Pop) \cup {x \in 1..Len(mods) : Top.body = x}
        /\ OpenNow = OpenIn(mods, Pop) \cup {x \in 1..Len(mods) : Opens(mods, Top, x)}
    BY TopViews DEF OpenNow, RunNow, QueueNow, ReactNow
  <1>2. QueueNow = QueueIn(mods, Pop) /\ ReactNow = ReactIn(mods, Pop)
    BY <1>1 DEF Lists, Executing
  <1>3. /\ EvalOK(mods, Top) /\ WalkOK(mods, Top, "evaluating")
        /\ \A x : Has(Top.list, x) => x \in 1..Len(mods) /\ mods[x].status = "evaluating"
                                      /\ mods[x].name \in NeedsOf(world, Top.n)
    <2>1. CallOK(world, mods, Top)
      BY TopIs
    <2>2. WalkOp("evaluating") = "js_evaluate_module" /\ "evaluating" \in {"linking", "evaluating"}
      BY EvalOp
    <2> QED BY <2>1, <2>2, WalkIs DEF CallOK
  <1>4. \A k \in 1..Len(Top.path) : Has(Top.list, Top.path[k].d)
    BY <1>3 DEF WalkOK, PathOK
  <1>5. Top.body # 0 => Has(Top.list, Top.body)
    <2>1. Top \in CallRec
      BY TopIs
    <2>2. Top.path # <<>> => Len(Top.path) \in 1..Len(Top.path) /\ Last(Top.path) = Top.path[Len(Top.path)]
      BY <2>1, CallFields
    <2> QED BY ONLY <1>3, <1>4, <2>2 DEF EvalOK
  <1>6. \A x \in 1..Len(mods) : Has(Top.list, x) =>
          x \notin OpenIn(mods, Pop) /\ x \notin RunIn(mods, Pop) /\ x \notin QueueIn(mods, Pop) /\ x \notin ReactIn(mods, Pop)
    BY <1>3, BelowViews
  <1>7. \A x \in 1..Len(mods) : Opens(mods, Top, x) => Has(Top.list, x)
    BY ONLY <1>4 DEF Opens
  <1> QED BY <1>1, <1>2, <1>3, <1>5, <1>6, <1>7

(* Entering opens a module.                                                *)
LEMMA ViewsEnter ==
    ASSUME ShapeInv, stk # <<>>, Top.op = "js_evaluate_module", NEW d \in 1..Len(mods), stk' = Enter(d), LinksSame
    PROVE  OpenNow' = OpenNow \cup {d} /\ RunNow' = RunNow /\ QueueNow' = QueueNow /\ ReactNow' = ReactNow
  <1> DEFINE c == WithEntered(Top, d)
  <1>1. Top \in CallRec /\ d \in Nat
    BY ShapeIs, TopIs
  <1>2. stk' = WithTop(c) /\ c.body = Top.body /\ c.op = Top.op
    BY EnterIs
  <1>3. /\ c \in CallRec
        /\ Len(c.path) = Len(Top.path) + 1
        /\ c.path[Len(Top.path) + 1].d = d /\ c.path[Len(Top.path) + 1].i = 1
        /\ \A k \in 1..Len(Top.path) : c.path[k] = Top.path[k]
    <2>1. c = WithEntered(Top, d)
      OBVIOUS
    <2> HIDE DEF c
    <2> QED BY ONLY <1>1, <2>1, EntersCallIs
  <1> HIDE DEF c
  <1>4. Len(Top.path) \in Nat
    BY <1>1, CallFields
  <1>5. ASSUME NEW x \in 1..Len(mods) PROVE Opens(mods, c, x) <=> Opens(mods, Top, x) \/ x = d
    <2>1. Len(mods[x].links) \in Nat
      BY ShapeIs, ModIs
    <2>2. \A k \in 1..Len(c.path) : k \in 1..Len(Top.path) \/ k = Len(Top.path) + 1
      BY ONLY <1>3, <1>4
    <2>3. \A k \in 1..Len(Top.path) : k \in 1..Len(c.path)
      BY ONLY <1>3, <1>4
    <2>4. Len(Top.path) + 1 \in 1..Len(c.path) /\ 1 <= Len(mods[x].links) + 1
      BY ONLY <1>3, <1>4, <2>1, SMTT(30)
    <2>5. ASSUME Opens(mods, c, x) PROVE Opens(mods, Top, x) \/ x = d
      BY ONLY <1>2, <1>3, <2>2, <2>5 DEF Opens
    <2>6. ASSUME Opens(mods, Top, x) PROVE Opens(mods, c, x)
      BY ONLY <1>2, <1>3, <2>3, <2>6 DEF Opens
    <2>7. ASSUME x = d PROVE Opens(mods, c, x)
      BY ONLY <1>2, <1>3, <2>4, <2>7, Top.op = "js_evaluate_module" DEF Opens
    <2> QED BY <2>5, <2>6, <2>7
  <1>6. /\ OpenNow' = OpenIn(mods, Pop) \cup {x \in 1..Len(mods) : Opens(mods, c, x)}
        /\ RunNow' = RunIn(mods, Pop) \cup {x \in 1..Len(mods) : c.body = x}
        /\ QueueNow' = QueueIn(mods, Pop) \cup {x \in 1..Len(mods) : Lists(c, x)}
        /\ ReactNow' = ReactIn(mods, Pop) \cup {x \in 1..Len(mods) : Executing(c, x)}
    BY <1>2, <1>3, NewTopViews, ViewsNext
  <1>7. /\ OpenNow = OpenIn(mods, Pop) \cup {x \in 1..Len(mods) : Opens(mods, Top, x)}
        /\ RunNow = RunIn(mods, Pop) \cup {x \in 1..Len(mods) : Top.body = x}
        /\ QueueNow = QueueIn(mods, Pop) /\ ReactNow = ReactIn(mods, Pop)
    BY EvalViews
  <1>8. OpenNow' = OpenNow \cup {d}
    BY ONLY <1>5, <1>6, <1>7, d \in 1..Len(mods)
  <1>9. \A x : ~Lists(c, x) /\ ~Executing(c, x)
    BY <1>2 DEF Lists, Executing
  <1> QED BY ONLY <1>2, <1>6, <1>7, <1>8, <1>9

(* What a call opens is by the position of each module on its path.        *)
LEMMA OpensIs ==
    ASSUME ShapeInv, Within("js_evaluate_module"), NEW x \in 1..Len(mods)
    PROVE  /\ x # Cur.d => (Opens(mods, Top, x) <=>
                 \E h \in 1..Len(Top.path) : h # Len(Top.path) /\ Top.path[h].d = x /\ Top.path[h].i <= Len(mods[x].links) + 1)
           /\ x = Cur.d => (Opens(mods, Top, x) <=> Cur.i <= Len(mods[x].links) + 1)
           /\ \A h \in 1..Len(Top.path) : h # Len(Top.path) => Top.path[h].d # Cur.d
  <1>1. /\ Top \in CallRec /\ Top.op = "js_evaluate_module" /\ Cur = Top.path[Len(Top.path)]
        /\ Len(Top.path) \in 1..Len(Top.path) /\ WalkOK(mods, Top, "evaluating") /\ CallIn(mods, Top)
    BY EvalWithin
  <1>2. \A h \in 1..Len(Top.path) : h # Len(Top.path) => h < Len(Top.path)
    BY <1>1
  <1>3. \A h \in 1..Len(Top.path) : h # Len(Top.path) => mods[Top.path[h].d].dfs < mods[Cur.d].dfs
    BY ONLY <1>1, <1>2 DEF WalkOK, PathOK
  <1>4. mods[Cur.d].dfs \in Nat
    <2>1. Cur.d \in 1..Len(mods)
      BY ONLY <1>1 DEF CallIn
    <2> QED BY <2>1, ShapeIs, ModIs
  <1>5. ~(mods[Cur.d].dfs < mods[Cur.d].dfs)
    BY ONLY <1>4
  <1>6. \A h \in 1..Len(Top.path) : h # Len(Top.path) => Top.path[h].d # Cur.d
    BY ONLY <1>3, <1>5
  <1> QED BY ONLY <1>1, <1>6 DEF Opens

(* Going on opens nothing, and executing a module closes it.               *)
LEMMA ViewsAdvance ==
    ASSUME ShapeInv, Within("js_evaluate_module"), NEW c \in CallRec, Advances(Top, c), stk' = WithTop(c), LinksSame,
           Cur.i <= Len(mods[Cur.d].links) + 1
    PROVE  /\ Cur.d \in OpenNow
           /\ Cur.i <= Len(mods[Cur.d].links) => OpenNow' = OpenNow
           /\ Cur.i = Len(mods[Cur.d].links) + 1 => OpenNow' = OpenNow \ {Cur.d}
           /\ c.body = 0 => RunNow' = RunNow
           /\ c.body = Cur.d => RunNow' = RunNow \cup {Cur.d}
           /\ QueueNow' = QueueNow /\ ReactNow' = ReactNow
  <1>1. /\ stk # <<>> /\ Top \in CallRec /\ Top.op = "js_evaluate_module" /\ Cur = Top.path[Len(Top.path)] /\ Top.body = 0
        /\ Len(Top.path) \in 1..Len(Top.path) /\ Cur.d \in 1..Len(mods) /\ Cur.i \in Nat \ {0} /\ Has(Top.list, Cur.d)
    BY EvalWithin
  <1>2. /\ OpenNow = OpenIn(mods, Pop) \cup {x \in 1..Len(mods) : Opens(mods, Top, x)}
        /\ RunNow = RunIn(mods, Pop) \cup {x \in 1..Len(mods) : Top.body = x}
        /\ QueueNow = QueueIn(mods, Pop) /\ ReactNow = ReactIn(mods, Pop) /\ Cur.d \notin OpenIn(mods, Pop)
    BY <1>1, EvalViews
  <1>3. /\ OpenNow' = OpenIn(mods, Pop) \cup {x \in 1..Len(mods) : Opens(mods, c, x)}
        /\ RunNow' = RunIn(mods, Pop) \cup {x \in 1..Len(mods) : c.body = x}
        /\ QueueNow' = QueueIn(mods, Pop) \cup {x \in 1..Len(mods) : Lists(c, x)}
        /\ ReactNow' = ReactIn(mods, Pop) \cup {x \in 1..Len(mods) : Executing(c, x)}
    BY <1>1, NewTopViews, ViewsNext
  <1>4. /\ c.op = Top.op /\ Len(c.path) = Len(Top.path)
        /\ \A k \in 1..Len(Top.path) : c.path[k].d = Top.path[k].d
        /\ \A k \in 1..Len(Top.path) : k # Len(Top.path) => c.path[k].i = Top.path[k].i
        /\ c.path[Len(Top.path)].i = Cur.i + 1
    BY ONLY <1>1, Advances(Top, c) DEF Advances, SameHead
  <1>5. \A x : ~Lists(c, x) /\ ~Executing(c, x)
    BY <1>1, <1>4 DEF Lists, Executing
  <1>6. \A h \in 1..Len(Top.path) : h # Len(Top.path) => Top.path[h].d # Cur.d
    BY <1>1, OpensIs
  <1>7. ASSUME NEW x \in 1..Len(mods), x # Cur.d PROVE Opens(mods, c, x) <=> Opens(mods, Top, x)
    BY ONLY <1>1, <1>4, <1>7 DEF Opens
  <1>8. Opens(mods, c, Cur.d) <=> Cur.i + 1 <= Len(mods[Cur.d].links) + 1
    BY ONLY <1>1, <1>4, <1>6, SMTT(30) DEF Opens
  <1>9. Opens(mods, Top, Cur.d)
    BY <1>1, OpensIs
  <1>10. Len(mods[Cur.d].links) \in Nat
    BY <1>1, ShapeIs, ModIs
  <1>11. Cur.d \in OpenNow
    BY <1>1, <1>2, <1>9
  <1>12. Cur.i <= Len(mods[Cur.d].links) => Opens(mods, c, Cur.d)
    BY ONLY <1>1, <1>8, <1>10, SMTT(30)
  <1>13. Cur.i = Len(mods[Cur.d].links) + 1 => ~Opens(mods, c, Cur.d)
    BY ONLY <1>1, <1>8, <1>10
  <1>14. Cur.i <= Len(mods[Cur.d].links) => OpenNow' = OpenNow
    BY ONLY <1>2, <1>3, <1>7, <1>9, <1>12
  <1>15. Cur.i = Len(mods[Cur.d].links) + 1 => OpenNow' = OpenNow \ {Cur.d}
    BY ONLY <1>2, <1>3, <1>7, <1>9, <1>13
  <1>16. 0 \notin 1..Len(mods)
    BY ShapeIs
  <1>17. (c.body = 0 => RunNow' = RunNow) /\ (c.body = Cur.d => RunNow' = RunNow \cup {Cur.d})
    BY ONLY <1>1, <1>2, <1>3, <1>16
  <1> QED BY <1>2, <1>3, <1>5, <1>11, <1>14, <1>15, <1>17

(* Returning changes no view.                                              *)
LEMMA ViewsReturn ==
    ASSUME ShapeInv, Within("js_evaluate_module"), NEW c \in CallRec, NEW n, ReturnsCall(Top, c, n), stk' = WithTop(c),
           LinksSame, Cur.i = Len(mods[Cur.d].links) + 2
    PROVE  OpenNow' = OpenNow /\ RunNow' = RunNow /\ QueueNow' = QueueNow /\ ReactNow' = ReactNow
  <1>1. /\ stk # <<>> /\ Top \in CallRec /\ Top.op = "js_evaluate_module" /\ Cur = Top.path[Len(Top.path)] /\ Top.body = 0
        /\ Len(Top.path) \in 1..Len(Top.path) /\ Cur.d \in 1..Len(mods) /\ Cur.i \in Nat \ {0}
    BY EvalWithin
  <1>2. /\ OpenNow = OpenIn(mods, Pop) \cup {x \in 1..Len(mods) : Opens(mods, Top, x)}
        /\ RunNow = RunIn(mods, Pop) \cup {x \in 1..Len(mods) : Top.body = x}
        /\ QueueNow = QueueIn(mods, Pop) /\ ReactNow = ReactIn(mods, Pop)
    BY <1>1, EvalViews
  <1>3. /\ OpenNow' = OpenIn(mods, Pop) \cup {x \in 1..Len(mods) : Opens(mods, c, x)}
        /\ RunNow' = RunIn(mods, Pop) \cup {x \in 1..Len(mods) : c.body = x}
        /\ QueueNow' = QueueIn(mods, Pop) \cup {x \in 1..Len(mods) : Lists(c, x)}
        /\ ReactNow' = ReactIn(mods, Pop) \cup {x \in 1..Len(mods) : Executing(c, x)}
    BY <1>1, NewTopViews, ViewsNext
  <1>4. /\ c.op = Top.op /\ c.body = Top.body /\ Len(c.path) = Len(Top.path) - 1
        /\ \A k \in 1..(Len(Top.path) - 1) : c.path[k] = Top.path[k]
    BY ONLY <1>1, ReturnsCall(Top, c, n) DEF ReturnsCall, SameHead
  <1>5. \A x : ~Lists(c, x) /\ ~Executing(c, x)
    BY <1>1, <1>4 DEF Lists, Executing
  <1>6. /\ \A h \in 1..Len(Top.path) : h # Len(Top.path) => Top.path[h].d # Cur.d
        /\ \A h \in 1..Len(c.path) : h \in 1..Len(Top.path) /\ h # Len(Top.path) /\ c.path[h] = Top.path[h]
        /\ \A h \in 1..Len(Top.path) : h # Len(Top.path) => h \in 1..Len(c.path)
    <2>1. Len(Top.path) \in Nat
      BY <1>1, CallFields
    <2> QED BY <1>1, <1>4, <2>1, OpensIs
  <1>7. ASSUME NEW x \in 1..Len(mods) PROVE Opens(mods, c, x) <=> Opens(mods, Top, x)
    <2>1. CASE x # Cur.d
      <3>1. Opens(mods, Top, x) <=>
                 \E h \in 1..Len(Top.path) : h # Len(Top.path) /\ Top.path[h].d = x /\ Top.path[h].i <= Len(mods[x].links) + 1
        BY <2>1, OpensIs
      <3> QED BY ONLY <1>1, <1>4, <1>6, <3>1 DEF Opens
    <2>2. CASE x = Cur.d
      <3>1. Len(mods[Cur.d].links) \in Nat
        BY <1>1, ShapeIs, ModIs
      <3>2. ~(Cur.i <= Len(mods[Cur.d].links) + 1)
        BY ONLY <3>1, Cur.i = Len(mods[Cur.d].links) + 2
      <3>3. ~Opens(mods, Top, x)
        BY <2>2, <3>2, OpensIs
      <3>4. ~Opens(mods, c, x)
        BY ONLY <1>6, <2>2 DEF Opens
      <3> QED BY <3>3, <3>4
    <2> QED BY <2>1, <2>2
  <1> QED BY ONLY <1>2, <1>3, <1>4, <1>5, <1>7

(* An evaluation ends.                                                     *)
LEMMA ViewsPop ==
    ASSUME ShapeInv, stk # <<>>, Top.op = "js_evaluate_module", stk' = Pop, LinksSame
    PROVE  /\ \A x : x \in OpenNow' <=> x \in OpenNow /\ ~Has(Top.list, x)
           /\ RunNow' = RunNow \ {Top.body}
           /\ QueueNow' = QueueNow /\ ReactNow' = ReactNow
  <1>1. /\ OpenNow' = OpenIn(mods, Pop) /\ RunNow' = RunIn(mods, Pop)
        /\ QueueNow' = QueueIn(mods, Pop) /\ ReactNow' = ReactIn(mods, Pop)
    BY ViewsNext
  <1>2. /\ QueueNow = QueueIn(mods, Pop) /\ ReactNow = ReactIn(mods, Pop)
        /\ RunNow = RunIn(mods, Pop) \cup {x \in 1..Len(mods) : Top.body = x}
        /\ OpenNow = OpenIn(mods, Pop) \cup {x \in 1..Len(mods) : Opens(mods, Top, x)}
        /\ \A x \in 1..Len(mods) : Opens(mods, Top, x) => Has(Top.list, x)
        /\ \A x \in 1..Len(mods) : Has(Top.list, x) => x \notin OpenIn(mods, Pop) /\ x \notin RunIn(mods, Pop)
        /\ Top.body # 0 => Has(Top.list, Top.body)
    BY EvalViews
  <1>3. OpenIn(mods, Pop) \subseteq 1..Len(mods) /\ RunIn(mods, Pop) \subseteq 1..Len(mods)
    BY DEF OpenIn, RunIn
  <1>4. Top.body \notin RunIn(mods, Pop)
    <2>1. 0 \notin 1..Len(mods)
      BY ShapeIs
    <2> QED BY ONLY <1>2, <1>3, <2>1
  <1>5. \A x : x \in OpenNow' <=> x \in OpenNow /\ ~Has(Top.list, x)
    BY ONLY <1>1, <1>2, <1>3
  <1>6. RunNow' = RunNow \ {Top.body}
    BY ONLY <1>1, <1>2, <1>4
  <1> QED BY <1>1, <1>2, <1>5, <1>6

(* A job has nothing below it.                                             *)
LEMMA JobViews ==
    ASSUME ShapeInv, stk # <<>>, Top.op \notin Base
    PROVE  /\ Pop = <<>> /\ OpenNow = {} /\ RunNow = {x \in 1..Len(mods) : Top.body = x}
           /\ QueueNow = {x \in 1..Len(mods) : Lists(Top, x)}
           /\ ReactNow = {x \in 1..Len(mods) : Executing(Top, x)}
  <1>1. Len(stk) = 1
    BY TopIs
  <1>2. Pop \in Seq(CallRec) /\ Len(Pop) = 0
    BY <1>1, ShapeIs, PopIs
  <1>3. Pop = <<>>
    BY ONLY <1>2
  <1>4. \A x : ~Opens(mods, Top, x)
    BY DEF Opens, Base
  <1>5. /\ OpenNow = OpenIn(mods, Pop) \cup {x \in 1..Len(mods) : Opens(mods, Top, x)}
        /\ RunNow = RunIn(mods, Pop) \cup {x \in 1..Len(mods) : Top.body = x}
        /\ QueueNow = QueueIn(mods, Pop) \cup {x \in 1..Len(mods) : Lists(Top, x)}
        /\ ReactNow = ReactIn(mods, Pop) \cup {x \in 1..Len(mods) : Executing(Top, x)}
    BY TopViews DEF OpenNow, RunNow, QueueNow, ReactNow
  <1>6. OpenIn(mods, Pop) = {} /\ RunIn(mods, Pop) = {} /\ QueueIn(mods, Pop) = {} /\ ReactIn(mods, Pop) = {}
    BY <1>3, ViewEmpty
  <1> QED BY ONLY <1>3, <1>4, <1>5, <1>6

(* Without calls nothing is in hand.                                       *)
LEMMA NoViews ==
    ASSUME stk = <<>>
    PROVE  OpenNow = {} /\ RunNow = {} /\ QueueNow = {} /\ ReactNow = {}
  BY ViewEmpty DEF OpenNow, RunNow, QueueNow, ReactNow

(* A body that ends is no longer in hand.                                  *)
LEMMA ViewsBodyEnds ==
    ASSUME ShapeInv, RunsBody, stk' = BodyEnds, LinksSame
    PROVE  /\ OpenNow' = OpenNow /\ RunNow' = RunNow \ {Top.body} /\ QueueNow' = QueueNow
           /\ ReactNow' = ReactNow \ {Top.body} /\ Top.body \in RunNow
           /\ Top.op = "fulfilled" => ReactNow = {Top.body}
           /\ Top.op = "js_evaluate_module" => Top.body \notin QueueNow /\ Top.body \notin ReactNow
           /\ Top.op = "bodyResumes" => QueueNow = {} /\ ReactNow = {}
  <1> DEFINE d == Top.body
  <1>1. stk # <<>> /\ Top \in CallRec /\ d \in 1..Len(mods) /\ Top.op \in BodyOps
    BY BodyRuns
  <1>2. /\ OpenNow' = OpenIn(mods, stk') /\ RunNow' = RunIn(mods, stk')
        /\ QueueNow' = QueueIn(mods, stk') /\ ReactNow' = ReactIn(mods, stk')
    BY ViewsNext
  <1>3. CASE Top.op = "js_evaluate_module"
    <2> DEFINE c == WithBody(Top, 0)
    <2>1. /\ BodyEnds = WithTop(c) /\ c \in CallRec /\ c.op = Top.op /\ c.body = 0 /\ c.path = Top.path
      BY <1>3, BodyEndsIs
    <2> HIDE DEF c
    <2>2. /\ QueueNow = QueueIn(mods, Pop) /\ ReactNow = ReactIn(mods, Pop)
          /\ RunNow = RunIn(mods, Pop) \cup {x \in 1..Len(mods) : d = x}
          /\ OpenNow = OpenIn(mods, Pop) \cup {x \in 1..Len(mods) : Opens(mods, Top, x)}
          /\ d \notin RunIn(mods, Pop) /\ d \notin QueueNow /\ d \notin ReactNow
      <3>1. d # 0
        BY DEF RunsBody
      <3>2. Has(Top.list, d)
        BY <1>1, <1>3, <3>1, EvalViews
      <3> QED BY <1>1, <1>3, <3>2, EvalViews
    <2>3. /\ OpenIn(mods, WithTop(c)) = OpenIn(mods, Pop) \cup {x \in 1..Len(mods) : Opens(mods, c, x)}
          /\ RunIn(mods, WithTop(c)) = RunIn(mods, Pop) \cup {x \in 1..Len(mods) : c.body = x}
          /\ QueueIn(mods, WithTop(c)) = QueueIn(mods, Pop) \cup {x \in 1..Len(mods) : Lists(c, x)}
          /\ ReactIn(mods, WithTop(c)) = ReactIn(mods, Pop) \cup {x \in 1..Len(mods) : Executing(c, x)}
      BY <1>1, <2>1, NewTopViews
    <2>4. \A x : ~Lists(c, x) /\ ~Executing(c, x) /\ (Opens(mods, c, x) <=> Opens(mods, Top, x))
      BY ONLY <1>3, <2>1 DEF Lists, Executing, Opens
    <2>5. 0 \notin 1..Len(mods)
      BY ShapeIs
    <2> QED BY ONLY <1>1, <1>2, <1>3, <2>1, <2>2, <2>3, <2>4, <2>5, stk' = BodyEnds, ZenonT(60)
  <1>4. CASE Top.op = "fulfilled"
    <2> DEFINE c == WithBody(Top, 0)
    <2>1. /\ BodyEnds = WithTop(c) /\ c \in CallRec /\ c.op = Top.op /\ c.body = 0 /\ c.list = Top.list
      BY <1>4, BodyEndsIs
    <2> HIDE DEF c
    <2>2. /\ Pop = <<>> /\ OpenNow = {} /\ RunNow = {x \in 1..Len(mods) : d = x}
          /\ QueueNow = {x \in 1..Len(mods) : Lists(Top, x)}
          /\ ReactNow = {x \in 1..Len(mods) : Executing(Top, x)}
      BY <1>1, <1>4, JobViews DEF Base
    <2>3. /\ OpenIn(mods, WithTop(c)) = OpenIn(mods, Pop) \cup {x \in 1..Len(mods) : Opens(mods, c, x)}
          /\ RunIn(mods, WithTop(c)) = RunIn(mods, Pop) \cup {x \in 1..Len(mods) : c.body = x}
          /\ QueueIn(mods, WithTop(c)) = QueueIn(mods, Pop) \cup {x \in 1..Len(mods) : Lists(c, x)}
          /\ ReactIn(mods, WithTop(c)) = ReactIn(mods, Pop) \cup {x \in 1..Len(mods) : Executing(c, x)}
      BY <1>1, <2>1, NewTopViews
    <2>4. \A x : (Lists(c, x) <=> Lists(Top, x)) /\ (Executing(c, x) <=> x = 0) /\ ~Opens(mods, c, x)
                 /\ (Executing(Top, x) <=> x = d)
      BY ONLY <1>4, <2>1 DEF Lists, Executing, Opens
    <2>5. 0 \notin 1..Len(mods)
      BY ShapeIs
    <2>6. OpenIn(mods, Pop) = {} /\ RunIn(mods, Pop) = {} /\ QueueIn(mods, Pop) = {} /\ ReactIn(mods, Pop) = {}
      BY <2>2, ViewEmpty
    <2> QED BY ONLY <1>1, <1>2, <1>4, <2>1, <2>2, <2>3, <2>4, <2>5, <2>6, stk' = BodyEnds
  <1>5. CASE Top.op = "bodyResumes"
    <2>1. stk' = Pop
      BY <1>5, BodyEndsIs
    <2>2. /\ Pop = <<>> /\ OpenNow = {} /\ RunNow = {x \in 1..Len(mods) : d = x}
          /\ QueueNow = {x \in 1..Len(mods) : Lists(Top, x)}
          /\ ReactNow = {x \in 1..Len(mods) : Executing(Top, x)}
      BY <1>1, <1>5, JobViews DEF Base
    <2>3. \A x : ~Lists(Top, x) /\ ~Executing(Top, x)
      BY <1>5 DEF Lists, Executing
    <2>4. OpenNow' = {} /\ RunNow' = {} /\ QueueNow' = {} /\ ReactNow' = {}
      BY ONLY <1>2, <2>1, <2>2, ViewEmpty
    <2> QED BY ONLY <1>1, <1>5, <2>2, <2>3, <2>4
  <1> QED BY <1>1, <1>3, <1>4, <1>5 DEF BodyOps

(* A job begins.                                                           *)
LEMMA ViewsBegin ==
    ASSUME ShapeInv, stk = <<>>, NEW c \in CallRec, c.op \notin Base, stk' = Append(stk, c), LinksSame
    PROVE  /\ OpenNow' = {} /\ RunNow' = {x \in 1..Len(mods) : c.body = x}
           /\ QueueNow' = {x \in 1..Len(mods) : Lists(c, x)} /\ ReactNow' = {x \in 1..Len(mods) : Executing(c, x)}
  <1>1. mods \in Seq(ModRec) /\ <<>> \in Seq(CallRec) /\ stk' = Append(<<>>, c)
    BY ShapeIs
  <1>2. /\ OpenIn(mods, stk') = OpenIn(mods, <<>>) \cup {x \in 1..Len(mods) : Opens(mods, c, x)}
        /\ RunIn(mods, stk') = RunIn(mods, <<>>) \cup {x \in 1..Len(mods) : c.body = x}
        /\ QueueIn(mods, stk') = QueueIn(mods, <<>>) \cup {x \in 1..Len(mods) : Lists(c, x)}
        /\ ReactIn(mods, stk') = ReactIn(mods, <<>>) \cup {x \in 1..Len(mods) : Executing(c, x)}
    BY ONLY <1>1, c \in CallRec, ViewAppend, ZenonT(60)
  <1>3. \A x : ~Opens(mods, c, x)
    BY DEF Opens, Base
  <1>4. OpenIn(mods, <<>>) = {} /\ RunIn(mods, <<>>) = {} /\ QueueIn(mods, <<>>) = {} /\ ReactIn(mods, <<>>) = {}
    BY ViewEmpty
  <1>5. /\ OpenNow' = OpenIn(mods, stk') /\ RunNow' = RunIn(mods, stk')
        /\ QueueNow' = QueueIn(mods, stk') /\ ReactNow' = ReactIn(mods, stk')
    BY ViewsNext
  <1> QED BY ONLY <1>2, <1>3, <1>4, <1>5

(* A job goes on.                                                          *)
LEMMA ViewsGoOn ==
    ASSUME ShapeInv, stk # <<>>, Top.op \notin Base, NEW c \in CallRec, c.op \notin Base, stk' = WithTop(c), LinksSame
    PROVE  /\ OpenNow' = {} /\ RunNow' = {x \in 1..Len(mods) : c.body = x}
           /\ QueueNow' = {x \in 1..Len(mods) : Lists(c, x)} /\ ReactNow' = {x \in 1..Len(mods) : Executing(c, x)}
  <1>1. Pop = <<>>
    BY JobViews
  <1>2. /\ OpenIn(mods, WithTop(c)) = OpenIn(mods, Pop) \cup {x \in 1..Len(mods) : Opens(mods, c, x)}
        /\ RunIn(mods, WithTop(c)) = RunIn(mods, Pop) \cup {x \in 1..Len(mods) : c.body = x}
        /\ QueueIn(mods, WithTop(c)) = QueueIn(mods, Pop) \cup {x \in 1..Len(mods) : Lists(c, x)}
        /\ ReactIn(mods, WithTop(c)) = ReactIn(mods, Pop) \cup {x \in 1..Len(mods) : Executing(c, x)}
    BY NewTopViews
  <1>3. \A x : ~Opens(mods, c, x)
    BY DEF Opens, Base
  <1>4. OpenIn(mods, Pop) = {} /\ RunIn(mods, Pop) = {} /\ QueueIn(mods, Pop) = {} /\ ReactIn(mods, Pop) = {}
    BY <1>1, ViewEmpty
  <1>5. /\ OpenNow' = OpenIn(mods, stk') /\ RunNow' = RunIn(mods, stk')
        /\ QueueNow' = QueueIn(mods, stk') /\ ReactNow' = ReactIn(mods, stk')
    BY ViewsNext
  <1> QED BY ONLY <1>2, <1>3, <1>4, <1>5, stk' = WithTop(c)

(* Calls that are not loud have nothing in hand.                           *)
LEMMA QuietHands ==
    ASSUME NEW w, NEW ms, NEW c \in CallRec, CallOK(w, ms, c), ~Loud(c), NEW ms2, NEW x \in Nat, x # 0
    PROVE  ~Opens(ms2, c, x) /\ c.body # x /\ ~Lists(c, x) /\ ~Executing(c, x)
  <1>1. c.op \in Ops
    BY CallFields
  <1>2. c.op \in Resolvers => c.body = 0
    BY DEF CallOK, ResolveOK
  <1>3. c.op = "js_link_module" => c.body = 0
    BY DEF CallOK, LinkOK
  <1>4. c.op = "js_evaluate_module" => c.path = <<>> /\ c.body = 0
    BY DEF CallOK, EvalOK, Loud
  <1>5. c.op # "fulfilled" /\ c.op # "bodyResumes"
    BY DEF Loud
  <1>6. c.body = 0
    BY ONLY <1>1, <1>2, <1>3, <1>4, <1>5 DEF Ops, Base, Resolvers
  <1>7. ~Opens(ms2, c, x)
    BY ONLY <1>4 DEF Opens
  <1> QED BY <1>5, <1>6, <1>7 DEF Lists, Executing

(* What a call has in hand is a module.                                    *)
LEMMA HandsIn ==
    ASSUME NEW w, NEW ms \in Seq(ModRec), NEW c \in CallRec, CallOK(w, ms, c), NEW ms2, NEW x, x # 0,
           Opens(ms2, c, x) \/ c.body = x \/ Lists(c, x) \/ Executing(c, x)
    PROVE  x \in 1..Len(ms)
  <1>1. CallIn(ms, c) /\ Len(ms) \in Nat
    BY ModIs DEF CallOK
  <1> QED BY ONLY <1>1, x # 0, Opens(ms2, c, x) \/ c.body = x \/ Lists(c, x) \/ Executing(c, x)
          DEF CallIn, Opens, Lists, Executing, Has

(* Quiet steps change no view.                                             *)
LEMMA ViewsQuiet ==
    ASSUME ShapeInv, ShapeInv', QuietStep
    PROVE  OpenNow' = OpenNow /\ RunNow' = RunNow /\ QueueNow' = QueueNow /\ ReactNow' = ReactNow
  <1>1. /\ stk \in Seq(CallRec) /\ stk' \in Seq(CallRec) /\ mods \in Seq(ModRec) /\ mods' \in Seq(ModRec)
        /\ Len(mods) \in Nat /\ Len(mods') \in Nat
    <2>1. stk' \in Seq(CallRec) /\ mods' \in Seq(ModRec)
      BY DEF ShapeInv, Shape, Typed
    <2>2. stk \in Seq(CallRec) /\ mods \in Seq(ModRec) /\ Len(mods) \in Nat
      BY ShapeIs
    <2>3. Len(mods') \in Nat
      BY ONLY <2>1, ModIs
    <2> QED BY <2>1, <2>2, <2>3
  <1>2. \A k \in 1..Len(stk) : CallOK(world, mods, stk[k]) /\ stk[k] \in CallRec
    BY ShapeIs, CallIs DEF StackOK, CallsOK
  <1>3. \A k \in 1..Len(stk') : CallOK(world', mods', stk'[k]) /\ stk'[k] \in CallRec
    <2>1. \A k \in 1..Len(stk') : CallOK(world', mods', stk'[k])
      BY DEF ShapeInv, Shape
    <2> QED BY <1>1, <2>1, CallIs
  <1>4. QuietCalls(stk, stk') /\ QuietMods(mods, mods')
    BY DEF QuietStep
  <1>5. ASSUME NEW x \in Nat, x # 0, NEW k \in 1..Len(stk), NEW ms2,
               Opens(ms2, stk[k], x) \/ stk[k].body = x \/ Lists(stk[k], x) \/ Executing(stk[k], x)
        PROVE  k \in 1..Len(stk') /\ stk'[k] = stk[k] /\ x \in 1..Len(mods)
    <2>1. Loud(stk[k])
      BY ONLY <1>2, <1>5, QuietHands
    <2>2. x \in 1..Len(mods)
      BY ONLY <1>1, <1>2, <1>5, HandsIn
    <2> QED BY ONLY <1>4, <2>1, <2>2, k \in 1..Len(stk) DEF QuietCalls
  <1>6. ASSUME NEW x \in Nat, x # 0, NEW k \in 1..Len(stk'), NEW ms2,
               Opens(ms2, stk'[k], x) \/ stk'[k].body = x \/ Lists(stk'[k], x) \/ Executing(stk'[k], x)
        PROVE  k \in 1..Len(stk) /\ stk'[k] = stk[k] /\ x \in 1..Len(mods)
    <2>1. Loud(stk'[k])
      BY ONLY <1>3, <1>6, QuietHands
    <2>2. k \in 1..Len(stk) /\ stk'[k] = stk[k]
      BY ONLY <1>4, <2>1, k \in 1..Len(stk') DEF QuietCalls
    <2>3. x \in 1..Len(mods)
      BY ONLY <1>1, <1>2, <1>6, <2>2, HandsIn
    <2> QED BY ONLY <2>2, <2>3
  <1>7. Len(mods) <= Len(mods') /\ \A x \in 1..Len(mods) : mods[x].status = "evaluating" => mods'[x].links = mods[x].links
    BY ONLY <1>4 DEF QuietMods
  <1>8. \A x \in 1..Len(mods) : x \in 1..Len(mods') /\ x \in Nat /\ x # 0
    BY ONLY <1>1, <1>7
  <1>9. \A x \in 1..Len(mods') : x \in Nat /\ x # 0
    BY ONLY <1>1
  <1>10. \A k \in 1..Len(stk) : \A x \in 1..Len(mods) : Opens(mods, stk[k], x) => mods[x].status = "evaluating"
    <2> SUFFICES ASSUME NEW k \in 1..Len(stk), NEW x \in 1..Len(mods), Opens(mods, stk[k], x)
                 PROVE  mods[x].status = "evaluating"
      OBVIOUS
    <2>1. stk[k].op = "js_evaluate_module" /\ Has(stk[k].list, x)
      BY <1>2 DEF Opens, CallOK, EvalOK, WalkOK, PathOK
    <2> QED BY <1>2, <2>1 DEF CallOK, EvalOK, WalkOK, ListOK, Has
  <1>11. \A k \in 1..Len(stk) : \A x \in 1..Len(mods) : stk[k] \in CallRec =>
            (mods'[x].links = mods[x].links => (Opens(mods', stk[k], x) <=> Opens(mods, stk[k], x)))
    BY DEF Opens
  <1>12. ASSUME NEW x \in 1..Len(mods), NEW k \in 1..Len(stk), stk[k].op = "js_evaluate_module",
                \E h \in 1..Len(stk[k].path) : stk[k].path[h].d = x
         PROVE  mods'[x].links = mods[x].links
    <2>1. Has(stk[k].list, x)
      BY <1>2, <1>12 DEF CallOK, EvalOK, WalkOK, PathOK
    <2>2. mods[x].status = "evaluating"
      BY <1>2, <1>12, <2>1 DEF CallOK, EvalOK, WalkOK, ListOK, Has
    <2> QED BY <1>7, <2>2, SMTT(30)
  <1>13. \A k \in 1..Len(stk) : \A x \in 1..Len(mods) : Opens(mods', stk[k], x) <=> Opens(mods, stk[k], x)
    <2> SUFFICES ASSUME NEW k \in 1..Len(stk), NEW x \in 1..Len(mods)
                 PROVE  Opens(mods', stk[k], x) <=> Opens(mods, stk[k], x)
      OBVIOUS
    <2>1. Opens(mods', stk[k], x) \/ Opens(mods, stk[k], x) => mods'[x].links = mods[x].links
      BY <1>12 DEF Opens
    <2> QED BY <1>2, <1>11, <2>1
  <1>14. OpenNow' = OpenNow
    <2>1. ASSUME NEW x \in OpenNow PROVE x \in OpenNow'
      BY ONLY <1>5, <1>8, <1>13, <2>1 DEF OpenNow, OpenIn
    <2>2. ASSUME NEW x \in OpenNow' PROVE x \in OpenNow
      BY ONLY <1>6, <1>9, <1>13, <2>2 DEF OpenNow, OpenIn
    <2> QED BY <2>1, <2>2
  <1>15. RunNow' = RunNow
    BY ONLY <1>5, <1>6, <1>8, <1>9 DEF RunNow, RunIn
  <1>16. QueueNow' = QueueNow
    BY ONLY <1>5, <1>6, <1>8, <1>9 DEF QueueNow, QueueIn
  <1>17. ReactNow' = ReactNow
    BY ONLY <1>5, <1>6, <1>8, <1>9 DEF ReactNow, ReactIn
  <1> QED BY <1>14, <1>15, <1>16, <1>17
-----------------------------------------------------------------------------
(* Cycles: what an evaluation has entered needs the modules that it is at, *)
(* and the modules of a cycle need its root.                               *)

NeededBy(w, ms, x, y) == ms[x].name \in NeedsOf(w, ms[y].name)
ToPath(w, ms, c) ==
    \A k \in 1..Len(c.path) : \A m \in 1..Len(c.list) :
        (k < Len(c.path) => ms[c.list[m]].dfs < ms[c.path[k + 1].d].dfs)
            => NeededBy(w, ms, c.path[k].d, c.list[m])
ToLow(w, ms, c) ==
    \A m \in 1..Len(c.list) : \E h \in 1..Len(c.list) :
        ms[c.list[h]].dfs = ms[c.list[m]].ancestor /\ NeededBy(w, ms, c.list[h], c.list[m])
CycleOK(w, ms, c) == c.op = "js_evaluate_module" => ToPath(w, ms, c) /\ ToLow(w, ms, c)
ToRoot(w, ms) ==
    \A x \in 1..Len(ms) : ms[x].root # 0 /\ ms[x].err = 0 => NeededBy(w, ms, ms[x].root, x)
Cycles(w, ms, st) == ToRoot(w, ms) /\ \A k \in 1..Len(st) : CycleOK(w, ms, st[k])
CycleInv == Cycles(world, mods, stk)

(* Being needed is a preorder that follows the links.                      *)
LEMMA NeededIs ==
    ASSUME NEW w \in Worlds, NEW ms \in Seq(ModRec)
    PROVE  /\ \A x \in 1..Len(ms) : NeededBy(w, ms, x, x)
           /\ \A x, y, z \in 1..Len(ms) : NeededBy(w, ms, x, y) /\ NeededBy(w, ms, y, z) => NeededBy(w, ms, x, z)
           /\ LinksOK(w, ms) => \A x \in 1..Len(ms) : \A j \in 1..Len(ms[x].links) :
                 ms[x].links[j] \in 1..Len(ms) /\ NeededBy(w, ms, ms[x].links[j], x)
  <1>1. \A x \in 1..Len(ms) : ms[x].name \in Names
    BY ModIs
  <1>2. \A n \in Names : /\ n \in NeedsOf(w, n)
                         /\ \A a \in NeedsOf(w, n) : ToSet(w.imports[a]) \subseteq NeedsOf(w, n)
                         /\ \A a \in NeedsOf(w, n) : NeedsOf(w, a) \subseteq NeedsOf(w, n)
    BY NeedsIs
  <1>3. \A x \in 1..Len(ms) : NeededBy(w, ms, x, x)
    BY ONLY <1>1, <1>2 DEF NeededBy
  <1>4. \A x, y, z \in 1..Len(ms) : NeededBy(w, ms, x, y) /\ NeededBy(w, ms, y, z) => NeededBy(w, ms, x, z)
    BY ONLY <1>1, <1>2 DEF NeededBy
  <1>5. ASSUME LinksOK(w, ms), NEW x \in 1..Len(ms), NEW j \in 1..Len(ms[x].links)
        PROVE  ms[x].links[j] \in 1..Len(ms) /\ NeededBy(w, ms, ms[x].links[j], x)
    <2>1. ms[x].links[j] \in 1..Len(ms) /\ ms[ms[x].links[j]].name \in ToSet(w.imports[ms[x].name])
      BY ONLY <1>5 DEF LinksOK
    <2> QED BY ONLY <1>1, <1>2, <2>1, x \in 1..Len(ms) DEF NeededBy
  <1> QED BY ONLY <1>3, <1>4, <1>5

(* A call is not concerned by steps on other modules.                      *)
LEMMA CycleKept ==
    ASSUME NEW w, NEW ms \in Seq(ModRec), NEW ms2 \in Seq(ModRec), NEW c \in CallRec,
           CallOK(w, ms, c), CycleOK(w, ms, c),
           \A x \in 1..Len(ms) : Works(c, x) => SameShape(ms[x], ms2[x])
    PROVE  CycleOK(w, ms2, c)
  <1> SUFFICES ASSUME c.op = "js_evaluate_module"
               PROVE  ToPath(w, ms2, c) /\ ToLow(w, ms2, c)
    BY DEF CycleOK
  <1>1. Len(c.list) \in Nat /\ Len(c.path) \in Nat
    BY CallFields
  <1>2. \A k \in 1..Len(c.path) : c.path[k].d \in 1..Len(ms)
    BY DEF CallOK, CallIn
  <1>3. \A k \in 1..Len(c.list) : c.list[k] \in 1..Len(ms)
    BY DEF CallOK, CallIn
  <1>4. \A k \in 1..Len(c.path) : Works(c, c.path[k].d)
    BY DEF Works
  <1>5. \A k \in 1..Len(c.list) : Works(c, c.list[k])
    BY DEF Works, Has
  <1>6. \A k \in 1..Len(c.path) : SameShape(ms[c.path[k].d], ms2[c.path[k].d])
    BY <1>2, <1>4
  <1>7. \A k \in 1..Len(c.list) : SameShape(ms[c.list[k]], ms2[c.list[k]])
    BY <1>3, <1>5
  <1>8. ToPath(w, ms, c) /\ ToLow(w, ms, c)
    BY DEF CycleOK
  <1>9. \A k \in 1..Len(c.path) : k < Len(c.path) => k + 1 \in 1..Len(c.path)
    BY <1>1
  <1>10. ToPath(w, ms2, c)
    BY ONLY <1>6, <1>7, <1>8, <1>9 DEF ToPath, NeededBy, SameShape
  <1>11. ToLow(w, ms2, c)
    BY ONLY <1>7, <1>8, ZenonT(60) DEF ToLow, NeededBy, SameShape
  <1> QED BY <1>10, <1>11

(* Entering a module: every module on the list needs the one that requests *)
(* it.                                                                     *)
LEMMA CycleEnters ==
    ASSUME NEW w \in Worlds, NEW ms \in Seq(ModRec), NEW ms2 \in Seq(ModRec), NEW c \in CallRec, NEW c2 \in CallRec,
           CallIn(ms, c), WalkOK(ms, c, "evaluating"), ToPath(w, ms, c), ToLow(w, ms, c), LinksOK(w, ms),
           NEW d \in 1..Len(ms), ms[d].status # "evaluating",
           c.path = <<>> => d = c.d,
           c.path # <<>> => /\ Last(c.path).i <= Len(ms[Last(c.path).d].links)
                            /\ ms[Last(c.path).d].links[Last(c.path).i] = d,
           Enters(ms, ms2, d, c.i, "evaluating"), c2 = WithEntered(c, d)
    PROVE  ToPath(w, ms2, c2) /\ ToLow(w, ms2, c2)
  <1>0. /\ c.list \in Seq(Nat) /\ Len(c.list) \in Nat /\ Len(c.path) \in Nat /\ c.i \in Nat
        /\ c.path # <<>> => Len(c.path) \in 1..Len(c.path) /\ Last(c.path) = c.path[Len(c.path)]
    BY CallFields
  <1>1. /\ Len(c2.list) = Len(c.list) + 1 /\ c2.list[Len(c.list) + 1] = d
        /\ \A k \in 1..Len(c.list) : c2.list[k] = c.list[k]
        /\ Len(c2.path) = Len(c.path) + 1
        /\ c2.path[Len(c.path) + 1].d = d
        /\ \A k \in 1..Len(c.path) : c2.path[k] = c.path[k]
    <2>1. d \in Nat
      BY ModIs
    <2> QED BY <2>1, EntersCallIs, SMTT(30)
  <1>2. \A k \in 1..Len(c.path) : c.path[k].d \in 1..Len(ms) /\ Has(c.list, c.path[k].d)
    BY DEF CallIn, WalkOK, PathOK
  <1>3. \A k \in 1..Len(c.list) : c.list[k] \in 1..Len(ms) /\ ms[c.list[k]].status = "evaluating" /\ ms[c.list[k]].dfs < c.i
    BY DEF CallIn, WalkOK, ListOK
  <1>4. \A k \in 1..Len(c.list) : c.list[k] # d
    BY <1>3
  <1>5. \A k \in 1..Len(c.path) : c.path[k].d # d /\ ms[c.path[k].d].dfs < c.i
    BY ONLY <1>2, <1>3, <1>4 DEF Has
  <1>6. /\ \A x \in 1..Len(ms) : ms2[x].name = ms[x].name
        /\ \A x \in 1..Len(ms) : x # d => ms2[x].dfs = ms[x].dfs /\ ms2[x].ancestor = ms[x].ancestor
        /\ ms2[d].dfs = c.i /\ ms2[d].ancestor = c.i
    BY DEF Enters, OthersSame, SameMod, SameShape
  <1>7. \A x, y \in 1..Len(ms) : NeededBy(w, ms2, x, y) <=> NeededBy(w, ms, x, y)
    BY ONLY <1>6 DEF NeededBy
  <1>8. ASSUME NEW m \in 1..Len(c.list)
        PROVE  c.path # <<>> /\ NeededBy(w, ms, d, c.list[m])
    <2>1. c.path # <<>>
      BY <1>0 DEF WalkOK, PathOK
    <2>2. NeededBy(w, ms, Last(c.path).d, c.list[m])
      <3>1. Len(c.path) \in 1..Len(c.path) /\ Last(c.path) = c.path[Len(c.path)] /\ ~(Len(c.path) < Len(c.path))
        BY ONLY <1>0, <2>1
      <3> QED BY ONLY <3>1, ToPath(w, ms, c), m \in 1..Len(c.list) DEF ToPath
    <2>3. Last(c.path).d \in 1..Len(ms) /\ Last(c.path).i \in 1..Len(ms[Last(c.path).d].links)
      <3>1. Last(c.path).d \in 1..Len(ms)
        BY <1>0, <1>2, <2>1
      <3>2. Last(c.path).i \in Nat /\ Last(c.path).i # 0
        BY <1>0, <2>1, CallFields DEF CallIn
      <3>3. Len(ms[Last(c.path).d].links) \in Nat
        BY <3>1, ModIs
      <3> QED BY <2>1, <3>1, <3>2, <3>3
    <2>4. NeededBy(w, ms, d, Last(c.path).d)
      BY <2>1, <2>3, NeededIs
    <2> QED BY <1>3, <2>1, <2>2, <2>3, <2>4, NeededIs
  <1>9. NeededBy(w, ms, d, d)
    BY NeededIs
  <1>10. ToPath(w, ms2, c2)
    <2> SUFFICES ASSUME NEW k \in 1..Len(c2.path), NEW m \in 1..Len(c2.list),
                        k < Len(c2.path) => ms2[c2.list[m]].dfs < ms2[c2.path[k + 1].d].dfs
                 PROVE  NeededBy(w, ms2, c2.path[k].d, c2.list[m])
      BY DEF ToPath
    <2>1. (k \in 1..Len(c.path) \/ k = Len(c.path) + 1) /\ (m \in 1..Len(c.list) \/ m = Len(c.list) + 1)
      <3>1. /\ Len(c.path) \in Nat /\ Len(c.list) \in Nat
            /\ Len(c2.path) = Len(c.path) + 1 /\ Len(c2.list) = Len(c.list) + 1
        BY ONLY <1>0, <1>1
      <3>2. k \in 1..Len(c.path) \/ k = Len(c.path) + 1
        BY ONLY <3>1, k \in 1..Len(c2.path)
      <3>3. m \in 1..Len(c.list) \/ m = Len(c.list) + 1
        BY ONLY <3>1, m \in 1..Len(c2.list)
      <3> QED BY ONLY <3>2, <3>3
    <2>2. CASE k = Len(c.path) + 1
      <3>1. CASE m \in 1..Len(c.list)
        BY ONLY <1>1, <1>3, <1>7, <1>8, <2>2, <3>1, d \in 1..Len(ms)
      <3>2. CASE m = Len(c.list) + 1
        BY ONLY <1>1, <1>7, <1>9, <2>2, <3>2, d \in 1..Len(ms)
      <3> QED BY <2>1, <3>1, <3>2
    <2>3. CASE k \in 1..Len(c.path)
      <3>1. k < Len(c2.path) /\ c2.path[k] = c.path[k] /\ (k + 1 \in 1..Len(c.path) \/ k + 1 = Len(c.path) + 1)
        <4>1. k \in Nat /\ k <= Len(c.path) /\ Len(c2.path) = Len(c.path) + 1 /\ c2.path[k] = c.path[k] /\ k >= 1
          BY ONLY <1>0, <1>1, <2>3
        <4> QED BY ONLY <4>1, <1>0, SMTT(30)
      <3>2. m \in 1..Len(c.list)
        <4>1. CASE m = Len(c.list) + 1
          <5>1. ms2[c2.list[m]].dfs = c.i
            BY ONLY <1>1, <1>6, <4>1
          <5>2. ms2[c2.path[k + 1].d].dfs \in Nat /\ ms2[c2.path[k + 1].d].dfs <= c.i
            <6>1. CASE k + 1 \in 1..Len(c.path)
              <7>1. c2.path[k + 1].d \in 1..Len(ms) /\ c2.path[k + 1].d # d /\ ms[c2.path[k + 1].d].dfs < c.i
                BY ONLY <1>1, <1>2, <1>5, <6>1
              <7>2. ms[c2.path[k + 1].d].dfs \in Nat
                BY <7>1, ModIs
              <7>3. ms2[c2.path[k + 1].d].dfs = ms[c2.path[k + 1].d].dfs
                BY ONLY <1>6, <7>1
              <7> QED BY ONLY <1>0, <7>1, <7>2, <7>3, SMTT(30)
            <6>2. CASE k + 1 = Len(c.path) + 1
              <7>1. c2.path[k + 1].d = d
                BY ONLY <1>1, <6>2
              <7>2. ms2[c2.path[k + 1].d].dfs = c.i
                BY ONLY <1>6, <7>1
              <7> QED BY ONLY <1>0, <7>2
            <6> QED BY <3>1, <6>1, <6>2
          <5>3. ~(ms2[c2.list[m]].dfs < ms2[c2.path[k + 1].d].dfs)
            <6>1. \A i, j \in Nat : j <= i => ~(i < j)
              OBVIOUS
            <6>2. c.i \in Nat
              BY ONLY <1>0
            <6> QED BY ONLY <5>1, <5>2, <6>1, <6>2
          <5> QED BY ONLY <3>1, <5>3, k < Len(c2.path) => ms2[c2.list[m]].dfs < ms2[c2.path[k + 1].d].dfs
        <4> QED BY <2>1, <4>1
      <3>3. k < Len(c.path) => ms[c.list[m]].dfs < ms[c.path[k + 1].d].dfs
        <4> SUFFICES ASSUME k < Len(c.path) PROVE ms[c.list[m]].dfs < ms[c.path[k + 1].d].dfs
          OBVIOUS
        <4>1. k + 1 \in 1..Len(c.path)
          BY ONLY <1>0, <2>3, k < Len(c.path), SMTT(30)
        <4>2. c2.path[k + 1].d = c.path[k + 1].d /\ c2.list[m] = c.list[m]
          BY ONLY <1>1, <3>2, <4>1
        <4>3. ms2[c.path[k + 1].d].dfs = ms[c.path[k + 1].d].dfs /\ ms2[c.list[m]].dfs = ms[c.list[m]].dfs
          BY ONLY <1>2, <1>3, <1>4, <1>5, <1>6, <3>2, <4>1
        <4> QED BY ONLY <3>1, <4>2, <4>3, k < Len(c2.path) => ms2[c2.list[m]].dfs < ms2[c2.path[k + 1].d].dfs
      <3>4. NeededBy(w, ms, c.path[k].d, c.list[m])
        BY ONLY <2>3, <3>2, <3>3, ToPath(w, ms, c) DEF ToPath
      <3> QED BY ONLY <1>1, <1>2, <1>3, <1>7, <2>3, <3>1, <3>2, <3>4
    <2> QED BY <2>1, <2>2, <2>3
  <1>11. ToLow(w, ms2, c2)
    <2> SUFFICES ASSUME NEW m \in 1..Len(c2.list)
                 PROVE  \E h \in 1..Len(c2.list) :
                           ms2[c2.list[h]].dfs = ms2[c2.list[m]].ancestor /\ NeededBy(w, ms2, c2.list[h], c2.list[m])
      BY DEF ToLow
    <2>1. m \in 1..Len(c.list) \/ m = Len(c.list) + 1
      BY ONLY <1>0, <1>1, m \in 1..Len(c2.list)
    <2>2. CASE m \in 1..Len(c.list)
      <3>1. PICK h \in 1..Len(c.list) : ms[c.list[h]].dfs = ms[c.list[m]].ancestor /\ NeededBy(w, ms, c.list[h], c.list[m])
        BY ONLY <2>2, ToLow(w, ms, c) DEF ToLow
      <3>2. h \in 1..Len(c2.list)
        BY ONLY <1>0, <1>1, <3>1
      <3>3. ms2[c2.list[h]].dfs = ms2[c2.list[m]].ancestor /\ NeededBy(w, ms2, c2.list[h], c2.list[m])
        BY ONLY <1>1, <1>3, <1>4, <1>6, <1>7, <2>2, <3>1, ZenonT(60)
      <3> QED BY <3>2, <3>3
    <2>3. CASE m = Len(c.list) + 1
      <3>1. c2.list[m] = d /\ ms2[d].dfs = ms2[d].ancestor /\ NeededBy(w, ms2, d, d)
        BY ONLY <1>1, <1>6, <1>7, <1>9, <2>3, d \in 1..Len(ms)
      <3> QED BY ONLY <3>1, m \in 1..Len(c2.list)
    <2> QED BY <2>1, <2>2, <2>3
  <1> QED BY <1>10, <1>11

(* Going on: the module that the call is at may learn of the ancestor of   *)
(* one that it requests.                                                   *)
LEMMA CycleGoesOn ==
    ASSUME NEW w \in Worlds, NEW ms \in Seq(ModRec), NEW ms2 \in Seq(ModRec), NEW c \in CallRec, NEW c2 \in CallRec,
           CallIn(ms, c), WalkOK(ms, c, "evaluating"), ToPath(w, ms, c), ToLow(w, ms, c),
           c2.list = c.list, Len(c2.path) = Len(c.path), \A k \in 1..Len(c.path) : c2.path[k].d = c.path[k].d,
           \A x \in 1..Len(ms) : ms2[x].name = ms[x].name /\ ms2[x].dfs = ms[x].dfs,
           NEW q \in 1..Len(ms), \A x \in 1..Len(ms) : x # q => ms2[x].ancestor = ms[x].ancestor,
           ms2[q].ancestor = ms[q].ancestor \/
              \E m \in 1..Len(ms) : /\ ms2[q].ancestor = ms[m].ancestor /\ Has(c.list, m)
                                    /\ NeededBy(w, ms, m, q)
    PROVE  ToPath(w, ms2, c2) /\ ToLow(w, ms2, c2)
  <1>0. Len(c.list) \in Nat /\ Len(c.path) \in Nat
    BY CallFields
  <1>1. \A x, y \in 1..Len(ms) : NeededBy(w, ms2, x, y) <=> NeededBy(w, ms, x, y)
    BY ONLY \A x \in 1..Len(ms) : ms2[x].name = ms[x].name /\ ms2[x].dfs = ms[x].dfs DEF NeededBy
  <1>2. \A k \in 1..Len(c.path) : c.path[k].d \in 1..Len(ms)
    BY DEF CallIn
  <1>3. \A k \in 1..Len(c.list) : c.list[k] \in 1..Len(ms)
    BY DEF CallIn
  <1>4. \A k \in 1..Len(c.path) : k < Len(c.path) => k + 1 \in 1..Len(c.path)
    BY <1>0
  <1>5. ToPath(w, ms2, c2)
    <2> SUFFICES ASSUME NEW k \in 1..Len(c.path), NEW m \in 1..Len(c.list),
                        k < Len(c.path) => ms2[c.list[m]].dfs < ms2[c2.path[k + 1].d].dfs
                 PROVE  NeededBy(w, ms2, c2.path[k].d, c.list[m])
      BY DEF ToPath
    <2>1. k < Len(c.path) => ms[c.list[m]].dfs < ms[c.path[k + 1].d].dfs
      BY <1>2, <1>3, <1>4
    <2>2. NeededBy(w, ms, c.path[k].d, c.list[m])
      BY ONLY <2>1, ToPath(w, ms, c), k \in 1..Len(c.path), m \in 1..Len(c.list) DEF ToPath
    <2> QED BY <1>1, <1>2, <1>3, <2>2
  <1>6. ToLow(w, ms2, c2)
    <2> SUFFICES ASSUME NEW m \in 1..Len(c.list)
                 PROVE  \E h \in 1..Len(c.list) :
                           ms2[c.list[h]].dfs = ms2[c.list[m]].ancestor /\ NeededBy(w, ms2, c.list[h], c.list[m])
      BY DEF ToLow
    <2>1. ASSUME NEW k \in 1..Len(c.list), ms2[c.list[m]].ancestor = ms[c.list[k]].ancestor,
                 NeededBy(w, ms, c.list[k], c.list[m])
          PROVE  \E h \in 1..Len(c.list) :
                    ms2[c.list[h]].dfs = ms2[c.list[m]].ancestor /\ NeededBy(w, ms2, c.list[h], c.list[m])
      <3>1. PICK h \in 1..Len(c.list) : ms[c.list[h]].dfs = ms[c.list[k]].ancestor /\ NeededBy(w, ms, c.list[h], c.list[k])
        BY ONLY ToLow(w, ms, c), k \in 1..Len(c.list) DEF ToLow
      <3>2. c.list[h] \in 1..Len(ms) /\ c.list[k] \in 1..Len(ms) /\ c.list[m] \in 1..Len(ms)
        BY <1>3, <3>1
      <3>3. NeededBy(w, ms, c.list[h], c.list[m])
        BY <2>1, <3>1, <3>2, NeededIs
      <3>4. NeededBy(w, ms2, c.list[h], c.list[m]) /\ ms2[c.list[h]].dfs = ms[c.list[h]].dfs
        BY <1>1, <3>2, <3>3
      <3> QED BY <2>1, <3>1, <3>4
    <2>2. CASE ms2[c.list[m]].ancestor = ms[c.list[m]].ancestor
      BY <1>3, <2>1, <2>2, NeededIs
    <2>3. CASE ms2[c.list[m]].ancestor # ms[c.list[m]].ancestor
      <3>1. c.list[m] = q
        BY <1>3, <2>3
      <3>2. PICK x \in 1..Len(ms) : /\ ms2[q].ancestor = ms[x].ancestor /\ Has(c.list, x)
                                    /\ NeededBy(w, ms, x, q)
        BY <2>3, <3>1
      <3>3. PICK k \in 1..Len(c.list) : c.list[k] = x
        BY ONLY <3>2 DEF Has
      <3> QED BY ONLY <2>1, <3>1, <3>2, <3>3
    <2> QED BY <2>2, <2>3
  <1> QED BY <1>5, <1>6

(* Returning: a module that does not end its cycle needs one further down. *)
LEMMA CycleReturns ==
    ASSUME NEW w \in Worlds, NEW ms \in Seq(ModRec), NEW ms2 \in Seq(ModRec), NEW c \in CallRec, NEW c2 \in CallRec,
           CallIn(ms, c), WalkOK(ms, c, "evaluating"), ToPath(w, ms, c), ToLow(w, ms, c), c.path # <<>>,
           NEW n \in Nat, ReturnsCall(c, c2, n), CallIn(ms2, c2), WalkOK(ms2, c2, "evaluating"),
           NEW d, d = Last(c.path).d,
           \/ n = Len(c.list) /\ ms[d].dfs # ms[d].ancestor
           \/ n + 1 <= Len(c.list) /\ c.list[n + 1] = d,
           \A k \in 1..n : SameShape(ms[c.list[k]], ms2[c.list[k]])
    PROVE  ToPath(w, ms2, c2) /\ ToLow(w, ms2, c2)
  <1>0. Len(c.list) \in Nat /\ Len(c.path) \in Nat /\ Len(c.path) \in 1..Len(c.path) /\ Last(c.path) = c.path[Len(c.path)]
    BY CallFields
  <1>1. /\ Len(c2.list) = n /\ n <= Len(c.list) /\ \A k \in 1..n : c2.list[k] = c.list[k]
        /\ Len(c2.path) = Len(c.path) - 1 /\ \A k \in 1..(Len(c.path) - 1) : c2.path[k] = c.path[k]
    BY DEF ReturnsCall
  <1>2. \A k \in 1..Len(c.list) : c.list[k] \in 1..Len(ms) /\ ms[c.list[k]].dfs \in Nat /\ ms[c.list[k]].ancestor \in Nat
                                  /\ ms[c.list[k]].ancestor <= ms[c.list[k]].dfs
    <2>1. \A k \in 1..Len(c.list) : c.list[k] \in 1..Len(ms) /\ ms[c.list[k]].ancestor <= ms[c.list[k]].dfs
      BY DEF CallIn, WalkOK, ListOK
    <2> QED BY <2>1, ModIs
  <1>3. \A j, k \in 1..Len(c.list) : j < k => ms[c.list[j]].dfs < ms[c.list[k]].dfs
    BY SMTT(30) DEF WalkOK, ListOK
  <1>4. \A k \in 1..Len(c.path) : c.path[k].d \in 1..Len(ms) /\ Has(c.list, c.path[k].d)
    BY DEF CallIn, WalkOK, PathOK
  <1>5. \A k \in 1..n : k \in 1..Len(c.list)
    BY ONLY <1>0, <1>1, n \in Nat
  <1>6. \A k \in 1..(Len(c.path) - 1) : /\ k \in 1..Len(c.path) /\ k < Len(c.path)
                                        /\ k + 1 \in 1..(Len(c.path) - 1) \/ k + 1 = Len(c.path)
    BY <1>0, SMTT(30)
  <1>7. \A k \in 1..(Len(c.path) - 1) : \E j \in 1..n : c.list[j] = c.path[k].d
    <2> SUFFICES ASSUME NEW k \in 1..(Len(c.path) - 1) PROVE \E j \in 1..n : c.list[j] = c.path[k].d
      OBVIOUS
    <2>1. k \in 1..Len(c2.path) /\ Has(c2.list, c2.path[k].d)
      BY ONLY <1>1, k \in 1..(Len(c.path) - 1), WalkOK(ms2, c2, "evaluating") DEF WalkOK, PathOK
    <2> QED BY ONLY <1>1, <2>1, k \in 1..(Len(c.path) - 1) DEF Has
  <1>8. \A k \in 1..(Len(c.path) - 1) : SameShape(ms[c.path[k].d], ms2[c.path[k].d])
    BY ONLY <1>7, \A k \in 1..n : SameShape(ms[c.list[k]], ms2[c.list[k]])
  <1>9. PICK p \in 1..Len(c.list) : c.list[p] = d
    BY ONLY <1>0, <1>4, d = Last(c.path).d DEF Has
  <1>10. d \in 1..Len(ms) /\ ms[d].dfs \in Nat /\ ms[d].ancestor \in Nat /\ ms[d].ancestor <= ms[d].dfs
    BY ONLY <1>2, <1>9
  <1>11. \A m \in 1..Len(c.list) : NeededBy(w, ms, d, c.list[m])
    <2>1. ~(Len(c.path) < Len(c.path))
      BY <1>0
    <2> QED BY ONLY <1>0, <2>1, ToPath(w, ms, c), d = Last(c.path).d DEF ToPath
  <1>12. ASSUME NEW k \in 1..(Len(c.path) - 1), k + 1 = Len(c.path), NEW m \in 1..Len(c.list), ms[c.list[m]].dfs < ms[d].dfs
         PROVE  NeededBy(w, ms, c.path[k].d, c.list[m])
    <2>1. k \in 1..Len(c.path) /\ c.path[k + 1].d = d
      BY ONLY <1>0, <1>6, <1>12, d = Last(c.path).d
    <2> QED BY ONLY <1>12, <2>1, ToPath(w, ms, c), m \in 1..Len(c.list) DEF ToPath
  <1>13. ToPath(w, ms2, c2)
    <2> SUFFICES ASSUME NEW k \in 1..(Len(c.path) - 1), NEW m \in 1..n,
                        k < Len(c2.path) => ms2[c2.list[m]].dfs < ms2[c2.path[k + 1].d].dfs
                 PROVE  NeededBy(w, ms2, c2.path[k].d, c2.list[m])
      BY <1>1 DEF ToPath
    <2>1. m \in 1..Len(c.list) /\ k \in 1..Len(c.path) /\ k < Len(c.path) /\ c.list[m] \in 1..Len(ms) /\ c.path[k].d \in 1..Len(ms)
      BY <1>2, <1>4, <1>5, <1>6
    <2>2. NeededBy(w, ms, c.path[k].d, c.list[m])
      <3>1. CASE k + 1 \in 1..(Len(c.path) - 1)
        <4>1. k < Len(c2.path)
          BY ONLY <1>0, <1>1, <3>1, k \in 1..(Len(c.path) - 1)
        <4>2. c2.list[m] = c.list[m] /\ c2.path[k + 1] = c.path[k + 1]
          BY ONLY <1>1, <3>1, m \in 1..n
        <4>3. ms2[c.list[m]].dfs < ms2[c.path[k + 1].d].dfs
          BY ONLY <4>1, <4>2, k < Len(c2.path) => ms2[c2.list[m]].dfs < ms2[c2.path[k + 1].d].dfs
        <4>4. ms2[c.list[m]].dfs = ms[c.list[m]].dfs /\ ms2[c.path[k + 1].d].dfs = ms[c.path[k + 1].d].dfs
          BY ONLY <1>8, <3>1, m \in 1..n, \A j \in 1..n : SameShape(ms[c.list[j]], ms2[c.list[j]]) DEF SameShape
        <4> QED BY ONLY <2>1, <4>3, <4>4, ToPath(w, ms, c) DEF ToPath
      <3>2. CASE k + 1 = Len(c.path) /\ ms[c.list[m]].dfs < ms[d].dfs
        BY ONLY <1>12, <2>1, <3>2, k \in 1..(Len(c.path) - 1)
      <3>3. CASE k + 1 = Len(c.path) /\ ~(ms[c.list[m]].dfs < ms[d].dfs)
        <4>1. ms[d].dfs # ms[d].ancestor
          <5>1. CASE n + 1 <= Len(c.list) /\ c.list[n + 1] = d
            <6>1. m < n + 1 /\ n + 1 \in 1..Len(c.list)
              BY ONLY <1>0, <5>1, m \in 1..n, n \in Nat
            <6> QED BY ONLY <1>3, <2>1, <3>3, <5>1, <6>1
          <5> QED BY <5>1
        <4>2. ms[d].ancestor < ms[d].dfs
          BY ONLY <1>10, <4>1
        <4>3. PICK h \in 1..Len(c.list) : ms[c.list[h]].dfs = ms[d].ancestor /\ NeededBy(w, ms, c.list[h], d)
          BY ONLY <1>9, ToLow(w, ms, c) DEF ToLow
        <4>4. NeededBy(w, ms, c.path[k].d, c.list[h])
          BY ONLY <1>12, <3>3, <4>2, <4>3, k \in 1..(Len(c.path) - 1)
        <4>5. NeededBy(w, ms, d, c.list[m])
          BY ONLY <1>11, <2>1
        <4>6. c.list[h] \in 1..Len(ms)
          BY ONLY <1>2, <4>3
        <4>7. NeededBy(w, ms, c.path[k].d, d)
          BY <1>10, <2>1, <4>3, <4>4, <4>6, NeededIs
        <4> QED BY <1>10, <2>1, <4>5, <4>7, NeededIs
      <3> QED BY <1>6, <3>1, <3>2, <3>3
    <2>3. ms2[c.path[k].d].name = ms[c.path[k].d].name /\ ms2[c.list[m]].name = ms[c.list[m]].name
      BY ONLY <1>8, m \in 1..n, k \in 1..(Len(c.path) - 1), \A j \in 1..n : SameShape(ms[c.list[j]], ms2[c.list[j]]) DEF SameShape
    <2>4. c2.path[k] = c.path[k] /\ c2.list[m] = c.list[m]
      BY ONLY <1>1, m \in 1..n, k \in 1..(Len(c.path) - 1)
    <2> QED BY ONLY <2>2, <2>3, <2>4 DEF NeededBy
  <1>14. ToLow(w, ms2, c2)
    <2> SUFFICES ASSUME NEW m \in 1..n
                 PROVE  \E h \in 1..n :
                           ms2[c2.list[h]].dfs = ms2[c2.list[m]].ancestor /\ NeededBy(w, ms2, c2.list[h], c2.list[m])
      BY <1>1 DEF ToLow
    <2>1. m \in 1..Len(c.list)
      BY <1>5
    <2>2. PICK h \in 1..Len(c.list) : ms[c.list[h]].dfs = ms[c.list[m]].ancestor /\ NeededBy(w, ms, c.list[h], c.list[m])
      BY ONLY <2>1, ToLow(w, ms, c) DEF ToLow
    <2>3. ~(m < h)
      <3> SUFFICES ASSUME m < h PROVE FALSE
        OBVIOUS
      <3>1. ms[c.list[m]].dfs < ms[c.list[h]].dfs
        BY ONLY <1>3, <2>1, <2>2, m < h
      <3>2. ms[c.list[h]].dfs <= ms[c.list[m]].dfs /\ ms[c.list[h]].dfs \in Nat /\ ms[c.list[m]].dfs \in Nat
        BY ONLY <1>2, <2>1, <2>2
      <3>3. \A i, j \in Nat : ~(i < j /\ j <= i)
        OBVIOUS
      <3> QED BY ONLY <3>1, <3>2, <3>3
    <2>4. h \in 1..n
      BY ONLY <1>0, <2>2, <2>3, m \in 1..n, n \in Nat
    <2>5. SameShape(ms[c.list[h]], ms2[c.list[h]]) /\ SameShape(ms[c.list[m]], ms2[c.list[m]])
      BY <2>4
    <2>6. c2.list[h] = c.list[h] /\ c2.list[m] = c.list[m]
      BY ONLY <1>1, <2>4, m \in 1..n
    <2> QED BY ONLY <2>2, <2>4, <2>5, <2>6 DEF NeededBy, SameShape
  <1> QED BY <1>13, <1>14

(* The roots of the cycles that ended.                                     *)
LEMMA ToRootKept ==
    ASSUME NEW w, NEW ms \in Seq(ModRec), NEW ms2 \in Seq(ModRec), RootsOK(ms), ToRoot(w, ms), Named(ms, ms2),
           \A x \in 1..Len(ms2) : ms2[x].root # 0 /\ ms2[x].err = 0 =>
              \/ x \in 1..Len(ms) /\ ms2[x].root = ms[x].root /\ ms[x].err = 0
              \/ NeededBy(w, ms2, ms2[x].root, x)
    PROVE  ToRoot(w, ms2)
  <1> SUFFICES ASSUME NEW x \in 1..Len(ms2), ms2[x].root # 0, ms2[x].err = 0,
                      x \in 1..Len(ms), ms2[x].root = ms[x].root, ms[x].err = 0
               PROVE  NeededBy(w, ms2, ms2[x].root, x)
    BY DEF ToRoot
  <1>1. NeededBy(w, ms, ms[x].root, x)
    BY DEF ToRoot
  <1>2. ms[x].root \in 1..Len(ms)
    BY ModIs DEF RootsOK
  <1> QED BY <1>1, <1>2 DEF Named, NeededBy

(* A step of the innermost call.                                           *)
RootsKept(ms, ms2) ==
    \A x \in 1..Len(ms2) : ms2[x].root # 0 /\ ms2[x].err = 0 =>
        x \in 1..Len(ms) /\ ms2[x].root = ms[x].root /\ ms[x].err = 0

(* A step of the innermost call, or its end.                               *)
LEMMA CyclesTop ==
    ASSUME ShapeInv, CycleInv, world' = world, mods' \in Seq(ModRec), stk # <<>>, Named(mods, mods'),
           \A x \in 1..Len(mods) : \/ SameShape(mods[x], mods'[x]) \/ Len(stk) = 1
                                   \/ mods[x].name \in NeedsOf(world, Top.n),
           ToRoot(world, mods'),
           stk' = Pop \/ \E c \in CallRec : stk' = WithTop(c) /\ CycleOK(world, mods', c)
    PROVE  CycleInv'
  <1>1. world \in Worlds /\ mods \in Seq(ModRec) /\ stk \in Seq(CallRec) /\ StackOK(world, mods, stk)
    BY ShapeIs
  <1>2. Touches(world, mods, mods', stk)
    BY DEF Touches, Top
  <1>3. \A k \in 1..(Len(stk) - 1) : \A x \in 1..Len(mods) : Works(stk[k], x) => SameShape(mods[x], mods'[x])
    BY ONLY <1>1, <1>2, stk # <<>>, mods' \in Seq(ModRec), BelowKept
  <1>4. /\ Pop \in Seq(CallRec) /\ Len(Pop) = Len(stk) - 1 /\ Len(stk) \in Nat \ {0}
        /\ \A k \in 1..Len(Pop) : k \in 1..Len(stk) /\ Pop[k] = stk[k]
    BY <1>1, PopIs
  <1>5. \A k \in 1..Len(Pop) : CycleOK(world, mods', Pop[k])
    <2> SUFFICES ASSUME NEW k \in 1..Len(Pop) PROVE CycleOK(world, mods', Pop[k])
      OBVIOUS
    <2>1. k \in 1..Len(stk) /\ Pop[k] = stk[k] /\ k \in 1..(Len(stk) - 1)
      BY <1>4
    <2>2. CallOK(world, mods, stk[k]) /\ stk[k] \in CallRec /\ CycleOK(world, mods, stk[k])
      BY <1>1, <2>1, CallIs DEF StackOK, CallsOK, CycleInv, Cycles
    <2> QED BY ONLY <1>1, <1>3, <2>1, <2>2, mods' \in Seq(ModRec), CycleKept
  <1>6. \A k \in 1..Len(stk') : CycleOK(world, mods', stk'[k])
    <2>1. CASE stk' = Pop
      BY <1>5, <2>1
    <2>2. ASSUME NEW c \in CallRec, stk' = WithTop(c), CycleOK(world, mods', c), NEW k \in 1..Len(stk')
          PROVE  CycleOK(world, mods', stk'[k])
      <3>1. stk' = Append(Pop, c)
        BY <1>1, <2>2, WithTopIs
      <3>2. (k \in 1..Len(Pop) /\ stk'[k] = Pop[k]) \/ stk'[k] = c
        BY <1>4, <2>2, <3>1, AppendCalls
      <3> QED BY ONLY <1>5, <2>2, <3>2
    <2> QED BY <2>1, <2>2
  <1> QED BY <1>6 DEF CycleInv, Cycles

(* A step when no evaluation is in progress.                               *)
LEMMA CyclesJob ==
    ASSUME world' = world, ToRoot(world, mods'), \A k \in 1..Len(stk') : stk'[k].op # "js_evaluate_module"
    PROVE  CycleInv'
  BY DEF CycleInv, Cycles, CycleOK

(* A step that makes no new cycle.                                         *)
LEMMA RootsIs ==
    ASSUME ShapeInv, CycleInv, mods' \in Seq(ModRec), Named(mods, mods'), RootsKept(mods, mods')
    PROVE  ToRoot(world, mods')
  <1>1. RootsOK(mods) /\ mods \in Seq(ModRec) /\ ToRoot(world, mods)
    BY ShapeIs DEF CycleInv, Cycles
  <1> QED BY ONLY <1>1, mods' \in Seq(ModRec), Named(mods, mods'), RootsKept(mods, mods'), ToRootKept DEF RootsKept

(* A quiet step.                                                           *)
LEMMA CyclesQuiet ==
    ASSUME ShapeInv, ShapeInv', CycleInv, QuietStep
    PROVE  CycleInv'
  <1>1. /\ stk \in Seq(CallRec) /\ stk' \in Seq(CallRec) /\ mods \in Seq(ModRec) /\ mods' \in Seq(ModRec)
        /\ world' = world /\ QuietMods(mods, mods') /\ QuietCalls(stk, stk')
    BY ShapeIs DEF QuietStep, ShapeInv, Shape, Typed
  <1>2. Named(mods, mods') /\ RootsKept(mods, mods')
    <2>1. Named(mods, mods')
      BY ONLY <1>1 DEF QuietMods, Named
    <2>2. \A x \in 1..Len(mods) : mods'[x].root = mods[x].root /\ mods'[x].err = mods[x].err
      BY ONLY <1>1 DEF QuietMods, SameEval
    <2>3. \A x \in 1..Len(mods') : x \in 1..Len(mods) \/ mods'[x].root = 0
      BY ONLY <1>1 DEF QuietMods, IsNew
    <2> QED BY ONLY <2>1, <2>2, <2>3 DEF RootsKept
  <1>3. ToRoot(world, mods')
    BY <1>1, <1>2, RootsIs
  <1>4. ASSUME NEW k \in 1..Len(stk'), stk'[k].op = "js_evaluate_module" PROVE CycleOK(world, mods', stk'[k])
    <2>1. CallOK(world', mods', stk'[k])
      BY DEF ShapeInv, Shape
    <2>2. CASE stk'[k].path = <<>>
      <3>1. stk'[k].list = <<>>
        BY <1>4, <2>1, <2>2 DEF CallOK, EvalOK, WalkOK, PathOK
      <3>2. Len(stk'[k].path) = 0 /\ Len(stk'[k].list) = 0 /\ \A j : j \notin 1..0
        BY <2>2, <3>1
      <3> QED BY ONLY <3>2 DEF CycleOK, ToPath, ToLow
    <2>3. CASE stk'[k].path # <<>>
      <3>1. Loud(stk'[k])
        BY <1>4, <2>3 DEF Loud
      <3>2. k \in 1..Len(stk) /\ stk'[k] = stk[k]
        BY ONLY <1>1, <3>1, k \in 1..Len(stk') DEF QuietCalls
      <3>3. CallOK(world, mods, stk[k]) /\ stk[k] \in CallRec /\ CycleOK(world, mods, stk[k])
        BY <1>1, <3>2, ShapeIs, CallIs DEF StackOK, CallsOK, CycleInv, Cycles
      <3>4. EvalOK(mods, stk[k])
        BY <1>4, <3>2, <3>3 DEF CallOK
      <3>5. \A x \in 1..Len(mods) : Has(stk[k].list, x) => SameShape(mods[x], mods'[x])
        <4>1. \A x \in 1..Len(mods) : Has(stk[k].list, x) => mods[x].status = "evaluating"
          BY <3>4, SMTT(30) DEF EvalOK, WalkOK, ListOK, Has
        <4> QED BY ONLY <1>1, <4>1 DEF QuietMods, Fresh
      <3>6. \A x \in 1..Len(mods) : Works(stk[k], x) => Has(stk[k].list, x)
        <4>1. PathOK(mods, stk[k]) /\ (stk[k].body # 0 => stk[k].path # <<>> /\ stk[k].body = Last(stk[k].path).d)
          BY <3>4 DEF EvalOK, WalkOK
        <4>2. stk[k].path # <<>> => Len(stk[k].path) \in 1..Len(stk[k].path) /\ Last(stk[k].path) = stk[k].path[Len(stk[k].path)]
          BY <3>3, CallFields
        <4> QED BY ONLY <4>1, <4>2 DEF Works, PathOK
      <3> QED BY <1>1, <3>2, <3>3, <3>5, <3>6, CycleKept
    <2> QED BY <2>2, <2>3
  <1> QED BY <1>1, <1>3, <1>4 DEF CycleInv, Cycles, CycleOK

(* The steps of an evaluation.                                             *)
LEMMA EvalTop ==
    ASSUME ShapeInv, CycleInv, stk # <<>>, Top.op = "js_evaluate_module"
    PROVE  /\ Top \in CallRec /\ CallIn(mods, Top) /\ WalkOK(mods, Top, "evaluating") /\ LinksOK(world, mods)
           /\ ToPath(world, mods, Top) /\ ToLow(world, mods, Top) /\ CallOK(world, mods, Top)
           /\ \A x : Has(Top.list, x) => x \in 1..Len(mods) /\ mods[x].name \in NeedsOf(world, Top.n)
                                         /\ mods[x].status = "evaluating"
           /\ \A x : x \in ToSet(Top.list) <=> Has(Top.list, x)
  <1>1. /\ Top = stk[Len(stk)] /\ Top \in CallRec /\ CallOK(world, mods, Top) /\ CallIn(mods, Top)
        /\ WalkOK(mods, Top, "evaluating")
        /\ \A x : Has(Top.list, x) => x \in 1..Len(mods) /\ mods[x].status = "evaluating"
                                         /\ mods[x].name \in NeedsOf(world, Top.n)
    BY WalkIs, EvalOp
  <1>2. Len(stk) \in 1..Len(stk) /\ LinksOK(world, mods)
    BY ShapeIs, Below
  <1>3. CycleOK(world, mods, Top)
    BY ONLY <1>1, <1>2, CycleInv DEF CycleInv, Cycles
  <1>4. Top.list \in Seq(Nat)
    BY <1>1, CallFields
  <1> QED BY <1>1, <1>2, <1>3, <1>4, ToSetHas DEF CycleOK

(* Entering a module.                                                      *)
LEMMA EntersCycles ==
    ASSUME ShapeInv, CycleInv, Is("js_evaluate_module"), NEW d \in 1..Len(mods), mods[d].status = "linked",
           mods[d].name \in NeedsOf(world, Top.n),
           Top.path = <<>> => d = Top.d,
           Top.path # <<>> => Cur.i <= Len(mods[Cur.d].links) /\ d = Child,
           mods' \in Seq(ModRec), Enters(mods, mods', d, Top.i, "evaluating"), stk' = Enter(d), world' = world
    PROVE  CycleInv'
  <1>1. stk # <<>> /\ Top.op = "js_evaluate_module"
    BY DEF Is
  <1>2. world \in Worlds /\ mods \in Seq(ModRec)
    BY ShapeIs
  <1>3. Enter(d) = WithTop(WithEntered(Top, d)) /\ WithEntered(Top, d) \in CallRec /\ WithEntered(Top, d).op = Top.op
    BY <1>1, EnterIs
  <1>4. /\ Top \in CallRec /\ CallIn(mods, Top) /\ WalkOK(mods, Top, "evaluating") /\ LinksOK(world, mods)
        /\ ToPath(world, mods, Top) /\ ToLow(world, mods, Top)
    BY <1>1, EvalTop
  <1>5. Top.path # <<>> => Cur = Last(Top.path)
    BY <1>4, CallFields DEF Cur
  <1>6. ToPath(world, mods', WithEntered(Top, d)) /\ ToLow(world, mods', WithEntered(Top, d))
    <2> DEFINE c == WithEntered(Top, d)
    <2>1. c \in CallRec /\ c = WithEntered(Top, d) /\ mods[d].status # "evaluating"
      BY <1>3
    <2>2. Top.path # <<>> => /\ Last(Top.path).i <= Len(mods[Last(Top.path).d].links)
                             /\ mods[Last(Top.path).d].links[Last(Top.path).i] = d
      BY <1>5 DEF Child
    <2> HIDE DEF c
    <2>3. ToPath(world, mods', c) /\ ToLow(world, mods', c)
      BY ONLY <1>2, <1>4, <2>1, <2>2, mods' \in Seq(ModRec), d \in 1..Len(mods), Top.path = <<>> => d = Top.d,
              Enters(mods, mods', d, Top.i, "evaluating"), CycleEnters
    <2> QED BY <2>1, <2>3
  <1>7. \A x \in 1..Len(mods) : mods'[x].name = mods[x].name /\ mods'[x].root = mods[x].root /\ mods'[x].err = mods[x].err
                                /\ (x # d => SameShape(mods[x], mods'[x]))
    BY DEF Enters, OthersSame, SameMod, SameShape, SameEval
  <1>8. Len(mods') = Len(mods) /\ Named(mods, mods') /\ RootsKept(mods, mods')
    <2>1. Len(mods') = Len(mods) /\ Len(mods) \in Nat
      BY <1>2, ModIs DEF Enters
    <2>2. Len(mods) <= Len(mods')
      BY ONLY <2>1
    <2> QED BY ONLY <1>7, <2>1, <2>2 DEF Named, RootsKept
  <1>9. ToRoot(world, mods')
    BY <1>8, RootsIs
  <1>10. \A x \in 1..Len(mods) : \/ SameShape(mods[x], mods'[x]) \/ Len(stk) = 1
                                 \/ mods[x].name \in NeedsOf(world, Top.n)
    BY ONLY <1>7, mods[d].name \in NeedsOf(world, Top.n)
  <1>11. \E c \in CallRec : stk' = WithTop(c) /\ CycleOK(world, mods', c)
    BY ONLY <1>3, <1>6, stk' = Enter(d) DEF CycleOK
  <1> QED BY ONLY ShapeInv, CycleInv, world' = world, mods' \in Seq(ModRec), <1>1, <1>8, <1>9, <1>10, <1>11, CyclesTop

(* A call whose path and list are those of the innermost one, while the    *)
(* shape of the modules stays.                                             *)
LEMMA SameCycles ==
    ASSUME ShapeInv, CycleInv, stk # <<>>, world' = world, mods' \in Seq(ModRec), Len(mods') = Len(mods),
           \A x \in 1..Len(mods) : SameShape(mods[x], mods'[x]),
           \A x \in 1..Len(mods) : mods'[x].root = mods[x].root /\ mods'[x].err = mods[x].err,
           \/ stk' = Pop
           \/ \E c \in CallRec : /\ stk' = WithTop(c) /\ c.op = Top.op /\ c.list = Top.list
                                 /\ Len(c.path) = Len(Top.path)
                                 /\ \A k \in 1..Len(Top.path) : c.path[k].d = Top.path[k].d
    PROVE  CycleInv'
  <1>1. /\ mods \in Seq(ModRec) /\ Len(mods) \in Nat /\ Top \in CallRec /\ CallOK(world, mods, Top)
    BY ShapeIs, TopIs
  <1>2. Named(mods, mods') /\ RootsKept(mods, mods')
    BY <1>1 DEF Named, RootsKept, SameShape
  <1>3. ToRoot(world, mods')
    BY <1>2, RootsIs
  <1>4. CycleOK(world, mods, Top)
    <2>1. Top = stk[Len(stk)] /\ Len(stk) \in 1..Len(stk)
      BY TopIs, ShapeIs, Below
    <2> QED BY ONLY <2>1, CycleInv DEF CycleInv, Cycles
  <1>5. CycleOK(world, mods', Top)
    BY ONLY <1>1, <1>4, mods' \in Seq(ModRec), \A x \in 1..Len(mods) : SameShape(mods[x], mods'[x]), CycleKept
  <1>6. stk' = Pop \/ \E c \in CallRec : stk' = WithTop(c) /\ CycleOK(world, mods', c)
    <2> SUFFICES ASSUME NEW c \in CallRec, c.op = Top.op, c.list = Top.list, Len(c.path) = Len(Top.path),
                        \A k \in 1..Len(Top.path) : c.path[k].d = Top.path[k].d, Top.op = "js_evaluate_module"
                 PROVE  CycleOK(world, mods', c)
      BY DEF CycleOK
    <2>1. ToPath(world, mods', Top) /\ ToLow(world, mods', Top)
      BY <1>5 DEF CycleOK
    <2>2. \A k \in 1..Len(Top.path) : k < Len(Top.path) => k + 1 \in 1..Len(Top.path)
      BY <1>1, CallFields
    <2>3. ToPath(world, mods', c)
      BY ONLY <2>1, <2>2, c.list = Top.list, Len(c.path) = Len(Top.path),
              \A k \in 1..Len(Top.path) : c.path[k].d = Top.path[k].d DEF ToPath
    <2>4. ToLow(world, mods', c)
      BY ONLY <2>1, c.list = Top.list DEF ToLow
    <2> QED BY <2>3, <2>4 DEF CycleOK
  <1> QED BY ONLY ShapeInv, CycleInv, stk # <<>>, world' = world, mods' \in Seq(ModRec), <1>2, <1>3, <1>6,
                  \A x \in 1..Len(mods) : SameShape(mods[x], mods'[x]), CyclesTop

(* An evaluation that fails.                                               *)
LEMMA FailsCycles ==
    ASSUME ShapeInv, CycleInv, stk # <<>>, Top.op = "js_evaluate_module", world' = world, mods' \in Seq(ModRec),
           NEW ms \in Seq(ModRec), Len(ms) = Len(mods), \A x \in 1..Len(mods) : SameShape(mods[x], ms[x]),
           \A x \in 1..Len(mods) : ms[x].root = mods[x].root /\ ms[x].err = mods[x].err,
           NEW e \in 1..Len(mods), Fails(ms, mods', ToSet(Top.list), e, Top.list[1]), stk' = Pop
    PROVE  CycleInv'
  <1>1. \A x : x \in ToSet(Top.list) => mods[x].name \in NeedsOf(world, Top.n)
    BY EvalTop
  <1>2. /\ Len(mods') = Len(mods) /\ \A x \in 1..Len(mods) : mods'[x].name = mods[x].name
        /\ \A x \in 1..Len(mods) : x \notin ToSet(Top.list) => SameShape(mods[x], mods'[x])
    BY SMTT(30) DEF Fails, SameBase, SameShape
  <1>3. \A x \in 1..Len(mods) : x \notin ToSet(Top.list) => mods'[x].root = mods[x].root /\ mods'[x].err = mods[x].err
    BY DEF Fails
  <1>4. e # 0 /\ \A x \in 1..Len(mods) : x \in ToSet(Top.list) => mods'[x].err = e
    BY DEF Fails
  <1>5. RootsKept(mods, mods')
    BY ONLY <1>2, <1>3, <1>4 DEF RootsKept
  <1>6. Named(mods, mods')
    BY <1>2, ShapeIs DEF Named
  <1>7. ToRoot(world, mods')
    BY <1>5, <1>6, RootsIs
  <1> QED BY <1>1, <1>2, <1>6, <1>7, CyclesTop

(* A request that is done.                                                 *)
LEMMA ContinuesCycles ==
    ASSUME ShapeInv, CycleInv, Within("js_evaluate_module"), Cur.i \in 1..Len(mods[Cur.d].links),
           Child \in 1..Len(mods), mods[Child].name \in NeedsOf(world, Top.n),
           mods' \in Seq(ModRec), world' = world, NEW x, NEW a, Continues(Child, x, a)
    PROVE  CycleInv'
  <1>1. /\ stk # <<>> /\ Top \in CallRec /\ Top.op = "js_evaluate_module" /\ Top.path # <<>>
        /\ Cur.d \in 1..Len(mods) /\ Has(Top.list, Cur.d)
    BY EvalWithin
  <1>2. /\ CallIn(mods, Top) /\ WalkOK(mods, Top, "evaluating") /\ LinksOK(world, mods)
        /\ ToPath(world, mods, Top) /\ ToLow(world, mods, Top)
        /\ \A y : Has(Top.list, y) => mods[y].name \in NeedsOf(world, Top.n)
    BY <1>1, EvalTop
  <1>3. world \in Worlds /\ mods \in Seq(ModRec)
    BY ShapeIs
  <1>4. stk' = WithTop(Advance(Top)) /\ Asks(mods, mods', Cur.d, x, a)
    BY DEF Continues
  <1>5. /\ Len(mods') = Len(mods)
        /\ \A y \in 1..Len(mods) : /\ mods'[y].name = mods[y].name /\ mods'[y].dfs = mods[y].dfs
                                   /\ mods'[y].root = mods[y].root /\ mods'[y].err = mods[y].err
                                   /\ (y # Cur.d => SameShape(mods[y], mods'[y]))
        /\ \A y \in 1..Len(mods) : y # Cur.d => mods'[y].ancestor = mods[y].ancestor
        /\ mods'[Cur.d].ancestor = a
    <2>1. /\ Len(mods') = Len(mods)
          /\ \A y \in 1..Len(mods) : SameBase(mods[y], mods'[y]) /\ mods'[y].status = mods[y].status
                 /\ mods'[y].root = mods[y].root /\ mods'[y].err = mods[y].err
                 /\ (y # Cur.d => mods'[y].ancestor = mods[y].ancestor) /\ (y = Cur.d => mods'[y].ancestor = a)
      BY <1>4 DEF Asks
    <2> QED BY ONLY <1>1, <2>1 DEF SameBase, SameShape
  <1>6. a = mods[Cur.d].ancestor \/
           \E m \in 1..Len(mods) : a = mods[m].ancestor /\ Has(Top.list, m) /\ NeededBy(world, mods, m, Cur.d)
    <2>1. CASE mods[Child].status = "evaluating"
      <3>1. Has(Top.list, Child)
        BY <1>1, <2>1, WalkListed, EvalOp
      <3>2. NeededBy(world, mods, Child, Cur.d)
        BY <1>1, <1>2, <1>3, NeededIs DEF Child
      <3>3. a = MinOf(mods[Cur.d].ancestor, mods[Child].ancestor)
        BY <2>1 DEF Continues
      <3> QED BY <3>1, <3>2, <3>3 DEF MinOf
    <2>2. CASE mods[Child].status # "evaluating"
      BY <2>2 DEF Continues
    <2> QED BY <2>1, <2>2
  <1>7. Advance(Top) \in CallRec /\ Advances(Top, Advance(Top))
    BY <1>1, AdvanceIs
  <1>8. CycleOK(world, mods', Advance(Top))
    <2> DEFINE c == Advance(Top)
    <2>1. /\ c \in CallRec /\ c.list = Top.list /\ Len(c.path) = Len(Top.path)
          /\ \A k \in 1..Len(Top.path) : c.path[k].d = Top.path[k].d
      BY <1>7 DEF Advances
    <2> HIDE DEF c
    <2>2. ToPath(world, mods', c) /\ ToLow(world, mods', c)
      BY ONLY <1>1, <1>2, <1>3, <1>5, <1>6, <2>1, mods' \in Seq(ModRec), CycleGoesOn
    <2> QED BY <2>2 DEF CycleOK, c
  <1>9. Named(mods, mods') /\ RootsKept(mods, mods')
    <2>1. Len(mods) \in Nat
      BY <1>3, ModIs
    <2>2. Len(mods) <= Len(mods')
      BY ONLY <1>5, <2>1
    <2> QED BY ONLY <1>5, <2>2 DEF Named, RootsKept
  <1>10. ToRoot(world, mods')
    BY <1>9, RootsIs
  <1>11. \A y \in 1..Len(mods) : \/ SameShape(mods[y], mods'[y]) \/ Len(stk) = 1
                                 \/ mods[y].name \in NeedsOf(world, Top.n)
    BY ONLY <1>1, <1>2, <1>5
  <1>12. \E c \in CallRec : stk' = WithTop(c) /\ CycleOK(world, mods', c)
    BY ONLY <1>4, <1>7, <1>8
  <1> QED BY ONLY ShapeInv, CycleInv, world' = world, mods' \in Seq(ModRec), <1>1, <1>9, <1>10, <1>11, <1>12, CyclesTop

(* The end of a module, and of its cycle.                                  *)
LEMMA EndsCycles ==
    ASSUME ShapeInv, CycleInv, Within("js_evaluate_module"), mods' \in Seq(ModRec), world' = world, Ends
    PROVE  CycleInv'
  <1>1. /\ stk # <<>> /\ Top \in CallRec /\ Top.op = "js_evaluate_module" /\ Top.path # <<>> /\ Top.body = 0
        /\ Cur.d \in 1..Len(mods) /\ Cur = Last(Top.path) /\ Cur = Top.path[Len(Top.path)]
        /\ Len(Top.path) \in 1..Len(Top.path) /\ Has(Top.list, Cur.d)
    BY EvalWithin
  <1>2. /\ CallIn(mods, Top) /\ WalkOK(mods, Top, "evaluating") /\ LinksOK(world, mods)
        /\ ToPath(world, mods, Top) /\ ToLow(world, mods, Top)
        /\ \A y : Has(Top.list, y) => y \in 1..Len(mods) /\ mods[y].name \in NeedsOf(world, Top.n)
    BY <1>1, EvalTop
  <1>3. world \in Worlds /\ mods \in Seq(ModRec)
    BY ShapeIs
  <1>4. /\ Len(mods') = Len(mods)
        /\ \A y \in 1..Len(mods) : mods'[y].name = mods[y].name /\ mods'[y].err = mods[y].err
        /\ \A y \in 1..Len(mods) : y \in Done(Cur.d) => mods'[y].root = Cur.d
        /\ \A y \in 1..Len(mods) : y \notin Done(Cur.d) => mods'[y].root = mods[y].root /\ SameShape(mods[y], mods'[y])
    <2>1. Finishes(mods, mods', Done(Cur.d), Cur.d)
      BY DEF Ends
    <2> QED BY ONLY <2>1 DEF Finishes, SameBase, SameShape
  <1>5. \A y \in Done(Cur.d) : Has(Top.list, y)
    BY DoneIs
  <1>6. \A y : Has(Top.list, y) => NeededBy(world, mods, Cur.d, y)
    <2>1. ~(Len(Top.path) < Len(Top.path))
      BY <1>1
    <2> QED BY ONLY <1>1, <1>2, <2>1 DEF ToPath, Has
  <1>7. Named(mods, mods')
    BY <1>3, <1>4, ModIs DEF Named
  <1>8. ToRoot(world, mods')
    <2>1. \A x \in 1..Len(mods') : mods'[x].root # 0 /\ mods'[x].err = 0 =>
             \/ x \in 1..Len(mods) /\ mods'[x].root = mods[x].root /\ mods[x].err = 0
             \/ NeededBy(world, mods', mods'[x].root, x)
      <3>1. \A x \in 1..Len(mods) : x \in Done(Cur.d) => NeededBy(world, mods', mods'[x].root, x)
        <4> SUFFICES ASSUME NEW x \in 1..Len(mods), x \in Done(Cur.d) PROVE NeededBy(world, mods', mods'[x].root, x)
          OBVIOUS
        <4>1. NeededBy(world, mods, Cur.d, x) /\ mods'[x].root = Cur.d
          BY <1>4, <1>5, <1>6
        <4> QED BY ONLY <1>1, <1>4, <4>1, x \in 1..Len(mods) DEF NeededBy
      <3> QED BY ONLY <1>4, <3>1
    <2>2. RootsOK(mods) /\ ToRoot(world, mods)
      BY ShapeIs DEF CycleInv, Cycles
    <2> QED BY ONLY <1>3, <1>7, <2>1, <2>2, mods' \in Seq(ModRec), ToRootKept
  <1>9. stk' = Pop \/ \E c \in CallRec : stk' = WithTop(c) /\ CycleOK(world, mods', c)
    <2>1. CASE stk' = Return(Cur.d)
      <3>1. PICK n \in Nat, c \in CallRec :
              /\ Return(Cur.d) = WithTop(c) /\ ReturnsCall(Top, c, n) /\ n <= Len(Top.list)
              /\ \/ n = Len(Top.list) /\ mods[Cur.d].dfs # mods[Cur.d].ancestor
                 \/ n + 1 <= Len(Top.list) /\ Top.list[n + 1] = Cur.d /\ EndsCycle(Cur.d)
              /\ \A x : Has(Top.list, x) => (x \in Done(Cur.d) <=> ~Has(c.list, x))
        BY ReturnIs, EvalOp
      <3>2. \A k \in 1..n : SameShape(mods[Top.list[k]], mods'[Top.list[k]])
        <4> SUFFICES ASSUME NEW k \in 1..n PROVE SameShape(mods[Top.list[k]], mods'[Top.list[k]])
          OBVIOUS
        <4>1. k \in 1..Len(Top.list) /\ Len(c.list) = n /\ c.list[k] = Top.list[k]
          BY <1>1, <3>1, CallFields DEF ReturnsCall
        <4>2. Has(Top.list, Top.list[k]) /\ Has(c.list, Top.list[k])
          BY ONLY <4>1, k \in 1..n DEF Has
        <4> QED BY ONLY <1>2, <1>4, <3>1, <4>2
      <3>3. mods'[Top.d].name = mods[Top.d].name
        BY <1>1, <1>4, WalkIs, EvalOp, SMTT(30)
      <3>4. CallIn(mods', c) /\ WalkOK(mods', c, "evaluating")
        BY ONLY <1>1, <1>2, <1>3, <1>4, <3>1, <3>2, <3>3, mods' \in Seq(ModRec), WalkReturns, ZenonT(60)
      <3>5. ToPath(world, mods', c) /\ ToLow(world, mods', c)
        BY ONLY <1>1, <1>2, <1>3, <3>1, <3>2, <3>4, mods' \in Seq(ModRec), CycleReturns, ZenonT(60)
      <3> QED BY ONLY <2>1, <3>1, <3>5 DEF CycleOK
    <2> QED BY <2>1 DEF Ends
  <1> QED BY ONLY ShapeInv, CycleInv, world' = world, mods' \in Seq(ModRec), <1>1, <1>2, <1>4, <1>5, <1>7, <1>8, <1>9, CyclesTop

(* Evaluations keep the cycles.                                            *)
LEMMA CyclesEvaluate ==
    ASSUME ShapeInv, CycleInv, Evaluate
    PROVE  CycleInv'
  <1>0. mods \in Seq(ModRec) /\ world \in Worlds /\ Len(mods) \in Nat
    BY ShapeIs
  <1>1. CASE js_evaluate_module
    <2>1. /\ Is("js_evaluate_module") /\ stk # <<>> /\ Top.op = "js_evaluate_module" /\ Top.path = <<>>
          /\ Top.d \in 1..Len(mods) /\ mods' \in Seq(ModRec) /\ world' = world
          /\ \/ stk' = Pop /\ mods' = mods
             \/ \E r, p : Answers(r, p)
             \/ Begins(Top.d)
      BY <1>1, js_evaluate_moduleStep
    <2>2. CASE stk' = Pop /\ mods' = mods
      <3>1. Len(mods') = Len(mods) /\ \A x \in 1..Len(mods) :
              SameShape(mods[x], mods'[x]) /\ mods'[x].root = mods[x].root /\ mods'[x].err = mods[x].err
        BY <2>2 DEF SameShape
      <3> QED BY <2>1, <2>2, <3>1, SameCycles
    <2>3. ASSUME NEW r, NEW p, Answers(r, p) PROVE CycleInv'
      <3>1. Promises(mods, mods', r, p) /\ stk' = Pop
        BY <2>3 DEF Answers
      <3>2. Len(mods') = Len(mods) /\ \A x \in 1..Len(mods) :
              SameShape(mods[x], mods'[x]) /\ mods'[x].root = mods[x].root /\ mods'[x].err = mods[x].err
        BY ONLY <3>1 DEF Promises, OthersSame, SameMod, SameEval
      <3> QED BY <2>1, <3>1, <3>2, SameCycles
    <2>4. CASE Begins(Top.d)
      <3>1. mods[Top.d].name = Top.n /\ Top.n \in Names
        BY <2>1, WalkIs, EvalOp
      <3>2. mods[Top.d].name \in NeedsOf(world, Top.n)
        BY <1>0, <3>1, NeedsIs
      <3>3. /\ mods[Top.d].status = "linked" /\ stk' = Enter(Top.d)
            /\ Enters(mods, mods', Top.d, Top.i, "evaluating")
        BY <2>4 DEF Begins
      <3> QED BY <2>1, <3>2, <3>3, EntersCycles
    <2> QED BY <2>1, <2>2, <2>3, <2>4
  <1>2. CASE evaluateRequest
    <2>1. /\ Within("js_evaluate_module") /\ Cur.i \in 1..Len(mods[Cur.d].links)
          /\ Child \in 1..Len(mods) /\ mods[Child].name \in NeedsOf(world, Top.n)
          /\ mods' \in Seq(ModRec) /\ world' = world
          /\ \/ Descends(Child)
             \/ \E e : GivesUp(Child, e)
             \/ \E x, a : Continues(Child, x, a)
      BY <1>2, evaluateRequestStep
    <2>2. stk # <<>> /\ Top.op = "js_evaluate_module" /\ Top.path # <<>> /\ Is("js_evaluate_module")
      BY <2>1, EvalWithin
    <2>3. CASE Descends(Child)
      <3>1. /\ mods[Child].status = "linked" /\ stk' = Enter(Child)
            /\ Enters(mods, mods', Child, Top.i, "evaluating")
        BY <2>3 DEF Descends
      <3>2. Cur.i <= Len(mods[Cur.d].links)
        BY <2>1
      <3> QED BY <2>1, <2>2, <3>1, <3>2, EntersCycles
    <2>4. ASSUME NEW e, GivesUp(Child, e) PROVE CycleInv'
      <3>1. stk' = Pop /\ e \in 1..Len(mods) /\ Fails(mods, mods', ToSet(Top.list), e, Top.list[1])
        BY <2>4 DEF GivesUp
      <3>2. \A x \in 1..Len(mods) : SameShape(mods[x], mods[x])
        BY DEF SameShape
      <3> QED BY <1>0, <2>1, <2>2, <3>1, <3>2, FailsCycles
    <2>5. ASSUME NEW x, NEW a, Continues(Child, x, a) PROVE CycleInv'
      BY <2>1, <2>5, ContinuesCycles
    <2> QED BY <2>1, <2>3, <2>4, <2>5
  <1>3. CASE waitForRequests \/ executeModule
    <2>1. /\ Within("js_evaluate_module") /\ mods' \in Seq(ModRec) /\ world' = world
          /\ \E n, w : Executes(n, w)
      BY <1>3, executeStep
    <2>2. PICK n, w : Executes(n, w)
      BY <2>1
    <2>3. stk # <<>> /\ Top \in CallRec /\ Top.path # <<>> /\ Cur.d \in Nat
      BY <2>1, EvalWithin
    <2>4. Starts(mods, mods', Cur.d, n, w, clock)
          /\ (stk' = WithTop(Advance(Top)) \/ stk' = WithTop([Advance(Top) EXCEPT !.body = Cur.d]))
      BY <2>2 DEF Executes
    <2>5. Len(mods') = Len(mods) /\ \A x \in 1..Len(mods) :
            SameShape(mods[x], mods'[x]) /\ mods'[x].root = mods[x].root /\ mods'[x].err = mods[x].err
      BY ONLY <2>4 DEF Starts, OthersSame, SameMod, SameEval
    <2>6. Advance(Top) \in CallRec /\ Advances(Top, Advance(Top))
      BY <2>3, AdvanceIs
    <2>7. /\ WithBody(Advance(Top), Cur.d) \in CallRec /\ WithBody(Advance(Top), Cur.d).op = Advance(Top).op
          /\ WithBody(Advance(Top), Cur.d).list = Advance(Top).list
          /\ WithBody(Advance(Top), Cur.d).path = Advance(Top).path
      BY ONLY <2>3, <2>6 DEF WithBody, CallRec
    <2>8. PICK c \in CallRec : /\ stk' = WithTop(c) /\ c.op = Advance(Top).op /\ c.list = Advance(Top).list
                               /\ c.path = Advance(Top).path
      BY ONLY <2>4, <2>6, <2>7 DEF WithBody
    <2>9. \E z \in CallRec : /\ stk' = WithTop(z) /\ z.op = Top.op /\ z.list = Top.list
                             /\ Len(z.path) = Len(Top.path)
                             /\ \A k \in 1..Len(Top.path) : z.path[k].d = Top.path[k].d
      BY ONLY <2>6, <2>8, c \in CallRec DEF Advances, SameHead
    <2> QED BY <2>1, <2>3, <2>5, <2>9, SameCycles
  <1>4. CASE evaluateDone
    BY <1>4, evaluateDoneStep, EndsCycles
  <1> QED BY <1>1, <1>2, <1>3, <1>4 DEF Evaluate

(* A job has no evaluation on the stack.                                   *)
LEMMA JobCalls ==
    ASSUME ShapeInv,
           \/ stk = <<>> /\ (stk' = stk \/ \E c \in CallRec : c.op \notin Base /\ stk' = Append(stk, c))
           \/ /\ stk # <<>> /\ Len(stk) = 1
              /\ stk' = Pop \/ \E c \in CallRec : c.op \notin Base /\ stk' = WithTop(c)
    PROVE  \A k \in 1..Len(stk') : stk'[k].op # "js_evaluate_module"
  <1> SUFFICES ASSUME NEW k \in 1..Len(stk') PROVE stk'[k].op # "js_evaluate_module"
    OBVIOUS
  <1>1. stk \in Seq(CallRec) /\ (stk # <<>> /\ Len(stk) = 1 => Pop \in Seq(CallRec) /\ Len(Pop) = 0)
    BY ShapeIs, PopIs
  <1>2. stk # <<>> => \A c \in CallRec : WithTop(c) = Append(Pop, c)
    BY <1>1, WithTopIs
  <1>3. PICK s \in Seq(CallRec) : Len(s) = 0 /\ (stk' = s \/ \E c \in CallRec : c.op \notin Base /\ stk' = Append(s, c))
    BY <1>1, <1>2
  <1>4. \A c \in CallRec : Len(Append(s, c)) = 1 /\ Append(s, c)[1] = c
    BY <1>3
  <1>5. "js_evaluate_module" \in Base
    BY DEF Base
  <1> QED BY <1>3, <1>4, <1>5

(* A body that ends leaves the walk of its call.                           *)
LEMMA BodyEndsCalls ==
    ASSUME ShapeInv, RunsBody, stk' = BodyEnds
    PROVE  \/ stk' = Pop
           \/ \E c \in CallRec : /\ stk' = WithTop(c) /\ c.op = Top.op /\ c.list = Top.list /\ c.path = Top.path
                                 /\ c.body = 0
  BY BodyEndsIs

(* Bodies keep the cycles.                                                 *)
LEMMA CyclesBodies ==
    ASSUME ShapeInv, AwaitInv, CycleInv, Bodies
    PROVE  CycleInv'
  <1>0. mods \in Seq(ModRec) /\ world \in Worlds /\ Len(mods) \in Nat
    BY ShapeIs
  <1>1. RunsBody /\ world' = world
    BY bodyReturnsStep, bodyThrowsStep DEF Bodies, bodyAwaits
  <1>2. /\ stk # <<>> /\ Top \in CallRec /\ Top.body \in 1..Len(mods) /\ Top.op \in BodyOps
        /\ Top.op = "js_evaluate_module" => Top.list # <<>>
        /\ Top.op # "js_evaluate_module" => Len(stk) = 1 /\ Top.op \notin Base
    BY <1>1, BodyRuns
  <1>3. ASSUME stk' = BodyEnds
        PROVE  \/ stk' = Pop
               \/ \E c \in CallRec : /\ stk' = WithTop(c) /\ c.op = Top.op /\ c.list = Top.list
                                     /\ Len(c.path) = Len(Top.path)
                                     /\ \A k \in 1..Len(Top.path) : c.path[k].d = Top.path[k].d
    BY <1>1, <1>3, BodyEndsCalls
  <1>4. ASSUME stk' = BodyEnds, Top.op = "fulfilled"
        PROVE  \A k \in 1..Len(stk') : stk'[k].op # "js_evaluate_module"
    <2>1. stk' = Pop \/ \E c \in CallRec : c.op \notin Base /\ stk' = WithTop(c)
      BY <1>1, <1>2, <1>4, BodyEndsCalls
    <2> QED BY <1>2, <1>4, <2>1, JobCalls
  <1>5. ASSUME NEW d, NEW o, NEW ms \in Seq(ModRec), Outs(mods, ms, d, o)
        PROVE  Len(ms) = Len(mods) /\ \A x \in 1..Len(mods) :
                 SameShape(mods[x], ms[x]) /\ ms[x].root = mods[x].root /\ ms[x].err = mods[x].err
    BY ONLY <1>5 DEF Outs, OthersSame, SameMod, SameEval
  <1>6. ASSUME stk' = BodyEnds, mods' \in Seq(ModRec), NEW o, Outs(mods, mods', Top.body, o)
        PROVE  CycleInv'
    BY <1>1, <1>2, <1>3, <1>5, <1>6, SameCycles
  <1>7. ASSUME NEW f, Reports(Top.body, f), mods' \in Seq(ModRec) PROVE CycleInv'
    BY <1>6, <1>7 DEF Reports
  <1>8. CASE bodyReturns
    <2>1. ASSUME NEW ms, Completes(Top.body, ms), mods' \in Seq(ModRec) PROVE CycleInv'
      <3>1. /\ Top.op = "fulfilled" /\ ms \in Seq(ModRec) /\ Outs(mods, ms, Top.body, "ok")
            /\ Evaluates(ms, mods', Top.body) /\ stk' = BodyEnds
        BY <2>1 DEF Completes
      <3>2. Len(ms) = Len(mods) /\ \A x \in 1..Len(mods) :
              SameShape(mods[x], ms[x]) /\ ms[x].root = mods[x].root /\ ms[x].err = mods[x].err
        BY <1>5, <3>1
      <3>3. Len(mods') = Len(mods) /\ \A x \in 1..Len(mods) :
              mods'[x].name = mods[x].name /\ mods'[x].root = mods[x].root /\ mods'[x].err = mods[x].err
        BY ONLY <3>1, <3>2 DEF Evaluates, OthersSame, SameMod, SameEval, SameShape, SameBase
      <3>4. Len(mods) <= Len(mods')
        BY ONLY <1>0, <3>3
      <3>5. Named(mods, mods') /\ RootsKept(mods, mods')
        BY ONLY <3>3, <3>4 DEF Named, RootsKept
      <3> QED BY <1>1, <1>4, <2>1, <3>1, <3>5, RootsIs, CyclesJob
    <2> QED BY <1>6, <1>7, <1>8, <2>1, bodyReturnsStep DEF Comes
  <1>9. CASE bodyThrows
    <2>1. ASSUME NEW ms, Throws(Top.body, ms) PROVE CycleInv'
      <3>1. /\ ~HasTla(Top.body) /\ Top.op # "fulfilled" /\ ms \in Seq(ModRec) /\ Outs(mods, ms, Top.body, "threw")
            /\ AbandonEvaluation(ms, Top.body)
        BY <2>1 DEF Throws
      <3>2. Top.op = "js_evaluate_module"
        <4>1. Len(stk) \in 1..Len(stk)
          BY <1>2, ShapeIs, Below
        <4> QED BY <1>2, <3>1, <4>1 DEF BodyOps, AwaitInv, Awaits, Top, HasTla
      <3>3. Len(ms) = Len(mods) /\ \A x \in 1..Len(mods) :
              SameShape(mods[x], ms[x]) /\ ms[x].root = mods[x].root /\ ms[x].err = mods[x].err
        BY <1>5, <3>1
      <3>4. Top.body \in Nat
        BY <1>2
      <3>5. mods' \in Seq(ModRec) /\ Fails(ms, mods', ToSet(Top.list), Top.body, Top.list[1]) /\ stk' = Pop
        BY <1>2, <3>1, <3>2, <3>3, <3>4, AbandonIs
      <3> QED BY <1>1, <1>2, <3>1, <3>2, <3>3, <3>5, FailsCycles
    <2>2. ASSUME NEW ms, Breaks(Top.body, ms), mods' \in Seq(ModRec) PROVE CycleInv'
      <3>1. /\ Top.op = "fulfilled" /\ ms \in Seq(ModRec) /\ Outs(mods, ms, Top.body, "threw")
            /\ Rejects(ms, mods', Failing(ms, Top.body), Top.body) /\ stk' = BodyEnds
        BY <2>2 DEF Breaks
      <3>2. Len(ms) = Len(mods) /\ \A x \in 1..Len(mods) :
              SameShape(mods[x], ms[x]) /\ ms[x].root = mods[x].root /\ ms[x].err = mods[x].err
        BY <1>5, <3>1
      <3>3. Len(mods') = Len(mods) /\ \A x \in 1..Len(mods) :
              /\ mods'[x].name = mods[x].name /\ mods'[x].root = mods[x].root
              /\ mods'[x].err = mods[x].err \/ mods'[x].err = Top.body
        BY ONLY <3>1, <3>2 DEF Rejects, SameShape, SameBase
      <3>4. Len(mods) <= Len(mods') /\ Top.body # 0
        BY ONLY <1>0, <1>2, <3>3
      <3>5. Named(mods, mods') /\ RootsKept(mods, mods')
        BY ONLY <3>3, <3>4 DEF Named, RootsKept
      <3> QED BY <1>1, <1>4, <2>2, <3>1, <3>5, RootsIs, CyclesJob
    <2> QED BY <1>7, <1>9, <2>1, <2>2, bodyThrowsStep
  <1>10. CASE bodyAwaits
    <2>1. stk' = BodyEnds /\ mods' = mods
      BY <1>10 DEF bodyAwaits
    <2>2. Len(mods') = Len(mods) /\ mods' \in Seq(ModRec) /\ \A x \in 1..Len(mods) :
            SameShape(mods[x], mods'[x]) /\ mods'[x].root = mods[x].root /\ mods'[x].err = mods[x].err
      BY ONLY <1>0, <2>1 DEF SameShape
    <2> QED BY <1>1, <1>2, <1>3, <2>1, <2>2, SameCycles
  <1> QED BY <1>8, <1>9, <1>10 DEF Bodies

(* Jobs keep the cycles.                                                   *)
LEMMA CyclesJobs ==
    ASSUME ShapeInv, Reenter = FALSE, CycleInv, Jobs
    PROVE  CycleInv'
  <1>0. mods \in Seq(ModRec) /\ Len(mods) \in Nat /\ Defs = 1..Len(mods)
    BY ShapeIs
  <1>1. ASSUME world' = world, mods' \in Seq(ModRec), Len(mods') = Len(mods),
               \A x \in 1..Len(mods) :
                  /\ mods'[x].name = mods[x].name
                  /\ mods'[x].err = 0 => mods'[x].root = mods[x].root /\ mods[x].err = 0,
               \/ stk = <<>> /\ (stk' = stk \/ \E c \in CallRec : c.op \notin Base /\ stk' = Append(stk, c))
               \/ /\ stk # <<>> /\ Len(stk) = 1
                  /\ stk' = Pop \/ \E c \in CallRec : c.op \notin Base /\ stk' = WithTop(c)
        PROVE  CycleInv'
    <2>1. Len(mods) <= Len(mods')
      BY ONLY <1>0, <1>1
    <2>2. Named(mods, mods') /\ RootsKept(mods, mods')
      BY ONLY <1>1, <2>1 DEF Named, RootsKept
    <2> QED BY <1>1, <2>2, RootsIs, JobCalls, CyclesJob
  <1>2. ASSUME NEW d \in Defs, bodyResumes(d) PROVE CycleInv'
    <2>1. stk = <<>> /\ mods' = mods /\ world' = world /\ stk' = Append(stk, Resumed(d)) /\ d \in awaiting
      BY <1>2, JobsRunAlone DEF bodyResumes, Resumed
    <2>2. mods[d].status \in Begun
      BY <2>1, ShapeIs DEF QueuedOK
    <2>3. Resumed(d) \in CallRec /\ Resumed(d).op = "bodyResumes" /\ "bodyResumes" \notin Base
      BY <1>0, <2>2, ResumedIs DEF Base
    <2> QED BY <1>0, <1>1, <2>1, <2>3
  <1>3. CASE js_async_module_execution_rejected
    <2>1. /\ stk = <<>> /\ stk' = stk /\ world' = world /\ mods' \in Seq(ModRec) /\ jobs # <<>>
          /\ \/ mods' = mods
             \/ Rejects(mods, mods', Failing(mods, Head(jobs)[1]), Head(jobs)[1])
      BY <1>3, rejectedStep
    <2>2. Head(jobs)[1] \in 1..Len(mods)
      BY <2>1, HeadJob
    <2>3. Head(jobs)[1] # 0
      BY ONLY <1>0, <2>2
    <2>4. Len(mods') = Len(mods) /\ \A x \in 1..Len(mods) :
            /\ mods'[x].name = mods[x].name
            /\ mods'[x].err = 0 => mods'[x].root = mods[x].root /\ mods[x].err = 0
      BY ONLY <2>1, <2>3 DEF Rejects, SameBase
    <2> QED BY <1>1, <2>1, <2>4
  <1>4. CASE js_async_module_execution_fulfilled
    <2>1. /\ stk = <<>> /\ world' = world /\ mods' \in Seq(ModRec) /\ jobs # <<>>
          /\ \/ mods' = mods /\ stk' = stk
             \/ \E ms, list : Collects(Head(jobs)[1], ms, list)
      BY <1>4, fulfilledStep
    <2>2. CASE mods' = mods /\ stk' = stk
      BY <1>1, <2>1, <2>2
    <2>3. ASSUME NEW ms, NEW list, Collects(Head(jobs)[1], ms, list) PROVE CycleInv'
      <3>1. /\ ms \in Seq(ModRec) /\ Evaluates(mods, ms, Head(jobs)[1]) /\ Lightens(ms, mods', Freed(ms, Head(jobs)[1]))
            /\ list \in Seq(Nat) /\ stk' = Append(stk, Reacts(list)) /\ \A x : Has(list, x) => x \in Available(ms, Head(jobs)[1])
        BY <2>3, SMTT(30) DEF Collects
      <3>2. Len(mods') = Len(mods) /\ \A x \in 1..Len(mods) :
              mods'[x].name = mods[x].name /\ mods'[x].root = mods[x].root /\ mods'[x].err = mods[x].err
        BY ONLY <3>1 DEF Evaluates, Lightens, SameButPending, OthersSame, SameMod, SameEval, SameShape, SameBase
      <3>3. Reacts(list) \in CallRec /\ Reacts(list).op \notin Base
        <4>1. "fulfilled" \in Ops /\ 0 \in Names \cup {0} /\ 0 \in Nat /\ "fulfilled" \notin Base
          BY DEF Ops, Base
        <4>2. Call("fulfilled", 0, 0) \in CallRec /\ Call("fulfilled", 0, 0).op = "fulfilled"
          BY <4>1, CallNew
        <4>3. list \in Seq(Nat)
          BY <3>1
        <4>4. Reacts(list) \in CallRec /\ Reacts(list).op = Call("fulfilled", 0, 0).op
          BY ONLY <4>2, <4>3 DEF CallRec, Reacts
        <4> QED BY <4>1, <4>2, <4>4
      <3> QED BY <1>1, <2>1, <3>1, <3>2, <3>3
    <2> QED BY <2>1, <2>2, <2>3
  <1>5. CASE executeAvailable
    <2>1. /\ stk # <<>> /\ Len(stk) = 1 /\ world' = world /\ mods' \in Seq(ModRec)
          /\ \E c : Runs(Head(Top.list), c)
      BY <1>5, executeAvailableStep
    <2>2. PICK c : Runs(Head(Top.list), c)
      BY <2>1
    <2>3. c \in CallRec /\ c.op \notin Base /\ stk' = WithTop(c)
      BY <2>2 DEF Runs, Base
    <2>4. mods' = mods \/ Starts(mods, mods', Head(Top.list), 1, FALSE, 0)
      BY <2>2 DEF Runs
    <2>5. Len(mods') = Len(mods) /\ \A x \in 1..Len(mods) :
            mods'[x].name = mods[x].name /\ mods'[x].root = mods[x].root /\ mods'[x].err = mods[x].err
      BY ONLY <2>4 DEF Starts, OthersSame, SameMod, SameEval, SameShape
    <2> QED BY <1>1, <2>1, <2>3, <2>5
  <1>6. CASE fulfilledDone
    <2>1. stk # <<>> /\ Top.op = "fulfilled" /\ stk' = Pop /\ mods' = mods /\ world' = world
      BY <1>6 DEF fulfilledDone, Is
    <2>2. Len(stk) = 1
      BY <2>1, TopIs DEF Base
    <2> QED BY <1>0, <1>1, <2>1, <2>2
  <1> QED BY <1>2, <1>3, <1>4, <1>5, <1>6 DEF Jobs

(* Every step keeps the cycles.                                            *)
LEMMA CyclesNext ==
    ASSUME ShapeInv, ShapeInv', Reenter = FALSE, AwaitInv, CycleInv, Next, Calls \/ Load \/ Link => QuietStep
    PROVE  CycleInv'
  BY CyclesQuiet, CyclesEvaluate, CyclesBodies, CyclesJobs DEF Next, Step

(* At first there are no cycles.                                           *)
LEMMA CyclesInit ==
    ASSUME Init
    PROVE  CycleInv
  BY DEF Init, CycleInv, Cycles, ToRoot
-----------------------------------------------------------------------------
(* Who waits for whom.  O are the modules an evaluation entered and did    *)
(* not yet execute or make wait, Q those that a reaction is to execute, R  *)
(* the one it executes, B those whose body runs.                           *)

(* The modules that will still report: one that became available and has   *)
(* no await is taken as done already.                                      *)
Early(w, ms, Q, R, x) == (x \in Q \/ x \in R) /\ ms[x].name \notin w.has_tla
CountedIn(w, ms, Q, R) == {x \in 1..Len(ms) : ms[x].async /\ ~Early(w, ms, Q, R, x)}
(* The modules whose pending_async_dependencies is exact.                  *)
Waiting(ms, p) ==
    /\ ms[p].runs = 0 /\ ms[p].async
    /\ ms[p].status = "evaluating" \/ (ms[p].status = "async" /\ ms[ms[p].root].err = 0)
Exact(ms, O, p) == p \in O \/ Waiting(ms, p)

(* One module.                                                             *)
ModOK(ms, ck, x) ==
    /\ ms[x].runs <= 1
    /\ ms[x].status \in Fresh => ms[x].runs = 0 /\ ~ms[x].async /\ ms[x].parents = <<>>
    /\ ms[x].status # "evaluated" => ms[x].err = 0
    /\ ms[x].status = "async" => ms[x].async
    /\ ms[x].status = "evaluated" /\ ms[x].err = 0 => ~ms[x].async /\ ms[x].runs = 1
    /\ ms[x].status = "evaluated" /\ ms[x].async => ms[ms[x].root].err # 0
    /\ ms[x].async => ms[x].timestamp < ck
(* A module that is being evaluated.                                       *)
OpenOK(ms, O, x) ==
    /\ x \in O => ms[x].status = "evaluating" /\ ms[x].runs = 0 /\ ~ms[x].async
    /\ ms[x].status = "evaluating" /\ x \notin O => ms[x].runs = 1 \/ ms[x].async
    /\ ms[x].status = "evaluating" /\ ~ms[x].async => ms[x].parents = <<>>
(* A module whose body runs, is suspended or has ended with its promise.   *)
RunOK(ms, B, aw, jb) ==
    /\ \A x \in 1..Len(ms) : x \in B \/ x \in aw => ms[x].runs = 1
    /\ \A k \in 1..Len(jb) : ms[jb[k][1]].runs = 1
(* A module that a reaction is to execute, or executes.                    *)
QueueOK(ms, Q, R, x) ==
    /\ x \in Q => /\ ms[x].runs = 0
                  /\ ms[x].status = "async" \/ (ms[x].status = "evaluated" /\ ms[x].err # 0 /\ ~ms[x].async)
    /\ x \in R => ms[x].status = "async"
(* x reports to p.                                                         *)
ReportOK(ms, Q, R, ck, x, p) ==
    /\ ms[x].timestamp < ck
    /\ ms[p].async => ms[x].timestamp < ms[p].timestamp
    /\ ms[x].async => ms[p].runs = 0
    /\ ms[x].err # 0 /\ ~ms[x].async => ms[p].err # 0 /\ ms[p].runs = 0 /\ ms[p].status = "evaluated"
    /\ x \in Q \/ x \in R => ms[p].status # "evaluating"
(* What p waits for.                                                       *)
PendingOK(w, ms, O, Q, R, p) ==
    Exact(ms, O, p) => ms[p].pending = Waits(ms, CountedIn(w, ms, Q, R), p)
WaitsOn(ms, Q, p) == Waiting(ms, p) /\ p \notin Q => ms[p].pending # 0
FreeOK(w, ms, Q, R, p) ==
    p \in Q /\ ms[p].status = "async" => \A x \in CountedIn(w, ms, Q, R) : ~Has(ms[x].parents, p)

Each(ms, O, Q, R, ck) ==
    /\ \A x \in 1..Len(ms) : ModOK(ms, ck, x)
    /\ \A x \in 1..Len(ms) : OpenOK(ms, O, x)
    /\ \A x \in 1..Len(ms) : QueueOK(ms, Q, R, x)
Reporting(ms, Q, R, ck) ==
    \A x, p \in 1..Len(ms) : Has(ms[x].parents, p) => ReportOK(ms, Q, R, ck, x, p)
Counting(w, ms, O, Q, R) ==
    /\ \A p \in 1..Len(ms) : PendingOK(w, ms, O, Q, R, p)
    /\ \A p \in 1..Len(ms) : WaitsOn(ms, Q, p)
    /\ \A p \in 1..Len(ms) : FreeOK(w, ms, Q, R, p)
Count(w, ms, O, B, Q, R, jb, aw, ck) ==
    /\ Each(ms, O, Q, R, ck) /\ RunOK(ms, B, aw, jb)
    /\ Reporting(ms, Q, R, ck) /\ Counting(w, ms, O, Q, R)
CountInv == Count(world, mods, OpenNow, RunNow, QueueNow, ReactNow, jobs, awaiting, clock)

(* A reaction executes the modules in the order of their timestamps.       *)
InOrder(ms, c) ==
    c.op = "fulfilled" =>
        \A i, j \in 1..Len(c.list) : i < j => ms[c.list[i]].timestamp < ms[c.list[j]].timestamp
OrderInv == \A k \in 1..Len(stk) : InOrder(mods, stk[k])
-----------------------------------------------------------------------------
(* How many will report.                                                   *)

SameTold(ms, D, ms2, D2, p) ==
    /\ \A x \in D : Has(ms[x].parents, p) => x \in D2 /\ ms2[x].parents = ms[x].parents
    /\ \A x \in D2 : Has(ms2[x].parents, p) => x \in D /\ ms2[x].parents = ms[x].parents

(* As many will report if the same report to p.                            *)
LEMMA WaitsSame ==
    ASSUME NEW ms \in Seq(ModRec), NEW ms2 \in Seq(ModRec), NEW D \in SUBSET (1..Len(ms)),
           NEW D2 \in SUBSET (1..Len(ms2)), NEW p \in Nat, SameTold(ms, D, ms2, D2, p)
    PROVE  Waits(ms2, D2, p) = Waits(ms, D, p)
  <1>0. /\ \A x \in D : Has(ms[x].parents, p) => x \in D2 /\ ms2[x].parents = ms[x].parents
        /\ \A x \in D2 : Has(ms2[x].parents, p) => x \in D /\ ms2[x].parents = ms[x].parents
    BY DEF SameTold
  <1>1. \A q : q \in Entries(ms, D, p) <=> q \in Entries(ms2, D2, p)
    <2>1. \A q : q \in Entries(ms, D, p) <=> EntryOf(ms, D, p, q)
      BY EntriesIs
    <2>2. \A q : q \in Entries(ms2, D2, p) <=> EntryOf(ms2, D2, p, q)
      BY EntriesIs
    <2>3. ASSUME NEW q \in Entries(ms, D, p) PROVE q \in Entries(ms2, D2, p)
      <3>1. PICK x \in D : \E k \in 1..Len(ms[x].parents) : ms[x].parents[k] = p /\ q = Pair(x, k)
        BY <2>1 DEF EntryOf
      <3>2. Has(ms[x].parents, p)
        BY <3>1 DEF Has
      <3>3. x \in D2 /\ ms2[x].parents = ms[x].parents
        BY <1>0, <3>2
      <3> QED BY ONLY <2>2, <3>1, <3>3 DEF EntryOf
    <2>4. ASSUME NEW q \in Entries(ms2, D2, p) PROVE q \in Entries(ms, D, p)
      <3>1. PICK x \in D2 : \E k \in 1..Len(ms2[x].parents) : ms2[x].parents[k] = p /\ q = Pair(x, k)
        BY <2>2 DEF EntryOf
      <3>2. Has(ms2[x].parents, p)
        BY <3>1 DEF Has
      <3>3. x \in D /\ ms2[x].parents = ms[x].parents
        BY <1>0, <3>2
      <3> QED BY ONLY <2>1, <3>1, <3>3 DEF EntryOf
    <2> QED BY <2>3, <2>4
  <1>2. Entries(ms, D, p) = Entries(ms2, D2, p)
    BY ONLY <1>1
  <1> QED BY <1>2, EntriesIs

(* None, ...                                                               *)
LEMMA WaitsNone ==
    ASSUME NEW ms \in Seq(ModRec), NEW D, D \subseteq 1..Len(ms), NEW p
    PROVE  Waits(ms, D, p) \in Nat /\ (Waits(ms, D, p) = 0 <=> \A x \in D : ~Has(ms[x].parents, p))
  <1>1. /\ IsFiniteSet(Entries(ms, D, p)) /\ Waits(ms, D, p) = Cardinality(Entries(ms, D, p)) /\ Waits(ms, D, p) \in Nat
        /\ \A q : q \in Entries(ms, D, p) <=> EntryOf(ms, D, p, q)
    BY EntriesIs
  <1>2. Waits(ms, D, p) = 0 <=> Entries(ms, D, p) = {}
    BY <1>1, FS_EmptySet
  <1>3. (\E q : q \in Entries(ms, D, p)) <=> \E x \in D : Has(ms[x].parents, p)
    <2>1. ASSUME NEW q \in Entries(ms, D, p) PROVE \E x \in D : Has(ms[x].parents, p)
      <3>1. PICK x \in D : \E k \in 1..Len(ms[x].parents) : ms[x].parents[k] = p
        BY <1>1 DEF EntryOf
      <3> QED BY ONLY <3>1, x \in D DEF Has
    <2>2. ASSUME NEW x \in D, Has(ms[x].parents, p) PROVE \E q : q \in Entries(ms, D, p)
      <3>1. PICK k \in 1..Len(ms[x].parents) : ms[x].parents[k] = p
        BY ONLY <2>2 DEF Has
      <3>2. Pair(x, k) \in Entries(ms, D, p)
        BY ONLY <1>1, <3>1, x \in D, k \in 1..Len(ms[x].parents) DEF EntryOf
      <3> QED BY ONLY <3>2
    <2> QED BY ONLY <2>1, <2>2
  <1>4. Entries(ms, D, p) = {} <=> ~\E q : q \in Entries(ms, D, p)
    OBVIOUS
  <1> QED BY ONLY <1>1, <1>2, <1>3, <1>4

(* ... those in one of two sets, ...                                       *)
Parts(F, D, E) == D \subseteq F /\ E \subseteq F /\ D \cap E = {} /\ F = D \cup E

Sums(a, b, c) == a \in Nat /\ b \in Nat /\ c \in Nat /\ a = b + c

(* Those in two parts of a set add up.                                     *)
LEMMA WaitsSplit ==
    ASSUME NEW ms \in Seq(ModRec), NEW F, F \subseteq 1..Len(ms), NEW D, NEW E, Parts(F, D, E), NEW p
    PROVE  Sums(Waits(ms, F, p), Waits(ms, D, p), Waits(ms, E, p))
  <1>0. D \subseteq 1..Len(ms) /\ E \subseteq 1..Len(ms) /\ D \cap E = {} /\ F = D \cup E
    BY DEF Parts
  <1>1. /\ IsFiniteSet(Entries(ms, D, p)) /\ Waits(ms, D, p) = Cardinality(Entries(ms, D, p)) /\ Waits(ms, D, p) \in Nat
        /\ \A q : q \in Entries(ms, D, p) <=> EntryOf(ms, D, p, q)
    BY <1>0, EntriesIs
  <1>2. /\ IsFiniteSet(Entries(ms, E, p)) /\ Waits(ms, E, p) = Cardinality(Entries(ms, E, p)) /\ Waits(ms, E, p) \in Nat
        /\ \A q : q \in Entries(ms, E, p) <=> EntryOf(ms, E, p, q)
    BY <1>0, EntriesIs
  <1>4. /\ Waits(ms, F, p) = Cardinality(Entries(ms, F, p))
        /\ \A q : q \in Entries(ms, F, p) <=> EntryOf(ms, F, p, q)
    BY <1>0, EntriesIs
  <1>12. Waits(ms, F, p) \in Nat
    BY <1>0, EntriesIs
  <1>5. \A q : q \in Entries(ms, F, p) <=> q \in Entries(ms, D, p) \/ q \in Entries(ms, E, p)
    <2>1. \A q : EntryOf(ms, F, p, q) <=> EntryOf(ms, D, p, q) \/ EntryOf(ms, E, p, q)
      BY ONLY <1>0 DEF EntryOf
    <2> QED BY ONLY <1>1, <1>2, <1>4, <2>1
  <1>6. Entries(ms, F, p) = Entries(ms, D, p) \cup Entries(ms, E, p)
    BY ONLY <1>5
  <1>7. \A q : ~(q \in Entries(ms, D, p) /\ q \in Entries(ms, E, p))
    <2> SUFFICES ASSUME NEW q, q \in Entries(ms, D, p), q \in Entries(ms, E, p) PROVE FALSE
      OBVIOUS
    <2>1. PICK x \in D : \E k \in 1..Len(ms[x].parents) : q = Pair(x, k)
      BY <1>1 DEF EntryOf
    <2>2. PICK y \in E : \E h \in 1..Len(ms[y].parents) : q = Pair(y, h)
      BY <1>2 DEF EntryOf
    <2>3. x = y
      <3>1. PICK k, h : Pair(x, k) = Pair(y, h)
        BY ONLY <2>1, <2>2
      <3> QED BY ONLY <3>1, PairIs
    <2> QED BY ONLY <2>3, x \in D, y \in E, <1>0
  <1>8. Cardinality(Entries(ms, D, p) \cap Entries(ms, E, p)) = 0
    <2>1. Entries(ms, D, p) \cap Entries(ms, E, p) = {}
      BY ONLY <1>7
    <2> QED BY <2>1, FS_EmptySet
  <1>9. Cardinality(Entries(ms, D, p) \cup Entries(ms, E, p)) =
          Cardinality(Entries(ms, D, p)) + Cardinality(Entries(ms, E, p)) - Cardinality(Entries(ms, D, p) \cap Entries(ms, E, p))
    BY <1>1, <1>2, FS_Union
  <1>10. /\ Waits(ms, D, p) = Cardinality(Entries(ms, D, p)) /\ Waits(ms, D, p) \in Nat
         /\ Waits(ms, E, p) = Cardinality(Entries(ms, E, p)) /\ Waits(ms, E, p) \in Nat
         /\ Waits(ms, F, p) = Cardinality(Entries(ms, D, p) \cup Entries(ms, E, p))
    BY ONLY <1>1, <1>2, <1>4, <1>6
  <1>11. Waits(ms, F, p) = Waits(ms, D, p) + Waits(ms, E, p)
    BY ONLY <1>8, <1>9, <1>10
  <1> QED BY ONLY <1>10, <1>11, <1>12 DEF Sums

(* ... not more in a part, ...                                             *)
LEMMA WaitsMono ==
    ASSUME NEW ms \in Seq(ModRec), NEW E, E \subseteq 1..Len(ms), NEW D, D \subseteq E, NEW p
    PROVE  Waits(ms, D, p) <= Waits(ms, E, p) /\ Waits(ms, D, p) \in Nat /\ Waits(ms, E, p) \in Nat
  <1> DEFINE G == E \ D
  <1>1. D \subseteq 1..Len(ms) /\ G \subseteq 1..Len(ms) /\ Parts(E, D, G)
    BY DEF Parts
  <1> HIDE DEF G
  <1>3. Waits(ms, D, p) \in Nat /\ Waits(ms, E, p) \in Nat /\ Waits(ms, G, p) \in Nat
    BY <1>1, WaitsNone
  <1>2. Sums(Waits(ms, E, p), Waits(ms, D, p), Waits(ms, G, p))
    BY ONLY <1>1, E \subseteq 1..Len(ms), ms \in Seq(ModRec), WaitsSplit
  <1> QED BY ONLY <1>2, <1>3 DEF Sums

(* ... and one more when one more reports.                                 *)
Tells(ms, ms2, y, d) ==
    /\ Len(ms2) = Len(ms) /\ ms2[y].parents = Append(ms[y].parents, d)
    /\ \A x \in 1..Len(ms) : x # y => ms2[x].parents = ms[x].parents
OneMore(ms, ms2, D, d) ==
    /\ Waits(ms2, D, d) = Waits(ms, D, d) + 1
    /\ \A p : p # d => Waits(ms2, D, p) = Waits(ms, D, p)

(* An entry among the parents of y is one more for d.                      *)
LEMMA WaitsMore ==
    ASSUME NEW ms \in Seq(ModRec), NEW ms2 \in Seq(ModRec), NEW D \in SUBSET (1..Len(ms)),
           NEW y \in D, NEW d \in Nat, Tells(ms, ms2, y, d)
    PROVE  OneMore(ms, ms2, D, d)
  <1>0. /\ Len(ms2) = Len(ms) /\ ms2[y].parents = Append(ms[y].parents, d)
        /\ \A x \in 1..Len(ms) : x # y => ms2[x].parents = ms[x].parents
    BY DEF Tells
  <1> DEFINE n == Len(ms[y].parents)
  <1>1. y \in 1..Len(ms) /\ ms[y].parents \in Seq(Nat)
    BY ModIs
  <1>2. /\ n \in Nat /\ Len(ms2[y].parents) = n + 1 /\ ms2[y].parents[n + 1] = d
        /\ \A k \in 1..n : k \in 1..(n + 1) /\ ms2[y].parents[k] = ms[y].parents[k]
        /\ \A k \in 1..(n + 1) : k \in 1..n \/ k = n + 1
        /\ n + 1 \in 1..(n + 1) /\ n + 1 \notin 1..n
    BY <1>0, <1>1, AppendIs, SMTT(30)
  <1> HIDE DEF n
  <1>3. n = Len(ms[y].parents)
    BY DEF n
  <1>4. D \subseteq 1..Len(ms2)
    BY <1>0
  <1>5. ASSUME NEW p
        PROVE  /\ IsFiniteSet(Entries(ms, D, p)) /\ Waits(ms, D, p) = Cardinality(Entries(ms, D, p)) /\ Waits(ms, D, p) \in Nat
               /\ Waits(ms2, D, p) = Cardinality(Entries(ms2, D, p))
               /\ \A q : q \in Entries(ms, D, p) <=> EntryOf(ms, D, p, q)
               /\ \A q : q \in Entries(ms2, D, p) <=> EntryOf(ms2, D, p, q)
    BY <1>4, EntriesIs
  <1>6. ASSUME NEW p
        PROVE  \A q : q \in Entries(ms2, D, p) <=> q \in Entries(ms, D, p) \/ (p = d /\ q = Pair(y, n + 1))
    <2>1. ASSUME NEW x \in D, NEW k \in 1..Len(ms2[x].parents), ms2[x].parents[k] = p
          PROVE  Pair(x, k) \in Entries(ms, D, p) \/ (p = d /\ Pair(x, k) = Pair(y, n + 1))
      <3>1. CASE x # y
        <4>1. k \in 1..Len(ms[x].parents) /\ ms[x].parents[k] = p
          BY <1>0, <2>1, <3>1
        <4> QED BY ONLY <1>5, <4>1, x \in D, k \in 1..Len(ms2[x].parents) DEF EntryOf
      <3>2. CASE x = y /\ k \in 1..n
        <4>1. k \in 1..Len(ms[x].parents) /\ ms[x].parents[k] = p
          BY ONLY <1>2, <1>3, <2>1, <3>2
        <4> QED BY ONLY <1>5, <4>1, x \in D DEF EntryOf
      <3>3. CASE x = y /\ k = n + 1
        BY ONLY <1>2, <2>1, <3>3
      <3> QED BY ONLY <1>2, <3>1, <3>2, <3>3, k \in 1..Len(ms2[x].parents)
    <2>2. ASSUME NEW x \in D, NEW k \in 1..Len(ms[x].parents), ms[x].parents[k] = p
          PROVE  Pair(x, k) \in Entries(ms2, D, p)
      <3>1. k \in 1..Len(ms2[x].parents) /\ ms2[x].parents[k] = p
        <4>1. CASE x # y
          BY <1>0, <2>2, <4>1
        <4>2. CASE x = y
          BY ONLY <1>2, <1>3, <2>2, <4>2, k \in 1..Len(ms[x].parents)
        <4> QED BY <4>1, <4>2
      <3> QED BY ONLY <1>5, <3>1, x \in D DEF EntryOf
    <2>3. p = d => Pair(y, n + 1) \in Entries(ms2, D, p)
      BY ONLY <1>2, <1>5, y \in D DEF EntryOf
    <2>4. \A q : q \in Entries(ms2, D, p) => q \in Entries(ms, D, p) \/ (p = d /\ q = Pair(y, n + 1))
      <3> SUFFICES ASSUME NEW q, q \in Entries(ms2, D, p)
                   PROVE  q \in Entries(ms, D, p) \/ (p = d /\ q = Pair(y, n + 1))
        OBVIOUS
      <3>1. EntryOf(ms2, D, p, q)
        BY <1>5
      <3>2. PICK x \in D : \E k \in 1..Len(ms2[x].parents) : ms2[x].parents[k] = p /\ q = Pair(x, k)
        BY ONLY <3>1 DEF EntryOf
      <3> QED BY ONLY <2>1, <3>2, x \in D
    <2>5. \A q : q \in Entries(ms, D, p) => q \in Entries(ms2, D, p)
      <3> SUFFICES ASSUME NEW q, q \in Entries(ms, D, p) PROVE q \in Entries(ms2, D, p)
        OBVIOUS
      <3>1. EntryOf(ms, D, p, q)
        BY <1>5
      <3>2. PICK x \in D : \E k \in 1..Len(ms[x].parents) : ms[x].parents[k] = p /\ q = Pair(x, k)
        BY ONLY <3>1 DEF EntryOf
      <3> QED BY ONLY <2>2, <3>2, x \in D
    <2> QED BY ONLY <2>3, <2>4, <2>5
  <1>7. ASSUME NEW p, p # d PROVE Waits(ms2, D, p) = Waits(ms, D, p)
    <2>1. \A q : q \in Entries(ms2, D, p) <=> q \in Entries(ms, D, p)
      BY <1>6, <1>7
    <2>2. Entries(ms2, D, p) = Entries(ms, D, p)
      BY ONLY <2>1
    <2> QED BY ONLY <1>5, <2>2
  <1>8. Waits(ms2, D, d) = Waits(ms, D, d) + 1
    <2>1. Entries(ms2, D, d) = Entries(ms, D, d) \cup {Pair(y, n + 1)}
      BY ONLY <1>6
    <2>2. Pair(y, n + 1) \notin Entries(ms, D, d)
      <3> SUFFICES ASSUME Pair(y, n + 1) \in Entries(ms, D, d) PROVE FALSE
        OBVIOUS
      <3>1. PICK x \in D : \E k \in 1..Len(ms[x].parents) : Pair(y, n + 1) = Pair(x, k)
        BY <1>5 DEF EntryOf
      <3>2. x = y /\ n + 1 \in 1..Len(ms[x].parents)
        <4>1. PICK k \in 1..Len(ms[x].parents) : Pair(y, n + 1) = Pair(x, k)
          BY ONLY <3>1
        <4>2. y = x /\ n + 1 = k
          BY ONLY <4>1, PairIs
        <4> QED BY ONLY <4>2, k \in 1..Len(ms[x].parents)
      <3> QED BY ONLY <1>2, <1>3, <3>2
    <2>3. Cardinality(Entries(ms, D, d) \cup {Pair(y, n + 1)}) = Cardinality(Entries(ms, D, d)) + 1
      <3>1. IsFiniteSet(Entries(ms, D, d))
        BY <1>5
      <3> QED BY <2>2, <3>1, FS_AddElement
    <2> QED BY ONLY <1>5, <2>1, <2>3
  <1> QED BY <1>7, <1>8 DEF OneMore
-----------------------------------------------------------------------------
(* Steps that keep the counting.                                           *)

LEMMA EndedRoot ==
    ASSUME NEW ms \in Seq(ModRec), RootsOK(ms), NEW x \in 1..Len(ms), ms[x].status \in Ended
    PROVE  ms[x].root \in 1..Len(ms) /\ ms[ms[x].root].status \in Ended
  <1>1. Len(ms) \in Nat
    BY ModIs
  <1>2. ms[x].root \in 0..Len(ms) /\ ms[x].root # 0
    BY DEF RootsOK
  <1>3. ms[x].root \in 1..Len(ms)
    BY ONLY <1>1, <1>2
  <1>4. ms[ms[x].root].root = ms[x].root
    BY <1>2 DEF RootsOK
  <1>5. ms[ms[x].root].root # 0
    BY ONLY <1>2, <1>4
  <1> QED BY <1>3, <1>5 DEF RootsOK

(* What the counting depends on.                                           *)
Kept(a, b) ==
    /\ b.name = a.name /\ b.status = a.status /\ b.runs = a.runs /\ b.async = a.async
    /\ b.timestamp = a.timestamp /\ b.parents = a.parents /\ b.pending = a.pending
    /\ b.err = a.err /\ b.root = a.root
Counted(w, ms, Q, R, x) == ms[x].async /\ ~Early(w, ms, Q, R, x)

(* The members of CountedIn.                                               *)
LEMMA CountedIs ==
    ASSUME NEW w, NEW ms, NEW Q, NEW R
    PROVE  /\ CountedIn(w, ms, Q, R) \subseteq 1..Len(ms)
           /\ \A x \in 1..Len(ms) : x \in CountedIn(w, ms, Q, R) <=> Counted(w, ms, Q, R, x)
  BY DEF CountedIn, Counted

(* Bodies that run stay counted.                                           *)
LEMMA RunKept ==
    ASSUME NEW ms, NEW ms2, Len(ms2) = Len(ms), NEW B, NEW aw, NEW jb, RunOK(ms, B, aw, jb),
           \A x \in 1..Len(ms) : ms2[x].runs = ms[x].runs,
           \A k \in 1..Len(jb) : jb[k][1] \in 1..Len(ms)
    PROVE  RunOK(ms2, B, aw, jb)
  <1>1. \A x \in 1..Len(ms2) : x \in B \/ x \in aw => ms2[x].runs = 1
    BY DEF RunOK
  <1>2. \A k \in 1..Len(jb) : ms2[jb[k][1]].runs = 1
    BY DEF RunOK
  <1> QED BY ONLY <1>1, <1>2 DEF RunOK

(* When nobody reports anew or to another module.                          *)
KeepsPending(w, ms, O, Q, R, ms2, O2, Q2, R2) ==
    \A p \in 1..Len(ms) : Exact(ms2, O2, p) =>
        \/ ms2[p].pending = Waits(ms2, CountedIn(w, ms2, Q2, R2), p)
        \/ /\ Exact(ms, O, p) /\ ms2[p].pending = ms[p].pending
           /\ \A x \in 1..Len(ms) : Has(ms[x].parents, p) =>
                 (Counted(w, ms, Q, R, x) <=> Counted(w, ms2, Q2, R2, x))
KeepsWaiting(ms, Q, ms2, Q2) ==
    \A p \in 1..Len(ms) : Waiting(ms2, p) /\ p \notin Q2 =>
        ms2[p].pending # 0 \/ (Waiting(ms, p) /\ p \notin Q /\ ms2[p].pending = ms[p].pending)
KeepsFree(w, ms, Q, R, ms2, Q2, R2) ==
    \A p \in 1..Len(ms) : p \in Q2 /\ ms2[p].status = "async" =>
        /\ p \in Q /\ ms[p].status = "async"
        /\ \A x \in 1..Len(ms) : Has(ms[x].parents, p) /\ Counted(w, ms2, Q2, R2, x) => Counted(w, ms, Q, R, x)
SameParents(ms, ms2) == Len(ms2) = Len(ms) /\ \A x \in 1..Len(ms) : ms2[x].parents = ms[x].parents

(* The counting is kept if each of its parts is.                           *)
LEMMA CountingKept ==
    ASSUME NEW w, NEW ms \in Seq(ModRec), NEW ms2 \in Seq(ModRec), SameParents(ms, ms2),
           NEW O, NEW Q, NEW R, NEW O2, NEW Q2, NEW R2, Counting(w, ms, O, Q, R),
           KeepsPending(w, ms, O, Q, R, ms2, O2, Q2, R2), KeepsWaiting(ms, Q, ms2, Q2),
           KeepsFree(w, ms, Q, R, ms2, Q2, R2)
    PROVE  Counting(w, ms2, O2, Q2, R2)
  <1>0. Len(ms2) = Len(ms) /\ \A x \in 1..Len(ms) : ms2[x].parents = ms[x].parents
    BY DEF SameParents
  <1>00. Len(ms) \in Nat
    BY ModIs
  <1> DEFINE C == CountedIn(w, ms, Q, R)
             C2 == CountedIn(w, ms2, Q2, R2)
  <1>1. /\ C \subseteq 1..Len(ms) /\ C2 \subseteq 1..Len(ms2)
        /\ \A x \in 1..Len(ms) : x \in C <=> Counted(w, ms, Q, R, x)
        /\ \A x \in 1..Len(ms) : x \in C2 <=> Counted(w, ms2, Q2, R2, x)
    BY ONLY <1>0 DEF CountedIn, Counted
  <1> HIDE DEF C, C2
  <1>2. ASSUME NEW p \in 1..Len(ms2) PROVE PendingOK(w, ms2, O2, Q2, R2, p)
    <2> SUFFICES ASSUME Exact(ms2, O2, p) PROVE ms2[p].pending = Waits(ms2, C2, p)
      BY DEF PendingOK, C2
    <2>0. p \in 1..Len(ms)
      BY <1>0
    <2>3. \/ ms2[p].pending = Waits(ms2, CountedIn(w, ms2, Q2, R2), p)
          \/ /\ Exact(ms, O, p) /\ ms2[p].pending = ms[p].pending
             /\ \A x \in 1..Len(ms) : Has(ms[x].parents, p) => (Counted(w, ms, Q, R, x) <=> Counted(w, ms2, Q2, R2, x))
      BY <2>0 DEF KeepsPending
    <2>1. CASE ms2[p].pending = Waits(ms2, CountedIn(w, ms2, Q2, R2), p)
      BY <2>1 DEF C2
    <2>2. CASE /\ Exact(ms, O, p) /\ ms2[p].pending = ms[p].pending
               /\ \A x \in 1..Len(ms) : Has(ms[x].parents, p) => (Counted(w, ms, Q, R, x) <=> Counted(w, ms2, Q2, R2, x))
      <3>1. \A x \in C : Has(ms[x].parents, p) => x \in C2 /\ ms2[x].parents = ms[x].parents
        BY ONLY <1>0, <1>1, <2>2
      <3>2. \A x \in C2 : Has(ms2[x].parents, p) => x \in C /\ ms2[x].parents = ms[x].parents
        BY ONLY <1>0, <1>1, <2>2
      <3>3. Waits(ms2, C2, p) = Waits(ms, C, p)
        <4>1. C \in SUBSET (1..Len(ms)) /\ C2 \in SUBSET (1..Len(ms2)) /\ p \in Nat
          BY ONLY <1>1, <1>00, <2>0
        <4>2. SameTold(ms, C, ms2, C2, p)
          BY ONLY <3>1, <3>2 DEF SameTold
        <4> QED BY ONLY <4>1, <4>2, ms \in Seq(ModRec), ms2 \in Seq(ModRec), WaitsSame
      <3>4. ms[p].pending = Waits(ms, C, p)
        BY <2>0, <2>2 DEF C, Counting, PendingOK
      <3> QED BY <2>2, <3>3, <3>4
    <2> QED BY <2>1, <2>2, <2>3
  <1>3. ASSUME NEW p \in 1..Len(ms2) PROVE WaitsOn(ms2, Q2, p)
    <2> SUFFICES ASSUME Waiting(ms2, p), p \notin Q2 PROVE ms2[p].pending # 0
      BY DEF WaitsOn
    <2>0. p \in 1..Len(ms)
      BY <1>0
    <2>1. WaitsOn(ms, Q, p)
      BY <2>0 DEF Counting
    <2> QED BY <2>0, <2>1 DEF WaitsOn, KeepsWaiting
  <1>4. ASSUME NEW p \in 1..Len(ms2) PROVE FreeOK(w, ms2, Q2, R2, p)
    <2> SUFFICES ASSUME p \in Q2, ms2[p].status = "async", NEW x \in C2, Has(ms2[x].parents, p) PROVE FALSE
      BY DEF FreeOK, C2
    <2>1. p \in 1..Len(ms) /\ x \in 1..Len(ms) /\ Has(ms[x].parents, p)
      BY <1>0, <1>1
    <2>2. p \in Q /\ ms[p].status = "async" /\ x \in C
      BY <1>1, <2>1 DEF KeepsFree
    <2>3. FreeOK(w, ms, Q, R, p)
      BY <2>1 DEF Counting
    <2> QED BY ONLY <2>1, <2>2, <2>3 DEF FreeOK, C
  <1> QED BY ONLY <1>2, <1>3, <1>4 DEF Counting

(* A step that changes nothing that is counted.                            *)
LEMMA CountSame ==
    ASSUME NEW w, NEW ms \in Seq(ModRec), NEW ms2 \in Seq(ModRec), Len(ms2) = Len(ms), RootsOK(ms), ParentsIn(ms),
           \A x \in 1..Len(ms) : Kept(ms[x], ms2[x]),
           NEW O, NEW B, NEW Q, NEW R, NEW jb, NEW aw, NEW ck, Count(w, ms, O, B, Q, R, jb, aw, ck),
           NEW B2, NEW jb2, NEW aw2, RunOK(ms, B2, aw2, jb2), \A k \in 1..Len(jb2) : jb2[k][1] \in 1..Len(ms)
    PROVE  Count(w, ms2, O, B2, Q, R, jb2, aw2, ck)
  <1>1. Each(ms, O, Q, R, ck) /\ Reporting(ms, Q, R, ck) /\ Counting(w, ms, O, Q, R)
    BY DEF Count
  <1>2. ASSUME NEW x \in 1..Len(ms), ms[x].status \in Ended
        PROVE  ms2[x].root = ms[x].root /\ ms2[ms[x].root].err = ms[ms[x].root].err
    BY <1>2, EndedRoot DEF Kept
  <1>3. \A x \in 1..Len(ms) : ModOK(ms2, ck, x)
    <2> SUFFICES ASSUME NEW x \in 1..Len(ms) PROVE ModOK(ms2, ck, x)
      OBVIOUS
    <2>1. ModOK(ms, ck, x) /\ Kept(ms[x], ms2[x])
      BY <1>1 DEF Each
    <2>2. ms[x].status = "evaluated" => ms2[ms2[x].root].err = ms[ms[x].root].err
      BY <1>2 DEF Ended
    <2> QED BY ONLY <2>1, <2>2 DEF ModOK, Kept
  <1>4. \A x \in 1..Len(ms) : OpenOK(ms2, O, x) /\ QueueOK(ms2, Q, R, x)
    BY <1>1 DEF Each, OpenOK, QueueOK, Kept
  <1>5. Each(ms2, O, Q, R, ck)
    BY ONLY <1>3, <1>4, Len(ms2) = Len(ms) DEF Each
  <1>6. Reporting(ms2, Q, R, ck)
    BY ONLY <1>1, Len(ms2) = Len(ms), \A x \in 1..Len(ms) : Kept(ms[x], ms2[x]) DEF Reporting, ReportOK, Kept
  <1>7. \A x \in 1..Len(ms) : Counted(w, ms2, Q, R, x) <=> Counted(w, ms, Q, R, x)
    BY DEF Counted, Early, Kept
  <1>8. ASSUME NEW p \in 1..Len(ms) PROVE Waiting(ms2, p) <=> Waiting(ms, p)
    <2>1. ms[p].status = "async" => ms2[ms2[p].root].err = ms[ms[p].root].err
      BY <1>2 DEF Ended
    <2>2. Kept(ms[p], ms2[p])
      OBVIOUS
    <2> QED BY ONLY <2>1, <2>2 DEF Waiting, Kept
  <1>9. \A p \in 1..Len(ms) : ms2[p].pending = ms[p].pending /\ ms2[p].status = ms[p].status /\ ms2[p].parents = ms[p].parents
    BY DEF Kept
  <1>10. Counting(w, ms2, O, Q, R)
    <2>1. \A p \in 1..Len(ms) : Exact(ms2, O, p) => Exact(ms, O, p)
      BY <1>8 DEF Exact
    <2>2. KeepsPending(w, ms, O, Q, R, ms2, O, Q, R)
      BY <1>7, <1>9, <2>1 DEF KeepsPending
    <2>3. KeepsWaiting(ms, Q, ms2, Q)
      BY <1>8, <1>9 DEF KeepsWaiting
    <2>4. KeepsFree(w, ms, Q, R, ms2, Q, R)
      BY <1>7, <1>9 DEF KeepsFree
    <2>5. SameParents(ms, ms2)
      BY <1>9 DEF SameParents
    <2> QED BY <1>1, <2>2, <2>3, <2>4, <2>5, CountingKept
  <1>11. RunOK(ms2, B2, aw2, jb2)
    BY RunKept DEF Kept
  <1> QED BY ONLY <1>5, <1>6, <1>10, <1>11 DEF Count
(* A step that is quiet.                                                   *)
LEMMA CountQuiet ==
    ASSUME NEW w, NEW ms \in Seq(ModRec), NEW ms2 \in Seq(ModRec), QuietMods(ms, ms2), RootsOK(ms), ParentsIn(ms),
           NEW O, NEW B, NEW Q, NEW R, NEW jb, NEW aw, NEW ck, Count(w, ms, O, B, Q, R, jb, aw, ck),
           O \subseteq 1..Len(ms), B \subseteq 1..Len(ms), Q \subseteq 1..Len(ms), R \subseteq 1..Len(ms),
           aw \subseteq 1..Len(ms), \A k \in 1..Len(jb) : jb[k][1] \in 1..Len(ms)
    PROVE  Count(w, ms2, O, B, Q, R, jb, aw, ck)
  <1> DEFINE C == CountedIn(w, ms, Q, R)
             C2 == CountedIn(w, ms2, Q, R)
  <1>1. /\ Each(ms, O, Q, R, ck) /\ RunOK(ms, B, aw, jb) /\ Reporting(ms, Q, R, ck) /\ Counting(w, ms, O, Q, R)
    BY DEF Count
  <1>2. /\ Len(ms) \in Nat /\ Len(ms2) \in Nat /\ Len(ms) <= Len(ms2)
        /\ \A x \in 1..Len(ms) : x \in 1..Len(ms2)
    <2>1. Len(ms) \in Nat /\ Len(ms2) \in Nat /\ Len(ms) <= Len(ms2)
      BY ModIs DEF QuietMods
    <2> QED BY ONLY <2>1
  <1>3. ASSUME NEW x \in 1..Len(ms)
        PROVE  /\ ms2[x].name = ms[x].name /\ ms2[x].runs = ms[x].runs /\ ms2[x].async = ms[x].async
               /\ ms2[x].timestamp = ms[x].timestamp /\ ms2[x].parents = ms[x].parents
               /\ ms2[x].pending = ms[x].pending /\ ms2[x].err = ms[x].err /\ ms2[x].root = ms[x].root
               /\ ms[x].status = ms2[x].status \/ (ms[x].status \in Fresh /\ ms2[x].status \in Fresh)
    BY DEF QuietMods, SameEval, SameShape
  <1>4. ASSUME NEW x \in 1..Len(ms2), x \notin 1..Len(ms)
        PROVE  /\ ms2[x].status = "unlinked" /\ ms2[x].runs = 0 /\ ms2[x].async = FALSE
               /\ ms2[x].parents = <<>> /\ ms2[x].err = 0
               /\ x \notin O /\ x \notin B /\ x \notin Q /\ x \notin R /\ x \notin aw
    <2>1. PICK n \in Names : IsNew(ms2[x], n)
      BY <1>4 DEF QuietMods
    <2> QED BY <1>4, <2>1 DEF IsNew
  <1>5. \A x \in 1..Len(ms2) : \A p : Has(ms2[x].parents, p) => x \in 1..Len(ms) /\ p \in 1..Len(ms) /\ Has(ms[x].parents, p)
    <2> SUFFICES ASSUME NEW x \in 1..Len(ms2), NEW p, Has(ms2[x].parents, p)
                 PROVE  x \in 1..Len(ms) /\ p \in 1..Len(ms) /\ Has(ms[x].parents, p)
      OBVIOUS
    <2>1. CASE x \notin 1..Len(ms)
      <3>1. ms2[x].parents = <<>>
        BY <1>4, <2>1
      <3> QED BY <3>1, EmptyHas
    <2>2. CASE x \in 1..Len(ms)
      <3>1. Has(ms[x].parents, p)
        BY <1>3, <2>2
      <3>2. p \in 1..Len(ms)
        BY <2>2, <3>1 DEF Has, ParentsIn
      <3> QED BY <2>2, <3>1, <3>2
    <2> QED BY <2>1, <2>2
  <1>6. \A s \in Fresh : s \notin {"evaluating", "async", "evaluated"}
    BY DEF Fresh
  <1>7. ASSUME NEW x \in 1..Len(ms), ms[x].status \in Ended
        PROVE  ms2[ms[x].root].err = ms[ms[x].root].err
    <2>1. ms[x].root \in 1..Len(ms)
      BY <1>7, EndedRoot
    <2> QED BY <1>3, <2>1
  <1>8. \A x \in 1..Len(ms2) : ModOK(ms2, ck, x) /\ OpenOK(ms2, O, x) /\ QueueOK(ms2, Q, R, x)
    <2> SUFFICES ASSUME NEW x \in 1..Len(ms2) PROVE ModOK(ms2, ck, x) /\ OpenOK(ms2, O, x) /\ QueueOK(ms2, Q, R, x)
      OBVIOUS
    <2>1. CASE x \in 1..Len(ms)
      <3>0. /\ ms2[x].runs = ms[x].runs /\ ms2[x].async = ms[x].async
            /\ ms2[x].timestamp = ms[x].timestamp /\ ms2[x].parents = ms[x].parents
            /\ ms2[x].err = ms[x].err /\ ms2[x].root = ms[x].root
            /\ ms[x].status = ms2[x].status \/ (ms[x].status \in Fresh /\ ms2[x].status \in Fresh)
        BY ONLY <1>3, <2>1
      <3>1. ModOK(ms, ck, x) /\ OpenOK(ms, O, x) /\ QueueOK(ms, Q, R, x)
        BY <1>1, <2>1 DEF Each
      <3>2. ms[x].status = "evaluated" => ms2[ms[x].root].err = ms[ms[x].root].err
        BY <1>7, <2>1 DEF Ended
      <3>3. ModOK(ms2, ck, x)
        BY ONLY <1>6, <3>0, <3>1, <3>2 DEF ModOK
      <3>4. OpenOK(ms2, O, x)
        BY ONLY <1>6, <3>0, <3>1 DEF OpenOK
      <3>5. QueueOK(ms2, Q, R, x)
        BY ONLY <1>6, <3>0, <3>1 DEF QueueOK
      <3> QED BY <3>3, <3>4, <3>5
    <2>2. CASE x \notin 1..Len(ms)
      <3>1. /\ ms2[x].status = "unlinked" /\ ms2[x].runs = 0 /\ ~ms2[x].async
            /\ ms2[x].parents = <<>> /\ ms2[x].err = 0 /\ x \notin O /\ x \notin Q /\ x \notin R
        BY <1>4, <2>2
      <3>2. ModOK(ms2, ck, x)
        BY ONLY <3>1 DEF ModOK
      <3> QED BY ONLY <3>1, <3>2 DEF OpenOK, QueueOK
    <2> QED BY <2>1, <2>2
  <1>9. Each(ms2, O, Q, R, ck)
    BY ONLY <1>8 DEF Each
  <1>10. RunOK(ms2, B, aw, jb)
    <2>1. \A x \in 1..Len(ms2) : x \in B \/ x \in aw => ms2[x].runs = 1
      BY <1>1, <1>3 DEF RunOK
    <2>2. \A k \in 1..Len(jb) : ms2[jb[k][1]].runs = 1
      BY <1>1, <1>3 DEF RunOK
    <2> QED BY ONLY <2>1, <2>2 DEF RunOK
  <1>11. Reporting(ms2, Q, R, ck)
    <2> SUFFICES ASSUME NEW x \in 1..Len(ms2), NEW p \in 1..Len(ms2), Has(ms2[x].parents, p)
                 PROVE  ReportOK(ms2, Q, R, ck, x, p)
      BY DEF Reporting
    <2>1. x \in 1..Len(ms) /\ p \in 1..Len(ms) /\ Has(ms[x].parents, p)
      BY <1>5
    <2>2. ReportOK(ms, Q, R, ck, x, p)
      BY ONLY <1>1, <2>1 DEF Reporting
    <2> QED BY ONLY <1>3, <1>6, <2>1, <2>2 DEF ReportOK
  <1>12. ASSUME NEW p \in 1..Len(ms)
         PROVE  (Waiting(ms2, p) <=> Waiting(ms, p)) /\ (Exact(ms2, O, p) <=> Exact(ms, O, p))
    <2>1. ms[p].status = "async" => ms2[ms[p].root].err = ms[ms[p].root].err
      BY <1>7 DEF Ended
    <2>2. Waiting(ms2, p) <=> Waiting(ms, p)
      BY ONLY <1>3, <1>6, <2>1, p \in 1..Len(ms), SMTT(30) DEF Waiting
    <2> QED BY ONLY <2>2 DEF Exact
  <1>13. ASSUME NEW p \in 1..Len(ms2), p \notin 1..Len(ms)
         PROVE  ~Waiting(ms2, p) /\ ~Exact(ms2, O, p) /\ p \notin Q
    BY <1>4, <1>13 DEF Waiting, Exact
  <1>14. /\ C \subseteq 1..Len(ms) /\ C2 \subseteq 1..Len(ms2)
         /\ \A x \in 1..Len(ms) : x \in C2 <=> x \in C
         /\ \A x \in 1..Len(ms2) : x \in C2 => x \in 1..Len(ms)
    <2>1. \A x \in 1..Len(ms) : Counted(w, ms2, Q, R, x) <=> Counted(w, ms, Q, R, x)
      BY <1>3 DEF Counted, Early
    <2>2. \A x \in 1..Len(ms2) : Counted(w, ms2, Q, R, x) => x \in 1..Len(ms)
      BY <1>4 DEF Counted
    <2> QED BY <1>2, <2>1, <2>2, CountedIs
  <1>15. ASSUME NEW p \in 1..Len(ms) PROVE Waits(ms2, C2, p) = Waits(ms, C, p)
    <2>1. \A x \in C : Has(ms[x].parents, p) => x \in C2 /\ ms2[x].parents = ms[x].parents
      BY <1>3, <1>14
    <2>2. \A x \in C2 : Has(ms2[x].parents, p) => x \in C /\ ms2[x].parents = ms[x].parents
      BY <1>3, <1>14
    <2> HIDE DEF C, C2
    <2>3. SameTold(ms, C, ms2, C2, p)
      BY ONLY <2>1, <2>2 DEF SameTold
    <2>4. C \in SUBSET (1..Len(ms)) /\ C2 \in SUBSET (1..Len(ms2)) /\ p \in Nat
      BY ONLY <1>2, <1>14, p \in 1..Len(ms)
    <2> QED BY ONLY <2>3, <2>4, ms \in Seq(ModRec), ms2 \in Seq(ModRec), WaitsSame
  <1>16. ASSUME NEW p \in 1..Len(ms2)
         PROVE  PendingOK(w, ms2, O, Q, R, p) /\ WaitsOn(ms2, Q, p) /\ FreeOK(w, ms2, Q, R, p)
    <2>1. CASE p \notin 1..Len(ms)
      BY <1>13, <2>1 DEF PendingOK, WaitsOn, FreeOK
    <2>2. CASE p \in 1..Len(ms)
      <3>1. PendingOK(w, ms, O, Q, R, p) /\ WaitsOn(ms, Q, p) /\ FreeOK(w, ms, Q, R, p)
        BY ONLY <1>1, <2>2 DEF Counting
      <3>2. PendingOK(w, ms2, O, Q, R, p)
        BY ONLY <1>3, <1>12, <1>15, <2>2, <3>1 DEF PendingOK
      <3>3. WaitsOn(ms2, Q, p)
        BY ONLY <1>3, <1>12, <2>2, <3>1 DEF WaitsOn
      <3>4. FreeOK(w, ms2, Q, R, p)
        <4> SUFFICES ASSUME p \in Q, ms2[p].status = "async", NEW x \in C2, Has(ms2[x].parents, p) PROVE FALSE
          BY DEF FreeOK
        <4>1. ms[p].status = "async" /\ x \in C /\ Has(ms[x].parents, p)
          <5>1. x \in 1..Len(ms) /\ x \in C /\ Has(ms[x].parents, p)
            BY <1>5, <1>14
          <5> QED BY ONLY <1>3, <1>6, <2>2, <5>1, ms2[p].status = "async"
        <4> QED BY ONLY <3>1, <4>1, p \in Q DEF FreeOK
      <3> QED BY <3>2, <3>3, <3>4
    <2> QED BY <2>1, <2>2
  <1>17. Counting(w, ms2, O, Q, R)
    BY ONLY <1>16 DEF Counting
  <1> QED BY ONLY <1>9, <1>10, <1>11, <1>17 DEF Count
(* A module is entered.                                                    *)
LEMMA CountEnters ==
    ASSUME NEW w, NEW ms \in Seq(ModRec), NEW ms2 \in Seq(ModRec), RootsOK(ms), ParentsIn(ms),
           NEW d \in 1..Len(ms), ms[d].status = "linked", NEW i, Enters(ms, ms2, d, i, "evaluating"),
           NEW O, NEW B, NEW Q, NEW R, NEW jb, NEW aw, NEW ck, Count(w, ms, O, B, Q, R, jb, aw, ck),
           \A k \in 1..Len(jb) : jb[k][1] \in 1..Len(ms), NEW O2, O2 = O \cup {d}
    PROVE  Count(w, ms2, O2, B, Q, R, jb, aw, ck)
  <1>1. /\ Each(ms, O, Q, R, ck) /\ RunOK(ms, B, aw, jb) /\ Reporting(ms, Q, R, ck) /\ Counting(w, ms, O, Q, R)
    BY DEF Count
  <1>2. /\ Len(ms2) = Len(ms)
        /\ \A x \in 1..Len(ms) :
              /\ ms2[x].name = ms[x].name /\ ms2[x].runs = ms[x].runs /\ ms2[x].async = ms[x].async
              /\ ms2[x].timestamp = ms[x].timestamp /\ ms2[x].parents = ms[x].parents
              /\ ms2[x].err = ms[x].err /\ ms2[x].root = ms[x].root
        /\ \A x \in 1..Len(ms) : x # d => ms2[x].status = ms[x].status /\ ms2[x].pending = ms[x].pending
        /\ ms2[d].status = "evaluating" /\ ms2[d].pending = 0
    BY DEF Enters, OthersSame, SameMod, SameShape, SameEval
  <1>3. /\ ModOK(ms, ck, d) /\ OpenOK(ms, O, d) /\ QueueOK(ms, Q, R, d)
    BY <1>1 DEF Each
  <1>4. /\ ms[d].runs = 0 /\ ~ms[d].async /\ ms[d].parents = <<>> /\ ms[d].err = 0
        /\ d \notin O /\ d \notin Q /\ d \notin R
    BY ONLY <1>3, ms[d].status = "linked" DEF ModOK, OpenOK, QueueOK, Fresh
  <1>5. \A x \in 1..Len(ms) : ~Has(ms[x].parents, d)
    BY DEF Has, ParentsIn, Begun
  <1>6. ASSUME NEW x \in 1..Len(ms), ms[x].status \in Ended
        PROVE  ms2[ms[x].root].err = ms[ms[x].root].err
    <2>1. ms[x].root \in 1..Len(ms)
      BY <1>6, EndedRoot
    <2> QED BY <1>2, <2>1
  <1>7. \A x \in 1..Len(ms) : ModOK(ms2, ck, x) /\ OpenOK(ms2, O2, x) /\ QueueOK(ms2, Q, R, x)
    <2> SUFFICES ASSUME NEW x \in 1..Len(ms) PROVE ModOK(ms2, ck, x) /\ OpenOK(ms2, O2, x) /\ QueueOK(ms2, Q, R, x)
      OBVIOUS
    <2>1. CASE x = d
      <3>1. /\ ms2[x].runs = 0 /\ ~ms2[x].async /\ ms2[x].parents = <<>> /\ ms2[x].err = 0
            /\ ms2[x].status = "evaluating" /\ x \notin Q /\ x \notin R /\ x \in O2
        BY <1>2, <1>4, <2>1
      <3>2. ModOK(ms2, ck, x)
        BY ONLY <3>1 DEF ModOK, Fresh
      <3> QED BY ONLY <3>1, <3>2 DEF OpenOK, QueueOK
    <2>2. CASE x # d
      <3>1. ModOK(ms, ck, x) /\ OpenOK(ms, O, x) /\ QueueOK(ms, Q, R, x)
        BY <1>1 DEF Each
      <3>2. ms[x].status = "evaluated" => ms2[ms[x].root].err = ms[ms[x].root].err
        BY <1>6 DEF Ended
      <3>3. /\ ms2[x].runs = ms[x].runs /\ ms2[x].async = ms[x].async
            /\ ms2[x].timestamp = ms[x].timestamp /\ ms2[x].parents = ms[x].parents
            /\ ms2[x].err = ms[x].err /\ ms2[x].root = ms[x].root /\ ms2[x].status = ms[x].status
            /\ (x \in O2 <=> x \in O)
        BY <1>2, <2>2
      <3>4. ModOK(ms2, ck, x)
        BY ONLY <3>1, <3>2, <3>3 DEF ModOK
      <3>5. OpenOK(ms2, O2, x)
        BY ONLY <3>1, <3>3 DEF OpenOK
      <3>6. QueueOK(ms2, Q, R, x)
        BY ONLY <3>1, <3>3 DEF QueueOK
      <3> QED BY <3>4, <3>5, <3>6
    <2> QED BY <2>1, <2>2
  <1>8. Each(ms2, O2, Q, R, ck)
    BY ONLY <1>2, <1>7 DEF Each
  <1>9. RunOK(ms2, B, aw, jb)
    BY <1>1, <1>2, RunKept
  <1>10. Reporting(ms2, Q, R, ck)
    <2> SUFFICES ASSUME NEW x \in 1..Len(ms), NEW p \in 1..Len(ms), Has(ms2[x].parents, p)
                 PROVE  ReportOK(ms2, Q, R, ck, x, p)
      BY <1>2 DEF Reporting
    <2>1. Has(ms[x].parents, p) /\ p # d
      BY <1>2, <1>5
    <2>2. x # d
      BY <1>4, <2>1, EmptyHas
    <2>3. ReportOK(ms, Q, R, ck, x, p)
      BY <1>1, <2>1 DEF Reporting
    <2> QED BY ONLY <1>2, <2>1, <2>2, <2>3, x \in 1..Len(ms), p \in 1..Len(ms) DEF ReportOK
  <1>11. \A x \in 1..Len(ms) : Counted(w, ms2, Q, R, x) <=> Counted(w, ms, Q, R, x)
    BY <1>2 DEF Counted, Early
  <1>12. ASSUME NEW p \in 1..Len(ms), p # d
         PROVE  (Waiting(ms2, p) <=> Waiting(ms, p)) /\ (Exact(ms2, O2, p) => Exact(ms, O, p))
    <2>1. ms[p].status = "async" => ms2[ms[p].root].err = ms[ms[p].root].err
      BY <1>6 DEF Ended
    <2>2. Waiting(ms2, p) <=> Waiting(ms, p)
      BY ONLY <1>2, <1>12, <2>1, p \in 1..Len(ms) DEF Waiting
    <2> QED BY ONLY <1>12, <2>2, O2 = O \cup {d} DEF Exact
  <1>13. ~Waiting(ms2, d)
    BY <1>2, <1>4 DEF Waiting
  <1>14. ms2[d].pending = Waits(ms2, CountedIn(w, ms2, Q, R), d)
    <2>1. CountedIn(w, ms2, Q, R) \subseteq 1..Len(ms2)
      BY CountedIs
    <2>2. \A x \in CountedIn(w, ms2, Q, R) : ~Has(ms2[x].parents, d)
      BY <1>2, <1>5, <2>1
    <2>3. Waits(ms2, CountedIn(w, ms2, Q, R), d) = 0
      BY <2>1, <2>2, WaitsNone
    <2> QED BY <1>2, <2>3
  <1>15. Counting(w, ms2, O2, Q, R)
    <2>1. KeepsPending(w, ms, O, Q, R, ms2, O2, Q, R)
      BY <1>2, <1>11, <1>12, <1>14 DEF KeepsPending
    <2>2. KeepsWaiting(ms, Q, ms2, Q)
      BY <1>2, <1>12, <1>13 DEF KeepsWaiting
    <2>3. KeepsFree(w, ms, Q, R, ms2, Q, R)
      BY <1>2, <1>11 DEF KeepsFree
    <2>4. SameParents(ms, ms2)
      BY <1>2 DEF SameParents
    <2> QED BY <1>1, <2>1, <2>2, <2>3, <2>4, CountingKept
  <1> QED BY ONLY <1>8, <1>9, <1>10, <1>15 DEF Count
(* A module learns of a request.                                           *)
LEMMA CountAsks ==
    ASSUME NEW w, NEW ms \in Seq(ModRec), NEW ms2 \in Seq(ModRec), RootsOK(ms), ParentsIn(ms),
           NEW d \in 1..Len(ms), NEW y \in 1..Len(ms), NEW a, Asks(ms, ms2, d, y, a),
           NEW O, NEW B, NEW Q, NEW R, NEW jb, NEW aw, NEW ck, Count(w, ms, O, B, Q, R, jb, aw, ck),
           \A k \in 1..Len(jb) : jb[k][1] \in 1..Len(ms), d \in O, y \notin Q, y \notin R
    PROVE  Count(w, ms2, O, B, Q, R, jb, aw, ck)
  <1>1. /\ Each(ms, O, Q, R, ck) /\ RunOK(ms, B, aw, jb) /\ Reporting(ms, Q, R, ck) /\ Counting(w, ms, O, Q, R)
    BY DEF Count
  <1>2. /\ Len(ms2) = Len(ms)
        /\ \A x \in 1..Len(ms) :
              /\ ms2[x].name = ms[x].name /\ ms2[x].status = ms[x].status /\ ms2[x].runs = ms[x].runs
              /\ ms2[x].async = ms[x].async /\ ms2[x].timestamp = ms[x].timestamp
              /\ ms2[x].err = ms[x].err /\ ms2[x].root = ms[x].root
    BY DEF Asks, SameBase
  <1>3. \A x \in 1..Len(ms) :
           /\ x = d /\ ms[y].async => ms2[x].pending = ms[x].pending + 1
           /\ x # d \/ ~ms[y].async => ms2[x].pending = ms[x].pending
           /\ x = y /\ ms[y].async => ms2[x].parents = Append(ms[x].parents, d)
           /\ x # y \/ ~ms[y].async => ms2[x].parents = ms[x].parents
    BY DEF Asks
  <1>4. CASE ~ms[y].async
    <2>1. \A x \in 1..Len(ms) : Kept(ms[x], ms2[x])
      BY ONLY <1>2, <1>3, <1>4 DEF Kept
    <2> QED BY ONLY <1>1, <1>2, <2>1, ms \in Seq(ModRec), ms2 \in Seq(ModRec), RootsOK(ms), ParentsIn(ms),
                    Count(w, ms, O, B, Q, R, jb, aw, ck), \A k \in 1..Len(jb) : jb[k][1] \in 1..Len(ms), CountSame
  <1>5. CASE ms[y].async
    <2>1. ModOK(ms, ck, y) /\ ModOK(ms, ck, d) /\ OpenOK(ms, O, d) /\ QueueOK(ms, Q, R, d)
      BY <1>1 DEF Each
    <2>2. /\ ms[y].status \notin Fresh /\ ms[y].timestamp < ck
          /\ ms[d].status = "evaluating" /\ ms[d].runs = 0 /\ ~ms[d].async /\ d \notin Q
      BY ONLY <1>5, <2>1, d \in O DEF ModOK, OpenOK, QueueOK
    <2>3. \A x \in 1..Len(ms) : \A p : Has(ms2[x].parents, p) <=> Has(ms[x].parents, p) \/ (x = y /\ p = d)
      <3> SUFFICES ASSUME NEW x \in 1..Len(ms)
                   PROVE  \A p : Has(ms2[x].parents, p) <=> Has(ms[x].parents, p) \/ (x = y /\ p = d)
        OBVIOUS
      <3>1. CASE x # y
        BY ONLY <1>3, <3>1, x \in 1..Len(ms)
      <3>2. CASE x = y
        <4>1. ms[x].parents \in Seq(Nat) /\ d \in Nat
          BY ModIs
        <4>2. ms2[x].parents = Append(ms[x].parents, d)
          BY ONLY <1>3, <1>5, <3>2, x \in 1..Len(ms)
        <4>3. \A p : Has(Append(ms[x].parents, d), p) <=> Has(ms[x].parents, p) \/ p = d
          BY ONLY <4>1, AppendHas
        <4> QED BY ONLY <3>2, <4>2, <4>3
      <3> QED BY <3>1, <3>2
    <2>4. ASSUME NEW x \in 1..Len(ms), ms[x].status \in Ended
          PROVE  ms2[ms[x].root].err = ms[ms[x].root].err
      <3>1. ms[x].root \in 1..Len(ms)
        BY <2>4, EndedRoot
      <3> QED BY <1>2, <3>1
    <2>5. \A x \in 1..Len(ms) : ModOK(ms2, ck, x) /\ OpenOK(ms2, O, x) /\ QueueOK(ms2, Q, R, x)
      <3> SUFFICES ASSUME NEW x \in 1..Len(ms)
                   PROVE  ModOK(ms2, ck, x) /\ OpenOK(ms2, O, x) /\ QueueOK(ms2, Q, R, x)
        OBVIOUS
      <3>1. ModOK(ms, ck, x) /\ OpenOK(ms, O, x) /\ QueueOK(ms, Q, R, x)
        BY <1>1 DEF Each
      <3>2. ms[x].status = "evaluated" => ms2[ms[x].root].err = ms[ms[x].root].err
        BY <2>4 DEF Ended
      <3>3. /\ ms2[x].runs = ms[x].runs /\ ms2[x].async = ms[x].async
            /\ ms2[x].timestamp = ms[x].timestamp /\ ms2[x].status = ms[x].status
            /\ ms2[x].err = ms[x].err /\ ms2[x].root = ms[x].root
            /\ ms2[x].parents = ms[x].parents \/ (ms[x].status \notin Fresh /\ ms[x].async)
        BY <1>2, <1>3, <1>5, <2>2
      <3>4. ModOK(ms2, ck, x)
        BY ONLY <3>1, <3>2, <3>3 DEF ModOK
      <3>5. OpenOK(ms2, O, x)
        BY ONLY <3>1, <3>3 DEF OpenOK
      <3>6. QueueOK(ms2, Q, R, x)
        BY ONLY <3>1, <3>3 DEF QueueOK
      <3> QED BY <3>4, <3>5, <3>6
    <2>6. Each(ms2, O, Q, R, ck)
      BY ONLY <1>2, <2>5 DEF Each
    <2>7. RunOK(ms2, B, aw, jb)
      BY <1>1, <1>2, RunKept
    <2>8. Reporting(ms2, Q, R, ck)
      <3> SUFFICES ASSUME NEW x \in 1..Len(ms), NEW p \in 1..Len(ms), Has(ms2[x].parents, p)
                   PROVE  ReportOK(ms2, Q, R, ck, x, p)
        BY <1>2 DEF Reporting
      <3>1. CASE Has(ms[x].parents, p)
        <4>1. ReportOK(ms, Q, R, ck, x, p)
          BY <1>1, <3>1 DEF Reporting
        <4> QED BY ONLY <1>2, <4>1, x \in 1..Len(ms), p \in 1..Len(ms) DEF ReportOK
      <3>2. CASE x = y /\ p = d
        <4>1. /\ ms2[x].timestamp < ck /\ ~ms2[p].async /\ ms2[p].runs = 0 /\ ms2[x].async
          BY ONLY <1>2, <1>5, <2>2, <3>2, x \in 1..Len(ms), p \in 1..Len(ms)
        <4> QED BY ONLY <3>2, <4>1, y \notin Q, y \notin R DEF ReportOK
      <3> QED BY <2>3, <3>1, <3>2
    <2> DEFINE C == CountedIn(w, ms, Q, R)
    <2>9. C \in SUBSET (1..Len(ms)) /\ CountedIn(w, ms2, Q, R) = C /\ y \in C
      <3>1. \A x \in 1..Len(ms) : Early(w, ms2, Q, R, x) <=> Early(w, ms, Q, R, x)
        BY ONLY <1>2 DEF Early
      <3>2. CountedIn(w, ms2, Q, R) = C
        BY ONLY <1>2, <3>1 DEF CountedIn
      <3>3. y \in C
        BY <1>5 DEF CountedIn, Early
      <3> QED BY ONLY <3>2, <3>3, CountedIs DEF CountedIn
    <2> HIDE DEF C
    <2>10. /\ Waits(ms2, C, d) = Waits(ms, C, d) + 1
           /\ \A p : p # d => Waits(ms2, C, p) = Waits(ms, C, p)
      <3>1. d \in Nat
        BY ModIs
      <3>2. ms2[y].parents = Append(ms[y].parents, d) /\ \A x \in 1..Len(ms) : x # y => ms2[x].parents = ms[x].parents
        BY ONLY <1>3, <1>5, y \in 1..Len(ms)
      <3>3. Tells(ms, ms2, y, d)
        BY ONLY <1>2, <3>2 DEF Tells
      <3>4. OneMore(ms, ms2, C, d)
        BY ONLY <2>9, <3>1, <3>3, ms \in Seq(ModRec), ms2 \in Seq(ModRec), WaitsMore
      <3> QED BY ONLY <3>4 DEF OneMore
    <2>11. ASSUME NEW p \in 1..Len(ms)
           PROVE  PendingOK(w, ms2, O, Q, R, p) /\ WaitsOn(ms2, Q, p) /\ FreeOK(w, ms2, Q, R, p)
      <3>1. PendingOK(w, ms, O, Q, R, p) /\ WaitsOn(ms, Q, p) /\ FreeOK(w, ms, Q, R, p)
        BY <1>1 DEF Counting
      <3>2. ms[p].status = "async" => ms2[ms[p].root].err = ms[ms[p].root].err
        BY <2>4 DEF Ended
      <3>3. (Waiting(ms2, p) <=> Waiting(ms, p)) /\ (Exact(ms2, O, p) <=> Exact(ms, O, p))
        <4>1. Waiting(ms2, p) <=> Waiting(ms, p)
          BY ONLY <1>2, <3>2, p \in 1..Len(ms) DEF Waiting
        <4> QED BY ONLY <4>1 DEF Exact
      <3>4. CASE p = d
        <4>1. ms2[p].pending = ms[p].pending + 1
          BY ONLY <1>3, <1>5, <3>4, p \in 1..Len(ms)
        <4>2. ms[p].pending = Waits(ms, C, p)
          BY ONLY <3>1, <3>4, d \in O DEF PendingOK, Exact, C
        <4>3. PendingOK(w, ms2, O, Q, R, p)
          BY ONLY <2>9, <2>10, <3>4, <4>1, <4>2 DEF PendingOK
        <4>4. ~Waiting(ms2, p)
          BY ONLY <2>2, <3>3, <3>4 DEF Waiting
        <4> QED BY ONLY <2>2, <3>4, <4>3, <4>4 DEF WaitsOn, FreeOK
      <3>5. CASE p # d
        <4>1. ms2[p].pending = ms[p].pending
          BY ONLY <1>3, <3>5, p \in 1..Len(ms)
        <4>2. PendingOK(w, ms2, O, Q, R, p)
          <5>1. PendingOK(w, ms, O, Q, R, p) <=> (Exact(ms, O, p) => ms[p].pending = Waits(ms, C, p))
            BY ONLY TRUE DEF PendingOK, C
          <5> QED BY ONLY <2>9, <2>10, <3>1, <3>3, <3>5, <4>1, <5>1 DEF PendingOK
        <4>3. WaitsOn(ms2, Q, p)
          BY ONLY <3>1, <3>3, <4>1 DEF WaitsOn
        <4>4. FreeOK(w, ms2, Q, R, p)
          <5> SUFFICES ASSUME p \in Q, ms2[p].status = "async", NEW x \in CountedIn(w, ms2, Q, R), Has(ms2[x].parents, p)
                       PROVE  FALSE
            BY DEF FreeOK
          <5>1. x \in C /\ x \in 1..Len(ms)
            BY <2>9
          <5>2. Has(ms[x].parents, p)
            BY <2>3, <3>5, <5>1
          <5>3. ms[p].status = "async"
            BY <1>2
          <5> QED BY ONLY <3>1, <5>1, <5>2, <5>3, p \in Q DEF FreeOK, C
        <4> QED BY <4>2, <4>3, <4>4
      <3> QED BY <3>4, <3>5
    <2>12. Counting(w, ms2, O, Q, R)
      BY ONLY <1>2, <2>11 DEF Counting
    <2> QED BY ONLY <2>6, <2>7, <2>8, <2>12 DEF Count
  <1> QED BY <1>4, <1>5
(* A module that has no more requests starts, or waits for them.           *)
LEMMA CountStarts ==
    ASSUME NEW w, NEW ms \in Seq(ModRec), NEW ms2 \in Seq(ModRec), RootsOK(ms), ParentsIn(ms),
           NEW d \in 1..Len(ms), NEW n \in {0, 1}, NEW wt \in BOOLEAN, NEW ck \in Nat, NEW ck2 \in Nat,
           Starts(ms, ms2, d, n, wt, ck), wt => ck2 = ck + 1, ~wt => ck2 = ck,
           NEW O, NEW B, NEW Q, NEW R, NEW jb, NEW aw, Count(w, ms, O, B, Q, R, jb, aw, ck),
           \A k \in 1..Len(jb) : jb[k][1] \in 1..Len(ms), d \in O,
           NEW O2, O2 = O \ {d}, NEW B2,
           n = 0 => ms[d].pending # 0 /\ wt /\ B2 = B,
           n = 1 => ms[d].pending = 0 /\ B2 = B \cup {d}
    PROVE  Count(w, ms2, O2, B2, Q, R, jb, aw, ck2)
  <1>1. /\ Each(ms, O, Q, R, ck) /\ RunOK(ms, B, aw, jb) /\ Reporting(ms, Q, R, ck) /\ Counting(w, ms, O, Q, R)
    BY DEF Count
  <1>2. /\ Len(ms2) = Len(ms)
        /\ \A x \in 1..Len(ms) :
              /\ ms2[x].name = ms[x].name /\ ms2[x].status = ms[x].status
              /\ ms2[x].err = ms[x].err /\ ms2[x].root = ms[x].root
              /\ ms2[x].parents = ms[x].parents /\ ms2[x].pending = ms[x].pending
        /\ \A x \in 1..Len(ms) : x # d =>
              ms2[x].runs = ms[x].runs /\ ms2[x].async = ms[x].async /\ ms2[x].timestamp = ms[x].timestamp
    BY DEF Starts, OthersSame, SameMod, SameShape, SameEval
  <1>3. /\ ms2[d].runs = ms[d].runs + n
        /\ wt => ms2[d].async = TRUE /\ ms2[d].timestamp = ck
        /\ ~wt => ms2[d].async = ms[d].async /\ ms2[d].timestamp = ms[d].timestamp
    BY DEF Starts
  <1>4. /\ ModOK(ms, ck, d) /\ OpenOK(ms, O, d) /\ QueueOK(ms, Q, R, d)
    BY <1>1 DEF Each
  <1>5. /\ ms[d].status = "evaluating" /\ ms[d].runs = 0 /\ ~ms[d].async /\ ms[d].parents = <<>>
        /\ ms[d].err = 0 /\ d \notin Q /\ d \notin R
    BY ONLY <1>4, d \in O DEF ModOK, OpenOK, QueueOK
  <1>6. /\ ms2[d].runs = n /\ (wt => ms2[d].async /\ ms2[d].timestamp = ck) /\ (~wt => ~ms2[d].async)
    <2>1. ms2[d].runs = n
      BY ONLY <1>3, <1>5, n \in {0, 1}
    <2> QED BY ONLY <1>3, <1>5, <2>1
  <1>7. /\ n = 0 => wt
        /\ ck < ck2 \/ (~wt /\ ck2 = ck)
        /\ ck <= ck2
    <2>1. n = 0 => wt
      OBVIOUS
    <2>2. ck < ck2 \/ (~wt /\ ck2 = ck)
      OBVIOUS
    <2>3. ck <= ck2
      OBVIOUS
    <2> QED BY ONLY <2>1, <2>2, <2>3
  <1>8. \A i \in Nat : i < ck => i < ck2
    BY ONLY <1>7, ck \in Nat, ck2 \in Nat
  <1>9. \A x \in 1..Len(ms) : ms[x].timestamp \in Nat /\ ms[x].runs \in Nat
    BY ModIs
  <1>10. ASSUME NEW x \in 1..Len(ms), ms[x].status \in Ended
         PROVE  ms2[ms[x].root].err = ms[ms[x].root].err
    <2>1. ms[x].root \in 1..Len(ms)
      BY <1>10, EndedRoot
    <2> QED BY <1>2, <2>1
  <1>11. \A x \in 1..Len(ms) : ModOK(ms2, ck2, x) /\ OpenOK(ms2, O2, x) /\ QueueOK(ms2, Q, R, x)
    <2> SUFFICES ASSUME NEW x \in 1..Len(ms) PROVE ModOK(ms2, ck2, x) /\ OpenOK(ms2, O2, x) /\ QueueOK(ms2, Q, R, x)
      OBVIOUS
    <2>1. CASE x = d
      <3>1. /\ ms2[x].status = "evaluating" /\ ms2[x].runs = n /\ (n = 0 => ms2[x].async) /\ ms2[x].err = 0
            /\ ms2[x].parents = <<>> /\ x \notin Q /\ x \notin R /\ x \notin O2
        BY <1>2, <1>5, <1>6, <1>7, <2>1
      <3>2. ms2[x].async => ms2[x].timestamp < ck2
        BY ONLY <1>6, <1>7, <2>1
      <3>3. ms2[x].runs <= 1 /\ (ms2[x].runs = 1 \/ ms2[x].async)
        BY ONLY <3>1, n \in {0, 1}
      <3>4. ModOK(ms2, ck2, x)
        BY ONLY <3>1, <3>2, <3>3 DEF ModOK, Fresh
      <3> QED BY ONLY <3>1, <3>3, <3>4 DEF OpenOK, QueueOK
    <2>2. CASE x # d
      <3>1. ModOK(ms, ck, x) /\ OpenOK(ms, O, x) /\ QueueOK(ms, Q, R, x)
        BY <1>1 DEF Each
      <3>2. ms[x].status = "evaluated" => ms2[ms[x].root].err = ms[ms[x].root].err
        BY <1>10 DEF Ended
      <3>3. /\ ms2[x].runs = ms[x].runs /\ ms2[x].async = ms[x].async
            /\ ms2[x].timestamp = ms[x].timestamp /\ ms2[x].parents = ms[x].parents
            /\ ms2[x].err = ms[x].err /\ ms2[x].root = ms[x].root /\ ms2[x].status = ms[x].status
            /\ (x \in O2 <=> x \in O)
        BY <1>2, <2>2
      <3>4. ms[x].timestamp < ck => ms[x].timestamp < ck2
        BY ONLY <1>8, <1>9, x \in 1..Len(ms)
      <3>5. ModOK(ms2, ck2, x)
        BY ONLY <3>1, <3>2, <3>3, <3>4 DEF ModOK
      <3>6. OpenOK(ms2, O2, x)
        BY ONLY <3>1, <3>3 DEF OpenOK
      <3>7. QueueOK(ms2, Q, R, x)
        BY ONLY <3>1, <3>3 DEF QueueOK
      <3> QED BY <3>5, <3>6, <3>7
    <2> QED BY <2>1, <2>2
  <1>12. Each(ms2, O2, Q, R, ck2)
    BY ONLY <1>2, <1>11 DEF Each
  <1>13. RunOK(ms2, B2, aw, jb)
    <2>1. d \notin B /\ d \notin aw /\ \A k \in 1..Len(jb) : jb[k][1] # d
      BY ONLY <1>1, <1>5, d \in 1..Len(ms) DEF RunOK
    <2>2. \A x \in 1..Len(ms) : x \in B2 => x \in B \/ (x = d /\ n = 1)
      OBVIOUS
    <2>3. \A x \in 1..Len(ms2) : x \in B2 \/ x \in aw => ms2[x].runs = 1
      BY ONLY <1>1, <1>2, <1>6, <2>1, <2>2 DEF RunOK
    <2>4. \A k \in 1..Len(jb) : ms2[jb[k][1]].runs = 1
      BY <1>1, <1>2, <2>1 DEF RunOK
    <2> QED BY ONLY <2>3, <2>4 DEF RunOK
  <1>14. ASSUME NEW x \in 1..Len(ms), Has(ms[x].parents, d)
         PROVE  x # d /\ ms[x].timestamp < ck /\ ~(ms[x].err # 0 /\ ~ms[x].async) /\ x \notin Q /\ x \notin R
                /\ (n = 1 => ~ms[x].async)
    <2>1. ReportOK(ms, Q, R, ck, x, d)
      BY <1>1, <1>14 DEF Reporting
    <2>2. x # d
      BY <1>5, <1>14, EmptyHas
    <2>3. ms[x].timestamp < ck /\ ~(ms[x].err # 0 /\ ~ms[x].async) /\ x \notin Q /\ x \notin R
      BY ONLY <1>5, <2>1 DEF ReportOK
    <2>4. n = 1 => ~ms[x].async
      <3> SUFFICES ASSUME n = 1, ms[x].async PROVE FALSE
        OBVIOUS
      <3>1. x \in CountedIn(w, ms, Q, R)
        BY <2>3 DEF CountedIn, Early
      <3>2. PendingOK(w, ms, O, Q, R, d) /\ Exact(ms, O, d)
        BY <1>1 DEF Counting, Exact
      <3>3. Waits(ms, CountedIn(w, ms, Q, R), d) = 0
        BY <3>2 DEF PendingOK
      <3>4. CountedIn(w, ms, Q, R) \subseteq 1..Len(ms)
        BY CountedIs
      <3>5. \A z \in CountedIn(w, ms, Q, R) : ~Has(ms[z].parents, d)
        BY <3>3, <3>4, WaitsNone
      <3> QED BY ONLY <1>14, <3>1, <3>5
    <2> QED BY <2>2, <2>3, <2>4
  <1>15. Reporting(ms2, Q, R, ck2)
    <2> SUFFICES ASSUME NEW x \in 1..Len(ms), NEW p \in 1..Len(ms), Has(ms2[x].parents, p)
                 PROVE  ReportOK(ms2, Q, R, ck2, x, p)
      BY <1>2 DEF Reporting
    <2>1. Has(ms[x].parents, p) /\ ReportOK(ms, Q, R, ck, x, p)
      BY <1>1, <1>2 DEF Reporting
    <2>2. x # d
      BY <1>5, <2>1, EmptyHas
    <2>3. ms[x].timestamp < ck => ms[x].timestamp < ck2
      BY ONLY <1>8, <1>9, x \in 1..Len(ms)
    <2>4. ms2[x].timestamp = ms[x].timestamp /\ ms2[x].async = ms[x].async /\ ms2[x].err = ms[x].err
      BY <1>2, <2>2
    <2>5. CASE p = d
      <3>1. ms[x].timestamp < ck /\ ~(ms[x].err # 0 /\ ~ms[x].async) /\ x \notin Q /\ x \notin R /\ (n = 1 => ~ms[x].async)
        BY <1>14, <2>1, <2>5
      <3>2. ms[x].async => ms2[p].runs = 0
        BY ONLY <1>6, <2>5, <3>1, n \in {0, 1}
      <3>3. ms2[p].async => ms[x].timestamp < ms2[p].timestamp
        BY ONLY <1>6, <2>5, <3>1
      <3> QED BY ONLY <2>3, <2>4, <3>1, <3>2, <3>3 DEF ReportOK
    <2>6. CASE p # d
      <3>1. /\ ms2[p].runs = ms[p].runs /\ ms2[p].async = ms[p].async /\ ms2[p].timestamp = ms[p].timestamp
            /\ ms2[p].err = ms[p].err /\ ms2[p].status = ms[p].status
        BY <1>2, <2>6
      <3> QED BY ONLY <2>1, <2>3, <2>4, <3>1 DEF ReportOK
    <2> QED BY <2>5, <2>6
  <1>16. \A x \in 1..Len(ms) : x # d => (Counted(w, ms2, Q, R, x) <=> Counted(w, ms, Q, R, x))
    BY <1>2 DEF Counted, Early
  <1>17. \A x, p \in 1..Len(ms) : Has(ms[x].parents, p) => (Counted(w, ms, Q, R, x) <=> Counted(w, ms2, Q, R, x))
    BY <1>5, <1>16, EmptyHas
  <1>18. ASSUME NEW p \in 1..Len(ms), p # d
         PROVE  (Waiting(ms2, p) <=> Waiting(ms, p)) /\ (Exact(ms2, O2, p) => Exact(ms, O, p))
    <2>1. ms[p].status = "async" => ms2[ms[p].root].err = ms[ms[p].root].err
      BY <1>10 DEF Ended
    <2>2. Waiting(ms2, p) <=> Waiting(ms, p)
      BY ONLY <1>2, <1>18, <2>1, p \in 1..Len(ms) DEF Waiting
    <2> QED BY ONLY <1>18, <2>2, O2 = O \ {d} DEF Exact
  <1>19. Waiting(ms2, d) => n = 0
    BY ONLY <1>6, n \in {0, 1} DEF Waiting
  <1>20. Exact(ms2, O2, d) => Exact(ms, O, d)
    BY DEF Exact
  <1>21. KeepsPending(w, ms, O, Q, R, ms2, O2, Q, R)
    BY <1>2, <1>17, <1>18, <1>20 DEF KeepsPending
  <1>22. KeepsWaiting(ms, Q, ms2, Q)
    <2>1. ASSUME NEW p \in 1..Len(ms), Waiting(ms2, p), p \notin Q
          PROVE  ms2[p].pending # 0 \/ (Waiting(ms, p) /\ p \notin Q /\ ms2[p].pending = ms[p].pending)
      <3>1. CASE p = d
        BY <1>2, <1>19, <2>1, <3>1
      <3>2. CASE p # d
        BY <1>2, <1>18, <2>1, <3>2
      <3> QED BY <3>1, <3>2
    <2> QED BY ONLY <2>1 DEF KeepsWaiting
  <1>23. KeepsFree(w, ms, Q, R, ms2, Q, R)
    BY <1>2, <1>17 DEF KeepsFree
  <1>24. SameParents(ms, ms2)
    BY <1>2 DEF SameParents
  <1>25. Counting(w, ms2, O2, Q, R)
    BY <1>1, <1>21, <1>22, <1>23, <1>24, CountingKept
  <1> QED BY ONLY <1>12, <1>13, <1>15, <1>25 DEF Count
(* A cycle is done.                                                        *)
LEMMA CountFinishes ==
    ASSUME NEW w, NEW ms \in Seq(ModRec), NEW ms2 \in Seq(ModRec), RootsOK(ms), ParentsIn(ms),
           NEW D, NEW r \in 1..Len(ms), r \in D \/ D = {}, Finishes(ms, ms2, D, r),
           NEW O, NEW B, NEW Q, NEW R, NEW jb, NEW aw, NEW ck, Count(w, ms, O, B, Q, R, jb, aw, ck),
           \A k \in 1..Len(jb) : jb[k][1] \in 1..Len(ms),
           \A x \in D : x \in 1..Len(ms) /\ ms[x].status = "evaluating" /\ x \notin O
    PROVE  Count(w, ms2, O, B, Q, R, jb, aw, ck)
  <1>1. /\ Each(ms, O, Q, R, ck) /\ RunOK(ms, B, aw, jb) /\ Reporting(ms, Q, R, ck) /\ Counting(w, ms, O, Q, R)
    BY DEF Count
  <1>2. /\ Len(ms2) = Len(ms)
        /\ \A x \in 1..Len(ms) :
              /\ ms2[x].name = ms[x].name /\ ms2[x].runs = ms[x].runs /\ ms2[x].async = ms[x].async
              /\ ms2[x].timestamp = ms[x].timestamp /\ ms2[x].err = ms[x].err
              /\ ms2[x].parents = ms[x].parents /\ ms2[x].pending = ms[x].pending
        /\ \A x \in 1..Len(ms) : x \notin D => ms2[x].status = ms[x].status /\ ms2[x].root = ms[x].root
        /\ \A x \in 1..Len(ms) : x \in D =>
              /\ ms2[x].root = r /\ (ms[x].async => ms2[x].status = "async")
              /\ (~ms[x].async => ms2[x].status = "evaluated")
    BY DEF Finishes, SameBase
  <1>3. \A x \in 1..Len(ms) : ModOK(ms, ck, x) /\ OpenOK(ms, O, x) /\ QueueOK(ms, Q, R, x)
    BY <1>1 DEF Each
  <1>4. \A x \in D : /\ x \in 1..Len(ms) /\ ms[x].err = 0 /\ x \notin O /\ x \notin Q /\ x \notin R /\ ms[x].runs <= 1
                     /\ ms[x].status = "evaluating" /\ (ms[x].runs = 1 \/ ms[x].async)
                     /\ (ms[x].async => ms[x].timestamp < ck)
    BY <1>3 DEF ModOK, OpenOK, QueueOK
  <1>5. ASSUME NEW x \in 1..Len(ms), ms[x].status \in Ended
        PROVE  ms2[ms[x].root].err = ms[ms[x].root].err
    <2>1. ms[x].root \in 1..Len(ms)
      BY <1>5, EndedRoot
    <2> QED BY <1>2, <2>1
  <1>6. \A x \in 1..Len(ms) : ModOK(ms2, ck, x) /\ OpenOK(ms2, O, x) /\ QueueOK(ms2, Q, R, x)
    <2> SUFFICES ASSUME NEW x \in 1..Len(ms) PROVE ModOK(ms2, ck, x) /\ OpenOK(ms2, O, x) /\ QueueOK(ms2, Q, R, x)
      OBVIOUS
    <2>0. /\ ms2[x].runs = ms[x].runs /\ ms2[x].async = ms[x].async
          /\ ms2[x].timestamp = ms[x].timestamp /\ ms2[x].parents = ms[x].parents /\ ms2[x].err = ms[x].err
      BY <1>2
    <2>1. CASE x \in D
      <3>1. /\ (ms2[x].status = "async" /\ ms2[x].async) \/ (ms2[x].status = "evaluated" /\ ~ms2[x].async /\ ms2[x].runs = 1)
            /\ ms2[x].err = 0 /\ ms2[x].runs <= 1 /\ (ms2[x].async => ms2[x].timestamp < ck)
            /\ x \notin O /\ x \notin Q /\ x \notin R
        BY ONLY <1>2, <1>4, <2>0, <2>1, x \in 1..Len(ms)
      <3>2. ModOK(ms2, ck, x)
        BY ONLY <3>1 DEF ModOK, Fresh
      <3> QED BY ONLY <3>1, <3>2 DEF OpenOK, QueueOK
    <2>2. CASE x \notin D
      <3>1. ModOK(ms, ck, x) /\ OpenOK(ms, O, x) /\ QueueOK(ms, Q, R, x)
        BY <1>3
      <3>2. ms[x].status = "evaluated" => ms2[ms[x].root].err = ms[ms[x].root].err
        BY <1>5 DEF Ended
      <3>3. ms2[x].status = ms[x].status /\ ms2[x].root = ms[x].root
        BY <1>2, <2>2
      <3>4. ModOK(ms2, ck, x)
        BY ONLY <2>0, <3>1, <3>2, <3>3 DEF ModOK
      <3>5. OpenOK(ms2, O, x)
        BY ONLY <2>0, <3>1, <3>3 DEF OpenOK
      <3>6. QueueOK(ms2, Q, R, x)
        BY ONLY <2>0, <3>1, <3>3 DEF QueueOK
      <3> QED BY <3>4, <3>5, <3>6
    <2> QED BY <2>1, <2>2
  <1>7. Each(ms2, O, Q, R, ck)
    BY ONLY <1>2, <1>6 DEF Each
  <1>8. RunOK(ms2, B, aw, jb)
    BY <1>1, <1>2, RunKept
  <1>9. \A p \in 1..Len(ms) : /\ ms[p].status # "evaluating" => ms2[p].status = ms[p].status
                              /\ ms2[p].status = "evaluating" => ms[p].status = "evaluating"
    BY ONLY <1>2, <1>4
  <1>10. Reporting(ms2, Q, R, ck)
    <2> SUFFICES ASSUME NEW x \in 1..Len(ms), NEW p \in 1..Len(ms), Has(ms2[x].parents, p)
                 PROVE  ReportOK(ms2, Q, R, ck, x, p)
      BY <1>2 DEF Reporting
    <2>1. ReportOK(ms, Q, R, ck, x, p)
      BY <1>1, <1>2 DEF Reporting
    <2> QED BY ONLY <1>2, <1>9, <2>1, x \in 1..Len(ms), p \in 1..Len(ms) DEF ReportOK
  <1>11. \A x \in 1..Len(ms) : Counted(w, ms2, Q, R, x) <=> Counted(w, ms, Q, R, x)
    BY <1>2 DEF Counted, Early
  <1>12. ASSUME NEW p \in 1..Len(ms) PROVE (Waiting(ms2, p) => Waiting(ms, p)) /\ (Exact(ms2, O, p) => Exact(ms, O, p))
    <2>1. ms[p].status = "async" => ms2[ms[p].root].err = ms[ms[p].root].err
      BY <1>5 DEF Ended
    <2>2. Waiting(ms2, p) => Waiting(ms, p)
      BY ONLY <1>2, <1>4, <2>1, p \in 1..Len(ms) DEF Waiting
    <2> QED BY ONLY <2>2 DEF Exact
  <1>13. KeepsPending(w, ms, O, Q, R, ms2, O, Q, R)
    BY <1>2, <1>11, <1>12 DEF KeepsPending
  <1>14. KeepsWaiting(ms, Q, ms2, Q)
    BY <1>2, <1>12 DEF KeepsWaiting
  <1>15. KeepsFree(w, ms, Q, R, ms2, Q, R)
    BY <1>2, <1>4, <1>11 DEF KeepsFree
  <1>16. SameParents(ms, ms2)
    BY <1>2 DEF SameParents
  <1>17. Counting(w, ms2, O, Q, R)
    BY <1>1, <1>13, <1>14, <1>15, <1>16, CountingKept
  <1> QED BY ONLY <1>7, <1>8, <1>10, <1>17 DEF Count

(* An evaluation fails.                                                    *)
LEMMA CountFails ==
    ASSUME NEW w, NEW ms \in Seq(ModRec), NEW ms2 \in Seq(ModRec), RootsOK(ms), ParentsIn(ms),
           NEW D, NEW r \in D, NEW e \in Nat, e # 0, Fails(ms, ms2, D, e, r),
           NEW O, NEW B, NEW Q, NEW R, NEW jb, NEW aw, NEW ck, Count(w, ms, O, B, Q, R, jb, aw, ck),
           \A k \in 1..Len(jb) : jb[k][1] \in 1..Len(ms),
           \A x \in D : x \in 1..Len(ms) /\ ms[x].status = "evaluating",
           NEW O2, \A x \in 1..Len(ms) : x \in O2 <=> x \in O /\ x \notin D,
           NEW B2, B2 \subseteq B
    PROVE  Count(w, ms2, O2, B2, Q, R, jb, aw, ck)
  <1>1. /\ Each(ms, O, Q, R, ck) /\ RunOK(ms, B, aw, jb) /\ Reporting(ms, Q, R, ck) /\ Counting(w, ms, O, Q, R)
    BY DEF Count
  <1>2. /\ Len(ms2) = Len(ms)
        /\ \A x \in 1..Len(ms) :
              /\ ms2[x].name = ms[x].name /\ ms2[x].runs = ms[x].runs /\ ms2[x].async = ms[x].async
              /\ ms2[x].timestamp = ms[x].timestamp
              /\ ms2[x].parents = ms[x].parents /\ ms2[x].pending = ms[x].pending
        /\ \A x \in 1..Len(ms) : x \notin D =>
              ms2[x].status = ms[x].status /\ ms2[x].root = ms[x].root /\ ms2[x].err = ms[x].err
        /\ \A x \in 1..Len(ms) : x \in D => ms2[x].status = "evaluated" /\ ms2[x].root = r /\ ms2[x].err = e
    BY DEF Fails, SameBase
  <1>3. \A x \in 1..Len(ms) : ModOK(ms, ck, x) /\ OpenOK(ms, O, x) /\ QueueOK(ms, Q, R, x)
    BY <1>1 DEF Each
  <1>4. \A x \in D : /\ x \in 1..Len(ms) /\ x \notin Q /\ x \notin R /\ ms[x].runs <= 1
                     /\ ms[x].status = "evaluating" /\ (~ms[x].async => ms[x].parents = <<>>)
                     /\ (ms[x].async => ms[x].timestamp < ck)
    BY <1>3 DEF ModOK, OpenOK, QueueOK
  <1>5. ASSUME NEW x \in 1..Len(ms), ms[x].status \in Ended
        PROVE  ms2[ms[x].root].err = ms[ms[x].root].err
    <2>1. ms[x].root \in 1..Len(ms) /\ ms[ms[x].root].status \in Ended
      BY <1>5, EndedRoot
    <2>2. ms[x].root \notin D
      BY <1>4, <2>1 DEF Ended
    <2> QED BY <1>2, <2>1, <2>2
  <1>6. \A x \in 1..Len(ms) : ModOK(ms2, ck, x) /\ OpenOK(ms2, O2, x) /\ QueueOK(ms2, Q, R, x)
    <2> SUFFICES ASSUME NEW x \in 1..Len(ms) PROVE ModOK(ms2, ck, x) /\ OpenOK(ms2, O2, x) /\ QueueOK(ms2, Q, R, x)
      OBVIOUS
    <2>0. /\ ms2[x].runs = ms[x].runs /\ ms2[x].async = ms[x].async
          /\ ms2[x].timestamp = ms[x].timestamp /\ ms2[x].parents = ms[x].parents
      BY <1>2
    <2>1. CASE x \in D
      <3>1. ms2[r].err # 0
        BY <1>2, <1>4
      <3>2. /\ ms2[x].status = "evaluated" /\ ms2[x].err # 0 /\ ms2[x].runs <= 1
            /\ (ms2[x].async => ms2[x].timestamp < ck) /\ ms2[ms2[x].root].err # 0
            /\ x \notin O2 /\ x \notin Q /\ x \notin R
        BY <1>2, <1>4, <2>0, <2>1, <3>1
      <3>3. ModOK(ms2, ck, x)
        BY ONLY <3>2 DEF ModOK, Fresh
      <3> QED BY ONLY <3>2, <3>3 DEF OpenOK, QueueOK
    <2>2. CASE x \notin D
      <3>1. ModOK(ms, ck, x) /\ OpenOK(ms, O, x) /\ QueueOK(ms, Q, R, x)
        BY <1>3
      <3>2. ms[x].status = "evaluated" => ms2[ms[x].root].err = ms[ms[x].root].err
        BY <1>5 DEF Ended
      <3>3. /\ ms2[x].status = ms[x].status /\ ms2[x].root = ms[x].root /\ ms2[x].err = ms[x].err
            /\ (x \in O2 <=> x \in O)
        BY <1>2, <2>2
      <3>4. ModOK(ms2, ck, x)
        BY ONLY <2>0, <3>1, <3>2, <3>3 DEF ModOK
      <3>5. OpenOK(ms2, O2, x)
        BY ONLY <2>0, <3>1, <3>3 DEF OpenOK
      <3>6. QueueOK(ms2, Q, R, x)
        BY ONLY <2>0, <3>1, <3>3 DEF QueueOK
      <3> QED BY <3>4, <3>5, <3>6
    <2> QED BY <2>1, <2>2
  <1>7. Each(ms2, O2, Q, R, ck)
    BY ONLY <1>2, <1>6 DEF Each
  <1>8. RunOK(ms2, B2, aw, jb)
    <2>1. RunOK(ms2, B, aw, jb)
      BY <1>1, <1>2, RunKept
    <2> QED BY ONLY <2>1, B2 \subseteq B DEF RunOK
  <1>9. \A p \in 1..Len(ms) : /\ ms[p].status # "evaluating" => ms2[p].status = ms[p].status /\ ms2[p].err = ms[p].err
                              /\ ms2[p].status = "evaluating" => ms[p].status = "evaluating"
    BY ONLY <1>2, <1>4
  <1>10. Reporting(ms2, Q, R, ck)
    <2> SUFFICES ASSUME NEW x \in 1..Len(ms), NEW p \in 1..Len(ms), Has(ms2[x].parents, p)
                 PROVE  ReportOK(ms2, Q, R, ck, x, p)
      BY <1>2 DEF Reporting
    <2>1. ReportOK(ms, Q, R, ck, x, p)
      BY <1>1, <1>2 DEF Reporting
    <2>2. ms2[x].err # 0 /\ ~ms2[x].async => ms[x].err # 0 /\ ~ms[x].async
      <3>1. CASE x \in D
        <4>1. ms[x].async
          BY <1>2, <1>4, <3>1, EmptyHas
        <4> QED BY <1>2, <4>1
      <3>2. CASE x \notin D
        BY <1>2, <3>2
      <3> QED BY <3>1, <3>2
    <2> QED BY ONLY <1>2, <1>9, <2>1, <2>2, x \in 1..Len(ms), p \in 1..Len(ms) DEF ReportOK
  <1>11. \A x \in 1..Len(ms) : Counted(w, ms2, Q, R, x) <=> Counted(w, ms, Q, R, x)
    BY <1>2 DEF Counted, Early
  <1>12. ASSUME NEW p \in 1..Len(ms) PROVE (Waiting(ms2, p) => Waiting(ms, p)) /\ (Exact(ms2, O2, p) => Exact(ms, O, p))
    <2>1. ms[p].status = "async" => ms2[ms[p].root].err = ms[ms[p].root].err
      BY <1>5 DEF Ended
    <2>2. Waiting(ms2, p) => Waiting(ms, p)
      BY ONLY <1>2, <2>1, p \in 1..Len(ms) DEF Waiting
    <2> QED BY <2>2 DEF Exact
  <1>13. KeepsPending(w, ms, O, Q, R, ms2, O2, Q, R)
    BY <1>2, <1>11, <1>12 DEF KeepsPending
  <1>14. KeepsWaiting(ms, Q, ms2, Q)
    BY <1>2, <1>12 DEF KeepsWaiting
  <1>15. KeepsFree(w, ms, Q, R, ms2, Q, R)
    BY <1>2, <1>4, <1>11 DEF KeepsFree
  <1>16. SameParents(ms, ms2)
    BY <1>2 DEF SameParents
  <1>17. Counting(w, ms2, O2, Q, R)
    BY <1>1, <1>13, <1>14, <1>15, <1>16, CountingKept
  <1> QED BY ONLY <1>7, <1>8, <1>10, <1>17 DEF Count
(* Modules that wait for one that failed, fail.                            *)
NoneOpen(ms) == \A x \in 1..Len(ms) : ms[x].status # "evaluating"

(* The modules an error is passed on to wait.                              *)
LEMMA FailingAsync ==
    ASSUME NEW ms \in Seq(ModRec), ParentsIn(ms), NoneOpen(ms), NEW d \in 1..Len(ms), ms[d].status = "async"
    PROVE  \A x \in Failing(ms, d) : x \in 1..Len(ms) /\ ms[x].status = "async"
  <1> DEFINE S == {x \in 1..Len(ms) : ms[x].status = "async"}
  <1>1. d \in S
    OBVIOUS
  <1>2. ASSUME NEW x \in S \cap (1..Len(ms)), NEW j \in 1..Len(ms[x].parents)
        PROVE  ms[ms[x].parents[j]].status = "evaluated" \/ ms[x].parents[j] \in S
    <2>1. ms[x].parents[j] \in 1..Len(ms) /\ ms[ms[x].parents[j]].status \in Begun
      BY DEF ParentsIn
    <2>2. ms[ms[x].parents[j]].status # "evaluating"
      BY <2>1 DEF NoneOpen
    <2> QED BY <2>1, <2>2 DEF Begun
  <1>3. \A x \in S \cap (1..Len(ms)) : \A j \in 1..Len(ms[x].parents) :
           ms[ms[x].parents[j]].status = "evaluated" \/ ms[x].parents[j] \in S
    BY <1>2
  <1> HIDE DEF S
  <1>4. Failing(ms, d) \subseteq S
    BY <1>1, <1>3, FailingIs
  <1> QED BY <1>4 DEF S

Fail(ms, F) ==
    /\ F \subseteq 1..Len(ms)
    /\ \A x \in F : ms[x].status = "async"
    /\ \A x \in F : \A p \in 1..Len(ms) : Has(ms[x].parents, p) => p \in F \/ ms[p].status = "evaluated"

(* Failing is such a set.                                                  *)
LEMMA FailIs ==
    ASSUME NEW ms \in Seq(ModRec), ParentsIn(ms), NoneOpen(ms), NEW d \in 1..Len(ms), ms[d].status = "async"
    PROVE  Fail(ms, Failing(ms, d)) /\ d \in Failing(ms, d)
  <1>1. d \in Failing(ms, d) /\ Failing(ms, d) \subseteq 1..Len(ms)
    BY FailingIs
  <1>2. \A x \in Failing(ms, d) : ms[x].status = "async"
    BY FailingAsync
  <1>3. \A x \in Failing(ms, d) : \A j \in 1..Len(ms[x].parents) :
           ms[ms[x].parents[j]].status = "evaluated" \/ ms[x].parents[j] \in Failing(ms, d)
    BY FailingIs
  <1>4. \A x \in Failing(ms, d) : \A p \in 1..Len(ms) :
           Has(ms[x].parents, p) => p \in Failing(ms, d) \/ ms[p].status = "evaluated"
    BY ONLY <1>3 DEF Has
  <1> QED BY ONLY <1>1, <1>2, <1>4 DEF Fail

(* An error is passed on: none of these modules will run.                  *)
LEMMA CountRejects ==
    ASSUME NEW w, NEW ms \in Seq(ModRec), NEW ms2 \in Seq(ModRec), RootsOK(ms), ParentsIn(ms), NoneOpen(ms),
           NEW F, Fail(ms, F), NEW e \in Nat, e # 0, Rejects(ms, ms2, F, e),
           NEW B, NEW Q, NEW R, NEW jb, NEW aw, NEW ck, Count(w, ms, {}, B, Q, R, jb, aw, ck),
           NEW R2, \A x \in 1..Len(ms) : x \in R2 <=> x \in R /\ x \notin F,
           NEW B2, NEW jb2, NEW aw2, RunOK(ms, B2, aw2, jb2), \A k \in 1..Len(jb2) : jb2[k][1] \in 1..Len(ms)
    PROVE  Count(w, ms2, {}, B2, Q, R2, jb2, aw2, ck)
  <1>1. /\ Each(ms, {}, Q, R, ck) /\ Reporting(ms, Q, R, ck) /\ Counting(w, ms, {}, Q, R)
    BY DEF Count
  <1>2. /\ Len(ms2) = Len(ms)
        /\ \A x \in 1..Len(ms) :
              /\ ms2[x].name = ms[x].name /\ ms2[x].runs = ms[x].runs /\ ms2[x].root = ms[x].root
              /\ ms2[x].timestamp = ms[x].timestamp
              /\ ms2[x].parents = ms[x].parents /\ ms2[x].pending = ms[x].pending
        /\ \A x \in 1..Len(ms) : x \notin F =>
              ms2[x].status = ms[x].status /\ ms2[x].async = ms[x].async /\ ms2[x].err = ms[x].err
        /\ \A x \in 1..Len(ms) : x \in F => ms2[x].status = "evaluated" /\ ms2[x].async = FALSE /\ ms2[x].err = e
    BY DEF Rejects, SameBase
  <1>3. \A x \in 1..Len(ms) : ModOK(ms, ck, x) /\ OpenOK(ms, {}, x) /\ QueueOK(ms, Q, R, x)
    BY <1>1 DEF Each
  <1>4. /\ \A x \in F : x \in 1..Len(ms) /\ ms[x].status = "async" /\ ms[x].async /\ ms[x].runs <= 1
        /\ \A x \in F : \A p \in 1..Len(ms) : Has(ms[x].parents, p) => p \in F \/ ms[p].status = "evaluated"
        /\ \A x \in 1..Len(ms) : ms[x].status # "evaluating"
    BY <1>3 DEF Fail, ModOK, NoneOpen
  <1>5. ASSUME NEW x \in 1..Len(ms), ms[x].status \in Ended
        PROVE  ms2[ms[x].root].err = ms[ms[x].root].err \/ ms2[ms[x].root].err # 0
    <2>1. ms[x].root \in 1..Len(ms)
      BY <1>5, EndedRoot
    <2> QED BY <1>2, <2>1
  <1>6. \A x \in 1..Len(ms) : ModOK(ms2, ck, x) /\ OpenOK(ms2, {}, x) /\ QueueOK(ms2, Q, R2, x)
    <2> SUFFICES ASSUME NEW x \in 1..Len(ms) PROVE ModOK(ms2, ck, x) /\ OpenOK(ms2, {}, x) /\ QueueOK(ms2, Q, R2, x)
      OBVIOUS
    <2>0. /\ ms2[x].runs = ms[x].runs /\ ms2[x].timestamp = ms[x].timestamp
          /\ ms2[x].parents = ms[x].parents /\ ms2[x].root = ms[x].root
      BY <1>2
    <2>1. ModOK(ms, ck, x) /\ OpenOK(ms, {}, x) /\ QueueOK(ms, Q, R, x)
      BY <1>3
    <2>2. CASE x \in F
      <3>1. /\ ms2[x].status = "evaluated" /\ ms2[x].err # 0 /\ ms2[x].runs <= 1 /\ ~ms2[x].async
            /\ x \notin R2
        BY <1>2, <1>4, <2>0, <2>2
      <3>2. ModOK(ms2, ck, x)
        BY ONLY <3>1 DEF ModOK, Fresh
      <3>3. OpenOK(ms2, {}, x)
        BY ONLY <3>1 DEF OpenOK
      <3>4. QueueOK(ms2, Q, R2, x)
        BY ONLY <2>0, <2>1, <3>1 DEF QueueOK
      <3> QED BY <3>2, <3>3, <3>4
    <2>3. CASE x \notin F
      <3>1. ms[x].status = "evaluated" => ms2[ms[x].root].err = ms[ms[x].root].err \/ ms2[ms[x].root].err # 0
        BY <1>5 DEF Ended
      <3>2. /\ ms2[x].status = ms[x].status /\ ms2[x].async = ms[x].async /\ ms2[x].err = ms[x].err
            /\ (x \in R2 <=> x \in R)
        BY <1>2, <2>3
      <3>3. ModOK(ms2, ck, x)
        BY ONLY <2>0, <2>1, <3>1, <3>2 DEF ModOK
      <3>4. OpenOK(ms2, {}, x)
        BY ONLY <2>0, <2>1, <3>2 DEF OpenOK
      <3>5. QueueOK(ms2, Q, R2, x)
        BY ONLY <2>0, <2>1, <3>2 DEF QueueOK
      <3> QED BY <3>3, <3>4, <3>5
    <2> QED BY <2>2, <2>3
  <1>7. Each(ms2, {}, Q, R2, ck)
    BY ONLY <1>2, <1>6 DEF Each
  <1>8. RunOK(ms2, B2, aw2, jb2)
    BY <1>2, RunKept
  <1>10. Reporting(ms2, Q, R2, ck)
    <2> SUFFICES ASSUME NEW x \in 1..Len(ms), NEW p \in 1..Len(ms), Has(ms2[x].parents, p)
                 PROVE  ReportOK(ms2, Q, R2, ck, x, p)
      BY <1>2 DEF Reporting
    <2>0. Has(ms[x].parents, p)
      BY <1>2
    <2>1. ReportOK(ms, Q, R, ck, x, p) /\ ModOK(ms, ck, p)
      BY <1>1, <1>3, <2>0 DEF Reporting
    <2>2. ms2[x].timestamp < ck /\ (ms2[p].async => ms2[x].timestamp < ms2[p].timestamp)
      BY ONLY <1>2, <2>1, x \in 1..Len(ms), p \in 1..Len(ms) DEF ReportOK
    <2>3. ms2[x].async => ms2[p].runs = 0
      BY ONLY <1>2, <2>1, x \in 1..Len(ms), p \in 1..Len(ms) DEF ReportOK
    <2>4. x \in Q \/ x \in R2 => ms2[p].status # "evaluating"
      BY ONLY <1>2, <1>4, x \in 1..Len(ms), p \in 1..Len(ms)
    <2>5. ms2[x].err # 0 /\ ~ms2[x].async => ms2[p].err # 0 /\ ms2[p].runs = 0 /\ ms2[p].status = "evaluated"
      <3>1. CASE x \in F
        <4>1. ms[x].async /\ ms[p].runs = 0
          BY ONLY <1>4, <2>1, <3>1 DEF ReportOK
        <4>2. p \in F \/ (ms[p].status = "evaluated" /\ ms[p].err # 0)
          BY ONLY <1>4, <2>0, <2>1, <3>1, <4>1, p \in 1..Len(ms) DEF ModOK
        <4> QED BY ONLY <1>2, <4>1, <4>2, p \in 1..Len(ms), e # 0
      <3>2. CASE x \notin F
        <4> SUFFICES ASSUME ms2[x].err # 0, ~ms2[x].async PROVE ms2[p].err # 0 /\ ms2[p].runs = 0 /\ ms2[p].status = "evaluated"
          OBVIOUS
        <4>1. ms[p].err # 0 /\ ms[p].runs = 0 /\ ms[p].status = "evaluated"
          BY <1>2, <2>1, <3>2 DEF ReportOK
        <4>2. p \notin F
          BY <1>4, <4>1
        <4> QED BY <1>2, <4>1, <4>2
      <3> QED BY <3>1, <3>2
    <2> QED BY ONLY <2>2, <2>3, <2>4, <2>5 DEF ReportOK
  <1>11. \A x \in 1..Len(ms) : x \notin F => (Counted(w, ms2, Q, R2, x) <=> Counted(w, ms, Q, R, x))
    BY <1>2 DEF Counted, Early
  <1>12. ASSUME NEW p \in 1..Len(ms) PROVE Waiting(ms2, p) => Waiting(ms, p) /\ p \notin F /\ ms[p].status = "async"
    <2>1. ms[p].status = "async" => ms2[ms[p].root].err = ms[ms[p].root].err \/ ms2[ms[p].root].err # 0
      BY <1>5 DEF Ended
    <2> QED BY ONLY <1>2, <1>4, <2>1, p \in 1..Len(ms) DEF Waiting
  <1>13. ASSUME NEW p \in 1..Len(ms), p \notin F, ms[p].status = "async"
         PROVE  \A x \in 1..Len(ms) : Has(ms[x].parents, p) => x \notin F
    BY <1>4, <1>13
  <1>14. KeepsPending(w, ms, {}, Q, R, ms2, {}, Q, R2)
    BY <1>2, <1>11, <1>12, <1>13 DEF KeepsPending, Exact
  <1>15. KeepsWaiting(ms, Q, ms2, Q)
    BY <1>2, <1>12 DEF KeepsWaiting
  <1>16. KeepsFree(w, ms, Q, R, ms2, Q, R2)
    <2> SUFFICES ASSUME NEW p \in 1..Len(ms), p \in Q, ms2[p].status = "async"
                 PROVE  /\ ms[p].status = "async"
                        /\ \A x \in 1..Len(ms) : Has(ms[x].parents, p) /\ Counted(w, ms2, Q, R2, x) => Counted(w, ms, Q, R, x)
      BY DEF KeepsFree
    <2>1. p \notin F /\ ms[p].status = "async"
      BY <1>2
    <2> QED BY <1>11, <1>13, <2>1
  <1>17. SameParents(ms, ms2)
    BY <1>2 DEF SameParents
  <1>18. Counting(w, ms2, {}, Q, R2)
    BY <1>1, <1>14, <1>15, <1>16, <1>17, CountingKept
  <1> QED BY ONLY <1>7, <1>8, <1>10, <1>18 DEF Count
(* A module that a reaction executed is done.                              *)
LEMMA CountCompletes ==
    ASSUME NEW w, NEW ms \in Seq(ModRec), NEW ms2 \in Seq(ModRec), RootsOK(ms), ParentsIn(ms), NoneOpen(ms),
           NEW d \in 1..Len(ms), ms[d].runs = 1, ms[d].name \notin w.has_tla, Evaluates(ms, ms2, d),
           NEW B, NEW Q, NEW R, NEW jb, NEW aw, NEW ck, Count(w, ms, {}, B, Q, R, jb, aw, ck), d \in R,
           NEW R2, \A x \in 1..Len(ms) : x \in R2 <=> x \in R /\ x # d,
           NEW B2, NEW jb2, NEW aw2, RunOK(ms, B2, aw2, jb2), \A k \in 1..Len(jb2) : jb2[k][1] \in 1..Len(ms)
    PROVE  Count(w, ms2, {}, B2, Q, R2, jb2, aw2, ck)
  <1>1. /\ Each(ms, {}, Q, R, ck) /\ Reporting(ms, Q, R, ck) /\ Counting(w, ms, {}, Q, R)
    BY DEF Count
  <1>2. /\ Len(ms2) = Len(ms)
        /\ \A x \in 1..Len(ms) :
              /\ ms2[x].name = ms[x].name /\ ms2[x].runs = ms[x].runs /\ ms2[x].root = ms[x].root
              /\ ms2[x].timestamp = ms[x].timestamp /\ ms2[x].err = ms[x].err
              /\ ms2[x].parents = ms[x].parents /\ ms2[x].pending = ms[x].pending
        /\ \A x \in 1..Len(ms) : x # d => ms2[x].status = ms[x].status /\ ms2[x].async = ms[x].async
        /\ ms2[d].status = "evaluated" /\ ms2[d].async = FALSE
    BY DEF Evaluates, OthersSame, SameMod, SameShape, SameEval, SameBase
  <1>3. \A x \in 1..Len(ms) : ModOK(ms, ck, x) /\ OpenOK(ms, {}, x) /\ QueueOK(ms, Q, R, x)
    BY <1>1 DEF Each
  <1>4. /\ ms[d].status = "async" /\ ms[d].async /\ ms[d].err = 0 /\ d \notin Q /\ ms[d].runs = 1
        /\ ms[d].name \notin w.has_tla
        /\ \A x \in 1..Len(ms) : ms[x].status # "evaluating"
    BY <1>3 DEF ModOK, QueueOK, NoneOpen
  <1>5. ASSUME NEW x \in 1..Len(ms), ms[x].status \in Ended
        PROVE  ms2[ms[x].root].err = ms[ms[x].root].err
    <2>1. ms[x].root \in 1..Len(ms)
      BY <1>5, EndedRoot
    <2> QED BY <1>2, <2>1
  <1>6. \A x \in 1..Len(ms) : ModOK(ms2, ck, x) /\ OpenOK(ms2, {}, x) /\ QueueOK(ms2, Q, R2, x)
    <2> SUFFICES ASSUME NEW x \in 1..Len(ms) PROVE ModOK(ms2, ck, x) /\ OpenOK(ms2, {}, x) /\ QueueOK(ms2, Q, R2, x)
      OBVIOUS
    <2>0. /\ ms2[x].runs = ms[x].runs /\ ms2[x].timestamp = ms[x].timestamp /\ ms2[x].err = ms[x].err
          /\ ms2[x].parents = ms[x].parents /\ ms2[x].root = ms[x].root
      BY <1>2
    <2>1. ModOK(ms, ck, x) /\ OpenOK(ms, {}, x) /\ QueueOK(ms, Q, R, x)
      BY <1>3
    <2>2. CASE x = d
      <3>1. /\ ms2[x].status = "evaluated" /\ ms2[x].err = 0 /\ ms2[x].runs = 1 /\ ~ms2[x].async
            /\ x \notin R2 /\ x \notin Q
        BY <1>2, <1>4, <2>0, <2>2
      <3>2. ModOK(ms2, ck, x)
        BY ONLY <3>1 DEF ModOK, Fresh
      <3> QED BY ONLY <3>1, <3>2 DEF OpenOK, QueueOK
    <2>3. CASE x # d
      <3>1. ms[x].status = "evaluated" => ms2[ms[x].root].err = ms[ms[x].root].err
        BY <1>5 DEF Ended
      <3>2. /\ ms2[x].status = ms[x].status /\ ms2[x].async = ms[x].async
            /\ (x \in R2 <=> x \in R)
        BY <1>2, <2>3
      <3>3. ModOK(ms2, ck, x)
        BY ONLY <2>0, <2>1, <3>1, <3>2 DEF ModOK
      <3>4. OpenOK(ms2, {}, x)
        BY ONLY <2>0, <2>1, <3>2 DEF OpenOK
      <3>5. QueueOK(ms2, Q, R2, x)
        BY ONLY <2>0, <2>1, <3>2 DEF QueueOK
      <3> QED BY <3>3, <3>4, <3>5
    <2> QED BY <2>2, <2>3
  <1>7. Each(ms2, {}, Q, R2, ck)
    BY ONLY <1>2, <1>6 DEF Each
  <1>8. RunOK(ms2, B2, aw2, jb2)
    BY <1>2, RunKept
  <1>10. Reporting(ms2, Q, R2, ck)
    <2> SUFFICES ASSUME NEW x \in 1..Len(ms), NEW p \in 1..Len(ms), Has(ms2[x].parents, p)
                 PROVE  ReportOK(ms2, Q, R2, ck, x, p)
      BY <1>2 DEF Reporting
    <2>0. Has(ms[x].parents, p)
      BY <1>2
    <2>1. ReportOK(ms, Q, R, ck, x, p)
      BY <1>1, <2>0 DEF Reporting
    <2> QED BY ONLY <1>2, <1>4, <2>1, x \in 1..Len(ms), p \in 1..Len(ms) DEF ReportOK
  <1>11. \A x \in 1..Len(ms) : (Counted(w, ms2, Q, R2, x) <=> Counted(w, ms, Q, R, x))
    <2> SUFFICES ASSUME NEW x \in 1..Len(ms) PROVE Counted(w, ms2, Q, R2, x) <=> Counted(w, ms, Q, R, x)
      OBVIOUS
    <2>1. CASE x = d
      BY ONLY <1>2, <1>4, <2>1, d \in R DEF Counted, Early
    <2>2. CASE x # d
      BY <1>2, <2>2 DEF Counted, Early
    <2> QED BY <2>1, <2>2
  <1>12. ASSUME NEW p \in 1..Len(ms) PROVE Waiting(ms2, p) => Waiting(ms, p)
    <2>1. ms[p].status = "async" => ms2[ms[p].root].err = ms[ms[p].root].err
      BY <1>5 DEF Ended
    <2> QED BY ONLY <1>2, <1>4, <2>1, p \in 1..Len(ms) DEF Waiting
  <1>14. KeepsPending(w, ms, {}, Q, R, ms2, {}, Q, R2)
    BY <1>2, <1>11, <1>12 DEF KeepsPending, Exact
  <1>15. KeepsWaiting(ms, Q, ms2, Q)
    BY <1>2, <1>12 DEF KeepsWaiting
  <1>16. KeepsFree(w, ms, Q, R, ms2, Q, R2)
    BY <1>2, <1>4, <1>11 DEF KeepsFree
  <1>17. SameParents(ms, ms2)
    BY <1>2 DEF SameParents
  <1>18. Counting(w, ms2, {}, Q, R2)
    BY <1>1, <1>14, <1>15, <1>16, <1>17, CountingKept
  <1> QED BY ONLY <1>7, <1>8, <1>10, <1>18 DEF Count
(* The modules that become available: the least set with every module that *)
(* waits only for those that are done, or taken as done.                   *)
LEMMA WaitersIs ==
    ASSUME NEW ms \in Seq(ModRec), NEW D \in SUBSET (1..Len(ms))
    PROVE  \A p : p \in Waiters(ms, D) <=>
              (\E x \in D : Has(ms[x].parents, p)) /\ ms[p].root # 0 /\ ms[ms[p].root].err = 0
  <1>1. \A x \in D : \A p : p \in ToSet(ms[x].parents) <=> Has(ms[x].parents, p)
    <2> SUFFICES ASSUME NEW x \in D PROVE \A p : p \in ToSet(ms[x].parents) <=> Has(ms[x].parents, p)
      OBVIOUS
    <2>1. ms[x].parents \in Seq(Nat)
      BY ModIs
    <2> QED BY <2>1, ToSetHas
  <1>2. \A p : p \in WaitingFor(ms, D) <=> \E x \in D : Has(ms[x].parents, p)
    BY <1>1 DEF WaitingFor
  <1> QED BY <1>2 DEF Waiters

(* The members of Gathers.                                                 *)
LEMMA GathersIs ==
    ASSUME NEW ms \in Seq(ModRec), ParentsIn(ms), NEW d \in 1..Len(ms), NEW A \in SUBSET (1..Len(ms))
    PROVE  /\ Released(ms, d, A) \in SUBSET (1..Len(ms)) /\ Gathers(ms, d, A) \in SUBSET (1..Len(ms))
           /\ \A p : p \in Gathers(ms, d, A) <=>
                 p \in Waiters(ms, Released(ms, d, A)) /\ ms[p].pending <= Waits(ms, Released(ms, d, A), p)
  <1>1. Released(ms, d, A) \in SUBSET (1..Len(ms))
    BY DEF Released
  <1>2. \A p : p \in Gathers(ms, d, A) <=>
                 p \in Waiters(ms, Released(ms, d, A)) /\ ms[p].pending <= Waits(ms, Released(ms, d, A), p)
    BY DEF Gathers
  <1>3. ASSUME NEW p \in Gathers(ms, d, A) PROVE p \in 1..Len(ms)
    <2>1. \E x \in Released(ms, d, A) : Has(ms[x].parents, p)
      BY <1>1, <1>2, WaitersIs
    <2> QED BY <1>1, <2>1 DEF ParentsIn, Has
  <1> QED BY <1>1, <1>2, <1>3

(* The more is taken as done, the more becomes available.                  *)
LEMMA GathersMono ==
    ASSUME NEW ms \in Seq(ModRec), ParentsIn(ms), NEW d \in 1..Len(ms), NEW A \in SUBSET (1..Len(ms)),
           NEW A2 \in SUBSET (1..Len(ms)), A \subseteq A2
    PROVE  Gathers(ms, d, A) \subseteq Gathers(ms, d, A2)
  <1> SUFFICES ASSUME NEW p \in Gathers(ms, d, A) PROVE p \in Gathers(ms, d, A2)
    OBVIOUS
  <1> DEFINE D == Released(ms, d, A)
             D2 == Released(ms, d, A2)
  <1>1. D \in SUBSET (1..Len(ms)) /\ D2 \in SUBSET (1..Len(ms)) /\ D \subseteq D2
    BY GathersIs DEF Released
  <1>2. p \in Waiters(ms, D) /\ ms[p].pending <= Waits(ms, D, p) /\ p \in 1..Len(ms)
    BY GathersIs
  <1> HIDE DEF D, D2
  <1>3. p \in Waiters(ms, D2)
    BY <1>1, <1>2, WaitersIs
  <1>4. Waits(ms, D, p) <= Waits(ms, D2, p) /\ Waits(ms, D, p) \in Nat /\ Waits(ms, D2, p) \in Nat
    BY ONLY <1>1, ms \in Seq(ModRec), WaitsMono
  <1>5. ms[p].pending \in Nat
    BY <1>2, ModIs
  <1>6. ms[p].pending <= Waits(ms, D2, p)
    BY ONLY <1>2, <1>4, <1>5
  <1> QED BY <1>3, <1>6, GathersIs DEF D2

(* Available is the least fixed point of Gathers.                          *)
LEMMA AvailableIs ==
    ASSUME NEW ms \in Seq(ModRec), ParentsIn(ms), NEW d \in 1..Len(ms)
    PROVE  /\ Available(ms, d) \in SUBSET (1..Len(ms))
           /\ \A G \in SUBSET (1..Len(ms)) : Gathers(ms, d, G) \subseteq G => Available(ms, d) \subseteq G
           /\ Gathers(ms, d, Available(ms, d)) = Available(ms, d)
  <1> DEFINE A == Available(ms, d)
  <1>1. DOMAIN ms = 1..Len(ms)
    OBVIOUS
  <1>2. A \in SUBSET (1..Len(ms))
    BY <1>1 DEF Available
  <1>3. \A G \in SUBSET (1..Len(ms)) : Gathers(ms, d, G) \subseteq G => A \subseteq G
    BY <1>1 DEF Available
  <1>4. \A p \in 1..Len(ms) : (\A G \in SUBSET (1..Len(ms)) : Gathers(ms, d, G) \subseteq G => p \in G) => p \in A
    BY <1>1 DEF Available
  <1> HIDE DEF A
  <1>5. Gathers(ms, d, A) \in SUBSET (1..Len(ms))
    BY <1>2, GathersIs
  <1>6. Gathers(ms, d, A) \subseteq A
    <2> SUFFICES ASSUME NEW p \in Gathers(ms, d, A), NEW G \in SUBSET (1..Len(ms)), Gathers(ms, d, G) \subseteq G
                 PROVE  p \in G
      BY <1>4, <1>5
    <2>1. A \subseteq G
      BY <1>3
    <2>2. Gathers(ms, d, A) \subseteq Gathers(ms, d, G)
      BY <1>2, <2>1, GathersMono
    <2> QED BY <2>2
  <1>7. Gathers(ms, d, Gathers(ms, d, A)) \subseteq Gathers(ms, d, A)
    BY <1>2, <1>5, <1>6, GathersMono
  <1>8. A \subseteq Gathers(ms, d, A)
    BY <1>3, <1>5, <1>7
  <1> QED BY <1>2, <1>3, <1>6, <1>8 DEF A
(* What is known of the modules that become available when d is done.      *)
Idle(ms, x) ==
    /\ ms[x].runs = 0 /\ ms[x].root # 0 /\ ms[ms[x].root].err = 0
    /\ ms[x].status = "async" \/ (ms[x].status = "evaluated" /\ ms[x].err # 0 /\ ~ms[x].async)

(* What becomes available was waiting and did not run.                     *)
LEMMA AvailableIdle ==
    ASSUME NEW ms \in Seq(ModRec), NEW ms2 \in Seq(ModRec), RootsOK(ms), ParentsIn(ms), NoneOpen(ms),
           NEW d \in 1..Len(ms), ms[d].status = "async", ms[d].runs = 1, Evaluates(ms, ms2, d),
           NEW ck, Each(ms, {}, {}, {}, ck), Reporting(ms, {}, {}, ck)
    PROVE  /\ ParentsIn(ms2) /\ \A x \in Available(ms2, d) : x \in 1..Len(ms) /\ x # d /\ Idle(ms, x)
           /\ Available(ms2, d) \in SUBSET (1..Len(ms))
           /\ Gathers(ms2, d, Available(ms2, d)) = Available(ms2, d)
  <1>2. /\ Len(ms2) = Len(ms)
        /\ \A x \in 1..Len(ms) :
              /\ ms2[x].name = ms[x].name /\ ms2[x].runs = ms[x].runs /\ ms2[x].root = ms[x].root
              /\ ms2[x].err = ms[x].err /\ ms2[x].parents = ms[x].parents /\ ms2[x].pending = ms[x].pending
        /\ \A x \in 1..Len(ms) : x # d => ms2[x].status = ms[x].status /\ ms2[x].async = ms[x].async
        /\ ms2[d].status = "evaluated" /\ ms2[d].async = FALSE
    BY DEF Evaluates, OthersSame, SameMod, SameShape, SameEval, SameBase
  <1>3. ParentsIn(ms2)
    <2>1. \A x \in 1..Len(ms) : ms[x].status \in Begun => ms2[x].status \in Begun
      BY ONLY <1>2 DEF Begun
    <2> QED BY ONLY <1>2, <2>1, ParentsIn(ms), SMTT(30) DEF ParentsIn
  <1>4. \A x \in 1..Len(ms) : ModOK(ms, ck, x) /\ (\A p \in 1..Len(ms) : Has(ms[x].parents, p) => ReportOK(ms, {}, {}, ck, x, p))
    BY DEF Each, Reporting
  <1> DEFINE G == {x \in 1..Len(ms) : Idle(ms, x)}
  <1>5. d \in 1..Len(ms2) /\ G \in SUBSET (1..Len(ms2))
    BY <1>2
  <1>6. d \notin G
    BY DEF Idle
  <1>7. ASSUME NEW p \in Gathers(ms2, d, G) PROVE p \in G
    <2>1. p \in 1..Len(ms2) /\ p \in Waiters(ms2, Released(ms2, d, G)) /\ Released(ms2, d, G) \in SUBSET (1..Len(ms2))
      BY <1>3, <1>5, GathersIs
    <2>2. PICK x \in Released(ms2, d, G) : Has(ms2[x].parents, p)
      BY <2>1, WaitersIs
    <2>3. ms2[p].root # 0 /\ ms2[ms2[p].root].err = 0
      BY <2>1, WaitersIs
    <2>4. p \in 1..Len(ms) /\ x \in 1..Len(ms) /\ (x = d \/ x \in G)
      BY <1>2, <2>1, <2>2 DEF Released
    <2>5. ms[p].root # 0 /\ ms[p].status \in Ended
      BY <1>2, <2>3, <2>4 DEF RootsOK
    <2>6. ms[p].root \in 1..Len(ms) /\ ms[ms[p].root].err = 0
      BY <1>2, <2>3, <2>4, <2>5, EndedRoot
    <2>7. ReportOK(ms, {}, {}, ck, x, p) /\ ModOK(ms, ck, p) /\ ModOK(ms, ck, x)
      BY <1>2, <1>4, <2>2, <2>4
    <2>8. CASE x = d \/ ms[x].status = "async"
      <3>1. ms[x].async
        BY <2>7, <2>8 DEF ModOK
      <3>2. ms[p].runs = 0
        BY <2>7, <3>1 DEF ReportOK
      <3>3. ms[p].status = "async" \/ (ms[p].status = "evaluated" /\ ms[p].err # 0 /\ ~ms[p].async)
        BY ONLY <2>5, <2>6, <2>7, <3>2 DEF ModOK, Ended
      <3> QED BY ONLY <2>4, <2>5, <2>6, <3>2, <3>3 DEF Idle
    <2>9. CASE x \in G /\ ms[x].status # "async"
      <3>1. ms[x].err # 0 /\ ~ms[x].async
        BY <2>9 DEF Idle
      <3>2. ms[p].runs = 0 /\ ms[p].status = "evaluated" /\ ms[p].err # 0
        BY <2>7, <3>1 DEF ReportOK
      <3>3. ~ms[p].async
        BY ONLY <2>6, <2>7, <3>2 DEF ModOK
      <3> QED BY ONLY <2>4, <2>5, <2>6, <3>2, <3>3 DEF Idle
    <2> QED BY <2>4, <2>8, <2>9
  <1>8. /\ Available(ms2, d) \in SUBSET (1..Len(ms2)) /\ Gathers(ms2, d, Available(ms2, d)) = Available(ms2, d)
        /\ \A H \in SUBSET (1..Len(ms2)) : Gathers(ms2, d, H) \subseteq H => Available(ms2, d) \subseteq H
    BY <1>3, <1>5, AvailableIs
  <1> HIDE DEF G
  <1>9. Available(ms2, d) \subseteq G
    BY <1>5, <1>7, <1>8
  <1>10. \A x \in G : x \in 1..Len(ms) /\ x # d /\ Idle(ms, x)
    BY <1>6 DEF G
  <1> QED BY <1>2, <1>3, <1>8, <1>9, <1>10
(* A module with an await is done, and those that it was the last to wait  *)
(* for become available.                                                   *)
Collecting(ms, ms3, d, ck, A, Fr, C, C2) ==
    /\ RootsOK(ms) /\ ParentsIn(ms) /\ NoneOpen(ms) /\ ms[d].status = "async"
    /\ Each(ms, {}, {}, {}, ck) /\ Reporting(ms, {}, {}, ck)
    /\ A \in SUBSET (1..Len(ms)) /\ \A x \in A : x # d /\ Idle(ms, x)
    /\ SameParents(ms, ms3)
    /\ Fr \in SUBSET (1..Len(ms)) /\ d \in Fr /\ \A x \in Fr : x = d \/ x \in A
    /\ C = {x \in 1..Len(ms) : ms[x].async}
    /\ C2 = {x \in 1..Len(ms) : ms[x].async /\ x \notin Fr}

(* A module waits for those that were released and those still to report.  *)
LEMMA CollectsWaits ==
    ASSUME NEW ms \in Seq(ModRec), NEW ms3 \in Seq(ModRec), NEW d \in 1..Len(ms), NEW ck, NEW A, NEW Fr, NEW C, NEW C2,
           Collecting(ms, ms3, d, ck, A, Fr, C, C2),
           NEW p \in 1..Len(ms), ms[p].status = "async", ms[p].pending = Waits(ms, C, p)
    PROVE  /\ Waits(ms, Fr, p) \in Nat /\ Waits(ms3, C2, p) \in Nat
           /\ ms[p].pending = Waits(ms, Fr, p) + Waits(ms3, C2, p)
  <1>0. /\ RootsOK(ms) /\ ParentsIn(ms) /\ NoneOpen(ms) /\ ms[d].status = "async"
        /\ Each(ms, {}, {}, {}, ck) /\ Reporting(ms, {}, {}, ck)
        /\ A \in SUBSET (1..Len(ms)) /\ \A x \in A : x # d /\ Idle(ms, x)
    BY DEF Collecting
  <1>01. /\ SameParents(ms, ms3) /\ Fr \in SUBSET (1..Len(ms)) /\ d \in Fr /\ \A x \in Fr : x = d \/ x \in A
    BY DEF Collecting
  <1>02. C = {x \in 1..Len(ms) : ms[x].async} /\ C2 = {x \in 1..Len(ms) : ms[x].async /\ x \notin Fr}
    BY DEF Collecting
  <1> DEFINE E == {x \in Fr : ms[x].async}
  <1>1. C \in SUBSET (1..Len(ms)) /\ C2 \in SUBSET (1..Len(ms)) /\ E \in SUBSET (1..Len(ms)) /\ p \in Nat
    <2>1. Len(ms) \in Nat
      BY ModIs
    <2>2. p \in Nat
      BY ONLY <2>1, p \in 1..Len(ms)
    <2>3. C \in SUBSET (1..Len(ms)) /\ C2 \in SUBSET (1..Len(ms))
      BY ONLY <1>02
    <2>4. E \in SUBSET (1..Len(ms))
      BY ONLY <1>01 DEF E
    <2> QED BY ONLY <2>2, <2>3, <2>4
  <1>2. Parts(C, E, C2)
    <2>0. /\ \A x : x \in C <=> x \in 1..Len(ms) /\ ms[x].async
          /\ \A x : x \in C2 <=> x \in 1..Len(ms) /\ ms[x].async /\ x \notin Fr
          /\ \A x : x \in E <=> x \in Fr /\ ms[x].async
          /\ \A x : x \in Fr => x \in 1..Len(ms)
      <3>1. \A x : x \in C <=> x \in 1..Len(ms) /\ ms[x].async
        BY ONLY <1>02
      <3>2. \A x : x \in C2 <=> x \in 1..Len(ms) /\ ms[x].async /\ x \notin Fr
        BY ONLY <1>02
      <3>3. \A x : x \in E <=> x \in Fr /\ ms[x].async
        BY ONLY DEF E
      <3>4. \A x : x \in Fr => x \in 1..Len(ms)
        BY ONLY <1>01
      <3> QED BY ONLY <3>1, <3>2, <3>3, <3>4
    <2> HIDE DEF E
    <2>1. \A x : x \in C <=> x \in E \/ x \in C2
      BY ONLY <2>0
    <2>2. \A x : ~(x \in E /\ x \in C2)
      BY ONLY <2>0
    <2>3. C = E \cup C2 /\ E \cap C2 = {} /\ E \subseteq C /\ C2 \subseteq C
      BY ONLY <2>1, <2>2
    <2> QED BY ONLY <2>3 DEF Parts
  <1>3. \A x \in E : x \in Fr /\ ms[x].async
    OBVIOUS
  <1>3a. \A x \in Fr : ms[x].async => x \in E
    OBVIOUS
  <1>3b. \A x \in C2 : x \in 1..Len(ms)
    BY <1>1
  <1> HIDE DEF E
  <1>4. \A x \in 1..Len(ms) : ModOK(ms, ck, x) /\ (Has(ms[x].parents, p) => ReportOK(ms, {}, {}, ck, x, p))
    BY <1>0 DEF Each, Reporting
  <1>5. ASSUME NEW x \in Fr, Has(ms[x].parents, p) PROVE ms[x].async
    <2>0. x \in 1..Len(ms) /\ (x = d \/ x \in A)
      BY <1>01
    <2>1. CASE x = d
      BY <1>0, <1>4, <2>0, <2>1 DEF ModOK
    <2>2. CASE x \in A /\ ~ms[x].async
      <3>1. ms[x].status = "async" \/ ms[x].err # 0
        BY <1>0, <2>2 DEF Idle
      <3>2. ms[x].err # 0
        BY ONLY <1>4, <2>0, <2>2, <3>1 DEF ModOK
      <3>3. ms[p].status = "evaluated"
        BY ONLY <1>4, <1>5, <2>0, <2>2, <3>2 DEF ReportOK
      <3> QED BY <3>3, ms[p].status = "async"
    <2> QED BY <2>0, <2>1, <2>2
  <1>6. Waits(ms, E, p) = Waits(ms, Fr, p)
    <2>1. SameTold(ms, Fr, ms, E, p)
      BY ONLY <1>3, <1>3a, <1>5 DEF SameTold
    <2> QED BY ONLY <1>1, <2>1, <1>01, ms \in Seq(ModRec), WaitsSame
  <1>7. Waits(ms3, C2, p) = Waits(ms, C2, p)
    <2>1. SameTold(ms, C2, ms3, C2, p)
      BY ONLY <1>3b, <1>01 DEF SameTold, SameParents
    <2>2. C2 \in SUBSET (1..Len(ms3))
      BY ONLY <1>1, <1>01 DEF SameParents
    <2> QED BY ONLY <1>1, <2>1, <2>2, ms \in Seq(ModRec), ms3 \in Seq(ModRec), WaitsSame
  <1>8. Sums(Waits(ms, C, p), Waits(ms, E, p), Waits(ms, C2, p))
    BY ONLY <1>1, <1>2, ms \in Seq(ModRec), WaitsSplit
  <1> QED BY ONLY <1>6, <1>7, <1>8, ms[p].pending = Waits(ms, C, p) DEF Sums
(* Counting down by the released modules keeps the counting.               *)
LEMMA CountCollects ==
    ASSUME NEW ms \in Seq(ModRec), NEW ms2 \in Seq(ModRec), NEW ms3 \in Seq(ModRec),
           RootsOK(ms), ParentsIn(ms), NoneOpen(ms),
           NEW d \in 1..Len(ms), ms[d].status = "async", ms[d].runs = 1, Evaluates(ms, ms2, d),
           Lightens(ms2, ms3, Freed(ms2, d)),
           NEW B, NEW jb, NEW aw, NEW ck, Count(world, ms, {}, B, {}, {}, jb, aw, ck),
           NEW Q2, \A x \in 1..Len(ms) : x \in Q2 <=> x \in Available(ms2, d),
           NEW B2, NEW jb2, NEW aw2, RunOK(ms, B2, aw2, jb2), \A k \in 1..Len(jb2) : jb2[k][1] \in 1..Len(ms)
    PROVE  Count(world, ms3, {}, B2, Q2, {}, jb2, aw2, ck)
  <1> DEFINE A == Available(ms2, d)
             Fr == Freed(ms2, d)
  <1>1. /\ Each(ms, {}, {}, {}, ck) /\ Reporting(ms, {}, {}, ck) /\ Counting(world, ms, {}, {}, {})
    BY DEF Count
  <1>2. /\ Len(ms2) = Len(ms)
        /\ \A x \in 1..Len(ms) :
              /\ ms2[x].name = ms[x].name /\ ms2[x].runs = ms[x].runs /\ ms2[x].root = ms[x].root
              /\ ms2[x].timestamp = ms[x].timestamp /\ ms2[x].err = ms[x].err
              /\ ms2[x].parents = ms[x].parents /\ ms2[x].pending = ms[x].pending
        /\ \A x \in 1..Len(ms) : x # d => ms2[x].status = ms[x].status /\ ms2[x].async = ms[x].async
        /\ ms2[d].status = "evaluated" /\ ms2[d].async = FALSE
    BY DEF Evaluates, OthersSame, SameMod, SameShape, SameEval, SameBase
  <1>3. /\ ParentsIn(ms2) /\ \A x \in A : x \in 1..Len(ms) /\ x # d /\ Idle(ms, x)
        /\ A \in SUBSET (1..Len(ms)) /\ Gathers(ms2, d, A) = A
    BY <1>1, AvailableIdle
  <1>4. Fr \in SUBSET (1..Len(ms)) /\ d \in Fr /\ \A x \in Fr : x = d \/ x \in A
    BY <1>3 DEF Freed, Released
  <1>5. \A x \in 1..Len(ms) : x \in Fr <=> x = d \/ (x \in A /\ ms[x].name \notin world.has_tla)
    BY <1>2 DEF Freed, Released
  <1>6. /\ \A p : p \in A <=> p \in Waiters(ms2, Fr) /\ ms2[p].pending <= Waits(ms2, Fr, p)
        /\ \A p : p \in Waiters(ms2, Fr) <=>
              (\E x \in Fr : Has(ms2[x].parents, p)) /\ ms2[p].root # 0 /\ ms2[ms2[p].root].err = 0
    <2>1. A \in SUBSET (1..Len(ms2)) /\ Fr \in SUBSET (1..Len(ms2)) /\ d \in 1..Len(ms2) /\ Released(ms2, d, A) = Fr
      BY <1>2, <1>3, <1>4 DEF Freed
    <2>2. \A p : p \in A <=> p \in Waiters(ms2, Fr) /\ ms2[p].pending <= Waits(ms2, Fr, p)
      BY <1>3, <2>1, GathersIs, SMTT(30)
    <2> QED BY <2>1, <2>2, WaitersIs
  <1>7. /\ Len(ms3) = Len(ms)
        /\ \A x \in 1..Len(ms) :
              /\ ms3[x].name = ms[x].name /\ ms3[x].runs = ms[x].runs /\ ms3[x].root = ms[x].root
              /\ ms3[x].timestamp = ms[x].timestamp /\ ms3[x].err = ms[x].err /\ ms3[x].parents = ms[x].parents
        /\ \A x \in 1..Len(ms) : x # d => ms3[x].status = ms[x].status /\ ms3[x].async = ms[x].async
        /\ ms3[d].status = "evaluated" /\ ms3[d].async = FALSE
    BY <1>2 DEF Lightens, SameButPending, SameShape
  <1>8. /\ \A x \in 1..Len(ms) : x \in Waiters(ms2, Fr) => ms3[x].pending = ms[x].pending - MinOf(ms[x].pending, Waits(ms2, Fr, x))
        /\ \A x \in 1..Len(ms) : x \notin Waiters(ms2, Fr) => ms3[x].pending = ms[x].pending
    BY <1>2, SMTT(30) DEF Lightens
  <1> HIDE DEF A, Fr
  <1>9. \A x \in 1..Len(ms) : x \in Q2 <=> x \in A
    BY DEF A
  <1>10. \A x \in 1..Len(ms) : ModOK(ms, ck, x) /\ OpenOK(ms, {}, x)
    BY <1>1 DEF Each
  <1>11. /\ ms[d].err = 0 /\ ms[d].async /\ \A x \in 1..Len(ms) : ms[x].status # "evaluating"
    BY <1>10 DEF ModOK, NoneOpen
  <1>12. ASSUME NEW x \in 1..Len(ms), ms[x].status \in Ended
         PROVE  ms3[ms[x].root].err = ms[ms[x].root].err
    <2>1. ms[x].root \in 1..Len(ms)
      BY <1>12, EndedRoot
    <2> QED BY <1>7, <2>1
  <1>13. \A x \in 1..Len(ms) : ModOK(ms3, ck, x) /\ OpenOK(ms3, {}, x) /\ QueueOK(ms3, Q2, {}, x)
    <2> SUFFICES ASSUME NEW x \in 1..Len(ms) PROVE ModOK(ms3, ck, x) /\ OpenOK(ms3, {}, x) /\ QueueOK(ms3, Q2, {}, x)
      OBVIOUS
    <2>0. /\ ms3[x].runs = ms[x].runs /\ ms3[x].timestamp = ms[x].timestamp /\ ms3[x].err = ms[x].err
          /\ ms3[x].parents = ms[x].parents /\ ms3[x].root = ms[x].root
      BY <1>7
    <2>2. CASE x = d
      <3>1. /\ ms3[x].status = "evaluated" /\ ms3[x].err = 0 /\ ms3[x].runs = 1 /\ ~ms3[x].async /\ x \notin Q2
        BY <1>3, <1>7, <1>9, <1>11, <2>2
      <3>2. ModOK(ms3, ck, x)
        BY ONLY <3>1 DEF ModOK, Fresh
      <3> QED BY ONLY <3>1, <3>2 DEF OpenOK, QueueOK
    <2>3. CASE x # d
      <3>1. ms[x].status = "evaluated" => ms3[ms[x].root].err = ms[ms[x].root].err
        BY <1>12 DEF Ended
      <3>2. /\ ms3[x].status = ms[x].status /\ ms3[x].async = ms[x].async
            /\ ModOK(ms, ck, x) /\ OpenOK(ms, {}, x)
        BY <1>7, <1>10, <2>3
      <3>3. ModOK(ms3, ck, x)
        BY ONLY <2>0, <3>1, <3>2 DEF ModOK
      <3>4. OpenOK(ms3, {}, x)
        BY ONLY <2>0, <3>2 DEF OpenOK
      <3>5. x \in Q2 => Idle(ms, x)
        BY <1>3, <1>9
      <3>6. QueueOK(ms3, Q2, {}, x)
        BY ONLY <2>0, <3>2, <3>5 DEF QueueOK, Idle
      <3> QED BY <3>3, <3>4, <3>6
    <2> QED BY <2>2, <2>3
  <1>14. Each(ms3, {}, Q2, {}, ck)
    BY ONLY <1>7, <1>13 DEF Each
  <1>15. RunOK(ms3, B2, aw2, jb2)
    BY <1>7, RunKept
  <1>16. Reporting(ms3, Q2, {}, ck)
    <2> SUFFICES ASSUME NEW x \in 1..Len(ms), NEW p \in 1..Len(ms), Has(ms3[x].parents, p)
                 PROVE  ReportOK(ms3, Q2, {}, ck, x, p)
      BY <1>7 DEF Reporting
    <2>0. Has(ms[x].parents, p)
      BY <1>7
    <2>1. ReportOK(ms, {}, {}, ck, x, p)
      BY <1>1, <2>0 DEF Reporting
    <2> QED BY ONLY <1>7, <1>11, <2>1, x \in 1..Len(ms), p \in 1..Len(ms) DEF ReportOK
  <1> DEFINE C == {x \in 1..Len(ms) : ms[x].async}
             C2 == {x \in 1..Len(ms) : ms[x].async /\ x \notin Fr}
  <1>17. CountedIn(world, ms, {}, {}) = C
    BY DEF CountedIn, Early
  <1>18. CountedIn(world, ms3, Q2, {}) = C2
    <2>1. \A x \in 1..Len(ms) : (ms3[x].async /\ ~Early(world, ms3, Q2, {}, x)) <=> ms[x].async /\ x \notin Fr
      BY <1>5, <1>7, <1>9 DEF Early
    <2> QED BY <1>7, <2>1 DEF CountedIn
  <1>19. C2 \subseteq 1..Len(ms) /\ C \subseteq 1..Len(ms) /\ C = {x \in 1..Len(ms) : ms[x].async}
         /\ C2 = {x \in 1..Len(ms) : ms[x].async /\ x \notin Fr}
    OBVIOUS
  <1> HIDE DEF C, C2
  <1>20. ASSUME NEW p \in 1..Len(ms), ms[p].status = "async", ms[p].runs = 0, ms[p].root # 0, ms[ms[p].root].err = 0
         PROVE  /\ ms[p].pending \in Nat /\ Waits(ms2, Fr, p) \in Nat /\ Waits(ms3, C2, p) \in Nat
                /\ ms[p].pending = Waits(ms2, Fr, p) + Waits(ms3, C2, p) /\ ms[p].pending # 0
                /\ p \notin Waiters(ms2, Fr) => Waits(ms2, Fr, p) = 0
    <2>1. Waiting(ms, p)
      BY <1>10, <1>20 DEF Waiting, ModOK
    <2>2. PendingOK(world, ms, {}, {}, {}, p) /\ WaitsOn(ms, {}, p)
      BY <1>1 DEF Counting
    <2>3. ms[p].pending = Waits(ms, C, p) /\ ms[p].pending # 0
      BY <1>17, <2>1, <2>2 DEF PendingOK, WaitsOn, Exact
    <2>4. SameParents(ms, ms3)
      BY <1>7 DEF SameParents
    <2>5. /\ Waits(ms, Fr, p) \in Nat /\ Waits(ms3, C2, p) \in Nat
          /\ ms[p].pending = Waits(ms, Fr, p) + Waits(ms3, C2, p)
      <3>1. \A x \in A : x # d /\ Idle(ms, x)
        BY <1>3
      <3>2. A \in SUBSET (1..Len(ms)) /\ Fr \in SUBSET (1..Len(ms)) /\ d \in Fr /\ \A x \in Fr : x = d \/ x \in A
        BY <1>3, <1>4
      <3>3. Collecting(ms, ms3, d, ck, A, Fr, C, C2)
        BY ONLY <1>1, <1>19, <2>4, <3>1, <3>2, RootsOK(ms), ParentsIn(ms), NoneOpen(ms), ms[d].status = "async"
           DEF Collecting
      <3> QED BY ONLY <1>20, <2>3, <3>3, ms \in Seq(ModRec), ms3 \in Seq(ModRec), d \in 1..Len(ms),
                      p \in 1..Len(ms), CollectsWaits
    <2>6. Waits(ms2, Fr, p) = Waits(ms, Fr, p)
      <3>1. SameTold(ms, Fr, ms2, Fr, p)
        BY ONLY <1>2, <1>4 DEF SameTold
      <3>2. Fr \in SUBSET (1..Len(ms2)) /\ p \in Nat
        BY <1>2, <1>4, ModIs
      <3> QED BY ONLY <1>4, <3>1, <3>2, ms \in Seq(ModRec), ms2 \in Seq(ModRec), WaitsSame
    <2>7. ASSUME p \notin Waiters(ms2, Fr) PROVE Waits(ms2, Fr, p) = 0
      <3>1. ms2[p].root # 0 /\ ms2[ms2[p].root].err = 0
        <4>1. ms[p].root \in 1..Len(ms)
          BY <1>20, EndedRoot DEF Ended
        <4> QED BY <1>2, <1>20, <4>1
      <3>2. \A x \in Fr : ~Has(ms2[x].parents, p)
        BY <1>6, <2>7, <3>1
      <3> QED BY <1>2, <1>4, <3>2, WaitsNone
    <2>8. ms[p].pending \in Nat
      BY ModIs
    <2> QED BY <2>3, <2>5, <2>6, <2>7, <2>8
  <1>21. ASSUME NEW p \in 1..Len(ms), Waiting(ms3, p)
         PROVE  ms[p].status = "async" /\ ms[p].runs = 0 /\ ms[p].root # 0 /\ ms[ms[p].root].err = 0
    <2>1. p # d
      BY <1>7, <1>21 DEF Waiting
    <2>2. ms[p].status = "async" /\ ms[p].runs = 0
      BY <1>7, <1>11, <1>21, <2>1 DEF Waiting
    <2>3. ms[p].root # 0
      BY <2>2 DEF RootsOK, Ended
    <2> QED BY <1>7, <1>12, <1>21, <2>1, <2>2, <2>3 DEF Waiting, Ended
  <1>22. ASSUME NEW p \in 1..Len(ms), ms[p].status = "async", ms[p].runs = 0, ms[p].root # 0, ms[ms[p].root].err = 0
         PROVE  /\ ms3[p].pending = Waits(ms3, C2, p)
                /\ p \in A => Waits(ms3, C2, p) = 0
                /\ p \notin A => ms3[p].pending # 0
    <2>1. /\ ms[p].pending \in Nat /\ Waits(ms2, Fr, p) \in Nat /\ Waits(ms3, C2, p) \in Nat
          /\ ms[p].pending = Waits(ms2, Fr, p) + Waits(ms3, C2, p) /\ ms[p].pending # 0
          /\ p \notin Waiters(ms2, Fr) => Waits(ms2, Fr, p) = 0
      BY <1>20, <1>22
    <2>2. p \in A <=> p \in Waiters(ms2, Fr) /\ ms[p].pending <= Waits(ms2, Fr, p)
      BY <1>2, <1>6
    <2>3. /\ p \in Waiters(ms2, Fr) => ms3[p].pending = ms[p].pending - MinOf(ms[p].pending, Waits(ms2, Fr, p))
          /\ p \notin Waiters(ms2, Fr) => ms3[p].pending = ms[p].pending
      BY <1>8
    <2>4. CASE p \in Waiters(ms2, Fr)
      <3>1. /\ Waits(ms2, Fr, p) <= ms[p].pending
            /\ ms[p].pending - MinOf(ms[p].pending, Waits(ms2, Fr, p)) = Waits(ms3, C2, p)
            /\ (ms[p].pending <= Waits(ms2, Fr, p) => Waits(ms3, C2, p) = 0)
            /\ (~(ms[p].pending <= Waits(ms2, Fr, p)) => Waits(ms3, C2, p) # 0)
        BY ONLY <2>1 DEF MinOf
      <3> QED BY ONLY <2>2, <2>3, <2>4, <3>1
    <2>5. CASE p \notin Waiters(ms2, Fr)
      <3>1. ms[p].pending = Waits(ms3, C2, p)
        BY ONLY <2>1, <2>5
      <3> QED BY ONLY <2>1, <2>2, <2>3, <2>5, <3>1
    <2> QED BY <2>4, <2>5
  <1>23. ASSUME NEW p \in 1..Len(ms)
         PROVE  PendingOK(world, ms3, {}, Q2, {}, p) /\ WaitsOn(ms3, Q2, p) /\ FreeOK(world, ms3, Q2, {}, p)
    <2>1. PendingOK(world, ms3, {}, Q2, {}, p)
      BY <1>18, <1>21, <1>22 DEF PendingOK, Exact
    <2>2. WaitsOn(ms3, Q2, p)
      BY <1>9, <1>21, <1>22 DEF WaitsOn
    <2>3. FreeOK(world, ms3, Q2, {}, p)
      <3> SUFFICES ASSUME p \in Q2, ms3[p].status = "async" PROVE \A x \in C2 : ~Has(ms3[x].parents, p)
        BY <1>18 DEF FreeOK
      <3>1. p \in A /\ p # d /\ Idle(ms, p)
        BY <1>3, <1>9
      <3>2. ms[p].status = "async" /\ ms[p].runs = 0 /\ ms[p].root # 0 /\ ms[ms[p].root].err = 0
        BY <1>7, <3>1 DEF Idle
      <3>3. Waits(ms3, C2, p) = 0
        BY <1>22, <3>1, <3>2
      <3>4. C2 \subseteq 1..Len(ms3)
        BY ONLY <1>7, <1>19
      <3> QED BY ONLY <3>3, <3>4, ms3 \in Seq(ModRec), WaitsNone
    <2> QED BY <2>1, <2>2, <2>3
  <1>24. Counting(world, ms3, {}, Q2, {})
    BY ONLY <1>7, <1>23 DEF Counting
  <1> QED BY ONLY <1>14, <1>15, <1>16, <1>24 DEF Count
(* A module that became available failed meanwhile.                        *)
LEMMA CountSkips ==
    ASSUME NEW w, NEW ms \in Seq(ModRec), NEW d, ~ms[d].async, ms[d].status = "evaluated",
           NEW O, NEW B, NEW Q, NEW R, NEW jb, NEW aw, NEW ck, Count(w, ms, O, B, Q, R, jb, aw, ck),
           NEW Q2, \A x : x \in Q2 => x \in Q, \A x : x \in Q => x \in Q2 \/ x = d,
           NEW B2, RunOK(ms, B2, aw, jb)
    PROVE  Count(w, ms, O, B2, Q2, R, jb, aw, ck)
  <1>1. /\ Each(ms, O, Q, R, ck) /\ Reporting(ms, Q, R, ck) /\ Counting(w, ms, O, Q, R)
    BY DEF Count
  <1>2. Each(ms, O, Q2, R, ck)
    BY <1>1 DEF Each, QueueOK
  <1>3. Reporting(ms, Q2, R, ck)
    BY <1>1 DEF Reporting, ReportOK
  <1>4. \A x \in 1..Len(ms) : Counted(w, ms, Q2, R, x) <=> Counted(w, ms, Q, R, x)
    BY DEF Counted, Early
  <1>5. ~Waiting(ms, d)
    BY DEF Waiting
  <1>6. KeepsPending(w, ms, O, Q, R, ms, O, Q2, R)
    BY <1>4 DEF KeepsPending
  <1>7. KeepsWaiting(ms, Q, ms, Q2)
    BY <1>5 DEF KeepsWaiting
  <1>8. KeepsFree(w, ms, Q, R, ms, Q2, R)
    BY <1>4 DEF KeepsFree
  <1>9. SameParents(ms, ms)
    BY DEF SameParents
  <1>10. Counting(w, ms, O, Q2, R)
    BY <1>1, <1>6, <1>7, <1>8, <1>9, CountingKept
  <1> QED BY ONLY <1>2, <1>3, <1>10, RunOK(ms, B2, aw, jb) DEF Count

(* The first of the modules that became available is executed: none that   *)
(* will report is among those that report to it.                           *)
First(ms, Q, d) == \A x \in Q : x # d => ms[d].timestamp < ms[x].timestamp

(* The first module in the order of timestamps is run.                     *)
LEMMA CountRuns ==
    ASSUME NEW w, NEW ms \in Seq(ModRec), NEW ms2 \in Seq(ModRec), RootsOK(ms), ParentsIn(ms), NoneOpen(ms),
           NEW d \in 1..Len(ms), ms[d].status # "evaluated", Starts(ms, ms2, d, 1, FALSE, 0),
           NEW B, NEW Q, NEW jb, NEW aw, NEW ck, Count(w, ms, {}, B, Q, {}, jb, aw, ck), d \in Q, First(ms, Q, d),
           NEW Q2, NEW R2, NEW B2, \A x : x \in Q2 <=> x \in Q /\ x # d, \A x : x \in R2 <=> x = d,
           \A x : x \in B2 <=> x = d, \A k \in 1..Len(jb) : jb[k][1] \in 1..Len(ms)
    PROVE  Count(w, ms2, {}, B2, Q2, R2, jb, aw, ck)
  <1>1. /\ Each(ms, {}, Q, {}, ck) /\ RunOK(ms, B, aw, jb) /\ Reporting(ms, Q, {}, ck) /\ Counting(w, ms, {}, Q, {})
    BY DEF Count
  <1>2. /\ Len(ms2) = Len(ms)
        /\ \A x \in 1..Len(ms) :
              /\ ms2[x].name = ms[x].name /\ ms2[x].root = ms[x].root /\ ms2[x].status = ms[x].status
              /\ ms2[x].timestamp = ms[x].timestamp /\ ms2[x].err = ms[x].err /\ ms2[x].async = ms[x].async
              /\ ms2[x].parents = ms[x].parents /\ ms2[x].pending = ms[x].pending
        /\ \A x \in 1..Len(ms) : x # d => ms2[x].runs = ms[x].runs
        /\ ms2[d].runs = ms[d].runs + 1
    BY DEF Starts, OthersSame, SameMod, SameShape, SameEval
  <1>3. \A x \in 1..Len(ms) : ModOK(ms, ck, x) /\ OpenOK(ms, {}, x) /\ QueueOK(ms, Q, {}, x)
    BY <1>1 DEF Each
  <1>4. /\ ms[d].status = "async" /\ ms[d].async /\ ms[d].err = 0 /\ ms[d].runs = 0
        /\ \A x \in 1..Len(ms) : ms[x].status # "evaluating"
    BY <1>3 DEF ModOK, QueueOK, NoneOpen
  <1>4a. ms2[d].runs = 1
    BY ONLY <1>2, <1>4
  <1>5. ASSUME NEW x \in 1..Len(ms), ms[x].status \in Ended
        PROVE  ms2[ms[x].root].err = ms[ms[x].root].err
    <2>1. ms[x].root \in 1..Len(ms)
      BY <1>5, EndedRoot
    <2> QED BY <1>2, <2>1
  <1>6. \A x \in 1..Len(ms) : ModOK(ms2, ck, x) /\ OpenOK(ms2, {}, x) /\ QueueOK(ms2, Q2, R2, x)
    <2> SUFFICES ASSUME NEW x \in 1..Len(ms) PROVE ModOK(ms2, ck, x) /\ OpenOK(ms2, {}, x) /\ QueueOK(ms2, Q2, R2, x)
      OBVIOUS
    <2>0. /\ ms2[x].status = ms[x].status /\ ms2[x].async = ms[x].async
          /\ ms2[x].timestamp = ms[x].timestamp /\ ms2[x].err = ms[x].err
          /\ ms2[x].parents = ms[x].parents /\ ms2[x].root = ms[x].root
      BY <1>2
    <2>1. ModOK(ms, ck, x) /\ OpenOK(ms, {}, x) /\ QueueOK(ms, Q, {}, x)
      BY <1>3
    <2>2. CASE x = d
      <3>1. /\ ms2[x].status = "async" /\ ms2[x].err = 0 /\ ms2[x].runs = 1 /\ ms2[x].async
            /\ x \notin Q2 /\ ms2[x].timestamp < ck
        BY <1>2, <1>4, <1>4a, <2>0, <2>1, <2>2 DEF ModOK
      <3>2. ModOK(ms2, ck, x)
        BY ONLY <3>1 DEF ModOK, Fresh
      <3> QED BY ONLY <3>1, <3>2 DEF OpenOK, QueueOK
    <2>3. CASE x # d
      <3>1. ms[x].status = "evaluated" => ms2[ms[x].root].err = ms[ms[x].root].err
        BY <1>5 DEF Ended
      <3>2. ms2[x].runs = ms[x].runs /\ (x \in Q2 <=> x \in Q) /\ x \notin R2
        BY <1>2, <2>3
      <3>3. ModOK(ms2, ck, x)
        BY ONLY <2>0, <2>1, <3>1, <3>2 DEF ModOK
      <3>4. OpenOK(ms2, {}, x)
        BY ONLY <2>0, <2>1, <3>2 DEF OpenOK
      <3>5. QueueOK(ms2, Q2, R2, x)
        BY ONLY <2>0, <2>1, <3>2 DEF QueueOK
      <3> QED BY <3>3, <3>4, <3>5
    <2> QED BY <2>2, <2>3
  <1>7. Each(ms2, {}, Q2, R2, ck)
    BY ONLY <1>2, <1>6 DEF Each
  <1>8. RunOK(ms2, B2, aw, jb)
    <2>1. \A x \in 1..Len(ms) : ms[x].runs = 1 => ms2[x].runs = 1
      BY <1>2, <1>4
    <2>2. \A x \in 1..Len(ms2) : x \in B2 \/ x \in aw => ms2[x].runs = 1
      BY <1>1, <1>2, <1>4a, <2>1 DEF RunOK
    <2>3. \A k \in 1..Len(jb) : ms2[jb[k][1]].runs = 1
      BY <1>1, <2>1 DEF RunOK
    <2> QED BY ONLY <2>2, <2>3 DEF RunOK
  <1>9. ASSUME NEW x \in 1..Len(ms), Has(ms[x].parents, d) PROVE ~ms[x].async
    <2> SUFFICES ASSUME ms[x].async PROVE FALSE
      OBVIOUS
    <2>1. FreeOK(w, ms, Q, {}, d)
      BY <1>1 DEF Counting
    <2>2. ~Counted(w, ms, Q, {}, x)
      BY <1>4, <1>9, <2>1, CountedIs DEF FreeOK
    <2>3. x \in Q
      BY <2>2 DEF Counted, Early
    <2>4. ReportOK(ms, Q, {}, ck, x, d)
      BY <1>1, <1>9 DEF Reporting
    <2>5. ms[x].timestamp < ms[d].timestamp
      BY <1>4, <2>4 DEF ReportOK
    <2>6. x # d => ms[d].timestamp < ms[x].timestamp
      BY <2>3 DEF First
    <2>7. ms[x].timestamp \in Nat /\ ms[d].timestamp \in Nat
      BY ModIs
    <2>8. CASE x = d
      BY ONLY <2>5, <2>7, <2>8
    <2>9. CASE x # d
      BY ONLY <2>5, <2>6, <2>7, <2>9
    <2> QED BY <2>8, <2>9
  <1>10. Reporting(ms2, Q2, R2, ck)
    <2> SUFFICES ASSUME NEW x \in 1..Len(ms), NEW p \in 1..Len(ms), Has(ms2[x].parents, p)
                 PROVE  ReportOK(ms2, Q2, R2, ck, x, p)
      BY <1>2 DEF Reporting
    <2>0. Has(ms[x].parents, p)
      BY <1>2
    <2>1. ReportOK(ms, Q, {}, ck, x, p)
      BY <1>1, <2>0 DEF Reporting
    <2>2. CASE p # d
      BY ONLY <1>2, <1>4, <2>1, <2>2, x \in 1..Len(ms), p \in 1..Len(ms) DEF ReportOK
    <2>3. CASE p = d
      <3>1. ~ms[x].async
        BY ONLY <1>9, <2>0, <2>3, x \in 1..Len(ms)
      <3> QED BY ONLY <1>2, <1>4, <2>1, <2>3, <3>1, x \in 1..Len(ms), p \in 1..Len(ms) DEF ReportOK
    <2> QED BY <2>2, <2>3
  <1>11. \A x \in 1..Len(ms) : (Counted(w, ms2, Q2, R2, x) <=> Counted(w, ms, Q, {}, x))
    BY <1>2 DEF Counted, Early
  <1>12. ASSUME NEW p \in 1..Len(ms) PROVE Waiting(ms2, p) => Waiting(ms, p) /\ p # d
    <2>1. ms[p].status = "async" => ms2[ms[p].root].err = ms[ms[p].root].err
      BY <1>5 DEF Ended
    <2> QED BY ONLY <1>2, <1>4, <1>4a, <2>1, p \in 1..Len(ms) DEF Waiting
  <1>14. KeepsPending(w, ms, {}, Q, {}, ms2, {}, Q2, R2)
    BY <1>2, <1>11, <1>12 DEF KeepsPending, Exact
  <1>15. KeepsWaiting(ms, Q, ms2, Q2)
    BY <1>2, <1>12 DEF KeepsWaiting
  <1>16. KeepsFree(w, ms, Q, {}, ms2, Q2, R2)
    BY <1>2, <1>11 DEF KeepsFree
  <1>17. SameParents(ms, ms2)
    BY <1>2 DEF SameParents
  <1>18. Counting(w, ms2, {}, Q2, R2)
    BY <1>1, <1>14, <1>15, <1>16, <1>17, CountingKept
  <1> QED BY ONLY <1>7, <1>8, <1>10, <1>18 DEF Count
-----------------------------------------------------------------------------
(* The steps keep the counting.                                            *)

(* The calls in progress have modules in hand.                             *)
JobsIn(ms, jb) == \A k \in 1..Len(jb) : jb[k][1] \in 1..Len(ms)

(* What is in hand are modules.                                            *)
LEMMA HandsAre ==
    ASSUME ShapeInv
    PROVE  /\ OpenNow \subseteq 1..Len(mods) /\ RunNow \subseteq 1..Len(mods)
           /\ QueueNow \subseteq 1..Len(mods) /\ ReactNow \subseteq 1..Len(mods)
           /\ JobsIn(mods, jobs) /\ awaiting \subseteq 1..Len(mods)
           /\ RootsOK(mods) /\ ParentsIn(mods) /\ mods \in Seq(ModRec) /\ clock \in Nat
  <1>1. /\ OpenNow \subseteq 1..Len(mods) /\ RunNow \subseteq 1..Len(mods)
        /\ QueueNow \subseteq 1..Len(mods) /\ ReactNow \subseteq 1..Len(mods)
    BY DEF OpenNow, RunNow, QueueNow, ReactNow, OpenIn, RunIn, QueueIn, ReactIn
  <1>2. QueuedOK(mods, jobs, awaiting) /\ awaiting \subseteq 1..Len(mods) /\ RootsOK(mods) /\ ParentsIn(mods)
        /\ mods \in Seq(ModRec) /\ clock \in Nat
    BY ShapeIs
  <1>3. JobsIn(mods, jobs)
    BY ONLY <1>2 DEF QueuedOK, JobsIn
  <1> QED BY <1>1, <1>2, <1>3

(* What the counting says of bodies.                                       *)
LEMMA CountIs ==
    ASSUME CountInv
    PROVE  /\ \A x \in 1..Len(mods) : x \in RunNow \/ x \in awaiting => mods[x].runs = 1
           /\ \A k \in 1..Len(jobs) : mods[jobs[k][1]].runs = 1
           /\ \A x \in 1..Len(mods) : x \in ReactNow => mods[x].status = "async"
  <1>1. RunOK(mods, RunNow, awaiting, jobs) /\ Each(mods, OpenNow, QueueNow, ReactNow, clock)
    BY DEF CountInv, Count
  <1>2. \A x \in 1..Len(mods) : x \in ReactNow => mods[x].status = "async"
    BY ONLY <1>1 DEF Each, QueueOK
  <1> QED BY <1>1, <1>2 DEF RunOK

(* A step after which there is as much in hand, or less that runs.         *)
LEMMA CountsKept ==
    ASSUME ShapeInv, CountInv, mods' \in Seq(ModRec), Len(mods') = Len(mods), world' = world, clock' = clock,
           \A x \in 1..Len(mods) : Kept(mods[x], mods'[x]),
           OpenNow' = OpenNow, QueueNow' = QueueNow, ReactNow' = ReactNow,
           RunOK(mods, RunNow', awaiting', jobs'), JobsIn(mods, jobs')
    PROVE  CountInv'
  <1>1. RootsOK(mods) /\ ParentsIn(mods) /\ mods \in Seq(ModRec)
    BY HandsAre
  <1>2. Count(world, mods, OpenNow, RunNow, QueueNow, ReactNow, jobs, awaiting, clock)
    BY DEF CountInv
  <1>3. \A k \in 1..Len(jobs') : jobs'[k][1] \in 1..Len(mods)
    BY DEF JobsIn
  <1>4. Count(world, mods', OpenNow, RunNow', QueueNow, ReactNow, jobs', awaiting', clock)
    BY ONLY <1>1, <1>2, <1>3, CountSame, mods' \in Seq(ModRec), Len(mods') = Len(mods),
       \A x \in 1..Len(mods) : Kept(mods[x], mods'[x]), RunOK(mods, RunNow', awaiting', jobs')
  <1> QED BY ONLY <1>4, world' = world, clock' = clock, OpenNow' = OpenNow, QueueNow' = QueueNow, ReactNow' = ReactNow
       DEF CountInv

(* A quiet step.                                                           *)
LEMMA CountsQuiet ==
    ASSUME ShapeInv, ShapeInv', CountInv, QuietStep
    PROVE  CountInv'
  <1>1. /\ OpenNow \subseteq 1..Len(mods) /\ RunNow \subseteq 1..Len(mods)
        /\ QueueNow \subseteq 1..Len(mods) /\ ReactNow \subseteq 1..Len(mods)
        /\ JobsIn(mods, jobs) /\ awaiting \subseteq 1..Len(mods)
        /\ RootsOK(mods) /\ ParentsIn(mods) /\ mods \in Seq(ModRec)
    BY HandsAre
  <1>2. mods' \in Seq(ModRec)
    BY DEF ShapeInv, Shape, Typed
  <1>3. OpenNow' = OpenNow /\ RunNow' = RunNow /\ QueueNow' = QueueNow /\ ReactNow' = ReactNow
    BY ViewsQuiet
  <1>4. Count(world, mods, OpenNow, RunNow, QueueNow, ReactNow, jobs, awaiting, clock)
    BY DEF CountInv
  <1>5. QuietMods(mods, mods') /\ world' = world /\ jobs' = jobs /\ awaiting' = awaiting /\ clock' = clock
    BY DEF QuietStep
  <1>6. \A k \in 1..Len(jobs) : jobs[k][1] \in 1..Len(mods)
    BY <1>1 DEF JobsIn
  <1>7. Count(world, mods', OpenNow, RunNow, QueueNow, ReactNow, jobs, awaiting, clock)
    BY ONLY <1>1, <1>2, <1>4, <1>5, <1>6, CountQuiet
  <1> QED BY ONLY <1>3, <1>5, <1>7 DEF CountInv

(* A body with an await that a reaction executed leaves it.                *)
LEMMA CountDrops ==
    ASSUME NEW w, NEW ms, NEW O, NEW B, NEW Q, NEW R, NEW jb, NEW aw, NEW ck, Count(w, ms, O, B, Q, R, jb, aw, ck),
           NEW R2, \A x : x \in R2 => x \in R, \A x \in 1..Len(ms) : x \in R => x \in R2 \/ ms[x].name \in w.has_tla
    PROVE  Count(w, ms, O, B, Q, R2, jb, aw, ck)
  <1>1. Each(ms, O, Q, R, ck) /\ RunOK(ms, B, aw, jb) /\ Reporting(ms, Q, R, ck) /\ Counting(w, ms, O, Q, R)
    BY DEF Count
  <1>2. Each(ms, O, Q, R2, ck)
    BY ONLY <1>1, \A x : x \in R2 => x \in R DEF Each, QueueOK
  <1>3. Reporting(ms, Q, R2, ck)
    BY ONLY <1>1, \A x : x \in R2 => x \in R DEF Reporting, ReportOK
  <1>4. \A x \in 1..Len(ms) : Early(w, ms, Q, R2, x) <=> Early(w, ms, Q, R, x)
    BY ONLY \A x : x \in R2 => x \in R, \A x \in 1..Len(ms) : x \in R => x \in R2 \/ ms[x].name \in w.has_tla DEF Early
  <1>5. CountedIn(w, ms, Q, R2) = CountedIn(w, ms, Q, R)
    BY ONLY <1>4 DEF CountedIn
  <1>6. Counting(w, ms, O, Q, R2)
    BY ONLY <1>1, <1>5 DEF Counting, PendingOK, FreeOK
  <1> QED BY ONLY <1>1, <1>2, <1>3, <1>6 DEF Count
(* The calls of an evaluation keep the links.                              *)
LEMMA CountsEnter ==
    ASSUME ShapeInv, CountInv, stk # <<>>, Top.op = "js_evaluate_module", NEW d \in 1..Len(mods),
           mods[d].status = "linked", Enters(mods, mods', d, Top.i, "evaluating"), stk' = Enter(d),
           mods' \in Seq(ModRec), UNCHANGED <<world, loaded, jobs, awaiting, clock>>
    PROVE  CountInv'
  <1>1. JobsIn(mods, jobs) /\ RootsOK(mods) /\ ParentsIn(mods) /\ mods \in Seq(ModRec)
    BY HandsAre
  <1>2. LinksSame
    BY ONLY Enters(mods, mods', d, Top.i, "evaluating"), d \in 1..Len(mods)
       DEF Enters, LinksSame, OthersSame, SameMod, SameShape
  <1>3. OpenNow' = OpenNow \cup {d} /\ RunNow' = RunNow /\ QueueNow' = QueueNow /\ ReactNow' = ReactNow
    BY <1>2, ViewsEnter
  <1>4. Count(world, mods, OpenNow, RunNow, QueueNow, ReactNow, jobs, awaiting, clock)
    BY DEF CountInv
  <1>5. \A k \in 1..Len(jobs) : jobs[k][1] \in 1..Len(mods)
    BY <1>1 DEF JobsIn
  <1>6. Count(world, mods', OpenNow', RunNow, QueueNow, ReactNow, jobs, awaiting, clock)
    BY ONLY <1>1, <1>3, <1>4, <1>5, CountEnters, d \in 1..Len(mods), mods[d].status = "linked",
       Enters(mods, mods', d, Top.i, "evaluating"), mods' \in Seq(ModRec)
  <1> QED BY ONLY <1>3, <1>6, UNCHANGED <<world, loaded, jobs, awaiting, clock>> DEF CountInv

(* What an evaluation has on its list when it fails.                       *)
LEMMA CountsFail ==
    ASSUME ShapeInv, stk # <<>>, Top.op = "js_evaluate_module", Top.list # <<>>,
           NEW ms \in Seq(ModRec), Len(ms) = Len(mods), \A x \in 1..Len(mods) : SameShape(mods[x], ms[x]),
           RootsOK(ms), ParentsIn(ms),
           Count(world, ms, OpenNow, RunNow, QueueNow, ReactNow, jobs, awaiting, clock),
           NEW e \in 1..Len(mods), Fails(ms, mods', ToSet(Top.list), e, Top.list[1]), stk' = Pop,
           mods' \in Seq(ModRec), UNCHANGED <<world, loaded, jobs, awaiting, clock>>
    PROVE  CountInv'
  <1>1. JobsIn(mods, jobs) /\ Top \in CallRec
    BY HandsAre, TopIs
  <1>2. \A x \in 1..Len(mods) : ms[x].links = mods[x].links /\ ms[x].status = mods[x].status
    BY ONLY \A x \in 1..Len(mods) : SameShape(mods[x], ms[x]) DEF SameShape
  <1>3. LinksSame
    BY ONLY <1>2, Len(ms) = Len(mods), Fails(ms, mods', ToSet(Top.list), e, Top.list[1]) DEF Fails, SameBase, LinksSame
  <1>4. /\ \A x : x \in OpenNow' <=> x \in OpenNow /\ ~Has(Top.list, x)
        /\ RunNow' = RunNow \ {Top.body} /\ QueueNow' = QueueNow /\ ReactNow' = ReactNow
    BY <1>3, ViewsPop
  <1>5. Top.list \in Seq(Nat) /\ 1 \in 1..Len(Top.list)
    BY <1>1, CallFields
  <1>6. \A x : x \in ToSet(Top.list) <=> Has(Top.list, x)
    BY <1>5, ToSetHas
  <1>7. Top.list[1] \in ToSet(Top.list)
    BY ONLY <1>5, <1>6 DEF Has
  <1>8. \A x : Has(Top.list, x) => x \in 1..Len(mods) /\ mods[x].status = "evaluating"
    BY WalkIs, EvalOp
  <1>9. \A x \in ToSet(Top.list) : x \in 1..Len(ms) /\ ms[x].status = "evaluating"
    BY ONLY <1>2, <1>6, <1>8, Len(ms) = Len(mods)
  <1>10. \A x \in 1..Len(ms) : x \in OpenNow' <=> x \in OpenNow /\ x \notin ToSet(Top.list)
    BY ONLY <1>4, <1>6
  <1>11. \A k \in 1..Len(jobs) : jobs[k][1] \in 1..Len(ms)
    BY <1>1 DEF JobsIn
  <1>12. e \in Nat /\ e # 0 /\ RunNow' \subseteq RunNow
    BY <1>4
  <1>13. Count(world, mods', OpenNow', RunNow', QueueNow, ReactNow, jobs, awaiting, clock)
    BY ONLY <1>7, <1>9, <1>10, <1>11, <1>12, CountFails, ms \in Seq(ModRec), mods' \in Seq(ModRec), RootsOK(ms), ParentsIn(ms),
       Count(world, ms, OpenNow, RunNow, QueueNow, ReactNow, jobs, awaiting, clock),
       Fails(ms, mods', ToSet(Top.list), e, Top.list[1])
  <1> QED BY ONLY <1>4, <1>13, UNCHANGED <<world, loaded, jobs, awaiting, clock>> DEF CountInv

(* A call that entered no module ends.                                     *)
LEMMA CountsPop ==
    ASSUME ShapeInv, CountInv, stk # <<>>, Top.op = "js_evaluate_module", Top.list = <<>>, stk' = Pop,
           mods' \in Seq(ModRec), Len(mods') = Len(mods),
           \A x \in 1..Len(mods) : Kept(mods[x], mods'[x]) /\ mods'[x].links = mods[x].links,
           UNCHANGED <<world, loaded, jobs, awaiting, clock>>
    PROVE  CountInv'
  <1>1. LinksSame
    BY DEF LinksSame
  <1>2. /\ \A x : x \in OpenNow' <=> x \in OpenNow /\ ~Has(Top.list, x)
        /\ RunNow' = RunNow \ {Top.body} /\ QueueNow' = QueueNow /\ ReactNow' = ReactNow
    BY <1>1, ViewsPop
  <1>3. OpenNow' = OpenNow
    BY ONLY <1>2, EmptyHas, Top.list = <<>>
  <1>4. JobsIn(mods, jobs')
    BY HandsAre
  <1>5. RunOK(mods, RunNow', awaiting', jobs')
    BY ONLY <1>2, CountIs, CountInv, UNCHANGED <<world, loaded, jobs, awaiting, clock>> DEF RunOK
  <1> QED BY <1>2, <1>3, <1>4, <1>5, CountsKept

(* js_evaluate_module keeps the counting.                                  *)
LEMMA js_evaluate_moduleCount ==
    ASSUME ShapeInv, CountInv, js_evaluate_module
    PROVE  CountInv'
  <1>1. /\ Is("js_evaluate_module") /\ stk # <<>> /\ Top.op = "js_evaluate_module" /\ Top.path = <<>>
        /\ Top.list = <<>> /\ Top.body = 0 /\ Top.d \in 1..Len(mods)
        /\ mods' \in Seq(ModRec) /\ UNCHANGED <<world, loaded, jobs, awaiting, clock>>
        /\ \/ stk' = Pop /\ mods' = mods
           \/ \E r, p : Answers(r, p)
           \/ Begins(Top.d)
    BY js_evaluate_moduleStep
  <1>2. CASE stk' = Pop /\ mods' = mods
    <2>1. Len(mods') = Len(mods) /\ \A x \in 1..Len(mods) : Kept(mods[x], mods'[x]) /\ mods'[x].links = mods[x].links
      BY ONLY <1>2 DEF Kept
    <2> QED BY <1>1, <1>2, <2>1, CountsPop
  <1>3. CASE \E r, p : Answers(r, p)
    <2>1. PICK r, p : Answers(r, p)
      BY <1>3
    <2>2. stk' = Pop /\ Promises(mods, mods', r, p) /\ r \in 1..Len(mods)
      BY ONLY <2>1 DEF Answers
    <2>3. Len(mods') = Len(mods) /\ \A x \in 1..Len(mods) : Kept(mods[x], mods'[x]) /\ mods'[x].links = mods[x].links
      BY ONLY <2>2 DEF Promises, OthersSame, SameMod, SameShape, SameEval, Kept
    <2> QED BY <1>1, <2>2, <2>3, CountsPop
  <1>4. CASE Begins(Top.d)
    <2>1. stk' = Enter(Top.d) /\ mods[Top.d].status = "linked" /\ Enters(mods, mods', Top.d, Top.i, "evaluating")
      BY ONLY <1>4 DEF Begins
    <2> QED BY <1>1, <2>1, CountsEnter
  <1> QED BY ONLY <1>1, <1>2, <1>3, <1>4
(* What a module that has no more requests does, in short.                 *)
Turns(ms, d, n, wt, ck, ck2, O, O2, B, B2) ==
    /\ n \in {0, 1} /\ wt \in BOOLEAN /\ ck \in Nat /\ ck2 \in Nat /\ d \in O /\ O2 = O \ {d}
    /\ wt => ck2 = ck + 1
    /\ ~wt => ck2 = ck
    /\ n = 0 => ms[d].pending # 0 /\ wt /\ B2 = B
    /\ n = 1 => ms[d].pending = 0 /\ B2 = B \cup {d}

(* CountStarts with its premises in one.                                   *)
LEMMA CountTurns ==
    ASSUME NEW w, NEW ms \in Seq(ModRec), NEW ms2 \in Seq(ModRec), RootsOK(ms), ParentsIn(ms),
           NEW d \in 1..Len(ms), NEW n, NEW wt, NEW ck, NEW ck2, Starts(ms, ms2, d, n, wt, ck),
           NEW O, NEW B, NEW Q, NEW R, NEW jb, NEW aw, Count(w, ms, O, B, Q, R, jb, aw, ck),
           JobsIn(ms, jb), NEW O2, NEW B2, Turns(ms, d, n, wt, ck, ck2, O, O2, B, B2)
    PROVE  Count(w, ms2, O2, B2, Q, R, jb, aw, ck2)
  <1>1. /\ n \in {0, 1} /\ wt \in BOOLEAN /\ ck \in Nat /\ ck2 \in Nat /\ d \in O /\ O2 = O \ {d}
        /\ wt => ck2 = ck + 1
        /\ ~wt => ck2 = ck
        /\ n = 0 => ms[d].pending # 0 /\ wt /\ B2 = B
        /\ n = 1 => ms[d].pending = 0 /\ B2 = B \cup {d}
    BY DEF Turns
  <1>2. \A k \in 1..Len(jb) : jb[k][1] \in 1..Len(ms)
    BY DEF JobsIn
  <1>3. CASE n = 0
    <2>1. n \in {0, 1} /\ wt /\ ck2 = ck + 1 /\ ms[d].pending # 0 /\ B2 = B /\ n # 1
      BY ONLY <1>1, <1>3
    <2>2. wt \in BOOLEAN /\ ck \in Nat /\ ck2 \in Nat /\ d \in O /\ O2 = O \ {d}
      BY ONLY <1>1
    <2> QED BY <1>2, <1>3, <2>1, <2>2, CountStarts, ZenonT(60)
  <1>4. CASE n = 1
    <2>1. n \in {0, 1} /\ ms[d].pending = 0 /\ B2 = B \cup {d} /\ n # 0 /\ (wt => ck2 = ck + 1) /\ (~wt => ck2 = ck)
      BY ONLY <1>1, <1>4
    <2>2. wt \in BOOLEAN /\ ck \in Nat /\ ck2 \in Nat /\ d \in O /\ O2 = O \ {d}
      BY ONLY <1>1
    <2>3. CASE wt
      <3>1. ck2 = ck + 1
        BY ONLY <2>1, <2>3
      <3> QED BY <1>2, <1>4, <2>1, <2>2, <2>3, <3>1, CountStarts, ZenonT(60)
    <2>4. CASE ~wt
      <3>1. wt = FALSE /\ ck2 = ck
        BY ONLY <2>1, <2>2, <2>4
      <3>2. Starts(ms, ms2, d, 1, FALSE, ck)
        BY ONLY <1>4, <3>1, Starts(ms, ms2, d, n, wt, ck)
      <3>3. FALSE \in BOOLEAN /\ 1 \in {0, 1} /\ ck \in Nat /\ (FALSE => ck = ck + 1) /\ (~FALSE => ck = ck)
            /\ (1 = 0 => ms[d].pending # 0 /\ FALSE /\ B2 = B) /\ (1 = 1 => ms[d].pending = 0 /\ B2 = B \cup {d})
        BY ONLY <2>1, <2>2
      <3>4. Count(w, ms2, O2, B2, Q, R, jb, aw, ck)
        BY <1>2, <2>2, <3>2, <3>3, CountStarts
      <3> QED BY ONLY <3>1, <3>4
    <2> QED BY ONLY <2>3, <2>4
  <1> QED BY <1>1, <1>3, <1>4
(* A module that is asked for, or tells about its cycle, is not in the     *)
(* hands of a reaction.                                                    *)
LEMMA AskedFree ==
    ASSUME ShapeInv, CycleInv, Within("js_evaluate_module"), Child \in 1..Len(mods),
           mods[Child].name \in NeedsOf(world, Top.n), NEW x, NEW a, Continues(Child, x, a)
    PROVE  x \in 1..Len(mods) /\ x \notin QueueNow /\ x \notin ReactNow
  <1>1. stk # <<>> /\ Top.op = "js_evaluate_module" /\ x \in 1..Len(mods)
    BY EvalWithin DEF Continues
  <1>2. /\ QueueNow = QueueIn(mods, Pop) /\ ReactNow = ReactIn(mods, Pop)
        /\ \A y \in 1..Len(mods) : Has(Top.list, y) => y \notin QueueNow /\ y \notin ReactNow
    BY <1>1, EvalViews
  <1>3. CASE mods[Child].status = "evaluating"
    <2>1. x = Child
      BY ONLY <1>3, Continues(Child, x, a) DEF Continues
    <2>2. Has(Top.list, Child)
      BY <1>1, <1>3, EvalOp, WalkListed
    <2> QED BY ONLY <1>1, <1>2, <2>1, <2>2
  <1>4. CASE mods[Child].status # "evaluating"
    <2>1. x = mods[Child].root /\ mods[Child].err = 0
      BY ONLY <1>4, Continues(Child, x, a) DEF Continues
    <2>2. ToRoot(world, mods)
      BY DEF CycleInv, Cycles
    <2>3. mods[x].name \in NeedsOf(world, mods[Child].name)
      BY ONLY <1>1, <2>1, <2>2, Child \in 1..Len(mods) DEF ToRoot, NeededBy
    <2>4. Top.n \in Names /\ world \in Worlds
      BY WithinIs, ShapeIs DEF Base
    <2>5. mods[x].name \in NeedsOf(world, Top.n)
      BY ONLY <2>3, <2>4, NeedsIs, mods[Child].name \in NeedsOf(world, Top.n)
    <2>6. x \notin QueueIn(mods, Pop) /\ x \notin ReactIn(mods, Pop)
      BY <1>1, <2>5, BelowViews
    <2> QED BY ONLY <1>1, <1>2, <2>6
  <1> QED BY ONLY <1>3, <1>4

(* A request that is done keeps the counting.                              *)
LEMMA ContinuesCount ==
    ASSUME ShapeInv, CycleInv, CountInv, Within("js_evaluate_module"), Cur.i \in 1..Len(mods[Cur.d].links),
           Child \in 1..Len(mods), mods[Child].name \in NeedsOf(world, Top.n),
           mods' \in Seq(ModRec), UNCHANGED <<world, loaded, jobs, awaiting, clock>>,
           NEW x, NEW a, Continues(Child, x, a)
    PROVE  CountInv'
  <1>1. x \in 1..Len(mods) /\ x \notin QueueNow /\ x \notin ReactNow
    BY AskedFree
  <1>2. stk' = WithTop(Advance(Top)) /\ Asks(mods, mods', Cur.d, x, a)
    BY ONLY Continues(Child, x, a) DEF Continues
  <1>3. LinksSame
    BY ONLY <1>2 DEF Asks, LinksSame, SameBase
  <1>4. Top \in CallRec /\ Top.path # <<>> /\ Cur.d \in 1..Len(mods) /\ Top.body = 0
    BY EvalWithin
  <1>5. Advance(Top) \in CallRec /\ Advances(Top, Advance(Top)) /\ Advance(Top).body = 0
    BY ONLY <1>4, AdvanceIs
  <1>6. Len(mods[Cur.d].links) \in Nat
    BY <1>4, ShapeIs, ModIs
  <1>7. Cur.i <= Len(mods[Cur.d].links) + 1 /\ Cur.i <= Len(mods[Cur.d].links)
    BY ONLY <1>6, Cur.i \in 1..Len(mods[Cur.d].links)
  <1>8. /\ Cur.d \in OpenNow /\ OpenNow' = OpenNow /\ RunNow' = RunNow
        /\ QueueNow' = QueueNow /\ ReactNow' = ReactNow
    BY <1>2, <1>3, <1>5, <1>7, ViewsAdvance
  <1>9. JobsIn(mods, jobs) /\ RootsOK(mods) /\ ParentsIn(mods) /\ mods \in Seq(ModRec)
    BY HandsAre
  <1>10. Count(world, mods, OpenNow, RunNow, QueueNow, ReactNow, jobs, awaiting, clock)
    BY DEF CountInv
  <1>11. \A k \in 1..Len(jobs) : jobs[k][1] \in 1..Len(mods)
    BY <1>9 DEF JobsIn
  <1>12. Count(world, mods', OpenNow, RunNow, QueueNow, ReactNow, jobs, awaiting, clock)
    BY ONLY <1>1, <1>2, <1>4, <1>8, <1>9, <1>10, <1>11, CountAsks, mods' \in Seq(ModRec)
  <1> QED BY ONLY <1>8, <1>12, UNCHANGED <<world, loaded, jobs, awaiting, clock>> DEF CountInv

(* evaluateRequest keeps the counting.                                     *)
LEMMA evaluateRequestCount ==
    ASSUME ShapeInv, CycleInv, CountInv, evaluateRequest
    PROVE  CountInv'
  <1>1. /\ Within("js_evaluate_module") /\ Cur.i \in 1..Len(mods[Cur.d].links)
        /\ Child \in 1..Len(mods) /\ mods[Child].name \in NeedsOf(world, Top.n)
        /\ mods' \in Seq(ModRec) /\ UNCHANGED <<world, loaded, jobs, awaiting, clock>>
        /\ \/ Descends(Child)
           \/ \E e : GivesUp(Child, e)
           \/ \E x, a : Continues(Child, x, a)
    BY evaluateRequestStep
  <1>2. stk # <<>> /\ Top.op = "js_evaluate_module" /\ Top.list # <<>>
    BY <1>1, EvalWithin
  <1>3. CASE Descends(Child)
    <2>1. stk' = Enter(Child) /\ mods[Child].status = "linked" /\ Enters(mods, mods', Child, Top.i, "evaluating")
      BY ONLY <1>3 DEF Descends
    <2> QED BY <1>1, <1>2, <2>1, CountsEnter
  <1>4. CASE \E e : GivesUp(Child, e)
    <2>1. PICK e : GivesUp(Child, e)
      BY <1>4
    <2>2. stk' = Pop /\ e \in 1..Len(mods) /\ Fails(mods, mods', ToSet(Top.list), e, Top.list[1])
      BY ONLY <2>1 DEF GivesUp
    <2>3. RootsOK(mods) /\ ParentsIn(mods) /\ mods \in Seq(ModRec)
      BY HandsAre
    <2>4. Count(world, mods, OpenNow, RunNow, QueueNow, ReactNow, jobs, awaiting, clock)
      BY DEF CountInv
    <2>5. \A x \in 1..Len(mods) : SameShape(mods[x], mods[x])
      BY DEF SameShape
    <2> QED BY <1>1, <1>2, <2>2, <2>3, <2>4, <2>5, CountsFail
  <1>5. CASE \E x, a : Continues(Child, x, a)
    BY <1>1, <1>5, ContinuesCount
  <1> QED BY ONLY <1>1, <1>3, <1>4, <1>5

(* waitForRequests and executeModule keep the counting.                    *)
LEMMA executeCount ==
    ASSUME ShapeInv, CountInv, waitForRequests \/ executeModule
    PROVE  CountInv'
  <1>1. /\ Within("js_evaluate_module") /\ Cur.i = Len(mods[Cur.d].links) + 1
        /\ mods' \in Seq(ModRec) /\ UNCHANGED <<world, loaded, jobs, awaiting>>
        /\ \E n, w : Executes(n, w)
    BY executeStep
  <1>2. PICK n, w : Executes(n, w)
    BY <1>1
  <1>3. /\ Starts(mods, mods', Cur.d, n, w, clock) /\ w \in BOOLEAN /\ n \in {0, 1}
        /\ n = 0 => mods[Cur.d].pending > 0 /\ w /\ stk' = WithTop(Advance(Top))
        /\ n = 1 => mods[Cur.d].pending = 0 /\ stk' = WithTop([Advance(Top) EXCEPT !.body = Cur.d])
        /\ w => clock' = clock + 1
        /\ ~w => clock' = clock
    BY ONLY <1>2 DEF Executes
  <1>4. Top \in CallRec /\ Top.path # <<>> /\ Cur.d \in 1..Len(mods) /\ Top.body = 0
    BY <1>1, EvalWithin
  <1>5. Advance(Top) \in CallRec /\ Advances(Top, Advance(Top)) /\ Advance(Top).body = 0
    BY ONLY <1>4, AdvanceIs
  <1>6. LinksSame
    BY ONLY <1>3, <1>4 DEF Starts, OthersSame, SameMod, SameShape, LinksSame
  <1>7. Len(mods[Cur.d].links) \in Nat /\ mods[Cur.d].pending \in Nat
    BY <1>4, ShapeIs, ModIs
  <1>8. Cur.i <= Len(mods[Cur.d].links) + 1
    BY ONLY <1>1, <1>7
  <1>9. JobsIn(mods, jobs) /\ RootsOK(mods) /\ ParentsIn(mods) /\ mods \in Seq(ModRec) /\ clock \in Nat
    BY HandsAre
  <1>10. Count(world, mods, OpenNow, RunNow, QueueNow, ReactNow, jobs, awaiting, clock)
    BY DEF CountInv
  <1>11. \A k \in 1..Len(jobs) : jobs[k][1] \in 1..Len(mods)
    BY <1>9 DEF JobsIn
  <1>12. clock' \in Nat
    BY ONLY <1>3, <1>9
  <1>13. /\ OpenNow' = OpenNow \ {Cur.d} /\ QueueNow' = QueueNow /\ ReactNow' = ReactNow /\ Cur.d \in OpenNow
         /\ n = 0 => RunNow' = RunNow
         /\ n = 1 => RunNow' = RunNow \cup {Cur.d}
    <2>1. CASE n = 0
      <3>1. stk' = WithTop(Advance(Top))
        BY ONLY <1>3, <2>1
      <3> QED BY <1>1, <1>5, <1>6, <1>8, <2>1, <3>1, ViewsAdvance
    <2>2. CASE n = 1
      <3> DEFINE c == WithBody(Advance(Top), Cur.d)
      <3>1. stk' = WithTop(c)
        BY ONLY <1>3, <2>2 DEF WithBody
      <3>4. Cur.d \in Nat
        BY ONLY <1>4
      <3>5. c \in CallRec /\ c.body = Cur.d /\ c.op = Advance(Top).op /\ c.n = Advance(Top).n /\ c.d = Advance(Top).d
            /\ c.i = Advance(Top).i /\ c.list = Advance(Top).list /\ c.path = Advance(Top).path
            /\ c.loads = Advance(Top).loads
        BY ONLY <1>5, <3>4, BodyIs
      <3>2. c \in CallRec /\ c.body = Cur.d /\ SameHead(Advance(Top), c) /\ c.i = Advance(Top).i
            /\ c.list = Advance(Top).list /\ c.path = Advance(Top).path
        BY ONLY <3>5 DEF SameHead
      <3> HIDE DEF c
      <3>3. Advances(Top, c)
        BY ONLY <1>5, <3>2 DEF Advances, SameHead
      <3> QED BY <1>1, <1>6, <1>8, <2>2, <3>1, <3>2, <3>3, ViewsAdvance
    <2> QED BY ONLY <2>1, <2>2, <1>3
  <1>14. /\ n = 0 => mods[Cur.d].pending # 0 /\ w /\ RunNow' = RunNow
         /\ n = 1 => mods[Cur.d].pending = 0 /\ RunNow' = RunNow \cup {Cur.d}
    BY ONLY <1>3, <1>7, <1>13
  <1>15. Count(world, mods', OpenNow', RunNow', QueueNow, ReactNow, jobs, awaiting, clock')
    <2>1. Turns(mods, Cur.d, n, w, clock, clock', OpenNow, OpenNow', RunNow, RunNow')
      BY ONLY <1>3, <1>9, <1>12, <1>13, <1>14 DEF Turns
    <2> QED BY ONLY <1>1, <1>3, <1>4, <1>9, <1>10, <2>1, CountTurns
  <1> QED BY ONLY <1>1, <1>13, <1>15 DEF CountInv
(* What a cycle that ends has in it: the modules that were entered since   *)
(* its first, none of which the evaluation still has to execute.           *)
LEMMA DoneAfter ==
    ASSUME ShapeInv, Within("js_evaluate_module"), Cur.i = Len(mods[Cur.d].links) + 2
    PROVE  /\ Cur.d \in Done(Cur.d) \/ Done(Cur.d) = {}
           /\ \A x \in Done(Cur.d) : x \in 1..Len(mods) /\ mods[x].status = "evaluating" /\ x \notin OpenNow
  <1>1. /\ stk # <<>> /\ Top \in CallRec /\ Top.op = "js_evaluate_module" /\ Top.path # <<>>
        /\ Cur = Top.path[Len(Top.path)] /\ Len(Top.path) \in 1..Len(Top.path)
        /\ Cur.d \in 1..Len(mods) /\ Has(Top.list, Cur.d)
        /\ WalkOK(mods, Top, "evaluating") /\ CallIn(mods, Top)
        /\ \A x : Has(Top.list, x) => x \in 1..Len(mods) /\ mods[x].status = "evaluating"
    BY EvalWithin
  <1>2. /\ Top.list \in Seq(Nat) /\ Len(Top.list) \in Nat /\ Len(Top.path) \in Nat
    BY <1>1, CallFields
  <1>3. DOMAIN Top.list = 1..Len(Top.list)
    BY ONLY <1>2
  <1>4. \E k \in 1..Len(Top.list) : Top.list[k] = Cur.d
    BY ONLY <1>1 DEF Has
  <1>5. Place(Cur.d) \in 1..Len(Top.list) /\ Top.list[Place(Cur.d)] = Cur.d
    BY ONLY <1>3, <1>4 DEF Place
  <1>6. \A x \in Done(Cur.d) : \E k \in Place(Cur.d)..Len(Top.list) : x = Top.list[k]
    BY ONLY TRUE DEF Done
  <1>7. Cur.d \in Done(Cur.d) \/ Done(Cur.d) = {}
    BY ONLY <1>2, <1>5 DEF Done
  <1>8. OpenNow = OpenIn(mods, Pop) \cup {x \in 1..Len(mods) : Opens(mods, Top, x)}
        /\ \A x \in 1..Len(mods) : Has(Top.list, x) => x \notin OpenIn(mods, Pop)
    BY <1>1, EvalViews
  <1>9. ListOK(mods, Top, "evaluating") /\ PathOK(mods, Top) /\ mods \in Seq(ModRec)
    BY <1>1, ShapeIs DEF WalkOK
  <1>10. ASSUME NEW x \in Done(Cur.d)
         PROVE  x \in 1..Len(mods) /\ mods[x].status = "evaluating" /\ x \notin OpenNow
    <2>1. PICK k \in Place(Cur.d)..Len(Top.list) : x = Top.list[k]
      BY <1>6, <1>10
    <2>2. k \in 1..Len(Top.list) /\ Place(Cur.d) <= k
      BY ONLY <1>2, <1>5, k \in Place(Cur.d)..Len(Top.list)
    <2>3. Has(Top.list, x)
      BY ONLY <2>1, <2>2 DEF Has
    <2>4. x \in 1..Len(mods) /\ mods[x].status = "evaluating" /\ x \notin OpenIn(mods, Pop)
      BY ONLY <1>1, <1>8, <2>3
    <2>6. ASSUME x = Cur.d PROVE ~Opens(mods, Top, x)
      <3>1. Opens(mods, Top, Cur.d) <=> Cur.i <= Len(mods[Cur.d].links) + 1
        BY <1>1, OpensIs
      <3>2. Len(mods[x].links) \in Nat
        BY <2>4, <1>9, ModIs
      <3>3. ~Opens(mods, Top, Cur.d)
        BY ONLY <2>6, <3>1, <3>2, Cur.i = Len(mods[Cur.d].links) + 2
      <3> QED BY ONLY <2>6, <3>3
    <2>7. ASSUME x # Cur.d PROVE ~Opens(mods, Top, x)
      <3>1. Opens(mods, Top, x) => \E h \in 1..Len(Top.path) : h # Len(Top.path) /\ Top.path[h].d = x
        BY <2>4, <2>7, OpensIs
      <3>2. ASSUME NEW h \in 1..Len(Top.path), h # Len(Top.path), Top.path[h].d = x PROVE FALSE
        <4>1. h < Len(Top.path)
          BY ONLY <3>2, <1>2, SMTT(30)
        <4>2. mods[Top.path[h].d].dfs < mods[Top.path[Len(Top.path)].d].dfs
          BY ONLY <4>1, <1>1, <1>9, h \in 1..Len(Top.path) DEF PathOK
        <4>3. mods[Top.list[k]].dfs < mods[Top.list[Place(Cur.d)]].dfs
          BY ONLY <1>1, <1>5, <2>1, <3>2, <4>2
        <4>4. mods[Top.list[k]].dfs < mods[Top.list[Place(Cur.d)]].dfs <=> k < Place(Cur.d)
          BY ONLY <1>1, <1>5, <1>9, <2>2, ListOrder
        <4> QED BY ONLY <1>5, <2>2, <4>3, <4>4, <1>2
      <3> QED BY ONLY <3>1, <3>2
    <2>8. ~Opens(mods, Top, x)
      BY ONLY <2>6, <2>7
    <2> QED BY ONLY <1>8, <2>4, <2>8
  <1> QED BY ONLY <1>7, <1>10

(* evaluateDone keeps the counting.                                        *)
LEMMA evaluateDoneCount ==
    ASSUME ShapeInv, CountInv, evaluateDone
    PROVE  CountInv'
  <1>1. /\ Within("js_evaluate_module") /\ Cur.i = Len(mods[Cur.d].links) + 2
        /\ mods' \in Seq(ModRec) /\ UNCHANGED <<world, loaded, jobs, awaiting, clock>> /\ Ends
    BY evaluateDoneStep
  <1>2. /\ Finishes(mods, mods', Done(Cur.d), Cur.d)
        /\ \/ stk' = Pop /\ (\A x : Has(Top.list, x) => x \in Done(Cur.d))
           \/ stk' = Return(Cur.d)
    BY <1>1 DEF Ends
  <1>3. stk # <<>> /\ Top.op = "js_evaluate_module" /\ Cur.d \in 1..Len(mods) /\ Top.body = 0
    BY <1>1, EvalWithin
  <1>4. LinksSame
    BY ONLY <1>2 DEF Finishes, SameBase, LinksSame
  <1>5. /\ Cur.d \in Done(Cur.d) \/ Done(Cur.d) = {}
        /\ \A x \in Done(Cur.d) : x \in 1..Len(mods) /\ mods[x].status = "evaluating" /\ x \notin OpenNow
    BY <1>1, DoneAfter
  <1>6. JobsIn(mods, jobs) /\ RootsOK(mods) /\ ParentsIn(mods) /\ mods \in Seq(ModRec) /\ RunNow \subseteq 1..Len(mods)
    BY HandsAre
  <1>7. OpenNow' = OpenNow /\ RunNow' = RunNow /\ QueueNow' = QueueNow /\ ReactNow' = ReactNow
    <2>1. CASE stk' = Pop /\ (\A x : Has(Top.list, x) => x \in Done(Cur.d))
      <3>1. /\ \A x : x \in OpenNow' <=> x \in OpenNow /\ ~Has(Top.list, x)
            /\ RunNow' = RunNow \ {Top.body} /\ QueueNow' = QueueNow /\ ReactNow' = ReactNow
        BY <1>3, <1>4, <2>1, ViewsPop
      <3>2. OpenNow' = OpenNow
        BY ONLY <1>5, <2>1, <3>1
      <3>3. RunNow' = RunNow
        BY ONLY <1>3, <1>6, <3>1
      <3> QED BY ONLY <3>1, <3>2, <3>3
    <2>2. CASE stk' = Return(Cur.d)
      <3>1. \E n \in Nat, c \in CallRec : Return(Cur.d) = WithTop(c) /\ ReturnsCall(Top, c, n)
        BY <1>1, EvalOp, ReturnIs
      <3>2. PICK n \in Nat, c \in CallRec : Return(Cur.d) = WithTop(c) /\ ReturnsCall(Top, c, n)
        BY <3>1
      <3> QED BY <1>1, <1>4, <2>2, <3>2, ViewsReturn
    <2> QED BY ONLY <1>2, <2>1, <2>2
  <1>8. Count(world, mods, OpenNow, RunNow, QueueNow, ReactNow, jobs, awaiting, clock)
    BY DEF CountInv
  <1>9. \A k \in 1..Len(jobs) : jobs[k][1] \in 1..Len(mods)
    BY <1>6 DEF JobsIn
  <1>10. Count(world, mods', OpenNow, RunNow, QueueNow, ReactNow, jobs, awaiting, clock)
    BY ONLY <1>1, <1>2, <1>3, <1>5, <1>6, <1>8, <1>9, CountFinishes
  <1> QED BY ONLY <1>1, <1>7, <1>10 DEF CountInv

(* Evaluations keep the counting.                                          *)
LEMMA EvaluateCount ==
    ASSUME ShapeInv, CycleInv, CountInv, Evaluate
    PROVE  CountInv'
  BY js_evaluate_moduleCount, evaluateRequestCount, executeCount, evaluateDoneCount DEF Evaluate
(* A body ends or is suspended, and nothing else changes that is counted.  *)
MoreJobs(jb, jb2, d) ==
    \A k \in 1..Len(jb2) : (k \in 1..Len(jb) /\ jb2[k] = jb[k]) \/ jb2[k][1] = d

(* A body that ends keeps the counting, ...                                *)
LEMMA BodyEndsCount ==
    ASSUME ShapeInv, CountInv, RunsBody, stk' = BodyEnds, world' = world, clock' = clock,
           mods' \in Seq(ModRec), Len(mods') = Len(mods),
           \A x \in 1..Len(mods) : Kept(mods[x], mods'[x]) /\ mods'[x].links = mods[x].links,
           HasTla(Top.body) \/ Top.op # "fulfilled",
           \A x \in awaiting' : x \in awaiting \/ x = Top.body, MoreJobs(jobs, jobs', Top.body)
    PROVE  CountInv'
  <1>1. LinksSame
    BY DEF LinksSame
  <1>2. /\ OpenNow' = OpenNow /\ RunNow' = RunNow \ {Top.body} /\ QueueNow' = QueueNow
        /\ ReactNow' = ReactNow \ {Top.body} /\ Top.body \in RunNow
        /\ Top.op = "js_evaluate_module" => Top.body \notin ReactNow
        /\ Top.op = "bodyResumes" => ReactNow = {}
    BY <1>1, ViewsBodyEnds
  <1>3. Top.body \in 1..Len(mods) /\ Top.op \in BodyOps
    BY BodyRuns
  <1>4. /\ RootsOK(mods) /\ ParentsIn(mods) /\ mods \in Seq(ModRec) /\ JobsIn(mods, jobs) /\ RunNow \subseteq 1..Len(mods)
        /\ awaiting \subseteq 1..Len(mods)
    BY HandsAre
  <1>5. /\ \A x \in 1..Len(mods) : x \in RunNow \/ x \in awaiting => mods[x].runs = 1
        /\ \A k \in 1..Len(jobs) : mods[jobs[k][1]].runs = 1
    BY CountIs
  <1>6. \A x \in 1..Len(mods) : x \in RunNow' \/ x \in awaiting' => mods[x].runs = 1
    BY ONLY <1>2, <1>3, <1>4, <1>5, \A x \in awaiting' : x \in awaiting \/ x = Top.body
  <1>7. \A k \in 1..Len(jobs') : mods[jobs'[k][1]].runs = 1 /\ jobs'[k][1] \in 1..Len(mods)
    BY ONLY <1>2, <1>3, <1>4, <1>5, MoreJobs(jobs, jobs', Top.body) DEF MoreJobs, JobsIn
  <1>8. RunOK(mods, RunNow', awaiting', jobs')
    BY ONLY <1>6, <1>7 DEF RunOK
  <1>9. Count(world, mods, OpenNow, RunNow, QueueNow, ReactNow, jobs, awaiting, clock)
    BY DEF CountInv
  <1>10. \A x : x \in ReactNow' => x \in ReactNow
    BY ONLY <1>2
  <1>11. HasTla(Top.body) => mods[Top.body].name \in world.has_tla
    BY ONLY TRUE DEF HasTla
  <1>12. \A x \in 1..Len(mods) : x \in ReactNow => x \in ReactNow' \/ mods[x].name \in world.has_tla
    BY ONLY <1>2, <1>3, <1>11, HasTla(Top.body) \/ Top.op # "fulfilled" DEF BodyOps
  <1>13. Count(world, mods, OpenNow, RunNow, QueueNow, ReactNow', jobs, awaiting, clock)
    BY ONLY <1>9, <1>10, <1>12, CountDrops
  <1>14. \A x \in 1..Len(mods) : Kept(mods[x], mods'[x])
    OBVIOUS
  <1>15. \A k \in 1..Len(jobs') : jobs'[k][1] \in 1..Len(mods)
    BY ONLY <1>7
  <1>16. Count(world, mods', OpenNow, RunNow', QueueNow, ReactNow', jobs', awaiting', clock)
    BY ONLY <1>4, <1>8, <1>13, <1>14, <1>15, CountSame, mods' \in Seq(ModRec), Len(mods') = Len(mods)
  <1> QED BY ONLY <1>2, <1>16, world' = world, clock' = clock DEF CountInv

(* The body throws or returns, and no more is known of it than that.       *)
LEMMA OutsKept ==
    ASSUME NEW ms \in Seq(ModRec), NEW ms2, NEW d \in 1..Len(ms), NEW o, Outs(ms, ms2, d, o)
    PROVE  /\ Len(ms2) = Len(ms)
           /\ \A x \in 1..Len(ms) : /\ Kept(ms[x], ms2[x]) /\ SameShape(ms[x], ms2[x])
                                    /\ ms2[x].links = ms[x].links
  BY DEF Outs, OthersSame, SameMod, SameShape, SameEval, Kept

(* ... as does one that reports, ...                                       *)
LEMMA ReportsCount ==
    ASSUME ShapeInv, CountInv, RunsBody, NEW f, Reports(Top.body, f), mods' \in Seq(ModRec),
           UNCHANGED <<world, loaded, awaiting, clock>>
    PROVE  CountInv'
  <1>1. HasTla(Top.body) /\ jobs' = Says(jobs, Top.body, f) /\ stk' = BodyEnds
        /\ Outs(mods, mods', Top.body, Outcome(f))
    BY DEF Reports
  <1>2. Top.body \in 1..Len(mods) /\ mods \in Seq(ModRec) /\ jobs \in Seq(Nat \X BOOLEAN)
    BY BodyRuns, ShapeIs
  <1>3. Len(mods') = Len(mods) /\ \A x \in 1..Len(mods) : Kept(mods[x], mods'[x]) /\ mods'[x].links = mods[x].links
    BY ONLY <1>1, <1>2, OutsKept
  <1>4. jobs' = Append(jobs, <<Top.body, f>>)
    BY ONLY <1>1 DEF Says
  <1>5. <<Top.body, f>>[1] = Top.body
    OBVIOUS
  <1>6. \A k \in 1..Len(jobs') : (k \in 1..Len(jobs) /\ jobs'[k] = jobs[k]) \/ jobs'[k] = <<Top.body, f>>
    BY ONLY <1>2, <1>4
  <1>7. MoreJobs(jobs, jobs', Top.body)
    BY ONLY <1>5, <1>6 DEF MoreJobs
  <1> QED BY <1>1, <1>3, <1>7, BodyEndsCount

(* (the queue stays) ...                                                   *)
LEMMA SameJobs ==
    ASSUME NEW d PROVE MoreJobs(jobs, jobs, d)
  BY DEF MoreJobs

(* ... one that is suspended, ...                                          *)
LEMMA bodyAwaitsCount ==
    ASSUME ShapeInv, CountInv, bodyAwaits
    PROVE  CountInv'
  <1>1. /\ RunsBody /\ HasTla(Top.body) /\ stk' = BodyEnds /\ awaiting' = awaiting \cup {Top.body}
        /\ UNCHANGED <<world, mods, loaded, jobs, clock, calls>>
    BY DEF bodyAwaits
  <1>2. MoreJobs(jobs, jobs', Top.body) /\ mods \in Seq(ModRec)
    BY <1>1, SameJobs, ShapeIs
  <1>3. mods' \in Seq(ModRec) /\ Len(mods') = Len(mods)
        /\ \A x \in 1..Len(mods) : Kept(mods[x], mods'[x]) /\ mods'[x].links = mods[x].links
    BY ONLY <1>1, <1>2 DEF Kept
  <1> QED BY <1>1, <1>2, <1>3, BodyEndsCount
(* What the counting is when the body has ended, before the evaluation     *)
(* learns of it.                                                           *)
LEMMA OutsCount ==
    ASSUME ShapeInv, CountInv, NEW d \in 1..Len(mods), NEW o, NEW ms \in Seq(ModRec), Outs(mods, ms, d, o)
    PROVE  /\ Len(ms) = Len(mods) /\ (\A x \in 1..Len(mods) : SameShape(mods[x], ms[x]))
           /\ RootsOK(ms) /\ ParentsIn(ms)
           /\ \A x \in 1..Len(mods) : Kept(mods[x], ms[x]) /\ ms[x].links = mods[x].links
           /\ Count(world, ms, OpenNow, RunNow, QueueNow, ReactNow, jobs, awaiting, clock)
  <1>1. Len(ms) = Len(mods) /\ (\A x \in 1..Len(mods) : SameShape(mods[x], ms[x])) /\ RootsOK(ms) /\ ParentsIn(ms)
    BY OutsRefs
  <1>2. RootsOK(mods) /\ ParentsIn(mods) /\ mods \in Seq(ModRec) /\ JobsIn(mods, jobs)
    BY HandsAre
  <1>3. \A x \in 1..Len(mods) : Kept(mods[x], ms[x]) /\ ms[x].links = mods[x].links
    BY ONLY <1>2, OutsKept, Outs(mods, ms, d, o), d \in 1..Len(mods)
  <1>4. Count(world, mods, OpenNow, RunNow, QueueNow, ReactNow, jobs, awaiting, clock)
    BY DEF CountInv
  <1>5. RunOK(mods, RunNow, awaiting, jobs)
    BY ONLY <1>4 DEF Count
  <1>6. \A k \in 1..Len(jobs) : jobs[k][1] \in 1..Len(mods)
    BY <1>2 DEF JobsIn
  <1>7. \A x \in 1..Len(mods) : Kept(mods[x], ms[x])
    BY ONLY <1>3
  <1>8. Count(world, ms, OpenNow, RunNow, QueueNow, ReactNow, jobs, awaiting, clock)
    BY ONLY <1>1, <1>2, <1>4, <1>5, <1>6, <1>7, CountSame, ms \in Seq(ModRec)
  <1> QED BY ONLY <1>1, <1>3, <1>8

(* ... one that returns into the evaluation, ...                           *)
LEMMA ComesCount ==
    ASSUME ShapeInv, CountInv, RunsBody, Comes(Top.body), jobs' = jobs, mods' \in Seq(ModRec),
           UNCHANGED <<world, loaded, awaiting, clock>>
    PROVE  CountInv'
  <1>1. Top.op # "fulfilled" /\ Outs(mods, mods', Top.body, "ok") /\ stk' = BodyEnds
    BY DEF Comes
  <1>2. Top.body \in 1..Len(mods) /\ mods \in Seq(ModRec)
    BY BodyRuns, ShapeIs
  <1>3. Len(mods') = Len(mods) /\ \A x \in 1..Len(mods) : Kept(mods[x], mods'[x]) /\ mods'[x].links = mods[x].links
    BY ONLY <1>1, <1>2, OutsKept
  <1>4. MoreJobs(jobs, jobs', Top.body)
    BY SameJobs
  <1> QED BY <1>1, <1>3, <1>4, BodyEndsCount

(* ... one that throws into it, ...                                        *)
LEMMA ThrowsCount ==
    ASSUME ShapeInv, AwaitInv, CountInv, RunsBody, NEW ms, Throws(Top.body, ms), jobs' = jobs,
           UNCHANGED <<world, loaded, awaiting, clock>>
    PROVE  CountInv'
  <1>1. /\ ~HasTla(Top.body) /\ Top.op # "fulfilled" /\ ms \in Seq(ModRec) /\ Outs(mods, ms, Top.body, "threw")
        /\ AbandonEvaluation(ms, Top.body)
    BY DEF Throws
  <1>2. /\ stk # <<>> /\ Top.body \in 1..Len(mods) /\ Top.op \in BodyOps
        /\ Top.op = "js_evaluate_module" => Top.list # <<>>
    BY BodyRuns
  <1>3. Top.op # "bodyResumes"
    <2>1. Top = stk[Len(stk)] /\ Len(stk) \in 1..Len(stk)
      BY <1>2, ShapeIs, TopIs
    <2>2. Top.op = "bodyResumes" => HasTla(Top.body)
      BY ONLY <2>1, AwaitInv DEF AwaitInv, Awaits, HasTla
    <2> QED BY ONLY <1>1, <2>2
  <1>4. Top.op = "js_evaluate_module" /\ Top.list # <<>>
    BY ONLY <1>1, <1>2, <1>3 DEF BodyOps
  <1>5. /\ Len(ms) = Len(mods) /\ (\A x \in 1..Len(mods) : SameShape(mods[x], ms[x]))
        /\ RootsOK(ms) /\ ParentsIn(ms)
        /\ Count(world, ms, OpenNow, RunNow, QueueNow, ReactNow, jobs, awaiting, clock)
    BY <1>1, <1>2, OutsCount
  <1>6. Top.body \in Nat
    BY <1>2
  <1>7. mods' \in Seq(ModRec) /\ Fails(ms, mods', ToSet(Top.list), Top.body, Top.list[1]) /\ stk' = Pop
    BY <1>1, <1>2, <1>4, <1>5, <1>6, AbandonIs
  <1> QED BY <1>1, <1>2, <1>4, <1>5, <1>7, CountsFail

(* A body that a reaction called.                                          *)
LEMMA ReactsBody ==
    ASSUME ShapeInv, CountInv, RunsBody, Top.op = "fulfilled", stk' = BodyEnds, LinksSame, NEW ms, Len(ms) = Len(mods),
           \A x \in 1..Len(mods) : SameShape(mods[x], ms[x])
    PROVE  /\ NoneOpen(ms) /\ Top.body \in 1..Len(mods) /\ ms[Top.body].status = "async" /\ mods[Top.body].runs = 1
           /\ OpenNow = {} /\ OpenNow' = {} /\ QueueNow' = QueueNow /\ ReactNow = {Top.body} /\ ReactNow' = {}
           /\ RunNow' \subseteq RunNow /\ RunOK(mods, RunNow', awaiting, jobs)
  <1>1. stk # <<>> /\ Top.body \in 1..Len(mods) /\ Len(stk) = 1 /\ Top.op \notin Base
    BY BodyRuns
  <1>2. OpenNow = {}
    BY <1>1, JobViews
  <1>3. /\ OpenNow' = OpenNow /\ RunNow' = RunNow \ {Top.body} /\ QueueNow' = QueueNow
        /\ ReactNow' = ReactNow \ {Top.body} /\ Top.body \in RunNow /\ ReactNow = {Top.body}
    BY ViewsBodyEnds
  <1>4. \A x \in 1..Len(mods) : mods[x].status # "evaluating"
    BY <1>1, JobAlone
  <1>5. NoneOpen(ms)
    BY ONLY <1>4, Len(ms) = Len(mods), \A x \in 1..Len(mods) : SameShape(mods[x], ms[x]) DEF NoneOpen, SameShape
  <1>6. mods[Top.body].status = "async" /\ mods[Top.body].runs = 1 /\ RunOK(mods, RunNow', awaiting, jobs)
    BY ONLY <1>1, <1>3, CountIs, CountInv DEF RunOK
  <1>7. ms[Top.body].status = "async"
    BY ONLY <1>1, <1>6, \A x \in 1..Len(mods) : SameShape(mods[x], ms[x]) DEF SameShape
  <1> QED BY ONLY <1>1, <1>2, <1>3, <1>5, <1>6, <1>7

(* ... one that a reaction called and that returns, ...                    *)
LEMMA CompletesCount ==
    ASSUME ShapeInv, CountInv, RunsBody, NEW ms, Completes(Top.body, ms), jobs' = jobs, mods' \in Seq(ModRec),
           UNCHANGED <<world, loaded, awaiting, clock>>
    PROVE  CountInv'
  <1>1. /\ ~HasTla(Top.body) /\ Top.op = "fulfilled" /\ ms \in Seq(ModRec) /\ Outs(mods, ms, Top.body, "ok")
        /\ Evaluates(ms, mods', Top.body) /\ stk' = BodyEnds
    BY DEF Completes
  <1>2. Top.body \in 1..Len(mods) /\ JobsIn(mods, jobs)
    BY BodyRuns, HandsAre
  <1>3. /\ Len(ms) = Len(mods) /\ (\A x \in 1..Len(mods) : SameShape(mods[x], ms[x]))
        /\ RootsOK(ms) /\ ParentsIn(ms)
        /\ \A x \in 1..Len(mods) : Kept(mods[x], ms[x]) /\ ms[x].links = mods[x].links
        /\ Count(world, ms, OpenNow, RunNow, QueueNow, ReactNow, jobs, awaiting, clock)
    BY <1>1, <1>2, OutsCount
  <1>4. LinksSame
    BY ONLY <1>1, <1>3 DEF Evaluates, OthersSame, SameMod, SameShape, SameBase, LinksSame
  <1>5. /\ NoneOpen(ms) /\ ms[Top.body].status = "async" /\ mods[Top.body].runs = 1
        /\ OpenNow = {} /\ OpenNow' = {} /\ QueueNow' = QueueNow /\ ReactNow = {Top.body} /\ ReactNow' = {}
        /\ RunOK(mods, RunNow', awaiting, jobs)
    BY <1>1, <1>3, <1>4, ReactsBody
  <1>6. ms[Top.body].runs = 1 /\ ms[Top.body].name \notin world.has_tla
    BY ONLY <1>1, <1>2, <1>3, <1>5 DEF Kept, HasTla
  <1>7. RunOK(ms, RunNow', awaiting, jobs) /\ \A k \in 1..Len(jobs) : jobs[k][1] \in 1..Len(ms)
    BY ONLY <1>2, <1>3, <1>5, SMTT(30) DEF RunOK, Kept, JobsIn
  <1>8. \A x \in 1..Len(ms) : x \in ReactNow' <=> x \in ReactNow /\ x # Top.body
    BY ONLY <1>5
  <1>9. Top.body \in 1..Len(ms) /\ Top.body \in ReactNow /\ Count(world, ms, {}, RunNow, QueueNow, ReactNow, jobs, awaiting, clock)
    BY ONLY <1>2, <1>3, <1>5
  <1>10. Count(world, mods', {}, RunNow', QueueNow, ReactNow', jobs, awaiting, clock)
    BY ONLY <1>1, <1>3, <1>5, <1>6, <1>7, <1>8, <1>9, CountCompletes, mods' \in Seq(ModRec)
  <1> QED BY ONLY <1>5, <1>10, jobs' = jobs, UNCHANGED <<world, loaded, awaiting, clock>> DEF CountInv

(* ... and one that a reaction called and that throws.                     *)
LEMMA BreaksCount ==
    ASSUME ShapeInv, CountInv, RunsBody, NEW ms, Breaks(Top.body, ms), jobs' = jobs, mods' \in Seq(ModRec),
           UNCHANGED <<world, loaded, awaiting, clock>>
    PROVE  CountInv'
  <1>1. /\ Top.op = "fulfilled" /\ ms \in Seq(ModRec) /\ Outs(mods, ms, Top.body, "threw")
        /\ Rejects(ms, mods', Failing(ms, Top.body), Top.body) /\ stk' = BodyEnds
    BY DEF Breaks
  <1>2. Top.body \in 1..Len(mods) /\ JobsIn(mods, jobs)
    BY BodyRuns, HandsAre
  <1>3. /\ Len(ms) = Len(mods) /\ (\A x \in 1..Len(mods) : SameShape(mods[x], ms[x]))
        /\ RootsOK(ms) /\ ParentsIn(ms)
        /\ \A x \in 1..Len(mods) : Kept(mods[x], ms[x]) /\ ms[x].links = mods[x].links
        /\ Count(world, ms, OpenNow, RunNow, QueueNow, ReactNow, jobs, awaiting, clock)
    BY <1>1, <1>2, OutsCount
  <1>4. LinksSame
    BY ONLY <1>1, <1>3 DEF Rejects, SameBase, LinksSame
  <1>5. /\ NoneOpen(ms) /\ ms[Top.body].status = "async" /\ mods[Top.body].runs = 1
        /\ OpenNow = {} /\ OpenNow' = {} /\ QueueNow' = QueueNow /\ ReactNow = {Top.body} /\ ReactNow' = {}
        /\ RunOK(mods, RunNow', awaiting, jobs)
    BY <1>1, <1>3, <1>4, ReactsBody
  <1>6. Top.body \in 1..Len(ms) /\ Top.body \in Nat /\ Top.body # 0
    BY ONLY <1>2, <1>3
  <1>7. RunOK(ms, RunNow', awaiting, jobs) /\ \A k \in 1..Len(jobs) : jobs[k][1] \in 1..Len(ms)
    BY ONLY <1>2, <1>3, <1>5 DEF RunOK, Kept, JobsIn
  <1>8. Fail(ms, Failing(ms, Top.body)) /\ Top.body \in Failing(ms, Top.body)
    BY ONLY <1>1, <1>3, <1>5, <1>6, FailIs
  <1>9. \A x \in 1..Len(ms) : x \in ReactNow' <=> x \in ReactNow /\ x \notin Failing(ms, Top.body)
    BY ONLY <1>5, <1>8
  <1>10. Count(world, ms, {}, RunNow, QueueNow, ReactNow, jobs, awaiting, clock)
    BY ONLY <1>3, <1>5
  <1>11. Count(world, mods', {}, RunNow', QueueNow, ReactNow', jobs, awaiting, clock)
    BY ONLY <1>1, <1>3, <1>5, <1>6, <1>7, <1>8, <1>9, <1>10, CountRejects, mods' \in Seq(ModRec)
  <1> QED BY ONLY <1>5, <1>11, jobs' = jobs, UNCHANGED <<world, loaded, awaiting, clock>> DEF CountInv

(* Bodies keep the counting.                                               *)
LEMMA BodiesCount ==
    ASSUME ShapeInv, AwaitInv, CountInv, Bodies
    PROVE  CountInv'
  <1>1. CASE bodyReturns
    BY <1>1, bodyReturnsStep, ReportsCount, ComesCount, CompletesCount
  <1>2. CASE bodyThrows
    BY <1>2, bodyThrowsStep, ReportsCount, ThrowsCount, BreaksCount
  <1> QED BY <1>1, <1>2, bodyAwaitsCount DEF Bodies
(* The steps of jobs.                                                      *)
LEMMA SameLinks ==
    ASSUME mods' = mods
    PROVE  LinksSame /\ Len(mods') = Len(mods) /\ \A x \in 1..Len(mods) : Kept(mods[x], mods'[x])
  BY DEF LinksSame, Kept

(* After the last call nothing is in hand.                                 *)
LEMMA NoViewsNext ==
    ASSUME LinksSame, stk' = <<>>
    PROVE  OpenNow' = {} /\ RunNow' = {} /\ QueueNow' = {} /\ ReactNow' = {}
  BY ViewsNext, ViewEmpty

(* bodyResumes keeps the counting.                                         *)
LEMMA bodyResumesCount ==
    ASSUME ShapeInv, Reenter = FALSE, CountInv, NEW d \in Defs, bodyResumes(d)
    PROVE  CountInv'
  <1>1. /\ MayRunJobs /\ d \in awaiting /\ awaiting' = awaiting \ {d} /\ stk' = Append(stk, Resumed(d))
        /\ UNCHANGED <<world, mods, loaded, jobs, clock, calls>>
    BY DEF bodyResumes, Resumed
  <1>2. stk = <<>>
    BY <1>1, JobsRunAlone
  <1>3. /\ d \in 1..Len(mods) /\ mods \in Seq(ModRec) /\ mods[d].status \in Begun
    BY <1>1, ShapeIs DEF QueuedOK
  <1>4. Resumed(d) \in CallRec /\ Resumed(d).op = "bodyResumes" /\ Resumed(d).body = d
    BY ONLY <1>3, ResumedIs
  <1>5. LinksSame /\ Len(mods') = Len(mods) /\ (\A x \in 1..Len(mods) : Kept(mods[x], mods'[x])) /\ mods' \in Seq(ModRec)
    BY <1>1, <1>3, SameLinks
  <1>6. /\ OpenNow' = {} /\ RunNow' = {x \in 1..Len(mods) : Resumed(d).body = x}
        /\ QueueNow' = {x \in 1..Len(mods) : Lists(Resumed(d), x)}
        /\ ReactNow' = {x \in 1..Len(mods) : Executing(Resumed(d), x)}
    BY <1>1, <1>2, <1>4, <1>5, ViewsBegin DEF Base
  <1>7. QueueNow' = {} /\ ReactNow' = {}
    BY ONLY <1>4, <1>6 DEF Lists, Executing
  <1>8. OpenNow = {} /\ QueueNow = {} /\ ReactNow = {}
    BY <1>2, NoViews
  <1>9. /\ \A x \in 1..Len(mods) : x \in RunNow \/ x \in awaiting => mods[x].runs = 1
        /\ \A k \in 1..Len(jobs) : mods[jobs[k][1]].runs = 1
    BY CountIs
  <1>10. RunOK(mods, RunNow', awaiting', jobs')
    BY ONLY <1>1, <1>3, <1>4, <1>6, <1>9 DEF RunOK
  <1>11. JobsIn(mods, jobs')
    BY <1>1, HandsAre
  <1> QED BY <1>1, <1>5, <1>6, <1>7, <1>8, <1>10, <1>11, CountsKept

(* fulfilledDone keeps the counting.                                       *)
LEMMA fulfilledDoneCount ==
    ASSUME ShapeInv, CountInv, fulfilledDone
    PROVE  CountInv'
  <1>1. /\ Is("fulfilled") /\ Top.list = <<>> /\ stk' = Pop
        /\ UNCHANGED <<world, mods, loaded, jobs, awaiting, clock, calls>>
    BY DEF fulfilledDone
  <1>2. stk # <<>> /\ Top.op = "fulfilled" /\ Top.body = 0 /\ mods \in Seq(ModRec)
    BY <1>1, ShapeIs DEF Is
  <1>3. /\ Pop = <<>> /\ OpenNow = {} /\ RunNow = {x \in 1..Len(mods) : Top.body = x}
        /\ QueueNow = {x \in 1..Len(mods) : Lists(Top, x)}
        /\ ReactNow = {x \in 1..Len(mods) : Executing(Top, x)}
    BY <1>2, JobViews DEF Base
  <1>4. QueueNow = {} /\ ReactNow = {}
    BY ONLY <1>1, <1>2, <1>3, EmptyHas DEF Lists, Executing
  <1>5. LinksSame /\ Len(mods') = Len(mods) /\ (\A x \in 1..Len(mods) : Kept(mods[x], mods'[x])) /\ mods' \in Seq(ModRec)
    BY <1>1, <1>2, SameLinks
  <1>6. OpenNow' = {} /\ RunNow' = {} /\ QueueNow' = {} /\ ReactNow' = {}
    BY <1>1, <1>3, <1>5, NoViewsNext
  <1>7. /\ \A x \in 1..Len(mods) : x \in RunNow \/ x \in awaiting => mods[x].runs = 1
        /\ \A k \in 1..Len(jobs) : mods[jobs[k][1]].runs = 1
    BY CountIs
  <1>8. RunOK(mods, RunNow', awaiting', jobs')
    BY ONLY <1>1, <1>6, <1>7 DEF RunOK
  <1>9. JobsIn(mods, jobs')
    BY <1>1, HandsAre
  <1> QED BY <1>1, <1>3, <1>4, <1>5, <1>6, <1>8, <1>9, CountsKept

(* The job of the head of the queue is not left in the queue.              *)
LEMMA TailJobs ==
    ASSUME ShapeInv, CountInv, jobs # <<>>, jobs' = Tail(jobs), awaiting' = awaiting, NEW B2,
           \A x \in B2 : x \notin 1..Len(mods)
    PROVE  /\ RunOK(mods, B2, awaiting', jobs') /\ JobsIn(mods, jobs')
           /\ Head(jobs)[1] \in 1..Len(mods) /\ mods[Head(jobs)[1]].runs = 1
           /\ mods[Head(jobs)[1]].status \in Begun
  <1>1. /\ \A x \in 1..Len(mods) : x \in RunNow \/ x \in awaiting => mods[x].runs = 1
        /\ \A k \in 1..Len(jobs) : mods[jobs[k][1]].runs = 1
    BY CountIs
  <1>2. /\ Head(jobs)[1] \in 1..Len(mods) /\ mods[Head(jobs)[1]].status \in Begun
        /\ Head(jobs) = jobs[1] /\ 1 \in 1..Len(jobs)
        /\ \A k \in 1..Len(Tail(jobs)) : k + 1 \in 1..Len(jobs) /\ Tail(jobs)[k] = jobs[k + 1]
    BY HeadJob
  <1>3. JobsIn(mods, jobs)
    BY HandsAre
  <1>4. JobsIn(mods, jobs')
    BY ONLY <1>2, <1>3, jobs' = Tail(jobs) DEF JobsIn
  <1>5. RunOK(mods, B2, awaiting', jobs')
    BY ONLY <1>1, <1>2, jobs' = Tail(jobs), awaiting' = awaiting, \A x \in B2 : x \notin 1..Len(mods) DEF RunOK
  <1>6. mods[Head(jobs)[1]].runs = 1
    BY ONLY <1>1, <1>2
  <1> QED BY ONLY <1>2, <1>4, <1>5, <1>6

(* A reaction for a module that has ended keeps the counting.              *)
LEMMA SkipsCount ==
    ASSUME ShapeInv, CountInv, stk = <<>>, stk' = stk, mods' = mods, jobs # <<>>, jobs' = Tail(jobs),
           UNCHANGED <<world, loaded, awaiting, clock>>
    PROVE  CountInv'
  <1>1. mods \in Seq(ModRec)
    BY ShapeIs
  <1>2. LinksSame /\ Len(mods') = Len(mods) /\ (\A x \in 1..Len(mods) : Kept(mods[x], mods'[x])) /\ mods' \in Seq(ModRec)
    BY <1>1, SameLinks
  <1>3. OpenNow' = {} /\ RunNow' = {} /\ QueueNow' = {} /\ ReactNow' = {}
    BY <1>2, NoViewsNext
  <1>4. OpenNow = {} /\ RunNow = {} /\ QueueNow = {} /\ ReactNow = {}
    BY NoViews
  <1>5. \A x \in RunNow' : x \notin 1..Len(mods)
    BY ONLY <1>3
  <1>6. RunOK(mods, RunNow', awaiting', jobs') /\ JobsIn(mods, jobs')
    BY <1>5, TailJobs
  <1> QED BY <1>2, <1>3, <1>4, <1>6, CountsKept
(* The module of a job, when no other job runs.                            *)
LEMMA JobModule ==
    ASSUME ShapeInv, CountInv, stk = <<>>, jobs # <<>>, NEW d, d = Head(jobs)[1], mods[d].status # "evaluated"
    PROVE  /\ d \in 1..Len(mods) /\ mods[d].status = "async" /\ mods[d].runs = 1 /\ NoneOpen(mods)
           /\ OpenNow = {} /\ RunNow = {} /\ QueueNow = {} /\ ReactNow = {}
           /\ Count(world, mods, {}, {}, {}, {}, jobs, awaiting, clock)
           /\ \A k \in 1..Len(Tail(jobs)) : Tail(jobs)[k][1] \in 1..Len(mods) /\ mods[Tail(jobs)[k][1]].runs = 1
           /\ \A x \in awaiting : x \in 1..Len(mods) /\ mods[x].runs = 1
  <1>1. OpenNow = {} /\ RunNow = {} /\ QueueNow = {} /\ ReactNow = {}
    BY NoViews
  <1>2. \A x \in 1..Len(mods) : mods[x].status # "evaluating"
    BY JobAlone
  <1>3. /\ d \in 1..Len(mods) /\ mods[d].status \in Begun
        /\ Head(jobs) = jobs[1] /\ 1 \in 1..Len(jobs)
        /\ \A k \in 1..Len(Tail(jobs)) : k + 1 \in 1..Len(jobs) /\ Tail(jobs)[k] = jobs[k + 1]
    BY HeadJob
  <1>4. /\ \A x \in 1..Len(mods) : x \in RunNow \/ x \in awaiting => mods[x].runs = 1
        /\ \A k \in 1..Len(jobs) : mods[jobs[k][1]].runs = 1
    BY CountIs
  <1>5. JobsIn(mods, jobs) /\ awaiting \subseteq 1..Len(mods)
    BY HandsAre
  <1>6. mods[d].status = "async" /\ mods[d].runs = 1 /\ NoneOpen(mods)
    BY ONLY <1>2, <1>3, <1>4, mods[d].status # "evaluated", d = Head(jobs)[1] DEF Begun, NoneOpen
  <1>7. Count(world, mods, {}, {}, {}, {}, jobs, awaiting, clock)
    BY ONLY <1>1, CountInv DEF CountInv
  <1>8. \A k \in 1..Len(Tail(jobs)) : Tail(jobs)[k][1] \in 1..Len(mods) /\ mods[Tail(jobs)[k][1]].runs = 1
    BY ONLY <1>3, <1>4, <1>5 DEF JobsIn
  <1>9. \A x \in awaiting : x \in 1..Len(mods) /\ mods[x].runs = 1
    BY ONLY <1>4, <1>5
  <1> QED BY ONLY <1>1, <1>3, <1>6, <1>7, <1>8, <1>9

(* js_async_module_execution_rejected keeps the counting.                  *)
LEMMA rejectedCount ==
    ASSUME ShapeInv, Reenter = FALSE, CountInv, js_async_module_execution_rejected
    PROVE  CountInv'
  <1> DEFINE d == Head(jobs)[1]
  <1>1. /\ stk = <<>> /\ stk' = stk /\ jobs # <<>> /\ jobs' = Tail(jobs)
        /\ UNCHANGED <<world, loaded, awaiting, clock>> /\ mods' \in Seq(ModRec)
        /\ \/ mods' = mods
           \/ mods[d].status # "evaluated" /\ Rejects(mods, mods', Failing(mods, d), d)
    BY rejectedStep
  <1>2. CASE mods' = mods
    BY <1>1, <1>2, SkipsCount
  <1>3. CASE mods[d].status # "evaluated" /\ Rejects(mods, mods', Failing(mods, d), d)
    <2>1. /\ d \in 1..Len(mods) /\ mods[d].status = "async" /\ NoneOpen(mods)
          /\ Count(world, mods, {}, {}, {}, {}, jobs, awaiting, clock)
          /\ \A k \in 1..Len(Tail(jobs)) : Tail(jobs)[k][1] \in 1..Len(mods) /\ mods[Tail(jobs)[k][1]].runs = 1
          /\ \A x \in awaiting : x \in 1..Len(mods) /\ mods[x].runs = 1
      BY <1>1, <1>3, JobModule
    <2>2. RootsOK(mods) /\ ParentsIn(mods) /\ mods \in Seq(ModRec)
      BY HandsAre
    <2> HIDE DEF d
    <2>3. Fail(mods, Failing(mods, d))
      BY ONLY <2>1, <2>2, FailIs
    <2>4. RunOK(mods, {}, awaiting, Tail(jobs))
      BY ONLY <2>1 DEF RunOK
    <2>5. d \in Nat /\ d # 0 /\ \A k \in 1..Len(Tail(jobs)) : Tail(jobs)[k][1] \in 1..Len(mods)
      BY ONLY <2>1
    <2> DEFINE none == OpenNow
    <2>6. none = {}
      BY <1>1, NoViews
    <2> HIDE DEF none
    <2>11. \A x \in 1..Len(mods) : x \in none <=> x \in none /\ x \notin Failing(mods, d)
      BY ONLY <2>6
    <2>12. Count(world, mods, {}, none, none, none, jobs, awaiting, clock) /\ RunOK(mods, none, awaiting, Tail(jobs))
      BY ONLY <2>1, <2>4, <2>6
    <2>13. Rejects(mods, mods', Failing(mods, d), d)
      BY ONLY <1>3
    <2>14. Count(world, mods', {}, none, none, none, Tail(jobs), awaiting, clock)
      BY ONLY <1>1, <2>1, <2>2, <2>3, <2>5, <2>11, <2>12, <2>13, CountRejects
    <2>7. Count(world, mods', {}, {}, {}, {}, Tail(jobs), awaiting, clock)
      BY ONLY <2>6, <2>14
    <2>8. LinksSame
      BY ONLY <1>3 DEF Rejects, SameBase, LinksSame
    <2>9. OpenNow' = {} /\ RunNow' = {} /\ QueueNow' = {} /\ ReactNow' = {}
      BY <1>1, <2>8, NoViewsNext
    <2>10. jobs' = Tail(jobs) /\ world' = world /\ awaiting' = awaiting /\ clock' = clock
      BY ONLY <1>1
    <2> QED BY ONLY <2>7, <2>9, <2>10 DEF CountInv
  <1> QED BY ONLY <1>1, <1>2, <1>3

(* The fields of a reaction's call.                                        *)
LEMMA ReactsCall ==
    ASSUME NEW list \in Seq(Nat)
    PROVE  /\ Reacts(list) \in CallRec /\ Reacts(list).op = "fulfilled" /\ Reacts(list).body = 0
           /\ Reacts(list).list = list
  <1> DEFINE c == Reacts(list)
             c0 == Call("fulfilled", 0, 0)
  <1>1. c = [c0 EXCEPT !.list = list]
    BY DEF Reacts
  <1>2. c0 \in CallRec /\ c0.op = "fulfilled" /\ c0.body = 0
    <2>1. "fulfilled" \in Ops /\ 0 \in Names \cup {0} /\ 0 \in Nat /\ <<>> \in Seq(Nat) /\ <<>> \in Seq(Point)
      BY DEF Ops
    <2> HIDE DEF c
    <2> QED BY ONLY <2>1 DEF c0, Call, CallRec
  <1> HIDE DEF c0
  <1>3. c \in CallRec /\ c.op = "fulfilled" /\ c.body = 0 /\ c.list = list
    BY <1>1, <1>2 DEF CallRec
  <1> QED BY ONLY <1>3

(* What a reaction collects keeps the counting.                            *)
LEMMA CollectsCount ==
    ASSUME ShapeInv, CountInv, stk = <<>>, jobs # <<>>, jobs' = Tail(jobs), NEW d, d = Head(jobs)[1],
           UNCHANGED <<world, loaded, awaiting, clock>>, mods' \in Seq(ModRec),
           NEW ms, NEW list, Collects(d, ms, list)
    PROVE  CountInv'
  <1>1. /\ mods[d].status # "evaluated" /\ ms \in Seq(ModRec) /\ Evaluates(mods, ms, d)
        /\ Lightens(ms, mods', Freed(ms, d)) /\ list \in Seq(Nat)
        /\ \A x : Has(list, x) <=> x \in Available(ms, d)
        /\ stk' = Append(stk, Reacts(list))
    BY DEF Collects
  <1>2. /\ d \in 1..Len(mods) /\ mods[d].status = "async" /\ mods[d].runs = 1 /\ NoneOpen(mods)
        /\ Count(world, mods, {}, {}, {}, {}, jobs, awaiting, clock)
        /\ \A k \in 1..Len(Tail(jobs)) : Tail(jobs)[k][1] \in 1..Len(mods) /\ mods[Tail(jobs)[k][1]].runs = 1
        /\ \A x \in awaiting : x \in 1..Len(mods) /\ mods[x].runs = 1
    BY <1>1, JobModule
  <1>3. RootsOK(mods) /\ ParentsIn(mods) /\ mods \in Seq(ModRec)
    BY HandsAre
  <1>4. /\ Reacts(list) \in CallRec /\ Reacts(list).op = "fulfilled" /\ Reacts(list).body = 0
        /\ Reacts(list).list = list
    BY ONLY <1>1, ReactsCall
  <1>5. Len(ms) = Len(mods) /\ LinksSame
    BY ONLY <1>1 DEF Evaluates, OthersSame, SameMod, SameShape, SameBase, Lightens, SameButPending, LinksSame
  <1>6. /\ OpenNow' = {} /\ RunNow' = {x \in 1..Len(mods) : Reacts(list).body = x}
        /\ QueueNow' = {x \in 1..Len(mods) : Lists(Reacts(list), x)}
        /\ ReactNow' = {x \in 1..Len(mods) : Executing(Reacts(list), x)}
    BY <1>1, <1>4, <1>5, ViewsBegin DEF Base
  <1>7. RunNow' = {} /\ ReactNow' = {}
    BY ONLY <1>4, <1>6 DEF Executing
  <1>8. \A x \in 1..Len(mods) : x \in QueueNow' <=> x \in Available(ms, d)
    BY ONLY <1>1, <1>4, <1>6 DEF Lists
  <1>9. RunOK(mods, {}, awaiting, Tail(jobs))
    BY ONLY <1>2 DEF RunOK
  <1>10. \A k \in 1..Len(Tail(jobs)) : Tail(jobs)[k][1] \in 1..Len(mods)
    BY ONLY <1>2
  <1>11. Count(world, mods', {}, {}, QueueNow', {}, Tail(jobs), awaiting, clock)
    BY ONLY <1>1, <1>2, <1>3, <1>8, <1>9, <1>10, CountCollects, mods' \in Seq(ModRec)
  <1> QED BY ONLY <1>6, <1>7, <1>11, jobs' = Tail(jobs), UNCHANGED <<world, loaded, awaiting, clock>> DEF CountInv

(* js_async_module_execution_fulfilled keeps the counting.                 *)
LEMMA fulfilledCount ==
    ASSUME ShapeInv, Reenter = FALSE, CountInv, js_async_module_execution_fulfilled
    PROVE  CountInv'
  <1>1. /\ stk = <<>> /\ jobs # <<>> /\ jobs' = Tail(jobs)
        /\ UNCHANGED <<world, loaded, awaiting, clock>> /\ mods' \in Seq(ModRec)
        /\ \/ mods' = mods /\ stk' = stk
           \/ \E ms, list : Collects(Head(jobs)[1], ms, list)
    BY fulfilledStep
  <1>2. CASE mods' = mods /\ stk' = stk
    BY <1>1, <1>2, SkipsCount
  <1>3. CASE \E ms, list : Collects(Head(jobs)[1], ms, list)
    BY <1>1, <1>3, CollectsCount
  <1> QED BY ONLY <1>1, <1>2, <1>3
(* A reaction executes the first of the modules that became available.     *)
LEMMA OrderedHead ==
    ASSUME NEW ms \in Seq(ModRec), NEW list \in Seq(Nat), list # <<>>,
           \A k \in 1..Len(list) : list[k] \in 1..Len(ms),
           \A i, j \in 1..Len(list) : i < j => ms[list[i]].timestamp < ms[list[j]].timestamp,
           NEW rest \in Seq(Nat), Len(rest) = Len(list) - 1,
           \A k \in 1..Len(rest) : k + 1 \in 1..Len(list) /\ rest[k] = list[k + 1]
    PROVE  /\ \A x : Has(list, x) /\ x # list[1] => ms[list[1]].timestamp < ms[x].timestamp
           /\ \A x : Has(rest, x) <=> Has(list, x) /\ x # list[1]
  <1>1. Len(list) \in Nat \ {0} /\ 1 \in 1..Len(list)
    BY TailIs
  <1>2. \A k \in 1..Len(list) : k # 1 => ms[list[1]].timestamp < ms[list[k]].timestamp
    BY ONLY <1>1, \A i, j \in 1..Len(list) : i < j => ms[list[i]].timestamp < ms[list[j]].timestamp
  <1>3. \A x : Has(list, x) /\ x # list[1] => ms[list[1]].timestamp < ms[x].timestamp
    BY ONLY <1>2 DEF Has
  <1>4. \A x : Has(rest, x) => Has(list, x)
    BY ONLY \A k \in 1..Len(rest) : k + 1 \in 1..Len(list) /\ rest[k] = list[k + 1] DEF Has
  <1>5. \A x : Has(list, x) /\ x # list[1] => Has(rest, x)
    <2>1. ASSUME NEW k \in 1..Len(list), k # 1 PROVE k - 1 \in 1..Len(rest) /\ rest[k - 1] = list[k]
      <3>1. k - 1 \in 1..Len(rest) /\ k - 1 + 1 = k
        BY ONLY <1>1, <2>1, Len(rest) = Len(list) - 1
      <3> QED BY ONLY <3>1, \A h \in 1..Len(rest) : h + 1 \in 1..Len(list) /\ rest[h] = list[h + 1]
    <2> QED BY ONLY <2>1 DEF Has
  <1>6. ~Has(rest, list[1])
    <2>1. ASSUME NEW k \in 1..Len(rest), rest[k] = list[1] PROVE FALSE
      <3>1. k + 1 \in 1..Len(list) /\ k + 1 # 1 /\ list[k + 1] = list[1]
        BY <2>1, SMTT(30)
      <3>2. ms[list[1]].timestamp < ms[list[k + 1]].timestamp
        BY ONLY <1>2, <3>1
      <3>3. ms[list[1]].timestamp \in Nat
        BY <1>1, ModIs
      <3> QED BY ONLY <3>1, <3>2, <3>3, SMTT(30)
    <2> QED BY ONLY <2>1 DEF Has
  <1> QED BY ONLY <1>3, <1>4, <1>5, <1>6

(* What is in hand when a reaction goes on to the next module.             *)
LEMMA ReactionNow ==
    ASSUME ShapeInv, OrderInv, executeAvailable, NEW c, Runs(Head(Top.list), c)
    PROVE  /\ Head(Top.list) \in 1..Len(mods) /\ mods \in Seq(ModRec) /\ NoneOpen(mods)
           /\ OpenNow = {} /\ ReactNow = {} /\ Head(Top.list) \in QueueNow /\ First(mods, QueueNow, Head(Top.list))
           /\ LinksSame => /\ OpenNow' = {} /\ RunNow' = {x \in 1..Len(mods) : c.body = x}
                           /\ \A x : x \in QueueNow' <=> x \in QueueNow /\ x # Head(Top.list)
                           /\ ReactNow' = {x \in 1..Len(mods) : c.body = x}
  <1> DEFINE d == Head(Top.list)
             rest == Tail(Top.list)
  <1>1. /\ Is("fulfilled") /\ stk # <<>> /\ Len(stk) = 1 /\ Top.list # <<>> /\ Top \in CallRec
        /\ d = Top.list[1] /\ 1 \in 1..Len(Top.list) /\ d \in 1..Len(mods)
        /\ Len(rest) = Len(Top.list) - 1
        /\ \A k \in 1..Len(rest) : k + 1 \in 1..Len(Top.list) /\ rest[k] = Top.list[k + 1]
    BY executeAvailableStep
  <1>2. Top.op = "fulfilled" /\ Top.body = 0 /\ mods \in Seq(ModRec) /\ Top.list \in Seq(Nat)
    BY <1>1, ShapeIs, CallFields DEF Is
  <1>3. c \in CallRec /\ c.op = "fulfilled" /\ c.list = rest /\ stk' = WithTop(c)
    BY DEF Runs
  <1>4. /\ OpenNow = {} /\ QueueNow = {x \in 1..Len(mods) : Lists(Top, x)}
        /\ ReactNow = {x \in 1..Len(mods) : Executing(Top, x)}
    BY <1>1, <1>2, JobViews DEF Base
  <1>5. ReactNow = {}
    BY ONLY <1>2, <1>4 DEF Executing
  <1>6. \A x \in 1..Len(mods) : mods[x].status # "evaluating"
    BY <1>1, <1>2, JobAlone DEF Base
  <1>7. NoneOpen(mods)
    BY ONLY <1>6 DEF NoneOpen
  <1>8. \A k \in 1..Len(Top.list) : Top.list[k] \in 1..Len(mods)
    BY <1>1, TopIs DEF CallIn
  <1>9. \A i, j \in 1..Len(Top.list) : i < j => mods[Top.list[i]].timestamp < mods[Top.list[j]].timestamp
    <2>1. Top = stk[Len(stk)] /\ Len(stk) \in 1..Len(stk)
      BY <1>1, TopIs
    <2> QED BY ONLY <1>2, <2>1, OrderInv, SMTT(30) DEF OrderInv, InOrder
  <1>10. /\ \A x : Has(Top.list, x) /\ x # Top.list[1] => mods[Top.list[1]].timestamp < mods[x].timestamp
         /\ \A x : Has(rest, x) <=> Has(Top.list, x) /\ x # Top.list[1]
    <2>0. rest \in Seq(Nat)
      BY ONLY <1>2, <1>1, HeadTailProperties
    <2> HIDE DEF rest
    <2>1. Len(rest) = Len(Top.list) - 1
      BY ONLY <1>1
    <2>2. \A k \in 1..Len(rest) : k + 1 \in 1..Len(Top.list) /\ rest[k] = Top.list[k + 1]
      BY ONLY <1>1
    <2>3. Top.list # <<>>
      BY ONLY <1>1
    <2> QED BY ONLY <1>2, <1>8, <1>9, <2>0, <2>1, <2>2, <2>3, OrderedHead
  <1>11. Has(Top.list, d)
    BY ONLY <1>1 DEF Has
  <1>12. d \in QueueNow
    BY ONLY <1>1, <1>2, <1>4, <1>11 DEF Lists
  <1>13. First(mods, QueueNow, d)
    BY ONLY <1>1, <1>4, <1>10 DEF First, Lists
  <1>14. ASSUME LinksSame
         PROVE  /\ OpenNow' = {} /\ RunNow' = {x \in 1..Len(mods) : c.body = x}
                /\ \A x : x \in QueueNow' <=> x \in QueueNow /\ x # d
                /\ ReactNow' = {x \in 1..Len(mods) : c.body = x}
    <2>1. /\ OpenNow' = {} /\ RunNow' = {x \in 1..Len(mods) : c.body = x}
          /\ QueueNow' = {x \in 1..Len(mods) : Lists(c, x)} /\ ReactNow' = {x \in 1..Len(mods) : Executing(c, x)}
      BY <1>1, <1>2, <1>3, <1>14, ViewsGoOn DEF Base
    <2>2. ReactNow' = {x \in 1..Len(mods) : c.body = x}
      BY ONLY <1>3, <2>1 DEF Executing
    <2>3. \A x : x \in QueueNow' <=> x \in QueueNow /\ x # d
      BY ONLY <1>1, <1>2, <1>3, <1>4, <1>10, <2>1 DEF Lists
    <2> QED BY ONLY <2>1, <2>2, <2>3
  <1> QED BY ONLY <1>1, <1>2, <1>4, <1>5, <1>7, <1>12, <1>13, <1>14

(* executeAvailable keeps the counting.                                    *)
LEMMA executeAvailableCount ==
    ASSUME ShapeInv, CountInv, OrderInv, executeAvailable
    PROVE  CountInv'
  <1> DEFINE d == Head(Top.list)
  <1>1. UNCHANGED <<world, loaded, jobs, awaiting, clock>> /\ mods' \in Seq(ModRec) /\ \E c : Runs(d, c)
    BY executeAvailableStep
  <1>2. PICK c : Runs(d, c)
    BY <1>1
  <1>3. \/ mods[d].status = "evaluated" /\ mods' = mods /\ c.body = 0
        \/ mods[d].status # "evaluated" /\ Starts(mods, mods', d, 1, FALSE, 0) /\ c.body = d
    BY <1>2 DEF Runs
  <1>4. /\ d \in 1..Len(mods) /\ mods \in Seq(ModRec) /\ NoneOpen(mods)
        /\ OpenNow = {} /\ ReactNow = {} /\ d \in QueueNow /\ First(mods, QueueNow, d)
        /\ LinksSame => /\ OpenNow' = {} /\ RunNow' = {x \in 1..Len(mods) : c.body = x}
                        /\ \A x : x \in QueueNow' <=> x \in QueueNow /\ x # d
                        /\ ReactNow' = {x \in 1..Len(mods) : c.body = x}
    BY <1>2, ReactionNow
  <1> HIDE DEF d
  <1>5. RootsOK(mods) /\ ParentsIn(mods) /\ JobsIn(mods, jobs)
    BY HandsAre
  <1>6. Count(world, mods, OpenNow, RunNow, QueueNow, ReactNow, jobs, awaiting, clock)
    BY DEF CountInv
  <1>7. \A k \in 1..Len(jobs) : jobs[k][1] \in 1..Len(mods)
    BY ONLY <1>5 DEF JobsIn
  <1>8. ASSUME mods[d].status = "evaluated", mods' = mods, c.body = 0 PROVE CountInv'
    <2>1. LinksSame
      BY <1>8, SameLinks
    <2>2. RunNow' = {} /\ ReactNow' = {}
      BY ONLY <1>4, <1>8, <2>1
    <2>3. ~mods[d].async
      BY ONLY <1>4, <1>6, <1>8 DEF Count, Each, QueueOK
    <2>4. RunOK(mods, RunNow', awaiting, jobs)
      BY ONLY <1>6, <2>2 DEF Count, RunOK
    <2>5. (\A x : x \in QueueNow' => x \in QueueNow) /\ (\A x : x \in QueueNow => x \in QueueNow' \/ x = d)
      BY ONLY <1>4, <2>1
    <2>6. Count(world, mods, OpenNow, RunNow', QueueNow', ReactNow, jobs, awaiting, clock)
      BY ONLY <1>4, <1>6, <1>8, <2>3, <2>4, <2>5, CountSkips
    <2>7. OpenNow' = OpenNow /\ ReactNow' = ReactNow
      BY ONLY <1>4, <2>1, <2>2
    <2>8. world' = world /\ jobs' = jobs /\ awaiting' = awaiting /\ clock' = clock
      BY ONLY <1>1
    <2> QED BY ONLY <1>8, <2>6, <2>7, <2>8 DEF CountInv
  <1>9. ASSUME mods[d].status # "evaluated", Starts(mods, mods', d, 1, FALSE, 0), c.body = d PROVE CountInv'
    <2>1. LinksSame
      BY ONLY <1>4, <1>9 DEF Starts, OthersSame, SameMod, SameShape, LinksSame
    <2>2. /\ \A x : x \in ReactNow' <=> x = d
          /\ \A x : x \in RunNow' <=> x = d
          /\ \A x : x \in QueueNow' <=> x \in QueueNow /\ x # d
      BY ONLY <1>4, <1>9, <2>1
    <2>3. Count(world, mods, {}, RunNow, QueueNow, {}, jobs, awaiting, clock)
      BY ONLY <1>4, <1>6
    <2>4. Count(world, mods', {}, RunNow', QueueNow', ReactNow', jobs, awaiting, clock)
      BY ONLY <1>1, <1>4, <1>5, <1>7, <1>9, <2>2, <2>3, CountRuns
    <2>5. OpenNow' = {}
      BY ONLY <1>4, <2>1
    <2>6. world' = world /\ jobs' = jobs /\ awaiting' = awaiting /\ clock' = clock
      BY ONLY <1>1
    <2> QED BY ONLY <2>4, <2>5, <2>6 DEF CountInv
  <1> QED BY ONLY <1>3, <1>8, <1>9

(* Jobs keep the counting.                                                 *)
LEMMA JobsCount ==
    ASSUME ShapeInv, Reenter = FALSE, CountInv, OrderInv, Jobs
    PROVE  CountInv'
  BY bodyResumesCount, rejectedCount, fulfilledCount, executeAvailableCount, fulfilledDoneCount DEF Jobs
-----------------------------------------------------------------------------
(* The modules that a reaction executes stay in order.                     *)

(* The lists of the reactions in progress stay, as do the timestamps of    *)
(* the modules in them.                                                    *)
ListsSame ==
    \A k \in 1..Len(stk') : stk'[k].op = "fulfilled" =>
        k \in 1..Len(stk) /\ stk[k].op = "fulfilled" /\ stk'[k].list = stk[k].list
TimesSame == \A x \in QueueNow : mods'[x].timestamp = mods[x].timestamp

(* The order is kept when lists and timestamps are.                        *)
LEMMA OrderKept ==
    ASSUME ShapeInv, OrderInv, ListsSame, TimesSame
    PROVE  OrderInv'
  <1> SUFFICES ASSUME NEW k \in 1..Len(stk'), stk'[k].op = "fulfilled",
                      NEW i \in 1..Len(stk'[k].list), NEW j \in 1..Len(stk'[k].list), i < j
               PROVE  mods'[stk'[k].list[i]].timestamp < mods'[stk'[k].list[j]].timestamp
    BY DEF OrderInv, InOrder
  <1>1. k \in 1..Len(stk) /\ stk[k].op = "fulfilled" /\ stk'[k].list = stk[k].list
    BY DEF ListsSame
  <1>2. i \in 1..Len(stk[k].list) /\ j \in 1..Len(stk[k].list)
    BY <1>1
  <1>3. mods[stk[k].list[i]].timestamp < mods[stk[k].list[j]].timestamp
    BY <1>1, <1>2 DEF OrderInv, InOrder
  <1>4. CallIn(mods, stk[k])
    BY <1>1, ShapeIs DEF StackOK, CallsOK, CallOK
  <1>5. ASSUME NEW m \in 1..Len(stk[k].list)
        PROVE  mods'[stk[k].list[m]].timestamp = mods[stk[k].list[m]].timestamp
    <2>1. stk[k].list[m] \in 1..Len(mods)
      BY ONLY <1>4, <1>5 DEF CallIn
    <2>2. Lists(stk[k], stk[k].list[m])
      BY ONLY <1>1, <1>5 DEF Lists, Has
    <2>3. stk[k].list[m] \in QueueNow
      BY ONLY <1>1, <2>1, <2>2 DEF QueueNow, QueueIn
    <2> QED BY ONLY <2>3, TimesSame DEF TimesSame
  <1> QED BY ONLY <1>1, <1>2, <1>3, <1>5

(* The lists of a stack whose innermost call ends or goes on.              *)
LEMMA ListsTop ==
    ASSUME ShapeInv,
           \/ stk' = stk
           \/ stk # <<>> /\ stk' = Pop
           \/ \E c \in CallRec : /\ stk # <<>> /\ stk' = WithTop(c)
                                 /\ c.op = "fulfilled" => Top.op = "fulfilled" /\ c.list = Top.list
           \/ \E c \in CallRec : stk' = Append(stk, c) /\ c.op # "fulfilled"
    PROVE  ListsSame
  <1>0. stk \in Seq(CallRec)
    BY ShapeIs
  <1> SUFFICES ASSUME NEW k \in 1..Len(stk'), stk'[k].op = "fulfilled"
               PROVE  k \in 1..Len(stk) /\ stk[k].op = "fulfilled" /\ stk'[k].list = stk[k].list
    BY DEF ListsSame
  <1>1. CASE stk' = stk
    BY <1>1
  <1>2. CASE stk # <<>> /\ stk' = Pop
    BY <1>0, <1>2, PopIs
  <1>3. ASSUME NEW c \in CallRec, stk # <<>>, stk' = WithTop(c),
               c.op = "fulfilled" => Top.op = "fulfilled" /\ c.list = Top.list
        PROVE  k \in 1..Len(stk) /\ stk[k].op = "fulfilled" /\ stk'[k].list = stk[k].list
    <2>1. /\ stk' = Append(Pop, c) /\ Pop \in Seq(CallRec) /\ Len(Pop) = Len(stk) - 1 /\ Len(stk) \in Nat \ {0}
          /\ Top = stk[Len(stk)] /\ \A h \in 1..Len(Pop) : h \in 1..Len(stk) /\ Pop[h] = stk[h]
      BY <1>0, <1>3, PopIs, WithTopIs
    <2>2. (k \in 1..Len(Pop) /\ stk'[k] = Pop[k]) \/ (k = Len(Pop) + 1 /\ stk'[k] = c)
      BY <2>1, AppendCalls
    <2>3. ASSUME k = Len(Pop) + 1, stk'[k] = c
          PROVE  k \in 1..Len(stk) /\ stk[k].op = "fulfilled" /\ stk'[k].list = stk[k].list
      <3>1. k = Len(stk) /\ k \in 1..Len(stk)
        BY ONLY <2>1, <2>3
      <3> QED BY <1>3, <2>1, <2>3, <3>1
    <2> QED BY <2>1, <2>2, <2>3
  <1>4. ASSUME NEW c \in CallRec, stk' = Append(stk, c), c.op # "fulfilled"
        PROVE  k \in 1..Len(stk) /\ stk[k].op = "fulfilled" /\ stk'[k].list = stk[k].list
    BY <1>0, <1>4, AppendCalls
  <1> QED BY <1>1, <1>2, <1>3, <1>4

(* A step that changes no timestamp, and adds no list.                     *)
LEMMA OrderSame ==
    ASSUME ShapeInv, OrderInv, \A x \in 1..Len(mods) : mods'[x].timestamp = mods[x].timestamp,
           \/ stk' = stk
           \/ stk # <<>> /\ stk' = Pop
           \/ \E c \in CallRec : /\ stk # <<>> /\ stk' = WithTop(c)
                                 /\ c.op = "fulfilled" => Top.op = "fulfilled" /\ c.list = Top.list
           \/ \E c \in CallRec : stk' = Append(stk, c) /\ c.op # "fulfilled"
    PROVE  OrderInv'
  <1>1. ListsSame
    BY ListsTop
  <1>2. TimesSame
    BY HandsAre DEF TimesSame
  <1> QED BY ONLY <1>1, <1>2, ShapeInv, OrderInv, OrderKept

(* A quiet step.                                                           *)
LEMMA OrderQuiet ==
    ASSUME ShapeInv, OrderInv, QuietStep
    PROVE  OrderInv'
  <1>1. \A k \in 1..Len(stk') : Loud(stk'[k]) => k \in 1..Len(stk) /\ stk'[k] = stk[k]
    BY DEF QuietStep, QuietCalls
  <1>2. ListsSame
    BY ONLY <1>1 DEF ListsSame, Loud
  <1>3. \A x \in 1..Len(mods) : mods'[x].timestamp = mods[x].timestamp
    BY DEF QuietStep, QuietMods, SameEval
  <1>4. TimesSame
    BY <1>3, HandsAre DEF TimesSame
  <1> QED BY <1>2, <1>4, OrderKept
(* The steps of an evaluation: only a module that the evaluation is at     *)
(* gets a timestamp, and no reaction has it in hand.                       *)
LEMMA js_evaluate_moduleOrder ==
    ASSUME ShapeInv, OrderInv, js_evaluate_module
    PROVE  OrderInv'
  <1>1. /\ stk # <<>> /\ Top.op = "js_evaluate_module" /\ Top.d \in 1..Len(mods) /\ mods \in Seq(ModRec)
        /\ \/ stk' = Pop /\ mods' = mods
           \/ \E r, p : Answers(r, p)
           \/ Begins(Top.d)
    BY js_evaluate_moduleStep, ShapeIs
  <1>2. CASE stk' = Pop /\ mods' = mods
    BY <1>1, <1>2, OrderSame
  <1>3. ASSUME NEW r, NEW p, Answers(r, p) PROVE OrderInv'
    <2>1. stk' = Pop /\ Promises(mods, mods', r, p)
      BY <1>3 DEF Answers
    <2>2. \A x \in 1..Len(mods) : mods'[x].timestamp = mods[x].timestamp
      BY ONLY <2>1 DEF Promises, OthersSame, SameMod, SameEval
    <2> QED BY <1>1, <2>1, <2>2, OrderSame
  <1>4. CASE Begins(Top.d)
    <2>1. stk' = Enter(Top.d) /\ Enters(mods, mods', Top.d, Top.i, "evaluating")
      BY <1>4 DEF Begins
    <2>2. \A x \in 1..Len(mods) : mods'[x].timestamp = mods[x].timestamp
      BY ONLY <2>1 DEF Enters, OthersSame, SameMod, SameEval
    <2>3. stk' = WithTop(WithEntered(Top, Top.d)) /\ WithEntered(Top, Top.d) \in CallRec
          /\ WithEntered(Top, Top.d).op = Top.op
      BY <1>1, <2>1, EnterIs
    <2> QED BY <1>1, <2>2, <2>3, OrderSame
  <1> QED BY <1>1, <1>2, <1>3, <1>4

(* evaluateRequest keeps the order.                                        *)
LEMMA evaluateRequestOrder ==
    ASSUME ShapeInv, OrderInv, evaluateRequest
    PROVE  OrderInv'
  <1>1. /\ Within("js_evaluate_module") /\ Child \in 1..Len(mods)
        /\ \/ Descends(Child)
           \/ \E e : GivesUp(Child, e)
           \/ \E x, a : Continues(Child, x, a)
    BY evaluateRequestStep
  <1>2. stk # <<>> /\ Top \in CallRec /\ Top.op = "js_evaluate_module" /\ Top.path # <<>>
    BY <1>1, EvalWithin
  <1>3. CASE Descends(Child)
    <2>1. stk' = Enter(Child) /\ Enters(mods, mods', Child, Top.i, "evaluating")
      BY <1>3 DEF Descends
    <2>2. \A x \in 1..Len(mods) : mods'[x].timestamp = mods[x].timestamp
      BY ONLY <2>1 DEF Enters, OthersSame, SameMod, SameEval
    <2>3. stk' = WithTop(WithEntered(Top, Child)) /\ WithEntered(Top, Child) \in CallRec
          /\ WithEntered(Top, Child).op = Top.op
      BY <1>1, <1>2, <2>1, EnterIs
    <2> QED BY <1>2, <2>2, <2>3, OrderSame
  <1>4. ASSUME NEW e, GivesUp(Child, e) PROVE OrderInv'
    <2>1. stk' = Pop /\ Fails(mods, mods', ToSet(Top.list), e, Top.list[1])
      BY <1>4 DEF GivesUp
    <2>2. \A x \in 1..Len(mods) : mods'[x].timestamp = mods[x].timestamp
      BY ONLY <2>1 DEF Fails
    <2> QED BY <1>2, <2>1, <2>2, OrderSame
  <1>5. ASSUME NEW x, NEW a, Continues(Child, x, a) PROVE OrderInv'
    <2>1. stk' = WithTop(Advance(Top)) /\ Asks(mods, mods', Cur.d, x, a)
      BY <1>5 DEF Continues
    <2>2. \A y \in 1..Len(mods) : mods'[y].timestamp = mods[y].timestamp
      BY ONLY <2>1 DEF Asks
    <2>3. Advance(Top) \in CallRec /\ Advances(Top, Advance(Top))
      BY ONLY <1>2, AdvanceIs
    <2>4. Advance(Top).op = Top.op
      BY ONLY <2>3 DEF Advances, SameHead
    <2> QED BY <1>2, <2>1, <2>2, <2>3, <2>4, OrderSame
  <1> QED BY <1>1, <1>3, <1>4, <1>5

(* waitForRequests and executeModule keep the order.                       *)
LEMMA executeOrder ==
    ASSUME ShapeInv, OrderInv, waitForRequests \/ executeModule
    PROVE  OrderInv'
  <1>1. Within("js_evaluate_module") /\ \E n, w : Executes(n, w)
    BY executeStep
  <1>2. PICK n, w : Executes(n, w)
    BY <1>1
  <1>3. /\ Starts(mods, mods', Cur.d, n, w, clock) /\ n \in {0, 1}
        /\ n = 0 => stk' = WithTop(Advance(Top))
        /\ n = 1 => stk' = WithTop(WithBody(Advance(Top), Cur.d))
    BY ONLY <1>2 DEF Executes, WithBody
  <1>4. /\ stk # <<>> /\ Top \in CallRec /\ Top.op = "js_evaluate_module" /\ Top.path # <<>>
        /\ Cur.d \in 1..Len(mods) /\ Has(Top.list, Cur.d)
    BY <1>1, EvalWithin
  <1>5. Cur.d \notin QueueNow
    BY <1>4, EvalViews
  <1>6. \A x \in 1..Len(mods) : x # Cur.d => mods'[x].timestamp = mods[x].timestamp
    BY ONLY <1>3 DEF Starts, OthersSame, SameMod, SameEval
  <1>7. TimesSame
    BY <1>5, <1>6, HandsAre DEF TimesSame
  <1>8. Advance(Top) \in CallRec /\ Advances(Top, Advance(Top))
    BY ONLY <1>4, AdvanceIs
  <1>9. Advance(Top).op = Top.op
    BY ONLY <1>8 DEF Advances, SameHead
  <1>10. Cur.d \in Nat
    BY ONLY <1>4
  <1>11. WithBody(Advance(Top), Cur.d) \in CallRec /\ WithBody(Advance(Top), Cur.d).op = Advance(Top).op
    BY ONLY <1>8, <1>10, BodyIs
  <1>12. ListsSame
    <2>1. CASE n = 0
      BY <1>3, <1>4, <1>8, <1>9, <2>1, ListsTop
    <2>2. CASE n = 1
      BY <1>3, <1>4, <1>9, <1>11, <2>2, ListsTop
    <2> QED BY ONLY <1>3, <2>1, <2>2
  <1> QED BY <1>7, <1>12, OrderKept

(* Evaluations keep the order.                                             *)
LEMMA EvaluateOrder ==
    ASSUME ShapeInv, OrderInv, Evaluate
    PROVE  OrderInv'
  <1>1. ASSUME evaluateDone PROVE OrderInv'
    <2>1. Within("js_evaluate_module") /\ Ends
      BY <1>1, evaluateDoneStep
    <2>2. Finishes(mods, mods', Done(Cur.d), Cur.d) /\ (stk' = Pop \/ stk' = Return(Cur.d))
      BY <2>1 DEF Ends
    <2>3. stk # <<>> /\ Top.op = "js_evaluate_module"
      BY <2>1, EvalWithin
    <2>4. \A x \in 1..Len(mods) : mods'[x].timestamp = mods[x].timestamp
      BY ONLY <2>2 DEF Finishes
    <2>5. CASE stk' = Pop
      BY <2>3, <2>4, <2>5, OrderSame
    <2>6. CASE stk' = Return(Cur.d)
      <3>1. \E n \in Nat, c \in CallRec : Return(Cur.d) = WithTop(c) /\ ReturnsCall(Top, c, n)
        BY <2>1, EvalOp, ReturnIs
      <3>2. PICK n \in Nat, c \in CallRec : Return(Cur.d) = WithTop(c) /\ ReturnsCall(Top, c, n)
        BY <3>1
      <3>3. c.op = Top.op
        BY ONLY <3>2 DEF ReturnsCall, SameHead
      <3> QED BY <2>3, <2>4, <2>6, <3>2, <3>3, OrderSame
    <2> QED BY <2>2, <2>5, <2>6
  <1> QED BY <1>1, js_evaluate_moduleOrder, evaluateRequestOrder, executeOrder DEF Evaluate
(* Bodies and jobs change no timestamp.  A reaction begins with the        *)
(* modules that became available in order, and takes them from the front.  *)
LEMMA OutsTimes ==
    ASSUME NEW ms, NEW ms2, NEW d, NEW o, Outs(ms, ms2, d, o)
    PROVE  Len(ms2) = Len(ms) /\ \A x \in 1..Len(ms) : ms2[x].timestamp = ms[x].timestamp
  BY DEF Outs, OthersSame, SameMod, SameEval

(* A body that ends keeps the order.                                       *)
LEMMA BodyEndsOrder ==
    ASSUME ShapeInv, OrderInv, RunsBody, stk' = BodyEnds,
           \A x \in 1..Len(mods) : mods'[x].timestamp = mods[x].timestamp
    PROVE  OrderInv'
  <1>1. stk # <<>>
    BY BodyRuns
  <1>2. \/ stk' = Pop
        \/ \E c \in CallRec : /\ stk' = WithTop(c) /\ c.op = Top.op /\ c.list = Top.list /\ c.path = Top.path
                              /\ c.body = 0
    BY BodyEndsCalls
  <1> QED BY <1>1, <1>2, OrderSame

(* Bodies keep the order.                                                  *)
LEMMA BodiesOrder ==
    ASSUME ShapeInv, AwaitInv, OrderInv, Bodies
    PROVE  OrderInv'
  <1>1. RunsBody
    BY bodyReturnsStep, bodyThrowsStep DEF Bodies, bodyAwaits
  <1>2. /\ stk # <<>> /\ Top \in CallRec /\ Top.body \in 1..Len(mods) /\ Top.op \in BodyOps
        /\ Top.op = "js_evaluate_module" => Top.list # <<>>
    BY <1>1, BodyRuns
  <1>3. ASSUME NEW f, Reports(Top.body, f) PROVE OrderInv'
    <2>1. Outs(mods, mods', Top.body, Outcome(f)) /\ stk' = BodyEnds
      BY <1>3 DEF Reports
    <2> QED BY <1>1, <2>1, OutsTimes, BodyEndsOrder
  <1>4. ASSUME Comes(Top.body) PROVE OrderInv'
    <2>1. Outs(mods, mods', Top.body, "ok") /\ stk' = BodyEnds
      BY <1>4 DEF Comes
    <2> QED BY <1>1, <2>1, OutsTimes, BodyEndsOrder
  <1>5. ASSUME NEW ms, Completes(Top.body, ms) PROVE OrderInv'
    <2>1. Outs(mods, ms, Top.body, "ok") /\ Evaluates(ms, mods', Top.body) /\ stk' = BodyEnds
      BY <1>5 DEF Completes
    <2>2. Len(ms) = Len(mods) /\ \A x \in 1..Len(mods) : ms[x].timestamp = mods[x].timestamp
      BY ONLY <2>1, OutsTimes
    <2>3. \A x \in 1..Len(mods) : mods'[x].timestamp = mods[x].timestamp
      BY ONLY <2>1, <2>2 DEF Evaluates, OthersSame, SameMod, SameEval
    <2> QED BY <1>1, <2>1, <2>3, BodyEndsOrder
  <1>6. ASSUME NEW ms, Breaks(Top.body, ms) PROVE OrderInv'
    <2>1. Outs(mods, ms, Top.body, "threw") /\ Rejects(ms, mods', Failing(ms, Top.body), Top.body) /\ stk' = BodyEnds
      BY <1>6 DEF Breaks
    <2>2. Len(ms) = Len(mods) /\ \A x \in 1..Len(mods) : ms[x].timestamp = mods[x].timestamp
      BY ONLY <2>1, OutsTimes
    <2>3. \A x \in 1..Len(mods) : mods'[x].timestamp = mods[x].timestamp
      BY ONLY <2>1, <2>2 DEF Rejects
    <2> QED BY <1>1, <2>1, <2>3, BodyEndsOrder
  <1>7. ASSUME NEW ms, Throws(Top.body, ms) PROVE OrderInv'
    <2>1. /\ ~HasTla(Top.body) /\ Top.op # "fulfilled" /\ ms \in Seq(ModRec) /\ Outs(mods, ms, Top.body, "threw")
          /\ AbandonEvaluation(ms, Top.body)
      BY <1>7 DEF Throws
    <2>2. Top.op = "js_evaluate_module"
      <3>1. Len(stk) \in 1..Len(stk)
        BY <1>2, ShapeIs, Below
      <3> QED BY <1>2, <2>1, <3>1 DEF BodyOps, AwaitInv, Awaits, Top, HasTla
    <2>3. Len(ms) = Len(mods) /\ \A x \in 1..Len(mods) : ms[x].timestamp = mods[x].timestamp
      BY ONLY <2>1, OutsTimes
    <2>4. Top.body \in Nat
      BY <1>2
    <2>5. Fails(ms, mods', ToSet(Top.list), Top.body, Top.list[1]) /\ stk' = Pop
      BY <1>2, <2>1, <2>2, <2>3, <2>4, AbandonIs
    <2>6. \A x \in 1..Len(mods) : mods'[x].timestamp = mods[x].timestamp
      BY ONLY <2>3, <2>5 DEF Fails
    <2> QED BY <1>2, <2>5, <2>6, OrderSame
  <1>8. CASE bodyAwaits
    BY <1>1, <1>8, BodyEndsOrder DEF bodyAwaits
  <1> QED BY <1>3, <1>4, <1>5, <1>6, <1>7, <1>8, bodyReturnsStep, bodyThrowsStep DEF Bodies

(* A reaction lists what became available in its order.                    *)
LEMMA fulfilledOrder ==
    ASSUME ShapeInv, Reenter = FALSE, OrderInv, js_async_module_execution_fulfilled
    PROVE  OrderInv'
  <1>1. /\ stk = <<>> /\ jobs # <<>>
        /\ \/ mods' = mods /\ stk' = stk
           \/ \E ms, list : Collects(Head(jobs)[1], ms, list)
    BY fulfilledStep
  <1>2. CASE mods' = mods /\ stk' = stk
    BY <1>2, OrderSame
  <1>3. ASSUME NEW ms, NEW list, Collects(Head(jobs)[1], ms, list) PROVE OrderInv'
    <2> DEFINE d == Head(jobs)[1]
    <2>1. /\ ms \in Seq(ModRec) /\ Lightens(ms, mods', Freed(ms, d))
          /\ list \in ByTimestamp(ms, Available(ms, d)) /\ list \in Seq(Nat)
          /\ stk' = Append(stk, Reacts(list)) /\ Evaluates(mods, ms, d)
      BY <1>3 DEF Collects
    <2>2. d \in 1..Len(mods)
      BY <1>1, HeadJob
    <2> HIDE DEF d
    <2>3. Len(ms) = Len(mods)
      BY ONLY <2>1 DEF Evaluates
    <2>4. d \in 1..Len(ms)
      BY ONLY <2>2, <2>3
    <2>5. Available(ms, d) \subseteq 1..Len(ms)
      BY ONLY <2>1, <2>4, AvailableIn
    <2>6. /\ \A x : Has(list, x) <=> x \in Available(ms, d)
          /\ \A i, j \in 1..Len(list) : i < j => ms[list[i]].timestamp < ms[list[j]].timestamp
      BY ONLY <2>1, <2>5, ByTimestampIs
    <2>7. \A x \in 1..Len(ms) : mods'[x].timestamp = ms[x].timestamp
      BY ONLY <2>1 DEF Lightens, SameButPending
    <2>8. \A k \in 1..Len(list) : list[k] \in 1..Len(ms)
      BY ONLY <2>5, <2>6 DEF Has
    <2>9. \A i, j \in 1..Len(list) : i < j => mods'[list[i]].timestamp < mods'[list[j]].timestamp
      BY ONLY <2>6, <2>7, <2>8
    <2>10. Reacts(list) \in CallRec /\ Reacts(list).list = list
      BY ONLY <2>1, ReactsCall
    <2>11. Len(stk') = 1 /\ stk'[1] = Reacts(list)
      <3>1. stk' = Append(<<>>, Reacts(list))
        BY <1>1, <2>1
      <3> QED BY ONLY <3>1
    <2>12. InOrder(mods', Reacts(list))
      BY ONLY <2>9, <2>10 DEF InOrder
    <2>13. \A k \in 1..1 : k = 1
      OBVIOUS
    <2> QED BY ONLY <2>11, <2>12, <2>13 DEF OrderInv
  <1> QED BY <1>1, <1>2, <1>3

(* executeAvailable takes the first.                                       *)
LEMMA executeAvailableOrder ==
    ASSUME ShapeInv, OrderInv, executeAvailable
    PROVE  OrderInv'
  <1>1. /\ Is("fulfilled") /\ stk # <<>> /\ Len(stk) = 1 /\ Top \in CallRec
        /\ Len(Tail(Top.list)) = Len(Top.list) - 1
        /\ \A k \in 1..Len(Tail(Top.list)) : k + 1 \in 1..Len(Top.list) /\ Tail(Top.list)[k] = Top.list[k + 1]
        /\ \E c : Runs(Head(Top.list), c)
    BY executeAvailableStep
  <1>2. PICK c : Runs(Head(Top.list), c)
    BY <1>1
  <1>3. /\ c \in CallRec /\ c.list = Tail(Top.list) /\ stk' = WithTop(c)
        /\ mods' = mods \/ Starts(mods, mods', Head(Top.list), 1, FALSE, 0)
    BY <1>2 DEF Runs
  <1>4. \A x \in 1..Len(mods) : mods'[x].timestamp = mods[x].timestamp
    BY ONLY <1>3 DEF Starts, OthersSame, SameMod, SameEval
  <1>5. Top.op = "fulfilled" /\ Top = stk[1] /\ CallIn(mods, Top)
    BY <1>1, TopIs DEF Is
  <1>6. InOrder(mods, Top)
    BY <1>1, <1>5 DEF OrderInv
  <1>7. ASSUME NEW i \in 1..Len(c.list), NEW j \in 1..Len(c.list), i < j
        PROVE  mods'[c.list[i]].timestamp < mods'[c.list[j]].timestamp
    <2>1. /\ i + 1 \in 1..Len(Top.list) /\ c.list[i] = Top.list[i + 1]
          /\ j + 1 \in 1..Len(Top.list) /\ c.list[j] = Top.list[j + 1]
      BY ONLY <1>1, <1>3, <1>7
    <2>2. i + 1 < j + 1
      BY ONLY <1>7
    <2>3. mods[c.list[i]].timestamp < mods[c.list[j]].timestamp
      BY ONLY <1>5, <1>6, <2>1, <2>2 DEF InOrder
    <2>4. c.list[i] \in 1..Len(mods) /\ c.list[j] \in 1..Len(mods)
      BY ONLY <1>5, <2>1 DEF CallIn
    <2> QED BY ONLY <1>4, <2>3, <2>4
  <1>8. InOrder(mods', c)
    BY ONLY <1>7 DEF InOrder
  <1>9. Len(stk') = 1 /\ stk'[1] = c
    <2>1. stk \in Seq(CallRec) /\ Len(stk) \in 1..Len(stk)
      BY <1>1, ShapeIs, Below
    <2>2. /\ Len([stk EXCEPT ![Len(stk)] = c]) = Len(stk)
          /\ [stk EXCEPT ![Len(stk)] = c][Len(stk)] = c
      BY ONLY <1>3, <2>1, ExceptIs
    <2>3. stk' = [stk EXCEPT ![Len(stk)] = c]
      BY <1>3 DEF WithTop
    <2>4. Len(stk') = Len(stk) /\ stk'[Len(stk)] = c
      BY ONLY <2>2, <2>3
    <2> QED BY ONLY <1>1, <2>4
  <1>10. \A k \in 1..1 : k = 1
    OBVIOUS
  <1> QED BY ONLY <1>8, <1>9, <1>10 DEF OrderInv

(* Jobs keep the order.                                                    *)
LEMMA JobsOrder ==
    ASSUME ShapeInv, Reenter = FALSE, OrderInv, Jobs
    PROVE  OrderInv'
  <1>1. ASSUME NEW d \in Defs, bodyResumes(d) PROVE OrderInv'
    <2>1. stk' = Append(stk, Resumed(d)) /\ mods' = mods /\ d \in awaiting
      BY <1>1 DEF bodyResumes, Resumed
    <2>2. mods \in Seq(ModRec) /\ d \in 1..Len(mods) /\ mods[d].status \in Begun
      BY <1>1, <2>1, ShapeIs DEF QueuedOK
    <2>3. Resumed(d) \in CallRec /\ Resumed(d).op # "fulfilled"
      BY <2>2, ResumedIs
    <2> QED BY <2>1, <2>3, OrderSame
  <1>2. CASE js_async_module_execution_rejected
    <2>1. /\ stk' = stk
          /\ mods' = mods \/ Rejects(mods, mods', Failing(mods, Head(jobs)[1]), Head(jobs)[1])
      BY <1>2, rejectedStep
    <2>2. \A x \in 1..Len(mods) : mods'[x].timestamp = mods[x].timestamp
      BY ONLY <2>1 DEF Rejects
    <2> QED BY <2>1, <2>2, OrderSame
  <1>3. CASE fulfilledDone
    <2>1. stk # <<>> /\ stk' = Pop /\ mods' = mods
      BY <1>3 DEF fulfilledDone, Is
    <2> QED BY <2>1, OrderSame
  <1> QED BY <1>1, <1>2, <1>3, fulfilledOrder, executeAvailableOrder DEF Jobs

(* Every step keeps the counting and the order.                            *)
LEMMA CountNext ==
    ASSUME ShapeInv, ShapeInv', Reenter = FALSE, AwaitInv, CycleInv, CountInv, OrderInv, Next,
           Calls \/ Load \/ Link => QuietStep
    PROVE  CountInv' /\ OrderInv'
  <1>1. CASE QuietStep
    BY <1>1, CountsQuiet, OrderQuiet
  <1>2. CASE Evaluate
    BY <1>2, EvaluateCount, EvaluateOrder
  <1>3. CASE Bodies
    BY <1>3, BodiesCount, BodiesOrder
  <1>4. CASE Jobs
    BY <1>4, JobsCount, JobsOrder
  <1> QED BY <1>1, <1>2, <1>3, <1>4 DEF Next, Step

(* At first nothing is counted.                                            *)
LEMMA CountInit ==
    ASSUME Init
    PROVE  CountInv /\ OrderInv
  <1>1. Len(mods) = 0 /\ Len(stk) = 0 /\ Len(jobs) = 0
    BY DEF Init
  <1>2. 1..0 = {}
    OBVIOUS
  <1>3. OrderInv
    BY ONLY <1>1, <1>2 DEF OrderInv
  <1>4. Count(world, mods, OpenNow, RunNow, QueueNow, ReactNow, jobs, awaiting, clock)
    BY ONLY <1>1, <1>2 DEF Count, Each, RunOK, Reporting, Counting
  <1> QED BY <1>3, <1>4 DEF CountInv
-----------------------------------------------------------------------------
(* What holds as long as host code does not touch modules that are in use. *)

(* The layers of the invariant.                                            *)
ModulesInv == ShapeInv /\ AwaitInv /\ CycleInv /\ CountInv /\ OrderInv

(* Every step keeps the invariant.                                         *)
LEMMA ModulesStep ==
    ASSUME Reenter = FALSE, ModulesInv, [Next]_vars
    PROVE  ModulesInv'
  <1>0. ShapeInv /\ AwaitInv /\ CycleInv /\ CountInv /\ OrderInv
    BY DEF ModulesInv
  <1>1. CASE Next
    <2>1. ShapeInv' /\ AwaitInv' /\ (Calls \/ Load \/ Link => QuietStep)
      BY <1>0, <1>1, ShapeNext
    <2>2. CycleInv'
      BY <1>0, <1>1, <2>1, CyclesNext
    <2>3. CountInv' /\ OrderInv'
      BY <1>0, <1>1, <2>1, CountNext
    <2> QED BY <2>1, <2>2, <2>3 DEF ModulesInv
  <1>2. CASE UNCHANGED vars
    <2>1. /\ world' = world /\ mods' = mods /\ loaded' = loaded /\ stk' = stk /\ jobs' = jobs
          /\ awaiting' = awaiting /\ clock' = clock
      BY <1>2 DEF vars
    <2>2. ShapeInv' /\ AwaitInv' /\ CycleInv' /\ OrderInv'
      BY <1>0, <2>1 DEF ShapeInv, AwaitInv, CycleInv, OrderInv
    <2>3. CountInv'
      BY <1>0, <2>1 DEF CountInv, OpenNow, RunNow, QueueNow, ReactNow
    <2> QED BY <2>2, <2>3 DEF ModulesInv
  <1> QED BY <1>1, <1>2

(* The inductive invariant of Modules: what the calls in progress, the     *)
(* modules and the jobs know of each other.                                *)
THEOREM ModulesCorrect == Reenter = FALSE => (Spec => []ModulesInv)
  <1> SUFFICES ASSUME Reenter = FALSE PROVE Spec => []ModulesInv
    OBVIOUS
  <1>1. Init => ModulesInv
    BY ShapeInit, CyclesInit, CountInit DEF ModulesInv
  <1>2. ModulesInv /\ [Next]_vars => ModulesInv'
    BY ModulesStep
  <1> QED BY <1>1, <1>2, PTL DEF Spec

(* Every body is executed at most once (js_inner_module_evaluation,        *)
(* js_execute_sync_module, js_execute_async_module): no interleaving of    *)
(* evaluations, failures and reactions executes a module again.            *)
THEOREM BodyRunsOnceCorrect == Reenter = FALSE => (Spec => []BodyRunsOnce)
  <1> SUFFICES ASSUME Reenter = FALSE PROVE Spec => []BodyRunsOnce
    OBVIOUS
  <1>1. ModulesInv => BodyRunsOnce
    BY ShapeIs DEF ModulesInv, CountInv, Count, Each, ModOK, BodyRunsOnce
  <1>2. Spec => []ModulesInv
    BY ModulesCorrect
  <1> QED BY <1>1, <1>2, PTL

(* pending_async_dependencies of a module that waits is the number of the  *)
(* requests that will still report to it, and that is not 0.               *)
LEMMA PendingIs ==
    ASSUME ModulesInv, NEW d \in Defs, mods[d].status = "async", mods[d].runs = 0, mods[mods[d].root].err = 0,
           \A k \in DOMAIN stk : stk[k].op # "fulfilled"
    PROVE  mods[d].pending = Waits(mods, {x \in Defs : mods[x].async}, d) /\ mods[d].pending > 0
  <1>1. /\ Defs = 1..Len(mods) /\ mods \in Seq(ModRec) /\ stk \in Seq(CallRec) /\ DOMAIN stk = 1..Len(stk)
    BY ShapeIs DEF ModulesInv
  <1>2. Count(world, mods, OpenNow, RunNow, QueueNow, ReactNow, jobs, awaiting, clock)
    BY DEF ModulesInv, CountInv
  <1>3. QueueNow = {} /\ ReactNow = {}
    BY ONLY <1>1, \A k \in DOMAIN stk : stk[k].op # "fulfilled"
       DEF QueueNow, ReactNow, QueueIn, ReactIn, Lists, Executing
  <1>4. mods[d].async
    BY <1>1, <1>2 DEF Count, Each, ModOK
  <1>5. Waiting(mods, d)
    BY <1>4 DEF Waiting
  <1>6. CountedIn(world, mods, QueueNow, ReactNow) = {x \in Defs : mods[x].async}
    BY ONLY <1>1, <1>3 DEF CountedIn, Early
  <1>7. mods[d].pending = Waits(mods, CountedIn(world, mods, QueueNow, ReactNow), d)
    BY <1>1, <1>2, <1>5 DEF Count, Counting, PendingOK, Exact
  <1>8. mods[d].pending # 0
    BY <1>1, <1>2, <1>3, <1>5 DEF Count, Counting, WaitsOn
  <1>9. mods[d].pending \in Nat
    BY <1>1, ModIs
  <1>10. mods[d].pending > 0
    BY ONLY <1>8, <1>9
  <1> QED BY ONLY <1>6, <1>7, <1>10

(* pending_async_dependencies counts the modules that will still report    *)
(* (gather_available_ancestors): none twice, and none is missed.           *)
THEOREM PendingCountsWaitsCorrect == Reenter = FALSE => (Spec => []PendingCountsWaits)
  <1> SUFFICES ASSUME Reenter = FALSE PROVE Spec => []PendingCountsWaits
    OBVIOUS
  <1>1. ModulesInv => PendingCountsWaits
    BY PendingIs DEF PendingCountsWaits
  <1>2. Spec => []ModulesInv
    BY ModulesCorrect
  <1> QED BY <1>1, <1>2, PTL

=============================================================================
