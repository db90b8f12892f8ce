------------------------- MODULE ModulesShapeProofs -------------------------
(***************************************************************************)
(* The shape of modules and calls in Modules: what the calls in progress   *)
(* know of the modules they work on, for any graph of modules, any number  *)
(* of calls and any nesting, as long as host code does not touch modules   *)
(* that are in use.                                                        *)
(*                                                                         *)
(* ShapeInv is the type invariant and what every other invariant rests on. *)
(* The lemmas ...Step say what each action does, in terms of operators on  *)
(* the modules and on the innermost call; ModulesProofs builds on them.    *)
(***************************************************************************)
EXTENDS Modules, SequenceTheorems, FiniteSetTheorems, NaturalsInduction,
        WellFoundedInduction, TLAPS

-----------------------------------------------------------------------------
(* The types.                                                              *)

Ended == {"async", "evaluated"}
Begun == {"evaluating", "async", "evaluated"}
Fresh == {"unlinked", "linking", "linked"}
Resolvers == {"compileCode", "evalCode", "loadModule"}

ModRec ==
    [name : Names, links : Seq(Nat), resolved : BOOLEAN, func_created : BOOLEAN,
     status : Status, dfs : Nat, ancestor : Nat, root : Nat, pending : Nat, async : BOOLEAN,
     timestamp : Nat, parents : Seq(Nat), err : Nat,
     promise : {"none", "pending", "fulfilled", "rejected"}, runs : Nat,
     out : {"none", "ok", "threw"}]
Point == [d : Nat, i : Nat]
CallRec ==
    [op : Ops, n : Names \cup {0}, d : Nat, i : Nat, list : Seq(Nat), path : Seq(Point),
     loads : Names \cup {0}, body : Nat]

Typed(ms, ld, st, jb, aw, ck) ==
    /\ ms \in Seq(ModRec) /\ ld \subseteq 1..Len(ms) /\ st \in Seq(CallRec)
    /\ jb \in Seq(Nat \X BOOLEAN) /\ aw \subseteq 1..Len(ms) /\ ck \in Nat

Has(s, x) == \E k \in 1..Len(s) : s[k] = x

Reaches(ms, d) == From(d, [x \in 1..Len(ms) |-> ToSet(ms[x].links)])
NeedsOf(w, n) == From(n, [x \in Names |-> ToSet(w.imports[x])])

-----------------------------------------------------------------------------
(* The shape of modules and calls.                                         *)

(* What a module refers to.                                                *)
LinksOK(w, ms) ==
    \A x \in 1..Len(ms) : \A j \in 1..Len(ms[x].links) :
        /\ ms[x].links[j] \in 1..Len(ms)
        /\ ms[ms[x].links[j]].name \in ToSet(w.imports[ms[x].name])
ParentsIn(ms) ==
    \A x \in 1..Len(ms) : \A j \in 1..Len(ms[x].parents) :
        ms[x].parents[j] \in 1..Len(ms) /\ ms[ms[x].parents[j]].status \in Begun
RootsOK(ms) ==
    \A x \in 1..Len(ms) :
        /\ ms[x].root \in 0..Len(ms) /\ ms[x].err \in 0..Len(ms)
        /\ ms[x].root # 0 <=> ms[x].status \in Ended
        /\ ms[x].root # 0 => ms[ms[x].root].root = ms[x].root

(* A call that resolves: every module on its path is wanted by the one     *)
(* before it.                                                              *)
Wants(w, ms, p, n) ==
    p.i <= Len(w.imports[ms[p.d].name]) /\ n = w.imports[ms[p.d].name][p.i]
ResolveOK(w, ms, c) ==
    /\ c.body = 0 /\ c.list = <<>> /\ c.i = 0
    /\ c.op # "loadModule" => c.path # <<>>
    /\ \A k \in 1..Len(c.path) : ms[c.path[k].d].status = "unlinked"
    /\ \A k \in 1..Len(c.path) : k < Len(c.path) =>
          Wants(w, ms, c.path[k], ms[c.path[k + 1].d].name)
    /\ c.path # <<>> => ms[c.path[1].d].name = c.n
    /\ c.loads # 0 /\ c.path = <<>> => c.loads = c.n
    /\ c.loads # 0 /\ c.path # <<>> => Wants(w, ms, Last(c.path), c.loads)

(* A call that walks depth first: the list is in the order in which the    *)
(* modules were entered, and has the path.                                 *)
ListOK(ms, c, s) ==
    /\ \A k \in 1..Len(c.list) :
          /\ ms[c.list[k]].status = s
          /\ ms[c.list[1]].dfs <= ms[c.list[k]].ancestor
          /\ ms[c.list[k]].ancestor <= ms[c.list[k]].dfs
          /\ ms[c.list[k]].dfs < c.i
    /\ \A j, k \in 1..Len(c.list) : j < k => ms[c.list[j]].dfs < ms[c.list[k]].dfs
PathOK(ms, c) ==
    /\ c.path = <<>> => c.list = <<>>
    /\ c.path # <<>> => c.list # <<>> /\ c.path[1].d = c.list[1] /\ c.d = c.list[1]
    /\ \A k \in 1..Len(c.path) : Has(c.list, c.path[k].d)
    /\ \A j, k \in 1..Len(c.path) : j < k => ms[c.path[j].d].dfs < ms[c.path[k].d].dfs
    /\ \A k \in 1..Len(c.path) : k < Len(c.path) =>
          /\ c.path[k].i <= Len(ms[c.path[k].d].links)
          /\ ms[c.path[k].d].links[c.path[k].i] = c.path[k + 1].d
WalkOK(ms, c, s) ==
    /\ ListOK(ms, c, s) /\ PathOK(ms, c) /\ c.loads = 0
    /\ c.d # 0 /\ ms[c.d].name = c.n

LinkOK(ms, c) ==
    /\ WalkOK(ms, c, "linking") /\ c.body = 0
    /\ c.path # <<>> => Last(c.path).i <= Len(ms[Last(c.path).d].links) + 1
EvalOK(ms, c) ==
    /\ WalkOK(ms, c, "evaluating")
    /\ c.path # <<>> => Last(c.path).i <= Len(ms[Last(c.path).d].links) + 2
    /\ c.body # 0 => /\ c.path # <<>> /\ c.body = Last(c.path).d
                     /\ Last(c.path).i = Len(ms[c.body].links) + 2

CallIn(ms, c) ==
    /\ \A k \in 1..Len(c.path) : c.path[k].d \in 1..Len(ms) /\ c.path[k].i # 0
    /\ \A k \in 1..Len(c.list) : c.list[k] \in 1..Len(ms)
    /\ c.d \in 0..Len(ms) /\ c.body \in 0..Len(ms)
    /\ c.body # 0 => ms[c.body].status \in Begun
CallOK(w, ms, c) ==
    /\ CallIn(ms, c)
    /\ c.op \in Resolvers => ResolveOK(w, ms, c)
    /\ c.op = "js_link_module" => LinkOK(ms, c)
    /\ c.op = "js_evaluate_module" => EvalOK(ms, c)
    /\ c.op = "fulfilled" =>
          c.path = <<>> /\ c.loads = 0 /\ \A k \in 1..Len(c.list) : ms[c.list[k]].status \in Begun
    /\ c.op = "bodyResumes" => c.path = <<>> /\ c.list = <<>> /\ c.loads = 0 /\ c.body # 0

(* What a call works on, and that the name it is called for needs it.      *)
Works(c, x) == Has(c.list, x) \/ (\E k \in 1..Len(c.path) : c.path[k].d = x) \/ (c.body # 0 /\ x = c.body)
CallNeeds(w, ms, c) ==
    c.op \in Base =>
        /\ c.n \in Names
        /\ \A x \in 1..Len(ms) : Works(c, x) => ms[x].name \in NeedsOf(w, c.n)

(* Calls that host code makes: the call below runs host code, and does not *)
(* work on what the calls above it need.                                   *)
Hosts(c) == c.loads # 0 \/ c.body # 0
JobsBelow(st) == \A k \in 1..Len(st) : st[k].op \notin Base => k = 1
HostsBelow(st) == \A k \in 1..Len(st) : k < Len(st) => Hosts(st[k])
Apart(w, ms, st) ==
    \A j, k \in 1..Len(st) : j < k =>
        \A x \in 1..Len(ms) : Works(st[j], x) => ms[x].name \notin NeedsOf(w, st[k].n)
Nested(w, ms, st) == JobsBelow(st) /\ HostsBelow(st) /\ Apart(w, ms, st)

(* What is being linked or evaluated is in the list of a call.             *)
OnList(c, s, x) ==
    /\ s = "linking" => c.op = "js_link_module"
    /\ s = "evaluating" => c.op = "js_evaluate_module"
    /\ Has(c.list, x)
Listed(ms, st) ==
    \A x \in 1..Len(ms) : ms[x].status \in {"linking", "evaluating"} =>
        \E k \in 1..Len(st) : OnList(st[k], ms[x].status, x)

QueuedOK(ms, jb, aw) ==
    /\ \A k \in 1..Len(jb) : jb[k][1] \in 1..Len(ms) /\ ms[jb[k][1]].status \in Begun
    /\ \A x \in aw : ms[x].status \in Begun

Shape(w, ms, ld, st, jb, aw, ck) ==
    /\ w \in Worlds
    /\ Typed(ms, ld, st, jb, aw, ck)
    /\ LinksOK(w, ms) /\ ParentsIn(ms) /\ RootsOK(ms)
    /\ \A k \in 1..Len(st) : CallOK(w, ms, st[k]) /\ CallNeeds(w, ms, st[k])
    /\ Nested(w, ms, st)
    /\ Listed(ms, st)
    /\ QueuedOK(ms, jb, aw)
ShapeInv == Shape(world, mods, loaded, stk, jobs, awaiting, clock)
-----------------------------------------------------------------------------
(* Sequences.                                                              *)

(* Adding to a sequence.                                                   *)
LEMMA AppendIs ==
    ASSUME NEW S, NEW s \in Seq(S), NEW e \in S
    PROVE  /\ Append(s, e) \in Seq(S) /\ Len(s) \in Nat /\ Len(Append(s, e)) = Len(s) + 1
           /\ \A i \in 1..Len(s) : i \in 1..(Len(s) + 1) /\ Append(s, e)[i] = s[i]
           /\ Append(s, e)[Len(s) + 1] = e
           /\ Len(s) + 1 \in 1..(Len(s) + 1) /\ Len(s) + 1 \notin 1..Len(s)
           /\ \A i \in 1..(Len(s) + 1) : i \in 1..Len(s) \/ i = Len(s) + 1
  <1>1. Len(s) \in Nat
    BY LenProperties
  <1>2. /\ Append(s, e) \in Seq(S) /\ Len(Append(s, e)) = Len(s) + 1
        /\ \A i \in 1..Len(s) : Append(s, e)[i] = s[i]
        /\ Append(s, e)[Len(s) + 1] = e
    BY AppendProperties
  <1> QED BY <1>1, <1>2

(* Changing one element.                                                   *)
LEMMA ExceptIs ==
    ASSUME NEW S, NEW s \in Seq(S), NEW i \in 1..Len(s), NEW e \in S
    PROVE  /\ [s EXCEPT ![i] = e] \in Seq(S)
           /\ Len([s EXCEPT ![i] = e]) = Len(s)
           /\ [s EXCEPT ![i] = e][i] = e
           /\ \A j \in 1..Len(s) : j # i => [s EXCEPT ![i] = e][j] = s[j]
  BY ExceptSeq, LenProperties

(* Taking the first element.                                               *)
LEMMA TailIs ==
    ASSUME NEW S, NEW s \in Seq(S), s # <<>>
    PROVE  /\ Len(s) \in Nat \ {0} /\ 1 \in 1..Len(s) /\ Head(s) = s[1] /\ Head(s) \in S
           /\ Tail(s) \in Seq(S) /\ Len(Tail(s)) = Len(s) - 1
           /\ \A i \in 1..(Len(s) - 1) : i + 1 \in 1..Len(s) /\ i + 1 # 1 /\ Tail(s)[i] = s[i + 1]
           /\ \A i \in 1..Len(s) : i # 1 => i - 1 \in 1..(Len(s) - 1) /\ Tail(s)[i - 1] = s[i]
  <1>1. Len(s) \in Nat \ {0}
    BY EmptySeq, LenProperties
  <1>2. /\ Head(s) = s[1] /\ Head(s) \in S
        /\ Tail(s) \in Seq(S) /\ Len(Tail(s)) = Len(s) - 1
        /\ \A i \in 1..(Len(s) - 1) : Tail(s)[i] = s[i + 1]
    BY HeadTailProperties, <1>1
  <1>3. \A i \in 1..(Len(s) - 1) : i + 1 \in 1..Len(s) /\ i + 1 # 1
    BY <1>1
  <1>4. ASSUME NEW i \in 1..Len(s), i # 1
        PROVE  i - 1 \in 1..(Len(s) - 1) /\ Tail(s)[i - 1] = s[i]
    <2>1. i - 1 \in 1..(Len(s) - 1) /\ i - 1 + 1 = i
      BY <1>1, <1>4
    <2> QED BY <2>1, <1>2
  <1> QED BY <1>1, <1>2, <1>3, <1>4

(* The last element and the others: the innermost frame and its callers.   *)
LEMMA LastAndFront ==
    ASSUME NEW S, NEW s \in Seq(S), s # <<>>
    PROVE  /\ SubSeq(s, 1, Len(s) - 1) \in Seq(S) /\ Len(SubSeq(s, 1, Len(s) - 1)) = Len(s) - 1
           /\ s[Len(s)] \in S /\ s = Append(SubSeq(s, 1, Len(s) - 1), s[Len(s)])
           /\ Len(s) \in Nat \ {0} /\ \A i \in 1..(Len(s) - 1) : SubSeq(s, 1, Len(s) - 1)[i] = s[i]
  <1> DEFINE n == Len(s) - 1
             t == SubSeq(s, 1, n)
             l == s[Len(s)]
  <1>1. Len(s) \in Nat \ {0} /\ \A i \in 1..Len(s) : s[i] \in S
    BY EmptySeq, LenProperties, ElementOfSeq
  <1>2. n \in Int /\ n >= 0 /\ Len(s) = n + 1 /\ \A i \in 1..n : s[i] \in S
    BY <1>1
  <1>3. l = s[n + 1] /\ l \in S
    BY <1>1, <1>2
  <1> HIDE DEF n, l
  <1>4. /\ t \in Seq(S)
        /\ Len(t) = IF 1 <= n THEN n - 1 + 1 ELSE 0
        /\ \A i \in 1..(n - 1 + 1) : t[i] = s[1 + i - 1]
    BY <1>2, SubSeqProperties
  <1> HIDE DEF t
  <1>5. t \in Seq(S) /\ Len(t) = n /\ \A i \in 1..n : t[i] = s[i]
    BY <1>2, <1>4
  <1>7. /\ Append(t, l) \in Seq(S) /\ Len(Append(t, l)) = n + 1
        /\ \A i \in 1..n : Append(t, l)[i] = t[i]
        /\ Append(t, l)[n + 1] = l
    BY <1>3, <1>5, AppendIs
  <1>8. \A i \in 1..(n + 1) : Append(t, l)[i] = s[i]
    <2> SUFFICES ASSUME NEW i \in 1..(n + 1) PROVE Append(t, l)[i] = s[i]
      OBVIOUS
    <2>1. i \in 1..n \/ i = n + 1
      BY <1>2
    <2> QED BY <2>1, <1>3, <1>5, <1>7
  <1>9. Append(t, l) = s
    BY <1>2, <1>7, <1>8, SeqEqual
  <1> QED BY <1>1, <1>3, <1>5, <1>9 DEF t, n, l

(* The members of a sequence.                                              *)
LEMMA ToSetHas ==
    ASSUME NEW S, NEW s \in Seq(S)
    PROVE  /\ Len(s) \in Nat /\ \A k \in 1..Len(s) : s[k] \in S
           /\ \A x : x \in ToSet(s) <=> Has(s, x)
  <1>1. Len(s) \in Nat /\ DOMAIN s = 1..Len(s) /\ \A k \in 1..Len(s) : s[k] \in S
    BY LenProperties, ElementOfSeq
  <1> QED BY <1>1 DEF ToSet, Has

(* The members after an append.                                            *)
LEMMA AppendHas ==
    ASSUME NEW S, NEW s \in Seq(S), NEW e \in S
    PROVE  \A x : Has(Append(s, e), x) <=> Has(s, x) \/ x = e
  BY AppendIs DEF Has

(* All but the last element.                                               *)
LEMMA FrontIs ==
    ASSUME NEW S, NEW s \in Seq(S), s # <<>>
    PROVE  /\ Front(s) \in Seq(S) /\ Len(Front(s)) = Len(s) - 1 /\ Len(s) \in Nat \ {0}
           /\ \A i \in 1..(Len(s) - 1) : Front(s)[i] = s[i]
           /\ Last(s) = s[Len(s)] /\ Last(s) \in S
  BY LastAndFront DEF Front, Last

(* The empty sequence has no members.                                      *)
LEMMA EmptyHas ==
    \A x : ~Has(<<>>, x)
  BY DEF Has

(* A beginning of a sequence.                                              *)
LEMMA PrefixIs ==
    ASSUME NEW S, NEW s \in Seq(S), NEW n \in Nat, n <= Len(s)
    PROVE  /\ SubSeq(s, 1, n) \in Seq(S) /\ Len(SubSeq(s, 1, n)) = n
           /\ \A i \in 1..n : SubSeq(s, 1, n)[i] = s[i]
  <1>1. Len(s) \in Nat /\ \A i \in 1..n : s[i] \in S
    BY LenProperties, ElementOfSeq
  <1>2. /\ SubSeq(s, 1, n) \in Seq(S)
        /\ Len(SubSeq(s, 1, n)) = IF 1 <= n THEN n - 1 + 1 ELSE 0
        /\ \A i \in 1..(n - 1 + 1) : SubSeq(s, 1, n)[i] = s[1 + i - 1]
    BY <1>1, SubSeqProperties
  <1> QED BY <1>2

(* A sequence by its elements.                                             *)
LEMMA SeqBy ==
    ASSUME NEW S, NEW n \in Nat, NEW f, f = [x \in 1..n |-> f[x]], \A x \in 1..n : f[x] \in S
    PROVE  f \in Seq(S) /\ Len(f) = n
  <1>1. f \in [1..n -> S]
    OBVIOUS
  <1>2. f \in Seq(S)
    BY <1>1, SeqDef
  <1> QED BY <1>1, <1>2, LenProperties

-----------------------------------------------------------------------------
(* What is reached.                                                        *)

LEMMA FromIs ==
    ASSUME NEW succ, NEW x \in DOMAIN succ, \A a \in DOMAIN succ : succ[a] \subseteq DOMAIN succ
    PROVE  /\ x \in From(x, succ) /\ From(x, succ) \subseteq DOMAIN succ
           /\ \A a \in From(x, succ) : succ[a] \subseteq From(x, succ)
           /\ \A S : x \in S /\ (\A a \in S \cap DOMAIN succ : succ[a] \subseteq S) => From(x, succ) \subseteq S
  <1>1. x \in From(x, succ) /\ From(x, succ) \subseteq DOMAIN succ
    BY DEF From
  <1>2. ASSUME NEW a \in From(x, succ), NEW b \in succ[a] PROVE b \in From(x, succ)
    BY <1>2 DEF From
  <1>3. ASSUME NEW S, x \in S, \A a \in S \cap DOMAIN succ : succ[a] \subseteq S
        PROVE  From(x, succ) \subseteq S
    <2> DEFINE T == S \cap DOMAIN succ
    <2>1. T \in SUBSET DOMAIN succ /\ x \in T /\ \A a \in T : succ[a] \subseteq T
      BY <1>3
    <2>2. ASSUME NEW y \in From(x, succ) PROVE y \in T
      <3> HIDE DEF T
      <3> QED BY <2>1, <2>2 DEF From
    <2> QED BY <2>2
  <1> QED BY <1>1, <1>2, <1>3
(* The fields of a module and of a call.                                   *)
LEMMA ModIs ==
    ASSUME NEW ms \in Seq(ModRec)
    PROVE  /\ Len(ms) \in Nat
           /\ \A x \in 1..Len(ms) :
                 /\ ms[x] \in ModRec /\ ms[x].name \in Names /\ ms[x].links \in Seq(Nat)
                 /\ ms[x].status \in Status /\ ms[x].dfs \in Nat /\ ms[x].ancestor \in Nat
                 /\ ms[x].root \in Nat /\ ms[x].pending \in Nat /\ ms[x].async \in BOOLEAN
                 /\ ms[x].timestamp \in Nat /\ ms[x].parents \in Seq(Nat) /\ ms[x].err \in Nat
                 /\ ms[x].promise \in {"none", "pending", "fulfilled", "rejected"}
                 /\ ms[x].runs \in Nat /\ ms[x].out \in {"none", "ok", "threw"}
                 /\ Len(ms[x].links) \in Nat /\ Len(ms[x].parents) \in Nat
  <1>1. Len(ms) \in Nat /\ \A x \in 1..Len(ms) : ms[x] \in ModRec
    BY LenProperties, ElementOfSeq
  <1> SUFFICES ASSUME NEW r \in ModRec
               PROVE  /\ r.name \in Names /\ r.links \in Seq(Nat)
                      /\ r.status \in Status /\ r.dfs \in Nat /\ r.ancestor \in Nat
                      /\ r.root \in Nat /\ r.pending \in Nat /\ r.async \in BOOLEAN
                      /\ r.timestamp \in Nat /\ r.parents \in Seq(Nat) /\ r.err \in Nat
                      /\ r.promise \in {"none", "pending", "fulfilled", "rejected"}
                      /\ r.runs \in Nat /\ r.out \in {"none", "ok", "threw"}
                      /\ Len(r.links) \in Nat /\ Len(r.parents) \in Nat
    BY <1>1
  <1>2. r.links \in Seq(Nat) /\ r.parents \in Seq(Nat)
    BY DEF ModRec
  <1> QED BY <1>2, LenProperties DEF ModRec

(* The calls on a stack have the fields of a call.                         *)
LEMMA CallIs ==
    ASSUME NEW st \in Seq(CallRec)
    PROVE  /\ Len(st) \in Nat
           /\ \A k \in 1..Len(st) :
                 /\ st[k] \in CallRec /\ st[k].op \in Ops /\ st[k].n \in Names \cup {0}
                 /\ st[k].d \in Nat /\ st[k].i \in Nat /\ st[k].list \in Seq(Nat)
                 /\ st[k].path \in Seq(Point) /\ st[k].loads \in Names \cup {0} /\ st[k].body \in Nat
                 /\ Len(st[k].list) \in Nat /\ Len(st[k].path) \in Nat
  <1>1. Len(st) \in Nat /\ \A k \in 1..Len(st) : st[k] \in CallRec
    BY LenProperties, ElementOfSeq
  <1> SUFFICES ASSUME NEW c \in CallRec
               PROVE  /\ c.op \in Ops /\ c.n \in Names \cup {0}
                      /\ c.d \in Nat /\ c.i \in Nat /\ c.list \in Seq(Nat)
                      /\ c.path \in Seq(Point) /\ c.loads \in Names \cup {0} /\ c.body \in Nat
                      /\ Len(c.list) \in Nat /\ Len(c.path) \in Nat
    BY <1>1
  <1>2. c.list \in Seq(Nat) /\ c.path \in Seq(Point)
    BY DEF CallRec
  <1> QED BY <1>2, LenProperties DEF CallRec

(* What is needed under a name is closed under imports, ...                *)
LEMMA NeedsIs ==
    ASSUME NEW w \in Worlds, NEW n \in Names
    PROVE  /\ n \in NeedsOf(w, n) /\ NeedsOf(w, n) \subseteq Names
           /\ \A a \in NeedsOf(w, n) : ToSet(w.imports[a]) \subseteq NeedsOf(w, n)
           /\ \A a \in NeedsOf(w, n) : NeedsOf(w, a) \subseteq NeedsOf(w, n)
  <1> DEFINE succ == [x \in Names |-> ToSet(w.imports[x])]
  <1>1. ASSUME NEW a \in Names PROVE ToSet(w.imports[a]) \subseteq Names
    <2>1. w.imports[a] \in Seq(Names)
      BY WorldsAssumption DEF WorldType
    <2> QED BY <2>1, ToSetHas DEF Has
  <1>2. DOMAIN succ = Names /\ \A a \in Names : succ[a] = ToSet(w.imports[a])
    OBVIOUS
  <1> HIDE DEF succ
  <1>3. /\ n \in From(n, succ) /\ From(n, succ) \subseteq Names
        /\ \A a \in From(n, succ) : ToSet(w.imports[a]) \subseteq From(n, succ)
    BY <1>1, <1>2, FromIs
  <1>4. ASSUME NEW a \in From(n, succ) PROVE From(a, succ) \subseteq From(n, succ)
    <2>1. a \in DOMAIN succ /\ \A b \in From(n, succ) \cap DOMAIN succ : succ[b] \subseteq From(n, succ)
      BY <1>2, <1>3
    <2> QED BY <1>1, <1>2, <2>1, FromIs
  <1>5. \A a : NeedsOf(w, a) = From(a, succ)
    BY DEF NeedsOf, succ
  <1> QED BY <1>3, <1>4, <1>5

(* ... as is what a module reaches under its links, ...                    *)
LEMMA ReachIs ==
    ASSUME NEW w, NEW ms \in Seq(ModRec), LinksOK(w, ms), NEW d \in 1..Len(ms)
    PROVE  /\ d \in Reaches(ms, d) /\ Reaches(ms, d) \subseteq 1..Len(ms)
           /\ \A a \in Reaches(ms, d) : \A j \in 1..Len(ms[a].links) : ms[a].links[j] \in Reaches(ms, d)
           /\ \A S : d \in S /\ (\A a \in S \cap (1..Len(ms)) : \A j \in 1..Len(ms[a].links) : ms[a].links[j] \in S)
                 => Reaches(ms, d) \subseteq S
  <1> DEFINE succ == [x \in 1..Len(ms) |-> ToSet(ms[x].links)]
  <1>1. ASSUME NEW a \in 1..Len(ms)
        PROVE  ms[a].links \in Seq(Nat) /\ \A b : b \in ToSet(ms[a].links) <=> Has(ms[a].links, b)
    <2>1. ms[a] \in ModRec
      BY ElementOfSeq
    <2>2. ms[a].links \in Seq(Nat)
      BY <2>1 DEF ModRec
    <2> QED BY <2>2, ToSetHas
  <1>2. DOMAIN succ = 1..Len(ms) /\ \A a \in 1..Len(ms) : succ[a] = ToSet(ms[a].links)
    OBVIOUS
  <1> HIDE DEF succ
  <1>3. \A a \in 1..Len(ms) : succ[a] \subseteq 1..Len(ms)
    <2> SUFFICES ASSUME NEW a \in 1..Len(ms), NEW b \in succ[a] PROVE b \in 1..Len(ms)
      OBVIOUS
    <2>1. Has(ms[a].links, b)
      BY <1>1, <1>2
    <2>2. PICK j \in 1..Len(ms[a].links) : ms[a].links[j] = b
      BY <2>1 DEF Has
    <2> QED BY <2>2 DEF LinksOK
  <1>4. /\ d \in From(d, succ) /\ From(d, succ) \subseteq 1..Len(ms)
        /\ \A a \in From(d, succ) : succ[a] \subseteq From(d, succ)
        /\ \A S : d \in S /\ (\A a \in S \cap (1..Len(ms)) : succ[a] \subseteq S) => From(d, succ) \subseteq S
    BY <1>2, <1>3, FromIs
  <1>5. Reaches(ms, d) = From(d, succ)
    BY DEF Reaches, succ
  <1>6. ASSUME NEW a \in From(d, succ), NEW j \in 1..Len(ms[a].links) PROVE ms[a].links[j] \in From(d, succ)
    <2>1. a \in 1..Len(ms)
      BY <1>4
    <2>2. Has(ms[a].links, ms[a].links[j])
      BY <1>6 DEF Has
    <2>3. ms[a].links[j] \in succ[a]
      BY <1>1, <1>2, <2>1, <2>2
    <2> QED BY <1>4, <2>3
  <1>7. ASSUME NEW S, d \in S, \A a \in S \cap (1..Len(ms)) : \A j \in 1..Len(ms[a].links) : ms[a].links[j] \in S
        PROVE  From(d, succ) \subseteq S
    <2>1. \A a \in S \cap (1..Len(ms)) : succ[a] \subseteq S
      <3> SUFFICES ASSUME NEW a \in S \cap (1..Len(ms)), NEW b \in succ[a] PROVE b \in S
        OBVIOUS
      <3>1. Has(ms[a].links, b)
        BY <1>1, <1>2
      <3>2. PICK j \in 1..Len(ms[a].links) : ms[a].links[j] = b
        BY <3>1 DEF Has
      <3> QED BY <3>2, <1>7
    <2> QED BY <1>4, <1>7, <2>1
  <1> QED BY <1>4, <1>5, <1>6, <1>7

(* What is reached from a module that is reached is reached.               *)
LEMMA ReachTrans ==
    ASSUME NEW w, NEW ms \in Seq(ModRec), LinksOK(w, ms), NEW d \in 1..Len(ms),
           NEW y \in Reaches(ms, d)
    PROVE  y \in 1..Len(ms) /\ Reaches(ms, y) \subseteq Reaches(ms, d)
  <1>1. y \in 1..Len(ms)
    BY ReachIs
  <1>2. \A a \in Reaches(ms, d) \cap (1..Len(ms)) :
           \A j \in 1..Len(ms[a].links) : ms[a].links[j] \in Reaches(ms, d)
    BY ReachIs
  <1>3. \A S : y \in S /\ (\A a \in S \cap (1..Len(ms)) : \A j \in 1..Len(ms[a].links) : ms[a].links[j] \in S)
                 => Reaches(ms, y) \subseteq S
    BY <1>1, ReachIs
  <1> QED BY <1>1, <1>2, <1>3

(* ... and all of it is needed under the name of the module.               *)
LEMMA ReachNeeds ==
    ASSUME NEW w \in Worlds, NEW ms \in Seq(ModRec), LinksOK(w, ms), NEW d \in 1..Len(ms),
           NEW y \in Reaches(ms, d)
    PROVE  y \in 1..Len(ms) /\ ms[y].name \in NeedsOf(w, ms[d].name)
  <1> DEFINE S == {a \in 1..Len(ms) : ms[a].name \in NeedsOf(w, ms[d].name)}
  <1>1. \A a \in 1..Len(ms) : ms[a].name \in Names
    BY ModIs
  <1>2. d \in S
    BY <1>1, NeedsIs
  <1>3. ASSUME NEW a \in S \cap (1..Len(ms)), NEW j \in 1..Len(ms[a].links) PROVE ms[a].links[j] \in S
    <2>1. ms[a].links[j] \in 1..Len(ms) /\ ms[ms[a].links[j]].name \in ToSet(w.imports[ms[a].name])
      BY DEF LinksOK
    <2>2. ToSet(w.imports[ms[a].name]) \subseteq NeedsOf(w, ms[d].name)
      BY <1>1, NeedsIs
    <2> QED BY <2>1, <2>2
  <1> HIDE DEF S
  <1>4. Reaches(ms, d) \subseteq S
    BY <1>2, <1>3, ReachIs
  <1> QED BY <1>4 DEF S

(* What is reached stays so when links are added.                          *)
LEMMA ReachGrows ==
    ASSUME NEW w, NEW ms \in Seq(ModRec), LinksOK(w, ms), NEW ms2 \in Seq(ModRec), LinksOK(w, ms2),
           Len(ms) <= Len(ms2),
           \A x \in 1..Len(ms) : \A j \in 1..Len(ms[x].links) :
              j \in 1..Len(ms2[x].links) /\ ms2[x].links[j] = ms[x].links[j],
           NEW d \in 1..Len(ms)
    PROVE  Reaches(ms, d) \subseteq Reaches(ms2, d)
  <1>1. Len(ms) \in Nat /\ Len(ms2) \in Nat /\ d \in 1..Len(ms2)
    BY LenProperties
  <1>2. ASSUME NEW a \in Reaches(ms2, d) \cap (1..Len(ms)), NEW j \in 1..Len(ms[a].links)
        PROVE  ms[a].links[j] \in Reaches(ms2, d)
    BY <1>1, ReachIs
  <1>3. d \in Reaches(ms2, d)
    BY <1>1, ReachIs
  <1> QED BY <1>2, <1>3, ReachIs
(* Positions on a stack.                                                   *)
LEMMA Below ==
    /\ \A n \in Nat : \A k \in 1..(n - 1) : k \in 1..n /\ k < n /\ k # n /\ n # 1 /\ n \in 1..n
    /\ \A n \in Nat : n # 0 => n \in 1..n /\ n - 1 \in Nat /\ n - 1 + 1 = n /\ n - 1 <= n
    /\ \A n, m \in Nat : \A k \in 1..n : k < n /\ n <= m + 1 => k \in 1..m
    /\ \A n \in Nat : \A k \in 1..n : k # n => k \in 1..(n - 1)
  OBVIOUS

(* The fields of one call.                                                 *)
LEMMA CallFields ==
    ASSUME NEW c \in CallRec
    PROVE  /\ c.op \in Ops /\ c.n \in Names \cup {0}
           /\ c.d \in Nat /\ c.i \in Nat /\ c.list \in Seq(Nat)
           /\ c.path \in Seq(Point) /\ c.loads \in Names \cup {0} /\ c.body \in Nat
           /\ Len(c.list) \in Nat /\ Len(c.path) \in Nat
           /\ \A k \in 1..Len(c.path) : c.path[k].d \in Nat /\ c.path[k].i \in Nat
           /\ \A k \in 1..Len(c.list) : c.list[k] \in Nat
           /\ c.path # <<>> => Len(c.path) \in 1..Len(c.path) /\ Last(c.path) = c.path[Len(c.path)]
           /\ c.list # <<>> => 1 \in 1..Len(c.list)
  <1>1. /\ c.op \in Ops /\ c.n \in Names \cup {0}
        /\ c.d \in Nat /\ c.i \in Nat /\ c.list \in Seq(Nat)
        /\ c.path \in Seq(Point) /\ c.loads \in Names \cup {0} /\ c.body \in Nat
    BY DEF CallRec
  <1>2. Len(c.list) \in Nat /\ Len(c.path) \in Nat
    BY <1>1, LenProperties
  <1>3. /\ \A k \in 1..Len(c.path) : c.path[k] \in Point
        /\ \A k \in 1..Len(c.list) : c.list[k] \in Nat
    BY <1>1, ElementOfSeq
  <1>4. /\ c.path # <<>> => Len(c.path) # 0
        /\ c.list # <<>> => Len(c.list) # 0
    BY <1>1, EmptySeq
  <1>5. \A k \in 1..Len(c.path) : c.path[k].d \in Nat /\ c.path[k].i \in Nat
    BY <1>3 DEF Point
  <1> QED BY <1>1, <1>2, <1>3, <1>4, <1>5 DEF Last

-----------------------------------------------------------------------------
(* Steps of the innermost call.                                            *)

(* Modules are never removed or renamed, and what was begun stays begun.   *)
Grows(ms, ms2) ==
    /\ Len(ms) <= Len(ms2)
    /\ \A x \in 1..Len(ms) : ms2[x].name = ms[x].name /\ (ms[x].status \in Begun => ms2[x].status \in Begun)

(* What calls know of a module.                                            *)
SameShape(a, b) ==
    /\ b.name = a.name /\ b.links = a.links /\ b.status = a.status
    /\ b.dfs = a.dfs /\ b.ancestor = a.ancestor

(* What a call works on are modules.                                       *)
LEMMA WorksIn ==
    ASSUME NEW w, NEW ms \in Seq(ModRec), NEW c, CallOK(w, ms, c), NEW x, Works(c, x)
    PROVE  x \in 1..Len(ms)
  <1>1. CallIn(ms, c) /\ Len(ms) \in Nat
    BY ModIs DEF CallOK
  <1>2. CASE Has(c.list, x)
    BY <1>1, <1>2 DEF Has, CallIn
  <1>3. CASE \E k \in 1..Len(c.path) : c.path[k].d = x
    BY <1>1, <1>3 DEF CallIn
  <1>4. CASE c.body # 0 /\ x = c.body
    BY <1>1, <1>4 DEF CallIn
  <1> QED BY <1>2, <1>3, <1>4 DEF Works

(* A call that runs host code is not concerned by steps on other modules.  *)
LEMMA CallKept ==
    ASSUME NEW w, NEW ms \in Seq(ModRec), NEW ms2 \in Seq(ModRec), NEW c \in CallRec,
           CallOK(w, ms, c), Hosts(c), Grows(ms, ms2),
           \A x \in 1..Len(ms) : Works(c, x) => SameShape(ms[x], ms2[x])
    PROVE  CallOK(w, ms2, c)
  <1>1. Len(ms) \in Nat /\ Len(ms2) \in Nat /\ Len(ms) <= Len(ms2)
    BY ModIs DEF Grows
  <1>a. CallIn(ms, c)
    BY DEF CallOK
  <1>2. /\ \A k \in 1..Len(c.path) : c.path[k].d \in 1..Len(ms) /\ c.path[k].i # 0
                                     /\ SameShape(ms[c.path[k].d], ms2[c.path[k].d])
        /\ \A k \in 1..Len(c.list) : c.list[k] \in 1..Len(ms) /\ SameShape(ms[c.list[k]], ms2[c.list[k]])
        /\ c.body # 0 => c.body \in 1..Len(ms) /\ SameShape(ms[c.body], ms2[c.body])
    <2>1. ASSUME NEW k \in 1..Len(c.path)
          PROVE  c.path[k].d \in 1..Len(ms) /\ c.path[k].i # 0 /\ Works(c, c.path[k].d)
      BY <1>a DEF CallIn, Works
    <2>2. ASSUME NEW k \in 1..Len(c.list)
          PROVE  c.list[k] \in 1..Len(ms) /\ Works(c, c.list[k])
      BY <1>a DEF CallIn, Works, Has
    <2>3. c.body # 0 => c.body \in 1..Len(ms) /\ Works(c, c.body)
      BY <1>1, <1>a DEF CallIn, Works
    <2> QED BY <2>1, <2>2, <2>3
  <1>3. c.path # <<>> => Len(c.path) \in 1..Len(c.path) /\ Last(c.path) = c.path[Len(c.path)]
                         /\ 1 \in 1..Len(c.path)
    BY CallFields
  <1>4. CallIn(ms2, c)
    BY <1>a, <1>1, <1>2, SMTT(30) DEF CallIn, SameShape
  <1>5. c.op \in Resolvers => ResolveOK(w, ms2, c)
    <2> SUFFICES ASSUME c.op \in Resolvers PROVE ResolveOK(w, ms2, c)
      OBVIOUS
    <2>1. ResolveOK(w, ms, c)
      BY DEF CallOK
    <2>2. \A k \in 1..Len(c.path) : ms2[c.path[k].d].status = "unlinked"
      BY <1>2, <2>1 DEF ResolveOK, SameShape
    <2>3. \A k \in 1..Len(c.path) : k < Len(c.path) => Wants(w, ms2, c.path[k], ms2[c.path[k + 1].d].name)
      <3> SUFFICES ASSUME NEW k \in 1..Len(c.path), k < Len(c.path)
                   PROVE  Wants(w, ms2, c.path[k], ms2[c.path[k + 1].d].name)
        OBVIOUS
      <3>1. k + 1 \in 1..Len(c.path)
        BY CallFields
      <3>2. Wants(w, ms, c.path[k], ms[c.path[k + 1].d].name)
        BY <2>1 DEF ResolveOK
      <3>3. /\ ms2[c.path[k].d].name = ms[c.path[k].d].name
            /\ ms2[c.path[k + 1].d].name = ms[c.path[k + 1].d].name
        BY <1>2, <3>1, SMTT(30) DEF SameShape
      <3> QED BY <3>2, <3>3 DEF Wants
    <2>4. /\ c.path # <<>> => ms2[c.path[1].d].name = c.n
          /\ c.loads # 0 /\ c.path # <<>> => Wants(w, ms2, Last(c.path), c.loads)
      BY <1>2, <1>3, <2>1, ZenonT(60) DEF ResolveOK, SameShape, Wants
    <2> QED BY <2>1, <2>2, <2>3, <2>4 DEF ResolveOK
  <1>6. c.op # "js_link_module"
    BY DEF CallOK, LinkOK, WalkOK, Hosts
  <1>7. c.op = "js_evaluate_module" => EvalOK(ms2, c)
    <2> SUFFICES ASSUME c.op = "js_evaluate_module" PROVE EvalOK(ms2, c)
      OBVIOUS
    <2>1. EvalOK(ms, c) /\ WalkOK(ms, c, "evaluating") /\ c.path # <<>>
      BY SMTT(30) DEF CallOK, EvalOK, WalkOK, Hosts
    <2>2. ListOK(ms2, c, "evaluating")
      <3>1. ListOK(ms, c, "evaluating") /\ \A k \in 1..Len(c.list) : 1 \in 1..Len(c.list)
        BY <2>1, CallFields DEF WalkOK
      <3> QED BY <1>2, <3>1, ZenonT(60) DEF ListOK, SameShape
    <2>3. PathOK(ms2, c)
      <3>1. PathOK(ms, c)
        BY <2>1, SMTT(30) DEF WalkOK
      <3>2. \A j, k \in 1..Len(c.path) : j < k => ms2[c.path[j].d].dfs < ms2[c.path[k].d].dfs
        BY <3>1, <1>2 DEF PathOK, SameShape
      <3>3. \A k \in 1..Len(c.path) : k < Len(c.path) =>
               /\ c.path[k].i <= Len(ms2[c.path[k].d].links)
               /\ ms2[c.path[k].d].links[c.path[k].i] = c.path[k + 1].d
        BY <3>1, <1>2 DEF PathOK, SameShape
      <3> QED BY <3>1, <3>2, <3>3 DEF PathOK
    <2>4. c.d # 0 /\ ms2[c.d].name = c.n /\ c.loads = 0
      BY <1>a, <1>1, <2>1 DEF WalkOK, CallIn, Grows
    <2>5. /\ c.path # <<>> => Last(c.path).i <= Len(ms2[Last(c.path).d].links) + 2
          /\ c.body # 0 => /\ c.path # <<>> /\ c.body = Last(c.path).d
                           /\ Last(c.path).i = Len(ms2[c.body].links) + 2
      BY <1>2, <1>3, <2>1 DEF EvalOK, SameShape
    <2> QED BY <2>2, <2>3, <2>4, <2>5 DEF EvalOK, WalkOK
  <1>8. c.op = "fulfilled" =>
          c.path = <<>> /\ c.loads = 0 /\ \A k \in 1..Len(c.list) : ms2[c.list[k]].status \in Begun
    BY <1>2 DEF CallOK, SameShape
  <1>9. c.op = "bodyResumes" => c.path = <<>> /\ c.list = <<>> /\ c.loads = 0 /\ c.body # 0
    BY DEF CallOK
  <1> QED BY <1>4, <1>5, <1>6, <1>7, <1>8, <1>9 DEF CallOK

(* The calls on a stack.                                                   *)
CallsOK(w, ms, st) == \A k \in 1..Len(st) : CallOK(w, ms, st[k]) /\ CallNeeds(w, ms, st[k])
StackOK(w, ms, st) == CallsOK(w, ms, st) /\ Nested(w, ms, st) /\ Listed(ms, st)

(* The first m calls are as before.                                        *)
Keeps(st, st2, m) == m <= Len(st) /\ m <= Len(st2) /\ \A k \in 1..m : st2[k] = st[k]

(* The stack after a step: the first m calls stay, the others are checked. *)
LEMMA StackKept ==
    ASSUME NEW w \in Worlds, NEW ms \in Seq(ModRec), NEW ms2 \in Seq(ModRec),
           NEW st \in Seq(CallRec), NEW st2 \in Seq(CallRec), NEW m \in Nat,
           StackOK(w, ms, st), Grows(ms, ms2), Keeps(st, st2, m), Len(st2) <= m + 1,
           \A k \in 1..m : Hosts(st[k]),
           \A k \in 1..m : \A x \in 1..Len(ms) : Works(st[k], x) => SameShape(ms[x], ms2[x]),
           Len(st2) = m + 1 =>
              /\ CallOK(w, ms2, st2[m + 1]) /\ CallNeeds(w, ms2, st2[m + 1])
              /\ st2[m + 1].op \notin Base => m = 0
              /\ \A k \in 1..m : \A x \in 1..Len(ms) :
                    Works(st[k], x) => ms[x].name \notin NeedsOf(w, st2[m + 1].n),
           \A x \in 1..Len(ms2) : ms2[x].status \in {"linking", "evaluating"} =>
              \E k \in 1..Len(st2) : OnList(st2[k], ms2[x].status, x)
    PROVE  StackOK(w, ms2, st2)
  <1>1. Len(st) \in Nat /\ Len(st2) \in Nat /\ m <= Len(st) /\ m <= Len(st2) /\ Len(ms) \in Nat
        /\ Len(ms2) \in Nat /\ Len(ms) <= Len(ms2)
    BY LenProperties DEF Keeps, Grows
  <1>2. ASSUME NEW k \in 1..m
        PROVE  /\ k \in 1..Len(st) /\ st2[k] = st[k] /\ st[k] \in CallRec
               /\ CallOK(w, ms, st[k]) /\ CallNeeds(w, ms, st[k])
    BY <1>1, CallIs DEF Keeps, StackOK, CallsOK
  <1>3. ASSUME NEW k \in 1..m, NEW x \in 1..Len(ms2), Works(st[k], x)
        PROVE  x \in 1..Len(ms) /\ ms2[x].name = ms[x].name
    <2>1. x \in 1..Len(ms)
      BY <1>2, <1>3, WorksIn
    <2> QED BY <2>1 DEF Grows
  <1>4. ASSUME NEW k \in 1..m PROVE CallOK(w, ms2, st[k]) /\ CallNeeds(w, ms2, st[k])
    <2>1. CallOK(w, ms2, st[k])
      BY <1>2, CallKept
    <2>2. CallNeeds(w, ms2, st[k])
      BY <1>2, <1>3 DEF CallNeeds
    <2> QED BY <2>1, <2>2
  <1>5. \A k \in 1..Len(st2) : k \in 1..m \/ (Len(st2) = m + 1 /\ k = m + 1)
    BY <1>1
  <1>6. CallsOK(w, ms2, st2)
    BY <1>2, <1>4, <1>5 DEF CallsOK
  <1>7. Nested(w, ms2, st2)
    <2>1. JobsBelow(st2)
      <3> SUFFICES ASSUME NEW k \in 1..Len(st2), st2[k].op \notin Base PROVE k = 1
        BY DEF JobsBelow
      <3>1. CASE k \in 1..m
        BY <1>2, <3>1 DEF StackOK, Nested, JobsBelow
      <3>2. CASE Len(st2) = m + 1 /\ k = m + 1
        BY <3>2
      <3> QED BY <1>5, <3>1, <3>2
    <2>2. HostsBelow(st2)
      <3> SUFFICES ASSUME NEW k \in 1..Len(st2), k < Len(st2) PROVE Hosts(st2[k])
        BY DEF HostsBelow
      <3>1. k \in 1..m
        BY <1>1, Below
      <3> QED BY <1>2, <3>1
    <2>3. ASSUME NEW j \in 1..Len(st2), NEW k \in 1..Len(st2), j < k, NEW x \in 1..Len(ms2), Works(st2[j], x)
          PROVE  ms2[x].name \notin NeedsOf(w, st2[k].n)
      <3>1. j \in 1..m
        BY <1>1, <2>3
      <3>2. Works(st[j], x) /\ x \in 1..Len(ms) /\ ms2[x].name = ms[x].name /\ j \in 1..Len(st)
        BY <1>2, <1>3, <2>3, <3>1
      <3>3. CASE k \in 1..m
        BY <1>2, <2>3, <3>2, <3>3 DEF StackOK, Nested, Apart
      <3>4. CASE Len(st2) = m + 1 /\ k = m + 1
        BY <3>1, <3>2, <3>4
      <3> QED BY <1>5, <3>3, <3>4
    <2> QED BY <2>1, <2>2, <2>3 DEF Nested, Apart
  <1>8. Listed(ms2, st2)
    BY DEF Listed
  <1> QED BY <1>6, <1>7, <1>8 DEF StackOK
(* Host code makes a call, ...                                             *)
LEMMA PushKept ==
    ASSUME NEW w \in Worlds, NEW ms \in Seq(ModRec), NEW ms2 \in Seq(ModRec),
           NEW st \in Seq(CallRec), NEW c \in CallRec,
           StackOK(w, ms, st), Grows(ms, ms2),
           st # <<>> => Hosts(st[Len(st)]),
           st = <<>> \/ \A x \in 1..Len(ms) : SameShape(ms[x], ms2[x]),
           CallOK(w, ms2, c), CallNeeds(w, ms2, c), c.op \notin Base => st = <<>>,
           \A k \in 1..Len(st) : \A x \in 1..Len(ms) :
              Works(st[k], x) => ms[x].name \notin NeedsOf(w, c.n),
           \A x \in 1..Len(ms2) : ms2[x].status \in {"linking", "evaluating"} =>
              x \in 1..Len(ms) /\ ms[x].status = ms2[x].status
    PROVE  Append(st, c) \in Seq(CallRec) /\ StackOK(w, ms2, Append(st, c))
  <1> DEFINE st2 == Append(st, c)
             m == Len(st)
  <1>1. st2 \in Seq(CallRec) /\ m \in Nat /\ Len(st2) = m + 1 /\ (\A k \in 1..m : st2[k] = st[k])
        /\ st2[m + 1] = c /\ \A k \in 1..m : k \in 1..(m + 1)
    BY AppendIs
  <1>2. st = <<>> <=> m = 0
    BY EmptySeq
  <1> HIDE DEF st2, m
  <1>3. \A k \in 1..m : Hosts(st[k])
    BY <1>1, <1>2 DEF StackOK, Nested, HostsBelow, m
  <1>4. \A k \in 1..m : \A x \in 1..Len(ms) : Works(st[k], x) => SameShape(ms[x], ms2[x])
    BY <1>1, <1>2
  <1>5. Keeps(st, st2, m)
    BY <1>1 DEF Keeps, m
  <1>6. ASSUME NEW x \in 1..Len(ms2), ms2[x].status \in {"linking", "evaluating"}
        PROVE  \E k \in 1..Len(st2) : OnList(st2[k], ms2[x].status, x)
    <2>1. PICK k \in 1..m : OnList(st[k], ms2[x].status, x)
      BY <1>6 DEF StackOK, Listed, m
    <2> QED BY <1>1, <2>1
  <1>7. /\ CallOK(w, ms2, st2[m + 1]) /\ CallNeeds(w, ms2, st2[m + 1])
        /\ st2[m + 1].op \notin Base => m = 0
        /\ \A k \in 1..m : \A x \in 1..Len(ms) :
              Works(st[k], x) => ms[x].name \notin NeedsOf(w, st2[m + 1].n)
    BY <1>1, <1>2 DEF m
  <1>8. st2 \in Seq(CallRec) /\ m \in Nat /\ Len(st2) <= m + 1
    BY <1>1
  <1>9. StackOK(w, ms2, st2)
    BY <1>3, <1>4, <1>5, <1>6, <1>7, <1>8, StackKept
  <1> QED BY <1>8, <1>9 DEF st2

(* ... or does something else, ...                                         *)
LEMMA SameKept ==
    ASSUME NEW w \in Worlds, NEW ms \in Seq(ModRec), NEW ms2 \in Seq(ModRec),
           NEW st \in Seq(CallRec),
           StackOK(w, ms, st), Grows(ms, ms2),
           st # <<>> => Hosts(st[Len(st)]),
           st = <<>> \/ \A x \in 1..Len(ms) : SameShape(ms[x], ms2[x]),
           \A x \in 1..Len(ms2) : ms2[x].status \in {"linking", "evaluating"} =>
              x \in 1..Len(ms) /\ ms[x].status = ms2[x].status
    PROVE  StackOK(w, ms2, st)
  <1> DEFINE m == Len(st)
  <1>1. m \in Nat
    BY LenProperties
  <1>2. st = <<>> <=> m = 0
    BY EmptySeq
  <1> HIDE DEF m
  <1>3. \A k \in 1..m : Hosts(st[k])
    BY <1>1, <1>2 DEF StackOK, Nested, HostsBelow, m
  <1>4. \A k \in 1..m : \A x \in 1..Len(ms) : Works(st[k], x) => SameShape(ms[x], ms2[x])
    BY <1>1, <1>2
  <1>5. Keeps(st, st, m) /\ Len(st) <= m + 1 /\ Len(st) # m + 1
    BY <1>1 DEF Keeps, m
  <1>6. ASSUME NEW x \in 1..Len(ms2), ms2[x].status \in {"linking", "evaluating"}
        PROVE  \E k \in 1..Len(st) : OnList(st[k], ms2[x].status, x)
    BY <1>6 DEF StackOK, Listed
  <1> QED BY <1>1, <1>3, <1>4, <1>5, <1>6, StackKept

(* ... or the innermost call takes a step on modules it needs.             *)
Touches(w, ms, ms2, st) ==
    \A x \in 1..Len(ms) :
        \/ SameShape(ms[x], ms2[x])
        \/ ms[x].name \in NeedsOf(w, st[Len(st)].n)
        \/ Len(st) = 1

(* A step on modules that the innermost call needs leaves the calls below  *)
(* alone.                                                                  *)
LEMMA BelowKept ==
    ASSUME NEW w \in Worlds, NEW ms \in Seq(ModRec), NEW ms2 \in Seq(ModRec),
           NEW st \in Seq(CallRec), st # <<>>,
           StackOK(w, ms, st), Touches(w, ms, ms2, st)
    PROVE  /\ Len(st) - 1 \in Nat
           /\ \A k \in 1..(Len(st) - 1) : Hosts(st[k])
           /\ \A k \in 1..(Len(st) - 1) : \A x \in 1..Len(ms) : Works(st[k], x) =>
                 SameShape(ms[x], ms2[x]) /\ ms[x].name \notin NeedsOf(w, st[Len(st)].n)
           /\ st[Len(st)].op \notin Base => Len(st) - 1 = 0
  <1>1. Len(st) \in Nat \ {0} /\ Len(st) \in 1..Len(st)
    BY LenProperties, EmptySeq
  <1>2. \A k \in 1..(Len(st) - 1) : k \in 1..Len(st) /\ k < Len(st)
    BY <1>1
  <1>3. \A k \in 1..(Len(st) - 1) : Hosts(st[k])
    BY <1>2 DEF StackOK, Nested, HostsBelow
  <1>4. ASSUME NEW k \in 1..(Len(st) - 1), NEW x \in 1..Len(ms), Works(st[k], x)
        PROVE  SameShape(ms[x], ms2[x]) /\ ms[x].name \notin NeedsOf(w, st[Len(st)].n)
    <2>1. ms[x].name \notin NeedsOf(w, st[Len(st)].n)
      BY <1>1, <1>2, <1>4 DEF StackOK, Nested, Apart
    <2>3. Len(st) # 1
      BY <1>1, Below
    <2> QED BY <2>1, <2>3 DEF Touches
  <1>5. st[Len(st)].op \notin Base => Len(st) - 1 = 0
    <2>1. st[Len(st)].op \notin Base => Len(st) = 1
      BY <1>1 DEF StackOK, Nested, JobsBelow
    <2> QED BY <1>1, <2>1
  <1> QED BY <1>1, <1>3, <1>4, <1>5

(* The innermost call takes a step and goes on as c, ...                   *)
LEMMA TopKept ==
    ASSUME NEW w \in Worlds, NEW ms \in Seq(ModRec), NEW ms2 \in Seq(ModRec),
           NEW st \in Seq(CallRec), st # <<>>, NEW c \in CallRec,
           StackOK(w, ms, st), Grows(ms, ms2), Touches(w, ms, ms2, st),
           CallOK(w, ms2, c), CallNeeds(w, ms2, c), c.n = st[Len(st)].n,
           c.op \notin Base => st[Len(st)].op \notin Base,
           \A x \in 1..Len(ms2) : ms2[x].status \in {"linking", "evaluating"} =>
              \/ OnList(c, ms2[x].status, x)
              \/ /\ x \in 1..Len(ms) /\ ms[x].status = ms2[x].status
                 /\ ~OnList(st[Len(st)], ms2[x].status, x)
    PROVE  [st EXCEPT ![Len(st)] = c] \in Seq(CallRec) /\ StackOK(w, ms2, [st EXCEPT ![Len(st)] = c])
  <1> DEFINE st2 == [st EXCEPT ![Len(st)] = c]
             m == Len(st) - 1
  <1>1. /\ m \in Nat
        /\ \A k \in 1..m : Hosts(st[k])
        /\ \A k \in 1..m : \A x \in 1..Len(ms) : Works(st[k], x) =>
              SameShape(ms[x], ms2[x]) /\ ms[x].name \notin NeedsOf(w, st[Len(st)].n)
        /\ st[Len(st)].op \notin Base => m = 0
    BY BelowKept
  <1>2. Len(st) = m + 1 /\ Len(st) \in 1..Len(st) /\ \A k \in 1..m : k \in 1..Len(st) /\ k # Len(st)
    BY <1>1
  <1>3. st2 \in Seq(CallRec) /\ Len(st2) = m + 1 /\ st2[m + 1] = c /\ \A k \in 1..m : st2[k] = st[k]
    <2>1. Len(st) \in 1..Len(st)
      BY <1>2
    <2>2. /\ [st EXCEPT ![Len(st)] = c] \in Seq(CallRec) /\ Len([st EXCEPT ![Len(st)] = c]) = Len(st)
          /\ [st EXCEPT ![Len(st)] = c][Len(st)] = c
          /\ \A k \in 1..Len(st) : k # Len(st) => [st EXCEPT ![Len(st)] = c][k] = st[k]
      BY ONLY st \in Seq(CallRec), c \in CallRec, <2>1, ExceptIs
    <2> HIDE DEF st2, m
    <2> QED BY <1>1, <1>2, <2>2, SMTT(30) DEF st2
  <1> HIDE DEF st2, m
  <1>4. Keeps(st, st2, m)
    BY <1>1, <1>2, <1>3 DEF Keeps
  <1>5. ASSUME NEW x \in 1..Len(ms2), ms2[x].status \in {"linking", "evaluating"}
        PROVE  \E k \in 1..Len(st2) : OnList(st2[k], ms2[x].status, x)
    <2>1. CASE OnList(c, ms2[x].status, x)
      BY <1>1, <1>3, <2>1
    <2>2. CASE /\ x \in 1..Len(ms) /\ ms[x].status = ms2[x].status
               /\ ~OnList(st[Len(st)], ms2[x].status, x)
      <3>1. PICK k \in 1..Len(st) : OnList(st[k], ms2[x].status, x)
        BY <1>5, <2>2 DEF StackOK, Listed
      <3>2. k # Len(st)
        BY <2>2, <3>1
      <3>3. k \in 1..m
        BY <1>1, <1>2, <3>2
      <3> QED BY <1>1, <1>3, <3>1, <3>3
    <2> QED BY <1>5, <2>1, <2>2
  <1>6. /\ CallOK(w, ms2, st2[m + 1]) /\ CallNeeds(w, ms2, st2[m + 1])
        /\ st2[m + 1].op \notin Base => m = 0
        /\ \A k \in 1..m : \A x \in 1..Len(ms) :
              Works(st[k], x) => ms[x].name \notin NeedsOf(w, st2[m + 1].n)
    BY <1>1, <1>3
  <1>7. StackOK(w, ms2, st2)
    <2>1. /\ st2 \in Seq(CallRec) /\ m \in Nat /\ Len(st2) <= m + 1
          /\ \A k \in 1..m : \A x \in 1..Len(ms) : Works(st[k], x) => SameShape(ms[x], ms2[x])
      BY <1>1, <1>3
    <2> QED BY <1>1, <1>4, <1>5, <1>6, <2>1, StackKept
  <1> QED BY <1>3, <1>7 DEF st2

(* ... or ends.                                                            *)
LEMMA PopKept ==
    ASSUME NEW w \in Worlds, NEW ms \in Seq(ModRec), NEW ms2 \in Seq(ModRec),
           NEW st \in Seq(CallRec), st # <<>>,
           StackOK(w, ms, st), Grows(ms, ms2), Touches(w, ms, ms2, st),
           \A x \in 1..Len(ms2) : ms2[x].status \in {"linking", "evaluating"} =>
              /\ x \in 1..Len(ms) /\ ms[x].status = ms2[x].status
              /\ ~OnList(st[Len(st)], ms2[x].status, x)
    PROVE  SubSeq(st, 1, Len(st) - 1) \in Seq(CallRec) /\ StackOK(w, ms2, SubSeq(st, 1, Len(st) - 1))
  <1> DEFINE st2 == SubSeq(st, 1, Len(st) - 1)
             m == Len(st) - 1
  <1>1. /\ m \in Nat
        /\ \A k \in 1..m : Hosts(st[k])
        /\ \A k \in 1..m : \A x \in 1..Len(ms) : Works(st[k], x) =>
              SameShape(ms[x], ms2[x]) /\ ms[x].name \notin NeedsOf(w, st[Len(st)].n)
    BY BelowKept
  <1>2. Len(st) = m + 1 /\ Len(st) \in 1..Len(st) /\ \A k \in 1..m : k \in 1..Len(st) /\ k # Len(st)
    BY <1>1
  <1>3. st2 \in Seq(CallRec) /\ Len(st2) = m /\ \A k \in 1..m : st2[k] = st[k]
    BY LastAndFront
  <1> HIDE DEF st2, m
  <1>4. Keeps(st, st2, m) /\ Len(st2) <= m + 1 /\ Len(st2) # m + 1
    BY <1>1, <1>2, <1>3 DEF Keeps
  <1>5. ASSUME NEW x \in 1..Len(ms2), ms2[x].status \in {"linking", "evaluating"}
        PROVE  \E k \in 1..Len(st2) : OnList(st2[k], ms2[x].status, x)
    <2>1. PICK k \in 1..Len(st) : OnList(st[k], ms2[x].status, x)
      BY <1>5 DEF StackOK, Listed
    <2>2. k # Len(st)
      BY <1>5, <2>1
    <2>3. k \in 1..m
      BY <1>1, <1>2, <2>2
    <2> QED BY <1>1, <1>3, <2>1, <2>3
  <1>7. StackOK(w, ms2, st2)
    BY <1>1, <1>3, <1>4, <1>5, StackKept
  <1> QED BY <1>3, <1>7 DEF st2
-----------------------------------------------------------------------------
(* What steps do to modules.                                               *)

(* What the evaluation knows of a module.                                  *)
SameEval(a, b) ==
    /\ b.root = a.root /\ b.pending = a.pending /\ b.async = a.async /\ b.timestamp = a.timestamp
    /\ b.parents = a.parents /\ b.err = a.err /\ b.promise = a.promise /\ b.runs = a.runs
    /\ b.out = a.out
SameMod(a, b) == SameShape(a, b) /\ SameEval(a, b)
OthersSame(ms, ms2, D) == \A x \in 1..Len(ms) : x \notin D => SameMod(ms[x], ms2[x])

(* A module is made, ...                                                   *)
IsNew(r, n) ==
    /\ r.name = n /\ r.links = <<>> /\ r.status = "unlinked" /\ r.root = 0 /\ r.pending = 0
    /\ r.async = FALSE /\ r.timestamp = 0 /\ r.parents = <<>> /\ r.err = 0 /\ r.promise = "none"
    /\ r.runs = 0 /\ r.out = "none"
Makes(ms, ms2, n) ==
    /\ Len(ms2) = Len(ms) + 1 /\ OthersSame(ms, ms2, {}) /\ IsNew(ms2[Len(ms2)], n)

(* What js_new_module_def appends is a module like that.                   *)
LEMMA MakesIs ==
    ASSUME NEW ms \in Seq(ModRec), NEW n \in Names, NEW r, NEW ms2, ms2 = Append(ms, r),
           r = js_new_module_def(n) \/ r = [js_new_module_def(n) EXCEPT !.resolved = TRUE]
    PROVE  ms2 \in Seq(ModRec) /\ Makes(ms, ms2, n)
  <1>1. r \in ModRec /\ IsNew(r, n)
    <2>1. <<>> \in Seq(Nat)
      OBVIOUS
    <2>2. CASE r = js_new_module_def(n)
      BY ONLY <2>1, <2>2, n \in Names DEF js_new_module_def, ModRec, IsNew, Status
    <2>3. CASE r = [js_new_module_def(n) EXCEPT !.resolved = TRUE]
      BY ONLY <2>1, <2>3, n \in Names DEF js_new_module_def, ModRec, IsNew, Status
    <2> QED BY <2>2, <2>3
  <1>3. ms2 \in Seq(ModRec) /\ Len(ms2) = Len(ms) + 1 /\ ms2[Len(ms) + 1] = r
        /\ \A x \in 1..Len(ms) : ms2[x] = ms[x]
    BY ONLY <1>1, ms \in Seq(ModRec), ms2 = Append(ms, r), AppendIs
  <1> QED BY ONLY <1>1, <1>3 DEF Makes, OthersSame, SameMod, SameShape, SameEval

(* ... gets a link, ...                                                    *)
AddsLink(ms, ms2, m, d) ==
    /\ Len(ms2) = Len(ms) /\ OthersSame(ms, ms2, {m})
    /\ SameEval(ms[m], ms2[m])
    /\ ms2[m].name = ms[m].name /\ ms2[m].status = ms[m].status /\ ms2[m].dfs = ms[m].dfs
    /\ ms2[m].ancestor = ms[m].ancestor /\ ms2[m].links = Append(ms[m].links, d)

(* Marking a module as resolved changes nothing that matters here.         *)
LEMMA ResolvesIs ==
    ASSUME NEW ms \in Seq(ModRec), NEW d \in 1..Len(ms), NEW ms2, ms2 = [ms EXCEPT ![d].resolved = TRUE]
    PROVE  ms2 \in Seq(ModRec) /\ Len(ms2) = Len(ms) /\ OthersSame(ms, ms2, {})
  <1>1. ms[d] \in ModRec
    BY ModIs
  <1> DEFINE r == [ms[d] EXCEPT !.resolved = TRUE]
  <1>2. r \in ModRec /\ SameMod(ms[d], r)
    BY <1>1 DEF ModRec, SameMod, SameShape, SameEval
  <1> HIDE DEF r
  <1>3. ms2 = [ms EXCEPT ![d] = r]
    BY DEF r
  <1>4. ms2 \in Seq(ModRec) /\ Len(ms2) = Len(ms) /\ ms2[d] = r /\ \A x \in 1..Len(ms) : x # d => ms2[x] = ms[x]
    BY ONLY ms \in Seq(ModRec), d \in 1..Len(ms), <1>2, <1>3, ExceptIs
  <1> QED BY <1>2, <1>4 DEF OthersSame, SameMod, SameShape, SameEval

(* What js_resolve_module stores is a link.                                *)
LEMMA AddsLinkIs ==
    ASSUME NEW ms \in Seq(ModRec), NEW m \in 1..Len(ms), NEW d \in 1..Len(ms), NEW ms2,
           ms2 = [ms EXCEPT ![m].links = Append(@, d)]
    PROVE  ms2 \in Seq(ModRec) /\ AddsLink(ms, ms2, m, d)
  <1>1. ms[m] \in ModRec /\ ms[m].links \in Seq(Nat) /\ Len(ms) \in Nat
    BY ModIs
  <1>2. d \in Nat
    BY <1>1
  <1> DEFINE r == [ms[m] EXCEPT !.links = Append(@, d)]
  <1>3. Append(ms[m].links, d) \in Seq(Nat)
    BY <1>1, <1>2, AppendIs
  <1>4. r \in ModRec
    BY <1>1, <1>3 DEF ModRec
  <1>5. /\ SameEval(ms[m], r)
        /\ r.name = ms[m].name /\ r.status = ms[m].status /\ r.dfs = ms[m].dfs
        /\ r.ancestor = ms[m].ancestor /\ r.links = Append(ms[m].links, d)
    BY <1>1 DEF ModRec, SameEval
  <1> HIDE DEF r
  <1>6. ms2 = [ms EXCEPT ![m] = r]
    BY DEF r
  <1>7. ms2 \in Seq(ModRec) /\ Len(ms2) = Len(ms) /\ ms2[m] = r /\ \A x \in 1..Len(ms) : x # m => ms2[x] = ms[x]
    BY ONLY ms \in Seq(ModRec), m \in 1..Len(ms), <1>4, <1>6, ExceptIs
  <1> QED BY <1>5, <1>7 DEF AddsLink, OthersSame, SameMod, SameShape, SameEval

(* ... or is entered by a walk.                                            *)
Enters(ms, ms2, d, i, s) ==
    /\ Len(ms2) = Len(ms) /\ OthersSame(ms, ms2, {d})
    /\ ms2[d].name = ms[d].name /\ ms2[d].links = ms[d].links
    /\ ms2[d].status = s /\ ms2[d].dfs = i /\ ms2[d].ancestor = i
    /\ ms2[d].root = ms[d].root /\ ms2[d].async = ms[d].async
    /\ ms2[d].timestamp = ms[d].timestamp /\ ms2[d].parents = ms[d].parents
    /\ ms2[d].err = ms[d].err /\ ms2[d].runs = ms[d].runs /\ ms2[d].out = ms[d].out
    /\ s # "evaluating" => ms2[d].pending = ms[d].pending
    /\ s = "evaluating" => ms2[d].pending = 0

EnteredAt(ms, d, i, s) ==
    [ms EXCEPT ![d].status = s, ![d].dfs = i, ![d].ancestor = i,
               ![d].pending = IF s = "evaluating" THEN 0 ELSE @]

(* What Entered makes of the modules.                                      *)
LEMMA EntersIs ==
    ASSUME NEW ms \in Seq(ModRec), NEW d \in 1..Len(ms), NEW i \in Nat, NEW s \in Status, NEW ms2,
           ms2 = EnteredAt(ms, d, i, s)
    PROVE  ms2 \in Seq(ModRec) /\ Enters(ms, ms2, d, i, s) /\ ms2[d].promise = ms[d].promise
  <1>1. ms[d] \in ModRec /\ Len(ms) \in Nat /\ ms[d].pending \in Nat
    BY ModIs
  <1> DEFINE r == [ms[d] EXCEPT !.status = s, !.dfs = i, !.ancestor = i,
                                !.pending = IF s = "evaluating" THEN 0 ELSE @]
  <1>4. r \in ModRec
    BY <1>1 DEF ModRec
  <1>5. /\ r.name = ms[d].name /\ r.links = ms[d].links
        /\ r.status = s /\ r.dfs = i /\ r.ancestor = i
        /\ r.root = ms[d].root /\ r.async = ms[d].async
        /\ r.timestamp = ms[d].timestamp /\ r.parents = ms[d].parents
        /\ r.err = ms[d].err /\ r.runs = ms[d].runs /\ r.out = ms[d].out
        /\ s # "evaluating" => r.pending = ms[d].pending
        /\ s = "evaluating" => r.pending = 0
        /\ r.promise = ms[d].promise
    BY <1>1 DEF ModRec
  <1>6. ms2 = [ms EXCEPT ![d] = r]
    BY DEF r, EnteredAt
  <1> HIDE DEF r
  <1>7. ms2 \in Seq(ModRec) /\ Len(ms2) = Len(ms) /\ ms2[d] = r /\ \A x \in 1..Len(ms) : x # d => ms2[x] = ms[x]
    BY ONLY ms \in Seq(ModRec), d \in 1..Len(ms), <1>4, <1>6, ExceptIs
  <1> QED BY <1>5, <1>7 DEF Enters, OthersSame, SameMod, SameShape, SameEval

(* The promise of a module is made or settled.                             *)
Promises(ms, ms2, d, p) ==
    /\ Len(ms2) = Len(ms) /\ OthersSame(ms, ms2, {d}) /\ SameShape(ms[d], ms2[d])
    /\ ms2[d].root = ms[d].root /\ ms2[d].pending = ms[d].pending /\ ms2[d].async = ms[d].async
    /\ ms2[d].timestamp = ms[d].timestamp /\ ms2[d].parents = ms[d].parents
    /\ ms2[d].err = ms[d].err /\ ms2[d].runs = ms[d].runs /\ ms2[d].out = ms[d].out
    /\ ms2[d].promise = p

Promised(ms, d, p) == [ms EXCEPT ![d].promise = p]

(* What setting a promise makes of the modules.                            *)
LEMMA PromisesIs ==
    ASSUME NEW ms \in Seq(ModRec), NEW d \in 1..Len(ms),
           NEW p \in {"none", "pending", "fulfilled", "rejected"}, NEW ms2,
           ms2 = Promised(ms, d, p)
    PROVE  ms2 \in Seq(ModRec) /\ Promises(ms, ms2, d, p)
  <1>1. ms[d] \in ModRec
    BY ModIs
  <1> DEFINE r == [ms[d] EXCEPT !.promise = p]
  <1>4. r \in ModRec
    BY <1>1 DEF ModRec
  <1>5. /\ SameShape(ms[d], r)
        /\ r.root = ms[d].root /\ r.pending = ms[d].pending /\ r.async = ms[d].async
        /\ r.timestamp = ms[d].timestamp /\ r.parents = ms[d].parents
        /\ r.err = ms[d].err /\ r.runs = ms[d].runs /\ r.out = ms[d].out /\ r.promise = p
    BY <1>1 DEF ModRec, SameShape
  <1>6. ms2 = [ms EXCEPT ![d] = r]
    BY DEF r, Promised
  <1> HIDE DEF r
  <1>7. ms2 \in Seq(ModRec) /\ Len(ms2) = Len(ms) /\ ms2[d] = r /\ \A x \in 1..Len(ms) : x # d => ms2[x] = ms[x]
    BY ONLY ms \in Seq(ModRec), d \in 1..Len(ms), <1>4, <1>6, ExceptIs
  <1> QED BY <1>5, <1>7 DEF Promises, OthersSame, SameMod, SameShape, SameEval

(* The status of modules is set.                                           *)
SetsStatus(ms, ms2, D, s) ==
    /\ Len(ms2) = Len(ms) /\ OthersSame(ms, ms2, D)
    /\ \A x \in D : /\ SameEval(ms[x], ms2[x]) /\ ms2[x].status = s
                    /\ ms2[x].name = ms[x].name /\ ms2[x].links = ms[x].links
                    /\ ms2[x].dfs = ms[x].dfs /\ ms2[x].ancestor = ms[x].ancestor

StatusSet(ms, D, s) == [x \in 1..Len(ms) |-> IF x \in D THEN [ms[x] EXCEPT !.status = s] ELSE ms[x]]

(* What setting the status makes of the modules.                           *)
LEMMA SetsStatusIs ==
    ASSUME NEW ms \in Seq(ModRec), NEW D, D \subseteq 1..Len(ms), NEW s \in Status, NEW ms2,
           ms2 = StatusSet(ms, D, s)
    PROVE  ms2 \in Seq(ModRec) /\ SetsStatus(ms, ms2, D, s)
  <1>1. Len(ms) \in Nat /\ \A x \in 1..Len(ms) : ms[x] \in ModRec
    BY ModIs
  <1>2. ASSUME NEW r \in ModRec
        PROVE  LET q == [r EXCEPT !.status = s] IN
               /\ q \in ModRec /\ SameEval(r, q) /\ q.status = s
               /\ q.name = r.name /\ q.links = r.links /\ q.dfs = r.dfs /\ q.ancestor = r.ancestor
    BY DEF ModRec, SameEval
  <1>3. /\ \A x \in 1..Len(ms) : ms2[x] = IF x \in D THEN [ms[x] EXCEPT !.status = s] ELSE ms[x]
        /\ ms2 = [x \in 1..Len(ms) |-> ms2[x]]
    BY DEF StatusSet
  <1>4. \A x \in 1..Len(ms) : ms2[x] \in ModRec
    BY <1>1, <1>2, <1>3
  <1>5. ms2 \in Seq(ModRec) /\ Len(ms2) = Len(ms)
    BY <1>1, <1>3, <1>4, SeqBy
  <1>6. OthersSame(ms, ms2, D)
    BY <1>3 DEF OthersSame, SameMod, SameShape, SameEval
  <1> QED BY <1>1, <1>2, <1>3, <1>5, <1>6, ZenonT(60) DEF SetsStatus

(* A module of a walk learns of the ancestor of a request.                 *)
Lowers(ms, ms2, d, a) ==
    /\ Len(ms2) = Len(ms) /\ OthersSame(ms, ms2, {d}) /\ SameEval(ms[d], ms2[d])
    /\ ms2[d].name = ms[d].name /\ ms2[d].links = ms[d].links /\ ms2[d].status = ms[d].status
    /\ ms2[d].dfs = ms[d].dfs /\ ms2[d].ancestor = MinOf(ms[d].ancestor, a)

Lowered(ms, d, a) == [ms EXCEPT ![d].ancestor = MinOf(@, a)]

(* What lowering the ancestor makes of the modules.                        *)
LEMMA LowersIs ==
    ASSUME NEW ms \in Seq(ModRec), NEW d \in 1..Len(ms), NEW a \in Nat, NEW ms2,
           ms2 = Lowered(ms, d, a)
    PROVE  ms2 \in Seq(ModRec) /\ Lowers(ms, ms2, d, a)
  <1>1. ms[d] \in ModRec /\ ms[d].ancestor \in Nat
    BY ModIs
  <1> DEFINE r == [ms[d] EXCEPT !.ancestor = MinOf(@, a)]
  <1>2. MinOf(ms[d].ancestor, a) \in Nat
    BY <1>1 DEF MinOf
  <1>4. r \in ModRec
    BY <1>1, <1>2 DEF ModRec
  <1>5. /\ SameEval(ms[d], r)
        /\ r.name = ms[d].name /\ r.links = ms[d].links /\ r.status = ms[d].status
        /\ r.dfs = ms[d].dfs /\ r.ancestor = MinOf(ms[d].ancestor, a)
    BY <1>1 DEF ModRec, SameEval
  <1>6. ms2 = [ms EXCEPT ![d] = r]
    BY DEF r, Lowered
  <1> HIDE DEF r
  <1>7. ms2 \in Seq(ModRec) /\ Len(ms2) = Len(ms) /\ ms2[d] = r /\ \A x \in 1..Len(ms) : x # d => ms2[x] = ms[x]
    BY ONLY ms \in Seq(ModRec), d \in 1..Len(ms), <1>4, <1>6, ExceptIs
  <1> QED BY <1>5, <1>7 DEF Lowers, OthersSame, SameMod, SameShape, SameEval
-----------------------------------------------------------------------------
(* What steps do to the innermost call.                                    *)

SameHead(c, c2) == c2.op = c.op /\ c2.n = c.n /\ c2.d = c.d /\ c2.loads = c.loads

(* The loop goes on to the next request.                                   *)
Advances(c, c2) ==
    /\ SameHead(c, c2) /\ c2.i = c.i /\ c2.list = c.list
    /\ Len(c2.path) = Len(c.path)
    /\ \A k \in 1..Len(c.path) : c2.path[k].d = c.path[k].d
    /\ \A k \in 1..Len(c.path) : k # Len(c.path) => c2.path[k].i = c.path[k].i
    /\ c2.path[Len(c.path)].i = c.path[Len(c.path)].i + 1

(* The next position in the requests.                                      *)
LEMMA AdvanceIs ==
    ASSUME NEW c \in CallRec, c.path # <<>>
    PROVE  Advance(c) \in CallRec /\ Advances(c, Advance(c)) /\ Advance(c).body = c.body
  <1> DEFINE n == Len(c.path)
             p == c.path[n]
             q == [p EXCEPT !.i = @ + 1]
             path == [c.path EXCEPT ![n] = q]
  <1>1. c.path \in Seq(Point) /\ n \in 1..n
    BY CallFields
  <1>2. p \in Point
    BY <1>1, ElementOfSeq
  <1>3. q \in Point /\ q.d = p.d /\ q.i = p.i + 1
    BY <1>2 DEF Point
  <1> HIDE DEF q
  <1>4. path \in Seq(Point) /\ Len(path) = n /\ path[n] = q /\ \A k \in 1..n : k # n => path[k] = c.path[k]
    BY <1>1, <1>3, ExceptIs
  <1>5. Advance(c) = [c EXCEPT !.path = path]
    BY <1>1 DEF Advance, q
  <1> HIDE DEF path
  <1>6. Advance(c) \in CallRec
    BY <1>4, <1>5 DEF CallRec
  <1>7. /\ SameHead(c, Advance(c)) /\ Advance(c).i = c.i /\ Advance(c).list = c.list
        /\ Advance(c).body = c.body /\ Advance(c).path = path
    BY <1>5 DEF CallRec, SameHead
  <1>8. \A k \in 1..n : path[k].d = c.path[k].d
    BY <1>3, <1>4
  <1> QED BY <1>3, <1>4, <1>6, <1>7, <1>8 DEF Advances

(* A module is entered.                                                    *)
EntersCall(c, c2, d) ==
    /\ SameHead(c, c2) /\ c2.i = c.i + 1 /\ c2.body = c.body
    /\ c2.list = Append(c.list, d) /\ c2.path = Append(c.path, At(d, 1))

WithEntered(c, d) == [c EXCEPT !.i = @ + 1, !.list = Append(@, d), !.path = Append(@, At(d, 1))]

(* The list, the path and the index of a call that entered a module.       *)
LEMMA EntersCallIs ==
    ASSUME NEW c \in CallRec, NEW d \in Nat, NEW c2,
           c2 = WithEntered(c, d)
    PROVE  /\ c2 \in CallRec /\ EntersCall(c, c2, d)
           /\ Len(c2.list) = Len(c.list) + 1 /\ c2.list[Len(c.list) + 1] = d
           /\ \A k \in 1..Len(c.list) : c2.list[k] = c.list[k]
           /\ \A x : Has(c2.list, x) <=> Has(c.list, x) \/ x = d
           /\ Len(c2.path) = Len(c.path) + 1
           /\ c2.path[Len(c.path) + 1].d = d /\ c2.path[Len(c.path) + 1].i = 1
           /\ \A k \in 1..Len(c.path) : c2.path[k] = c.path[k]
  <1> DEFINE p == At(d, 1)
             list == Append(c.list, d)
             path == Append(c.path, p)
             i2 == c.i + 1
  <1>1. c.path \in Seq(Point) /\ c.list \in Seq(Nat) /\ c.i \in Nat
    BY CallFields
  <1>2. p \in Point /\ p.d = d /\ p.i = 1
    BY DEF At, Point
  <1> HIDE DEF p
  <1>3. path \in Seq(Point) /\ Len(path) = Len(c.path) + 1 /\ path[Len(c.path) + 1] = p
        /\ \A k \in 1..Len(c.path) : path[k] = c.path[k]
    BY <1>1, <1>2, AppendIs
  <1>4. list \in Seq(Nat) /\ Len(list) = Len(c.list) + 1 /\ list[Len(c.list) + 1] = d
        /\ \A k \in 1..Len(c.list) : list[k] = c.list[k]
    BY <1>1, AppendIs
  <1>5. \A x : Has(list, x) <=> Has(c.list, x) \/ x = d
    BY <1>1, AppendHas
  <1>6. c2 = [c EXCEPT !.i = i2, !.list = list, !.path = path]
    BY DEF p, WithEntered
  <1>a. i2 \in Nat
    BY <1>1
  <1> HIDE DEF path, list, i2
  <1>7. c2 \in CallRec
    BY ONLY <1>a, <1>3, <1>4, <1>6, c \in CallRec DEF CallRec
  <1>8. SameHead(c, c2) /\ c2.i = i2 /\ c2.body = c.body /\ c2.list = list /\ c2.path = path
    BY ONLY <1>6, c \in CallRec DEF CallRec, SameHead
  <1> QED BY ONLY <1>2, <1>3, <1>4, <1>5, <1>7, <1>8 DEF EntersCall, p, path, list, i2

(* A module returns, and n modules stay on the list.                       *)
ReturnsCall(c, c2, n) ==
    /\ SameHead(c, c2) /\ c2.i = c.i /\ c2.body = c.body
    /\ Len(c2.list) = n /\ n <= Len(c.list) /\ \A k \in 1..n : c2.list[k] = c.list[k]
    /\ Len(c2.path) = Len(c.path) - 1 /\ \A k \in 1..(Len(c.path) - 1) : c2.path[k] = c.path[k]

WithReturned(c, list) == [c EXCEPT !.path = Front(@), !.list = list]

(* The list and the path of a call after a module returned.                *)
LEMMA ReturnsCallIs ==
    ASSUME NEW c \in CallRec, c.path # <<>>, NEW n \in Nat, n <= Len(c.list), NEW list,
           list = SubSeq(c.list, 1, n) \/ (n = Len(c.list) /\ list = c.list), NEW c2,
           c2 = WithReturned(c, list)
    PROVE  c2 \in CallRec /\ ReturnsCall(c, c2, n)
  <1> DEFINE path == Front(c.path)
  <1>1. c.path \in Seq(Point) /\ c.list \in Seq(Nat)
    BY CallFields
  <1>2. path \in Seq(Point) /\ Len(path) = Len(c.path) - 1 /\ \A k \in 1..(Len(c.path) - 1) : path[k] = c.path[k]
    BY <1>1, FrontIs
  <1>3. list \in Seq(Nat) /\ Len(list) = n /\ \A k \in 1..n : list[k] = c.list[k]
    BY <1>1, PrefixIs, ZenonT(60)
  <1>4. c2 = [c EXCEPT !.path = path, !.list = list]
    BY DEF WithReturned
  <1> HIDE DEF path
  <1>5. c2 \in CallRec
    BY ONLY <1>2, <1>3, <1>4, c \in CallRec DEF CallRec
  <1>6. SameHead(c, c2) /\ c2.i = c.i /\ c2.body = c.body /\ c2.list = list /\ c2.path = path
    BY ONLY <1>4, c \in CallRec DEF CallRec, SameHead
  <1> QED BY ONLY <1>2, <1>3, <1>5, <1>6, n <= Len(c.list) DEF ReturnsCall

-----------------------------------------------------------------------------
(* Walks.                                                                  *)

(* The members of a list by their dfs index.                               *)
LEMMA ListOrder ==
    ASSUME NEW ms \in Seq(ModRec), NEW c \in CallRec, NEW s, ListOK(ms, c, s), CallIn(ms, c),
           NEW j \in 1..Len(c.list), NEW k \in 1..Len(c.list)
    PROVE  /\ ms[c.list[j]].dfs \in Nat /\ ms[c.list[k]].dfs \in Nat
           /\ ms[c.list[j]].dfs < ms[c.list[k]].dfs <=> j < k
           /\ ms[c.list[j]].dfs = ms[c.list[k]].dfs <=> j = k
           /\ c.list[j] = c.list[k] <=> j = k
  <1>1. c.list[j] \in 1..Len(ms) /\ c.list[k] \in 1..Len(ms) /\ Len(c.list) \in Nat
    BY CallFields DEF CallIn
  <1>2. ms[c.list[j]].dfs \in Nat /\ ms[c.list[k]].dfs \in Nat
    BY <1>1, ModIs
  <1>3. /\ j < k => ms[c.list[j]].dfs < ms[c.list[k]].dfs
        /\ k < j => ms[c.list[k]].dfs < ms[c.list[j]].dfs
    BY DEF ListOK
  <1>4. j \in Int /\ k \in Int
    BY <1>1
  <1> QED BY <1>2, <1>3, <1>4

(* Entering.                                                               *)
LEMMA WalkEnters ==
    ASSUME NEW ms \in Seq(ModRec), NEW ms2 \in Seq(ModRec), NEW c \in CallRec, NEW c2 \in CallRec,
           NEW s, CallIn(ms, c), WalkOK(ms, c, s),
           NEW d \in 1..Len(ms), ms[d].status # s,
           c.path = <<>> => d = c.d,
           c.path # <<>> => /\ Last(c.path).i <= Len(ms[Last(c.path).d].links)
                            /\ ms[Last(c.path).d].links[Last(c.path).i] = d,
           Enters(ms, ms2, d, c.i, s), EntersCall(c, c2, d), c.body = 0
    PROVE  CallIn(ms2, c2) /\ WalkOK(ms2, c2, s)
  <1> DEFINE n == Len(c.list)
             m == Len(c.path)
  <1>0. d \in Nat /\ Len(ms2) = Len(ms) /\ c.i \in Nat /\ n \in Nat /\ m \in Nat
        /\ c.list \in Seq(Nat) /\ c.path \in Seq(Point)
    BY ModIs, CallFields DEF Enters
  <1>1. /\ Len(c2.list) = n + 1 /\ c2.list[n + 1] = d
        /\ \A k \in 1..n : c2.list[k] = c.list[k]
        /\ \A x : Has(c2.list, x) <=> Has(c.list, x) \/ x = d
    <2>1. c2.list = Append(c.list, d)
      BY DEF EntersCall
    <2>2. /\ Len(c2.list) = n + 1 /\ c2.list[n + 1] = d
          /\ \A k \in 1..n : c2.list[k] = c.list[k]
      BY <1>0, <2>1, AppendIs, SMTT(30)
    <2>3. \A x : Has(Append(c.list, d), x) <=> Has(c.list, x) \/ x = d
      BY ONLY <1>0, AppendHas
    <2> QED BY <2>1, <2>2, <2>3
  <1>2. /\ Len(c2.path) = m + 1
        /\ c2.path[m + 1].d = d /\ c2.path[m + 1].i = 1
        /\ \A k \in 1..m : c2.path[k] = c.path[k]
    <2>1. At(d, 1) \in Point /\ At(d, 1).d = d /\ At(d, 1).i = 1
      BY <1>0 DEF At, Point
    <2> QED BY <1>0, <2>1, AppendIs DEF EntersCall
  <1>3. (c.list = <<>> <=> n = 0) /\ (c.path = <<>> <=> m = 0)
    BY <1>0, EmptySeq
  <1>4. /\ \A k \in 1..n : c.list[k] \in 1..Len(ms) /\ c.list[k] # d
        /\ \A k \in 1..n : SameMod(ms[c.list[k]], ms2[c.list[k]])
    BY DEF CallIn, WalkOK, ListOK, Enters, OthersSame
  <1>5. \A k \in 1..m : /\ c.path[k].d \in 1..Len(ms) /\ c.path[k].d # d /\ c.path[k].i # 0
                        /\ SameMod(ms[c.path[k].d], ms2[c.path[k].d])
    <2> SUFFICES ASSUME NEW k \in 1..m
                 PROVE  /\ c.path[k].d \in 1..Len(ms) /\ c.path[k].d # d /\ c.path[k].i # 0
                        /\ SameMod(ms[c.path[k].d], ms2[c.path[k].d])
      OBVIOUS
    <2>1. Has(c.list, c.path[k].d) /\ c.path[k].i # 0
      BY DEF WalkOK, PathOK, CallIn
    <2> QED BY <2>1, <1>4 DEF Has
  <1>6. \A k \in 1..n : ms[c.list[k]].dfs < c.i /\ ms[c.list[k]].dfs \in Nat /\ ms[c.list[k]].ancestor \in Nat
                        /\ ms[c.list[1]].dfs <= ms[c.list[k]].ancestor
                        /\ ms[c.list[k]].ancestor <= ms[c.list[k]].dfs /\ ms[c.list[k]].status = s
    BY <1>4, ModIs DEF WalkOK, ListOK
  <1>7. ms2[d].status = s /\ ms2[d].dfs = c.i /\ ms2[d].ancestor = c.i /\ c2.i = c.i + 1
        /\ ms2[d].name = ms[d].name /\ ms2[d].links = ms[d].links
    BY DEF Enters, EntersCall
  <1>8. SameHead(c, c2) /\ c2.body = 0
    BY DEF EntersCall
  <1>9. \A k \in 1..(n + 1) : k \in 1..n \/ k = n + 1
    BY <1>0
  <1>10. \A k \in 1..(m + 1) : k \in 1..m \/ k = m + 1
    BY <1>0
  <1> HIDE DEF n, m
  <1>11. CallIn(ms2, c2)
    <2>1. c2.d \in 0..Len(ms2)
      BY <1>0, <1>8 DEF CallIn, SameHead
    <2>2. \A k \in 1..Len(c2.path) : c2.path[k].d \in 1..Len(ms2) /\ c2.path[k].i # 0
      <3> SUFFICES ASSUME NEW k \in 1..(m + 1)
                   PROVE  c2.path[k].d \in 1..Len(ms2) /\ c2.path[k].i # 0
        BY <1>2
      <3>1. CASE k \in 1..m
        BY <1>0, <1>2, <1>5, <3>1
      <3>2. CASE k = m + 1
        BY <1>0, <1>2, <3>2, SMTT(30)
      <3> QED BY <1>10, <3>1, <3>2
    <2>3. \A k \in 1..Len(c2.list) : c2.list[k] \in 1..Len(ms2)
      BY <1>0, <1>1, <1>4, <1>9
    <2> QED BY <1>0, <1>8, <2>1, <2>2, <2>3 DEF CallIn
  <1>12. ListOK(ms2, c2, s)
    <2>1. \A k \in 1..n : /\ ms2[c.list[k]].status = ms[c.list[k]].status
                          /\ ms2[c.list[k]].dfs = ms[c.list[k]].dfs
                          /\ ms2[c.list[k]].ancestor = ms[c.list[k]].ancestor
      BY <1>4 DEF SameMod, SameShape
    <2>2. n # 0 => ms2[c2.list[1]].dfs = ms[c.list[1]].dfs /\ 1 \in 1..n
      <3>1. n # 0 => 1 \in 1..n
        BY <1>0
      <3> QED BY <1>1, <2>1, <3>1, SMTT(30)
    <2>3. n = 0 => ms2[c2.list[1]].dfs = c.i
      BY <1>0, <1>1, <1>7
    <2>4. ASSUME NEW k \in 1..(n + 1)
          PROVE  /\ ms2[c2.list[k]].status = s
                 /\ ms2[c2.list[1]].dfs <= ms2[c2.list[k]].ancestor
                 /\ ms2[c2.list[k]].ancestor <= ms2[c2.list[k]].dfs
                 /\ ms2[c2.list[k]].dfs < c2.i
      <3>1. CASE k \in 1..n
        <4>1. n # 0
          BY <1>0, <3>1
        <4>a. c2.list[k] = c.list[k]
          BY <1>1, <3>1
        <4>2. /\ ms2[c2.list[k]].status = s
              /\ ms[c.list[1]].dfs <= ms2[c2.list[k]].ancestor
              /\ ms2[c2.list[k]].ancestor <= ms2[c2.list[k]].dfs
              /\ ms2[c2.list[k]].dfs < c.i /\ ms2[c2.list[k]].dfs \in Nat
          BY <1>6, <2>1, <3>1, <4>a, ZenonT(60)
        <4>3. ms2[c2.list[k]].dfs < c2.i
          BY ONLY <1>0, <1>7, <4>2, SMTT(30)
        <4>4. ms2[c2.list[1]].dfs <= ms2[c2.list[k]].ancestor
          BY <2>2, <4>1, <4>2
        <4> QED BY <4>2, <4>3, <4>4
      <3>2. CASE k = n + 1
        <4>1. n # 0 => ms[c.list[1]].dfs <= c.i
          BY <1>0, <1>6, <2>2, SMTT(30)
        <4> QED BY <1>0, <1>1, <1>7, <2>2, <2>3, <3>2, <4>1, SMTT(30)
      <3> QED BY <1>9, <3>1, <3>2
    <2>5. ASSUME NEW j \in 1..(n + 1), NEW k \in 1..(n + 1), j < k
          PROVE  ms2[c2.list[j]].dfs < ms2[c2.list[k]].dfs
      <3>1. j \in 1..n
        BY <1>0, <2>5
      <3>2. CASE k \in 1..n
        <4>1. ms[c.list[j]].dfs < ms[c.list[k]].dfs
          BY <2>5, <3>1, <3>2 DEF WalkOK, ListOK, n
        <4> QED BY <1>1, <2>1, <3>1, <3>2, <4>1, ZenonT(60)
      <3>3. CASE k = n + 1
        BY <1>1, <1>6, <1>7, <2>1, <3>1, <3>3, SMTT(30)
      <3> QED BY <1>9, <3>2, <3>3
    <2> QED BY <1>1, <2>4, <2>5 DEF ListOK
  <1>13. PathOK(ms2, c2)
    <2>1. PathOK(ms, c)
      BY DEF WalkOK
    <2>2. c2.path # <<>> /\ c2.list # <<>>
      BY <1>0, <1>1, <1>2, EmptySeq
    <2>3. c2.path[1].d = c2.list[1] /\ c2.d = c2.list[1]
      <3>1. CASE m = 0
        BY <1>1, <1>2, <1>3, <1>8, <2>1, <3>1 DEF PathOK, SameHead
      <3>2. CASE m # 0
        <4>1. c.path # <<>> /\ n # 0
          BY <1>3, <2>1, <3>2 DEF PathOK
        <4>2. 1 \in 1..m /\ 1 \in 1..n
          BY <1>0, <3>2, <4>1
        <4> QED BY <1>1, <1>2, <1>8, <2>1, <4>1, <4>2 DEF PathOK, SameHead
      <3> QED BY <3>1, <3>2
    <2>4. ASSUME NEW k \in 1..(m + 1) PROVE Has(c2.list, c2.path[k].d)
      <3>1. CASE k \in 1..m
        BY <1>1, <1>2, <2>1, <3>1 DEF PathOK, m
      <3>2. CASE k = m + 1
        BY <1>1, <1>2, <3>2
      <3> QED BY <1>10, <3>1, <3>2
    <2>5. \A k \in 1..m : ms2[c.path[k].d].dfs = ms[c.path[k].d].dfs /\ ms2[c.path[k].d].links = ms[c.path[k].d].links
                          /\ ms[c.path[k].d].dfs < c.i
      <3> SUFFICES ASSUME NEW k \in 1..m
                   PROVE  ms2[c.path[k].d].dfs = ms[c.path[k].d].dfs /\ ms2[c.path[k].d].links = ms[c.path[k].d].links
                          /\ ms[c.path[k].d].dfs < c.i
        OBVIOUS
      <3>1. PICK j \in 1..n : c.list[j] = c.path[k].d
        BY <2>1 DEF PathOK, m, n, Has
      <3> QED BY <1>5, <1>6, <3>1 DEF SameMod, SameShape
    <2>6. ASSUME NEW j \in 1..(m + 1), NEW k \in 1..(m + 1), j < k
          PROVE  ms2[c2.path[j].d].dfs < ms2[c2.path[k].d].dfs
      <3>1. j \in 1..m
        BY <1>0, <2>6
      <3>2. CASE k \in 1..m
        <4>1. ms[c.path[j].d].dfs < ms[c.path[k].d].dfs
          BY <2>1, <2>6, <3>1, <3>2 DEF PathOK, m
        <4> QED BY <1>2, <2>5, <3>1, <3>2, <4>1
      <3>3. CASE k = m + 1
        BY <1>2, <1>7, <2>5, <3>1, <3>3, SMTT(30)
      <3> QED BY <1>10, <3>2, <3>3
    <2>7. ASSUME NEW k \in 1..(m + 1), k < m + 1
          PROVE  /\ c2.path[k].i <= Len(ms2[c2.path[k].d].links)
                 /\ ms2[c2.path[k].d].links[c2.path[k].i] = c2.path[k + 1].d
      <3>1. k \in 1..m
        BY <1>0, <2>7
      <3>2. CASE k = m
        <4>1. c.path # <<>> /\ Last(c.path) = c.path[m]
          BY <1>0, <1>3, <3>1 DEF Last, m
        <4> QED BY <1>2, <2>5, <3>1, <3>2, <4>1
      <3>3. CASE k # m
        <4>1. k < m /\ k + 1 \in 1..m
          BY <1>0, <3>1, <3>3
        <4>2. c.path[k].i <= Len(ms[c.path[k].d].links) /\ ms[c.path[k].d].links[c.path[k].i] = c.path[k + 1].d
          BY <2>1, <3>1, <4>1 DEF PathOK, m
        <4> QED BY <1>2, <2>5, <3>1, <4>1, <4>2
      <3> QED BY <3>2, <3>3
    <2> QED BY <1>2, <2>2, <2>3, <2>4, <2>6, <2>7 DEF PathOK
  <1>14. c2.loads = 0 /\ c2.d # 0 /\ ms2[c2.d].name = c2.n
    <2>1. c.loads = 0 /\ c.d # 0 /\ ms[c.d].name = c.n /\ c.d \in 1..Len(ms)
      BY <1>0 DEF WalkOK, CallIn
    <2>2. ms2[c.d].name = ms[c.d].name
      BY <2>1 DEF Enters, OthersSame, SameMod, SameShape
    <2> QED BY <1>8, <2>1, <2>2 DEF SameHead
  <1> QED BY <1>11, <1>12, <1>13, <1>14 DEF WalkOK
(* Going on to the next request.                                           *)
LEMMA WalkAdvances ==
    ASSUME NEW ms \in Seq(ModRec), NEW ms2 \in Seq(ModRec), NEW c \in CallRec, NEW c2 \in CallRec,
           NEW s, CallIn(ms, c), WalkOK(ms, c, s), c.path # <<>>, Advances(c, c2),
           c2.body \in 0..Len(ms2), c2.body # 0 => ms2[c2.body].status \in Begun,
           Len(ms2) = Len(ms),
           \A x \in 1..Len(ms) : Has(c.list, x) =>
              /\ ms2[x].name = ms[x].name /\ ms2[x].links = ms[x].links /\ ms2[x].status = ms[x].status
              /\ ms2[x].dfs = ms[x].dfs
              /\ ms[c.list[1]].dfs <= ms2[x].ancestor /\ ms2[x].ancestor <= ms[x].dfs
    PROVE  CallIn(ms2, c2) /\ WalkOK(ms2, c2, s)
  <1> DEFINE n == Len(c.list)
             m == Len(c.path)
  <1>1. n \in Nat /\ m \in Nat /\ m \in 1..m /\ Len(ms) \in Nat
        /\ \A k \in 1..m : c.path[k].d \in Nat /\ c.path[k].i \in Nat
    BY CallFields, ModIs
  <1>2. ASSUME NEW k \in 1..n
        PROVE  /\ c.list[k] \in 1..Len(ms)
               /\ ms2[c.list[k]].name = ms[c.list[k]].name
               /\ ms2[c.list[k]].status = ms[c.list[k]].status /\ ms2[c.list[k]].dfs = ms[c.list[k]].dfs
               /\ ms[c.list[1]].dfs <= ms2[c.list[k]].ancestor /\ ms2[c.list[k]].ancestor <= ms[c.list[k]].dfs
               /\ 1 \in 1..n
    <2>1. c.list[k] \in 1..Len(ms) /\ Has(c.list, c.list[k])
      BY DEF CallIn, Has
    <2> QED BY <1>1, <2>1, SMTT(30)
  <1>3. ASSUME NEW k \in 1..m
        PROVE  /\ Has(c.list, c.path[k].d) /\ c.path[k].d \in 1..Len(ms) /\ c.path[k].i # 0
               /\ ms2[c.path[k].d].links = ms[c.path[k].d].links /\ ms2[c.path[k].d].dfs = ms[c.path[k].d].dfs
    <2>1. Has(c.list, c.path[k].d) /\ c.path[k].d \in 1..Len(ms) /\ c.path[k].i # 0
      BY DEF CallIn, WalkOK, PathOK
    <2> QED BY <2>1
  <1>4. /\ c2.list = c.list /\ Len(c2.path) = m /\ SameHead(c, c2) /\ c2.i = c.i
        /\ \A k \in 1..m : c2.path[k].d = c.path[k].d
        /\ \A k \in 1..m : k # m => c2.path[k].i = c.path[k].i
        /\ c2.path[m].i = c.path[m].i + 1
    BY DEF Advances
  <1>5. WalkOK(ms, c, s) /\ CallIn(ms, c) /\ ListOK(ms, c, s) /\ PathOK(ms, c) /\ c.path # <<>>
        /\ c2.path # <<>> /\ Len(ms2) = Len(ms) /\ c2.body \in 0..Len(ms2)
        /\ (c2.body # 0 => ms2[c2.body].status \in Begun)
    BY <1>1, <1>4, EmptySeq DEF WalkOK
  <1>6. CallIn(ms2, c2)
    <2>1. \A k \in 1..m : c2.path[k].i # 0
      BY ONLY <1>1, <1>3, <1>4, SMTT(30)
    <2>2. c2.d \in 0..Len(ms2)
      BY ONLY <1>4, <1>5 DEF SameHead, CallIn
    <2> QED BY ONLY <1>2, <1>3, <1>4, <1>5, <2>1, <2>2 DEF CallIn
  <1>7. ListOK(ms2, c2, s)
    <2>1. \A k \in 1..n : /\ ms2[c.list[k]].status = s
                          /\ ms2[c.list[1]].dfs <= ms2[c.list[k]].ancestor
                          /\ ms2[c.list[k]].ancestor <= ms2[c.list[k]].dfs
                          /\ ms2[c.list[k]].dfs < c.i
      BY ONLY <1>2, <1>5 DEF ListOK
    <2>2. \A j, k \in 1..n : j < k => ms2[c.list[j]].dfs < ms2[c.list[k]].dfs
      BY ONLY <1>2, <1>5 DEF ListOK
    <2> QED BY ONLY <1>4, <2>1, <2>2 DEF ListOK
  <1>8. PathOK(ms2, c2)
    <2>1. c2.list # <<>> /\ c2.path[1].d = c2.list[1] /\ c2.d = c2.list[1]
      <3>1. 1 \in 1..m
        BY ONLY <1>1
      <3> QED BY ONLY <3>1, <1>4, <1>5 DEF PathOK, SameHead
    <2>2. \A k \in 1..m : Has(c2.list, c2.path[k].d)
      BY ONLY <1>3, <1>4, SMTT(30)
    <2>3. \A j, k \in 1..m : j < k => ms2[c2.path[j].d].dfs < ms2[c2.path[k].d].dfs
      BY ONLY <1>3, <1>4, <1>5, ZenonT(60) DEF PathOK
    <2>4. ASSUME NEW k \in 1..m, k < m
          PROVE  /\ c2.path[k].i <= Len(ms2[c2.path[k].d].links)
                 /\ ms2[c2.path[k].d].links[c2.path[k].i] = c2.path[k + 1].d
      <3>1. k # m /\ k + 1 \in 1..m
        BY ONLY <1>1, <2>4
      <3>2. c.path[k].i <= Len(ms[c.path[k].d].links) /\ ms[c.path[k].d].links[c.path[k].i] = c.path[k + 1].d
        BY ONLY <1>5, <2>4 DEF PathOK
      <3> QED BY ONLY <1>3, <1>4, <3>1, <3>2, k \in 1..m
    <2> QED BY ONLY <1>4, <1>5, <2>1, <2>2, <2>3, <2>4, SMTT(30) DEF PathOK
  <1>9. c2.loads = 0 /\ c2.d # 0 /\ ms2[c2.d].name = c2.n
    <2>1. c.d = c.list[1] /\ 1 \in 1..n
      <3>1. n # 0
        BY <1>5, EmptySeq DEF PathOK
      <3> QED BY <3>1, <1>1, <1>5 DEF PathOK
    <2>2. ms2[c.d].name = ms[c.d].name
      BY ONLY <2>1, <1>2
    <2> QED BY ONLY <1>4, <1>5, <2>2 DEF WalkOK, SameHead
  <1> QED BY <1>6, <1>7, <1>8, <1>9 DEF WalkOK

(* Returning.  If the module that returns is not the first of its cycle,   *)
(* the list stays.                                                         *)
LEMMA WalkReturns ==
    ASSUME NEW ms \in Seq(ModRec), NEW ms2 \in Seq(ModRec), NEW c \in CallRec, NEW c2 \in CallRec,
           NEW s, CallIn(ms, c), WalkOK(ms, c, s), c.path # <<>>, NEW n \in Nat, ReturnsCall(c, c2, n),
           c.body = 0, Len(ms2) = Len(ms),
           \/ n = Len(c.list) /\ ms[Last(c.path).d].dfs # ms[Last(c.path).d].ancestor
           \/ n + 1 <= Len(c.list) /\ c.list[n + 1] = Last(c.path).d,
           \A k \in 1..n : SameShape(ms[c.list[k]], ms2[c.list[k]]),
           ms2[c.d].name = ms[c.d].name
    PROVE  CallIn(ms2, c2) /\ WalkOK(ms2, c2, s)
  <1> DEFINE l == Len(c.list)
             m == Len(c.path)
             d == c.path[m].d
  <1>1. l \in Nat /\ m \in Nat /\ m \in 1..m /\ Len(ms) \in Nat /\ n \in Nat /\ n <= l
        /\ \A k \in 1..m : c.path[k].d \in Nat /\ c.path[k].i \in Nat
    BY CallFields, ModIs DEF ReturnsCall
  <1>2. /\ SameHead(c, c2) /\ c2.i = c.i /\ c2.body = 0
        /\ Len(c2.list) = n /\ (\A k \in 1..n : c2.list[k] = c.list[k])
        /\ Len(c2.path) = m - 1 /\ \A k \in 1..(m - 1) : c2.path[k] = c.path[k]
    BY DEF ReturnsCall
  <1>3. WalkOK(ms, c, s) /\ CallIn(ms, c) /\ ListOK(ms, c, s) /\ PathOK(ms, c) /\ c.path # <<>>
        /\ Len(ms2) = Len(ms) /\ Last(c.path).d = d
    BY CallFields DEF WalkOK
  <1>a. l = Len(c.list) /\ m = Len(c.path) /\ d = c.path[m].d
    OBVIOUS
  <1> HIDE DEF l, m, d
  <1>4. ASSUME NEW k \in 1..n
        PROVE  /\ k \in 1..l /\ c.list[k] \in 1..Len(ms) /\ SameShape(ms[c.list[k]], ms2[c.list[k]])
               /\ 1 \in 1..n /\ Has(c2.list, c.list[k])
    <2>1. k \in 1..l /\ 1 \in 1..n
      BY ONLY <1>1, k \in 1..n
    <2>2. Has(c2.list, c.list[k])
      BY ONLY <1>2, k \in 1..n DEF Has
    <2> QED BY <1>a, <1>3, <2>1, <2>2 DEF CallIn
  <1>5. ASSUME NEW k \in 1..(m - 1)
        PROVE  /\ k \in 1..m /\ k < m
               /\ \E j \in 1..n : c.path[k].d = c.list[j]
    <2>1. k \in 1..m /\ k < m
      BY ONLY <1>1, k \in 1..(m - 1)
    <2>2. PICK j \in 1..l : c.list[j] = c.path[k].d
      BY ONLY <1>a, <1>3, <2>1 DEF PathOK, Has
    <2>3. ms[c.path[k].d].dfs < ms[d].dfs
      BY ONLY <1>a, <1>1, <1>3, <2>1 DEF PathOK
    <2>4. CASE n = l
      BY ONLY <2>1, <2>2, <2>4
    <2>5. CASE n + 1 <= l /\ c.list[n + 1] = d
      <3>1. n + 1 \in 1..l
        BY ONLY <1>1, <2>5
      <3>2. j < n + 1
        <4> DEFINE g == n + 1
        <4>1. g \in 1..Len(c.list) /\ j \in 1..Len(c.list) /\ c.list[g] = d
          BY ONLY <1>a, <3>1, <2>2, <2>5
        <4> HIDE DEF g
        <4>2. ms[c.list[j]].dfs < ms[c.list[g]].dfs <=> j < g
          BY <1>3, <4>1, ListOrder, ZenonT(60)
        <4>3. ms[c.list[j]].dfs < ms[c.list[g]].dfs
          BY ONLY <2>2, <2>3, <4>1
        <4>4. j < g
          BY ONLY <4>2, <4>3
        <4> QED BY ONLY <4>4 DEF g
      <3>3. j \in 1..n
        BY ONLY <1>1, <3>2, j \in 1..l
      <3> QED BY ONLY <2>1, <2>2, <3>3
    <2> QED BY <1>a, <1>3, <2>1, <2>4, <2>5
  <1>6. ASSUME NEW k \in 1..(m - 1)
        PROVE  /\ c.path[k].d \in 1..Len(ms) /\ SameShape(ms[c.path[k].d], ms2[c.path[k].d])
               /\ Has(c2.list, c.path[k].d)
    BY ONLY <1>4, <1>5, k \in 1..(m - 1)
  <1>7. CallIn(ms2, c2)
    <2>1. \A k \in 1..(m - 1) : c2.path[k].i # 0
      BY ONLY <1>a, <1>2, <1>3, <1>5, ZenonT(60) DEF CallIn
    <2>2. c2.d \in 0..Len(ms2)
      BY ONLY <1>2, <1>3 DEF SameHead, CallIn
    <2>3. c2.body \in 0..Len(ms2)
      BY ONLY <1>1, <1>2, <1>3
    <2> QED BY ONLY <1>2, <1>3, <1>4, <1>6, <2>1, <2>2, <2>3 DEF CallIn
  <1>8. ListOK(ms2, c2, s)
    <2>1. \A k \in 1..n : /\ ms2[c2.list[k]].status = ms[c.list[k]].status
                          /\ ms2[c2.list[k]].dfs = ms[c.list[k]].dfs
                          /\ ms2[c2.list[k]].ancestor = ms[c.list[k]].ancestor /\ k \in 1..l /\ 1 \in 1..n
      BY ONLY <1>2, <1>4 DEF SameShape
    <2>2. \A k \in 1..n : /\ ms2[c2.list[k]].status = s
                          /\ ms2[c2.list[1]].dfs <= ms2[c2.list[k]].ancestor
                          /\ ms2[c2.list[k]].ancestor <= ms2[c2.list[k]].dfs
                          /\ ms2[c2.list[k]].dfs < c.i
      BY ONLY <1>a, <1>3, <2>1 DEF ListOK
    <2>3. \A j, k \in 1..n : j < k => ms2[c2.list[j]].dfs < ms2[c2.list[k]].dfs
      BY ONLY <1>a, <1>3, <2>1 DEF ListOK
    <2> QED BY ONLY <1>2, <2>2, <2>3 DEF ListOK
  <1>9. PathOK(ms2, c2)
    <2>1. c2.path = <<>> => c2.list = <<>>
      <3> SUFFICES ASSUME c2.path = <<>> PROVE c2.list = <<>>
        OBVIOUS
      <3>1. m = 1
        <4>1. Len(c2.path) = 0
          OBVIOUS
        <4> QED BY ONLY <1>1, <1>2, <4>1
      <3>2. d = c.list[1] /\ 1 \in 1..l
        <4>1. c.list # <<>> /\ l # 0
          BY ONLY <1>a, <1>3, EmptySeq, CallFields, c \in CallRec DEF PathOK
        <4> QED BY ONLY <1>a, <1>1, <1>3, <3>1, <4>1 DEF PathOK
      <3>3. ms[d].dfs = ms[d].ancestor
        <4>1. ms[c.list[1]].dfs <= ms[c.list[1]].ancestor /\ ms[c.list[1]].ancestor <= ms[c.list[1]].dfs
          BY ONLY <1>a, <1>3, <3>2 DEF ListOK
        <4>2. d \in 1..Len(ms)
          BY ONLY <1>a, <1>3, <3>2 DEF CallIn
        <4>3. ms[d].dfs \in Nat /\ ms[d].ancestor \in Nat
          BY <4>2, ModIs
        <4> QED BY ONLY <3>2, <4>1, <4>3
      <3>4. n + 1 <= l /\ c.list[n + 1] = d
        BY <1>a, <1>3, <3>3
      <3>5. n + 1 \in 1..l
        BY ONLY <1>1, <3>4
      <3>6. n + 1 = 1
        <4>1. c.list[1] = c.list[n + 1] <=> 1 = n + 1
          BY <1>a, <1>3, <3>2, <3>5, ListOrder
        <4> QED BY ONLY <4>1, <3>2, <3>4
      <3>7. Len(c2.list) = 0
        BY ONLY <1>1, <1>2, <3>6
      <3> QED BY <3>7, EmptySeq, CallFields
    <2>2. ASSUME c2.path # <<>>
          PROVE  c2.list # <<>> /\ c2.path[1].d = c2.list[1] /\ c2.d = c2.list[1]
      <3>1. 1 \in 1..(m - 1) /\ 1 \in 1..m
        <4>1. Len(c2.path) # 0
          BY <2>2, EmptySeq, CallFields
        <4> QED BY ONLY <1>1, <1>2, <4>1
      <3>2. 1 \in 1..n
        BY ONLY <1>4, <1>5, <3>1
      <3>3. n # 0
        BY ONLY <1>1, <3>2
      <3>4. c2.list # <<>>
        BY <1>2, <3>3
      <3> QED BY ONLY <1>2, <1>3, <3>1, <3>2, <3>4 DEF PathOK, SameHead
    <2>3. \A k \in 1..(m - 1) : Has(c2.list, c2.path[k].d)
      BY ONLY <1>2, <1>6
    <2>4. \A j, k \in 1..(m - 1) : j < k => ms2[c2.path[j].d].dfs < ms2[c2.path[k].d].dfs
      <3> SUFFICES ASSUME NEW j \in 1..(m - 1), NEW k \in 1..(m - 1), j < k
                   PROVE  ms2[c2.path[j].d].dfs < ms2[c2.path[k].d].dfs
        OBVIOUS
      <3>1. ms[c.path[j].d].dfs < ms[c.path[k].d].dfs
        BY ONLY <1>a, <1>3, <1>5, j \in 1..(m - 1), k \in 1..(m - 1), j < k DEF PathOK
      <3>2. ms2[c.path[j].d].dfs = ms[c.path[j].d].dfs /\ ms2[c.path[k].d].dfs = ms[c.path[k].d].dfs
        BY ONLY <1>6, j \in 1..(m - 1), k \in 1..(m - 1), SMTT(30) DEF SameShape
      <3> QED BY ONLY <1>2, <3>1, <3>2, j \in 1..(m - 1), k \in 1..(m - 1)
    <2>5. ASSUME NEW k \in 1..(m - 1), k < m - 1
          PROVE  /\ c2.path[k].i <= Len(ms2[c2.path[k].d].links)
                 /\ ms2[c2.path[k].d].links[c2.path[k].i] = c2.path[k + 1].d
      <3>1. k \in 1..m /\ k < m /\ k + 1 \in 1..(m - 1)
        BY ONLY <1>1, <2>5
      <3>2. c.path[k].i <= Len(ms[c.path[k].d].links) /\ ms[c.path[k].d].links[c.path[k].i] = c.path[k + 1].d
        BY ONLY <1>a, <1>3, <3>1 DEF PathOK
      <3> QED BY ONLY <1>2, <1>6, <3>1, <3>2, <2>5 DEF SameShape
    <2> QED BY ONLY <1>2, <1>3, <2>1, <2>2, <2>3, <2>4, <2>5 DEF PathOK
  <1>10. c2.loads = 0 /\ c2.d # 0 /\ ms2[c2.d].name = c2.n
    BY <1>2, <1>3 DEF WalkOK, SameHead
  <1> QED BY <1>7, <1>8, <1>9, <1>10 DEF WalkOK
-----------------------------------------------------------------------------
(* References, when modules change.                                        *)

LEMMA RefsSame ==
    ASSUME NEW w, NEW ms \in Seq(ModRec), NEW ms2 \in Seq(ModRec), Len(ms2) = Len(ms),
           LinksOK(w, ms), ParentsIn(ms), RootsOK(ms), Grows(ms, ms2),
           \A x \in 1..Len(ms) :
              /\ ms2[x].links = ms[x].links /\ ms2[x].parents = ms[x].parents
              /\ ms2[x].root = ms[x].root /\ ms2[x].err = ms[x].err
              /\ ms2[x].status \in Ended <=> ms[x].status \in Ended
    PROVE  LinksOK(w, ms2) /\ ParentsIn(ms2) /\ RootsOK(ms2)
  <1>1. LinksOK(w, ms2)
    <2> SUFFICES ASSUME NEW x \in 1..Len(ms), NEW j \in 1..Len(ms[x].links)
                 PROVE  /\ ms[x].links[j] \in 1..Len(ms)
                        /\ ms2[ms[x].links[j]].name \in ToSet(w.imports[ms2[x].name])
      BY DEF LinksOK
    <2>1. ms[x].links[j] \in 1..Len(ms) /\ ms[ms[x].links[j]].name \in ToSet(w.imports[ms[x].name])
      BY DEF LinksOK
    <2>2. \A y \in 1..Len(ms) : ms2[y].name = ms[y].name
      BY DEF Grows
    <2> QED BY ONLY <2>1, <2>2, x \in 1..Len(ms)
  <1>2. ParentsIn(ms2)
    BY DEF ParentsIn, Grows
  <1>3. RootsOK(ms2)
    <2> SUFFICES ASSUME NEW x \in 1..Len(ms)
                 PROVE  /\ ms2[x].root \in 0..Len(ms2) /\ ms2[x].err \in 0..Len(ms2)
                        /\ ms2[x].root # 0 <=> ms2[x].status \in Ended
                        /\ ms2[x].root # 0 => ms2[ms2[x].root].root = ms2[x].root
      BY DEF RootsOK
    <2>1. /\ ms[x].root \in 0..Len(ms) /\ ms[x].err \in 0..Len(ms)
          /\ ms[x].root # 0 <=> ms[x].status \in Ended
          /\ ms[x].root # 0 => ms[ms[x].root].root = ms[x].root
      BY DEF RootsOK
    <2>2. ms[x].root # 0 => ms[x].root \in 1..Len(ms)
      BY <2>1, ModIs
    <2> QED BY <2>1, <2>2
  <1> QED BY <1>1, <1>2, <1>3

(* A new module keeps the references.                                      *)
LEMMA MakesRefs ==
    ASSUME NEW w, NEW ms \in Seq(ModRec), NEW ms2 \in Seq(ModRec), NEW n,
           LinksOK(w, ms), ParentsIn(ms), RootsOK(ms), Makes(ms, ms2, n)
    PROVE  LinksOK(w, ms2) /\ ParentsIn(ms2) /\ RootsOK(ms2) /\ Grows(ms, ms2)
  <1> DEFINE l == Len(ms)
  <1>1. l \in Nat /\ Len(ms2) = l + 1 /\ IsNew(ms2[l + 1], n)
        /\ \A x \in 1..l : SameShape(ms[x], ms2[x]) /\ SameEval(ms[x], ms2[x])
    BY ModIs DEF Makes, OthersSame, SameMod
  <1>2. l = Len(ms)
    OBVIOUS
  <1> HIDE DEF l
  <1>3. \A x \in 1..(l + 1) : x \in 1..l \/ x = l + 1
    BY <1>1
  <1>4. ms2[l + 1].links = <<>> /\ ms2[l + 1].parents = <<>> /\ ms2[l + 1].root = 0 /\ ms2[l + 1].err = 0
        /\ ms2[l + 1].status \notin Ended
    BY <1>1 DEF IsNew, Ended
  <1>5. ASSUME NEW x \in 1..l
        PROVE  /\ x \in 1..(l + 1) /\ ms2[x].name = ms[x].name /\ ms2[x].links = ms[x].links
               /\ ms2[x].status = ms[x].status /\ ms2[x].parents = ms[x].parents /\ ms2[x].root = ms[x].root
               /\ ms2[x].err = ms[x].err
    BY <1>1 DEF SameShape, SameEval
  <1>6. Grows(ms, ms2)
    BY <1>1, <1>2, <1>5 DEF Grows
  <1>7. LinksOK(w, ms2)
    <2> SUFFICES ASSUME NEW x \in 1..(l + 1), NEW j \in 1..Len(ms2[x].links)
                 PROVE  /\ ms2[x].links[j] \in 1..(l + 1)
                        /\ ms2[ms2[x].links[j]].name \in ToSet(w.imports[ms2[x].name])
      BY <1>1 DEF LinksOK
    <2>1. x \in 1..l
      BY <1>3, <1>4
    <2>2. ms[x].links[j] \in 1..l /\ ms[ms[x].links[j]].name \in ToSet(w.imports[ms[x].name])
      BY <1>2, <1>5, <2>1 DEF LinksOK
    <2> QED BY ONLY <1>5, <2>1, <2>2
  <1>8. ParentsIn(ms2)
    <2> SUFFICES ASSUME NEW x \in 1..(l + 1), NEW j \in 1..Len(ms2[x].parents)
                 PROVE  ms2[x].parents[j] \in 1..(l + 1) /\ ms2[ms2[x].parents[j]].status \in Begun
      BY <1>1 DEF ParentsIn
    <2>1. x \in 1..l
      BY <1>3, <1>4
    <2>2. ms[x].parents[j] \in 1..l /\ ms[ms[x].parents[j]].status \in Begun
      BY <1>2, <1>5, <2>1 DEF ParentsIn
    <2> QED BY ONLY <1>5, <2>1, <2>2
  <1>9. RootsOK(ms2)
    <2> SUFFICES ASSUME NEW x \in 1..(l + 1)
                 PROVE  /\ ms2[x].root \in 0..(l + 1) /\ ms2[x].err \in 0..(l + 1)
                        /\ ms2[x].root # 0 <=> ms2[x].status \in Ended
                        /\ ms2[x].root # 0 => ms2[ms2[x].root].root = ms2[x].root
      BY <1>1 DEF RootsOK
    <2>1. CASE x = l + 1
      BY ONLY <1>1, <1>4, <2>1
    <2>2. CASE x \in 1..l
      <3>1. /\ ms[x].root \in 0..l /\ ms[x].err \in 0..l
            /\ ms[x].root # 0 <=> ms[x].status \in Ended
            /\ ms[x].root # 0 => ms[ms[x].root].root = ms[x].root
        BY <1>2, <2>2 DEF RootsOK
      <3>2. ms[x].root # 0 => ms[x].root \in 1..l
        BY ONLY <1>1, <3>1
      <3>3. ms[x].root \in 0..(l + 1) /\ ms[x].err \in 0..(l + 1)
        BY ONLY <1>1, <3>1
      <3> QED BY ONLY <1>5, <2>2, <3>1, <3>2, <3>3
    <2> QED BY <1>3, <2>1, <2>2
  <1> QED BY <1>6, <1>7, <1>8, <1>9

(* A new link keeps the references if the module imports that name.        *)
LEMMA AddsLinkRefs ==
    ASSUME NEW w, NEW ms \in Seq(ModRec), NEW ms2 \in Seq(ModRec), NEW m \in 1..Len(ms), NEW d \in 1..Len(ms),
           LinksOK(w, ms), ParentsIn(ms), RootsOK(ms), AddsLink(ms, ms2, m, d),
           ms[d].name \in ToSet(w.imports[ms[m].name])
    PROVE  LinksOK(w, ms2) /\ ParentsIn(ms2) /\ RootsOK(ms2) /\ Grows(ms, ms2)
  <1>1. Len(ms) \in Nat /\ Len(ms2) = Len(ms) /\ d \in Nat /\ ms[m].links \in Seq(Nat)
    BY ModIs DEF AddsLink
  <1>2. ASSUME NEW x \in 1..Len(ms)
        PROVE  /\ ms2[x].name = ms[x].name /\ (x # m => ms2[x].links = ms[x].links)
               /\ ms2[x].status = ms[x].status /\ ms2[x].parents = ms[x].parents /\ ms2[x].root = ms[x].root
               /\ ms2[x].err = ms[x].err
    BY DEF AddsLink, OthersSame, SameMod, SameShape, SameEval
  <1>3. Grows(ms, ms2)
    BY <1>1, <1>2 DEF Grows
  <1>4. LinksOK(w, ms2)
    <2> SUFFICES ASSUME NEW x \in 1..Len(ms), NEW j \in 1..Len(ms2[x].links)
                 PROVE  /\ ms2[x].links[j] \in 1..Len(ms)
                        /\ ms2[ms2[x].links[j]].name \in ToSet(w.imports[ms2[x].name])
      BY <1>1 DEF LinksOK
    <2>1. CASE x # m
      <3>1. ms[x].links[j] \in 1..Len(ms) /\ ms[ms[x].links[j]].name \in ToSet(w.imports[ms[x].name])
        BY <1>2, <2>1 DEF LinksOK
      <3> QED BY ONLY <1>2, <2>1, <3>1, x \in 1..Len(ms)
    <2>2. CASE x = m
      <3>1. ms2[m].links = Append(ms[m].links, d)
        BY DEF AddsLink
      <3>2. j \in 1..Len(ms[m].links) \/ ms2[m].links[j] = d
        BY ONLY <1>1, <2>2, <3>1, AppendIs, j \in 1..Len(ms2[x].links), SMTT(30)
      <3>3. CASE j \in 1..Len(ms[m].links)
        <4>1. ms2[m].links[j] = ms[m].links[j]
          BY ONLY <1>1, <3>1, <3>3, AppendIs
        <4>2. ms[m].links[j] \in 1..Len(ms) /\ ms[ms[m].links[j]].name \in ToSet(w.imports[ms[m].name])
          BY <3>3 DEF LinksOK
        <4> QED BY ONLY <1>2, <2>2, <4>1, <4>2, m \in 1..Len(ms)
      <3>4. CASE ms2[m].links[j] = d
        BY <1>2, <2>2, <3>4
      <3> QED BY <3>2, <3>3, <3>4
    <2> QED BY <2>1, <2>2
  <1>5. ParentsIn(ms2)
    <2> SUFFICES ASSUME NEW x \in 1..Len(ms), NEW j \in 1..Len(ms[x].parents)
                 PROVE  ms[x].parents[j] \in 1..Len(ms) /\ ms2[ms[x].parents[j]].status \in Begun
      BY <1>1, <1>2, SMTT(30) DEF ParentsIn
    <2>1. ms[x].parents[j] \in 1..Len(ms) /\ ms[ms[x].parents[j]].status \in Begun
      BY DEF ParentsIn
    <2> QED BY ONLY <1>2, <2>1
  <1>6. RootsOK(ms2)
    <2> SUFFICES ASSUME NEW x \in 1..Len(ms)
                 PROVE  /\ ms2[x].root \in 0..Len(ms) /\ ms2[x].err \in 0..Len(ms)
                        /\ ms2[x].root # 0 <=> ms2[x].status \in Ended
                        /\ ms2[x].root # 0 => ms2[ms2[x].root].root = ms2[x].root
      BY <1>1 DEF RootsOK
    <2>1. /\ ms[x].root \in 0..Len(ms) /\ ms[x].err \in 0..Len(ms)
          /\ ms[x].root # 0 <=> ms[x].status \in Ended
          /\ ms[x].root # 0 => ms[ms[x].root].root = ms[x].root
      BY DEF RootsOK
    <2>2. ms[x].root # 0 => ms[x].root \in 1..Len(ms)
      BY <1>1, <2>1
    <2> QED BY ONLY <1>2, <2>1, <2>2, x \in 1..Len(ms)
  <1> QED BY <1>3, <1>4, <1>5, <1>6

(* What is queued was begun, and stays begun.                              *)
LEMMA QueuedSame ==
    ASSUME NEW ms \in Seq(ModRec), NEW ms2 \in Seq(ModRec), NEW jb, NEW aw, QueuedOK(ms, jb, aw),
           aw \subseteq 1..Len(ms), Grows(ms, ms2)
    PROVE  QueuedOK(ms2, jb, aw) /\ aw \subseteq 1..Len(ms2)
  <1>1. 1..Len(ms) \subseteq 1..Len(ms2)
    BY ModIs DEF Grows
  <1> QED BY <1>1 DEF QueuedOK, Grows

-----------------------------------------------------------------------------
(* Steps that load or link modules: they do not concern evaluations.       *)

(* Calls that evaluate, or run for a job.                                  *)
Loud(c) ==
    (c.op = "js_evaluate_module" /\ c.path # <<>>) \/ c.op \in {"fulfilled", "bodyResumes"}
QuietCalls(st, st2) ==
    /\ \A k \in 1..Len(st) : Loud(st[k]) => k \in 1..Len(st2) /\ st2[k] = st[k]
    /\ \A k \in 1..Len(st2) : Loud(st2[k]) => k \in 1..Len(st) /\ st2[k] = st[k]
QuietMods(ms, ms2) ==
    /\ Len(ms) <= Len(ms2)
    /\ \A x \in 1..Len(ms) :
          /\ SameEval(ms[x], ms2[x])
          /\ ms2[x].name = ms[x].name
          /\ ms[x].status \notin Fresh => SameShape(ms[x], ms2[x])
          /\ ms[x].status \in Fresh <=> ms2[x].status \in Fresh
          /\ ms[x].status # "unlinked" => ms2[x].links = ms[x].links
          /\ \A j \in 1..Len(ms[x].links) : j \in 1..Len(ms2[x].links) /\ ms2[x].links[j] = ms[x].links[j]
    /\ \A x \in 1..Len(ms2) : x \in 1..Len(ms) \/ \E n \in Names : IsNew(ms2[x], n)

(* Quiet: a call that is not loud begins, ...                              *)
LEMMA QuietPush ==
    ASSUME NEW st \in Seq(CallRec), NEW c \in CallRec, ~Loud(c)
    PROVE  QuietCalls(st, Append(st, c))
  <1> DEFINE st2 == Append(st, c)
  <1>1. Len(st2) = Len(st) + 1 /\ st2[Len(st) + 1] = c
        /\ (\A k \in 1..Len(st) : k \in 1..(Len(st) + 1) /\ st2[k] = st[k])
        /\ \A k \in 1..(Len(st) + 1) : k \in 1..Len(st) \/ k = Len(st) + 1
    BY AppendIs
  <1> HIDE DEF st2
  <1>2. QuietCalls(st, st2)
    BY <1>1 DEF QuietCalls
  <1> QED BY <1>2 DEF st2

(* ... goes on, ...                                                        *)
LEMMA QuietTop ==
    ASSUME NEW st \in Seq(CallRec), st # <<>>, ~Loud(st[Len(st)]), NEW c \in CallRec, ~Loud(c)
    PROVE  QuietCalls(st, [st EXCEPT ![Len(st)] = c])
  <1> DEFINE st2 == [st EXCEPT ![Len(st)] = c]
  <1>1. Len(st) \in 1..Len(st)
    BY EmptySeq, LenProperties
  <1>2. Len(st2) = Len(st) /\ st2[Len(st)] = c /\ \A k \in 1..Len(st) : k # Len(st) => st2[k] = st[k]
    BY ONLY st \in Seq(CallRec), c \in CallRec, <1>1, ExceptIs
  <1> HIDE DEF st2
  <1>3. QuietCalls(st, st2)
    BY <1>2 DEF QuietCalls
  <1> QED BY <1>3 DEF st2

(* ... or ends.                                                            *)
LEMMA QuietPop ==
    ASSUME NEW st \in Seq(CallRec), st # <<>>, ~Loud(st[Len(st)])
    PROVE  QuietCalls(st, SubSeq(st, 1, Len(st) - 1))
  <1> DEFINE st2 == SubSeq(st, 1, Len(st) - 1)
             n == Len(st)
  <1>1. Len(st2) = n - 1 /\ n \in Nat \ {0} /\ \A k \in 1..(n - 1) : st2[k] = st[k]
    BY LastAndFront
  <1>2. n = Len(st)
    OBVIOUS
  <1> HIDE DEF st2, n
  <1>3. (\A k \in 1..(n - 1) : k \in 1..n) /\ \A k \in 1..n : k \in 1..(n - 1) \/ k = n
    BY <1>1
  <1>4. QuietCalls(st, st2)
    BY <1>1, <1>2, <1>3 DEF QuietCalls
  <1> QED BY <1>4 DEF st2
QuietStep ==
    /\ QuietMods(mods, mods') /\ QuietCalls(stk, stk')
    /\ world' = world /\ jobs' = jobs /\ awaiting' = awaiting /\ clock' = clock

(* The parts of the shape.                                                 *)
LEMMA ShapeIs ==
    ASSUME ShapeInv
    PROVE  /\ world \in Worlds /\ mods \in Seq(ModRec) /\ loaded \subseteq 1..Len(mods)
           /\ stk \in Seq(CallRec) /\ jobs \in Seq(Nat \X BOOLEAN) /\ awaiting \subseteq 1..Len(mods)
           /\ clock \in Nat
           /\ LinksOK(world, mods) /\ ParentsIn(mods) /\ RootsOK(mods) /\ StackOK(world, mods, stk)
           /\ QueuedOK(mods, jobs, awaiting)
           /\ Defs = 1..Len(mods) /\ Len(mods) \in Nat /\ Len(stk) \in Nat
           /\ stk # <<>> <=> Len(stk) # 0
  BY LenProperties, EmptySeq DEF ShapeInv, Shape, Typed, StackOK, CallsOK, Defs

(* The innermost call.                                                     *)
LEMMA TopIs ==
    ASSUME ShapeInv, stk # <<>>
    PROVE  /\ Top = stk[Len(stk)] /\ Top \in CallRec
           /\ CallOK(world, mods, Top) /\ CallIn(mods, Top) /\ CallNeeds(world, mods, Top)
           /\ Top.op \notin Base => Len(stk) = 1
  <1>1. Len(stk) \in 1..Len(stk)
    BY ShapeIs
  <1> QED BY <1>1, ShapeIs, CallIs DEF Top, StackOK, CallsOK, CallOK, Nested, JobsBelow

(* Host code runs, and what it may call for is not in use.                 *)
LEMMA HostRunsIs ==
    ASSUME ShapeInv, HostRuns
    PROVE  stk # <<>> => Hosts(stk[Len(stk)])
  BY DEF HostRuns, Loads, RunsBody, Top, Hosts

(* What host code may call for needs no module that a call works on.       *)
LEMMA ApartCall ==
    ASSUME ShapeInv, Reenter = FALSE, NEW n \in Names, MayCall(n),
           NEW k \in 1..Len(stk), NEW x \in 1..Len(mods), Works(stk[k], x)
    PROVE  mods[x].name \notin NeedsOf(world, n)
  <1>1. stk \in Seq(CallRec) /\ DOMAIN stk = 1..Len(stk)
    BY ShapeIs, LenProperties
  <1>2. stk[k] \in CallRec
    BY ShapeIs, CallIs
  <1> DEFINE c == stk[k]
  <1>3. c.list \in Seq(Nat) /\ c.path \in Seq(Point) /\ DOMAIN c.path = 1..Len(c.path)
    BY <1>2, CallFields, LenProperties
  <1>4. x \in Uses(c)
    <2>1. CASE Has(c.list, x)
      <3>1. x \in ToSet(c.list)
        BY <1>3, <2>1, ToSetHas
      <3> QED BY <3>1 DEF Uses
    <2>2. CASE \E j \in 1..Len(c.path) : c.path[j].d = x
      BY <1>3, <2>2 DEF Uses
    <2>3. CASE c.body # 0 /\ x = c.body
      BY <2>3 DEF Uses
    <2> QED BY <2>1, <2>2, <2>3 DEF Works
  <1>5. mods[x].name \in {mods[d].name : d \in Uses(stk[k])}
    BY <1>4
  <1>6. mods[x].name \in InUse
    BY <1>1, <1>5 DEF InUse
  <1>7. Needs(n) \cap InUse = {}
    BY DEF MayCall
  <1> QED BY <1>6, <1>7 DEF Needs, NeedsOf

(* A call that begins.                                                     *)
LEMMA CallNew ==
    ASSUME NEW op \in Ops, NEW n \in Names \cup {0}, NEW d \in Nat
    PROVE  /\ Call(op, n, d) \in CallRec
           /\ Call(op, n, d).op = op /\ Call(op, n, d).n = n /\ Call(op, n, d).d = d
           /\ Call(op, n, d).i = 0 /\ Call(op, n, d).list = <<>> /\ Call(op, n, d).path = <<>>
           /\ Call(op, n, d).loads = 0 /\ Call(op, n, d).body = 0
  <1>1. <<>> \in Seq(Nat) /\ <<>> \in Seq(Point)
    OBVIOUS
  <1> QED BY <1>1 DEF Call, CallRec

(* A call that has just begun, or goes on to link or to evaluate.          *)
LEMMA CallIdle ==
    ASSUME NEW w \in Worlds, NEW ms \in Seq(ModRec), NEW op \in Base, NEW n \in Names, NEW d \in 0..Len(ms),
           op \in {"loadModule", "js_link_module", "js_evaluate_module"},
           op # "loadModule" => d # 0 /\ ms[d].name = n
    PROVE  CallOK(w, ms, Call(op, n, d)) /\ CallNeeds(w, ms, Call(op, n, d)) /\ ~Loud(Call(op, n, d))
  <1> DEFINE c == Call(op, n, d)
  <1>1. Len(ms) \in Nat /\ d \in Nat /\ op \in Ops /\ 0 \in 0..Len(ms)
    BY ModIs DEF Ops
  <1>2. c.op = op /\ c.n = n /\ c.d = d /\ c.i = 0 /\ c.list = <<>> /\ c.path = <<>> /\ c.loads = 0
        /\ c.body = 0
    BY <1>1, CallNew
  <1>3. Len(c.list) = 0 /\ Len(c.path) = 0 /\ \A k \in 1..0 : FALSE
    BY <1>2
  <1> HIDE DEF c
  <1>4. CallIn(ms, c)
    BY <1>1, <1>2, <1>3 DEF CallIn
  <1>5. c.op \in Resolvers => ResolveOK(w, ms, c)
    <2>1. c.op \in Resolvers => c.op = "loadModule"
      BY <1>2 DEF Resolvers
    <2> QED BY <1>2, <1>3, <2>1 DEF ResolveOK
  <1>6. ListOK(ms, c, "linking") /\ ListOK(ms, c, "evaluating") /\ PathOK(ms, c)
    BY <1>2, <1>3 DEF ListOK, PathOK
  <1>7. c.op # "loadModule" => WalkOK(ms, c, "linking") /\ WalkOK(ms, c, "evaluating")
    BY <1>2, <1>6 DEF WalkOK
  <1>8. /\ c.op = "js_link_module" => LinkOK(ms, c)
        /\ c.op = "js_evaluate_module" => EvalOK(ms, c)
    BY <1>2, <1>7 DEF LinkOK, EvalOK
  <1>9. c.op \notin {"fulfilled", "bodyResumes"}
    BY <1>2 DEF Base
  <1>10. CallOK(w, ms, c)
    BY ONLY <1>4, <1>5, <1>8, <1>9 DEF CallOK
  <1>11. CallNeeds(w, ms, c)
    BY <1>2, <1>3 DEF CallNeeds, Works, Has
  <1>12. ~Loud(c)
    BY <1>2, <1>9 DEF Loud
  <1> QED BY <1>10, <1>11, <1>12 DEF c

(* A module that is made.                                                  *)
LEMMA MakesQuiet ==
    ASSUME NEW w, NEW ms \in Seq(ModRec), NEW ms2 \in Seq(ModRec), NEW n \in Names, Makes(ms, ms2, n)
    PROVE  /\ QuietMods(ms, ms2) /\ \A x \in 1..Len(ms) : SameShape(ms[x], ms2[x])
           /\ Len(ms) + 1 \in 1..Len(ms2) /\ ms2[Len(ms) + 1].name = n /\ ms2[Len(ms) + 1].status = "unlinked"
           /\ \A x \in 1..Len(ms2) : ms2[x].status \in {"linking", "evaluating"} =>
                 x \in 1..Len(ms) /\ ms[x].status = ms2[x].status
  <1> DEFINE l == Len(ms)
  <1>1. l \in Nat /\ Len(ms2) = l + 1 /\ IsNew(ms2[l + 1], n)
        /\ \A x \in 1..l : SameShape(ms[x], ms2[x]) /\ SameEval(ms[x], ms2[x])
    BY ModIs DEF Makes, OthersSame, SameMod
  <1>2. l = Len(ms)
    OBVIOUS
  <1> HIDE DEF l
  <1>3. (\A x \in 1..(l + 1) : x \in 1..l \/ x = l + 1) /\ l + 1 \in 1..(l + 1) /\ l <= l + 1
    BY <1>1
  <1>4. \A x \in 1..(l + 1) : ms2[x].status \in {"linking", "evaluating"} =>
           x \in 1..l /\ ms[x].status = ms2[x].status
    BY <1>1, <1>3 DEF IsNew, SameShape
  <1>5. QuietMods(ms, ms2)
    BY ONLY <1>1, <1>2, <1>3, n \in Names DEF QuietMods, SameShape
  <1> QED BY ONLY <1>1, <1>2, <1>3, <1>4, <1>5 DEF IsNew

(* A step that changes no module.                                          *)
LEMMA NothingQuiet ==
    ASSUME NEW ms \in Seq(ModRec)
    PROVE  QuietMods(ms, ms) /\ Grows(ms, ms) /\ \A x \in 1..Len(ms) : SameShape(ms[x], ms[x])
  BY ModIs DEF QuietMods, Grows, SameShape, SameEval

-----------------------------------------------------------------------------
(* The steps that load modules keep the shape.                             *)

LEMMA ShapeStep ==
    ASSUME ShapeInv, world' = world, mods' \in Seq(ModRec), stk' \in Seq(CallRec),
           loaded' \subseteq 1..Len(mods'), jobs' \in Seq(Nat \X BOOLEAN),
           awaiting' \subseteq 1..Len(mods'), clock' \in Nat,
           LinksOK(world, mods'), ParentsIn(mods'), RootsOK(mods'),
           StackOK(world, mods', stk'), QueuedOK(mods', jobs', awaiting')
    PROVE  ShapeInv'
  BY ShapeIs DEF ShapeInv, Shape, Typed, StackOK, CallsOK

(* A quiet step keeps the shape if references and stack are kept.          *)
LEMMA QuietShape ==
    ASSUME ShapeInv, world' = world, jobs' = jobs, awaiting' = awaiting, clock' = clock,
           mods' \in Seq(ModRec), stk' \in Seq(CallRec), loaded' \subseteq 1..Len(mods'),
           Grows(mods, mods'), LinksOK(world, mods'), ParentsIn(mods'), RootsOK(mods'),
           StackOK(world, mods', stk'), QuietMods(mods, mods'), QuietCalls(stk, stk')
    PROVE  ShapeInv' /\ QuietStep
  <1>1. QueuedOK(mods', jobs', awaiting') /\ awaiting' \subseteq 1..Len(mods')
    BY ShapeIs, QueuedSame
  <1>2. ShapeInv'
    BY <1>1, ShapeIs, ShapeStep
  <1> QED BY <1>2 DEF QuietStep

(* When no module changes.                                                 *)
LEMMA QuietStack ==
    ASSUME ShapeInv, world' = world, jobs' = jobs, awaiting' = awaiting, clock' = clock,
           mods' = mods, loaded' \subseteq loaded, stk' \in Seq(CallRec),
           StackOK(world, mods, stk'), QuietCalls(stk, stk')
    PROVE  ShapeInv' /\ QuietStep
  <1>1. QuietMods(mods, mods') /\ Grows(mods, mods')
    BY ShapeIs, NothingQuiet
  <1>2. mods' \in Seq(ModRec) /\ LinksOK(world, mods') /\ ParentsIn(mods') /\ RootsOK(mods')
        /\ loaded' \subseteq 1..Len(mods') /\ StackOK(world, mods', stk')
    BY ShapeIs
  <1> QED BY <1>1, <1>2, QuietShape

(* A module that begins to be resolved.                                    *)
Resolves(op, n, d) == [Call(op, n, d) EXCEPT !.path = <<At(d, 1)>>]
(* A call that compiles is about to resolve the module it made.            *)
LEMMA CallResolves ==
    ASSUME NEW w \in Worlds, NEW ms \in Seq(ModRec), NEW op \in {"compileCode", "evalCode"},
           NEW n \in Names, NEW d \in 1..Len(ms), ms[d].name = n, ms[d].status = "unlinked",
           NEW c, c = Resolves(op, n, d)
    PROVE  c \in CallRec /\ CallOK(w, ms, c) /\ CallNeeds(w, ms, c) /\ ~Loud(c) /\ c.op = op /\ c.n = n
  <1>1. At(d, 1) \in Point /\ At(d, 1).d = d /\ At(d, 1).i = 1
    BY ModIs DEF At, Point
  <1>2. <<At(d, 1)>> \in Seq(Point) /\ Len(<<At(d, 1)>>) = 1 /\ <<At(d, 1)>>[1] = At(d, 1)
        /\ <<At(d, 1)>> # <<>>
    BY ONLY <1>1
  <1>3. op \in Ops /\ d \in Nat
    BY ModIs DEF Ops, Base
  <1> DEFINE p == <<At(d, 1)>>
  <1>a. p \in Seq(Point) /\ Len(p) = 1 /\ p[1] = At(d, 1) /\ p # <<>> /\ c = [Call(op, n, d) EXCEPT !.path = p]
    BY <1>2 DEF Resolves
  <1> HIDE DEF p
  <1>b. <<>> \in Seq(Nat)
    OBVIOUS
  <1>4. c \in CallRec /\ c.op = op /\ c.n = n /\ c.d = d /\ c.i = 0 /\ c.list = <<>>
        /\ c.path = p /\ c.loads = 0 /\ c.body = 0
    BY ONLY <1>a, <1>b, <1>3, n \in Names DEF CallRec, Call
  <1>5. Len(c.path) = 1 /\ Len(c.list) = 0 /\ c.path[1].d = d /\ c.path[1].i = 1 /\ c.path # <<>>
        /\ (\A k \in 1..0 : FALSE) /\ \A k \in 1..1 : k = 1
    BY <1>1, <1>a, <1>4
  <1>6. CallIn(ms, c)
    BY <1>4, <1>5, ModIs DEF CallIn
  <1>7. ResolveOK(w, ms, c)
    BY <1>4, <1>5 DEF ResolveOK
  <1>8. c.op \in Resolvers /\ c.op \notin {"js_link_module", "js_evaluate_module", "fulfilled", "bodyResumes"}
    BY <1>4 DEF Resolvers
  <1>9. CallOK(w, ms, c)
    BY ONLY <1>6, <1>7, <1>8 DEF CallOK
  <1>10. CallNeeds(w, ms, c)
    BY ONLY <1>4, <1>5, NeedsIs, w \in Worlds, n \in Names, ms[d].name = n DEF CallNeeds, Works, Has
  <1>11. ~Loud(c)
    BY <1>8 DEF Loud
  <1> QED BY <1>4, <1>9, <1>10, <1>11

(* Compile keeps the shape.                                                *)
LEMMA CompileShape ==
    ASSUME ShapeInv, Reenter = FALSE, NEW n \in Names, NEW op \in {"compileCode", "evalCode"}, Compile(n, op)
    PROVE  ShapeInv' /\ QuietStep
  <1> DEFINE d == Len(mods) + 1
             c == Resolves(op, n, d)
  <1>1. mods' = Append(mods, [js_new_module_def(n) EXCEPT !.resolved = TRUE])
        /\ loaded' = loaded \cup {d} /\ stk' = Append(stk, c) /\ MayCall(n)
        /\ world' = world /\ jobs' = jobs /\ awaiting' = awaiting /\ clock' = clock
    BY DEF Compile, Resolves
  <1>2. mods' \in Seq(ModRec) /\ Makes(mods, mods', n)
    BY ONLY <1>1, ShapeIs, ShapeInv, MakesIs, n \in Names
  <1>3. LinksOK(world, mods') /\ ParentsIn(mods') /\ RootsOK(mods') /\ Grows(mods, mods')
    BY <1>2, ShapeIs, MakesRefs
  <1>4. /\ QuietMods(mods, mods') /\ \A x \in 1..Len(mods) : SameShape(mods[x], mods'[x])
        /\ d \in 1..Len(mods') /\ mods'[d].name = n /\ mods'[d].status = "unlinked"
        /\ \A x \in 1..Len(mods') : mods'[x].status \in {"linking", "evaluating"} =>
              x \in 1..Len(mods) /\ mods[x].status = mods'[x].status
    BY <1>2, ShapeIs, MakesQuiet
  <1> HIDE DEF d
  <1>a. c = Resolves(op, n, d)
    OBVIOUS
  <1>b. stk' = Append(stk, c)
    BY <1>1
  <1> HIDE DEF c
  <1>5. c \in CallRec /\ CallOK(world, mods', c) /\ CallNeeds(world, mods', c) /\ ~Loud(c)
        /\ c.op = op /\ c.n = n
    <2>1. world \in Worlds
      BY ShapeIs
    <2> QED BY ONLY <2>1, <1>2, <1>4, <1>a, CallResolves, n \in Names, op \in {"compileCode", "evalCode"}
  <1>6. \A k \in 1..Len(stk) : \A x \in 1..Len(mods) : Works(stk[k], x) => mods[x].name \notin NeedsOf(world, c.n)
    BY <1>1, <1>5, ApartCall
  <1>7. stk # <<>> => Hosts(stk[Len(stk)])
    BY <1>1, HostRunsIs DEF MayCall
  <1>8. stk' \in Seq(CallRec) /\ StackOK(world, mods', stk')
    <2>1. c.op \in Base
      BY <1>5 DEF Base
    <2> QED BY ONLY <1>1, <1>2, <1>3, <1>4, <1>5, <1>6, <1>7, <2>1, ShapeIs, ShapeInv, PushKept
  <1>9. QuietCalls(stk, stk')
    BY <1>1, <1>5, ShapeIs, QuietPush
  <1>10. loaded' \subseteq 1..Len(mods')
    BY <1>1, <1>3, <1>4, ShapeIs DEF Grows
  <1> QED BY <1>1, <1>2, <1>3, <1>4, <1>8, <1>9, <1>10, QuietShape

(* loadModule and evalFunction keep the shape.                             *)
LEMMA CallShape ==
    ASSUME ShapeInv, Reenter = FALSE, NEW n \in Names, NEW d \in 0..Len(mods), NEW op \in {"loadModule", "js_link_module"},
           op # "loadModule" => d # 0 /\ mods[d].name = n,
           MayCall(n), stk' = Append(stk, Call(op, n, d)),
           UNCHANGED <<world, mods, loaded, jobs, awaiting, clock>>
    PROVE  ShapeInv' /\ QuietStep
  <1> DEFINE c == Call(op, n, d)
  <1>1. op \in Base /\ op \in Ops /\ d \in Nat
    BY ShapeIs DEF Ops, Base
  <1>2. c \in CallRec /\ c.op = op /\ c.n = n
    BY <1>1, CallNew
  <1>3. CallOK(world, mods, c) /\ CallNeeds(world, mods, c) /\ ~Loud(c)
    BY <1>1, ShapeIs, CallIdle
  <1> HIDE DEF c
  <1>4. \A k \in 1..Len(stk) : \A x \in 1..Len(mods) : Works(stk[k], x) => mods[x].name \notin NeedsOf(world, c.n)
    BY <1>2, ApartCall
  <1>5. stk # <<>> => Hosts(stk[Len(stk)])
    BY HostRunsIs DEF MayCall
  <1>6. stk' = Append(stk, c)
    BY DEF c
  <1>7. stk' \in Seq(CallRec) /\ StackOK(world, mods, stk')
    BY ONLY <1>1, <1>2, <1>3, <1>4, <1>5, <1>6, ShapeIs, ShapeInv, NothingQuiet, PushKept
  <1>8. QuietCalls(stk, stk')
    BY <1>2, <1>3, <1>6, ShapeIs, QuietPush
  <1> QED BY <1>7, <1>8, QuietStack

(* newCModule keeps the shape.                                             *)
LEMMA newCModuleShape ==
    ASSUME ShapeInv, NEW n \in Names, newCModule(n)
    PROVE  ShapeInv' /\ QuietStep
  <1>1. mods' = Append(mods, js_new_module_def(n))
        /\ loaded' = loaded \cup {Len(mods) + 1} /\ stk' = stk /\ HostRuns
        /\ world' = world /\ jobs' = jobs /\ awaiting' = awaiting /\ clock' = clock
    BY DEF newCModule
  <1>2. mods' \in Seq(ModRec) /\ Makes(mods, mods', n)
    BY ONLY <1>1, ShapeIs, ShapeInv, MakesIs, n \in Names
  <1>3. LinksOK(world, mods') /\ ParentsIn(mods') /\ RootsOK(mods') /\ Grows(mods, mods')
    BY <1>2, ShapeIs, MakesRefs
  <1>4. /\ QuietMods(mods, mods') /\ \A x \in 1..Len(mods) : SameShape(mods[x], mods'[x])
        /\ Len(mods) + 1 \in 1..Len(mods')
        /\ \A x \in 1..Len(mods') : mods'[x].status \in {"linking", "evaluating"} =>
              x \in 1..Len(mods) /\ mods[x].status = mods'[x].status
    BY <1>2, ShapeIs, MakesQuiet
  <1>5. stk # <<>> => Hosts(stk[Len(stk)])
    BY <1>1, HostRunsIs
  <1>6. StackOK(world, mods', stk)
    BY ONLY <1>2, <1>3, <1>4, <1>5, ShapeIs, ShapeInv, SameKept
  <1>7. QuietCalls(stk, stk')
    BY <1>1 DEF QuietCalls
  <1>8. loaded' \subseteq 1..Len(mods')
    BY <1>1, <1>3, <1>4, ShapeIs DEF Grows
  <1>9. stk' \in Seq(CallRec) /\ StackOK(world, mods', stk')
    BY <1>1, <1>6, ShapeIs
  <1> QED BY <1>1, <1>2, <1>3, <1>4, <1>7, <1>8, <1>9, QuietShape

(* The calls of the host keep the shape.                                   *)
LEMMA CallsShape ==
    ASSUME ShapeInv, Reenter = FALSE, Calls
    PROVE  ShapeInv' /\ QuietStep
  <1>1. CASE \E n \in Names : \E op \in {"compileCode", "evalCode"} : Compile(n, op)
    BY <1>1, CompileShape
  <1>2. CASE \E n \in Names : loadModule(n)
    <2>1. PICK n \in Names : loadModule(n)
      BY <1>2
    <2>2. 0 \in 0..Len(mods)
      BY ShapeIs
    <2> QED BY <2>1, <2>2, CallShape DEF loadModule
  <1>3. CASE \E n \in Names : newCModule(n)
    BY <1>3, newCModuleShape
  <1>4. CASE \E d \in Defs : evalFunction(d)
    <2>1. PICK d \in Defs : evalFunction(d)
      BY <1>4
    <2>2. d \in 0..Len(mods) /\ d # 0 /\ mods[d].name \in Names
      BY ShapeIs, ModIs
    <2> QED BY <2>1, <2>2, CallShape DEF evalFunction
  <1> QED BY <1>1, <1>2, <1>3, <1>4 DEF Calls

(* The innermost call resolves, and goes on as c.                          *)
LEMMA LoadTop ==
    ASSUME ShapeInv, stk # <<>>, Top.op \in Resolvers, mods' \in Seq(ModRec),
           QuietMods(mods, mods'), Grows(mods, mods'), Touches(world, mods, mods', stk),
           LinksOK(world, mods'), ParentsIn(mods'), RootsOK(mods'),
           \A x \in 1..Len(mods') : mods'[x].status \in {"linking", "evaluating"} =>
              x \in 1..Len(mods) /\ mods[x].status = mods'[x].status,
           NEW c \in CallRec, CallOK(world, mods', c), CallNeeds(world, mods', c), c.n = Top.n,
           c.op \in Base, ~Loud(c),
           stk' = WithTop(c), loaded' \subseteq 1..Len(mods'),
           UNCHANGED <<world, jobs, awaiting, clock>>
    PROVE  ShapeInv' /\ QuietStep
  <1>1. Top = stk[Len(stk)] /\ CallOK(world, mods, Top)
    BY TopIs
  <1>2. Top.list = <<>> /\ ~Loud(Top)
    BY <1>1 DEF CallOK, ResolveOK, Resolvers, Loud
  <1>3. \A s, x : ~OnList(Top, s, x)
    BY <1>2, EmptyHas DEF OnList
  <1>4. stk' = [stk EXCEPT ![Len(stk)] = c]
    BY DEF WithTop
  <1>5. stk' \in Seq(CallRec) /\ StackOK(world, mods', stk')
    <2>1. \A x \in 1..Len(mods') : mods'[x].status \in {"linking", "evaluating"} =>
              \/ OnList(c, mods'[x].status, x)
              \/ /\ x \in 1..Len(mods) /\ mods[x].status = mods'[x].status
                 /\ ~OnList(stk[Len(stk)], mods'[x].status, x)
      BY <1>1, <1>3
    <2>2. c.op \notin Base => stk[Len(stk)].op \notin Base
      OBVIOUS
    <2>3. c.n = stk[Len(stk)].n
      BY <1>1
    <2> QED BY ONLY <1>4, <2>1, <2>2, <2>3, ShapeInv, stk # <<>>, ShapeIs, TopKept, mods' \in Seq(ModRec), c \in CallRec,
                    Grows(mods, mods'), Touches(world, mods, mods', stk), CallOK(world, mods', c),
                    CallNeeds(world, mods', c)
  <1>6. QuietCalls(stk, stk')
    BY <1>1, <1>2, <1>4, ShapeIs, QuietTop
  <1> QED BY <1>5, <1>6, QuietShape

(* A call that resolves ends.                                              *)
LEMMA LoadPop ==
    ASSUME ShapeInv, stk # <<>>, Top.op \in Resolvers, stk' = Pop, loaded' \subseteq loaded,
           UNCHANGED <<world, mods, jobs, awaiting, clock>>
    PROVE  ShapeInv' /\ QuietStep
  <1>1. Top = stk[Len(stk)] /\ CallOK(world, mods, Top)
    BY TopIs
  <1>2. Top.list = <<>> /\ ~Loud(Top)
    BY <1>1 DEF CallOK, ResolveOK, Resolvers, Loud
  <1>3. \A s, x : ~OnList(stk[Len(stk)], s, x)
    BY <1>1, <1>2, EmptyHas DEF OnList
  <1>4. stk' = SubSeq(stk, 1, Len(stk) - 1)
    BY DEF Pop
  <1>5. Touches(world, mods, mods, stk) /\ Grows(mods, mods)
    BY ShapeIs, NothingQuiet DEF Touches
  <1>6. stk' \in Seq(CallRec) /\ StackOK(world, mods, stk')
    BY ONLY <1>3, <1>4, <1>5, ShapeInv, stk # <<>>, ShapeIs, PopKept
  <1>7. QuietCalls(stk, stk')
    BY <1>1, <1>2, <1>4, ShapeIs, QuietPop
  <1> QED BY <1>6, <1>7, QuietStack

(* The module that was wanted is delivered.                                *)
Delivers(ms, d, m) == [[ms EXCEPT ![d].resolved = TRUE] EXCEPT ![m].links = Append(@, d)]

(* A module is delivered to the module that requested it, ...              *)
LEMMA DeliverLinks ==
    ASSUME ShapeInv, stk # <<>>, Top.op \in Resolvers,
           NEW ms \in Seq(ModRec), QuietMods(mods, ms), Grows(mods, ms),
           LinksOK(world, ms), ParentsIn(ms), RootsOK(ms),
           \A x \in 1..Len(mods) : SameShape(mods[x], ms[x]),
           \A x \in 1..Len(ms) : ms[x].status \in {"linking", "evaluating"} =>
              x \in 1..Len(mods) /\ mods[x].status = ms[x].status,
           NEW c \in CallRec, c.op = Top.op, c.n = Top.n, CallOK(world, ms, c), CallNeeds(world, ms, c),
           c.loads = 0, NEW d \in 1..Len(ms),
           c.path # <<>>, Last(c.path).d \in 1..Len(mods), Wants(world, ms, Last(c.path), ms[d].name),
           mods' = Delivers(ms, d, Last(c.path).d),
           stk' = WithTop(Advance(c)), loaded' \subseteq 1..Len(ms),
           UNCHANGED <<world, jobs, awaiting, clock>>
    PROVE  ShapeInv' /\ QuietStep
  <1> DEFINE m == Last(c.path).d
             c2 == Advance(c)
             ms1 == [ms EXCEPT ![d].resolved = TRUE]
  <1>a0. ms1 = [ms EXCEPT ![d].resolved = TRUE] /\ mods' = [ms1 EXCEPT ![m].links = Append(@, d)]
    BY DEF Delivers
  <1> HIDE DEF ms1
  <1>1. ms1 \in Seq(ModRec) /\ Len(ms1) = Len(ms) /\ OthersSame(ms, ms1, {})
    BY ONLY <1>a0, ms \in Seq(ModRec), d \in 1..Len(ms), ResolvesIs
  <1>2. Len(ms) \in Nat /\ Len(mods) \in Nat /\ Len(mods) <= Len(ms) /\ m \in 1..Len(ms)
    BY ShapeIs, ModIs DEF Grows
  <1>3. mods' \in Seq(ModRec) /\ AddsLink(ms1, mods', m, d)
    BY ONLY <1>a0, <1>1, <1>2, d \in 1..Len(ms), AddsLinkIs
  <1>4. Grows(ms, ms1) /\ \A x \in 1..Len(ms) : SameMod(ms[x], ms1[x])
    <2>1. \A x \in 1..Len(ms) : SameMod(ms[x], ms1[x])
      BY ONLY <1>1 DEF OthersSame
    <2> QED BY ONLY <1>1, <1>2, <2>1 DEF Grows, SameMod, SameShape
  <1>5. LinksOK(world, ms1) /\ ParentsIn(ms1) /\ RootsOK(ms1)
    BY ONLY <1>1, <1>4, RefsSame, ms \in Seq(ModRec), LinksOK(world, ms), ParentsIn(ms), RootsOK(ms), SMTT(30)
       DEF SameMod, SameShape, SameEval
  <1>6. ms[d].name \in ToSet(world.imports[ms[m].name]) /\ ms[m].name \in Names
    <2>1. Last(c.path).i \in 1..Len(world.imports[ms[m].name]) /\ ms[m].name \in Names
          /\ ms[d].name = world.imports[ms[m].name][Last(c.path).i]
      <3>1. CallIn(ms, c) /\ Len(c.path) \in 1..Len(c.path) /\ Last(c.path) = c.path[Len(c.path)]
            /\ Last(c.path).i \in Nat
        BY CallFields DEF CallOK
      <3>2. Last(c.path).i # 0
        BY <3>1 DEF CallIn
      <3>3. ms[m].name \in Names
        BY <1>2, ModIs
      <3>4. world.imports[ms[m].name] \in Seq(Names)
        BY <3>3, ShapeIs, WorldsAssumption DEF WorldType
      <3>5. Len(world.imports[ms[m].name]) \in Nat
        BY <3>4, LenProperties
      <3>6. Last(c.path).i <= Len(world.imports[ms[Last(c.path).d].name])
            /\ ms[d].name = world.imports[ms[Last(c.path).d].name][Last(c.path).i]
        BY SMTT(30) DEF Wants
      <3> QED BY ONLY <3>1, <3>2, <3>3, <3>5, <3>6
    <2>2. world.imports[ms[m].name] \in Seq(Names)
      BY <2>1, ShapeIs, WorldsAssumption, ZenonT(60) DEF WorldType
    <2>3. Has(world.imports[ms[m].name], ms[d].name)
      BY <2>1 DEF Has
    <2> QED BY <2>1, <2>2, <2>3, ToSetHas
  <1>7. ms1[d].name = ms[d].name /\ ms1[m].name = ms[m].name
    BY <1>2, <1>4 DEF SameMod, SameShape
  <1>8. LinksOK(world, mods') /\ ParentsIn(mods') /\ RootsOK(mods') /\ Grows(ms1, mods')
    BY ONLY <1>1, <1>2, <1>3, <1>5, <1>6, <1>7, AddsLinkRefs, d \in 1..Len(ms)
  <1>a. CallOK(world, ms, c) /\ CallIn(ms, c) /\ ResolveOK(world, ms, c)
    BY DEF CallOK
  <1>b. Advance(c) \in CallRec /\ Advances(c, c2) /\ c2.body = c.body
    BY AdvanceIs
  <1>c. Len(c.path) \in 1..Len(c.path) /\ Last(c.path) = c.path[Len(c.path)]
        /\ (\A k \in 1..Len(c.path) : c.path[k].i \in Nat) /\ Len(c.path) \in Nat
    BY CallFields
  <1>9. ms[m].status = "unlinked" /\ mods[m].status = "unlinked"
    BY <1>a, <1>c, ZenonT(60) DEF ResolveOK, SameShape
  <1> DEFINE l == Len(ms[m].links)
  <1>10. l \in Nat /\ mods'[m].links = Append(ms[m].links, d) /\ Len(mods'[m].links) = l + 1
         /\ \A j \in 1..l : mods'[m].links[j] = ms[m].links[j] /\ j \in 1..(l + 1)
    <2>1. ms1[m].links = ms[m].links /\ ms[m].links \in Seq(Nat) /\ d \in Nat
      BY <1>2, <1>4, ModIs DEF SameMod, SameShape
    <2>2. mods'[m].links = Append(ms[m].links, d)
      BY ONLY <1>3, <2>1 DEF AddsLink
    <2> QED BY ONLY <2>1, <2>2, AppendIs, SMTT(30)
  <1> HIDE DEF c2, m, l
  <1>11. Len(mods') = Len(ms) /\ \A x \in 1..Len(ms) :
            /\ SameEval(ms[x], mods'[x])
            /\ mods'[x].name = ms[x].name /\ mods'[x].status = ms[x].status
            /\ x # m => SameShape(ms[x], mods'[x])
    BY ONLY <1>1, <1>2, <1>3, <1>4 DEF AddsLink, OthersSame, SameMod, SameEval, SameShape
  <1>12. QuietMods(mods, mods')
    <2>1. ASSUME NEW x \in 1..Len(mods)
          PROVE  /\ SameEval(mods[x], mods'[x]) /\ mods'[x].name = mods[x].name
                 /\ mods'[x].status = mods[x].status
                 /\ x # m => SameShape(mods[x], mods'[x])
      <3>1. x \in 1..Len(ms) /\ SameEval(mods[x], ms[x]) /\ SameShape(mods[x], ms[x])
        BY <1>2 DEF QuietMods
      <3> QED BY ONLY <1>11, <3>1 DEF SameEval, SameShape
    <2>2. \A j \in 1..Len(mods[m].links) : j \in 1..Len(mods'[m].links) /\ mods'[m].links[j] = mods[m].links[j]
      <3>1. mods[m].links = ms[m].links
        BY DEF SameShape, m
      <3>2. Len(mods[m].links) = l
        BY <3>1 DEF l
      <3> QED BY ONLY <1>10, <3>1, <3>2
    <2>3. ASSUME NEW x \in 1..Len(mods')
          PROVE  x \in 1..Len(mods) \/ \E n \in Names : IsNew(mods'[x], n)
      <3>1. SUFFICES ASSUME x \notin 1..Len(mods) PROVE \E n \in Names : IsNew(mods'[x], n)
        OBVIOUS
      <3>2. x \in 1..Len(ms) /\ x # m
        BY <1>11, <3>1 DEF m
      <3>3. PICK n \in Names : IsNew(ms[x], n)
        BY <3>1, <3>2 DEF QuietMods
      <3>4. IsNew(mods'[x], n)
        BY ONLY <1>11, <3>2, <3>3 DEF IsNew, SameShape, SameEval
      <3> QED BY <3>4
    <2>4. Len(mods) <= Len(mods')
      BY <1>2, <1>11
    <2>5. m \in 1..Len(mods)
      BY DEF m
    <2> QED BY ONLY <1>9, <2>1, <2>2, <2>3, <2>4, <2>5 DEF QuietMods, SameShape, Fresh
  <1>13. Grows(mods, mods')
    BY <1>12, SMTT(30) DEF QuietMods, Grows, Fresh, Begun, SameShape
  <1>14. Touches(world, mods, mods', stk)
    <2>1. Works(c, m)
      BY <1>c DEF Works, m
    <2>2. c.op \in Base
      BY DEF Resolvers, Base
    <2>3. ms[m].name \in NeedsOf(world, c.n)
      BY <1>2, <2>1, <2>2 DEF CallNeeds, m
    <2>4. mods[m].name \in NeedsOf(world, stk[Len(stk)].n)
      BY <2>3 DEF SameShape, Top, m
    <2>5. ASSUME NEW x \in 1..Len(mods), x # m PROVE SameShape(mods[x], mods'[x])
      <3>1. x \in 1..Len(ms) /\ SameShape(mods[x], ms[x])
        BY <1>2
      <3> QED BY ONLY <1>11, <2>5, <3>1 DEF SameShape
    <2> QED BY <2>4, <2>5 DEF Touches
  <1>15. ASSUME NEW x \in 1..Len(mods'), mods'[x].status \in {"linking", "evaluating"}
         PROVE  x \in 1..Len(mods) /\ mods[x].status = mods'[x].status
    BY <1>11, <1>15
  <1>16. CallIn(mods', c2)
    <2>1. c2.list = c.list /\ c2.d = c.d /\ c2.body = c.body /\ c.body = 0 /\ c.list = <<>>
      BY <1>a, <1>b DEF Advances, SameHead, ResolveOK
    <2>2. \A k \in 1..Len(c2.path) : c2.path[k].d \in 1..Len(mods') /\ c2.path[k].i # 0
      <3>1. SUFFICES ASSUME NEW k \in 1..Len(c2.path) PROVE c2.path[k].d \in 1..Len(mods') /\ c2.path[k].i # 0
        OBVIOUS
      <3>2. k \in 1..Len(c.path) /\ c2.path[k].d = c.path[k].d
            /\ (c2.path[k].i = c.path[k].i \/ c2.path[k].i = c.path[k].i + 1)
        BY ONLY <1>b, <1>c, <3>1, k \in 1..Len(c2.path) DEF Advances
      <3>3. c.path[k].d \in 1..Len(ms) /\ c.path[k].i # 0 /\ c.path[k].i \in Nat
        BY ONLY <1>a, <1>c, <3>2 DEF CallIn
      <3> QED BY ONLY <3>2, <3>3, <1>11, SMTT(30)
    <2>3. c2.d \in 0..Len(mods') /\ 0 \in 0..Len(mods')
      BY <1>a, <1>2, <1>11, <2>1 DEF CallIn
    <2>4. \A k \in 1..Len(c2.list) : c2.list[k] \in 1..Len(mods')
      BY <2>1
    <2> QED BY <2>1, <2>2, <2>3, <2>4 DEF CallIn
  <1>17. ResolveOK(world, mods', c2)
    <2>1. /\ c2.body = 0 /\ c2.list = <<>> /\ c2.i = 0 /\ c2.loads = 0 /\ c2.op = c.op /\ c2.n = c.n
          /\ Len(c2.path) = Len(c.path)
      BY <1>a, <1>b DEF Advances, SameHead, ResolveOK
    <2>2. c2.path # <<>>
      BY <1>c, <2>1
    <2>3. \A k \in 1..Len(c2.path) : c2.path[k].d = c.path[k].d /\ c.path[k].d \in 1..Len(ms)
      BY <1>a, <1>b, <2>1, SMTT(30) DEF Advances, CallIn
    <2>4. \A k \in 1..Len(c2.path) : mods'[c2.path[k].d].status = "unlinked"
      BY <1>a, <1>11, <2>1, <2>3 DEF ResolveOK
    <2>5. ASSUME NEW k \in 1..Len(c2.path), k < Len(c2.path)
          PROVE  Wants(world, mods', c2.path[k], mods'[c2.path[k + 1].d].name)
      <3>1. k \in 1..Len(c.path) /\ k < Len(c.path) /\ k + 1 \in 1..Len(c2.path) /\ k # Len(c.path)
        BY <1>c, <2>1, <2>5
      <3>2. Wants(world, ms, c.path[k], ms[c.path[k + 1].d].name)
        BY <1>a, <3>1 DEF ResolveOK
      <3>3. c2.path[k].i = c.path[k].i
        BY <1>b, <3>1 DEF Advances
      <3>4. mods'[c2.path[k].d].name = ms[c.path[k].d].name
            /\ mods'[c2.path[k + 1].d].name = ms[c.path[k + 1].d].name
        BY <1>11, <2>3, <3>1, ZenonT(60)
      <3> QED BY <3>2, <3>3, <3>4 DEF Wants
    <2>6. mods'[c2.path[1].d].name = c2.n
      <3>1. 1 \in 1..Len(c2.path)
        BY <1>c, <2>1
      <3> QED BY <1>a, <1>11, <2>1, <2>3, <3>1 DEF ResolveOK
    <2> QED BY ONLY <2>1, <2>2, <2>4, <2>5, <2>6 DEF ResolveOK
  <1>18. c2.op = c.op /\ c2.n = c.n
    BY <1>b DEF Advances, SameHead
  <1>19. CallOK(world, mods', c2) /\ c2.op \in Base /\ ~Loud(c2)
    <2>1. c2.op \in Base /\ c2.op \notin {"js_link_module", "js_evaluate_module", "fulfilled", "bodyResumes"}
      BY <1>18 DEF Resolvers, Base
    <2> QED BY ONLY <1>16, <1>17, <2>1 DEF CallOK, Loud
  <1>20. CallNeeds(world, mods', c2)
    <2>1. c2.list = c.list /\ c2.body = c.body /\ Len(c2.path) = Len(c.path)
          /\ \A k \in 1..Len(c.path) : c2.path[k].d = c.path[k].d
      BY <1>b DEF Advances
    <2>2. \A x : Works(c2, x) => Works(c, x)
      BY ONLY <2>1 DEF Works
    <2> QED BY ONLY <1>11, <1>18, <2>2, CallNeeds(world, ms, c) DEF CallNeeds
  <1>21. c2 \in CallRec /\ c2.n = Top.n /\ stk' = WithTop(c2) /\ loaded' \subseteq 1..Len(mods')
    BY <1>b, <1>11, <1>18 DEF c2
  <1> QED BY ONLY ShapeInv, stk # <<>>, Top.op \in Resolvers, <1>3, <1>8, <1>12, <1>13, <1>14, <1>15, <1>19, <1>20,
                  <1>21, UNCHANGED <<world, jobs, awaiting, clock>>, LoadTop

(* ... or to the call, which goes on to link it.                           *)
LEMMA DeliverCalls ==
    ASSUME ShapeInv, stk # <<>>, Top.op \in Resolvers,
           NEW ms \in Seq(ModRec), QuietMods(mods, ms), Grows(mods, ms),
           LinksOK(world, ms), ParentsIn(ms), RootsOK(ms),
           \A x \in 1..Len(mods) : SameShape(mods[x], ms[x]),
           \A x \in 1..Len(ms) : ms[x].status \in {"linking", "evaluating"} =>
              x \in 1..Len(mods) /\ mods[x].status = ms[x].status,
           NEW n \in Names, n = Top.n, NEW d \in 1..Len(ms), ms[d].name = n,
           mods' = [ms EXCEPT ![d].resolved = TRUE] \/ mods' = ms,
           stk' = WithTop(Call("js_link_module", n, d)), loaded' \subseteq 1..Len(ms),
           UNCHANGED <<world, jobs, awaiting, clock>>
    PROVE  ShapeInv' /\ QuietStep
  <1> DEFINE c == Call("js_link_module", n, d)
  <1>1. mods' \in Seq(ModRec) /\ Len(mods') = Len(ms) /\ \A x \in 1..Len(ms) : SameMod(ms[x], mods'[x])
    <2>1. CASE mods' = ms
      BY <2>1 DEF SameMod, SameShape, SameEval
    <2>2. CASE mods' = [ms EXCEPT ![d].resolved = TRUE]
      BY <2>2, ResolvesIs DEF OthersSame
    <2> QED BY <2>1, <2>2
  <1>2. Len(ms) \in Nat /\ Len(mods) \in Nat /\ Len(mods) <= Len(ms)
    BY ShapeIs, ModIs DEF Grows
  <1>3. Grows(ms, mods')
    BY <1>1, <1>2 DEF Grows, SameMod, SameShape
  <1>4. LinksOK(world, mods') /\ ParentsIn(mods') /\ RootsOK(mods')
    BY <1>1, <1>3, RefsSame DEF SameMod, SameShape, SameEval
  <1>5. \A x \in 1..Len(mods) : x \in 1..Len(ms) /\ SameShape(mods[x], mods'[x]) /\ SameEval(mods[x], mods'[x])
    <2>1. \A x \in 1..Len(mods) : x \in 1..Len(ms) /\ SameShape(mods[x], ms[x]) /\ SameEval(mods[x], ms[x])
      BY <1>2 DEF QuietMods
    <2> QED BY ONLY <1>1, <2>1 DEF SameMod, SameShape, SameEval
  <1>6. \A x \in 1..Len(mods') : x \in 1..Len(mods) \/ \E k \in Names : IsNew(mods'[x], k)
    <2>1. SUFFICES ASSUME NEW x \in 1..Len(mods'), x \notin 1..Len(mods)
                   PROVE  \E k \in Names : IsNew(mods'[x], k)
      OBVIOUS
    <2>2. PICK k \in Names : IsNew(ms[x], k)
      BY <1>1, <2>1 DEF QuietMods
    <2>3. IsNew(mods'[x], k)
      BY <1>1, <2>2 DEF IsNew, SameMod, SameShape, SameEval
    <2> QED BY <2>3
  <1>7. QuietMods(mods, mods')
    BY ONLY <1>1, <1>2, <1>5, <1>6 DEF QuietMods, SameShape
  <1>8. Grows(mods, mods') /\ Touches(world, mods, mods', stk)
    BY ONLY <1>1, <1>2, <1>5 DEF Grows, SameShape, Touches
  <1>9. ASSUME NEW x \in 1..Len(mods'), mods'[x].status \in {"linking", "evaluating"}
        PROVE  x \in 1..Len(mods) /\ mods[x].status = mods'[x].status
    BY <1>1, <1>9 DEF SameMod, SameShape
  <1>10. "js_link_module" \in Base /\ "js_link_module" \in Ops /\ d \in 0..Len(mods') /\ d # 0 /\ d \in Nat
         /\ mods'[d].name = n
    BY <1>1, <1>2 DEF Base, Ops, SameMod, SameShape
  <1>11. c \in CallRec /\ c.n = n /\ c.op = "js_link_module"
    BY <1>10, CallNew
  <1>12. CallOK(world, mods', c) /\ CallNeeds(world, mods', c) /\ ~Loud(c)
    BY <1>1, <1>10, ShapeIs, CallIdle
  <1>13. stk' = WithTop(c) /\ c.n = Top.n /\ c.op \in Base /\ loaded' \subseteq 1..Len(mods')
    BY <1>1, <1>10, <1>11
  <1> HIDE DEF c
  <1> QED BY ONLY ShapeInv, stk # <<>>, Top.op \in Resolvers, <1>1, <1>4, <1>7, <1>8, <1>9, <1>11, <1>12, <1>13,
                  UNCHANGED <<world, jobs, awaiting, clock>>, LoadTop

(* The name that the innermost call wants.                                 *)
Wanted(w, ms, c, n) == (c.path = <<>> => n = c.n) /\ (c.path # <<>> => Wants(w, ms, Last(c.path), n))

(* What is wanted is needed.                                               *)
LEMMA WantedNeeds ==
    ASSUME NEW w \in Worlds, NEW ms \in Seq(ModRec), NEW c \in CallRec, c.op \in Resolvers,
           CallOK(w, ms, c), CallNeeds(w, ms, c), NEW n, Wanted(w, ms, c, n)
    PROVE  n \in Names /\ n \in NeedsOf(w, c.n) /\ c.n \in Names
  <1>1. c.op \in Base /\ CallIn(ms, c)
    BY DEF Resolvers, Base, CallOK
  <1>2. c.n \in Names
    BY <1>1 DEF CallNeeds
  <1>3. CASE c.path = <<>>
    BY <1>2, <1>3, NeedsIs DEF Wanted
  <1>4. CASE c.path # <<>>
    <2> DEFINE p == Last(c.path)
    <2>1. Len(c.path) \in 1..Len(c.path) /\ p = c.path[Len(c.path)] /\ p.i \in Nat
      BY <1>4, CallFields
    <2>2. p.d \in 1..Len(ms) /\ p.i # 0 /\ Works(c, p.d)
      BY <1>1, <2>1 DEF CallIn, Works
    <2>3. ms[p.d].name \in NeedsOf(w, c.n) /\ ms[p.d].name \in Names
      BY <1>1, <2>2, ModIs DEF CallNeeds
    <2>4. w.imports[ms[p.d].name] \in Seq(Names)
      BY <2>3, WorldsAssumption DEF WorldType
    <2>5. p.i <= Len(w.imports[ms[p.d].name]) /\ n = w.imports[ms[p.d].name][p.i]
      BY <1>4, SMTT(30) DEF Wanted, Wants
    <2> HIDE DEF p
    <2>6. p.i \in 1..Len(w.imports[ms[p.d].name])
      BY ONLY <2>1, <2>2, <2>4, <2>5, LenProperties
    <2>7. n \in ToSet(w.imports[ms[p.d].name])
      BY ONLY <2>4, <2>5, <2>6, ToSetHas DEF Has
    <2> QED BY <1>2, <2>3, <2>7, NeedsIs
  <1> QED BY <1>3, <1>4

(* What js_host_resolve_imported_module is called for.                     *)
LEMMA RequestedIs ==
    ASSUME ShapeInv, Requested # 0
    PROVE  /\ stk # <<>> /\ Top.op \in Resolvers /\ Top.loads = 0
           /\ Wanted(world, mods, Top, Requested) /\ Requested \in Names /\ Requested \in NeedsOf(world, Top.n)
  <1>1. Resolving /\ (Top.path # <<>> => Cur.i <= Len(Imports(Cur.d)))
        /\ Requested = IF Top.path = <<>> THEN Top.n ELSE Imports(Cur.d)[Cur.i]
    BY DEF Requested
  <1>2. stk # <<>> /\ Top.op \in Resolvers /\ Top.loads = 0
    BY <1>1 DEF Resolving, Is, Resolvers
  <1>3. Top \in CallRec /\ CallOK(world, mods, Top) /\ CallNeeds(world, mods, Top)
    BY <1>2, TopIs
  <1>4. Top.path # <<>> => Cur = Last(Top.path)
    BY <1>3, CallFields DEF Cur
  <1>5. Wanted(world, mods, Top, Requested)
    BY <1>1, <1>4 DEF Wanted, Wants, Imports
  <1> QED BY <1>2, <1>3, <1>5, ShapeIs, WantedNeeds

(* What js_find_loaded_module finds has that name.                         *)
LEMMA FoundIs ==
    ASSUME ShapeInv, NEW n, js_find_loaded_module(n) # 0
    PROVE  js_find_loaded_module(n) \in 1..Len(mods) /\ mods[js_find_loaded_module(n)].name = n
  <1> DEFINE found == {d \in loaded : mods[d].name = n}
  <1>1. found # {} /\ js_find_loaded_module(n) = CHOOSE d \in found : \A e \in found : d <= e
    BY DEF js_find_loaded_module
  <1>2. found \in SUBSET Nat
    BY ShapeIs
  <1>3. \E d \in found : \A e \in found : d <= e
    BY <1>1, <1>2, SmallestNatural
  <1>4. js_find_loaded_module(n) \in found
    BY <1>1, <1>3
  <1> QED BY <1>4, ShapeIs

(* The innermost call, which resolves, is delivered a module.              *)
LEMMA DeliverShape ==
    ASSUME ShapeInv, stk # <<>>, Top.op \in Resolvers,
           NEW ms \in Seq(ModRec), QuietMods(mods, ms), Grows(mods, ms),
           LinksOK(world, ms), ParentsIn(ms), RootsOK(ms),
           \A x \in 1..Len(mods) : SameShape(mods[x], ms[x]),
           \A x \in 1..Len(ms) : ms[x].status \in {"linking", "evaluating"} =>
              x \in 1..Len(mods) /\ mods[x].status = ms[x].status,
           NEW c \in CallRec, c.op = Top.op, c.n = Top.n, CallOK(world, ms, c), CallNeeds(world, ms, c),
           c.loads = 0, NEW d \in 1..Len(ms), c.path # <<>> => Last(c.path).d \in 1..Len(mods),
           Wanted(world, ms, c, ms[d].name), Deliver(d, ms, c), loaded' \subseteq 1..Len(ms),
           UNCHANGED <<world, jobs, awaiting, clock>>
    PROVE  ShapeInv' /\ QuietStep
  <1>1. CASE c.path # <<>>
    <2>1. mods' = Delivers(ms, d, c.path[Len(c.path)].d) /\ stk' = WithTop(Advance(c))
      BY <1>1 DEF Deliver, Delivers
    <2>2. c.path[Len(c.path)] = Last(c.path)
      BY <1>1, CallFields
    <2>3. mods' = Delivers(ms, d, Last(c.path).d)
      BY <2>1, <2>2
    <2>4. Last(c.path).d \in 1..Len(mods) /\ Wants(world, ms, Last(c.path), ms[d].name)
      BY <1>1 DEF Wanted
    <2> QED BY <1>1, <2>1, <2>3, <2>4, DeliverLinks, SMTT(30)
  <1>2. CASE c.path = <<>>
    <2>1. mods' = [ms EXCEPT ![d].resolved = TRUE] /\ stk' = WithTop(Call("js_link_module", c.n, d))
      BY <1>2 DEF Deliver
    <2>2. ms[d].name = c.n
      BY <1>2 DEF Wanted
    <2>3. c.n \in Names
      BY <2>2, ModIs
    <2> QED BY <2>1, <2>2, <2>3, DeliverCalls
  <1> QED BY <1>1, <1>2

(* The premises of DeliverShape when no module is made.                    *)
LEMMA NothingMade ==
    ASSUME ShapeInv
    PROVE  /\ mods \in Seq(ModRec) /\ QuietMods(mods, mods) /\ Grows(mods, mods)
           /\ LinksOK(world, mods) /\ ParentsIn(mods) /\ RootsOK(mods)
           /\ \A x \in 1..Len(mods) : SameShape(mods[x], mods[x])
           /\ \A x \in 1..Len(mods) : mods[x].status \in {"linking", "evaluating"} =>
                 x \in 1..Len(mods) /\ mods[x].status = mods[x].status
           /\ loaded \subseteq 1..Len(mods)
  BY ShapeIs, NothingQuiet

(* ImportFound keeps the shape.                                            *)
LEMMA ImportFoundShape ==
    ASSUME ShapeInv, ImportFound
    PROVE  ShapeInv' /\ QuietStep
  <1> DEFINE d == js_find_loaded_module(Requested)
  <1>1. Requested # 0 /\ d # 0 /\ Deliver(d, mods, Top) /\ UNCHANGED <<world, loaded, jobs, awaiting, clock>>
    BY DEF ImportFound
  <1>2. stk # <<>> /\ Top.op \in Resolvers /\ Top.loads = 0 /\ Wanted(world, mods, Top, Requested)
    BY <1>1, RequestedIs
  <1>3. d \in 1..Len(mods) /\ mods[d].name = Requested
    BY <1>1, FoundIs
  <1>4. Top \in CallRec /\ CallOK(world, mods, Top) /\ CallNeeds(world, mods, Top) /\ CallIn(mods, Top)
    BY <1>2, TopIs
  <1>5. Top.path # <<>> => Last(Top.path).d \in 1..Len(mods)
    BY <1>4, CallFields DEF CallIn
  <1> HIDE DEF d
  <1> QED BY ONLY ShapeInv, <1>1, <1>2, <1>3, <1>4, <1>5, NothingMade, DeliverShape

(* A call that only runs the loader, or no longer does.                    *)
WithLoads(c, n) == [c EXCEPT !.loads = n]

(* Starting or ending the loader keeps the call in shape.                  *)
LEMMA LoadsIs ==
    ASSUME NEW w \in Worlds, NEW ms \in Seq(ModRec), NEW c \in CallRec, c.op \in Resolvers,
           CallOK(w, ms, c), CallNeeds(w, ms, c), NEW n, n = 0 \/ Wanted(w, ms, c, n),
           NEW c2, c2 = WithLoads(c, n)
    PROVE  /\ c2 \in CallRec /\ CallOK(w, ms, c2) /\ CallNeeds(w, ms, c2)
           /\ c2.op = c.op /\ c2.n = c.n /\ c2.loads = n /\ c2.path = c.path /\ c2.list = c.list
           /\ c2.body = c.body
  <1>1. n \in Names \cup {0}
    BY WantedNeeds
  <1>2. c2 \in CallRec /\ c2.op = c.op /\ c2.n = c.n /\ c2.d = c.d /\ c2.i = c.i /\ c2.list = c.list
        /\ c2.path = c.path /\ c2.loads = n /\ c2.body = c.body
    BY ONLY <1>1, c \in CallRec, c2 = WithLoads(c, n) DEF CallRec, WithLoads
  <1>3. CallIn(ms, c) /\ ResolveOK(w, ms, c)
    BY DEF CallOK
  <1>4. CallIn(ms, c2)
    BY ONLY <1>2, <1>3 DEF CallIn
  <1>5. ResolveOK(w, ms, c2)
    BY ONLY <1>2, <1>3, n = 0 \/ Wanted(w, ms, c, n) DEF ResolveOK, Wanted
  <1>6. c2.op \notin {"js_link_module", "js_evaluate_module", "fulfilled", "bodyResumes"}
    BY <1>2 DEF Resolvers
  <1>7. CallOK(w, ms, c2)
    BY ONLY <1>4, <1>5, <1>6 DEF CallOK
  <1>8. CallNeeds(w, ms, c2)
    BY ONLY <1>2, CallNeeds(w, ms, c) DEF CallNeeds, Works
  <1> QED BY <1>2, <1>7, <1>8

(* ImportCallsLoader keeps the shape.                                      *)
LEMMA ImportCallsLoaderShape ==
    ASSUME ShapeInv, ImportCallsLoader
    PROVE  ShapeInv' /\ QuietStep
  <1> DEFINE c == WithLoads(Top, Requested)
  <1>1. Requested # 0 /\ stk' = WithTop(c) /\ UNCHANGED <<world, mods, loaded, jobs, awaiting, clock>>
    BY DEF ImportCallsLoader, WithLoads
  <1>2. stk # <<>> /\ Top.op \in Resolvers /\ Wanted(world, mods, Top, Requested)
    BY <1>1, RequestedIs
  <1>3. Top \in CallRec /\ CallOK(world, mods, Top) /\ CallNeeds(world, mods, Top)
    BY <1>2, TopIs
  <1>4. c = WithLoads(Top, Requested)
    OBVIOUS
  <1> HIDE DEF c
  <1>5. /\ c \in CallRec /\ CallOK(world, mods, c) /\ CallNeeds(world, mods, c)
        /\ c.op = Top.op /\ c.n = Top.n
    BY ONLY <1>2, <1>3, <1>4, ShapeInv, ShapeIs, LoadsIs
  <1>6. c.op \in Base /\ ~Loud(c)
    BY <1>2, <1>5 DEF Resolvers, Base, Loud
  <1>7. Touches(world, mods, mods', stk)
    BY <1>1 DEF Touches, SameShape
  <1>8. /\ mods' \in Seq(ModRec) /\ QuietMods(mods, mods') /\ Grows(mods, mods')
        /\ LinksOK(world, mods') /\ ParentsIn(mods') /\ RootsOK(mods') /\ loaded' \subseteq 1..Len(mods')
        /\ \A x \in 1..Len(mods') : mods'[x].status \in {"linking", "evaluating"} =>
              x \in 1..Len(mods) /\ mods[x].status = mods'[x].status
        /\ CallOK(world, mods', c) /\ CallNeeds(world, mods', c)
    BY <1>1, <1>5, NothingMade
  <1> QED BY ONLY ShapeInv, <1>1, <1>2, <1>5, <1>6, <1>7, <1>8, LoadTop

(* What the loader runs for is wanted.                                     *)
LEMMA LoadsRun ==
    ASSUME ShapeInv, Loads
    PROVE  stk # <<>> /\ Top.op \in Resolvers /\ Wanted(world, mods, Top, Top.loads) /\ Top.loads # 0
           /\ Top.loads \in Names /\ Top.loads \in NeedsOf(world, Top.n)
  <1>1. stk # <<>> /\ Top.loads # 0
    BY DEF Loads
  <1>2. Top \in CallRec /\ CallOK(world, mods, Top) /\ CallNeeds(world, mods, Top)
    BY <1>1, TopIs
  <1>3. Top.op \in Ops
    BY <1>2, CallFields
  <1>4. Top.op \in Resolvers
    BY <1>1, <1>2, <1>3 DEF CallOK, LinkOK, EvalOK, WalkOK, Ops, Base, Resolvers
  <1>5. Wanted(world, mods, Top, Top.loads)
    BY <1>1, <1>2, <1>4 DEF CallOK, ResolveOK, Wanted
  <1> QED BY <1>1, <1>2, <1>4, <1>5, ShapeIs, WantedNeeds

(* A load that fails keeps the shape.                                      *)
LEMMA AbandonLoadShape ==
    ASSUME ShapeInv, normalizerThrows \/ loaderFails
    PROVE  ShapeInv' /\ QuietStep
  <1>1. stk # <<>> /\ Top.op \in Resolvers
    BY RequestedIs, LoadsRun DEF normalizerThrows, loaderFails
  <1>2. stk' = Pop /\ loaded' \subseteq loaded /\ UNCHANGED <<world, mods, jobs, awaiting, clock>>
    BY DEF normalizerThrows, loaderFails, AbandonLoad
  <1> QED BY <1>1, <1>2, LoadPop

(* The loader has returned source: the module that was wanted is resolved. *)
WithWanted(c, d) == [c EXCEPT !.loads = 0, !.path = Append(@, At(d, 1))]

(* The module that the loader's source made is on the path.                *)
LEMMA CallWants ==
    ASSUME NEW w \in Worlds, NEW ms \in Seq(ModRec), NEW ms2 \in Seq(ModRec), NEW c \in CallRec, c.op \in Resolvers,
           CallOK(w, ms, c), CallNeeds(w, ms, c), NEW n, Wanted(w, ms, c, n),
           Makes(ms, ms2, n), NEW d, d = Len(ms) + 1,
           NEW c2, c2 = WithWanted(c, d)
    PROVE  c2 \in CallRec /\ CallOK(w, ms2, c2) /\ CallNeeds(w, ms2, c2) /\ c2.op = c.op /\ c2.n = c.n
  <1> DEFINE p == c.path
             q == Append(p, At(d, 1))
             l == Len(p)
  <1>1. Len(ms) \in Nat /\ d \in Nat /\ Len(ms2) = d /\ d \in 1..Len(ms2) /\ d # 0
        /\ \A x \in 1..Len(ms) : x \in 1..Len(ms2)
    BY ModIs DEF Makes
  <1>2. ms2[d].name = n /\ ms2[d].status = "unlinked" /\ \A x \in 1..Len(ms) : SameShape(ms[x], ms2[x])
    BY <1>1 DEF Makes, IsNew, OthersSame, SameMod
  <1>3. At(d, 1) \in Point /\ At(d, 1).d = d /\ At(d, 1).i = 1 /\ p \in Seq(Point)
    BY <1>1, CallFields DEF At, Point
  <1>4. /\ q \in Seq(Point) /\ l \in Nat /\ Len(q) = l + 1 /\ (\A k \in 1..l : k \in 1..(l + 1) /\ q[k] = p[k])
        /\ q[l + 1] = At(d, 1) /\ \A k \in 1..(l + 1) : k \in 1..l \/ k = l + 1
    BY ONLY <1>3, AppendIs
  <1>5. c2 = [c EXCEPT !.loads = 0, !.path = q] /\ l = Len(p)
    BY DEF WithWanted
  <1>6. p = c.path /\ (p = <<>> <=> l = 0) /\ (p # <<>> => Last(p) = p[l])
    BY <1>3, EmptySeq DEF Last
  <1> HIDE DEF p, q, l
  <1>7. c2 \in CallRec /\ c2.op = c.op /\ c2.n = c.n /\ c2.d = c.d /\ c2.i = c.i /\ c2.list = c.list
        /\ c2.path = q /\ c2.loads = 0 /\ c2.body = c.body
    BY ONLY <1>4, <1>5, c \in CallRec DEF CallRec
  <1>8. CallIn(ms, c) /\ ResolveOK(w, ms, c)
    BY DEF CallOK
  <1>9. \A k \in 1..l : p[k].d \in 1..Len(ms) /\ p[k].i # 0 /\ ms2[p[k].d].name = ms[p[k].d].name
                        /\ ms2[p[k].d].status = "unlinked"
    BY <1>2, <1>5, <1>6, <1>8, ZenonT(60) DEF CallIn, ResolveOK, SameShape
  <1>10. CallIn(ms2, c2)
    <2>1. c.body = 0 /\ c.list = <<>> /\ c.d \in 0..Len(ms)
      BY <1>8 DEF ResolveOK, CallIn
    <2>2. c2.d \in 0..Len(ms2) /\ c2.body \in 0..Len(ms2) /\ c2.body = 0
      BY <1>1, <1>7, <2>1
    <2>3. \A k \in 1..Len(c2.list) : FALSE
      BY <1>7, <2>1
    <2>4. \A k \in 1..Len(c2.path) : c2.path[k].d \in 1..Len(ms2) /\ c2.path[k].i # 0
      BY ONLY <1>1, <1>3, <1>4, <1>7, <1>9, SMTT(30)
    <2> QED BY ONLY <2>2, <2>3, <2>4 DEF CallIn
  <1>11. ResolveOK(w, ms2, c2)
    <2>1. c2.body = 0 /\ c2.list = <<>> /\ c2.i = 0 /\ c2.path # <<>>
      BY <1>4, <1>7, <1>8 DEF ResolveOK
    <2>2. \A k \in 1..Len(c2.path) : ms2[c2.path[k].d].status = "unlinked"
      <3>1. \A k \in 1..l : ms2[q[k].d].status = "unlinked"
        BY ONLY <1>4, <1>9
      <3>2. ms2[q[l + 1].d].status = "unlinked"
        BY ONLY <1>2, <1>3, <1>4
      <3>3. \A k \in 1..(l + 1) : ms2[q[k].d].status = "unlinked"
        BY ONLY <1>4, <3>1, <3>2
      <3> QED BY ONLY <1>4, <1>7, <3>3
    <2>3. ASSUME NEW k \in 1..Len(c2.path), k < Len(c2.path)
          PROVE  Wants(w, ms2, c2.path[k], ms2[c2.path[k + 1].d].name)
      <3>1. k \in 1..l /\ c2.path[k] = p[k]
        BY <1>4, <1>7, <2>3, SMTT(30)
      <3>2. CASE k = l
        <4>1. ms2[c2.path[k + 1].d].name = n
          BY <1>2, <1>3, <1>4, <1>7, <3>2
        <4>2. p # <<>> /\ Last(p) = p[k]
          BY <1>4, <1>6, <3>1, <3>2
        <4>3. Wants(w, ms, p[k], n)
          BY <1>6, <4>2, SMTT(30) DEF Wanted
        <4> QED BY <1>9, <3>1, <4>1, <4>3 DEF Wants
      <3>3. CASE k # l
        <4>1. k < Len(c.path) /\ k \in 1..Len(c.path) /\ k + 1 \in 1..l
          BY <1>4, <1>5, <1>6, <3>1, <3>3, SMTT(30)
        <4>2. Wants(w, ms, p[k], ms[p[k + 1].d].name)
          BY <1>6, <1>8, <4>1 DEF ResolveOK
        <4>3. ms2[c2.path[k + 1].d].name = ms[p[k + 1].d].name
          BY <1>4, <1>7, <1>9, <4>1
        <4> QED BY <1>9, <3>1, <4>2, <4>3 DEF Wants
      <3> QED BY <3>2, <3>3
    <2>4. ms2[c2.path[1].d].name = c2.n
      <3>1. CASE l = 0
        BY <1>2, <1>3, <1>4, <1>6, <1>7, <3>1 DEF Wanted
      <3>2. CASE l # 0
        <4>1. 1 \in 1..l
          BY <1>4, <3>2
        <4> QED BY <1>4, <1>6, <1>7, <1>8, <1>9, <3>2, <4>1, SMTT(30) DEF ResolveOK
      <3> QED BY <3>1, <3>2
    <2> QED BY ONLY <1>7, <2>1, <2>2, <2>3, <2>4 DEF ResolveOK
  <1>12. c2.op \notin {"js_link_module", "js_evaluate_module", "fulfilled", "bodyResumes"}
    BY <1>7 DEF Resolvers
  <1>13. CallOK(w, ms2, c2)
    BY ONLY <1>10, <1>11, <1>12 DEF CallOK
  <1>14. CallNeeds(w, ms2, c2)
    <2>1. n \in NeedsOf(w, c.n) /\ c.n \in Names
      BY WantedNeeds
    <2>2. c.op \in Base
      BY DEF Resolvers, Base
    <2>3. ASSUME NEW x \in 1..Len(ms2), Works(c2, x) PROVE ms2[x].name \in NeedsOf(w, c2.n)
      <3>1. Works(c, x) \/ x = d
        BY ONLY <1>3, <1>4, <1>6, <1>7, <1>5, <2>3, SMTT(30) DEF Works
      <3>2. ASSUME Works(c, x) PROVE x \in 1..Len(ms) /\ ms[x].name \in NeedsOf(w, c.n)
        BY <2>2, <3>2, WorksIn DEF CallNeeds
      <3> QED BY <1>2, <1>7, <2>1, <3>1, <3>2 DEF SameShape
    <2> QED BY <1>7, <2>1, <2>3 DEF CallNeeds
  <1> QED BY <1>7, <1>13, <1>14

(* loaderReturnsSource keeps the shape.                                    *)
LEMMA loaderReturnsSourceShape ==
    ASSUME ShapeInv, loaderReturnsSource
    PROVE  ShapeInv' /\ QuietStep
  <1> DEFINE d == Len(mods) + 1
             n == Top.loads
             c == WithWanted(Top, d)
  <1>1. Loads /\ mods' = Append(mods, [js_new_module_def(n) EXCEPT !.resolved = TRUE])
        /\ loaded' = loaded \cup {d} /\ stk' = WithTop(c) /\ UNCHANGED <<world, jobs, awaiting, clock>>
    BY DEF loaderReturnsSource, WithWanted
  <1>2. stk # <<>> /\ Top.op \in Resolvers /\ Wanted(world, mods, Top, n) /\ n \in Names
    BY <1>1, LoadsRun
  <1>3. c = WithWanted(Top, d) /\ d = Len(mods) + 1
    OBVIOUS
  <1> HIDE DEF c, d, n
  <1>4. mods' \in Seq(ModRec) /\ Makes(mods, mods', n)
    BY ONLY <1>1, <1>2, ShapeIs, ShapeInv, MakesIs
  <1>5. LinksOK(world, mods') /\ ParentsIn(mods') /\ RootsOK(mods') /\ Grows(mods, mods')
    BY ONLY <1>4, ShapeInv, ShapeIs, MakesRefs
  <1>6. /\ QuietMods(mods, mods') /\ \A x \in 1..Len(mods) : SameShape(mods[x], mods'[x])
        /\ d \in 1..Len(mods')
        /\ \A x \in 1..Len(mods') : mods'[x].status \in {"linking", "evaluating"} =>
              x \in 1..Len(mods) /\ mods[x].status = mods'[x].status
    BY ONLY <1>2, <1>3, <1>4, ShapeInv, ShapeIs, MakesQuiet
  <1>7. Touches(world, mods, mods', stk)
    BY <1>6 DEF Touches
  <1>8. Top \in CallRec /\ CallOK(world, mods, Top) /\ CallNeeds(world, mods, Top)
    BY <1>2, TopIs
  <1>9. c \in CallRec /\ CallOK(world, mods', c) /\ CallNeeds(world, mods', c) /\ c.op = Top.op /\ c.n = Top.n
    BY ONLY <1>2, <1>3, <1>4, <1>8, ShapeInv, ShapeIs, CallWants
  <1>10. c.op \in Base /\ ~Loud(c)
    BY <1>2, <1>9 DEF Resolvers, Base, Loud
  <1>11. loaded' \subseteq 1..Len(mods')
    BY <1>1, <1>5, <1>6, ShapeIs DEF Grows
  <1> QED BY ONLY ShapeInv, <1>1, <1>2, <1>4, <1>5, <1>6, <1>7, <1>9, <1>10, <1>11, LoadTop

(* A call that works on what it did before.                                *)
LEMMA CallGrows ==
    ASSUME NEW w \in Worlds, NEW ms \in Seq(ModRec), NEW ms2 \in Seq(ModRec), NEW c \in CallRec, c.op \in Resolvers,
           CallOK(w, ms, c), CallNeeds(w, ms, c), NEW n \in Names, Makes(ms, ms2, n)
    PROVE  CallOK(w, ms2, c) /\ CallNeeds(w, ms2, c)
  <1>1. Len(ms) \in Nat /\ Len(ms2) = Len(ms) + 1 /\ \A x \in 1..Len(ms) : x \in 1..Len(ms2)
    BY ModIs DEF Makes
  <1>2. \A x \in 1..Len(ms) : SameShape(ms[x], ms2[x])
    BY DEF Makes, OthersSame, SameMod
  <1>3. CallIn(ms, c) /\ ResolveOK(w, ms, c) /\ Len(c.path) \in Nat
        /\ (c.path # <<>> => Len(c.path) \in 1..Len(c.path) /\ Last(c.path) = c.path[Len(c.path)])
    BY CallFields DEF CallOK
  <1>4. \A k \in 1..Len(c.path) : c.path[k].d \in 1..Len(ms) /\ ms2[c.path[k].d].name = ms[c.path[k].d].name
                        /\ ms2[c.path[k].d].status = "unlinked"
    BY <1>2, <1>3 DEF CallIn, ResolveOK, SameShape
  <1>5. CallIn(ms2, c)
    <2>1. c.d \in 0..Len(ms2) /\ c.body \in 0..Len(ms2) /\ c.body = 0 /\ c.list = <<>>
      BY <1>1, <1>3 DEF CallIn, ResolveOK
    <2> QED BY <1>1, <1>3, <2>1 DEF CallIn
  <1>6. ResolveOK(w, ms2, c)
    <2>1. ASSUME NEW k \in 1..Len(c.path), k < Len(c.path)
          PROVE  Wants(w, ms2, c.path[k], ms2[c.path[k + 1].d].name)
      <3>1. k + 1 \in 1..Len(c.path)
        BY <1>3, <2>1
      <3>2. Wants(w, ms, c.path[k], ms[c.path[k + 1].d].name)
        BY <1>3, <2>1 DEF ResolveOK
      <3> QED BY <1>4, <3>1, <3>2 DEF Wants
    <2>2. c.path # <<>> => ms2[c.path[1].d].name = c.n
      <3>1. c.path # <<>> => 1 \in 1..Len(c.path)
        BY <1>3, SMTT(30)
      <3> QED BY <1>3, <1>4, <3>1 DEF ResolveOK
    <2>3. c.loads # 0 /\ c.path # <<>> => Wants(w, ms2, Last(c.path), c.loads)
      BY <1>3, <1>4 DEF ResolveOK, Wants
    <2> QED BY ONLY <1>3, <1>4, <2>1, <2>2, <2>3 DEF ResolveOK
  <1>7. c.op \notin {"js_link_module", "js_evaluate_module", "fulfilled", "bodyResumes"}
    BY DEF Resolvers
  <1>8. CallOK(w, ms2, c)
    BY ONLY <1>5, <1>6, <1>7 DEF CallOK
  <1>9. CallNeeds(w, ms2, c)
    BY <1>1, <1>2, WorksIn DEF CallNeeds, SameShape
  <1> QED BY <1>8, <1>9

(* loaderReturnsModule keeps the shape.                                    *)
LEMMA loaderReturnsModuleShape ==
    ASSUME ShapeInv, loaderReturnsModule
    PROVE  ShapeInv' /\ QuietStep
  <1> DEFINE n == Top.loads
             old == js_find_loaded_module(n)
             new == Len(mods) + 1
             c == WithLoads(Top, 0)
             ms == Append(mods, js_new_module_def(n))
  <1>1. Loads /\ UNCHANGED <<world, jobs, awaiting, clock>>
        /\ \/ old # 0 /\ Deliver(old, mods, c) /\ UNCHANGED loaded
           \/ old = 0 /\ Deliver(new, ms, c) /\ loaded' = loaded \cup {new}
    BY DEF loaderReturnsModule, WithLoads
  <1>2. stk # <<>> /\ Top.op \in Resolvers /\ Wanted(world, mods, Top, n) /\ n \in Names
    BY <1>1, LoadsRun
  <1>3. Top \in CallRec /\ CallOK(world, mods, Top) /\ CallNeeds(world, mods, Top) /\ CallIn(mods, Top)
    BY <1>2, TopIs
  <1>4. c = WithLoads(Top, 0) /\ ms = Append(mods, js_new_module_def(n)) /\ new = Len(mods) + 1
        /\ old = js_find_loaded_module(n)
    OBVIOUS
  <1> HIDE DEF c, ms, new, old, n
  <1>5. /\ c \in CallRec /\ CallOK(world, mods, c) /\ CallNeeds(world, mods, c)
        /\ c.op = Top.op /\ c.n = Top.n /\ c.loads = 0 /\ c.path = Top.path
    BY ONLY <1>2, <1>3, <1>4, ShapeInv, ShapeIs, LoadsIs
  <1>6. c.path # <<>> => Last(c.path).d \in 1..Len(mods)
    BY <1>3, <1>5, CallFields DEF CallIn
  <1>7. Wanted(world, mods, c, n)
    BY <1>2, <1>5 DEF Wanted
  <1>8. CASE old # 0
    <2>1. old \in 1..Len(mods) /\ mods[old].name = n
      BY <1>4, <1>8, FoundIs
    <2> QED BY ONLY ShapeInv, <1>1, <1>2, <1>5, <1>6, <1>7, <1>8, <2>1, NothingMade, DeliverShape
  <1>9. CASE old = 0
    <2>1. ms \in Seq(ModRec) /\ Makes(mods, ms, n)
      BY ONLY <1>2, <1>4, ShapeIs, ShapeInv, MakesIs
    <2>2. LinksOK(world, ms) /\ ParentsIn(ms) /\ RootsOK(ms) /\ Grows(mods, ms)
      BY ONLY <2>1, ShapeInv, ShapeIs, MakesRefs
    <2>3. /\ QuietMods(mods, ms) /\ (\A x \in 1..Len(mods) : SameShape(mods[x], ms[x]))
          /\ new \in 1..Len(ms) /\ ms[new].name = n
          /\ \A x \in 1..Len(ms) : ms[x].status \in {"linking", "evaluating"} =>
                x \in 1..Len(mods) /\ mods[x].status = ms[x].status
      BY ONLY <1>2, <1>4, <2>1, ShapeInv, ShapeIs, MakesQuiet
    <2>4. CallOK(world, ms, c) /\ CallNeeds(world, ms, c)
      BY ONLY <1>2, <1>5, <2>1, ShapeInv, ShapeIs, CallGrows
    <2>5. Wanted(world, ms, c, ms[new].name)
      BY <1>6, <1>7, <2>3 DEF Wanted, Wants, SameShape
    <2>6. loaded' \subseteq 1..Len(ms)
      BY <1>1, <1>9, <2>2, <2>3, ShapeIs DEF Grows
    <2> QED BY ONLY ShapeInv, <1>1, <1>2, <1>5, <1>6, <1>9, <2>1, <2>2, <2>3, <2>4, <2>5, <2>6, DeliverShape
  <1> QED BY <1>8, <1>9

(* The innermost module of a call is resolved.                             *)
WithFront(c) == [c EXCEPT !.path = Front(@)]

(* A module that has no more requests leaves the path.                     *)
LEMMA CallResolved ==
    ASSUME NEW w \in Worlds, NEW ms \in Seq(ModRec), NEW c \in CallRec, c.op \in Resolvers, c.path # <<>>,
           CallOK(w, ms, c), CallNeeds(w, ms, c), c.op # "loadModule" => Len(c.path) # 1, c.loads = 0,
           NEW c2, c2 = WithFront(c)
    PROVE  /\ c2 \in CallRec /\ CallOK(w, ms, c2) /\ CallNeeds(w, ms, c2) /\ c2.op = c.op /\ c2.n = c.n
           /\ c2.loads = 0 /\ Wanted(w, ms, c2, ms[Last(c.path).d].name)
           /\ Last(c.path).d \in 1..Len(ms) /\ (c2.path # <<>> => Last(c2.path).d \in 1..Len(ms))
  <1> DEFINE p == c.path
             q == Front(p)
             l == Len(p)
  <1>1. /\ q \in Seq(Point) /\ Len(q) = l - 1 /\ l \in Nat \ {0}
        /\ (\A k \in 1..(l - 1) : q[k] = p[k]) /\ Last(p) = p[l] /\ p \in Seq(Point)
    BY FrontIs, CallFields
  <1>2. c2 = [c EXCEPT !.path = q] /\ l = Len(p) /\ p = c.path
    BY DEF WithFront
  <1>3. (q = <<>> <=> l = 1) /\ (q # <<>> => Last(q) = p[l - 1] /\ l - 1 \in 1..l /\ l - 1 < l)
    <2>1. q = <<>> <=> Len(q) = 0
      BY <1>1, EmptySeq
    <2>2. q # <<>> => Last(q) = q[l - 1]
      BY <1>1 DEF Last
    <2> HIDE DEF q, l, p
    <2> QED BY ONLY <1>1, <2>1, <2>2
  <1> HIDE DEF p, q, l
  <1>4. c2 \in CallRec /\ c2.op = c.op /\ c2.n = c.n /\ c2.d = c.d /\ c2.i = c.i /\ c2.list = c.list
        /\ c2.path = q /\ c2.loads = 0 /\ c2.body = c.body
    BY ONLY <1>1, <1>2, c \in CallRec, c.loads = 0 DEF CallRec
  <1>5. CallIn(ms, c) /\ ResolveOK(w, ms, c)
    BY DEF CallOK
  <1>6. \A k \in 1..(l - 1) : k \in 1..l /\ k < l /\ q[k] = p[k]
    BY <1>1
  <1>7. CallIn(ms, c2)
    <2>1. \A k \in 1..(l - 1) : q[k].d \in 1..Len(ms) /\ q[k].i # 0
      BY <1>2, <1>5, <1>6 DEF CallIn
    <2> QED BY ONLY <1>1, <1>4, <1>5, <2>1 DEF CallIn
  <1>8. ResolveOK(w, ms, c2)
    <2>1. c2.body = 0 /\ c2.list = <<>> /\ c2.i = 0 /\ (c2.op # "loadModule" => c2.path # <<>>)
      BY <1>2, <1>3, <1>4, <1>5 DEF ResolveOK
    <2>2. \A k \in 1..Len(c2.path) : ms[c2.path[k].d].status = "unlinked"
      <3>1. \A k \in 1..l : ms[p[k].d].status = "unlinked"
        BY ONLY <1>2, <1>5 DEF ResolveOK
      <3>2. \A k \in 1..(l - 1) : ms[q[k].d].status = "unlinked"
        BY ONLY <3>1, <1>6
      <3> QED BY ONLY <1>1, <1>4, <3>2
    <2>3. ASSUME NEW k \in 1..Len(c2.path), k < Len(c2.path)
          PROVE  Wants(w, ms, c2.path[k], ms[c2.path[k + 1].d].name)
      <3>1. k \in 1..l /\ k < l /\ c2.path[k] = p[k] /\ c2.path[k + 1] = p[k + 1]
        BY <1>1, <1>4, <1>6, <2>3
      <3> QED BY <1>2, <1>5, <3>1 DEF ResolveOK
    <2>4. c2.path # <<>> => ms[c2.path[1].d].name = c2.n
      <3>1. c2.path # <<>> => c2.path[1] = p[1]
        BY <1>1, <1>3, <1>4, <1>6
      <3> QED BY <1>2, <1>4, <1>5, <3>1 DEF ResolveOK
    <2> QED BY ONLY <1>4, <2>1, <2>2, <2>3, <2>4 DEF ResolveOK
  <1>9. c2.op \notin {"js_link_module", "js_evaluate_module", "fulfilled", "bodyResumes"}
    BY <1>4 DEF Resolvers
  <1>10. CallOK(w, ms, c2)
    BY ONLY <1>7, <1>8, <1>9 DEF CallOK
  <1>11. CallNeeds(w, ms, c2)
    <2>1. \A x : Works(c2, x) => Works(c, x)
      BY ONLY <1>1, <1>2, <1>4, <1>6, SMTT(30) DEF Works
    <2> QED BY ONLY <1>4, <2>1, CallNeeds(w, ms, c) DEF CallNeeds
  <1>12. Wanted(w, ms, c2, ms[Last(c.path).d].name)
    <2>1. CASE l = 1
      <3>1. c2.path = <<>> /\ Last(c.path) = c.path[1]
        BY <1>1, <1>2, <1>3, <1>4, <2>1
      <3> QED BY <1>4, <1>5, <3>1 DEF Wanted, ResolveOK
    <2>2. CASE l # 1
      <3>1. c2.path # <<>> /\ Last(c2.path) = p[l - 1] /\ l - 1 \in 1..l /\ l - 1 < l /\ l - 1 + 1 = l
        BY <1>1, <1>3, <1>4, <2>2
      <3>2. Wants(w, ms, p[l - 1], ms[p[l - 1 + 1].d].name)
        BY <1>2, <1>5, <3>1 DEF ResolveOK
      <3> QED BY <1>1, <1>2, <3>1, <3>2, SMTT(30) DEF Wanted
    <2> QED BY <2>1, <2>2
  <1>13. Last(c.path).d \in 1..Len(ms) /\ (c2.path # <<>> => Last(c2.path).d \in 1..Len(ms))
    <2>1. \A k \in 1..l : p[k].d \in 1..Len(ms)
      BY ONLY <1>2, <1>5 DEF CallIn
    <2>2. l \in 1..l
      BY ONLY <1>1
    <2> QED BY ONLY <1>1, <1>2, <1>3, <1>4, <2>1, <2>2, ZenonT(60)
  <1> QED BY <1>4, <1>10, <1>11, <1>12, <1>13

(* resolveDone keeps the shape.                                            *)
LEMMA resolveDoneShape ==
    ASSUME ShapeInv, resolveDone
    PROVE  ShapeInv' /\ QuietStep
  <1> DEFINE d == Cur.d
             c == WithFront(Top)
  <1>1. /\ Resolving /\ Top.path # <<>> /\ UNCHANGED <<world, loaded, jobs, awaiting, clock>>
        /\ \/ Len(Top.path) = 1 /\ stk' = Pop /\ UNCHANGED mods
           \/ Len(Top.path) = 1 /\ stk' = WithTop(Call("js_link_module", Top.n, d)) /\ UNCHANGED mods
           \/ (Top.op = "loadModule" \/ Len(Top.path) # 1) /\ Deliver(d, mods, c)
    BY DEF resolveDone, Is, WithFront
  <1>2. stk # <<>> /\ Top.op \in Resolvers /\ Top.loads = 0
    BY <1>1 DEF Resolving, Is, Resolvers
  <1>3. Top \in CallRec /\ CallOK(world, mods, Top) /\ CallNeeds(world, mods, Top) /\ CallIn(mods, Top)
    BY <1>2, TopIs
  <1>4. Cur = Last(Top.path) /\ d = Last(Top.path).d
    BY <1>1, <1>3, CallFields DEF Cur
  <1>5. c = WithFront(Top)
    OBVIOUS
  <1> HIDE DEF c, d
  <1>6. CASE Len(Top.path) = 1 /\ stk' = Pop /\ UNCHANGED mods
    BY <1>1, <1>2, <1>6, LoadPop
  <1>7. CASE Len(Top.path) = 1 /\ stk' = WithTop(Call("js_link_module", Top.n, d)) /\ UNCHANGED mods
    <2>1. 1 \in 1..Len(Top.path) /\ d = Top.path[1].d
      BY <1>1, <1>3, <1>4, <1>7, CallFields
    <2>2. d \in 1..Len(mods) /\ mods[d].name = Top.n
      BY <1>1, <1>2, <1>3, <2>1 DEF CallIn, CallOK, ResolveOK
    <2>3. Top.n \in Names /\ loaded' \subseteq 1..Len(mods)
      BY <1>1, <2>2, ShapeIs, ModIs
    <2> QED BY ONLY ShapeInv, <1>1, <1>2, <1>7, <2>2, <2>3, NothingMade, DeliverCalls
  <1>8. CASE (Top.op = "loadModule" \/ Len(Top.path) # 1) /\ Deliver(d, mods, c)
    <2>1. /\ c \in CallRec /\ CallOK(world, mods, c) /\ CallNeeds(world, mods, c)
          /\ c.op = Top.op /\ c.n = Top.n /\ c.loads = 0 /\ Wanted(world, mods, c, mods[Last(Top.path).d].name)
          /\ Last(Top.path).d \in 1..Len(mods) /\ (c.path # <<>> => Last(c.path).d \in 1..Len(mods))
      BY ONLY ShapeInv, ShapeIs, <1>1, <1>2, <1>3, <1>5, <1>8, CallResolved
    <2>2. d \in 1..Len(mods) /\ Wanted(world, mods, c, mods[d].name)
      BY <1>4, <2>1
    <2>3. loaded' \subseteq 1..Len(mods)
      BY <1>1, ShapeIs
    <2> QED BY ONLY ShapeInv, <1>1, <1>2, <1>8, <2>1, <2>2, <2>3, NothingMade, DeliverShape
  <1> QED BY <1>1, <1>6, <1>7, <1>8

(* Loading keeps the shape.                                                *)
LEMMA LoadShape ==
    ASSUME ShapeInv, Load
    PROVE  ShapeInv' /\ QuietStep
  BY ImportFoundShape, ImportCallsLoaderShape, AbandonLoadShape, loaderReturnsSourceShape,
     loaderReturnsModuleShape, resolveDoneShape DEF Load

-----------------------------------------------------------------------------
(* The steps that link.                                                    *)

LEMMA WithinIs ==
    ASSUME ShapeInv, NEW op, Within(op)
    PROVE  /\ stk # <<>> /\ Top \in CallRec /\ Top.op = op /\ Top.loads = 0 /\ Top.body = 0 /\ Top.path # <<>>
           /\ Cur = Last(Top.path) /\ Cur.d \in 1..Len(mods) /\ Cur.i \in Nat \ {0}
           /\ op \in {"js_link_module", "js_evaluate_module"} => Has(Top.list, Cur.d)
           /\ op \in Base => mods[Cur.d].name \in NeedsOf(world, Top.n) /\ Top.n \in Names
  <1>1. stk # <<>> /\ Top.op = op /\ Top.loads = 0 /\ Top.body = 0 /\ Top.path # <<>>
    BY DEF Within, Is
  <1>2. Top \in CallRec /\ CallOK(world, mods, Top) /\ CallIn(mods, Top) /\ CallNeeds(world, mods, Top)
    BY <1>1, TopIs
  <1>3. Cur = Last(Top.path) /\ Len(Top.path) \in 1..Len(Top.path) /\ Last(Top.path) = Top.path[Len(Top.path)]
        /\ Cur.i \in Nat
    BY <1>1, <1>2, CallFields DEF Cur
  <1>4. Cur.d \in 1..Len(mods) /\ Cur.i # 0 /\ Works(Top, Cur.d)
    BY <1>2, <1>3 DEF CallIn, Works
  <1>5. op \in {"js_link_module", "js_evaluate_module"} => Has(Top.list, Cur.d)
    BY <1>1, <1>2, <1>3 DEF CallOK, LinkOK, EvalOK, WalkOK, PathOK
  <1> QED BY <1>1, <1>2, <1>3, <1>4, <1>5 DEF CallNeeds

WalkOp(s) == IF s = "linking" THEN "js_link_module" ELSE "js_evaluate_module"

(* The innermost call when it links or evaluates.                          *)
LEMMA WalkIs ==
    ASSUME ShapeInv, NEW s \in {"linking", "evaluating"}, stk # <<>>, Top.op = WalkOp(s)
    PROVE  /\ Top = stk[Len(stk)] /\ Top \in CallRec /\ CallOK(world, mods, Top) /\ CallIn(mods, Top)
           /\ CallNeeds(world, mods, Top) /\ WalkOK(mods, Top, s) /\ Top.op \in Base /\ Top.loads = 0
           /\ Top.n \in Names /\ Top.d \in 1..Len(mods) /\ mods[Top.d].name = Top.n
           /\ \A x, s2 : s2 \in {"linking", "evaluating"} => (OnList(Top, s2, x) <=> s2 = s /\ Has(Top.list, x))
           /\ \A x : Has(Top.list, x) => x \in 1..Len(mods) /\ mods[x].status = s
                                         /\ mods[x].name \in NeedsOf(world, Top.n)
  <1>1. Top = stk[Len(stk)] /\ Top \in CallRec /\ CallOK(world, mods, Top) /\ CallIn(mods, Top)
        /\ CallNeeds(world, mods, Top)
    BY TopIs
  <1>2. WalkOK(mods, Top, s) /\ Top.op \in Base
    BY <1>1 DEF WalkOp, CallOK, LinkOK, EvalOK, Base
  <1>3. Top.n \in Names /\ Top.d \in 1..Len(mods) /\ mods[Top.d].name = Top.n /\ Top.loads = 0
    BY <1>1, <1>2, ShapeIs DEF CallNeeds, WalkOK, CallIn
  <1>4. \A x, s2 : s2 \in {"linking", "evaluating"} => (OnList(Top, s2, x) <=> s2 = s /\ Has(Top.list, x))
    BY DEF OnList, WalkOp
  <1>5. \A x : Has(Top.list, x) => x \in 1..Len(mods) /\ mods[x].status = s
    BY <1>1, <1>2 DEF Has, CallIn, WalkOK, ListOK
  <1>6. \A x : Has(Top.list, x) => mods[x].name \in NeedsOf(world, Top.n)
    BY <1>1, <1>2, <1>5 DEF CallNeeds, Works
  <1> QED BY <1>1, <1>2, <1>3, <1>4, <1>5, <1>6

(* A request of the module that the walk is at.                            *)
LEMMA ChildIs ==
    ASSUME ShapeInv, NEW op \in Base, Visiting(op)
    PROVE  Child \in 1..Len(mods) /\ mods[Child].name \in NeedsOf(world, Top.n)
           /\ Cur.i \in 1..Len(mods[Cur.d].links)
  <1>1. Cur.d \in 1..Len(mods) /\ Cur.i \in Nat \ {0} /\ mods[Cur.d].name \in NeedsOf(world, Top.n)
        /\ Top.n \in Names /\ Cur.i <= Len(mods[Cur.d].links)
    BY WithinIs DEF Visiting
  <1>2. Len(mods[Cur.d].links) \in Nat
    BY <1>1, ShapeIs, ModIs
  <1>3. Cur.i \in 1..Len(mods[Cur.d].links)
    BY <1>1, <1>2
  <1>4. Child \in 1..Len(mods) /\ mods[Child].name \in ToSet(world.imports[mods[Cur.d].name])
    BY <1>1, <1>3, ShapeIs DEF LinksOK, Child
  <1> QED BY <1>1, <1>3, <1>4, NeedsIs, ShapeIs

(* A walk in shape is a call in shape.                                     *)
LEMMA WalkCallOK ==
    ASSUME NEW w, NEW ms, NEW c, NEW s \in {"linking", "evaluating"}, c.op = WalkOp(s),
           CallIn(ms, c), WalkOK(ms, c, s),
           s = "linking" => LinkOK(ms, c), s = "evaluating" => EvalOK(ms, c)
    PROVE  CallOK(w, ms, c) /\ c.op \in Base
  BY DEF WalkOp, CallOK, Resolvers, Base

(* A module is entered.                                                    *)
LEMMA EnterShape ==
    ASSUME ShapeInv, NEW s \in {"linking", "evaluating"}, Is(WalkOp(s)), NEW d \in 1..Len(mods),
           Top.path = <<>> => d = Top.d,
           Top.path # <<>> => Cur.i <= Len(mods[Cur.d].links) /\ d = Child,
           mods[d].status \in Fresh \ {s}, mods[d].status # "linking",
           mods' \in Seq(ModRec), Enters(mods, mods', d, Top.i, s),
           s = "linking" => mods'[d].promise = mods[d].promise,
           stk' = Enter(d), UNCHANGED <<world, loaded, jobs, awaiting, clock>>
    PROVE  ShapeInv' /\ (s = "linking" => QuietStep)
  <1> DEFINE c == WithEntered(Top, d)
  <1>1. stk # <<>> /\ Top.op = WalkOp(s) /\ Top.body = 0 /\ stk' = [stk EXCEPT ![Len(stk)] = c]
    BY DEF Is, Enter, WithTop, WithEntered
  <1>2. /\ Top = stk[Len(stk)] /\ Top \in CallRec /\ CallOK(world, mods, Top) /\ CallIn(mods, Top)
        /\ CallNeeds(world, mods, Top) /\ WalkOK(mods, Top, s) /\ Top.op \in Base /\ Top.loads = 0
        /\ Top.n \in Names /\ Top.d \in 1..Len(mods) /\ mods[Top.d].name = Top.n
        /\ \A x, s2 : s2 \in {"linking", "evaluating"} => (OnList(Top, s2, x) <=> s2 = s /\ Has(Top.list, x))
    BY <1>1, WalkIs
  <1>3. d \in Nat /\ Len(mods) \in Nat
    BY ShapeIs
  <1>a. c = WithEntered(Top, d)
    OBVIOUS
  <1>4. /\ c \in CallRec /\ EntersCall(Top, c, d)
        /\ \A x : Has(c.list, x) <=> Has(Top.list, x) \/ x = d
        /\ Len(c.path) = Len(Top.path) + 1
        /\ c.path[Len(Top.path) + 1].d = d /\ c.path[Len(Top.path) + 1].i = 1
        /\ \A k \in 1..Len(Top.path) : c.path[k] = Top.path[k]
    <2> HIDE DEF c
    <2>1. Top \in CallRec
      BY <1>2
    <2>2. c \in CallRec /\ EntersCall(Top, c, d)
      BY ONLY <2>1, <1>3, <1>a, EntersCallIs
    <2>3. \A x : Has(c.list, x) <=> Has(Top.list, x) \/ x = d
      BY ONLY <2>1, <1>3, <1>a, EntersCallIs
    <2>4. Len(c.path) = Len(Top.path) + 1
      BY ONLY <2>1, <1>3, <1>a, EntersCallIs
    <2>5. /\ c.path[Len(Top.path) + 1].d = d /\ c.path[Len(Top.path) + 1].i = 1
          /\ \A k \in 1..Len(Top.path) : c.path[k] = Top.path[k]
      BY ONLY <2>1, <1>3, <1>a, EntersCallIs, SMTT(30)
    <2> QED BY ONLY <2>2, <2>3, <2>4, <2>5
  <1> HIDE DEF c
  <1>5. Top.path # <<>> => /\ Last(Top.path).i <= Len(mods[Last(Top.path).d].links)
                           /\ mods[Last(Top.path).d].links[Last(Top.path).i] = d
    BY <1>2, CallFields DEF Cur, Child
  <1>6. CallIn(mods', c) /\ WalkOK(mods', c, s)
    <2>1. mods[d].status # s
      OBVIOUS
    <2> QED BY ONLY <1>1, <1>2, <1>4, <1>5, <2>1, ShapeInv, ShapeIs, WalkEnters, mods' \in Seq(ModRec), d \in 1..Len(mods),
                    Top.path = <<>> => d = Top.d, Enters(mods, mods', d, Top.i, s)
  <1>7. c.op = Top.op /\ c.n = Top.n /\ c.body = 0 /\ c.loads = 0
    BY <1>1, <1>2, <1>4 DEF EntersCall, SameHead
  <1>8. c.path # <<>> /\ Last(c.path).i = 1
    <2>1. Len(Top.path) \in Nat /\ c.path \in Seq(Point)
      BY <1>2, <1>4, CallFields
    <2>2. c.path # <<>>
      BY <1>4, <2>1, EmptySeq
    <2> QED BY <1>4, <2>2 DEF Last
  <1>9. \A x \in 1..Len(mods') : Len(mods'[x].links) \in Nat
    BY ModIs
  <1>10. Last(c.path).d \in 1..Len(mods')
    <2>1. Len(c.path) \in 1..Len(c.path) /\ Last(c.path) = c.path[Len(c.path)]
      BY <1>4, <1>8, CallFields
    <2> QED BY <1>6, <2>1 DEF CallIn
  <1>11. CallOK(world, mods', c) /\ c.op \in Base
    <2>1. s = "linking" => LinkOK(mods', c)
      BY ONLY <1>6, <1>7, <1>8, <1>9, <1>10 DEF LinkOK
    <2>2. s = "evaluating" => EvalOK(mods', c)
      BY ONLY <1>6, <1>7, <1>8, <1>9, <1>10 DEF EvalOK
    <2> QED BY ONLY <1>1, <1>6, <1>7, <2>1, <2>2, WalkCallOK, s \in {"linking", "evaluating"}
  <1>12. mods[d].name \in NeedsOf(world, Top.n)
    <2>1. CASE Top.path = <<>>
      BY <1>2, <2>1, NeedsIs, ShapeIs
    <2>2. CASE Top.path # <<>>
      <3>1. Visiting(WalkOp(s)) /\ WalkOp(s) \in Base
        BY <1>1, <1>2, <2>2 DEF Visiting, Within
      <3> QED BY <2>2, <3>1, ChildIs
    <2> QED BY <2>1, <2>2
  <1>13. Len(mods') = Len(mods) /\ \A x \in 1..Len(mods) :
            /\ mods'[x].name = mods[x].name /\ mods'[x].links = mods[x].links
            /\ x # d => SameShape(mods[x], mods'[x])
    BY DEF Enters, OthersSame, SameMod, SameShape
  <1>14. CallNeeds(world, mods', c)
    <2>1. ASSUME NEW x, Works(c, x) PROVE Works(Top, x) \/ x = d
      <3>1. Len(Top.path) \in Nat
        BY <1>2, CallFields
      <3>2. \A k \in 1..(Len(Top.path) + 1) : k \in 1..Len(Top.path) \/ k = Len(Top.path) + 1
        BY <3>1
      <3> QED BY ONLY <1>4, <1>7, <2>1, <3>2 DEF Works
    <2> QED BY ONLY <1>2, <1>7, <1>12, <1>13, <2>1 DEF CallNeeds
  <1>15. Touches(world, mods, mods', stk)
    BY <1>2, <1>12, <1>13 DEF Touches
  <1>16. Grows(mods, mods')
    BY <1>3, <1>13 DEF Grows, SameShape, Fresh, Begun
  <1>17. LinksOK(world, mods') /\ ParentsIn(mods') /\ RootsOK(mods')
    <2>1. \A x \in 1..Len(mods) :
              /\ mods'[x].links = mods[x].links /\ mods'[x].parents = mods[x].parents
              /\ mods'[x].root = mods[x].root /\ mods'[x].err = mods[x].err
              /\ mods'[x].status \in Ended <=> mods[x].status \in Ended
      <3>1. SUFFICES ASSUME NEW x \in 1..Len(mods)
                     PROVE  /\ mods'[x].links = mods[x].links /\ mods'[x].parents = mods[x].parents
                            /\ mods'[x].root = mods[x].root /\ mods'[x].err = mods[x].err
                            /\ mods'[x].status \in Ended <=> mods[x].status \in Ended
        OBVIOUS
      <3>2. CASE x = d
        BY <3>2 DEF Enters, Fresh, Ended
      <3>3. CASE x # d
        BY <3>3 DEF Enters, OthersSame, SameMod, SameShape, SameEval
      <3> QED BY <3>2, <3>3
    <2> QED BY ONLY ShapeInv, ShapeIs, <1>13, <1>16, <2>1, RefsSame, mods' \in Seq(ModRec)
  <1>18. ASSUME NEW x \in 1..Len(mods'), mods'[x].status \in {"linking", "evaluating"}
         PROVE  \/ OnList(c, mods'[x].status, x)
                \/ /\ x \in 1..Len(mods) /\ mods[x].status = mods'[x].status
                   /\ ~OnList(stk[Len(stk)], mods'[x].status, x)
    <2>1. CASE x = d
      <3>1. mods'[x].status = s
        BY <2>1 DEF Enters
      <3> QED BY <1>1, <1>4, <1>7, <2>1, <3>1 DEF OnList, WalkOp
    <2>2. CASE x # d
      <3>1. mods[x].status = mods'[x].status
        BY <1>13, <2>2 DEF SameShape
      <3>2. OnList(Top, mods'[x].status, x) => OnList(c, mods'[x].status, x)
        BY <1>4, <1>7 DEF OnList
      <3> QED BY <1>2, <1>13, <3>1, <3>2
    <2> QED BY <2>1, <2>2
  <1>19. stk' \in Seq(CallRec) /\ StackOK(world, mods', stk')
    <2>1. c.n = stk[Len(stk)].n /\ (c.op \notin Base => stk[Len(stk)].op \notin Base)
      BY <1>2, <1>7
    <2> QED BY ONLY ShapeInv, ShapeIs, <1>1, <1>4, <1>11, <1>14, <1>15, <1>16, <1>18, <2>1, mods' \in Seq(ModRec), TopKept
  <1>20. loaded' \subseteq 1..Len(mods')
    BY <1>13, ShapeIs
  <1>21. ShapeInv'
    <2>1. QueuedOK(mods', jobs', awaiting') /\ awaiting' \subseteq 1..Len(mods')
      BY <1>16, ShapeIs, QueuedSame
    <2> QED BY <1>17, <1>19, <1>20, <2>1, ShapeIs, ShapeStep
  <1>22. ASSUME s = "linking" PROVE QuietStep
    <2>1. QuietMods(mods, mods')
      <3>1. ASSUME NEW x \in 1..Len(mods)
            PROVE  /\ SameEval(mods[x], mods'[x])
                   /\ mods'[x].name = mods[x].name
                   /\ mods[x].status \notin Fresh => SameShape(mods[x], mods'[x])
                   /\ mods[x].status \in Fresh <=> mods'[x].status \in Fresh
        <4>1. CASE x = d
          BY <1>22, <4>1 DEF Enters, Fresh, SameEval
        <4>2. CASE x # d
          BY <4>2 DEF Enters, OthersSame, SameMod, SameShape
        <4> QED BY <4>1, <4>2
      <3>2. \A x \in 1..Len(mods) : \A j \in 1..Len(mods[x].links) :
               j \in 1..Len(mods'[x].links) /\ mods'[x].links[j] = mods[x].links[j]
        BY <1>13
      <3> QED BY ONLY <1>3, <1>13, <3>1, <3>2 DEF QuietMods
    <2>2. ~Loud(Top) /\ ~Loud(c)
      BY <1>1, <1>7, <1>22 DEF WalkOp, Loud
    <2>3. QuietCalls(stk, stk')
      BY ONLY ShapeInv, ShapeIs, <1>1, <1>2, <1>4, <2>2, QuietTop
    <2> QED BY <2>1, <2>3 DEF QuietStep
  <1> QED BY <1>21, <1>22

(* The walk goes on to the next request, or runs a body.                   *)
LEMMA AdvanceShape ==
    ASSUME ShapeInv, NEW s \in {"linking", "evaluating"}, Within(WalkOp(s)),
           s = "linking" => Cur.i <= Len(mods[Cur.d].links),
           s = "evaluating" => Cur.i <= Len(mods[Cur.d].links) + 1,
           mods' \in Seq(ModRec), Len(mods') = Len(mods),
           \A x \in 1..Len(mods) :
              /\ mods'[x].name = mods[x].name /\ mods'[x].links = mods[x].links
              /\ mods'[x].status = mods[x].status /\ mods'[x].dfs = mods[x].dfs
              /\ x # Cur.d => mods'[x].ancestor = mods[x].ancestor,
           mods[Top.list[1]].dfs <= mods'[Cur.d].ancestor, mods'[Cur.d].ancestor <= mods[Cur.d].dfs,
           LinksOK(world, mods'), ParentsIn(mods'), RootsOK(mods'),
           NEW c \in CallRec, Advances(Top, c),
           c.body = 0 \/ (s = "evaluating" /\ c.body = Cur.d /\ Cur.i = Len(mods[Cur.d].links) + 1),
           stk' = WithTop(c), clock' \in Nat, UNCHANGED <<world, loaded, jobs, awaiting>>
    PROVE  ShapeInv'
  <1>1. /\ stk # <<>> /\ Top \in CallRec /\ Top.op = WalkOp(s) /\ Top.loads = 0 /\ Top.body = 0 /\ Top.path # <<>>
        /\ Cur = Last(Top.path) /\ Cur.d \in 1..Len(mods) /\ Cur.i \in Nat \ {0}
    BY WithinIs
  <1>2. /\ Top = stk[Len(stk)] /\ CallOK(world, mods, Top) /\ CallIn(mods, Top)
        /\ CallNeeds(world, mods, Top) /\ WalkOK(mods, Top, s) /\ Top.op \in Base
    BY <1>1, WalkIs
  <1>3. mods[Cur.d].status = s /\ Has(Top.list, Cur.d) /\ mods[Cur.d].name \in NeedsOf(world, Top.n)
    <2>1. Has(Top.list, Cur.d)
      BY WithinIs DEF WalkOp
    <2> QED BY <1>1, <2>1, WalkIs
  <1>4. CallIn(mods', c) /\ WalkOK(mods', c, s)
    <2>1. c.body \in 0..Len(mods') /\ (c.body # 0 => mods'[c.body].status \in Begun)
      BY <1>1, <1>3, ShapeIs, SMTT(30) DEF Begun
    <2>2. ASSUME NEW x \in 1..Len(mods), Has(Top.list, x)
          PROVE  /\ mods'[x].name = mods[x].name /\ mods'[x].links = mods[x].links
                 /\ mods'[x].status = mods[x].status /\ mods'[x].dfs = mods[x].dfs
                 /\ mods[Top.list[1]].dfs <= mods'[x].ancestor /\ mods'[x].ancestor <= mods[x].dfs
      <3>1. PICK k \in 1..Len(Top.list) : Top.list[k] = x
        BY <2>2 DEF Has
      <3>2. mods[Top.list[1]].dfs <= mods[x].ancestor /\ mods[x].ancestor <= mods[x].dfs
        BY <1>2, <3>1 DEF WalkOK, ListOK
      <3> QED BY <3>2
    <2> QED BY ONLY <1>1, <1>2, <2>1, <2>2, ShapeInv, ShapeIs, WalkAdvances, mods' \in Seq(ModRec), c \in CallRec,
                    Advances(Top, c), Len(mods') = Len(mods), ZenonT(60)
  <1>5. c.op = Top.op /\ c.n = Top.n /\ c.loads = Top.loads /\ c.list = Top.list /\ Len(c.path) = Len(Top.path)
        /\ \A k \in 1..Len(Top.path) : c.path[k].d = Top.path[k].d
    BY DEF Advances, SameHead
  <1>6. c.path # <<>> /\ Last(c.path).d = Cur.d /\ Last(c.path).i = Cur.i + 1
    <2>1. Len(Top.path) \in 1..Len(Top.path) /\ Last(Top.path) = Top.path[Len(Top.path)] /\ Top.path # <<>>
          /\ Len(Top.path) # 0
      BY <1>1, CallFields
    <2>2. c.path # <<>>
      BY <1>5, <2>1, CallFields
    <2>3. Last(c.path) = c.path[Len(c.path)]
      BY <2>2, CallFields
    <2> QED BY <1>1, <1>5, <2>1, <2>2, <2>3 DEF Advances
  <1>7. CallOK(world, mods', c) /\ c.op \in Base
    <2>1. mods'[Cur.d].links = mods[Cur.d].links /\ Len(mods[Cur.d].links) \in Nat
      BY <1>1, ShapeIs, ModIs
    <2>2. s = "linking" => LinkOK(mods', c)
      <3>1. SUFFICES ASSUME s = "linking" PROVE LinkOK(mods', c)
        OBVIOUS
      <3>2. c.body = 0 /\ Last(c.path).i <= Len(mods'[Last(c.path).d].links) + 1
        BY <1>1, <1>6, <2>1, <3>1
      <3> QED BY <1>4, <3>1, <3>2 DEF LinkOK
    <2>3. s = "evaluating" => EvalOK(mods', c)
      <3>1. SUFFICES ASSUME s = "evaluating" PROVE EvalOK(mods', c)
        OBVIOUS
      <3>2. Last(c.path).i <= Len(mods'[Last(c.path).d].links) + 2
        BY <1>1, <1>6, <2>1, <3>1
      <3>3. c.body # 0 => c.body = Last(c.path).d /\ Last(c.path).i = Len(mods'[c.body].links) + 2
        <4>1. c.body # 0 => c.body = Cur.d /\ Cur.i = Len(mods[Cur.d].links) + 1
          OBVIOUS
        <4>2. \A i, n \in Nat : i = n + 1 => i + 1 = n + 2
          OBVIOUS
        <4>3. c.body # 0 => Cur.i + 1 = Len(mods[Cur.d].links) + 2
          BY ONLY <1>1, <2>1, <4>1, <4>2
        <4> QED BY ONLY <1>6, <2>1, <4>1, <4>3
      <3> QED BY <1>4, <1>6, <3>1, <3>2, <3>3 DEF EvalOK
    <2> QED BY ONLY <1>1, <1>4, <1>5, <2>2, <2>3, WalkCallOK, s \in {"linking", "evaluating"}
  <1>8. CallNeeds(world, mods', c)
    <2>1. \A x : Works(c, x) => Works(Top, x) \/ x = Cur.d
      BY ONLY <1>5, c.body = 0 \/ (s = "evaluating" /\ c.body = Cur.d /\ Cur.i = Len(mods[Cur.d].links) + 1) DEF Works
    <2>2. c.n \in Names
      BY <1>2, <1>5 DEF CallNeeds
    <2>3. ASSUME NEW x \in 1..Len(mods'), Works(c, x) PROVE mods'[x].name \in NeedsOf(world, c.n)
      <3>1. mods[x].name \in NeedsOf(world, Top.n)
        BY <1>2, <1>3, <2>1, <2>3 DEF CallNeeds
      <3> QED BY <1>5, <3>1
    <2> QED BY <2>2, <2>3 DEF CallNeeds
  <1>9. Grows(mods, mods')
    BY ShapeIs, SMTT(30) DEF Grows
  <1>10. Touches(world, mods, mods', stk)
    <2>1. \A x \in 1..Len(mods) : x # Cur.d => SameShape(mods[x], mods'[x])
      BY DEF SameShape
    <2> QED BY <1>2, <1>3, <2>1 DEF Touches
  <1>11. ASSUME NEW x \in 1..Len(mods'), mods'[x].status \in {"linking", "evaluating"}
         PROVE  \/ OnList(c, mods'[x].status, x)
                \/ /\ x \in 1..Len(mods) /\ mods[x].status = mods'[x].status
                   /\ ~OnList(stk[Len(stk)], mods'[x].status, x)
    BY <1>2, <1>5 DEF OnList
  <1>12. stk' \in Seq(CallRec) /\ StackOK(world, mods', stk')
    <2>1. c.n = stk[Len(stk)].n /\ (c.op \notin Base => stk[Len(stk)].op \notin Base)
          /\ stk' = [stk EXCEPT ![Len(stk)] = c]
      BY <1>2, <1>5 DEF WithTop
    <2> QED BY ONLY ShapeInv, ShapeIs, <1>1, <1>7, <1>8, <1>9, <1>10, <1>11, <2>1, mods' \in Seq(ModRec), c \in CallRec,
                    TopKept
  <1>13. QueuedOK(mods', jobs', awaiting') /\ awaiting' \subseteq 1..Len(mods')
    BY <1>9, ShapeIs, QueuedSame
  <1> QED BY <1>12, <1>13, ShapeIs, ShapeStep

(* The call ends, and what is on its list is not walked any more.          *)
LEMMA PopShape ==
    ASSUME ShapeInv, NEW s \in {"linking", "evaluating"}, stk # <<>>, Top.op = WalkOp(s),
           mods' \in Seq(ModRec), Len(mods') = Len(mods), Grows(mods, mods'),
           \A x \in 1..Len(mods) : ~Has(Top.list, x) => SameShape(mods[x], mods'[x]),
           \A x \in 1..Len(mods) : Has(Top.list, x) => mods'[x].status \notin {"linking", "evaluating"},
           LinksOK(world, mods'), ParentsIn(mods'), RootsOK(mods'),
           stk' = Pop, UNCHANGED <<world, loaded, jobs, awaiting, clock>>
    PROVE  ShapeInv'
  <1>1. /\ Top = stk[Len(stk)]
        /\ \A x, s2 : s2 \in {"linking", "evaluating"} => (OnList(Top, s2, x) <=> s2 = s /\ Has(Top.list, x))
        /\ \A x : Has(Top.list, x) => x \in 1..Len(mods) /\ mods[x].name \in NeedsOf(world, Top.n)
    BY WalkIs
  <1>2. Touches(world, mods, mods', stk)
    BY <1>1 DEF Touches
  <1>3. ASSUME NEW x \in 1..Len(mods'), mods'[x].status \in {"linking", "evaluating"}
        PROVE  /\ x \in 1..Len(mods) /\ mods[x].status = mods'[x].status
               /\ ~OnList(stk[Len(stk)], mods'[x].status, x)
    BY <1>1, <1>3 DEF SameShape
  <1>4. stk' \in Seq(CallRec) /\ StackOK(world, mods', stk')
    <2>1. stk' = SubSeq(stk, 1, Len(stk) - 1)
      BY DEF Pop
    <2> QED BY ONLY ShapeInv, ShapeIs, <1>2, <1>3, <2>1, stk # <<>>, mods' \in Seq(ModRec), Grows(mods, mods'), PopKept
  <1>5. QueuedOK(mods', jobs', awaiting') /\ awaiting' \subseteq 1..Len(mods')
    BY ShapeIs, QueuedSame
  <1> QED BY <1>4, <1>5, ShapeIs, ShapeStep

(* A module returns, and its cycle if it is the first of it.               *)
LEMMA ReturnIs ==
    ASSUME ShapeInv, NEW s \in {"linking", "evaluating"}, Within(WalkOp(s))
    PROVE  \E n \in Nat, c \in CallRec :
              /\ Return(Cur.d) = WithTop(c) /\ ReturnsCall(Top, c, n) /\ n <= Len(Top.list)
              /\ \/ n = Len(Top.list) /\ mods[Cur.d].dfs # mods[Cur.d].ancestor
                 \/ n + 1 <= Len(Top.list) /\ Top.list[n + 1] = Cur.d /\ EndsCycle(Cur.d)
              /\ \A x : Has(Top.list, x) => (x \in Done(Cur.d) <=> ~Has(c.list, x))
              /\ \A x \in Done(Cur.d) : Has(Top.list, x)
  <1> DEFINE d == Cur.d
             L == Top.list
             l == Len(L)
             f == Front(Top.path)
  <1>1. /\ stk # <<>> /\ Top \in CallRec /\ Top.op = WalkOp(s) /\ Top.path # <<>>
        /\ d \in 1..Len(mods) /\ Has(L, d)
    BY WithinIs DEF WalkOp
  <1>2. /\ WalkOK(mods, Top, s) /\ CallIn(mods, Top)
    BY <1>1, WalkIs
  <1>3. l \in Nat /\ DOMAIN L = 1..l /\ L \in Seq(Nat)
    BY <1>1, CallFields, LenProperties
  <1>4. \A j, k \in 1..l : L[j] = L[k] => j = k
    BY <1>1, <1>2, ListOrder, ShapeIs DEF WalkOK
  <1>5. CASE EndsCycle(d)
    <2> DEFINE p == Place(d)
               n == p - 1
               c == WithReturned(Top, SubSeq(L, 1, n))
    <2>1. p \in 1..l /\ L[p] = d
      BY <1>1, <1>3 DEF Place, Has
    <2>2. Return(d) = WithTop(c)
      BY <1>5 DEF Return, WithReturned
    <2>3. Done(d) = {L[k] : k \in p..l}
      BY <1>5 DEF Done
    <2> HIDE DEF p
    <2>4. n \in Nat /\ n <= l /\ n + 1 = p /\ n + 1 <= l
      BY <1>3, <2>1
    <2>5. c = WithReturned(Top, SubSeq(L, 1, n))
      OBVIOUS
    <2> HIDE DEF n, c
    <2>6. c \in CallRec /\ ReturnsCall(Top, c, n)
      BY ONLY <1>1, <2>4, <2>5, ReturnsCallIs
    <2>7. Len(c.list) = n /\ \A k \in 1..n : c.list[k] = L[k]
      BY <2>6 DEF ReturnsCall
    <2> HIDE DEF L, l
    <2>8. ASSUME NEW k \in 1..l PROVE L[k] \in Done(d) <=> ~Has(c.list, L[k])
      <3>1. L[k] \in Done(d) <=> k \in p..l
        <4>1. k \in p..l => L[k] \in Done(d)
          BY <2>3
        <4>2. ASSUME L[k] \in Done(d) PROVE k \in p..l
          <5>1. PICK j \in p..l : L[j] = L[k]
            BY <2>3, <4>2
          <5>2. j \in 1..l
            BY <1>3, <2>1
          <5> QED BY <1>4, <5>1, <5>2
        <4> QED BY <4>1, <4>2
      <3>2. Has(c.list, L[k]) <=> k \in 1..n
        <4>1. k \in 1..n => Has(c.list, L[k])
          BY <2>7 DEF Has
        <4>2. ASSUME Has(c.list, L[k]) PROVE k \in 1..n
          <5>1. PICK j \in 1..n : L[j] = L[k]
            BY <2>7, <4>2 DEF Has
          <5>2. j \in 1..l
            BY <1>3, <2>4
          <5> QED BY <1>4, <5>1, <5>2
        <4> QED BY <4>1, <4>2
      <3> QED BY ONLY <1>3, <2>1, <2>4, <3>1, <3>2, k \in 1..l
    <2>9. \A x : Has(L, x) => (x \in Done(d) <=> ~Has(c.list, x))
      BY <2>8 DEF Has, l
    <2>10. \A x \in Done(d) : Has(L, x)
      <3>1. \A k \in p..l : k \in 1..l
        BY <1>3, <2>1
      <3> QED BY <2>3, <3>1 DEF Has, l
    <2> QED BY <1>5, <2>1, <2>2, <2>4, <2>6, <2>9, <2>10 DEF L, l
  <1>6. CASE ~EndsCycle(d)
    <2> DEFINE c == WithReturned(Top, L)
    <2>1. Return(d) = WithTop(c) /\ Done(d) = {}
      BY <1>6 DEF Return, Done, WithReturned
    <2>2. c = WithReturned(Top, L)
      OBVIOUS
    <2> HIDE DEF c
    <2>3. c \in CallRec /\ ReturnsCall(Top, c, l) /\ l <= l
      BY ONLY <1>1, <1>3, <2>2, ReturnsCallIs
    <2>4. Len(c.list) = l /\ \A k \in 1..l : c.list[k] = L[k]
      BY <2>3 DEF ReturnsCall
    <2>5. \A x : Has(L, x) => Has(c.list, x)
      BY <2>4 DEF Has
    <2>6. mods[d].dfs # mods[d].ancestor
      BY <1>6 DEF EndsCycle
    <2> QED BY <1>3, <2>1, <2>3, <2>5, <2>6
  <1> QED BY <1>5, <1>6

(* A module that returns keeps the shape.                                  *)
LEMMA ReturnShape ==
    ASSUME ShapeInv, NEW s \in {"linking", "evaluating"}, Within(WalkOp(s)),
           mods' \in Seq(ModRec), Len(mods') = Len(mods), Grows(mods, mods'),
           \A x \in 1..Len(mods) : x \notin Done(Cur.d) => SameShape(mods[x], mods'[x]),
           \A x \in Done(Cur.d) : mods'[x].status \notin {"linking", "evaluating"},
           LinksOK(world, mods'), ParentsIn(mods'), RootsOK(mods'),
           stk' = Return(Cur.d), UNCHANGED <<world, loaded, jobs, awaiting, clock>>
    PROVE  ShapeInv'
  <1>1. /\ stk # <<>> /\ Top \in CallRec /\ Top.op = WalkOp(s) /\ Top.loads = 0 /\ Top.body = 0 /\ Top.path # <<>>
        /\ Cur = Last(Top.path) /\ Cur.d \in 1..Len(mods) /\ Cur.i \in Nat \ {0}
    BY WithinIs
  <1>2. /\ Top = stk[Len(stk)] /\ CallOK(world, mods, Top) /\ CallIn(mods, Top) /\ Top.d \in 1..Len(mods)
        /\ CallNeeds(world, mods, Top) /\ WalkOK(mods, Top, s) /\ Top.op \in Base
        /\ \A x, s2 : s2 \in {"linking", "evaluating"} => (OnList(Top, s2, x) <=> s2 = s /\ Has(Top.list, x))
        /\ \A x : Has(Top.list, x) => x \in 1..Len(mods) /\ mods[x].name \in NeedsOf(world, Top.n)
    BY <1>1, WalkIs
  <1>3. PICK n \in Nat, c \in CallRec :
              /\ Return(Cur.d) = WithTop(c) /\ ReturnsCall(Top, c, n) /\ n <= Len(Top.list)
              /\ \/ n = Len(Top.list) /\ mods[Cur.d].dfs # mods[Cur.d].ancestor
                 \/ n + 1 <= Len(Top.list) /\ Top.list[n + 1] = Cur.d /\ EndsCycle(Cur.d)
              /\ \A x : Has(Top.list, x) => (x \in Done(Cur.d) <=> ~Has(c.list, x))
              /\ \A x \in Done(Cur.d) : Has(Top.list, x)
    BY ReturnIs
  <1>4. Len(Top.list) \in Nat /\ Len(Top.path) \in Nat /\ Len(c.path) \in Nat /\ Len(Top.path) # 0
    BY <1>1, CallFields
  <1>5. \A k \in 1..n : k \in 1..Len(Top.list) /\ c.list[k] = Top.list[k] /\ Has(Top.list, Top.list[k])
    BY <1>3, <1>4 DEF ReturnsCall, Has
  <1>6. \A k \in 1..n : SameShape(mods[Top.list[k]], mods'[Top.list[k]])
    <2>1. \A k \in 1..n : Has(c.list, Top.list[k])
      BY <1>3, <1>5 DEF ReturnsCall, Has
    <2> QED BY <1>2, <1>3, <1>5, <2>1
  <1>7. CallIn(mods', c) /\ WalkOK(mods', c, s)
    <2>1. mods'[Top.d].name = mods[Top.d].name
      BY <1>2 DEF Grows
    <2>2. \/ n = Len(Top.list) /\ mods[Last(Top.path).d].dfs # mods[Last(Top.path).d].ancestor
          \/ n + 1 <= Len(Top.list) /\ Top.list[n + 1] = Last(Top.path).d
      BY <1>1, <1>3
    <2> QED BY ONLY ShapeInv, ShapeIs, <1>1, <1>2, <1>3, <1>6, <2>1, <2>2, mods' \in Seq(ModRec), Len(mods') = Len(mods),
                    WalkReturns
  <1>8. c.op = Top.op /\ c.n = Top.n /\ c.body = 0 /\ c.loads = 0 /\ Len(c.list) = n
        /\ Len(c.path) = Len(Top.path) - 1 /\ \A k \in 1..(Len(Top.path) - 1) : c.path[k] = Top.path[k]
    BY <1>1, <1>3 DEF ReturnsCall, SameHead
  <1>9. c.path # <<>> => /\ Last(c.path).i <= Len(mods'[Last(c.path).d].links)
                         /\ Last(c.path).d \in 1..Len(mods')
    <2>1. SUFFICES ASSUME c.path # <<>>
                   PROVE  /\ Last(c.path).i <= Len(mods'[Last(c.path).d].links)
                          /\ Last(c.path).d \in 1..Len(mods')
      OBVIOUS
    <2> DEFINE k == Len(c.path)
    <2>2. k \in 1..k /\ Last(c.path) = c.path[k]
      BY <2>1, CallFields
    <2>3. k \in 1..Len(Top.path) /\ k < Len(Top.path) /\ c.path[k] = Top.path[k]
      BY <1>4, <1>8, <2>2, SMTT(30)
    <2> HIDE DEF k
    <2>4. Top.path[k].d \in 1..Len(mods) /\ Top.path[k].i <= Len(mods[Top.path[k].d].links)
      BY <1>2, <2>3 DEF WalkOK, PathOK, CallIn
    <2>5. Has(c.list, c.path[k].d)
      BY <1>7, <2>2 DEF WalkOK, PathOK, k
    <2>6. PICK j \in 1..n : c.list[j] = Top.path[k].d
      BY <1>8, <2>3, <2>5 DEF Has
    <2>7. SameShape(mods[Top.path[k].d], mods'[Top.path[k].d])
      BY <1>5, <1>6, <2>6
    <2> QED BY <2>2, <2>3, <2>4, <2>7 DEF SameShape
  <1>10. CallOK(world, mods', c) /\ c.op \in Base
    <2>1. c.path # <<>> => Len(mods'[Last(c.path).d].links) \in Nat /\ Last(c.path).i \in Nat
      BY <1>9, ModIs, CallFields
    <2>2. \A i, l \in Nat : i <= l => i <= l + 1 /\ i <= l + 2
      OBVIOUS
    <2>3. s = "linking" => LinkOK(mods', c)
      BY ONLY <1>7, <1>8, <1>9, <2>1, <2>2 DEF LinkOK
    <2>4. s = "evaluating" => EvalOK(mods', c)
      BY ONLY <1>7, <1>8, <1>9, <2>1, <2>2 DEF EvalOK
    <2> QED BY ONLY <1>1, <1>7, <1>8, <2>3, <2>4, WalkCallOK, s \in {"linking", "evaluating"}
  <1>11. CallNeeds(world, mods', c)
    <2>1. \A k \in 1..(Len(Top.path) - 1) : k \in 1..Len(Top.path)
      BY <1>4
    <2>2. \A x : Works(c, x) => Works(Top, x)
      <3>1. \A x : Has(c.list, x) => Has(Top.list, x)
        BY ONLY <1>5, <1>8 DEF Has
      <3> QED BY ONLY <1>8, <2>1, <3>1 DEF Works
    <2> QED BY ONLY <1>2, <1>8, <2>2, Grows(mods, mods'), Len(mods') = Len(mods) DEF CallNeeds, Grows
  <1>12. Touches(world, mods, mods', stk)
    BY <1>2, <1>3 DEF Touches
  <1>13. ASSUME NEW x \in 1..Len(mods'), mods'[x].status \in {"linking", "evaluating"}
         PROVE  \/ OnList(c, mods'[x].status, x)
                \/ /\ x \in 1..Len(mods) /\ mods[x].status = mods'[x].status
                   /\ ~OnList(stk[Len(stk)], mods'[x].status, x)
    <2>1. x \notin Done(Cur.d) /\ mods[x].status = mods'[x].status
      BY <1>13 DEF SameShape
    <2>2. OnList(Top, mods'[x].status, x) => OnList(c, mods'[x].status, x)
      BY <1>3, <1>8, <2>1 DEF OnList
    <2> QED BY <1>2, <2>1, <2>2
  <1>14. stk' \in Seq(CallRec) /\ StackOK(world, mods', stk')
    <2>1. c.n = stk[Len(stk)].n /\ (c.op \notin Base => stk[Len(stk)].op \notin Base)
          /\ stk' = [stk EXCEPT ![Len(stk)] = c]
      BY <1>2, <1>3, <1>8 DEF WithTop
    <2> QED BY ONLY ShapeInv, ShapeIs, <1>1, <1>3, <1>10, <1>11, <1>12, <1>13, <2>1, mods' \in Seq(ModRec),
                    Grows(mods, mods'), TopKept
  <1>15. QueuedOK(mods', jobs', awaiting') /\ awaiting' \subseteq 1..Len(mods')
    BY ShapeIs, QueuedSame
  <1> QED BY <1>14, <1>15, ShapeIs, ShapeStep

(* What the link steps do is quiet.                                        *)
LEMMA LinkQuiet ==
    ASSUME ShapeInv, stk # <<>>, Top.op = "js_link_module",
           mods' \in Seq(ModRec), Len(mods') = Len(mods),
           \A x \in 1..Len(mods) : Has(Top.list, x) \/ SameShape(mods[x], mods'[x]),
           \A x \in 1..Len(mods) : SameEval(mods[x], mods'[x]) /\ mods'[x].name = mods[x].name
                                   /\ mods'[x].links = mods[x].links,
           \A x \in 1..Len(mods) : Has(Top.list, x) => mods'[x].status \in Fresh,
           stk' = Pop \/ \E c \in CallRec : stk' = WithTop(c) /\ c.op = "js_link_module",
           UNCHANGED <<world, jobs, awaiting, clock>>
    PROVE  QuietStep /\ Grows(mods, mods') /\ LinksOK(world, mods') /\ ParentsIn(mods') /\ RootsOK(mods')
  <1>1. \A x : Has(Top.list, x) => mods[x].status = "linking"
    <2>1. Top.op = WalkOp("linking") /\ "linking" \in {"linking", "evaluating"}
      BY DEF WalkOp
    <2> QED BY <2>1, WalkIs
  <1>2. \A x \in 1..Len(mods) : /\ mods[x].status \notin Fresh => SameShape(mods[x], mods'[x])
                                /\ mods[x].status \in Fresh <=> mods'[x].status \in Fresh
    BY <1>1 DEF Fresh, SameShape
  <1>3. QuietMods(mods, mods')
    BY ONLY ShapeInv, ShapeIs, <1>2, Len(mods') = Len(mods),
        \A x \in 1..Len(mods) : SameEval(mods[x], mods'[x]) /\ mods'[x].name = mods[x].name
                                   /\ mods'[x].links = mods[x].links DEF QuietMods
  <1>4. ~Loud(Top) /\ Top = stk[Len(stk)] /\ \A c : c.op = "js_link_module" => ~Loud(c)
    BY DEF Loud, Top
  <1>5. QuietCalls(stk, stk')
    <2>1. CASE stk' = Pop
      BY ONLY ShapeInv, ShapeIs, <1>4, <2>1, stk # <<>>, QuietPop DEF Pop
    <2>2. CASE \E c \in CallRec : stk' = WithTop(c) /\ c.op = "js_link_module"
      BY ONLY ShapeInv, ShapeIs, <1>4, <2>2, stk # <<>>, QuietTop DEF WithTop
    <2> QED BY <2>1, <2>2
  <1>6. Grows(mods, mods')
    BY <1>2, ShapeIs, SMTT(30) DEF Grows, Begun, Fresh, SameShape
  <1>7. \A x \in 1..Len(mods) : /\ mods'[x].parents = mods[x].parents /\ mods'[x].root = mods[x].root
                                /\ mods'[x].err = mods[x].err
                                /\ mods'[x].status \in Ended <=> mods[x].status \in Ended
    BY <1>2 DEF SameEval, SameShape, Fresh, Ended
  <1>8. LinksOK(world, mods') /\ ParentsIn(mods') /\ RootsOK(mods')
    BY ONLY ShapeInv, ShapeIs, <1>6, <1>7, mods' \in Seq(ModRec), Len(mods') = Len(mods), RefsSame,
        \A x \in 1..Len(mods) : SameEval(mods[x], mods'[x]) /\ mods'[x].name = mods[x].name
                                   /\ mods'[x].links = mods[x].links
  <1> QED BY <1>3, <1>5, <1>6, <1>8 DEF QuietStep

(* What is walked and is needed by the innermost call is on its list.      *)
LEMMA WalkListed ==
    ASSUME ShapeInv, NEW s \in {"linking", "evaluating"}, stk # <<>>, Top.op = WalkOp(s),
           NEW x \in 1..Len(mods), mods[x].status = s, mods[x].name \in NeedsOf(world, Top.n)
    PROVE  Has(Top.list, x)
  <1>1. PICK k \in 1..Len(stk) : OnList(stk[k], s, x)
    BY ShapeIs DEF StackOK, Listed
  <1>2. Has(stk[k].list, x) /\ Works(stk[k], x)
    BY <1>1 DEF OnList, Works
  <1>3. Len(stk) \in 1..Len(stk) /\ (k < Len(stk) \/ k = Len(stk))
    BY ShapeIs
  <1>4. k = Len(stk)
    BY <1>2, <1>3, ShapeIs DEF StackOK, Nested, Apart, Top
  <1> QED BY <1>2, <1>4 DEF Top

(* js_create_module_function.                                              *)
Creates(ms, S) == [x \in 1..Len(ms) |-> [ms[x] EXCEPT !.func_created = @ \/ x \in S]]

(* js_create_module_function changes nothing that matters here.            *)
LEMMA CreatesIs ==
    ASSUME NEW ms \in Seq(ModRec), NEW S, NEW ms2, ms2 = Creates(ms, S)
    PROVE  ms2 \in Seq(ModRec) /\ Len(ms2) = Len(ms) /\ \A x \in 1..Len(ms) : SameMod(ms[x], ms2[x])
  <1>1. Len(ms) \in Nat /\ \A x \in 1..Len(ms) : ms[x] \in ModRec
    BY ModIs
  <1>2. ASSUME NEW r \in ModRec, NEW b \in BOOLEAN
        PROVE  LET q == [r EXCEPT !.func_created = b] IN q \in ModRec /\ SameMod(r, q)
    BY DEF ModRec, SameMod, SameShape, SameEval
  <1>3. /\ \A x \in 1..Len(ms) : ms2[x] = [ms[x] EXCEPT !.func_created = ms[x].func_created \/ x \in S]
        /\ ms2 = [x \in 1..Len(ms) |-> ms2[x]]
    BY DEF Creates
  <1>4. ASSUME NEW x \in 1..Len(ms) PROVE ms2[x] \in ModRec /\ SameMod(ms[x], ms2[x])
    <2>1. (ms[x].func_created \/ x \in S) \in BOOLEAN
      OBVIOUS
    <2> DEFINE b == ms[x].func_created \/ x \in S
    <2>2. b \in BOOLEAN /\ ms2[x] = [ms[x] EXCEPT !.func_created = b]
      BY <1>3, <2>1
    <2> HIDE DEF b
    <2> QED BY <1>1, <1>2, <2>2
  <1>5. ms2 \in Seq(ModRec) /\ Len(ms2) = Len(ms)
    BY <1>1, <1>3, <1>4, SeqBy
  <1> QED BY <1>4, <1>5

(* js_link_module keeps the shape.                                         *)
LEMMA js_link_moduleShape ==
    ASSUME ShapeInv, js_link_module
    PROVE  ShapeInv' /\ QuietStep
  <1> DEFINE d == Top.d
  <1>1. /\ Is("js_link_module") /\ Top.path = <<>> /\ UNCHANGED <<world, loaded, jobs, awaiting, clock>>
        /\ \/ /\ mods[d].status = "unlinked" /\ stk' = Enter(d)
              /\ mods' = [x \in Defs |-> [Entered(d, "linking")[x] EXCEPT !.func_created = @ \/ x \in Reach(d)]]
           \/ stk' = WithTop(Call("js_evaluate_module", Top.n, d)) /\ UNCHANGED mods
    BY DEF js_link_module
  <1>2. WalkOp("linking") = "js_link_module" /\ "linking" \in {"linking", "evaluating"}
    BY DEF WalkOp
  <1>3. stk # <<>> /\ Top.op = "js_link_module"
    BY <1>1 DEF Is
  <1>4. /\ Top = stk[Len(stk)] /\ Top \in CallRec /\ CallOK(world, mods, Top) /\ WalkOK(mods, Top, "linking")
        /\ Top.n \in Names /\ d \in 1..Len(mods) /\ mods[d].name = Top.n /\ Top.i \in Nat
    BY <1>2, <1>3, WalkIs, CallFields, SMTT(30)
  <1>5. CASE /\ mods[d].status = "unlinked" /\ stk' = Enter(d)
             /\ mods' = [x \in Defs |-> [Entered(d, "linking")[x] EXCEPT !.func_created = @ \/ x \in Reach(d)]]
    <2> DEFINE ms == EnteredAt(mods, d, Top.i, "linking")
    <2>1. ms = EnteredAt(mods, d, Top.i, "linking") /\ "linking" \in Status
      BY DEF Status
    <2>2. ms = Entered(d, "linking")
      BY DEF Entered, EnteredAt
    <2> HIDE DEF ms
    <2>3. ms \in Seq(ModRec) /\ Enters(mods, ms, d, Top.i, "linking") /\ ms[d].promise = mods[d].promise
      <3>1. mods \in Seq(ModRec) /\ d \in 1..Len(mods) /\ Top.i \in Nat
        BY <1>4, ShapeIs
      <3> QED BY ONLY <2>1, <3>1, EntersIs, SMTT(30)
    <2>4. mods' = Creates(ms, Reach(d))
      <3>1. Defs = 1..Len(ms)
        BY <2>3, ShapeIs DEF Enters
      <3> QED BY ONLY <1>5, <2>2, <3>1 DEF Creates
    <2>5. mods' \in Seq(ModRec) /\ Len(mods') = Len(ms) /\ \A x \in 1..Len(ms) : SameMod(ms[x], mods'[x])
      BY ONLY <2>3, <2>4, CreatesIs
    <2>6. Enters(mods, mods', d, Top.i, "linking") /\ mods'[d].promise = mods[d].promise
      BY ONLY <1>4, <2>3, <2>5, SMTT(30) DEF Enters, OthersSame, SameMod, SameShape, SameEval
    <2>7. mods[d].status \in Fresh \ {"linking"} /\ mods[d].status # "linking"
      BY <1>5 DEF Fresh
    <2> QED BY ONLY ShapeInv, <1>1, <1>2, <1>4, <1>5, <2>5, <2>6, <2>7, EnterShape
  <1>6. CASE stk' = WithTop(Call("js_evaluate_module", Top.n, d)) /\ UNCHANGED mods
    <2> DEFINE c == Call("js_evaluate_module", Top.n, d)
    <2>1. "js_evaluate_module" \in Base /\ "js_evaluate_module" \in Ops /\ d \in Nat /\ d \in 0..Len(mods) /\ d # 0
      BY <1>4, ShapeIs DEF Base, Ops
    <2>2. c \in CallRec /\ c.op = "js_evaluate_module" /\ c.n = Top.n
      BY <1>4, <2>1, CallNew
    <2>3. CallOK(world, mods, c) /\ CallNeeds(world, mods, c) /\ ~Loud(c)
      BY <1>4, <2>1, ShapeIs, CallIdle
    <2>4. stk' = [stk EXCEPT ![Len(stk)] = c]
      BY <1>6 DEF WithTop
    <2> HIDE DEF c
    <2>5. Top.list = <<>> /\ ~Loud(Top)
      BY <1>1, <1>3, <1>4 DEF WalkOK, PathOK, Loud
    <2>6. \A s, x : ~OnList(stk[Len(stk)], s, x)
      BY <1>4, <2>5, EmptyHas DEF OnList
    <2>7. stk' \in Seq(CallRec) /\ StackOK(world, mods, stk')
      <3>1. Grows(mods, mods) /\ Touches(world, mods, mods, stk)
        BY ShapeIs, NothingQuiet DEF Touches
      <3>2. c.n = stk[Len(stk)].n /\ (c.op \notin Base => stk[Len(stk)].op \notin Base)
        BY <1>4, <2>1, <2>2
      <3> QED BY ONLY ShapeInv, ShapeIs, <1>3, <2>2, <2>3, <2>4, <2>6, <3>1, <3>2, TopKept
    <2>8. QuietCalls(stk, stk')
      BY ONLY ShapeInv, ShapeIs, <1>3, <1>4, <2>2, <2>3, <2>4, <2>5, QuietTop
    <2> QED BY <1>1, <1>6, <2>7, <2>8, QuietStack
  <1> QED BY <1>1, <1>5, <1>6

(* linkRequest keeps the shape.                                            *)
LEMMA linkRequestShape ==
    ASSUME ShapeInv, linkRequest
    PROVE  ShapeInv' /\ QuietStep
  <1> DEFINE d == Cur.d
             m == Child
  <1>1. /\ Visiting("js_link_module") /\ UNCHANGED <<world, loaded, jobs, awaiting, clock>>
        /\ \/ /\ mods[m].status = "unlinked" /\ mods' = Entered(m, "linking") /\ stk' = Enter(m)
           \/ /\ mods[m].status = "linking"
              /\ mods' = [mods EXCEPT ![d].ancestor = MinOf(@, mods[m].ancestor)]
              /\ stk' = WithTop(Advance(Top))
           \/ stk' = WithTop(Advance(Top)) /\ UNCHANGED mods
    BY DEF linkRequest
  <1>2. WalkOp("linking") = "js_link_module" /\ "linking" \in {"linking", "evaluating"} /\ "js_link_module" \in Base
        /\ "linking" \in Status
    BY DEF WalkOp, Base, Status
  <1>3. Within("js_link_module") /\ Is("js_link_module") /\ Cur.i <= Len(mods[d].links)
    BY <1>1 DEF Visiting, Within
  <1>4. m \in 1..Len(mods) /\ mods[m].name \in NeedsOf(world, Top.n)
    BY <1>1, <1>2, ChildIs
  <1>5. stk # <<>> /\ Top.op = "js_link_module" /\ Top \in CallRec /\ Top.path # <<>> /\ d \in 1..Len(mods)
        /\ Has(Top.list, d) /\ Top.body = 0
    BY <1>3, WithinIs
  <1>6. WalkOK(mods, Top, "linking") /\ CallIn(mods, Top)
    BY <1>2, <1>5, WalkIs
  <1>7. ASSUME NEW x, Has(Top.list, x)
        PROVE  mods[Top.list[1]].dfs <= mods[x].ancestor /\ mods[x].ancestor <= mods[x].dfs
               /\ mods[x].ancestor \in Nat /\ mods[x].dfs \in Nat /\ mods[Top.list[1]].dfs \in Nat
    <2>1. PICK k \in 1..Len(Top.list) : Top.list[k] = x
      BY <1>7 DEF Has
    <2>2. 1 \in 1..Len(Top.list)
      BY <1>5, CallFields
    <2>3. Top.list[1] \in 1..Len(mods) /\ x \in 1..Len(mods)
      BY <1>6, <2>1, <2>2 DEF CallIn
    <2> QED BY <1>6, <2>1, <2>3, ShapeIs, ModIs DEF WalkOK, ListOK
  <1> HIDE DEF d, m
  <1>8. CASE mods[m].status = "unlinked" /\ mods' = Entered(m, "linking") /\ stk' = Enter(m)
    <2>1. mods' = EnteredAt(mods, m, Top.i, "linking") /\ Top.i \in Nat
      BY <1>5, <1>8, CallFields DEF Entered, EnteredAt
    <2>2. mods' \in Seq(ModRec) /\ Enters(mods, mods', m, Top.i, "linking") /\ mods'[m].promise = mods[m].promise
      <3>1. mods \in Seq(ModRec) /\ m \in 1..Len(mods) /\ Top.i \in Nat /\ "linking" \in Status
        BY <1>2, <1>4, <2>1, ShapeIs
      <3> QED BY ONLY <2>1, <3>1, EntersIs
    <2>3. mods[m].status \in Fresh \ {"linking"} /\ mods[m].status # "linking"
      BY <1>8 DEF Fresh
    <2>4. Top.path # <<>> => Cur.i <= Len(mods[Cur.d].links) /\ m = Child
      BY <1>3 DEF d, m
    <2> QED BY ONLY ShapeInv, <1>1, <1>2, <1>3, <1>4, <1>5, <1>8, <2>2, <2>3, <2>4, EnterShape
  <1>9. ASSUME stk' = WithTop(Advance(Top)), mods' \in Seq(ModRec), Lowers(mods, mods', d, mods[m].ancestor) \/ mods' = mods,
               mods' # mods => mods[m].status = "linking"
        PROVE  ShapeInv' /\ QuietStep
    <2>1. Advance(Top) \in CallRec /\ Advances(Top, Advance(Top)) /\ Advance(Top).body = 0
      BY <1>5, AdvanceIs
    <2>2. Len(mods') = Len(mods) /\ \A x \in 1..Len(mods) :
              /\ mods'[x].name = mods[x].name /\ mods'[x].links = mods[x].links
              /\ mods'[x].status = mods[x].status /\ mods'[x].dfs = mods[x].dfs
              /\ x # d => mods'[x].ancestor = mods[x].ancestor
              /\ SameEval(mods[x], mods'[x])
      BY ONLY <1>5, <1>9 DEF Lowers, OthersSame, SameMod, SameShape, SameEval
    <2>3. mods[Top.list[1]].dfs <= mods'[d].ancestor /\ mods'[d].ancestor <= mods[d].dfs
      <3>1. CASE mods' = mods
        BY <1>5, <1>7, <3>1
      <3>2. CASE mods' # mods
        <4>1. Has(Top.list, m)
          BY <1>2, <1>4, <1>5, <1>9, <3>2, WalkListed
        <4>2. mods'[d].ancestor = MinOf(mods[d].ancestor, mods[m].ancestor)
          BY <1>9, <3>2 DEF Lowers
        <4>3. /\ mods[Top.list[1]].dfs <= mods[d].ancestor /\ mods[d].ancestor <= mods[d].dfs
              /\ mods[Top.list[1]].dfs <= mods[m].ancestor
              /\ mods[d].ancestor \in Nat /\ mods[m].ancestor \in Nat /\ mods[d].dfs \in Nat
              /\ mods[Top.list[1]].dfs \in Nat
          BY <1>5, <1>7, <4>1
        <4> QED BY ONLY <4>2, <4>3 DEF MinOf
      <3> QED BY <3>1, <3>2
    <2>4. \A x \in 1..Len(mods) : Has(Top.list, x) \/ SameShape(mods[x], mods'[x])
      BY <1>5, <2>2 DEF SameShape
    <2>5. \A x \in 1..Len(mods) : Has(Top.list, x) => mods'[x].status \in Fresh
      <3>1. \A x \in 1..Len(mods) : Has(Top.list, x) => mods[x].status = "linking"
        BY <1>2, <1>5, WalkIs
      <3> QED BY <2>2, <3>1 DEF Fresh
    <2>6. Advance(Top).op = "js_link_module"
      BY <1>5, <2>1 DEF Advances, SameHead
    <2>7. QuietStep /\ LinksOK(world, mods') /\ ParentsIn(mods') /\ RootsOK(mods')
      <3>1. \E c \in CallRec : stk' = WithTop(c) /\ c.op = "js_link_module"
        BY <1>9, <2>1, <2>6
      <3> QED BY ONLY ShapeInv, <1>1, <1>5, <1>9, <2>2, <2>4, <2>5, <3>1, LinkQuiet
    <2>8. clock' \in Nat
      BY <1>1, ShapeIs
    <2>9. \A x \in 1..Len(mods) :
              /\ mods'[x].name = mods[x].name /\ mods'[x].links = mods[x].links
              /\ mods'[x].status = mods[x].status /\ mods'[x].dfs = mods[x].dfs
              /\ x # Cur.d => mods'[x].ancestor = mods[x].ancestor
      BY <2>2 DEF d
    <2> HIDE DEF d
    <2>10. ShapeInv'
      <3>1. d = Cur.d
        BY DEF d
      <3> QED BY ONLY ShapeInv, <1>1, <1>2, <1>3, <1>9, <2>1, <2>2, <2>3, <2>7, <2>8, <2>9, <3>1, AdvanceShape
    <2> QED BY <2>7, <2>10
  <1>10. CASE /\ mods[m].status = "linking"
              /\ mods' = [mods EXCEPT ![d].ancestor = MinOf(@, mods[m].ancestor)]
              /\ stk' = WithTop(Advance(Top))
    <2>1. mods' = Lowered(mods, d, mods[m].ancestor) /\ mods[m].ancestor \in Nat
      BY <1>4, <1>10, ShapeIs, ModIs DEF Lowered
    <2>2. mods' \in Seq(ModRec) /\ Lowers(mods, mods', d, mods[m].ancestor)
      BY ONLY ShapeInv, ShapeIs, <1>5, <2>1, LowersIs
    <2> QED BY <1>9, <1>10, <2>2
  <1>11. CASE stk' = WithTop(Advance(Top)) /\ UNCHANGED mods
    BY <1>9, <1>11, ShapeIs
  <1> QED BY <1>1, <1>8, <1>10, <1>11 DEF d, m

(* linkDone keeps the shape.                                               *)
LEMMA linkDoneShape ==
    ASSUME ShapeInv, linkDone
    PROVE  ShapeInv' /\ QuietStep
  <1> DEFINE D == Done(Cur.d)
  <1>1. /\ Within("js_link_module") /\ UNCHANGED <<world, loaded, jobs, awaiting, clock>>
        /\ mods' = [x \in Defs |-> IF x \in D THEN [mods[x] EXCEPT !.status = "linked"] ELSE mods[x]]
        /\ stk' = Return(Cur.d)
    BY DEF linkDone, Visited
  <1>2. WalkOp("linking") = "js_link_module" /\ "linking" \in {"linking", "evaluating"} /\ "linked" \in Status
    BY DEF WalkOp, Status
  <1>3. stk # <<>> /\ Top.op = "js_link_module"
    BY <1>1, WithinIs
  <1>4. PICK n \in Nat, c \in CallRec :
           /\ Return(Cur.d) = WithTop(c) /\ ReturnsCall(Top, c, n)
           /\ \A x \in D : Has(Top.list, x)
    BY <1>1, <1>2, ReturnIs
  <1> HIDE DEF D
  <1>5. \A x : Has(Top.list, x) => x \in 1..Len(mods) /\ mods[x].status = "linking"
    BY <1>2, <1>3, WalkIs
  <1>6. D \subseteq 1..Len(mods)
    BY <1>4, <1>5
  <1>7. mods' \in Seq(ModRec) /\ SetsStatus(mods, mods', D, "linked")
    <2>1. mods' = StatusSet(mods, D, "linked")
      BY <1>1, ShapeIs DEF StatusSet
    <2> QED BY ONLY ShapeInv, ShapeIs, <1>2, <1>6, <2>1, SetsStatusIs
  <1>8. /\ Len(mods') = Len(mods) /\ \A x \in 1..Len(mods) :
            /\ SameEval(mods[x], mods'[x]) /\ mods'[x].name = mods[x].name /\ mods'[x].links = mods[x].links
            /\ x \notin D => SameShape(mods[x], mods'[x])
            /\ x \in D => mods'[x].status = "linked"
    BY ONLY <1>7, SMTT(30) DEF SetsStatus, OthersSame, SameMod, SameShape
  <1>9. QuietStep /\ Grows(mods, mods') /\ LinksOK(world, mods') /\ ParentsIn(mods') /\ RootsOK(mods')
    <2>1. \A x \in 1..Len(mods) : Has(Top.list, x) \/ SameShape(mods[x], mods'[x])
      BY <1>4, <1>8
    <2>2. \A x \in 1..Len(mods) : Has(Top.list, x) => mods'[x].status \in Fresh
      BY <1>5, <1>8 DEF Fresh, SameShape
    <2>3. \E c2 \in CallRec : stk' = WithTop(c2) /\ c2.op = "js_link_module"
      BY <1>1, <1>3, <1>4, SMTT(30) DEF ReturnsCall, SameHead
    <2> QED BY ONLY ShapeInv, <1>1, <1>3, <1>7, <1>8, <2>1, <2>2, <2>3, LinkQuiet
  <1>10. ShapeInv'
    <2>1. \A x \in 1..Len(mods) : x \notin Done(Cur.d) => SameShape(mods[x], mods'[x])
      BY <1>8 DEF D
    <2>2. \A x \in Done(Cur.d) : mods'[x].status \notin {"linking", "evaluating"}
      BY <1>6, <1>8 DEF D
    <2> QED BY ONLY ShapeInv, <1>1, <1>2, <1>7, <1>8, <1>9, <2>1, <2>2, ReturnShape
  <1> QED BY <1>9, <1>10

(* linkFails keeps the shape.                                              *)
LEMMA linkFailsShape ==
    ASSUME ShapeInv, linkFails
    PROVE  ShapeInv' /\ QuietStep
  <1> DEFINE D == ToSet(Top.list)
  <1>1. /\ Within("js_link_module") /\ UNCHANGED <<world, loaded, jobs, awaiting, clock>>
        /\ mods' = [x \in Defs |-> IF x \in D THEN [mods[x] EXCEPT !.status = "unlinked"] ELSE mods[x]]
        /\ stk' = Pop
    BY DEF linkFails, Visited
  <1>2. WalkOp("linking") = "js_link_module" /\ "linking" \in {"linking", "evaluating"} /\ "unlinked" \in Status
    BY DEF WalkOp, Status
  <1>3. stk # <<>> /\ Top.op = "js_link_module" /\ Top \in CallRec
    BY <1>1, WithinIs
  <1>4. \A x : x \in D <=> Has(Top.list, x)
    BY <1>3, CallFields, ToSetHas
  <1> HIDE DEF D
  <1>5. \A x : Has(Top.list, x) => x \in 1..Len(mods) /\ mods[x].status = "linking"
    BY <1>2, <1>3, WalkIs
  <1>6. D \subseteq 1..Len(mods)
    BY <1>4, <1>5
  <1>7. mods' \in Seq(ModRec) /\ SetsStatus(mods, mods', D, "unlinked")
    <2>1. mods' = StatusSet(mods, D, "unlinked")
      BY <1>1, ShapeIs DEF StatusSet
    <2> QED BY ONLY ShapeInv, ShapeIs, <1>2, <1>6, <2>1, SetsStatusIs
  <1>8. /\ Len(mods') = Len(mods) /\ \A x \in 1..Len(mods) :
            /\ SameEval(mods[x], mods'[x]) /\ mods'[x].name = mods[x].name /\ mods'[x].links = mods[x].links
            /\ ~Has(Top.list, x) => SameShape(mods[x], mods'[x])
            /\ Has(Top.list, x) => mods'[x].status = "unlinked"
    BY ONLY <1>4, <1>7, SMTT(30) DEF SetsStatus, OthersSame, SameMod, SameShape
  <1>9. QuietStep /\ Grows(mods, mods') /\ LinksOK(world, mods') /\ ParentsIn(mods') /\ RootsOK(mods')
    <2>1. \A x \in 1..Len(mods) : Has(Top.list, x) \/ SameShape(mods[x], mods'[x])
      BY <1>8
    <2>2. \A x \in 1..Len(mods) : Has(Top.list, x) => mods'[x].status \in Fresh
      BY <1>8, SMTT(30) DEF Fresh
    <2> QED BY ONLY ShapeInv, <1>1, <1>3, <1>7, <1>8, <2>1, <2>2, LinkQuiet
  <1>10. ShapeInv'
    <2>1. \A x \in 1..Len(mods) : Has(Top.list, x) => mods'[x].status \notin {"linking", "evaluating"}
      BY <1>8
    <2> QED BY ONLY ShapeInv, <1>1, <1>2, <1>3, <1>7, <1>8, <1>9, <2>1, PopShape
  <1> QED BY <1>9, <1>10

(* Linking keeps the shape.                                                *)
LEMMA LinkShape ==
    ASSUME ShapeInv, Link
    PROVE  ShapeInv' /\ QuietStep
  BY js_link_moduleShape, linkRequestShape, linkDoneShape, linkFailsShape DEF Link
-----------------------------------------------------------------------------
(* What evaluations do to modules.                                         *)

(* The module itself stays.                                                *)
SameBase(a, b) == b.name = a.name /\ b.links = a.links /\ b.dfs = a.dfs

(* The body of d ends, ...                                                 *)
Outs(ms, ms2, d, o) ==
    /\ Len(ms2) = Len(ms) /\ OthersSame(ms, ms2, {d}) /\ SameShape(ms[d], ms2[d])
    /\ ms2[d].root = ms[d].root /\ ms2[d].pending = ms[d].pending /\ ms2[d].async = ms[d].async
    /\ ms2[d].timestamp = ms[d].timestamp /\ ms2[d].parents = ms[d].parents
    /\ ms2[d].err = ms[d].err /\ ms2[d].promise = ms[d].promise /\ ms2[d].runs = ms[d].runs
    /\ ms2[d].out = o
WithOut(ms, d, o) == [ms EXCEPT ![d].out = o]

(* What a body's end makes of the modules.                                 *)
LEMMA OutsIs ==
    ASSUME NEW ms \in Seq(ModRec), NEW d \in 1..Len(ms), NEW o \in {"none", "ok", "threw"}, NEW ms2,
           ms2 = WithOut(ms, d, o)
    PROVE  ms2 \in Seq(ModRec) /\ Outs(ms, ms2, d, o)
  <1>1. ms[d] \in ModRec
    BY ModIs
  <1> DEFINE r == [ms[d] EXCEPT !.out = o]
  <1>4. r \in ModRec
    BY <1>1 DEF ModRec
  <1>5. /\ SameShape(ms[d], r)
        /\ r.root = ms[d].root /\ r.pending = ms[d].pending /\ r.async = ms[d].async
        /\ r.timestamp = ms[d].timestamp /\ r.parents = ms[d].parents
        /\ r.err = ms[d].err /\ r.promise = ms[d].promise /\ r.runs = ms[d].runs /\ r.out = o
    BY <1>1 DEF ModRec, SameShape
  <1>6. ms2 = [ms EXCEPT ![d] = r]
    BY DEF r, WithOut
  <1> HIDE DEF r
  <1>7. ms2 \in Seq(ModRec) /\ Len(ms2) = Len(ms) /\ ms2[d] = r /\ \A x \in 1..Len(ms) : x # d => ms2[x] = ms[x]
    BY ONLY ms \in Seq(ModRec), d \in 1..Len(ms), <1>4, <1>6, ExceptIs
  <1> QED BY <1>5, <1>7 DEF Outs, OthersSame, SameMod, SameShape, SameEval

(* ... is executed, and waited for from time t if w holds, ...             *)
Starts(ms, ms2, d, n, w, t) ==
    /\ Len(ms2) = Len(ms) /\ OthersSame(ms, ms2, {d}) /\ SameShape(ms[d], ms2[d])
    /\ ms2[d].root = ms[d].root /\ ms2[d].pending = ms[d].pending /\ ms2[d].parents = ms[d].parents
    /\ ms2[d].err = ms[d].err /\ ms2[d].promise = ms[d].promise /\ ms2[d].runs = ms[d].runs + n
    /\ ms2[d].out = ms[d].out
    /\ w => ms2[d].async = TRUE /\ ms2[d].timestamp = t
    /\ ~w => ms2[d].async = ms[d].async /\ ms2[d].timestamp = ms[d].timestamp
Started(ms, d, n, w, t) ==
    [ms EXCEPT ![d].runs = ms[d].runs + n,
               ![d].async = IF w THEN TRUE ELSE ms[d].async,
               ![d].timestamp = IF w THEN t ELSE ms[d].timestamp]

(* What starting a module makes of the modules.                            *)
LEMMA StartsIs ==
    ASSUME NEW ms \in Seq(ModRec), NEW d \in 1..Len(ms), NEW n \in Nat, NEW w \in BOOLEAN, NEW t \in Nat,
           NEW ms2, ms2 = Started(ms, d, n, w, t)
    PROVE  ms2 \in Seq(ModRec) /\ Starts(ms, ms2, d, n, w, t)
  <1>1. ms[d] \in ModRec /\ ms[d].runs \in Nat /\ ms[d].timestamp \in Nat /\ ms[d].async \in BOOLEAN
    BY ModIs DEF ModRec
  <1> DEFINE a == IF w THEN TRUE ELSE ms[d].async
             b == IF w THEN t ELSE ms[d].timestamp
             m == ms[d].runs + n
             r == [ms[d] EXCEPT !.runs = m, !.async = a, !.timestamp = b]
  <1>2. a \in BOOLEAN /\ b \in Nat /\ m \in Nat /\ (w => a = TRUE /\ b = t)
        /\ (~w => a = ms[d].async /\ b = ms[d].timestamp) /\ m = ms[d].runs + n
    <2>1. a \in BOOLEAN /\ (w => a = TRUE) /\ (~w => a = ms[d].async)
      BY <1>1, Zenon
    <2>2. b \in Nat /\ m \in Nat /\ (w => b = t) /\ (~w => b = ms[d].timestamp) /\ m = ms[d].runs + n
      BY <1>1
    <2> QED BY <2>1, <2>2, Zenon
  <1>6. ms2 = [ms EXCEPT ![d] = r]
    BY DEF r, Started
  <1> HIDE DEF a, b, m
  <1>4. r \in ModRec
    BY <1>1, <1>2 DEF ModRec
  <1>5. /\ SameShape(ms[d], r)
        /\ r.root = ms[d].root /\ r.pending = ms[d].pending /\ r.async = a
        /\ r.timestamp = b /\ r.parents = ms[d].parents
        /\ r.err = ms[d].err /\ r.promise = ms[d].promise /\ r.runs = m /\ r.out = ms[d].out
    BY <1>1 DEF ModRec, SameShape
  <1> HIDE DEF r
  <1>7. ms2 \in Seq(ModRec) /\ Len(ms2) = Len(ms) /\ ms2[d] = r /\ \A x \in 1..Len(ms) : x # d => ms2[x] = ms[x]
    BY ONLY ms \in Seq(ModRec), d \in 1..Len(ms), <1>4, <1>6, ExceptIs
  <1> QED BY <1>2, <1>5, <1>7 DEF Starts, OthersSame, SameMod, SameShape, SameEval

(* ... or its evaluation is over.                                          *)
Evaluates(ms, ms2, d) ==
    /\ Len(ms2) = Len(ms) /\ OthersSame(ms, ms2, {d}) /\ SameBase(ms[d], ms2[d])
    /\ ms2[d].ancestor = ms[d].ancestor /\ ms2[d].status = "evaluated" /\ ms2[d].async = FALSE
    /\ ms2[d].root = ms[d].root /\ ms2[d].pending = ms[d].pending
    /\ ms2[d].timestamp = ms[d].timestamp /\ ms2[d].parents = ms[d].parents
    /\ ms2[d].err = ms[d].err /\ ms2[d].runs = ms[d].runs
    /\ ms2[d].promise = Settled(ms[d].promise, "fulfilled")

(* js_set_module_evaluated does that.                                      *)
LEMMA EvaluatesIs ==
    ASSUME NEW ms \in Seq(ModRec), NEW d \in 1..Len(ms), NEW ms2, ms2 = Evaluated(ms, d)
    PROVE  ms2 \in Seq(ModRec) /\ Evaluates(ms, ms2, d) /\ \A x \in 1..Len(ms) : ms2[x].out = ms[x].out
  <1>1. ms[d] \in ModRec /\ ms[d].promise \in {"none", "pending", "fulfilled", "rejected"}
    BY ModIs DEF ModRec
  <1> DEFINE p == Settled(ms[d].promise, "fulfilled")
             r == [ms[d] EXCEPT !.async = FALSE, !.status = "evaluated", !.promise = p]
  <1>2. p \in {"none", "pending", "fulfilled", "rejected"} /\ p = Settled(ms[d].promise, "fulfilled")
    BY <1>1 DEF Settled
  <1>6. ms2 = [ms EXCEPT ![d] = r]
    BY DEF r, Evaluated
  <1> HIDE DEF p
  <1>4. r \in ModRec
    BY <1>1, <1>2 DEF ModRec, Status
  <1>5. /\ SameBase(ms[d], r) /\ r.status = "evaluated" /\ r.async = FALSE /\ r.ancestor = ms[d].ancestor
        /\ r.root = ms[d].root /\ r.pending = ms[d].pending
        /\ r.timestamp = ms[d].timestamp /\ r.parents = ms[d].parents
        /\ r.err = ms[d].err /\ r.promise = p /\ r.runs = ms[d].runs /\ r.out = ms[d].out
    BY <1>1 DEF ModRec, SameBase
  <1> HIDE DEF r
  <1>7. ms2 \in Seq(ModRec) /\ Len(ms2) = Len(ms) /\ ms2[d] = r /\ \A x \in 1..Len(ms) : x # d => ms2[x] = ms[x]
    BY ONLY ms \in Seq(ModRec), d \in 1..Len(ms), <1>4, <1>6, ExceptIs
  <1> QED BY <1>2, <1>5, <1>7 DEF Evaluates, OthersSame, SameMod, SameShape, SameEval, SameBase
(* A function on modules, one record after the other.                      *)
LEMMA RecordsIs ==
    ASSUME NEW ms \in Seq(ModRec), NEW ms2, ms2 = [x \in 1..Len(ms) |-> ms2[x]],
           \A x \in 1..Len(ms) : ms2[x] \in ModRec
    PROVE  ms2 \in Seq(ModRec) /\ Len(ms2) = Len(ms) /\ Len(ms) \in Nat
  <1>1. Len(ms) \in Nat
    BY ModIs
  <1> QED BY ONLY <1>1, ms2 = [x \in 1..Len(ms) |-> ms2[x]], \A x \in 1..Len(ms) : ms2[x] \in ModRec, SeqBy

(* The evaluation of D fails with the error of e, and r is the root.       *)
FailedAt(ms, D, e, r) ==
    [x \in 1..Len(ms) |->
        IF x \in D THEN [ms[x] EXCEPT !.status = "evaluated", !.err = e, !.root = r] ELSE ms[x]]
Fails(ms, ms2, D, e, r) ==
    /\ Len(ms2) = Len(ms)
    /\ \A x \in 1..Len(ms) :
          /\ SameBase(ms[x], ms2[x]) /\ ms2[x].ancestor = ms[x].ancestor
          /\ ms2[x].pending = ms[x].pending /\ ms2[x].async = ms[x].async
          /\ ms2[x].timestamp = ms[x].timestamp /\ ms2[x].parents = ms[x].parents
          /\ ms2[x].runs = ms[x].runs
          /\ x \in D => ms2[x].status = "evaluated" /\ ms2[x].err = e /\ ms2[x].root = r
          /\ x \notin D => ms2[x].status = ms[x].status /\ ms2[x].err = ms[x].err /\ ms2[x].root = ms[x].root
          /\ x = r => ms2[x].promise = "rejected"
          /\ x # r => ms2[x].promise = ms[x].promise

(* AbandonEvaluation does that.                                            *)
LEMMA FailsIs ==
    ASSUME NEW ms \in Seq(ModRec), NEW D, NEW e \in Nat, NEW r \in 1..Len(ms), NEW ms2,
           ms2 = Promised(FailedAt(ms, D, e, r), r, "rejected")
    PROVE  ms2 \in Seq(ModRec) /\ Fails(ms, ms2, D, e, r) /\ \A x \in 1..Len(ms) : ms2[x].out = ms[x].out
  <1>1. Len(ms) \in Nat /\ r \in Nat /\ \A x \in 1..Len(ms) : ms[x] \in ModRec
    BY ModIs
  <1> DEFINE m1 == FailedAt(ms, D, e, r)
  <1> DEFINE Rec(a) == [a EXCEPT !.status = "evaluated", !.err = e, !.root = r]
  <1>2. ASSUME NEW a \in ModRec
        PROVE  LET q == Rec(a) IN
               /\ q \in ModRec /\ SameBase(a, q) /\ q.ancestor = a.ancestor
               /\ q.pending = a.pending /\ q.async = a.async
               /\ q.timestamp = a.timestamp /\ q.parents = a.parents /\ q.runs = a.runs /\ q.out = a.out
               /\ q.status = "evaluated" /\ q.err = e /\ q.root = r /\ q.promise = a.promise
    BY <1>1 DEF ModRec, SameBase, Status
  <1>3. /\ \A x \in 1..Len(ms) :
              m1[x] = IF x \in D THEN Rec(ms[x]) ELSE ms[x]
        /\ m1 = [x \in 1..Len(ms) |-> m1[x]]
    BY DEF FailedAt
  <1>4. ms2 = Promised(m1, r, "rejected")
    OBVIOUS
  <1> HIDE DEF m1, Rec
  <1>5. \A x \in 1..Len(ms) : m1[x] \in ModRec
    BY <1>1, <1>2, <1>3
  <1>6. m1 \in Seq(ModRec) /\ Len(m1) = Len(ms)
    BY ONLY <1>3, <1>5, ms \in Seq(ModRec), RecordsIs
  <1>7. ms2 \in Seq(ModRec) /\ Promises(m1, ms2, r, "rejected")
    BY ONLY <1>4, <1>6, r \in 1..Len(ms), PromisesIs
  <1>8. ASSUME NEW x \in 1..Len(ms)
        PROVE  /\ SameBase(ms[x], m1[x]) /\ m1[x].ancestor = ms[x].ancestor
               /\ m1[x].pending = ms[x].pending /\ m1[x].async = ms[x].async
               /\ m1[x].timestamp = ms[x].timestamp /\ m1[x].parents = ms[x].parents
               /\ m1[x].runs = ms[x].runs /\ m1[x].out = ms[x].out /\ m1[x].promise = ms[x].promise
               /\ x \in D => m1[x].status = "evaluated" /\ m1[x].err = e /\ m1[x].root = r
               /\ x \notin D => m1[x].status = ms[x].status /\ m1[x].err = ms[x].err /\ m1[x].root = ms[x].root
    <2>1. CASE x \in D
      BY ONLY <1>1, <1>2, <1>3, <2>1, x \in 1..Len(ms)
    <2>2. CASE x \notin D
      BY ONLY <1>3, <2>2, x \in 1..Len(ms) DEF SameBase
    <2> QED BY <2>1, <2>2
  <1>9. ASSUME NEW x \in 1..Len(ms)
        PROVE  /\ SameShape(m1[x], ms2[x])
               /\ ms2[x].root = m1[x].root /\ ms2[x].pending = m1[x].pending /\ ms2[x].async = m1[x].async
               /\ ms2[x].timestamp = m1[x].timestamp /\ ms2[x].parents = m1[x].parents
               /\ ms2[x].err = m1[x].err /\ ms2[x].runs = m1[x].runs /\ ms2[x].out = m1[x].out
               /\ x = r => ms2[x].promise = "rejected"
               /\ x # r => ms2[x].promise = m1[x].promise
    BY ONLY <1>6, <1>7, x \in 1..Len(ms) DEF Promises, OthersSame, SameMod, SameEval
  <1>10. Len(ms2) = Len(ms)
    BY <1>6, <1>7 DEF Promises
  <1> QED BY ONLY <1>7, <1>8, <1>9, <1>10, SMTT(30) DEF Fails, SameShape, SameBase

(* d learns of a request: x reports to it if it has not ended.             *)
AskedAt(ms, d, x, a) ==
    [y \in 1..Len(ms) |->
        [ms[y] EXCEPT !.ancestor = IF y = d THEN a ELSE @,
                      !.pending = IF y = d /\ ms[x].async THEN @ + 1 ELSE @,
                      !.parents = IF y = x /\ ms[x].async THEN Append(@, d) ELSE @]]
Asks(ms, ms2, d, x, a) ==
    /\ Len(ms2) = Len(ms)
    /\ \A y \in 1..Len(ms) :
          /\ SameBase(ms[y], ms2[y]) /\ ms2[y].status = ms[y].status
          /\ ms2[y].root = ms[y].root /\ ms2[y].async = ms[y].async /\ ms2[y].timestamp = ms[y].timestamp
          /\ ms2[y].err = ms[y].err /\ ms2[y].promise = ms[y].promise
          /\ ms2[y].runs = ms[y].runs /\ ms2[y].out = ms[y].out
          /\ y = d => ms2[y].ancestor = a
          /\ y # d => ms2[y].ancestor = ms[y].ancestor
          /\ y = d /\ ms[x].async => ms2[y].pending = ms[y].pending + 1
          /\ y # d \/ ~ms[x].async => ms2[y].pending = ms[y].pending
          /\ y = x /\ ms[x].async => ms2[y].parents = Append(ms[y].parents, d)
          /\ y # x \/ ~ms[x].async => ms2[y].parents = ms[y].parents

AskRec(q, i, j, s) == [q EXCEPT !.ancestor = i, !.pending = j, !.parents = s]

(* Requests does that.                                                     *)
LEMMA AsksIs ==
    ASSUME NEW ms \in Seq(ModRec), NEW d \in 1..Len(ms), NEW x \in 1..Len(ms), NEW a \in Nat, NEW ms2,
           ms2 = AskedAt(ms, d, x, a)
    PROVE  ms2 \in Seq(ModRec) /\ Asks(ms, ms2, d, x, a)
  <1>1. Len(ms) \in Nat /\ d \in Nat
    BY ModIs
  <1>3. ASSUME NEW y \in 1..Len(ms)
        PROVE  \E i \in Nat, j \in Nat, s \in Seq(Nat) :
                  /\ ms2[y] = AskRec(ms[y], i, j, s)
                  /\ y = d => i = a
                  /\ y # d => i = ms[y].ancestor
                  /\ y = d /\ ms[x].async => j = ms[y].pending + 1
                  /\ y # d \/ ~ms[x].async => j = ms[y].pending
                  /\ y = x /\ ms[x].async => s = Append(ms[y].parents, d)
                  /\ y # x \/ ~ms[x].async => s = ms[y].parents
    <2>1. ms[y] \in ModRec /\ ms[y].ancestor \in Nat /\ ms[y].pending \in Nat /\ ms[y].parents \in Seq(Nat)
      BY ModIs
    <2>2. Append(ms[y].parents, d) \in Seq(Nat)
      BY <1>1, <2>1, AppendIs
    <2> DEFINE i == IF y = d THEN a ELSE ms[y].ancestor
               j == IF y = d /\ ms[x].async THEN ms[y].pending + 1 ELSE ms[y].pending
               s == IF y = x /\ ms[x].async THEN Append(ms[y].parents, d) ELSE ms[y].parents
    <2>3. ms2[y] = AskRec(ms[y], i, j, s)
      BY DEF AskedAt, AskRec
    <2>4. /\ i \in Nat /\ (y = d => i = a) /\ (y # d => i = ms[y].ancestor)
          /\ j \in Nat /\ (y = d /\ ms[x].async => j = ms[y].pending + 1)
          /\ (y # d \/ ~ms[x].async => j = ms[y].pending)
      BY <2>1, SMTT(30)
    <2>5. s \in Seq(Nat) /\ (y = x /\ ms[x].async => s = Append(ms[y].parents, d))
          /\ (y # x \/ ~ms[x].async => s = ms[y].parents)
      BY ONLY <2>1, <2>2
    <2> HIDE DEF i, j, s
    <2> QED BY ONLY <2>3, <2>4, <2>5
  <1>4. \A y \in 1..Len(ms) : ms[y] \in ModRec
    BY ModIs
  <1>5. ASSUME NEW y \in 1..Len(ms)
        PROVE  /\ ms2[y] \in ModRec /\ SameBase(ms[y], ms2[y]) /\ ms2[y].status = ms[y].status
               /\ ms2[y].root = ms[y].root /\ ms2[y].async = ms[y].async /\ ms2[y].timestamp = ms[y].timestamp
               /\ ms2[y].err = ms[y].err /\ ms2[y].promise = ms[y].promise
               /\ ms2[y].runs = ms[y].runs /\ ms2[y].out = ms[y].out
               /\ y = d => ms2[y].ancestor = a
               /\ y # d => ms2[y].ancestor = ms[y].ancestor
               /\ y = d /\ ms[x].async => ms2[y].pending = ms[y].pending + 1
               /\ y # d \/ ~ms[x].async => ms2[y].pending = ms[y].pending
               /\ y = x /\ ms[x].async => ms2[y].parents = Append(ms[y].parents, d)
               /\ y # x \/ ~ms[x].async => ms2[y].parents = ms[y].parents
    <2>1. PICK i \in Nat, j \in Nat, s \in Seq(Nat) :
                  /\ ms2[y] = AskRec(ms[y], i, j, s)
                  /\ y = d => i = a
                  /\ y # d => i = ms[y].ancestor
                  /\ y = d /\ ms[x].async => j = ms[y].pending + 1
                  /\ y # d \/ ~ms[x].async => j = ms[y].pending
                  /\ y = x /\ ms[x].async => s = Append(ms[y].parents, d)
                  /\ y # x \/ ~ms[x].async => s = ms[y].parents
      BY <1>3
    <2>2. ms[y] \in ModRec
      BY <1>4
    <2> DEFINE b == AskRec(ms[y], i, j, s)
    <2>3. b \in ModRec /\ SameBase(ms[y], b) /\ b.status = ms[y].status /\ b.root = ms[y].root
      BY ONLY <2>2, i \in Nat, j \in Nat, s \in Seq(Nat) DEF AskRec, ModRec, SameBase
    <2>4. /\ b.async = ms[y].async /\ b.timestamp = ms[y].timestamp /\ b.err = ms[y].err /\ b.promise = ms[y].promise
          /\ b.runs = ms[y].runs /\ b.out = ms[y].out /\ b.ancestor = i /\ b.pending = j /\ b.parents = s
      BY ONLY <2>2 DEF AskRec, ModRec
    <2> HIDE DEF b
    <2>8. ms2[y] = b
      BY <2>1 DEF b
    <2> QED BY ONLY <2>1, <2>3, <2>4, <2>8
  <1>6. ms2 = [y \in 1..Len(ms) |-> ms2[y]]
    BY DEF AskedAt
  <1>7. ms2 \in Seq(ModRec) /\ Len(ms2) = Len(ms)
    BY ONLY <1>5, <1>6, ms \in Seq(ModRec), RecordsIs
  <1> QED BY ONLY <1>5, <1>7 DEF Asks

(* The cycle D is done, and r is its root.                                 *)
FinishedAt(ms, D, r) ==
    [x \in 1..Len(ms) |->
        IF x \in D THEN [ms[x] EXCEPT !.status = IF ms[x].async THEN "async" ELSE "evaluated", !.root = r]
        ELSE ms[x]]
Finishes(ms, ms2, D, r) ==
    /\ Len(ms2) = Len(ms)
    /\ \A x \in 1..Len(ms) :
          /\ SameBase(ms[x], ms2[x]) /\ ms2[x].ancestor = ms[x].ancestor
          /\ ms2[x].pending = ms[x].pending /\ ms2[x].async = ms[x].async
          /\ ms2[x].timestamp = ms[x].timestamp /\ ms2[x].parents = ms[x].parents
          /\ ms2[x].err = ms[x].err /\ ms2[x].runs = ms[x].runs /\ ms2[x].out = ms[x].out
          /\ x \in D => /\ ms2[x].root = r /\ (ms[x].async => ms2[x].status = "async")
                        /\ (~ms[x].async => ms2[x].status = "evaluated")
          /\ x \notin D => ms2[x].status = ms[x].status /\ ms2[x].root = ms[x].root

(* Finished does that.                                                     *)
LEMMA FinishesIs ==
    ASSUME NEW ms \in Seq(ModRec), NEW D, NEW r \in 1..Len(ms), NEW ms2, ms2 = FinishedAt(ms, D, r)
    PROVE  ms2 \in Seq(ModRec) /\ Finishes(ms, ms2, D, r) /\ \A x \in 1..Len(ms) : ms2[x].promise = ms[x].promise
  <1>1. Len(ms) \in Nat /\ r \in Nat /\ \A x \in 1..Len(ms) : ms[x] \in ModRec
    BY ModIs
  <1> DEFINE Rec(a, s) == [a EXCEPT !.status = s, !.root = r]
  <1>2. ASSUME NEW a \in ModRec, NEW s \in Status
        PROVE  LET q == Rec(a, s) IN
               /\ q \in ModRec /\ SameBase(a, q) /\ q.ancestor = a.ancestor
               /\ q.pending = a.pending /\ q.async = a.async
               /\ q.timestamp = a.timestamp /\ q.parents = a.parents /\ q.runs = a.runs /\ q.out = a.out
               /\ q.status = s /\ q.err = a.err /\ q.root = r /\ q.promise = a.promise
    BY <1>1 DEF ModRec, SameBase
  <1>3. /\ \A x \in 1..Len(ms) : x \notin D => ms2[x] = ms[x]
        /\ ms2 = [x \in 1..Len(ms) |-> ms2[x]]
    BY DEF FinishedAt
  <1>4. \A x \in 1..Len(ms) : x \in D => \E s \in Status :
            ms2[x] = Rec(ms[x], s) /\ (ms[x].async => s = "async")
            /\ (~ms[x].async => s = "evaluated")
    BY DEF FinishedAt, Status
  <1> HIDE DEF Rec
  <1>5. ASSUME NEW x \in 1..Len(ms)
        PROVE  /\ ms2[x] \in ModRec /\ SameBase(ms[x], ms2[x]) /\ ms2[x].ancestor = ms[x].ancestor
               /\ ms2[x].pending = ms[x].pending /\ ms2[x].async = ms[x].async
               /\ ms2[x].timestamp = ms[x].timestamp /\ ms2[x].parents = ms[x].parents
               /\ ms2[x].err = ms[x].err /\ ms2[x].runs = ms[x].runs /\ ms2[x].out = ms[x].out
               /\ ms2[x].promise = ms[x].promise
               /\ x \in D => /\ ms2[x].root = r /\ (ms[x].async => ms2[x].status = "async")
                             /\ (~ms[x].async => ms2[x].status = "evaluated")
               /\ x \notin D => ms2[x].status = ms[x].status /\ ms2[x].root = ms[x].root
    <2>1. CASE x \in D
      <3>1. PICK s \in Status : ms2[x] = Rec(ms[x], s) /\ (ms[x].async => s = "async")
                                /\ (~ms[x].async => s = "evaluated")
        BY <1>4, <2>1
      <3>2. ms[x] \in ModRec
        BY <1>1
      <3> QED BY ONLY <1>2, <2>1, <3>1, <3>2, s \in Status
    <2>2. CASE x \notin D
      BY ONLY <1>1, <1>3, <2>2, x \in 1..Len(ms) DEF SameBase
    <2> QED BY <2>1, <2>2
  <1>6. ms2 \in Seq(ModRec) /\ Len(ms2) = Len(ms)
    BY ONLY <1>3, <1>5, ms \in Seq(ModRec), RecordsIs
  <1> QED BY ONLY <1>5, <1>6 DEF Finishes

(* The modules F fail with the error of e after their evaluation.          *)
RejectedAt(ms, F, e) ==
    [x \in 1..Len(ms) |->
        IF x \in F
        THEN [ms[x] EXCEPT !.err = e, !.status = "evaluated", !.async = FALSE, !.promise = Settled(@, "rejected")]
        ELSE ms[x]]
Rejects(ms, ms2, F, e) ==
    /\ Len(ms2) = Len(ms)
    /\ \A x \in 1..Len(ms) :
          /\ SameBase(ms[x], ms2[x]) /\ ms2[x].ancestor = ms[x].ancestor
          /\ ms2[x].pending = ms[x].pending /\ ms2[x].root = ms[x].root
          /\ ms2[x].timestamp = ms[x].timestamp /\ ms2[x].parents = ms[x].parents
          /\ ms2[x].runs = ms[x].runs
          /\ x \in F => /\ ms2[x].err = e /\ ms2[x].status = "evaluated" /\ ms2[x].async = FALSE
                        /\ ms2[x].promise = Settled(ms[x].promise, "rejected")
          /\ x \notin F => /\ ms2[x].err = ms[x].err /\ ms2[x].status = ms[x].status
                           /\ ms2[x].async = ms[x].async /\ ms2[x].promise = ms[x].promise

(* Rejected does that.                                                     *)
LEMMA RejectsIs ==
    ASSUME NEW ms \in Seq(ModRec), NEW F, NEW e \in Nat, NEW ms2, ms2 = RejectedAt(ms, F, e)
    PROVE  ms2 \in Seq(ModRec) /\ Rejects(ms, ms2, F, e) /\ \A x \in 1..Len(ms) : ms2[x].out = ms[x].out
  <1>1. Len(ms) \in Nat /\ \A x \in 1..Len(ms) : ms[x] \in ModRec
    BY ModIs
  <1> DEFINE Rec(a, p) == [a EXCEPT !.err = e, !.status = "evaluated", !.async = FALSE, !.promise = p]
  <1>2. "evaluated" \in Status /\ FALSE \in BOOLEAN
    BY DEF Status
  <1>3. /\ \A x \in 1..Len(ms) : x \notin F => ms2[x] = ms[x]
        /\ ms2 = [x \in 1..Len(ms) |-> ms2[x]]
    BY DEF RejectedAt
  <1>4. ASSUME NEW x \in 1..Len(ms)
        PROVE  x \in F => \E p \in {"none", "pending", "fulfilled", "rejected"} :
                 /\ p = Settled(ms[x].promise, "rejected")
                 /\ ms2[x] = Rec(ms[x], p)
    <2>1. ms[x].promise \in {"none", "pending", "fulfilled", "rejected"}
      BY ModIs
    <2>2. Settled(ms[x].promise, "rejected") \in {"none", "pending", "fulfilled", "rejected"}
      BY <2>1 DEF Settled
    <2>3. x \in F => ms2[x] = Rec(ms[x], Settled(ms[x].promise, "rejected"))
      BY DEF RejectedAt
    <2> HIDE DEF Rec
    <2> QED BY ONLY <2>2, <2>3
  <1> HIDE DEF Rec
  <1>5. ASSUME NEW x \in 1..Len(ms)
        PROVE  /\ ms2[x] \in ModRec /\ SameBase(ms[x], ms2[x]) /\ ms2[x].ancestor = ms[x].ancestor
               /\ ms2[x].pending = ms[x].pending /\ ms2[x].root = ms[x].root
               /\ ms2[x].timestamp = ms[x].timestamp /\ ms2[x].parents = ms[x].parents
               /\ ms2[x].runs = ms[x].runs /\ ms2[x].out = ms[x].out
               /\ x \in F => /\ ms2[x].err = e /\ ms2[x].status = "evaluated" /\ ms2[x].async = FALSE
                             /\ ms2[x].promise = Settled(ms[x].promise, "rejected")
               /\ x \notin F => /\ ms2[x].err = ms[x].err /\ ms2[x].status = ms[x].status
                                /\ ms2[x].async = ms[x].async /\ ms2[x].promise = ms[x].promise
    <2>1. CASE x \in F
      <3>1. PICK p \in {"none", "pending", "fulfilled", "rejected"} :
                 /\ p = Settled(ms[x].promise, "rejected")
                 /\ ms2[x] = Rec(ms[x], p)
        BY <1>4, <2>1
      <3>2. ms[x] \in ModRec
        BY <1>1
      <3>3. ms2[x] = [ms[x] EXCEPT !.err = e, !.status = "evaluated", !.async = FALSE, !.promise = p]
        BY ONLY <3>1 DEF Rec
      <3>4. LET q == ms2[x] IN
               /\ q \in ModRec /\ SameBase(ms[x], q) /\ q.ancestor = ms[x].ancestor
               /\ q.pending = ms[x].pending /\ q.async = FALSE
               /\ q.timestamp = ms[x].timestamp /\ q.parents = ms[x].parents
               /\ q.runs = ms[x].runs /\ q.out = ms[x].out
               /\ q.status = "evaluated" /\ q.err = e /\ q.root = ms[x].root /\ q.promise = p
        BY ONLY <1>2, <3>2, <3>3, p \in {"none", "pending", "fulfilled", "rejected"}, e \in Nat, ZenonT(60)
           DEF ModRec, SameBase
      <3> QED BY ONLY <2>1, <3>1, <3>4
    <2>2. CASE x \notin F
      BY ONLY <1>1, <1>3, <2>2, x \in 1..Len(ms) DEF SameBase
    <2> QED BY <2>1, <2>2
  <1>6. ms2 \in Seq(ModRec) /\ Len(ms2) = Len(ms)
    BY ONLY <1>3, <1>5, ms \in Seq(ModRec), RecordsIs
  <1> QED BY ONLY <1>5, <1>6 DEF Rejects
-----------------------------------------------------------------------------
(* The steps that evaluate.                                                *)

LEMMA EvalOp ==
    /\ WalkOp("evaluating") = "js_evaluate_module" /\ "evaluating" \in {"linking", "evaluating"}
    /\ "js_evaluate_module" \in Base /\ "evaluating" \in Status
  BY DEF WalkOp, Base, Status

(* References are kept when links and parents are.                         *)
LEMMA RefsKept ==
    ASSUME NEW w, NEW ms \in Seq(ModRec), NEW ms2 \in Seq(ModRec), Len(ms2) = Len(ms),
           LinksOK(w, ms), ParentsIn(ms), Grows(ms, ms2), \A x \in 1..Len(ms) : ms2[x].links = ms[x].links
    PROVE  LinksOK(w, ms2) /\ ((\A x \in 1..Len(ms) : ms2[x].parents = ms[x].parents) => ParentsIn(ms2))
  <1>1. LinksOK(w, ms2)
    BY ONLY Len(ms2) = Len(ms), LinksOK(w, ms), Grows(ms, ms2), \A x \in 1..Len(ms) : ms2[x].links = ms[x].links, SMTT(30)
       DEF LinksOK, Grows
  <1>2. (\A x \in 1..Len(ms) : ms2[x].parents = ms[x].parents) => ParentsIn(ms2)
    BY ONLY Len(ms2) = Len(ms), ParentsIn(ms), Grows(ms, ms2) DEF ParentsIn, Grows
  <1> QED BY <1>1, <1>2

(* The root of a cycle that ended.                                         *)
LEMMA RootIs ==
    ASSUME ShapeInv, NEW x \in 1..Len(mods), mods[x].root # 0 \/ mods[x].status \in Ended
    PROVE  /\ mods[x].root \in 1..Len(mods) /\ mods[x].status \in Ended
           /\ mods[mods[x].root].root = mods[x].root /\ mods[mods[x].root].status \in Ended
  <1>1. RootsOK(mods) /\ Len(mods) \in Nat
    BY ShapeIs
  <1>2. mods[x].root # 0 /\ mods[x].root \in 1..Len(mods) /\ mods[x].status \in Ended
    BY <1>1 DEF RootsOK
  <1>3. mods[mods[x].root].root = mods[x].root
    BY <1>1, <1>2, SMTT(30) DEF RootsOK
  <1> QED BY ONLY <1>1, <1>2, <1>3 DEF RootsOK

(* What js_evaluate_module does.                                           *)
Answers(r, p) ==
    /\ stk' = Pop /\ r = mods[Top.d].root /\ mods[r].root = r /\ r \in 1..Len(mods)
    /\ mods[r].promise = "none" /\ mods[r].status \in Ended /\ Promises(mods, mods', r, p)
    /\ mods[r].err # 0 => p = "rejected"
    /\ mods[r].err = 0 /\ mods[r].async => p = "pending"
    /\ mods[r].err = 0 /\ ~mods[r].async => p = "fulfilled"
Begins(d) ==
    /\ stk' = Enter(d) /\ mods[d].status = "linked" /\ mods[d].promise = "none"
    /\ Enters(mods, mods', d, Top.i, "evaluating") /\ mods'[d].promise = "pending"

(* js_evaluate_module answers with the promise there is, makes one, or     *)
(* begins.                                                                 *)
LEMMA js_evaluate_moduleStep ==
    ASSUME ShapeInv, js_evaluate_module
    PROVE  /\ Is("js_evaluate_module") /\ stk # <<>> /\ Top.op = "js_evaluate_module" /\ Top.path = <<>>
           /\ Top.list = <<>> /\ Top.body = 0 /\ Top.d \in 1..Len(mods)
           /\ mods' \in Seq(ModRec) /\ UNCHANGED <<world, loaded, jobs, awaiting, clock>>
           /\ \/ stk' = Pop /\ mods' = mods
              \/ \E r, p : Answers(r, p)
              \/ Begins(Top.d)
  <1> DEFINE d == Top.d
             r == IF mods[d].status \in {"async", "evaluated"} THEN mods[d].root ELSE d
  <1>1. /\ Is("js_evaluate_module") /\ Top.path = <<>> /\ UNCHANGED <<world, loaded, jobs, awaiting, clock>>
        /\ \/ stk' = Pop /\ UNCHANGED mods
           \/ /\ mods[r].promise = "none" /\ mods[r].status \in {"async", "evaluated"} /\ stk' = Pop
              /\ mods' = CASE mods[r].err # 0 -> [mods EXCEPT ![r].promise = "rejected"]
                           [] mods[r].err = 0 /\ mods[r].async -> [mods EXCEPT ![r].promise = "pending"]
                           [] OTHER -> [mods EXCEPT ![r].promise = "fulfilled"]
           \/ /\ mods[r].promise = "none" /\ mods[r].status = "linked" /\ stk' = Enter(r)
              /\ mods' = [Entered(r, "evaluating") EXCEPT ![r].promise = "pending"]
    BY ZenonT(60) DEF js_evaluate_module
  <1>2. stk # <<>> /\ Top.op = "js_evaluate_module" /\ Top.body = 0
    BY <1>1 DEF Is
  <1>3. d \in 1..Len(mods) /\ WalkOK(mods, Top, "evaluating") /\ Top \in CallRec
    BY <1>2, EvalOp, WalkIs, SMTT(30)
  <1>4. Top.list = <<>> /\ Top.i \in Nat
    BY <1>1, <1>3, CallFields DEF WalkOK, PathOK
  <1>5. mods \in Seq(ModRec)
    BY ShapeIs
  <1>6. CASE stk' = Pop /\ UNCHANGED mods
    BY <1>1, <1>2, <1>3, <1>4, <1>5, <1>6
  <1>7. CASE /\ mods[r].promise = "none" /\ mods[r].status \in {"async", "evaluated"} /\ stk' = Pop
             /\ mods' = CASE mods[r].err # 0 -> [mods EXCEPT ![r].promise = "rejected"]
                          [] mods[r].err = 0 /\ mods[r].async -> [mods EXCEPT ![r].promise = "pending"]
                          [] OTHER -> [mods EXCEPT ![r].promise = "fulfilled"]
    <2>1. mods[d].status \in Ended
      BY <1>7 DEF Ended
    <2>2. r = mods[d].root /\ r \in 1..Len(mods) /\ mods[r].root = r /\ mods[r].status \in Ended
      BY <1>3, <2>1, RootIs DEF Ended
    <2> HIDE DEF r
    <2>3. \E p \in {"none", "pending", "fulfilled", "rejected"} :
             /\ mods' = Promised(mods, r, p)
             /\ mods[r].err # 0 => p = "rejected"
             /\ mods[r].err = 0 /\ mods[r].async => p = "pending"
             /\ mods[r].err = 0 /\ ~mods[r].async => p = "fulfilled"
      BY ONLY <1>7 DEF Promised
    <2>4. PICK p \in {"none", "pending", "fulfilled", "rejected"} :
             /\ mods' = Promised(mods, r, p)
             /\ mods[r].err # 0 => p = "rejected"
             /\ mods[r].err = 0 /\ mods[r].async => p = "pending"
             /\ mods[r].err = 0 /\ ~mods[r].async => p = "fulfilled"
      BY <2>3
    <2>5. mods' \in Seq(ModRec) /\ Promises(mods, mods', r, p)
      BY ONLY <1>5, <2>2, <2>4, p \in {"none", "pending", "fulfilled", "rejected"}, PromisesIs, SMTT(30)
    <2>6. Answers(r, p)
      BY ONLY <1>7, <2>2, <2>4, <2>5 DEF Answers
    <2> QED BY ONLY <1>1, <1>2, <1>3, <1>4, <2>5, <2>6, SMTT(30)
  <1>8. CASE /\ mods[r].promise = "none" /\ mods[r].status = "linked" /\ stk' = Enter(r)
             /\ mods' = [Entered(r, "evaluating") EXCEPT ![r].promise = "pending"]
    <2>1. r = d
      <3>1. mods[d].status \in Ended => FALSE
        <4>1. SUFFICES ASSUME mods[d].status \in Ended PROVE FALSE
          OBVIOUS
        <4>2. r = mods[d].root /\ mods[mods[d].root].status \in Ended
          BY <1>3, <4>1, RootIs DEF Ended
        <4> QED BY <1>8, <4>2 DEF Ended
      <3> QED BY <3>1, SMTT(30) DEF Ended
    <2> HIDE DEF r
    <2> DEFINE m1 == EnteredAt(mods, d, Top.i, "evaluating")
    <2>2. m1 = Entered(d, "evaluating")
      BY DEF EnteredAt, Entered
    <2>3. mods' = Promised(m1, d, "pending") /\ m1 = EnteredAt(mods, d, Top.i, "evaluating")
      BY <1>8, <2>1, <2>2 DEF Promised
    <2> HIDE DEF m1
    <2>4. m1 \in Seq(ModRec) /\ Enters(mods, m1, d, Top.i, "evaluating")
      BY ONLY <1>3, <1>4, <1>5, <2>3, EvalOp, EntersIs
    <2>5. Len(m1) = Len(mods)
      BY <2>4 DEF Enters
    <2>6. mods' \in Seq(ModRec) /\ Promises(m1, mods', d, "pending")
      BY ONLY <1>3, <2>3, <2>4, <2>5, PromisesIs
    <2>7. Enters(mods, mods', d, Top.i, "evaluating") /\ mods'[d].promise = "pending"
      <3>1. Len(mods') = Len(mods)
        BY <2>5, <2>6, SMTT(30) DEF Promises
      <3>2. OthersSame(mods, mods', {d})
        BY ONLY <2>4, <2>5, <2>6 DEF Enters, Promises, OthersSame, SameMod, SameShape, SameEval
      <3> QED BY ONLY <2>4, <2>6, <3>1, <3>2 DEF Enters, Promises, SameShape
    <2>8. Begins(d)
      BY ONLY <1>8, <2>1, <2>7 DEF Begins
    <2> QED BY ONLY <1>1, <1>2, <1>3, <1>4, <2>6, <2>8
  <1> QED BY <1>1, <1>6, <1>7, <1>8, ZenonT(60)

(* js_evaluate_module keeps the shape.                                     *)
LEMMA js_evaluate_moduleShape ==
    ASSUME ShapeInv, js_evaluate_module
    PROVE  ShapeInv'
  <1>1. /\ Is("js_evaluate_module") /\ stk # <<>> /\ Top.op = "js_evaluate_module" /\ Top.path = <<>>
        /\ Top.list = <<>> /\ Top.body = 0 /\ Top.d \in 1..Len(mods)
        /\ mods' \in Seq(ModRec) /\ UNCHANGED <<world, loaded, jobs, awaiting, clock>>
        /\ \/ stk' = Pop /\ mods' = mods
           \/ \E r, p : Answers(r, p)
           \/ Begins(Top.d)
    BY js_evaluate_moduleStep
  <1>2. CASE (stk' = Pop /\ mods' = mods) \/ \E r, p : Answers(r, p)
    <2>1. /\ stk' = Pop /\ Len(mods') = Len(mods)
          /\ \A x \in 1..Len(mods) : /\ SameShape(mods[x], mods'[x])
                                     /\ mods'[x].links = mods[x].links /\ mods'[x].parents = mods[x].parents
                                     /\ mods'[x].root = mods[x].root /\ mods'[x].err = mods[x].err
                                     /\ mods'[x].status = mods[x].status
      BY ONLY <1>2 DEF Answers, Promises, OthersSame, SameMod, SameShape, SameEval
    <2>2. Grows(mods, mods')
      BY <2>1, ShapeIs DEF Grows, SameShape
    <2>3. LinksOK(world, mods') /\ ParentsIn(mods') /\ RootsOK(mods')
      BY ONLY ShapeInv, ShapeIs, <1>1, <2>1, <2>2, RefsSame
    <2>4. \A x : ~Has(Top.list, x)
      BY <1>1, EmptyHas
    <2> QED BY ONLY ShapeInv, <1>1, <2>1, <2>2, <2>3, <2>4, EvalOp, PopShape
  <1>3. CASE Begins(Top.d)
    <2>1. mods[Top.d].status \in Fresh \ {"evaluating"} /\ mods[Top.d].status # "linking"
      BY <1>3 DEF Begins, Fresh
    <2>2. stk' = Enter(Top.d) /\ Enters(mods, mods', Top.d, Top.i, "evaluating")
      BY <1>3 DEF Begins
    <2> QED BY ONLY ShapeInv, <1>1, <2>1, <2>2, EvalOp, EnterShape
  <1> QED BY <1>1, <1>2, <1>3
(* The module that the evaluation is at.                                   *)
LEMMA EvalWithin ==
    ASSUME ShapeInv, Within("js_evaluate_module")
    PROVE  /\ stk # <<>> /\ Top \in CallRec /\ Top.op = "js_evaluate_module" /\ Top.body = 0 /\ Top.path # <<>>
           /\ Cur = Last(Top.path) /\ Cur = Top.path[Len(Top.path)] /\ Len(Top.path) \in 1..Len(Top.path)
           /\ Cur.d \in 1..Len(mods) /\ Cur.i \in Nat \ {0} /\ Has(Top.list, Cur.d)
           /\ WalkOK(mods, Top, "evaluating") /\ CallIn(mods, Top) /\ Is("js_evaluate_module")
           /\ \A x : Has(Top.list, x) => x \in 1..Len(mods) /\ mods[x].status = "evaluating"
                                         /\ mods[x].name \in NeedsOf(world, Top.n)
           /\ Top.list # <<>> /\ Has(Top.list, Top.list[1]) /\ Top.list[1] \in 1..Len(mods)
           /\ \A x : x \in ToSet(Top.list) <=> Has(Top.list, x)
  <1>1. /\ stk # <<>> /\ Top \in CallRec /\ Top.op = "js_evaluate_module" /\ Top.body = 0 /\ Top.path # <<>>
        /\ Cur = Last(Top.path) /\ Cur.d \in 1..Len(mods) /\ Cur.i \in Nat \ {0} /\ Has(Top.list, Cur.d)
    BY WithinIs
  <1>2. Is("js_evaluate_module")
    BY DEF Within
  <1>3. /\ WalkOK(mods, Top, "evaluating") /\ CallIn(mods, Top)
        /\ \A x : Has(Top.list, x) => x \in 1..Len(mods) /\ mods[x].status = "evaluating"
                                      /\ mods[x].name \in NeedsOf(world, Top.n)
    BY ONLY ShapeInv, <1>1, EvalOp, WalkIs
  <1>4. Len(Top.path) \in 1..Len(Top.path) /\ Cur = Top.path[Len(Top.path)] /\ Top.list \in Seq(Nat)
    BY <1>1, CallFields
  <1>5. Top.list # <<>>
    BY <1>1, <1>3 DEF WalkOK, PathOK
  <1>6. 1 \in 1..Len(Top.list)
    BY <1>1, <1>5, CallFields
  <1>7. Has(Top.list, Top.list[1])
    BY <1>6 DEF Has
  <1>8. \A x : x \in ToSet(Top.list) <=> Has(Top.list, x)
    BY <1>4, ToSetHas
  <1> QED BY <1>1, <1>2, <1>3, <1>4, <1>5, <1>7, <1>8

(* The evaluation of a call fails.                                         *)
LEMMA AbandonIs ==
    ASSUME ShapeInv, stk # <<>>, Top.op = "js_evaluate_module", Top.list # <<>>,
           NEW ms \in Seq(ModRec), Len(ms) = Len(mods), NEW e \in Nat, AbandonEvaluation(ms, e)
    PROVE  /\ mods' \in Seq(ModRec) /\ Fails(ms, mods', ToSet(Top.list), e, Top.list[1]) /\ stk' = Pop
           /\ \A x \in 1..Len(ms) : mods'[x].out = ms[x].out
  <1>1. Top.list[1] \in 1..Len(mods)
    <2>1. Top \in CallRec /\ CallIn(mods, Top)
      BY ONLY ShapeInv, stk # <<>>, Top.op = "js_evaluate_module", EvalOp, WalkIs
    <2> QED BY <2>1, CallFields DEF CallIn
  <1>2. DOMAIN ms = 1..Len(ms)
    BY LenProperties
  <1>3. stk' = Pop /\ mods' = Promised(FailedAt(ms, ToSet(Top.list), e, Top.list[1]), Top.list[1], "rejected")
    BY <1>2 DEF AbandonEvaluation, FailedAt, Promised
  <1> QED BY ONLY <1>1, <1>3, ms \in Seq(ModRec), Len(ms) = Len(mods), e \in Nat, FailsIs

(* An evaluation that fails keeps the shape.                               *)
LEMMA AbandonShape ==
    ASSUME ShapeInv, stk # <<>>, Top.op = "js_evaluate_module", Top.list # <<>>,
           NEW e \in 1..Len(mods), Fails(mods, mods', ToSet(Top.list), e, Top.list[1]),
           mods' \in Seq(ModRec), stk' = Pop,
           world' = world, loaded' = loaded, awaiting' = awaiting, clock' = clock, jobs' = jobs
    PROVE  ShapeInv'
  <1>1. /\ Top \in CallRec /\ CallIn(mods, Top)
        /\ \A x : Has(Top.list, x) => x \in 1..Len(mods) /\ mods[x].status = "evaluating"
    BY ONLY ShapeInv, stk # <<>>, Top.op = "js_evaluate_module", EvalOp, WalkIs
  <1>2. \A x : x \in ToSet(Top.list) <=> Has(Top.list, x)
    BY <1>1, CallFields, ToSetHas
  <1>3. 1 \in 1..Len(Top.list)
    BY <1>1, CallFields
  <1> DEFINE r == Top.list[1]
  <1>4. Has(Top.list, r) /\ r \in 1..Len(mods)
    BY <1>1, <1>3 DEF Has
  <1> HIDE DEF r
  <1>5. /\ Len(mods') = Len(mods)
        /\ \A x \in 1..Len(mods) :
             /\ SameBase(mods[x], mods'[x]) /\ mods'[x].ancestor = mods[x].ancestor
             /\ mods'[x].parents = mods[x].parents
             /\ Has(Top.list, x) => mods'[x].status = "evaluated" /\ mods'[x].err = e /\ mods'[x].root = r
             /\ ~Has(Top.list, x) => mods'[x].status = mods[x].status /\ mods'[x].err = mods[x].err
                                     /\ mods'[x].root = mods[x].root
    BY ONLY <1>2, Fails(mods, mods', ToSet(Top.list), e, Top.list[1]) DEF Fails, r
  <1>6. Grows(mods, mods')
    BY ONLY <1>1, <1>5, ShapeInv, ShapeIs DEF Grows, Begun, SameBase
  <1>7. LinksOK(world, mods') /\ ParentsIn(mods')
    <2>1. mods \in Seq(ModRec) /\ LinksOK(world, mods) /\ ParentsIn(mods)
      BY ShapeIs
    <2>2. \A x \in 1..Len(mods) : mods'[x].links = mods[x].links
      BY ONLY <1>5 DEF SameBase
    <2>3. Len(mods') = Len(mods) /\ \A x \in 1..Len(mods) : mods'[x].parents = mods[x].parents
      BY ONLY <1>5
    <2> QED BY ONLY <1>6, <2>1, <2>2, <2>3, RefsKept, mods' \in Seq(ModRec)
  <1>8. RootsOK(mods')
    <2>1. RootsOK(mods) /\ Len(mods) \in Nat
      BY ShapeIs
    <2>2. ASSUME NEW x \in 1..Len(mods), ~Has(Top.list, x)
          PROVE  /\ mods'[x].root \in 0..Len(mods) /\ mods'[x].err \in 0..Len(mods)
                 /\ mods'[x].root # 0 <=> mods'[x].status \in Ended
                 /\ mods'[x].root # 0 => mods'[mods'[x].root].root = mods'[x].root
      <3>1. mods'[x].root = mods[x].root /\ mods'[x].err = mods[x].err /\ mods'[x].status = mods[x].status
        BY <1>5, <2>2
      <3>2. mods[x].root \in 0..Len(mods) /\ mods[x].err \in 0..Len(mods)
            /\ (mods[x].root # 0 <=> mods[x].status \in Ended)
        BY <2>1 DEF RootsOK
      <3>3. ASSUME mods[x].root # 0 PROVE mods'[mods[x].root].root = mods[x].root
        <4>1. mods[x].root \in 1..Len(mods) /\ mods[mods[x].root].root = mods[x].root /\ mods[mods[x].root].status \in Ended
          BY <3>3, RootIs
        <4>2. ~Has(Top.list, mods[x].root)
          BY <1>1, <4>1 DEF Ended
        <4> QED BY <1>5, <4>1, <4>2
      <3> QED BY <3>1, <3>2, <3>3
    <2>3. ASSUME NEW x \in 1..Len(mods), Has(Top.list, x)
          PROVE  /\ mods'[x].root \in 0..Len(mods) /\ mods'[x].err \in 0..Len(mods)
                 /\ mods'[x].root # 0 <=> mods'[x].status \in Ended
                 /\ mods'[x].root # 0 => mods'[mods'[x].root].root = mods'[x].root
      <3>1. mods'[x].root = r /\ mods'[x].err = e /\ mods'[x].status = "evaluated" /\ mods'[r].root = r
        BY <1>4, <1>5, <2>3
      <3>2. r \in 0..Len(mods) /\ e \in 0..Len(mods) /\ r # 0
        BY <1>4, <2>1
      <3> QED BY <3>1, <3>2 DEF Ended
    <2> QED BY ONLY <1>5, <2>2, <2>3 DEF RootsOK
  <1>9. \A x \in 1..Len(mods) : ~Has(Top.list, x) => SameShape(mods[x], mods'[x])
    BY ONLY <1>5 DEF SameShape, SameBase
  <1>10. \A x \in 1..Len(mods) : Has(Top.list, x) => mods'[x].status \notin {"linking", "evaluating"}
    BY <1>5
  <1>11. UNCHANGED <<world, loaded, jobs, awaiting, clock>>
    OBVIOUS
  <1> QED BY ONLY ShapeInv, stk # <<>>, Top.op = "js_evaluate_module", mods' \in Seq(ModRec), stk' = Pop,
                  <1>5, <1>6, <1>7, <1>8, <1>9, <1>10, <1>11, EvalOp, PopShape
(* What evaluateRequest does.                                              *)
Descends(m) ==
    /\ stk' = Enter(m) /\ mods[m].status = "linked"
    /\ Enters(mods, mods', m, Top.i, "evaluating") /\ mods'[m].promise = mods[m].promise
GivesUp(m, e) ==
    /\ stk' = Pop /\ e \in 1..Len(mods) /\ Fails(mods, mods', ToSet(Top.list), e, Top.list[1])
    /\ mods[m].status \in Ended /\ (e = mods[m].err \/ e = mods[mods[m].root].err)
    /\ \A x \in 1..Len(mods) : mods'[x].out = mods[x].out
Continues(m, x, a) ==
    /\ stk' = WithTop(Advance(Top)) /\ Asks(mods, mods', Cur.d, x, a) /\ x \in 1..Len(mods) /\ a \in Nat
    /\ mods[m].status \in Begun
    /\ mods[m].status = "evaluating" => x = m /\ a = MinOf(mods[Cur.d].ancestor, mods[m].ancestor)
    /\ mods[m].status # "evaluating" =>
          x = mods[m].root /\ a = mods[Cur.d].ancestor /\ mods[m].err = 0 /\ mods[x].err = 0

(* A request is descended into, fails the evaluation, or is done.          *)
LEMMA evaluateRequestStep ==
    ASSUME ShapeInv, evaluateRequest
    PROVE  /\ Within("js_evaluate_module") /\ Cur.i \in 1..Len(mods[Cur.d].links)
           /\ Child \in 1..Len(mods) /\ mods[Child].name \in NeedsOf(world, Top.n)
           /\ mods' \in Seq(ModRec) /\ UNCHANGED <<world, loaded, jobs, awaiting, clock>>
           /\ \/ Descends(Child)
              \/ \E e : GivesUp(Child, e)
              \/ \E x, a : Continues(Child, x, a)
  <1> DEFINE m == Child
             x == IF mods[m].status = "evaluating" THEN m ELSE mods[m].root
  <1>1. /\ Visiting("js_evaluate_module") /\ UNCHANGED <<world, loaded, jobs, awaiting, clock>>
        /\ \/ /\ mods[m].status = "linked"
              /\ mods' = Entered(m, "evaluating")
              /\ stk' = Enter(m)
           \/ /\ mods[m].status \in {"async", "evaluated"}
              /\ \/ mods[m].err # 0 /\ AbandonEvaluation(mods, mods[m].err)
                 \/ mods[m].err = 0 /\ mods[x].err # 0 /\ AbandonEvaluation(mods, mods[x].err)
           \/ /\ mods[m].status \in {"evaluating", "async", "evaluated"}
              /\ mods[m].status # "evaluating" => mods[m].err = 0 /\ mods[x].err = 0
              /\ mods' = Requests(Cur.d, m, x)
              /\ stk' = WithTop(Advance(Top))
    BY DEF evaluateRequest
  <1>2. m \in 1..Len(mods) /\ mods[m].name \in NeedsOf(world, Top.n) /\ Cur.i \in 1..Len(mods[Cur.d].links)
    BY <1>1, EvalOp, ChildIs
  <1>3. Within("js_evaluate_module")
    BY <1>1 DEF Visiting
  <1>4. stk # <<>> /\ Top.op = "js_evaluate_module" /\ Top \in CallRec /\ Top.list # <<>> /\ Cur.d \in 1..Len(mods)
    BY <1>3, EvalWithin
  <1>5. mods \in Seq(ModRec) /\ Top.i \in Nat
    BY <1>4, ShapeIs, CallFields
  <1> HIDE DEF m, x
  <1>6. CASE mods[m].status = "linked" /\ mods' = Entered(m, "evaluating") /\ stk' = Enter(m)
    <2>1. mods' = EnteredAt(mods, m, Top.i, "evaluating")
      BY <1>6 DEF Entered, EnteredAt
    <2>2. mods' \in Seq(ModRec) /\ Enters(mods, mods', m, Top.i, "evaluating") /\ mods'[m].promise = mods[m].promise
      BY ONLY <1>2, <1>5, <2>1, EvalOp, EntersIs
    <2>3. Descends(m)
      BY ONLY <1>6, <2>2 DEF Descends
    <2> QED BY ONLY <1>1, <1>2, <1>3, <2>2, <2>3 DEF m
  <1>7. CASE /\ mods[m].status \in {"async", "evaluated"}
             /\ \/ mods[m].err # 0 /\ AbandonEvaluation(mods, mods[m].err)
                \/ mods[m].err = 0 /\ mods[x].err # 0 /\ AbandonEvaluation(mods, mods[x].err)
    <2>1. x = mods[m].root /\ mods[m].status \in Ended
      BY <1>7 DEF x, Ended
    <2>2. x \in 1..Len(mods)
      BY <1>2, <2>1, RootIs
    <2>3. \A y \in 1..Len(mods) : mods[y].err # 0 => mods[y].err \in 1..Len(mods) /\ mods[y].err \in Nat
      BY ShapeIs DEF RootsOK
    <2>4. PICK e \in Nat : e \in 1..Len(mods) /\ AbandonEvaluation(mods, e) /\ (e = mods[m].err \/ e = mods[x].err)
      BY ONLY <1>2, <1>7, <2>2, <2>3
    <2>5. /\ mods' \in Seq(ModRec) /\ Fails(mods, mods', ToSet(Top.list), e, Top.list[1]) /\ stk' = Pop
          /\ \A y \in 1..Len(mods) : mods'[y].out = mods[y].out
      BY ONLY ShapeInv, <1>4, <1>5, <2>4, e \in Nat, AbandonIs
    <2>6. GivesUp(m, e)
      BY ONLY <2>1, <2>4, <2>5 DEF GivesUp
    <2> QED BY ONLY <1>1, <1>2, <1>3, <2>5, <2>6 DEF m
  <1>8. CASE /\ mods[m].status \in {"evaluating", "async", "evaluated"}
             /\ mods[m].status # "evaluating" => mods[m].err = 0 /\ mods[x].err = 0
             /\ mods' = Requests(Cur.d, m, x)
             /\ stk' = WithTop(Advance(Top))
    <2>1. x \in 1..Len(mods) /\ (mods[m].status = "evaluating" => x = m) /\ (mods[m].status # "evaluating" => x = mods[m].root)
      <3>1. mods[m].status # "evaluating" => mods[m].root \in 1..Len(mods)
        BY <1>2, <1>8, RootIs DEF Ended
      <3> QED BY <1>2, <3>1 DEF x
    <2> DEFINE d == Cur.d
               a == IF mods[m].status = "evaluating" THEN MinOf(mods[d].ancestor, mods[m].ancestor) ELSE mods[d].ancestor
    <2>2. a \in Nat /\ (mods[m].status = "evaluating" => a = MinOf(mods[d].ancestor, mods[m].ancestor))
          /\ (mods[m].status # "evaluating" => a = mods[d].ancestor)
      BY <1>2, <1>4, <1>5, ModIs, SMTT(30) DEF MinOf
    <2>3. mods' = AskedAt(mods, d, x, a)
      <3>1. Defs = 1..Len(mods)
        BY DEF Defs
      <3>2. \A y \in 1..Len(mods) : (IF y = d /\ mods[m].status = "evaluating" THEN MinOf(mods[y].ancestor, mods[m].ancestor) ELSE mods[y].ancestor)
                                    = (IF y = d THEN a ELSE mods[y].ancestor)
        BY ONLY <2>2
      <3> HIDE DEF a, d
      <3>3. mods' = Requests(d, m, x)
        BY <1>8 DEF d
      <3> QED BY ONLY <3>1, <3>2, <3>3 DEF Requests, AskedAt
    <2> HIDE DEF a
    <2>4. mods' \in Seq(ModRec) /\ Asks(mods, mods', d, x, a)
      BY ONLY <1>4, <1>5, <2>1, <2>2, <2>3, AsksIs
    <2>5. Continues(m, x, a)
      BY ONLY <1>8, <2>1, <2>2, <2>4 DEF Continues, Begun
    <2> QED BY ONLY <1>1, <1>2, <1>3, <2>4, <2>5 DEF m
  <1> QED BY ONLY <1>1, <1>6, <1>7, <1>8

(* A request that is done keeps the shape.                                 *)
LEMMA ContinuesShape ==
    ASSUME ShapeInv, Within("js_evaluate_module"), Cur.i \in 1..Len(mods[Cur.d].links),
           Child \in 1..Len(mods), mods' \in Seq(ModRec), UNCHANGED <<world, loaded, jobs, awaiting, clock>>,
           NEW x, NEW a, Continues(Child, x, a), Has(Top.list, Child) \/ mods[Child].status # "evaluating"
    PROVE  ShapeInv'
  <1> DEFINE d == Cur.d
             m == Child
  <1>1. /\ stk # <<>> /\ Top \in CallRec /\ Top.path # <<>> /\ d \in 1..Len(mods) /\ Has(Top.list, d)
        /\ WalkOK(mods, Top, "evaluating") /\ mods[d].status = "evaluating" /\ Top.body = 0
        /\ Top.list # <<>>
    BY EvalWithin
  <1>2. /\ stk' = WithTop(Advance(Top)) /\ Asks(mods, mods', d, x, a) /\ x \in 1..Len(mods) /\ a \in Nat
        /\ mods[m].status = "evaluating" => a = MinOf(mods[d].ancestor, mods[m].ancestor)
        /\ mods[m].status # "evaluating" => a = mods[d].ancestor
    BY DEF Continues
  <1>3. /\ Len(mods') = Len(mods)
        /\ \A y \in 1..Len(mods) :
              /\ SameBase(mods[y], mods'[y]) /\ mods'[y].status = mods[y].status
              /\ mods'[y].root = mods[y].root /\ mods'[y].err = mods[y].err
              /\ y # d => mods'[y].ancestor = mods[y].ancestor
        /\ mods'[d].ancestor = a
    BY ONLY <1>1, <1>2 DEF Asks
  <1>4. \A y \in 1..Len(mods) : mods'[y].parents = mods[y].parents \/ mods'[y].parents = Append(mods[y].parents, d)
    BY ONLY <1>2 DEF Asks
  <1>5. Grows(mods, mods')
    BY ONLY <1>3, ShapeInv, ShapeIs DEF Grows, SameBase
  <1>6. LinksOK(world, mods')
    <2>1. mods \in Seq(ModRec) /\ LinksOK(world, mods) /\ ParentsIn(mods)
      BY ShapeIs
    <2>2. \A y \in 1..Len(mods) : mods'[y].links = mods[y].links
      BY ONLY <1>3 DEF SameBase
    <2> QED BY ONLY <1>3, <1>5, <2>1, <2>2, RefsKept, mods' \in Seq(ModRec)
  <1>7. ParentsIn(mods')
    <2> SUFFICES ASSUME NEW y \in 1..Len(mods), NEW j \in 1..Len(mods'[y].parents)
                 PROVE  mods'[y].parents[j] \in 1..Len(mods) /\ mods[mods'[y].parents[j]].status \in Begun
      BY <1>3 DEF ParentsIn
    <2>1. ParentsIn(mods) /\ mods[y].parents \in Seq(Nat) /\ d \in Nat
      BY <1>1, ShapeIs, ModIs, SMTT(30)
    <2>2. CASE mods'[y].parents = mods[y].parents
      BY <2>1, <2>2 DEF ParentsIn
    <2>3. CASE mods'[y].parents = Append(mods[y].parents, d)
      <3>1. \/ j \in 1..Len(mods[y].parents) /\ mods'[y].parents[j] = mods[y].parents[j]
            \/ mods'[y].parents[j] = d
        BY <2>1, <2>3, AppendIs, SMTT(30)
      <3>2. mods[d].status \in Begun
        BY <1>1 DEF Begun
      <3> QED BY <1>1, <2>1, <3>1, <3>2 DEF ParentsIn
    <2> QED BY <1>4, <2>2, <2>3
  <1>8. RootsOK(mods')
    <2>1. RootsOK(mods)
      BY ShapeIs
    <2> QED BY ONLY <1>3, <2>1 DEF RootsOK
  <1>9. mods[Top.list[1]].dfs <= a /\ a <= mods[d].dfs
    <2>1. ASSUME NEW y, Has(Top.list, y)
          PROVE  mods[Top.list[1]].dfs <= mods[y].ancestor /\ mods[y].ancestor <= mods[y].dfs
                 /\ mods[y].ancestor \in Nat /\ mods[y].dfs \in Nat /\ mods[Top.list[1]].dfs \in Nat
      <3>1. PICK k \in 1..Len(Top.list) : Top.list[k] = y
        BY <2>1 DEF Has
      <3>2. Top.list[1] \in 1..Len(mods) /\ y \in 1..Len(mods)
        BY <2>1, EvalWithin
      <3> QED BY <1>1, <3>1, <3>2, ShapeIs, ModIs DEF WalkOK, ListOK
    <2>2. CASE mods[m].status = "evaluating"
      <3>1. Has(Top.list, m) /\ a = MinOf(mods[d].ancestor, mods[m].ancestor)
        BY <1>2, <2>2
      <3> QED BY <1>1, <2>1, <3>1, SMTT(30) DEF MinOf
    <2>3. CASE mods[m].status # "evaluating"
      BY <1>1, <1>2, <2>1, <2>3
    <2> QED BY <2>2, <2>3
  <1>10. Advance(Top) \in CallRec /\ Advances(Top, Advance(Top)) /\ Advance(Top).body = 0
    BY <1>1, AdvanceIs
  <1>11. \A y \in 1..Len(mods) :
              /\ mods'[y].name = mods[y].name /\ mods'[y].links = mods[y].links
              /\ mods'[y].status = mods[y].status /\ mods'[y].dfs = mods[y].dfs
              /\ y # Cur.d => mods'[y].ancestor = mods[y].ancestor
    BY ONLY <1>3 DEF SameBase
  <1>12. Cur.i <= Len(mods[Cur.d].links) + 1 /\ Within(WalkOp("evaluating")) /\ clock' \in Nat
    <2>1. Len(mods[Cur.d].links) \in Nat /\ clock \in Nat
      BY <1>1, ShapeIs, ModIs
    <2> QED BY <2>1, EvalOp
  <1>13. mods[Top.list[1]].dfs <= mods'[Cur.d].ancestor /\ mods'[Cur.d].ancestor <= mods[Cur.d].dfs
    BY <1>3, <1>9
  <1> QED BY ONLY ShapeInv, <1>2, <1>3, <1>6, <1>7, <1>8, <1>10, <1>11, <1>12, <1>13, mods' \in Seq(ModRec),
                  UNCHANGED <<world, loaded, jobs, awaiting, clock>>, EvalOp, AdvanceShape

(* evaluateRequest keeps the shape.                                        *)
LEMMA evaluateRequestShape ==
    ASSUME ShapeInv, evaluateRequest
    PROVE  ShapeInv'
  <1> DEFINE m == Child
  <1>1. /\ Within("js_evaluate_module") /\ Cur.i \in 1..Len(mods[Cur.d].links)
        /\ m \in 1..Len(mods) /\ mods[m].name \in NeedsOf(world, Top.n)
        /\ mods' \in Seq(ModRec) /\ UNCHANGED <<world, loaded, jobs, awaiting, clock>>
        /\ Descends(m) \/ (\E e : GivesUp(m, e)) \/ \E x, a : Continues(m, x, a)
    BY evaluateRequestStep
  <1>2. /\ stk # <<>> /\ Top.op = "js_evaluate_module" /\ Top.list # <<>> /\ Top.path # <<>>
        /\ Is("js_evaluate_module") /\ Len(mods) \in Nat
    BY <1>1, EvalWithin, ShapeIs
  <1>3. CASE Descends(m)
    <2>1. mods[m].status \in Fresh \ {"evaluating"} /\ mods[m].status # "linking"
      BY <1>3 DEF Descends, Fresh
    <2>2. stk' = Enter(m) /\ Enters(mods, mods', m, Top.i, "evaluating")
      BY <1>3 DEF Descends
    <2>3. Top.path # <<>> => Cur.i <= Len(mods[Cur.d].links) /\ m = Child
      BY <1>1
    <2> HIDE DEF m
    <2> QED BY ONLY ShapeInv, <1>1, <1>2, <2>1, <2>2, <2>3, EvalOp, EnterShape
  <1>4. ASSUME NEW e, GivesUp(m, e) PROVE ShapeInv'
    <2>1. stk' = Pop /\ e \in 1..Len(mods) /\ Fails(mods, mods', ToSet(Top.list), e, Top.list[1])
      BY <1>4 DEF GivesUp
    <2> QED BY ONLY ShapeInv, <1>1, <1>2, <2>1, AbandonShape
  <1>5. ASSUME NEW x, NEW a, Continues(m, x, a) PROVE ShapeInv'
    <2>1. Has(Top.list, m) \/ mods[m].status # "evaluating"
      BY ONLY ShapeInv, <1>1, <1>2, EvalOp, WalkListed
    <2> QED BY ONLY ShapeInv, <1>1, <1>5, <2>1, ContinuesShape
  <1> QED BY <1>1, <1>3, <1>4, <1>5
Delayed(ms, d, t) == [ms EXCEPT ![d].async = TRUE, ![d].timestamp = t]
(* A module that waits for its requests.                                   *)
LEMMA DelaysIs ==
    ASSUME NEW ms \in Seq(ModRec), NEW d \in 1..Len(ms), NEW t \in Nat, NEW ms2, ms2 = Delayed(ms, d, t)
    PROVE  ms2 \in Seq(ModRec) /\ Starts(ms, ms2, d, 0, TRUE, t)
  <1>1. ms[d] \in ModRec /\ ms[d].runs \in Nat
    BY ModIs DEF ModRec
  <1> DEFINE r == [ms[d] EXCEPT !.async = TRUE, !.timestamp = t]
  <1>6. ms2 = [ms EXCEPT ![d] = r]
    BY DEF r, Delayed
  <1>4. r \in ModRec
    BY <1>1 DEF ModRec
  <1>5. /\ SameShape(ms[d], r)
        /\ r.root = ms[d].root /\ r.pending = ms[d].pending /\ r.async = TRUE
        /\ r.timestamp = t /\ r.parents = ms[d].parents
        /\ r.err = ms[d].err /\ r.promise = ms[d].promise /\ r.runs = ms[d].runs /\ r.out = ms[d].out
    BY <1>1 DEF ModRec, SameShape
  <1> HIDE DEF r
  <1>7. ms2 \in Seq(ModRec) /\ Len(ms2) = Len(ms) /\ ms2[d] = r /\ \A x \in 1..Len(ms) : x # d => ms2[x] = ms[x]
    BY ONLY ms \in Seq(ModRec), d \in 1..Len(ms), <1>4, <1>6, ExceptIs
  <1>8. r.runs = ms[d].runs + 0
    BY <1>1, <1>5
  <1> QED BY ONLY <1>5, <1>7, <1>8 DEF Starts, OthersSame, SameMod, SameShape, SameEval

Ran(ms, d) == [ms EXCEPT ![d].runs = @ + 1]
(* A module that is executed.                                              *)
LEMMA ExecutesIs ==
    ASSUME NEW ms \in Seq(ModRec), NEW d \in 1..Len(ms), NEW t \in Nat
    PROVE  /\ Ran(ms, d) = Started(ms, d, 1, FALSE, t)
           /\ Delayed(Ran(ms, d), d, t) = Started(ms, d, 1, TRUE, t)
  <1>1. ms[d] \in ModRec /\ d \in DOMAIN ms
    BY ModIs, LenProperties
  <1>2. [ms[d] EXCEPT !.runs = ms[d].runs + 1]
        = [ms[d] EXCEPT !.runs = ms[d].runs + 1, !.async = ms[d].async, !.timestamp = ms[d].timestamp]
    BY <1>1 DEF ModRec
  <1>3. [ms EXCEPT ![d].runs = @ + 1] = Started(ms, d, 1, FALSE, t)
    BY <1>1, <1>2 DEF Started
  <1> DEFINE m1 == [ms EXCEPT ![d].runs = @ + 1]
  <1>4. [[ms[d] EXCEPT !.runs = ms[d].runs + 1] EXCEPT !.async = TRUE, !.timestamp = t]
        = [ms[d] EXCEPT !.runs = ms[d].runs + 1, !.async = TRUE, !.timestamp = t]
    BY <1>1 DEF ModRec
  <1>5. m1[d] = [ms[d] EXCEPT !.runs = ms[d].runs + 1]
    BY <1>1
  <1>6. [m1 EXCEPT ![d] = [m1[d] EXCEPT !.async = TRUE, !.timestamp = t]]
        = [ms EXCEPT ![d] = [m1[d] EXCEPT !.async = TRUE, !.timestamp = t]]
    BY <1>1
  <1>7. [m1 EXCEPT ![d].async = TRUE, ![d].timestamp = t] = [m1 EXCEPT ![d] = [m1[d] EXCEPT !.async = TRUE, !.timestamp = t]]
    BY <1>1
  <1>8. [m1 EXCEPT ![d].async = TRUE, ![d].timestamp = t] = Started(ms, d, 1, TRUE, t)
    BY <1>4, <1>5, <1>6, <1>7 DEF Started
  <1> QED BY <1>3, <1>8 DEF Ran, Delayed

(* What the end of the requests does: w whether d is to be waited for.     *)
Executes(n, w) ==
    /\ Starts(mods, mods', Cur.d, n, w, clock) /\ w \in BOOLEAN /\ n \in {0, 1}
    /\ n = 0 => mods[Cur.d].pending > 0 /\ w /\ stk' = WithTop(Advance(Top))
    /\ n = 1 => /\ mods[Cur.d].pending = 0 /\ (w <=> HasTla(Cur.d))
                /\ stk' = WithTop([Advance(Top) EXCEPT !.body = Cur.d])
    /\ w => clock' = clock + 1
    /\ ~w => clock' = clock

(* The end of the requests: the module waits (n is 0) or is executed.      *)
LEMMA executeStep ==
    ASSUME ShapeInv, waitForRequests \/ executeModule
    PROVE  /\ Within("js_evaluate_module") /\ Cur.i = Len(mods[Cur.d].links) + 1
           /\ mods' \in Seq(ModRec) /\ UNCHANGED <<world, loaded, jobs, awaiting>>
           /\ \E n, w : Executes(n, w)
  <1> DEFINE d == Cur.d
  <1>1. Within("js_evaluate_module") /\ Cur.i = Len(mods[d].links) + 1 /\ UNCHANGED <<world, loaded, jobs, awaiting>>
    BY DEF waitForRequests, executeModule
  <1>2. d \in 1..Len(mods) /\ mods \in Seq(ModRec) /\ clock \in Nat
    BY <1>1, EvalWithin, ShapeIs
  <1>3. CASE waitForRequests
    <2>1. /\ mods[d].pending > 0 /\ clock' = clock + 1 /\ stk' = WithTop(Advance(Top))
          /\ mods' = Delayed(mods, d, clock)
      BY <1>3 DEF waitForRequests, Delayed
    <2> HIDE DEF d
    <2>2. mods' \in Seq(ModRec) /\ Starts(mods, mods', d, 0, TRUE, clock)
      <3>1. mods' = Delayed(mods, d, clock)
        BY <2>1
      <3> QED BY ONLY <1>2, <3>1, DelaysIs
    <2>3. Executes(0, TRUE)
      <3>1. 0 # 1 /\ 0 \in {0, 1}
        OBVIOUS
      <3> QED BY ONLY <2>1, <2>2, <3>1, Zenon DEF Executes, d
    <2> QED BY <1>1, <2>2, <2>3 DEF d
  <1>4. CASE executeModule
    <2>1. /\ mods[d].pending = 0 /\ stk' = WithTop([Advance(Top) EXCEPT !.body = d])
          /\ \/ /\ HasTla(d) /\ clock' = clock + 1
                /\ mods' = Delayed(Ran(mods, d), d, clock)
             \/ ~HasTla(d) /\ clock' = clock /\ mods' = Ran(mods, d)
      BY <1>4 DEF executeModule, Delayed, Ran
    <2> HIDE DEF d
    <2>2. PICK w \in BOOLEAN : /\ mods' = Started(mods, d, 1, w, clock) /\ (w <=> HasTla(d))
                               /\ (w => clock' = clock + 1) /\ (~w => clock' = clock)
      <3>1. CASE HasTla(d)
        <4>1. mods' = Started(mods, d, 1, TRUE, clock) /\ clock' = clock + 1
          BY <1>2, <2>1, <3>1, ExecutesIs
        <4> QED BY <3>1, <4>1
      <3>2. CASE ~HasTla(d)
        <4>1. mods' = Started(mods, d, 1, FALSE, clock) /\ clock' = clock
          BY <1>2, <2>1, <3>2, ExecutesIs
        <4> QED BY <3>2, <4>1
      <3> QED BY <3>1, <3>2
    <2>3. mods' \in Seq(ModRec) /\ Starts(mods, mods', d, 1, w, clock)
      BY ONLY <1>2, <2>2, w \in BOOLEAN, 1 \in Nat, StartsIs
    <2>4. Executes(1, w)
      BY ONLY <2>1, <2>2, <2>3, w \in BOOLEAN DEF Executes, d
    <2> QED BY <1>1, <2>3, <2>4 DEF d
  <1> QED BY <1>3, <1>4

WithBody(c, d) == [c EXCEPT !.body = d]
(* A call with another body.                                               *)
LEMMA BodyIs ==
    ASSUME NEW c \in CallRec, NEW d \in Nat, NEW c2, c2 = WithBody(c, d)
    PROVE  /\ c2 \in CallRec /\ c2.body = d /\ c2.op = c.op /\ c2.n = c.n /\ c2.d = c.d /\ c2.i = c.i
           /\ c2.list = c.list /\ c2.path = c.path /\ c2.loads = c.loads
  BY DEF CallRec, WithBody

(* waitForRequests and executeModule keep the shape.                       *)
LEMMA executeShape ==
    ASSUME ShapeInv, waitForRequests \/ executeModule
    PROVE  ShapeInv'
  <1> DEFINE d == Cur.d
  <1>1. /\ Within("js_evaluate_module") /\ Cur.i = Len(mods[Cur.d].links) + 1
        /\ mods' \in Seq(ModRec) /\ UNCHANGED <<world, loaded, jobs, awaiting>>
    BY executeStep
  <1>2. PICK n, w : Executes(n, w)
    BY executeStep
  <1>3. /\ Top \in CallRec /\ Top.path # <<>> /\ d \in 1..Len(mods) /\ Has(Top.list, d) /\ Top.body = 0
        /\ WalkOK(mods, Top, "evaluating") /\ Top.list[1] \in 1..Len(mods)
    BY <1>1, EvalWithin
  <1>4. /\ Len(mods') = Len(mods)
        /\ \A x \in 1..Len(mods) : SameShape(mods[x], mods'[x]) /\ mods'[x].parents = mods[x].parents
                                   /\ mods'[x].root = mods[x].root /\ mods'[x].err = mods[x].err
    BY ONLY <1>2 DEF Executes, Starts, OthersSame, SameMod, SameEval
  <1>5. Grows(mods, mods')
    BY ONLY <1>4, ShapeInv, ShapeIs DEF Grows, SameShape
  <1>6. LinksOK(world, mods') /\ ParentsIn(mods') /\ RootsOK(mods')
    <2>1. mods \in Seq(ModRec) /\ LinksOK(world, mods) /\ ParentsIn(mods) /\ RootsOK(mods)
      BY ShapeIs
    <2>2. \A x \in 1..Len(mods) : mods'[x].links = mods[x].links /\ mods'[x].status = mods[x].status
      BY ONLY <1>4 DEF SameShape
    <2> QED BY ONLY <1>1, <1>4, <1>5, <2>1, <2>2, RefsSame
  <1>7. PICK c \in CallRec : Advances(Top, c) /\ (c.body = 0 \/ c.body = d) /\ stk' = WithTop(c)
    <2>1. Advance(Top) \in CallRec /\ Advances(Top, Advance(Top)) /\ Advance(Top).body = 0
      BY <1>3, AdvanceIs
    <2>2. CASE n = 0
      BY <1>2, <2>1, <2>2 DEF Executes
    <2>3. CASE n = 1
      <3> DEFINE c2 == WithBody(Advance(Top), d)
      <3>1. stk' = WithTop(c2) /\ c2 = WithBody(Advance(Top), d)
        BY <1>2, <2>3 DEF Executes, WithBody
      <3> HIDE DEF c2
      <3>2. d \in Nat
        BY <1>3, ShapeIs
      <3>3. c2 \in CallRec /\ Advances(Top, c2) /\ c2.body = d
        <4>1. /\ c2 \in CallRec /\ c2.body = d /\ c2.op = Advance(Top).op /\ c2.n = Advance(Top).n
              /\ c2.d = Advance(Top).d /\ c2.i = Advance(Top).i
              /\ c2.list = Advance(Top).list /\ c2.path = Advance(Top).path /\ c2.loads = Advance(Top).loads
          BY ONLY <2>1, <3>1, <3>2, BodyIs
        <4> QED BY ONLY <2>1, <4>1 DEF Advances, SameHead
      <3> QED BY <3>1, <3>3
    <2> QED BY <1>2, <2>2, <2>3 DEF Executes
  <1>8. clock' \in Nat /\ Within(WalkOp("evaluating")) /\ Cur.i <= Len(mods[Cur.d].links) + 1
    <2>1. clock \in Nat /\ Len(mods[d].links) \in Nat
      BY <1>3, ShapeIs, ModIs
    <2> QED BY <1>1, <1>2, <2>1, EvalOp DEF Executes
  <1>9. mods[Top.list[1]].dfs <= mods'[d].ancestor /\ mods'[d].ancestor <= mods[d].dfs
    <2>1. PICK k \in 1..Len(Top.list) : Top.list[k] = d
      BY <1>3 DEF Has
    <2> QED BY <1>3, <1>4, <2>1 DEF WalkOK, ListOK, SameShape
  <1>10. \A y \in 1..Len(mods) :
              /\ mods'[y].name = mods[y].name /\ mods'[y].links = mods[y].links
              /\ mods'[y].status = mods[y].status /\ mods'[y].dfs = mods[y].dfs
              /\ y # Cur.d => mods'[y].ancestor = mods[y].ancestor
    BY ONLY <1>4 DEF SameShape
  <1>11. c.body = 0 \/ ("evaluating" = "evaluating" /\ c.body = Cur.d /\ Cur.i = Len(mods[Cur.d].links) + 1)
    BY <1>1, <1>7
  <1> HIDE DEF d
  <1>12. d = Cur.d
    BY DEF d
  <1> QED BY ONLY ShapeInv, <1>1, <1>4, <1>6, <1>7, <1>8, <1>9, <1>10, <1>11, <1>12, EvalOp, AdvanceShape
(* The end of an evaluation, or of one module in it.                       *)
LEMMA DoneIs ==
    ASSUME ShapeInv, Within("js_evaluate_module")
    PROVE  /\ \A x \in Done(Cur.d) : Has(Top.list, x) /\ x \in 1..Len(mods)
           /\ Len(Top.path) = 1 => \A x : Has(Top.list, x) => x \in Done(Cur.d)
  <1>1. PICK n \in Nat, c \in CallRec :
              /\ ReturnsCall(Top, c, n) /\ n <= Len(Top.list)
              /\ \/ n = Len(Top.list) /\ mods[Cur.d].dfs # mods[Cur.d].ancestor
                 \/ n + 1 <= Len(Top.list) /\ Top.list[n + 1] = Cur.d /\ EndsCycle(Cur.d)
              /\ \A x : Has(Top.list, x) => (x \in Done(Cur.d) <=> ~Has(c.list, x))
              /\ \A x \in Done(Cur.d) : Has(Top.list, x)
    BY ONLY ShapeInv, Within("js_evaluate_module"), EvalOp, ReturnIs
  <1>2. /\ Top \in CallRec /\ WalkOK(mods, Top, "evaluating") /\ Top.path # <<>> /\ Cur = Top.path[Len(Top.path)]
        /\ Top.list # <<>> /\ \A x : Has(Top.list, x) => x \in 1..Len(mods)
    BY EvalWithin
  <1>3. ASSUME Len(Top.path) = 1 PROVE n = 0
    <2>1. Cur.d = Top.list[1] /\ 1 \in 1..Len(Top.list) /\ Len(Top.list) \in Nat
      BY <1>2, <1>3, CallFields DEF WalkOK, PathOK
    <2>2. Top.list[1] \in 1..Len(mods)
      BY <1>2, <2>1 DEF Has
    <2>3. mods[Top.list[1]].dfs \in Nat /\ mods[Top.list[1]].ancestor \in Nat
      BY <2>2, ShapeIs, ModIs
    <2>4. mods[Top.list[1]].dfs <= mods[Top.list[1]].ancestor /\ mods[Top.list[1]].ancestor <= mods[Top.list[1]].dfs
      BY <1>2, <2>1 DEF WalkOK, ListOK
    <2>5. n + 1 <= Len(Top.list) /\ Top.list[n + 1] = Top.list[1]
      BY <1>1, <2>1, <2>3, <2>4
    <2>6. n # 0 => 1 < n + 1 /\ n + 1 \in 1..Len(Top.list)
      BY <2>1, <2>5
    <2>7. n # 0 => mods[Top.list[1]].dfs < mods[Top.list[n + 1]].dfs
      BY <1>2, <2>1, <2>6 DEF WalkOK, ListOK
    <2> QED BY <2>3, <2>5, <2>7
  <1>4. ASSUME Len(Top.path) = 1, NEW x, Has(Top.list, x) PROVE x \in Done(Cur.d)
    <2>1. Len(c.list) = 0
      BY <1>1, <1>3, <1>4 DEF ReturnsCall
    <2>2. ~Has(c.list, x)
      BY <2>1 DEF Has
    <2> QED BY <1>1, <1>4, <2>2
  <1> QED BY <1>1, <1>2, <1>4

Ends ==
    /\ Finishes(mods, mods', Done(Cur.d), Cur.d)
    /\ \A x \in 1..Len(mods) : x # Cur.d \/ mods[Cur.d].async => mods'[x].promise = mods[x].promise
    /\ \/ /\ Len(Top.path) = 1 /\ stk' = Pop /\ (\A x : Has(Top.list, x) => x \in Done(Cur.d))
          /\ ~mods[Cur.d].async => mods'[Cur.d].promise = "fulfilled"
       \/ /\ Len(Top.path) > 1 /\ stk' = Return(Cur.d)
          /\ mods'[Cur.d].promise = mods[Cur.d].promise

(* evaluateDone ends the cycle, and the call with its last module.         *)
LEMMA evaluateDoneStep ==
    ASSUME ShapeInv, evaluateDone
    PROVE  /\ Within("js_evaluate_module") /\ Cur.i = Len(mods[Cur.d].links) + 2
           /\ mods' \in Seq(ModRec) /\ UNCHANGED <<world, loaded, jobs, awaiting, clock>> /\ Ends
  <1> DEFINE d == Cur.d
             D == Done(Cur.d)
             m1 == FinishedAt(mods, D, d)
  <1>1. Within("js_evaluate_module") /\ Cur.i = Len(mods[d].links) + 2 /\ UNCHANGED <<world, loaded, jobs, awaiting, clock>>
    BY DEF evaluateDone
  <1>2. d \in 1..Len(mods) /\ mods \in Seq(ModRec)
    BY <1>1, EvalWithin, ShapeIs
  <1>3. m1 = FinishedAt(mods, D, d) /\ m1 = Finished(d)
    BY DEF FinishedAt, Finished, Defs
  <1>4. /\ \/ /\ Len(Top.path) = 1 /\ stk' = Pop
              /\ mods[d].async => mods' = m1
              /\ ~mods[d].async => mods' = Promised(m1, d, "fulfilled")
           \/ Len(Top.path) > 1 /\ stk' = Return(d) /\ mods' = m1
    BY <1>3 DEF evaluateDone, Promised
  <1> HIDE DEF m1
  <1>5. m1 \in Seq(ModRec) /\ Finishes(mods, m1, D, d) /\ \A x \in 1..Len(mods) : m1[x].promise = mods[x].promise
    <2>1. m1 = FinishedAt(mods, D, d)
      BY <1>3
    <2> HIDE DEF D, d
    <2> QED BY ONLY <1>2, <2>1, FinishesIs
  <1>6. Len(m1) = Len(mods)
    BY <1>5 DEF Finishes
  <1>7. CASE mods' = m1 /\ (mods[d].async \/ Len(Top.path) > 1)
    <2>1. Len(Top.path) = 1 => \A x : Has(Top.list, x) => x \in D
      BY <1>1, DoneIs
    <2>2. Finishes(mods, mods', D, d) /\ \A x \in 1..Len(mods) : mods'[x].promise = mods[x].promise
      BY ONLY <1>5, <1>7
    <2>3. \/ Len(Top.path) = 1 /\ stk' = Pop /\ mods[d].async
          \/ Len(Top.path) > 1 /\ stk' = Return(d)
      <3>1. Len(Top.path) = 1 => ~(Len(Top.path) > 1)
        OBVIOUS
      <3> QED BY ONLY <1>4, <1>7, <3>1, Zenon
    <2>4. Ends
      BY ONLY <1>2, <2>1, <2>2, <2>3 DEF Ends
    <2> QED BY <1>1, <1>5, <1>7, <2>4
  <1>8. CASE /\ Len(Top.path) = 1 /\ stk' = Pop /\ ~mods[d].async /\ mods' = Promised(m1, d, "fulfilled")
    <2>1. Len(Top.path) = 1 => \A x : Has(Top.list, x) => x \in D
      BY <1>1, DoneIs
    <2>2. mods' \in Seq(ModRec) /\ Promises(m1, mods', d, "fulfilled")
      BY ONLY <1>2, <1>5, <1>6, <1>8, PromisesIs
    <2>3. Finishes(mods, mods', D, d)
      <3>1. ASSUME NEW x \in 1..Len(mods)
            PROVE  /\ SameShape(m1[x], mods'[x])
                   /\ mods'[x].root = m1[x].root /\ mods'[x].pending = m1[x].pending /\ mods'[x].async = m1[x].async
                   /\ mods'[x].timestamp = m1[x].timestamp /\ mods'[x].parents = m1[x].parents
                   /\ mods'[x].err = m1[x].err /\ mods'[x].runs = m1[x].runs /\ mods'[x].out = m1[x].out
        BY ONLY <1>6, <2>2, x \in 1..Len(mods) DEF Promises, OthersSame, SameMod, SameEval
      <3>2. Len(mods') = Len(mods)
        BY <1>6, <2>2 DEF Promises
      <3> QED BY ONLY <1>5, <3>1, <3>2 DEF Finishes, SameShape, SameBase
    <2>4. /\ mods'[d].promise = "fulfilled"
          /\ \A x \in 1..Len(mods) : x # d => mods'[x].promise = mods[x].promise
      BY ONLY <1>5, <1>6, <2>2 DEF Promises, OthersSame, SameMod, SameEval
    <2>5. Ends
      BY ONLY <1>8, <2>1, <2>3, <2>4 DEF Ends
    <2> QED BY <1>1, <2>2, <2>5
  <1> QED BY <1>4, <1>7, <1>8

(* evaluateDone keeps the shape.                                           *)
LEMMA evaluateDoneShape ==
    ASSUME ShapeInv, evaluateDone
    PROVE  ShapeInv'
  <1> DEFINE d == Cur.d
             D == Done(Cur.d)
  <1>1. /\ Within("js_evaluate_module") /\ mods' \in Seq(ModRec)
        /\ UNCHANGED <<world, loaded, jobs, awaiting, clock>> /\ Ends
    BY evaluateDoneStep
  <1>2. /\ stk # <<>> /\ Top.op = "js_evaluate_module" /\ d \in 1..Len(mods) /\ Has(Top.list, d)
        /\ \A x : Has(Top.list, x) => x \in 1..Len(mods) /\ mods[x].status = "evaluating"
    BY <1>1, EvalWithin
  <1>3. \A x \in D : Has(Top.list, x) /\ x \in 1..Len(mods)
    BY <1>1, DoneIs
  <1>4. /\ Len(mods') = Len(mods)
        /\ \A x \in 1..Len(mods) :
             /\ SameBase(mods[x], mods'[x]) /\ mods'[x].ancestor = mods[x].ancestor
             /\ mods'[x].parents = mods[x].parents /\ mods'[x].err = mods[x].err
             /\ x \in D => mods'[x].status \in Ended /\ mods'[x].root = d
             /\ x \notin D => mods'[x].status = mods[x].status /\ mods'[x].root = mods[x].root
    BY ONLY <1>1 DEF Ends, Finishes, Ended
  <1> HIDE DEF D
  <1>5. Grows(mods, mods')
    BY ONLY <1>2, <1>3, <1>4, ShapeInv, ShapeIs DEF Grows, Begun, Ended, SameBase
  <1>6. LinksOK(world, mods') /\ ParentsIn(mods')
    <2>1. mods \in Seq(ModRec) /\ LinksOK(world, mods) /\ ParentsIn(mods)
      BY ShapeIs
    <2>2. \A x \in 1..Len(mods) : mods'[x].links = mods[x].links
      BY ONLY <1>4 DEF SameBase
    <2>3. Len(mods') = Len(mods) /\ \A x \in 1..Len(mods) : mods'[x].parents = mods[x].parents
      BY ONLY <1>4
    <2> QED BY ONLY <1>1, <1>5, <2>1, <2>2, <2>3, RefsKept
  <1>7. ASSUME d \in D \/ D = {} PROVE RootsOK(mods')
    <2>1. RootsOK(mods) /\ Len(mods) \in Nat
      BY ShapeIs
    <2>2. ASSUME NEW x \in 1..Len(mods), x \notin D
          PROVE  /\ mods'[x].root \in 0..Len(mods) /\ mods'[x].err \in 0..Len(mods)
                 /\ mods'[x].root # 0 <=> mods'[x].status \in Ended
                 /\ mods'[x].root # 0 => mods'[mods'[x].root].root = mods'[x].root
      <3>1. mods'[x].root = mods[x].root /\ mods'[x].err = mods[x].err /\ mods'[x].status = mods[x].status
        BY <1>4, <2>2
      <3>2. mods[x].root \in 0..Len(mods) /\ mods[x].err \in 0..Len(mods)
            /\ (mods[x].root # 0 <=> mods[x].status \in Ended)
        BY <2>1 DEF RootsOK
      <3>3. ASSUME mods[x].root # 0 PROVE mods'[mods[x].root].root = mods[x].root
        <4>1. mods[x].root \in 1..Len(mods) /\ mods[mods[x].root].root = mods[x].root /\ mods[mods[x].root].status \in Ended
          BY <3>3, RootIs
        <4>2. mods[x].root \notin D
          BY <1>2, <1>3, <4>1 DEF Ended
        <4> QED BY <1>4, <4>1, <4>2
      <3> QED BY <3>1, <3>2, <3>3
    <2>3. ASSUME NEW x \in 1..Len(mods), x \in D
          PROVE  /\ mods'[x].root \in 0..Len(mods) /\ mods'[x].err \in 0..Len(mods)
                 /\ mods'[x].root # 0 <=> mods'[x].status \in Ended
                 /\ mods'[x].root # 0 => mods'[mods'[x].root].root = mods'[x].root
      <3>1. mods'[x].root = d /\ mods'[x].err = mods[x].err /\ mods'[x].status \in Ended /\ mods'[d].root = d
        BY <1>2, <1>4, <1>7, <2>3
      <3>2. d \in 0..Len(mods) /\ d # 0 /\ mods[x].err \in 0..Len(mods)
        BY <1>2, <2>1 DEF RootsOK
      <3> HIDE DEF d
      <3> QED BY <3>1, <3>2 DEF Ended
    <2> QED BY ONLY <1>4, <2>2, <2>3 DEF RootsOK
  <1>8. d \in D \/ D = {}
    <2>1. Top \in CallRec /\ Top.list \in Seq(Nat) /\ Len(Top.list) \in Nat
      BY <1>1, EvalWithin, CallFields
    <2>2. DOMAIN Top.list = 1..Len(Top.list)
      BY <2>1, LenProperties
    <2>3. \E k \in DOMAIN Top.list : Top.list[k] = d
      BY <1>2, <2>2 DEF Has
    <2>4. Place(d) \in 1..Len(Top.list) /\ Top.list[Place(d)] = d
      BY <2>2, <2>3 DEF Place
    <2>5. Place(d) \in Place(d)..Len(Top.list)
      BY <2>1, <2>4
    <2> QED BY <2>4, <2>5 DEF D, Done
  <1>9. RootsOK(mods')
    BY <1>7, <1>8
  <1>10. \A x \in 1..Len(mods) : x \notin D => SameShape(mods[x], mods'[x])
    BY ONLY <1>4 DEF SameShape, SameBase
  <1>11. \A x \in D : mods'[x].status \notin {"linking", "evaluating"}
    BY <1>3, <1>4 DEF Ended
  <1>12. CASE Len(Top.path) = 1 /\ stk' = Pop /\ (\A x : Has(Top.list, x) => x \in Done(Cur.d))
    <2>1. \A x \in 1..Len(mods) : ~Has(Top.list, x) => SameShape(mods[x], mods'[x])
      BY <1>3, <1>10
    <2>2. \A x \in 1..Len(mods) : Has(Top.list, x) => mods'[x].status \notin {"linking", "evaluating"}
      BY <1>11, <1>12 DEF D
    <2> QED BY ONLY ShapeInv, <1>1, <1>2, <1>4, <1>5, <1>6, <1>9, <1>12, <2>1, <2>2, EvalOp, PopShape
  <1>13. CASE stk' = Return(Cur.d)
    <2>1. \A x \in 1..Len(mods) : x \notin Done(Cur.d) => SameShape(mods[x], mods'[x])
      BY <1>10 DEF D
    <2>2. \A x \in Done(Cur.d) : mods'[x].status \notin {"linking", "evaluating"}
      BY <1>11 DEF D
    <2> QED BY ONLY ShapeInv, <1>1, <1>2, <1>4, <1>5, <1>6, <1>9, <1>13, <2>1, <2>2, EvalOp, ReturnShape
  <1> QED BY <1>1, <1>12, <1>13 DEF Ends
-----------------------------------------------------------------------------
(* The steps of module bodies.                                             *)

BodyOps == {"js_evaluate_module", "fulfilled", "bodyResumes"}

(* The call whose body runs.                                               *)
LEMMA BodyRuns ==
    ASSUME ShapeInv, RunsBody
    PROVE  /\ stk # <<>> /\ Top \in CallRec /\ Top.body \in 1..Len(mods) /\ mods[Top.body].status \in Begun
           /\ CallOK(world, mods, Top) /\ CallNeeds(world, mods, Top) /\ Hosts(Top)
           /\ Top.op \in BodyOps
           /\ Top.op = "js_evaluate_module" =>
                 /\ Top.path # <<>> /\ Top.list # <<>> /\ Has(Top.list, Top.body) /\ mods[Top.body].status = "evaluating"
                 /\ Top.body = Last(Top.path).d /\ Last(Top.path).i = Len(mods[Top.body].links) + 2
           /\ Top.op # "js_evaluate_module" => Len(stk) = 1 /\ Top.op \notin Base /\ Top.path = <<>>
           /\ Top.op = "bodyResumes" => Top.list = <<>>
  <1>1. stk # <<>> /\ Top.body # 0
    BY DEF RunsBody
  <1>2. /\ Top \in CallRec /\ CallOK(world, mods, Top) /\ CallIn(mods, Top) /\ CallNeeds(world, mods, Top)
        /\ (Top.op \notin Base => Len(stk) = 1)
    BY <1>1, TopIs
  <1>3. Top.body \in 1..Len(mods) /\ mods[Top.body].status \in Begun
    BY <1>1, <1>2, ShapeIs DEF CallIn
  <1>4. Top.op \in Ops
    BY <1>2, CallFields
  <1>5. Top.op \in BodyOps
    BY <1>1, <1>2, <1>4 DEF CallOK, ResolveOK, LinkOK, Ops, Base, BodyOps, Resolvers
  <1>6. ASSUME Top.op = "js_evaluate_module"
        PROVE  /\ Top.path # <<>> /\ Top.list # <<>> /\ Has(Top.list, Top.body) /\ mods[Top.body].status = "evaluating"
               /\ Top.body = Last(Top.path).d /\ Last(Top.path).i = Len(mods[Top.body].links) + 2
    <2>1. EvalOK(mods, Top)
      BY <1>2, <1>6 DEF CallOK
    <2>2. /\ Top.path # <<>> /\ Top.body = Last(Top.path).d /\ Last(Top.path).i = Len(mods[Top.body].links) + 2
          /\ ListOK(mods, Top, "evaluating") /\ PathOK(mods, Top)
      BY <1>1, <2>1 DEF EvalOK, WalkOK
    <2>3. Last(Top.path) = Top.path[Len(Top.path)] /\ Len(Top.path) \in 1..Len(Top.path)
      BY <1>2, <2>2, CallFields
    <2>4. Has(Top.list, Top.body) /\ Top.list # <<>>
      BY <2>2, <2>3 DEF PathOK
    <2>5. mods[Top.body].status = "evaluating"
      BY <2>2, <2>4 DEF Has, ListOK
    <2> QED BY <2>2, <2>4, <2>5
  <1>7. ASSUME Top.op # "js_evaluate_module" PROVE Top.op \notin Base /\ Top.path = <<>>
    BY <1>2, <1>5, <1>7 DEF BodyOps, Base, CallOK
  <1>8. Top.op = "bodyResumes" => Top.list = <<>>
    BY <1>2 DEF CallOK
  <1> QED BY <1>1, <1>2, <1>3, <1>5, <1>6, <1>7, <1>8 DEF Hosts

(* A call whose body has ended.                                            *)
LEMMA BodyEndsCall ==
    ASSUME NEW w \in Worlds, NEW ms \in Seq(ModRec), NEW ms2 \in Seq(ModRec), NEW c \in CallRec,
           CallOK(w, ms, c), CallNeeds(w, ms, c), c.body # 0, c.op \in {"js_evaluate_module", "fulfilled"},
           Grows(ms, ms2), Len(ms2) = Len(ms),
           c.op = "js_evaluate_module" => \A x \in 1..Len(ms) : SameShape(ms[x], ms2[x]),
           NEW c2, c2 = WithBody(c, 0)
    PROVE  c2 \in CallRec /\ c2.n = c.n /\ c2.op = c.op /\ c2.list = c.list
           /\ CallOK(w, ms2, c2) /\ CallNeeds(w, ms2, c2)
  <1>1. /\ c2 \in CallRec /\ c2.body = 0 /\ c2.op = c.op /\ c2.n = c.n /\ c2.d = c.d /\ c2.i = c.i
        /\ c2.list = c.list /\ c2.path = c.path /\ c2.loads = c.loads
    BY DEF CallRec, WithBody
  <1>2. \A x : Works(c2, x) => Works(c, x)
    BY ONLY <1>1 DEF Works
  <1>3. CallNeeds(w, ms2, c2)
    BY ONLY <1>1, <1>2, CallNeeds(w, ms, c), Grows(ms, ms2), Len(ms2) = Len(ms) DEF CallNeeds, Grows
  <1>4. CASE c.op = "js_evaluate_module"
    <2>1. CallOK(w, ms2, c)
      BY <1>4, CallKept DEF Hosts
    <2>2. CallIn(ms2, c) /\ WalkOK(ms2, c, "evaluating")
          /\ (c.path # <<>> => Last(c.path).i <= Len(ms2[Last(c.path).d].links) + 2)
      BY ONLY <1>4, <2>1 DEF CallOK, EvalOK
    <2>3. CallIn(ms2, c2)
      <3>1. 0 \in 0..Len(ms2)
        BY ModIs, SMTT(30)
      <3> QED BY ONLY <1>1, <2>2, <3>1 DEF CallIn
    <2>4. WalkOK(ms2, c2, "evaluating")
      BY ONLY <1>1, <2>2 DEF WalkOK, ListOK, PathOK
    <2>5. EvalOK(ms2, c2)
      BY ONLY <1>1, <2>2, <2>4 DEF EvalOK
    <2> QED BY ONLY <1>1, <1>3, <1>4, <2>3, <2>5 DEF CallOK, Resolvers
  <1>5. CASE c.op = "fulfilled"
    <2>1. CallIn(ms, c) /\ c.path = <<>> /\ c.loads = 0 /\ \A k \in 1..Len(c.list) : ms[c.list[k]].status \in Begun
      BY ONLY <1>5, CallOK(w, ms, c) DEF CallOK
    <2>2. \A k \in 1..Len(c.list) : ms2[c.list[k]].status \in Begun
      BY ONLY <2>1, Grows(ms, ms2) DEF CallIn, Grows
    <2>3. CallIn(ms2, c2)
      <3>1. 0 \in 0..Len(ms2)
        BY ModIs
      <3> QED BY ONLY <1>1, <2>1, <3>1, Len(ms2) = Len(ms) DEF CallIn
    <2> QED BY ONLY <1>1, <1>3, <1>5, <2>1, <2>2, <2>3 DEF CallOK, Resolvers
  <1> QED BY <1>4, <1>5

(* No module is walked while a job runs and calls nothing.                 *)
LEMMA JobAlone ==
    ASSUME ShapeInv, stk = <<>> \/ (Len(stk) = 1 /\ Top.op \notin Base), NEW x \in 1..Len(mods)
    PROVE  mods[x].status \notin {"linking", "evaluating"}
  <1>1. StackOK(world, mods, stk)
    BY ShapeIs
  <1>2. SUFFICES ASSUME mods[x].status \in {"linking", "evaluating"} PROVE FALSE
    OBVIOUS
  <1>3. PICK k \in 1..Len(stk) : OnList(stk[k], mods[x].status, x)
    BY <1>1, <1>2 DEF StackOK, Listed
  <1>4. k = 1 /\ Len(stk) = 1 /\ Top.op \notin Base /\ stk[k] = Top
    <2>1. stk # <<>>
      BY <1>3
    <2> QED BY <1>3, <2>1 DEF Top
  <1> QED BY <1>2, <1>3, <1>4 DEF OnList, Base

(* The body ends, and what is walked is not concerned.                     *)
LEMMA BodyEndsShape ==
    ASSUME ShapeInv, RunsBody, mods' \in Seq(ModRec), Len(mods') = Len(mods), Grows(mods, mods'),
           LinksOK(world, mods'), ParentsIn(mods'), RootsOK(mods'),
           Top.op = "js_evaluate_module" => \A x \in 1..Len(mods) : SameShape(mods[x], mods'[x]),
           \A x \in 1..Len(mods) : mods'[x].status \in {"linking", "evaluating"} => mods[x].status = mods'[x].status,
           jobs' \in Seq(Nat \X BOOLEAN), awaiting' \subseteq 1..Len(mods'), QueuedOK(mods', jobs', awaiting'),
           stk' = BodyEnds, UNCHANGED <<world, loaded, clock>>
    PROVE  ShapeInv'
  <1>1. /\ stk # <<>> /\ Top \in CallRec /\ Top.body \in 1..Len(mods)
        /\ CallOK(world, mods, Top) /\ CallNeeds(world, mods, Top) /\ Top.op \in BodyOps
        /\ Top.op # "js_evaluate_module" => Len(stk) = 1 /\ Top.op \notin Base
    BY BodyRuns
  <1>2. /\ world \in Worlds /\ mods \in Seq(ModRec) /\ stk \in Seq(CallRec) /\ StackOK(world, mods, stk)
        /\ loaded \subseteq 1..Len(mods) /\ clock \in Nat /\ Len(mods) \in Nat /\ Top = stk[Len(stk)]
    BY ShapeIs, TopIs, <1>1
  <1>3. Touches(world, mods, mods', stk)
    BY ONLY <1>1, Top.op = "js_evaluate_module" => \A x \in 1..Len(mods) : SameShape(mods[x], mods'[x]) DEF Touches
  <1>4. StackOK(world, mods', stk') /\ stk' \in Seq(CallRec)
    <2>1. CASE Top.op = "bodyResumes"
      <3>1. stk' = SubSeq(stk, 1, Len(stk) - 1)
        BY <2>1 DEF BodyEnds, Pop
      <3>2. \A x \in 1..Len(mods') : mods'[x].status \notin {"linking", "evaluating"}
        BY <1>1, <2>1, JobAlone
      <3> QED BY ONLY <1>1, <1>2, <1>3, <3>1, <3>2, mods' \in Seq(ModRec), Grows(mods, mods'), PopKept
    <2>2. CASE Top.op # "bodyResumes"
      <3> DEFINE c == WithBody(Top, 0)
      <3>1. stk' = [stk EXCEPT ![Len(stk)] = c] /\ c = WithBody(Top, 0)
        BY <2>2 DEF BodyEnds, WithTop, WithBody
      <3> HIDE DEF c
      <3>2. Top.body # 0 /\ Top.op \in {"js_evaluate_module", "fulfilled"}
        BY <1>1, <2>2 DEF BodyOps
      <3>3. c \in CallRec /\ c.n = Top.n /\ c.op = Top.op /\ c.list = Top.list
           /\ CallOK(world, mods', c) /\ CallNeeds(world, mods', c)
        BY ONLY <1>1, <1>2, <3>1, <3>2, mods' \in Seq(ModRec), Len(mods') = Len(mods), Grows(mods, mods'),
           Top.op = "js_evaluate_module" => \A x \in 1..Len(mods) : SameShape(mods[x], mods'[x]), BodyEndsCall
      <3>4. \A x \in 1..Len(mods') : mods'[x].status \in {"linking", "evaluating"} =>
              \/ OnList(c, mods'[x].status, x)
              \/ /\ x \in 1..Len(mods) /\ mods[x].status = mods'[x].status
                 /\ ~OnList(stk[Len(stk)], mods'[x].status, x)
        BY <1>2, <3>3 DEF OnList
      <3> QED BY ONLY <1>1, <1>2, <1>3, <3>1, <3>3, <3>4, mods' \in Seq(ModRec), Grows(mods, mods'), TopKept
    <2> QED BY <2>1, <2>2
  <1> QED BY <1>2, <1>4, ShapeStep

(* What the end of a body does: it returned or threw, the modules are as   *)
(* in ms before the evaluation learns of it.                               *)
Says(jb, d, f) == Append(jb, <<d, f>>)

(* The queue with the reaction to a body that ended.                       *)
LEMMA SaysIs ==
    ASSUME ShapeInv, NEW d \in 1..Len(mods), mods[d].status \in Begun, NEW f \in BOOLEAN,
           jobs' = Says(jobs, d, f), mods' \in Seq(ModRec), Grows(mods, mods'), awaiting' = awaiting
    PROVE  jobs' \in Seq(Nat \X BOOLEAN) /\ QueuedOK(mods', jobs', awaiting')
  <1>1. jobs \in Seq(Nat \X BOOLEAN) /\ QueuedOK(mods, jobs, awaiting) /\ awaiting \subseteq 1..Len(mods) /\ mods \in Seq(ModRec)
    BY ShapeIs
  <1>2. <<d, f>> \in Nat \X BOOLEAN /\ d \in 1..Len(mods')
    BY <1>1, ModIs DEF Grows
  <1>3. QueuedOK(mods', jobs, awaiting)
    BY <1>1, QueuedSame
  <1>4. /\ jobs' \in Seq(Nat \X BOOLEAN) /\ Len(jobs') = Len(jobs) + 1 /\ jobs'[Len(jobs) + 1] = <<d, f>>
        /\ \A k \in 1..Len(jobs) : jobs'[k] = jobs[k]
    BY <1>1, <1>2, AppendIs DEF Says
  <1>5. mods'[d].status \in Begun
    BY DEF Grows
  <1>6. ASSUME NEW k \in 1..Len(jobs') PROVE jobs'[k][1] \in 1..Len(mods') /\ mods'[jobs'[k][1]].status \in Begun
    <2>1. CASE k = Len(jobs) + 1
      BY <1>2, <1>4, <1>5, <2>1
    <2>2. CASE k # Len(jobs) + 1
      <3>1. k \in 1..Len(jobs)
        BY <1>1, <1>4, <2>2, LenProperties
      <3> QED BY <1>3, <1>4, <3>1 DEF QueuedOK
    <2> QED BY <2>1, <2>2
  <1> QED BY <1>3, <1>4, <1>6 DEF QueuedOK

Outcome(f) == IF f THEN "ok" ELSE "threw"
(* A body with an await ends: its promise is settled.                      *)
Reports(d, f) ==
    /\ HasTla(d) /\ jobs' = Says(jobs, d, f) /\ Outs(mods, mods', d, Outcome(f)) /\ stk' = BodyEnds
(* A body that the evaluation called returns, or throws.                   *)
Comes(d) == ~HasTla(d) /\ Top.op # "fulfilled" /\ Outs(mods, mods', d, "ok") /\ stk' = BodyEnds
Throws(d, ms) ==
    /\ ~HasTla(d) /\ Top.op # "fulfilled" /\ ms \in Seq(ModRec) /\ Outs(mods, ms, d, "threw")
    /\ AbandonEvaluation(ms, d)
(* A body that a reaction called returns, or throws.                       *)
Completes(d, ms) ==
    /\ ~HasTla(d) /\ Top.op = "fulfilled" /\ ms \in Seq(ModRec) /\ Outs(mods, ms, d, "ok")
    /\ Evaluates(ms, mods', d) /\ stk' = BodyEnds /\ \A x \in 1..Len(mods) : mods'[x].out = ms[x].out
Breaks(d, ms) ==
    /\ ~HasTla(d) /\ Top.op = "fulfilled" /\ ms \in Seq(ModRec) /\ Outs(mods, ms, d, "threw")
    /\ Rejects(ms, mods', Failing(ms, d), d) /\ stk' = BodyEnds
    /\ \A x \in 1..Len(mods) : mods'[x].out = ms[x].out

(* Failing is the least set with d and with whoever waits for its members. *)
LEMMA FailingIs ==
    ASSUME NEW ms \in Seq(ModRec), ParentsIn(ms), NEW d \in 1..Len(ms)
    PROVE  /\ d \in Failing(ms, d) /\ Failing(ms, d) \subseteq 1..Len(ms)
           /\ \A x \in Failing(ms, d) : \A j \in 1..Len(ms[x].parents) :
                 ms[ms[x].parents[j]].status = "evaluated" \/ ms[x].parents[j] \in Failing(ms, d)
           /\ \A S : d \in S /\ (\A x \in S \cap (1..Len(ms)) : \A j \in 1..Len(ms[x].parents) :
                        ms[ms[x].parents[j]].status = "evaluated" \/ ms[x].parents[j] \in S)
                 => Failing(ms, d) \subseteq S
  <1> DEFINE f == [x \in DOMAIN ms |-> {p \in ToSet(ms[x].parents) : ms[p].status # "evaluated"}]
  <1>1. DOMAIN f = 1..Len(ms) /\ Failing(ms, d) = From(d, f)
    BY LenProperties DEF Failing
  <1>2. \A x \in 1..Len(ms) : f[x] = {p \in ToSet(ms[x].parents) : ms[p].status # "evaluated"}
    BY LenProperties
  <1>3. \A x \in 1..Len(ms) : \A p : p \in ToSet(ms[x].parents) <=> Has(ms[x].parents, p)
    BY ModIs, ToSetHas
  <1> HIDE DEF f
  <1>4. \A x \in 1..Len(ms) : \A p : p \in f[x] <=> Has(ms[x].parents, p) /\ ms[p].status # "evaluated"
    BY <1>2, <1>3
  <1>5. \A x \in DOMAIN f : f[x] \subseteq DOMAIN f
    BY <1>1, <1>4, SMTT(30) DEF Has, ParentsIn
  <1>6. /\ d \in From(d, f) /\ From(d, f) \subseteq DOMAIN f
        /\ \A a \in From(d, f) : f[a] \subseteq From(d, f)
        /\ \A S : d \in S /\ (\A a \in S \cap DOMAIN f : f[a] \subseteq S) => From(d, f) \subseteq S
    BY <1>1, <1>5, FromIs
  <1>7. ASSUME NEW x \in Failing(ms, d), NEW j \in 1..Len(ms[x].parents), ms[ms[x].parents[j]].status # "evaluated"
        PROVE  ms[x].parents[j] \in Failing(ms, d)
    BY <1>1, <1>4, <1>6, <1>7 DEF Has
  <1>8. ASSUME NEW S, d \in S,
               \A x \in S \cap (1..Len(ms)) : \A j \in 1..Len(ms[x].parents) :
                        ms[ms[x].parents[j]].status = "evaluated" \/ ms[x].parents[j] \in S
        PROVE  Failing(ms, d) \subseteq S
    <2>1. \A a \in S \cap DOMAIN f : f[a] \subseteq S
      BY <1>1, <1>4, <1>8 DEF Has
    <2> QED BY <1>1, <1>6, <1>8, <2>1
  <1> QED BY <1>1, <1>6, <1>7, <1>8

(* js_async_module_execution_rejected fails those modules.                 *)
LEMMA RejectedIs ==
    ASSUME NEW ms \in Seq(ModRec), NEW d, NEW e
    PROVE  Rejected(ms, d, e) = RejectedAt(ms, Failing(ms, d), e)
  <1>1. DOMAIN ms = 1..Len(ms)
    BY LenProperties
  <1> QED BY <1>1 DEF Rejected, RejectedAt

(* A body that returns reports, comes back or completes its module.        *)
LEMMA bodyReturnsStep ==
    ASSUME ShapeInv, bodyReturns
    PROVE  /\ RunsBody /\ UNCHANGED <<world, loaded, awaiting, clock>> /\ mods' \in Seq(ModRec)
           /\ \/ Reports(Top.body, TRUE)
              \/ Comes(Top.body) /\ jobs' = jobs
              \/ (\E ms : Completes(Top.body, ms)) /\ jobs' = jobs
  <1> DEFINE d == Top.body
             m1 == WithOut(mods, d, "ok")
  <1>1. RunsBody /\ UNCHANGED <<world, loaded, awaiting, clock>> /\ stk' = BodyEnds
    BY DEF bodyReturns
  <1>2. d \in 1..Len(mods) /\ mods \in Seq(ModRec)
    BY <1>1, BodyRuns, ShapeIs
  <1>3. m1 \in Seq(ModRec) /\ Outs(mods, m1, d, "ok")
    BY <1>2, OutsIs
  <1>4. \/ HasTla(d) /\ jobs' = Append(jobs, <<d, TRUE>>) /\ mods' = m1
        \/ ~HasTla(d) /\ jobs' = jobs /\ Top.op = "fulfilled" /\ mods' = Evaluated(m1, d)
        \/ ~HasTla(d) /\ jobs' = jobs /\ Top.op # "fulfilled" /\ mods' = m1
    BY DEF bodyReturns, WithOut
  <1>5. Len(m1) = Len(mods)
    BY <1>3 DEF Outs
  <1> HIDE DEF m1, d
  <1>6. CASE HasTla(d) /\ jobs' = Append(jobs, <<d, TRUE>>) /\ mods' = m1
    BY <1>1, <1>3, <1>6 DEF Reports, Says, Outcome, d
  <1>7. CASE ~HasTla(d) /\ jobs' = jobs /\ Top.op # "fulfilled" /\ mods' = m1
    BY <1>1, <1>3, <1>7 DEF Comes, d
  <1>8. CASE ~HasTla(d) /\ jobs' = jobs /\ Top.op = "fulfilled" /\ mods' = Evaluated(m1, d)
    <2>1. mods' \in Seq(ModRec) /\ Evaluates(m1, mods', d) /\ \A x \in 1..Len(m1) : mods'[x].out = m1[x].out
      BY ONLY <1>2, <1>3, <1>5, <1>8, EvaluatesIs
    <2>2. Completes(d, m1)
      BY ONLY <1>1, <1>3, <1>5, <1>8, <2>1 DEF Completes
    <2> QED BY <1>1, <1>8, <2>1, <2>2 DEF d
  <1> QED BY <1>4, <1>6, <1>7, <1>8

(* A body that throws reports, fails the evaluation or breaks its module.  *)
LEMMA bodyThrowsStep ==
    ASSUME ShapeInv, bodyThrows
    PROVE  /\ RunsBody /\ UNCHANGED <<world, loaded, awaiting, clock>>
           /\ \/ Reports(Top.body, FALSE) /\ mods' \in Seq(ModRec)
              \/ (\E ms : Throws(Top.body, ms)) /\ jobs' = jobs
              \/ (\E ms : Breaks(Top.body, ms)) /\ jobs' = jobs /\ mods' \in Seq(ModRec)
  <1> DEFINE d == Top.body
             m1 == WithOut(mods, d, "threw")
  <1>1. RunsBody /\ UNCHANGED <<world, loaded, awaiting, clock>>
    BY DEF bodyThrows
  <1>2. d \in 1..Len(mods) /\ mods \in Seq(ModRec)
    BY <1>1, BodyRuns, ShapeIs
  <1>3. m1 \in Seq(ModRec) /\ Outs(mods, m1, d, "threw")
    BY <1>2, OutsIs
  <1>4. \/ HasTla(d) /\ jobs' = Append(jobs, <<d, FALSE>>) /\ mods' = m1 /\ stk' = BodyEnds
        \/ ~HasTla(d) /\ jobs' = jobs /\ Top.op = "fulfilled" /\ mods' = Rejected(m1, d, d) /\ stk' = BodyEnds
        \/ ~HasTla(d) /\ jobs' = jobs /\ Top.op # "fulfilled" /\ AbandonEvaluation(m1, d)
    BY DEF bodyThrows, WithOut
  <1>5. Len(m1) = Len(mods)
    BY <1>3 DEF Outs
  <1> HIDE DEF m1, d
  <1>6. CASE HasTla(d) /\ jobs' = Append(jobs, <<d, FALSE>>) /\ mods' = m1 /\ stk' = BodyEnds
    BY <1>1, <1>3, <1>6 DEF Reports, Says, Outcome, d
  <1>7. CASE ~HasTla(d) /\ jobs' = jobs /\ Top.op # "fulfilled" /\ AbandonEvaluation(m1, d)
    BY <1>1, <1>3, <1>7 DEF Throws, d
  <1>8. CASE ~HasTla(d) /\ jobs' = jobs /\ Top.op = "fulfilled" /\ mods' = Rejected(m1, d, d) /\ stk' = BodyEnds
    <2>1. mods' = RejectedAt(m1, Failing(m1, d), d) /\ d \in Nat
      BY <1>2, <1>3, <1>8, RejectedIs, ShapeIs
    <2>2. mods' \in Seq(ModRec) /\ Rejects(m1, mods', Failing(m1, d), d) /\ \A x \in 1..Len(m1) : mods'[x].out = m1[x].out
      BY ONLY <1>3, <2>1, RejectsIs
    <2>3. Breaks(d, m1)
      BY ONLY <1>1, <1>3, <1>5, <1>8, <2>2 DEF Breaks
    <2> QED BY <1>1, <1>8, <2>2, <2>3 DEF d
  <1> QED BY <1>4, <1>6, <1>7, <1>8

(* What is kept when a body has ended.                                     *)
LEMMA OutsRefs ==
    ASSUME ShapeInv, NEW d \in 1..Len(mods), NEW o, NEW ms \in Seq(ModRec), Outs(mods, ms, d, o)
    PROVE  /\ Len(ms) = Len(mods) /\ (\A x \in 1..Len(mods) : SameShape(mods[x], ms[x])) /\ Grows(mods, ms)
           /\ LinksOK(world, ms) /\ ParentsIn(ms) /\ RootsOK(ms)
           /\ \A x \in 1..Len(mods) : /\ ms[x].parents = mods[x].parents /\ ms[x].root = mods[x].root
                                      /\ ms[x].err = mods[x].err
  <1>1. /\ Len(ms) = Len(mods)
        /\ \A x \in 1..Len(mods) : SameShape(mods[x], ms[x]) /\ ms[x].parents = mods[x].parents
                                   /\ ms[x].root = mods[x].root /\ ms[x].err = mods[x].err
    BY ONLY Outs(mods, ms, d, o) DEF Outs, OthersSame, SameMod, SameEval
  <1>2. mods \in Seq(ModRec) /\ LinksOK(world, mods) /\ ParentsIn(mods) /\ RootsOK(mods) /\ Len(mods) \in Nat
    BY ShapeIs
  <1>3. Grows(mods, ms)
    BY ONLY <1>1, <1>2 DEF Grows, SameShape
  <1>4. \A x \in 1..Len(mods) : ms[x].links = mods[x].links /\ ms[x].status = mods[x].status
    BY ONLY <1>1 DEF SameShape
  <1>5. LinksOK(world, ms) /\ ParentsIn(ms) /\ RootsOK(ms)
    BY ONLY <1>1, <1>2, <1>3, <1>4, ms \in Seq(ModRec), RefsSame
  <1> QED BY <1>1, <1>3, <1>5

(* Modules that were waited for are evaluated.                             *)
LEMMA EndsRefs ==
    ASSUME ShapeInv, stk = <<>> \/ (Len(stk) = 1 /\ Top.op \notin Base), mods' \in Seq(ModRec), Len(mods') = Len(mods),
           \A x \in 1..Len(mods) :
              /\ SameBase(mods[x], mods'[x]) /\ mods'[x].parents = mods[x].parents /\ mods'[x].root = mods[x].root
              /\ mods'[x].err \in 0..Len(mods)
              /\ mods'[x].status = mods[x].status \/ (mods[x].status \in Begun /\ mods'[x].status = "evaluated")
    PROVE  /\ Grows(mods, mods') /\ LinksOK(world, mods') /\ ParentsIn(mods') /\ RootsOK(mods')
           /\ \A x \in 1..Len(mods) : mods'[x].status \notin {"linking", "evaluating"}
  <1>1. mods \in Seq(ModRec) /\ LinksOK(world, mods) /\ ParentsIn(mods) /\ RootsOK(mods) /\ Len(mods) \in Nat
    BY ShapeIs
  <1>2. \A x \in 1..Len(mods) : mods[x].status \notin {"linking", "evaluating"}
    BY JobAlone
  <1>3. \A x \in 1..Len(mods) : mods'[x].status \notin {"linking", "evaluating"}
    BY <1>2
  <1>4. Grows(mods, mods')
    BY <1>1 DEF Grows, SameBase, Begun
  <1>5. LinksOK(world, mods') /\ ParentsIn(mods')
    <2>1. \A x \in 1..Len(mods) : mods'[x].links = mods[x].links
      BY DEF SameBase
    <2>2. \A x \in 1..Len(mods) : mods'[x].parents = mods[x].parents
      OBVIOUS
    <2> QED BY ONLY <1>1, <1>4, <2>1, <2>2, mods' \in Seq(ModRec), Len(mods') = Len(mods), RefsKept
  <1>6. RootsOK(mods')
    <2>1. \A x \in 1..Len(mods) : mods'[x].status \in Ended <=> mods[x].status \in Ended
      BY <1>2 DEF Ended, Begun
    <2>2. \A x \in 1..Len(mods) : mods'[x].root = mods[x].root /\ mods'[x].err \in 0..Len(mods)
      OBVIOUS
    <2> QED BY ONLY <1>1, <2>1, <2>2, Len(mods') = Len(mods) DEF RootsOK
  <1> QED BY <1>3, <1>4, <1>5, <1>6

(* A body with an await that ends keeps the shape.                         *)
LEMMA BodyReportsShape ==
    ASSUME ShapeInv, RunsBody, UNCHANGED <<world, loaded, awaiting, clock>>, mods' \in Seq(ModRec),
           NEW f \in BOOLEAN, Reports(Top.body, f)
    PROVE  ShapeInv'
  <1>1. Top.body \in 1..Len(mods) /\ mods[Top.body].status \in Begun
    BY BodyRuns
  <1>2. Outs(mods, mods', Top.body, Outcome(f)) /\ stk' = BodyEnds /\ jobs' = Says(jobs, Top.body, f)
    BY DEF Reports
  <1>3. /\ Len(mods') = Len(mods) /\ (\A x \in 1..Len(mods) : SameShape(mods[x], mods'[x])) /\ Grows(mods, mods')
        /\ LinksOK(world, mods') /\ ParentsIn(mods') /\ RootsOK(mods')
    BY <1>1, <1>2, OutsRefs
  <1>4. jobs' \in Seq(Nat \X BOOLEAN) /\ QueuedOK(mods', jobs', awaiting')
    BY <1>1, <1>2, <1>3, SaysIs
  <1>5. awaiting' \subseteq 1..Len(mods')
    BY <1>3, ShapeIs
  <1>6. \A x \in 1..Len(mods) : mods'[x].status \in {"linking", "evaluating"} => mods[x].status = mods'[x].status
    BY <1>3 DEF SameShape
  <1> QED BY <1>2, <1>3, <1>4, <1>5, <1>6, BodyEndsShape

(* The queue is kept when nothing is queued.                               *)
LEMMA QueueSame ==
    ASSUME ShapeInv, mods' \in Seq(ModRec), Grows(mods, mods'), jobs' = jobs, awaiting' = awaiting
    PROVE  jobs' \in Seq(Nat \X BOOLEAN) /\ awaiting' \subseteq 1..Len(mods') /\ QueuedOK(mods', jobs', awaiting')
  BY ShapeIs, QueuedSame

(* bodyReturns keeps the shape.                                            *)
LEMMA bodyReturnsShape ==
    ASSUME ShapeInv, bodyReturns
    PROVE  ShapeInv'
  <1> DEFINE d == Top.body
  <1>1. RunsBody /\ UNCHANGED <<world, loaded, awaiting, clock>> /\ mods' \in Seq(ModRec)
    BY bodyReturnsStep
  <1>2. d \in 1..Len(mods) /\ mods[d].status \in Begun
    BY <1>1, BodyRuns
  <1>3. CASE Reports(d, TRUE)
    BY <1>1, <1>3, BodyReportsShape
  <1>4. CASE Comes(d) /\ jobs' = jobs
    <2>1. Outs(mods, mods', d, "ok") /\ stk' = BodyEnds
      BY <1>4 DEF Comes
    <2>2. /\ Len(mods') = Len(mods) /\ (\A x \in 1..Len(mods) : SameShape(mods[x], mods'[x])) /\ Grows(mods, mods')
          /\ LinksOK(world, mods') /\ ParentsIn(mods') /\ RootsOK(mods')
      BY <1>1, <1>2, <2>1, OutsRefs
    <2>3. \A x \in 1..Len(mods) : mods'[x].status \in {"linking", "evaluating"} => mods[x].status = mods'[x].status
      BY <2>2 DEF SameShape
    <2> QED BY <1>1, <1>4, <2>1, <2>2, <2>3, QueueSame, BodyEndsShape
  <1>5. CASE (\E ms : Completes(d, ms)) /\ jobs' = jobs
    <2>1. PICK ms : Completes(d, ms)
      BY <1>5
    <2>2. /\ Top.op = "fulfilled" /\ ms \in Seq(ModRec) /\ Outs(mods, ms, d, "ok") /\ Evaluates(ms, mods', d)
          /\ stk' = BodyEnds
      BY <2>1 DEF Completes
    <2>3. Len(stk) = 1 /\ Top.op \notin Base
      BY <1>1, <2>2, BodyRuns
    <2>4. /\ Len(ms) = Len(mods) /\ \A x \in 1..Len(mods) : SameShape(mods[x], ms[x])
          /\ \A x \in 1..Len(mods) : /\ ms[x].parents = mods[x].parents /\ ms[x].root = mods[x].root
                                     /\ ms[x].err = mods[x].err
      BY <1>2, <2>2, OutsRefs
    <2>5. Len(mods') = Len(mods)
      BY <2>2, <2>4 DEF Evaluates
    <2>6. ASSUME NEW x \in 1..Len(mods)
          PROVE  /\ SameBase(ms[x], mods'[x]) /\ mods'[x].parents = ms[x].parents /\ mods'[x].root = ms[x].root
                 /\ mods'[x].err = ms[x].err
                 /\ (x # d => mods'[x].status = ms[x].status) /\ (x = d => mods'[x].status = "evaluated")
      BY ONLY <2>2, <2>4, x \in 1..Len(mods) DEF Evaluates, OthersSame, SameMod, SameEval, SameShape, SameBase
    <2>7. ASSUME NEW x \in 1..Len(mods)
          PROVE  /\ SameBase(mods[x], mods'[x]) /\ mods'[x].parents = mods[x].parents /\ mods'[x].root = mods[x].root
                 /\ mods'[x].err = mods[x].err
                 /\ mods'[x].status = mods[x].status \/ (mods[x].status \in Begun /\ mods'[x].status = "evaluated")
      BY ONLY <1>2, <2>4, <2>6, x \in 1..Len(mods) DEF SameShape, SameBase
    <2>8. \A x \in 1..Len(mods) : mods[x].err \in 0..Len(mods)
      BY ShapeIs DEF RootsOK
    <2>9. /\ Grows(mods, mods') /\ LinksOK(world, mods') /\ ParentsIn(mods') /\ RootsOK(mods')
          /\ \A x \in 1..Len(mods) : mods'[x].status \notin {"linking", "evaluating"}
      BY <1>1, <2>3, <2>5, <2>7, <2>8, EndsRefs
    <2> QED BY <1>1, <1>5, <2>2, <2>5, <2>9, QueueSame, BodyEndsShape
  <1> QED BY <1>3, <1>4, <1>5, bodyReturnsStep

(* An error goes to modules whose evaluation was begun.                    *)
LEMMA FailingBegun ==
    ASSUME NEW ms \in Seq(ModRec), ParentsIn(ms), NEW d \in 1..Len(ms), ms[d].status \in Begun,
           NEW x \in Failing(ms, d)
    PROVE  x \in 1..Len(ms) /\ ms[x].status \in Begun
  <1> DEFINE S == {y \in 1..Len(ms) : ms[y].status \in Begun}
  <1>1. d \in S
    OBVIOUS
  <1>2. \A y \in S \cap (1..Len(ms)) : \A j \in 1..Len(ms[y].parents) :
            ms[ms[y].parents[j]].status = "evaluated" \/ ms[y].parents[j] \in S
    BY DEF ParentsIn
  <1>3. Failing(ms, d) \subseteq S
    <2> HIDE DEF S
    <2> QED BY ONLY <1>1, <1>2, ms \in Seq(ModRec), ParentsIn(ms), d \in 1..Len(ms), FailingIs
  <1> QED BY <1>3

(* An error that is passed on keeps the references.                        *)
LEMMA RejectsRefs ==
    ASSUME ShapeInv, stk = <<>> \/ (Len(stk) = 1 /\ Top.op \notin Base), mods' \in Seq(ModRec),
           NEW d \in 1..Len(mods), mods[d].status \in Begun, NEW ms \in Seq(ModRec), Len(ms) = Len(mods),
           \A x \in 1..Len(mods) :
              /\ SameShape(mods[x], ms[x]) /\ ms[x].parents = mods[x].parents /\ ms[x].root = mods[x].root
              /\ ms[x].err = mods[x].err,
           ParentsIn(ms), Rejects(ms, mods', Failing(ms, d), d)
    PROVE  /\ Len(mods') = Len(mods) /\ Grows(mods, mods')
           /\ LinksOK(world, mods') /\ ParentsIn(mods') /\ RootsOK(mods')
           /\ \A x \in 1..Len(mods) : mods'[x].status \notin {"linking", "evaluating"}
  <1> DEFINE F == Failing(ms, d)
  <1>1. ms[d].status \in Begun /\ d \in 1..Len(ms)
    BY DEF SameShape
  <1>2. \A x \in F : x \in 1..Len(ms) /\ ms[x].status \in Begun
    BY <1>1, FailingBegun
  <1>3. Len(mods') = Len(mods)
    BY DEF Rejects
  <1>4. d \in 0..Len(mods) /\ \A x \in 1..Len(mods) : mods[x].err \in 0..Len(mods)
    <2>1. Len(mods) \in Nat /\ RootsOK(mods)
      BY ShapeIs
    <2>2. d \in 0..Len(mods)
      BY ONLY <2>1, d \in 1..Len(mods)
    <2> QED BY ONLY <2>1, <2>2 DEF RootsOK
  <1> HIDE DEF F
  <1>5. Rejects(ms, mods', F, d)
    BY DEF F
  <1>6. ASSUME NEW x \in 1..Len(mods)
        PROVE  /\ SameBase(ms[x], mods'[x]) /\ mods'[x].parents = ms[x].parents /\ mods'[x].root = ms[x].root
               /\ x \in F => mods'[x].err = d /\ mods'[x].status = "evaluated"
               /\ x \notin F => mods'[x].err = ms[x].err /\ mods'[x].status = ms[x].status
    BY ONLY <1>5, x \in 1..Len(mods), Len(ms) = Len(mods) DEF Rejects
  <1>7. ASSUME NEW x \in 1..Len(mods)
        PROVE  /\ SameBase(mods[x], mods'[x]) /\ mods'[x].parents = mods[x].parents /\ mods'[x].root = mods[x].root
               /\ mods'[x].err \in 0..Len(mods)
               /\ mods'[x].status = mods[x].status \/ (mods[x].status \in Begun /\ mods'[x].status = "evaluated")
    <2>1. /\ SameShape(mods[x], ms[x]) /\ ms[x].parents = mods[x].parents /\ ms[x].root = mods[x].root
          /\ ms[x].err = mods[x].err
      OBVIOUS
    <2> QED BY ONLY <1>2, <1>4, <1>6, <2>1, x \in 1..Len(mods) DEF SameShape, SameBase
  <1> QED BY <1>3, <1>7, EndsRefs

(* Only a body with an await is resumed.                                   *)
Awaits(w, ms, st, aw) ==
    /\ \A x \in aw : ms[x].name \in w.has_tla
    /\ \A k \in 1..Len(st) : st[k].op = "bodyResumes" => ms[st[k].body].name \in w.has_tla
AwaitInv == Awaits(world, mods, stk, awaiting)

(* bodyThrows keeps the shape.                                             *)
LEMMA bodyThrowsShape ==
    ASSUME ShapeInv, AwaitInv, bodyThrows
    PROVE  ShapeInv'
  <1> DEFINE d == Top.body
  <1>1. RunsBody /\ UNCHANGED <<world, loaded, awaiting, clock>>
    BY bodyThrowsStep
  <1>2. d \in 1..Len(mods) /\ mods[d].status \in Begun /\ stk # <<>>
    BY <1>1, BodyRuns
  <1>3. CASE Reports(d, FALSE) /\ mods' \in Seq(ModRec)
    BY <1>1, <1>3, BodyReportsShape
  <1>4. CASE (\E ms : Throws(d, ms)) /\ jobs' = jobs
    <2>1. PICK ms : Throws(d, ms)
      BY <1>4
    <2>2. /\ ~HasTla(d) /\ Top.op # "fulfilled" /\ ms \in Seq(ModRec) /\ Outs(mods, ms, d, "threw")
          /\ AbandonEvaluation(ms, d)
      BY <2>1 DEF Throws
    <2>3. Top.op = "js_evaluate_module"
      <3>1. Top = stk[Len(stk)] /\ Len(stk) \in 1..Len(stk)
        BY <1>2, ShapeIs, TopIs
      <3>2. Top.op # "bodyResumes"
        BY <2>2, <3>1 DEF AwaitInv, Awaits, HasTla
      <3> QED BY <1>1, <2>2, <3>2, BodyRuns DEF BodyOps
    <2>4. Top.list # <<>> /\ d \in Nat
      BY <1>1, <1>2, <2>3, BodyRuns, ShapeIs
    <2>5. Len(ms) = Len(mods) /\ \A x \in 1..Len(mods) : ms[x] = mods[x] \/ x = d \/ SameMod(mods[x], ms[x])
      BY <2>2 DEF Outs, OthersSame
    <2>6. mods' \in Seq(ModRec) /\ Fails(ms, mods', ToSet(Top.list), d, Top.list[1]) /\ stk' = Pop
      BY <1>2, <2>2, <2>3, <2>4, <2>5, AbandonIs
    <2>7. Fails(mods, mods', ToSet(Top.list), d, Top.list[1])
      <3>1. \A x \in 1..Len(mods) :
              /\ SameShape(mods[x], ms[x])
              /\ ms[x].root = mods[x].root /\ ms[x].pending = mods[x].pending /\ ms[x].async = mods[x].async
              /\ ms[x].timestamp = mods[x].timestamp /\ ms[x].parents = mods[x].parents
              /\ ms[x].err = mods[x].err /\ ms[x].promise = mods[x].promise /\ ms[x].runs = mods[x].runs
        BY ONLY <2>2 DEF Outs, OthersSame, SameMod, SameEval
      <3> QED BY ONLY <2>5, <2>6, <3>1 DEF Fails, SameShape, SameBase
    <2> QED BY <1>1, <1>2, <1>4, <2>3, <2>4, <2>6, <2>7, AbandonShape
  <1>5. CASE (\E ms : Breaks(d, ms)) /\ jobs' = jobs /\ mods' \in Seq(ModRec)
    <2>1. PICK ms : Breaks(d, ms)
      BY <1>5
    <2>2. /\ Top.op = "fulfilled" /\ ms \in Seq(ModRec) /\ Outs(mods, ms, d, "threw")
          /\ Rejects(ms, mods', Failing(ms, d), d) /\ stk' = BodyEnds
      BY <2>1 DEF Breaks
    <2>3. Len(stk) = 1 /\ Top.op \notin Base
      BY <1>1, <2>2, BodyRuns
    <2>4. /\ Len(ms) = Len(mods) /\ (\A x \in 1..Len(mods) : SameShape(mods[x], ms[x])) /\ ParentsIn(ms)
          /\ \A x \in 1..Len(mods) : /\ ms[x].parents = mods[x].parents /\ ms[x].root = mods[x].root
                                     /\ ms[x].err = mods[x].err
      BY <1>2, <2>2, OutsRefs
    <2>5. /\ Len(mods') = Len(mods) /\ Grows(mods, mods')
          /\ LinksOK(world, mods') /\ ParentsIn(mods') /\ RootsOK(mods')
          /\ \A x \in 1..Len(mods) : mods'[x].status \notin {"linking", "evaluating"}
      BY <1>2, <1>5, <2>2, <2>3, <2>4, RejectsRefs
    <2> QED BY <1>1, <1>5, <2>2, <2>5, QueueSame, BodyEndsShape
  <1> QED BY <1>3, <1>4, <1>5, bodyThrowsStep

(* bodyAwaits keeps the shape.                                             *)
LEMMA bodyAwaitsShape ==
    ASSUME ShapeInv, bodyAwaits
    PROVE  ShapeInv'
  <1>1. RunsBody /\ awaiting' = awaiting \cup {Top.body} /\ stk' = BodyEnds /\ UNCHANGED <<world, mods, loaded, jobs, clock>>
    BY DEF bodyAwaits
  <1>2. Top.body \in 1..Len(mods) /\ mods[Top.body].status \in Begun
    BY <1>1, BodyRuns
  <1>3. /\ mods' \in Seq(ModRec) /\ Len(mods') = Len(mods) /\ Grows(mods, mods')
        /\ LinksOK(world, mods') /\ ParentsIn(mods') /\ RootsOK(mods')
        /\ \A x \in 1..Len(mods) : SameShape(mods[x], mods'[x])
    BY <1>1, NothingMade
  <1>4. \A x \in 1..Len(mods) : mods'[x].status \in {"linking", "evaluating"} => mods[x].status = mods'[x].status
    BY <1>1
  <1>5. jobs' \in Seq(Nat \X BOOLEAN) /\ awaiting' \subseteq 1..Len(mods') /\ QueuedOK(mods', jobs', awaiting')
    BY <1>1, <1>2, ShapeIs DEF QueuedOK
  <1> QED BY <1>1, <1>3, <1>4, <1>5, BodyEndsShape
-----------------------------------------------------------------------------
(* Counting.                                                               *)

LEMMA ImageFinite ==
    ASSUME NEW S, IsFiniteSet(S), NEW f, f = [x \in S |-> f[x]]
    PROVE  IsFiniteSet({f[x] : x \in S})
  <1> DEFINE T == {f[x] : x \in S}
  <1>1. f \in Surjection(S, T)
    BY DEF Surjection
  <1> HIDE DEF T
  <1>2. IsFiniteSet(T)
    BY ONLY <1>1, IsFiniteSet(S), FS_Surjection
  <1> QED BY <1>2 DEF T

(* Who will report to p: the entries for it among the parents of D.        *)
Entries(ms, D, p) ==
    UNION {{<<x, k>> : k \in {j \in DOMAIN ms[x].parents : ms[x].parents[j] = p}} : x \in D}

Pair(x, k) == <<x, k>>

EntryOf(ms, D, p, q) == \E x \in D : \E k \in 1..Len(ms[x].parents) : ms[x].parents[k] = p /\ q = Pair(x, k)

(* Pairs are equal when their elements are.                                *)
LEMMA PairIs ==
    ASSUME NEW x, NEW k, NEW y, NEW h
    PROVE  Pair(x, k) = Pair(y, h) <=> x = y /\ k = h
  BY DEF Pair

(* Waits is the number of these entries, which are finitely many.          *)
LEMMA EntriesIs ==
    ASSUME NEW ms \in Seq(ModRec), NEW D, D \subseteq 1..Len(ms), NEW p
    PROVE  /\ IsFiniteSet(Entries(ms, D, p)) /\ Waits(ms, D, p) = Cardinality(Entries(ms, D, p))
           /\ Waits(ms, D, p) \in Nat
           /\ \A q : q \in Entries(ms, D, p) <=> EntryOf(ms, D, p, q)
  <1> DEFINE J(x) == {j \in DOMAIN ms[x].parents : ms[x].parents[j] = p}
             T(x) == {<<x, k>> : k \in J(x)}
             f == [x \in D |-> T(x)]
             F == {f[x] : x \in D}
  <1>1. \A x \in D : DOMAIN ms[x].parents = 1..Len(ms[x].parents) /\ Len(ms[x].parents) \in Nat
    BY ModIs, LenProperties
  <1>2. ASSUME NEW x \in D PROVE IsFiniteSet(T(x))
    <2>1. IsFiniteSet(1..Len(ms[x].parents))
      <3>1. 1 \in Int /\ Len(ms[x].parents) \in Int
        BY <1>1
      <3> QED BY ONLY <3>1, FS_Interval
    <2>2. J(x) \in SUBSET (1..Len(ms[x].parents))
      BY <1>1
    <2>3. IsFiniteSet(J(x))
      BY <2>1, <2>2, FS_Subset
    <2> DEFINE g == [k \in J(x) |-> <<x, k>>]
    <2>4. g = [k \in J(x) |-> g[k]]
      OBVIOUS
    <2>5. {g[k] : k \in J(x)} = T(x)
      OBVIOUS
    <2> HIDE DEF g
    <2>6. IsFiniteSet({g[k] : k \in J(x)})
      BY ONLY <2>3, <2>4, ImageFinite
    <2> QED BY <2>5, <2>6
  <1>3. IsFiniteSet(D)
    <2>1. IsFiniteSet(1..Len(ms)) /\ D \in SUBSET (1..Len(ms))
      BY ModIs, FS_Interval
    <2> QED BY ONLY <2>1, FS_Subset
  <1>4. \A x \in D : f[x] = T(x)
    OBVIOUS
  <1>5. Entries(ms, D, p) = UNION F
    BY <1>4 DEF Entries
  <1>6. f = [x \in D |-> f[x]]
    OBVIOUS
  <1> HIDE DEF T, f
  <1>7. IsFiniteSet(F) /\ \A S \in F : IsFiniteSet(S)
    BY <1>2, <1>3, <1>4, <1>6, ImageFinite
  <1>8. IsFiniteSet(UNION F)
    <2> HIDE DEF F
    <2> QED BY ONLY <1>7, FS_UNION
  <1>9. Waits(ms, D, p) = Cardinality(Entries(ms, D, p))
    BY DEF Waits, Entries
  <1>10. Waits(ms, D, p) \in Nat
    BY <1>5, <1>8, <1>9, FS_CardinalityType
  <1>11. ASSUME NEW q
         PROVE  q \in Entries(ms, D, p) <=> EntryOf(ms, D, p, q)
    <2>1. q \in Entries(ms, D, p) <=> \E x \in D : q \in T(x)
      BY ONLY <1>4, <1>5
    <2>2. \A x \in D : q \in T(x) <=> \E k \in 1..Len(ms[x].parents) : ms[x].parents[k] = p /\ q = Pair(x, k)
      BY ONLY <1>1 DEF T, Pair
    <2> QED BY ONLY <2>1, <2>2 DEF EntryOf
  <1> QED BY <1>5, <1>8, <1>9, <1>10, <1>11

(* gather_available_ancestors.                                             *)
GatheredAt(ms, R) ==
    [x \in 1..Len(ms) |->
        IF x \in Waiters(ms, R)
        THEN [ms[x] EXCEPT !.pending = @ - MinOf(@, Waits(ms, R, x))] ELSE ms[x]]
SameButPending(a, b) ==
    /\ SameShape(a, b) /\ b.root = a.root /\ b.async = a.async /\ b.timestamp = a.timestamp
    /\ b.parents = a.parents /\ b.err = a.err /\ b.promise = a.promise /\ b.runs = a.runs
    /\ b.out = a.out
Lightens(ms, ms2, R) ==
    /\ Len(ms2) = Len(ms)
    /\ \A x \in 1..Len(ms) :
          /\ SameButPending(ms[x], ms2[x])
          /\ x \in Waiters(ms, R) => ms2[x].pending = ms[x].pending - MinOf(ms[x].pending, Waits(ms, R, x))
          /\ x \notin Waiters(ms, R) => ms2[x].pending = ms[x].pending

(* gather_available_ancestors does that.                                   *)
LEMMA LightensIs ==
    ASSUME NEW ms \in Seq(ModRec), NEW R, R \subseteq 1..Len(ms), NEW ms2, ms2 = GatheredAt(ms, R)
    PROVE  ms2 \in Seq(ModRec) /\ Lightens(ms, ms2, R)
  <1>1. \A x \in 1..Len(ms) : ms[x] \in ModRec /\ ms[x].pending \in Nat
    BY ModIs
  <1> DEFINE Rec(a, n) == [a EXCEPT !.pending = n]
             W(x) == ms[x].pending - MinOf(ms[x].pending, Waits(ms, R, x))
  <1>2. ASSUME NEW a \in ModRec, NEW n \in Nat
        PROVE  Rec(a, n) \in ModRec /\ SameButPending(a, Rec(a, n)) /\ Rec(a, n).pending = n
    BY DEF ModRec, SameButPending, SameShape
  <1>3. ASSUME NEW x \in 1..Len(ms) PROVE W(x) \in Nat
    <2>1. Waits(ms, R, x) \in Nat
      BY EntriesIs
    <2> QED BY <1>1, <2>1 DEF MinOf
  <1>4. /\ ms2 = [x \in 1..Len(ms) |-> ms2[x]]
        /\ \A x \in 1..Len(ms) : x \in Waiters(ms, R) => ms2[x] = Rec(ms[x], W(x))
        /\ \A x \in 1..Len(ms) : x \notin Waiters(ms, R) => ms2[x] = ms[x]
    BY DEF GatheredAt
  <1> HIDE DEF Rec
  <1>5. ASSUME NEW x \in 1..Len(ms), x \in Waiters(ms, R)
        PROVE  ms2[x] \in ModRec /\ SameButPending(ms[x], ms2[x]) /\ ms2[x].pending = W(x)
    BY <1>1, <1>2, <1>3, <1>4, <1>5
  <1>6. ASSUME NEW x \in 1..Len(ms), x \notin Waiters(ms, R)
        PROVE  ms2[x] \in ModRec /\ SameButPending(ms[x], ms2[x]) /\ ms2[x].pending = ms[x].pending
    <2>1. ms2[x] = ms[x]
      BY <1>4, <1>6
    <2> QED BY ONLY <1>1, <2>1, x \in 1..Len(ms) DEF SameButPending, SameShape
  <1>7. ms2 \in Seq(ModRec) /\ Len(ms2) = Len(ms)
    <2>1. \A x \in 1..Len(ms) : ms2[x] \in ModRec
      BY <1>5, <1>6
    <2> QED BY ONLY <1>4, <2>1, ms \in Seq(ModRec), RecordsIs
  <1> QED BY <1>5, <1>6, <1>7 DEF Lightens

(* What becomes available are modules.                                     *)
LEMMA AvailableIn ==
    ASSUME NEW ms \in Seq(ModRec), NEW d \in 1..Len(ms)
    PROVE  Available(ms, d) \subseteq 1..Len(ms) /\ Released(ms, d, Available(ms, d)) \subseteq 1..Len(ms)
  <1>1. DOMAIN ms = 1..Len(ms)
    BY LenProperties
  <1>2. Available(ms, d) \subseteq 1..Len(ms)
    BY <1>1 DEF Available
  <1> QED BY <1>2 DEF Released

(* Gathered counts down for what was released.                             *)
LEMMA GatheredIs ==
    ASSUME NEW ms \in Seq(ModRec), NEW d
    PROVE  Gathered(ms, d) = GatheredAt(ms, Released(ms, d, Available(ms, d)))
  <1>1. DOMAIN ms = 1..Len(ms)
    BY LenProperties
  <1> QED BY <1>1 DEF Gathered, GatheredAt

(* exec_module_list_cmp.                                                   *)
LEMMA ByTimestampIs ==
    ASSUME NEW ms \in Seq(ModRec), NEW A, A \subseteq 1..Len(ms), NEW s \in ByTimestamp(ms, A)
    PROVE  /\ s \in Seq(Nat) /\ \A x : Has(s, x) <=> x \in A
           /\ \A i, j \in 1..Len(s) : i < j => ms[s[i]].timestamp < ms[s[j]].timestamp
  <1>1. IsFiniteSet(A)
    <2>1. IsFiniteSet(1..Len(ms)) /\ A \in SUBSET (1..Len(ms))
      BY ModIs, FS_Interval
    <2> QED BY ONLY <2>1, FS_Subset
  <1>2. Cardinality(A) \in Nat
    BY <1>1, FS_CardinalityType
  <1> DEFINE n == Cardinality(A)
  <1> HIDE DEF n
  <1>3. /\ s \in [1..n -> A] /\ ToSet(s) = A
        /\ \A i, j \in DOMAIN s : i < j => ms[s[i]].timestamp < ms[s[j]].timestamp
    BY DEF ByTimestamp, n
  <1>4. A \subseteq Nat
    BY ModIs
  <1>5. s \in Seq(A) /\ Len(s) = n
    BY <1>2, <1>3 DEF n
  <1>6. s \in Seq(Nat)
    <2>1. s = [i \in 1..n |-> s[i]] /\ (\A i \in 1..n : s[i] \in Nat) /\ n \in Nat
      BY <1>2, <1>3, <1>4 DEF n
    <2> QED BY ONLY <2>1, SeqBy
  <1>7. \A x : x \in ToSet(s) <=> Has(s, x)
    BY <1>6, ToSetHas
  <1> QED BY <1>3, <1>5, <1>6, <1>7
-----------------------------------------------------------------------------
(* The steps of jobs.                                                      *)

LEMMA JobsRunAlone ==
    ASSUME ShapeInv, Reenter = FALSE, MayRunJobs
    PROVE  stk = <<>> /\ stk \in Seq(CallRec) /\ Len(stk) = 0
  BY ShapeIs DEF MayRunJobs

(* The first job is about a module that was begun.                         *)
LEMMA HeadJob ==
    ASSUME ShapeInv, jobs # <<>>
    PROVE  /\ Head(jobs)[1] \in 1..Len(mods) /\ mods[Head(jobs)[1]].status \in Begun /\ Head(jobs)[2] \in BOOLEAN
           /\ Head(jobs) = jobs[1] /\ 1 \in 1..Len(jobs)
           /\ Tail(jobs) \in Seq(Nat \X BOOLEAN) /\ Len(Tail(jobs)) = Len(jobs) - 1 /\ Len(jobs) \in Nat
           /\ \A k \in 1..Len(Tail(jobs)) : k + 1 \in 1..Len(jobs) /\ Tail(jobs)[k] = jobs[k + 1]
           /\ QueuedOK(mods, Tail(jobs), awaiting)
  <1>1. jobs \in Seq(Nat \X BOOLEAN) /\ QueuedOK(mods, jobs, awaiting)
    BY ShapeIs
  <1> DEFINE S == Nat \X BOOLEAN
  <1>2. \A q \in S : q[2] \in BOOLEAN
    OBVIOUS
  <1> HIDE DEF S
  <1>3. jobs \in Seq(S)
    BY <1>1 DEF S
  <1>4. /\ Len(jobs) \in Nat \ {0} /\ 1 \in 1..Len(jobs) /\ Head(jobs) = jobs[1] /\ Head(jobs) \in S
        /\ Tail(jobs) \in Seq(S) /\ Len(Tail(jobs)) = Len(jobs) - 1
        /\ \A i \in 1..(Len(jobs) - 1) : i + 1 \in 1..Len(jobs) /\ i + 1 # 1 /\ Tail(jobs)[i] = jobs[i + 1]
    BY ONLY <1>3, jobs # <<>>, TailIs
  <1>5. Tail(jobs) \in Seq(Nat \X BOOLEAN) /\ Head(jobs)[2] \in BOOLEAN
    BY <1>2, <1>4 DEF S
  <1>6. \A k \in 1..Len(Tail(jobs)) : k + 1 \in 1..Len(jobs) /\ Tail(jobs)[k] = jobs[k + 1]
    BY <1>4
  <1>7. QueuedOK(mods, Tail(jobs), awaiting)
    BY ONLY <1>1, <1>6 DEF QueuedOK
  <1> QED BY ONLY <1>1, <1>4, <1>5, <1>6, <1>7 DEF QueuedOK

(* A job that calls nothing.                                               *)
LEMMA JobShape ==
    ASSUME ShapeInv, stk = <<>>, mods' \in Seq(ModRec), Len(mods') = Len(mods), Grows(mods, mods'),
           LinksOK(world, mods'), ParentsIn(mods'), RootsOK(mods'),
           \A x \in 1..Len(mods) : mods'[x].status \notin {"linking", "evaluating"},
           jobs # <<>>, jobs' = Tail(jobs), stk' = stk, UNCHANGED <<world, loaded, awaiting, clock>>
    PROVE  ShapeInv'
  <1>1. /\ world \in Worlds /\ mods \in Seq(ModRec) /\ stk \in Seq(CallRec) /\ StackOK(world, mods, stk)
        /\ loaded \subseteq 1..Len(mods) /\ awaiting \subseteq 1..Len(mods) /\ clock \in Nat
    BY ShapeIs
  <1>2. jobs' \in Seq(Nat \X BOOLEAN) /\ QueuedOK(mods, jobs', awaiting)
    BY HeadJob
  <1>3. QueuedOK(mods', jobs', awaiting') /\ awaiting' \subseteq 1..Len(mods')
    BY <1>1, <1>2, QueuedSame
  <1>4. StackOK(world, mods', stk')
    BY <1>1, SameKept
  <1> QED BY <1>1, <1>2, <1>3, <1>4, ShapeStep

(* A job that begins.                                                      *)
LEMMA JobBegins ==
    ASSUME ShapeInv, stk = <<>>, mods' \in Seq(ModRec), Len(mods') = Len(mods), Grows(mods, mods'),
           LinksOK(world, mods'), ParentsIn(mods'), RootsOK(mods'),
           \A x \in 1..Len(mods) : mods'[x].status \notin {"linking", "evaluating"},
           jobs' \in Seq(Nat \X BOOLEAN), awaiting' \subseteq 1..Len(mods'), QueuedOK(mods', jobs', awaiting'),
           NEW c \in CallRec, CallOK(world, mods', c), c.op \notin Base, stk' = Append(stk, c),
           UNCHANGED <<world, loaded, clock>>
    PROVE  ShapeInv'
  <1>1. /\ world \in Worlds /\ mods \in Seq(ModRec) /\ stk \in Seq(CallRec) /\ StackOK(world, mods, stk)
        /\ loaded \subseteq 1..Len(mods) /\ clock \in Nat /\ Len(stk) = 0
    BY ShapeIs
  <1>2. CallNeeds(world, mods', c)
    BY DEF CallNeeds
  <1>3. \A k \in 1..Len(stk) : \A x \in 1..Len(mods) :
              Works(stk[k], x) => mods[x].name \notin NeedsOf(world, c.n)
    BY <1>1
  <1>4. \A x \in 1..Len(mods') : mods'[x].status \in {"linking", "evaluating"} =>
              x \in 1..Len(mods) /\ mods[x].status = mods'[x].status
    OBVIOUS
  <1>5. StackOK(world, mods', stk') /\ stk' \in Seq(CallRec)
    BY <1>1, <1>2, <1>3, <1>4, PushKept
  <1> QED BY <1>1, <1>5, ShapeStep

Resumed(d) == [Call("bodyResumes", 0, 0) EXCEPT !.body = d]

(* The call of a body that resumes.                                        *)
LEMMA ResumedIs ==
    ASSUME NEW w, NEW ms \in Seq(ModRec), NEW d \in 1..Len(ms), ms[d].status \in Begun
    PROVE  /\ Resumed(d) \in CallRec /\ CallOK(w, ms, Resumed(d)) /\ Resumed(d).op = "bodyResumes"
           /\ Resumed(d).body = d /\ Resumed(d).path = <<>> /\ Resumed(d).list = <<>> /\ Resumed(d).loads = 0
  <1> DEFINE c == Resumed(d)
  <1>0. c = Resumed(d)
    OBVIOUS
  <1> HIDE DEF c
  <1>1. d \in Nat /\ d # 0 /\ Len(ms) \in Nat /\ 0 \in 0..Len(ms) /\ d \in 0..Len(ms)
    BY ModIs
  <1>2. /\ c \in CallRec /\ c.op = "bodyResumes" /\ c.body = d /\ c.d = 0
        /\ c.path = <<>> /\ c.list = <<>> /\ c.loads = 0
    <2> DEFINE c0 == Call("bodyResumes", 0, 0)
    <2>1. c = WithBody(c0, d)
      BY <1>0 DEF Resumed, WithBody
    <2>2. /\ c0 \in CallRec /\ c0.op = "bodyResumes" /\ c0.d = 0 /\ c0.list = <<>> /\ c0.path = <<>> /\ c0.loads = 0
      <3>1. "bodyResumes" \in Ops /\ 0 \in Names \cup {0} /\ 0 \in Nat
        BY DEF Ops
      <3> QED BY ONLY <3>1, CallNew
    <2> HIDE DEF c0
    <2>3. /\ c \in CallRec /\ c.body = d /\ c.op = c0.op /\ c.n = c0.n /\ c.d = c0.d /\ c.i = c0.i
          /\ c.list = c0.list /\ c.path = c0.path /\ c.loads = c0.loads
      BY <1>1, <2>1, <2>2 DEF CallRec, WithBody
    <2> QED BY ONLY <2>2, <2>3
  <1>3. CallIn(ms, c)
    BY <1>1, <1>2 DEF CallIn
  <1>4. CallOK(w, ms, c)
    BY <1>1, <1>2, <1>3 DEF CallOK, Resolvers
  <1> QED BY ONLY <1>0, <1>2, <1>4

(* bodyResumes keeps the shape.                                            *)
LEMMA bodyResumesShape ==
    ASSUME ShapeInv, Reenter = FALSE, NEW d \in Defs, bodyResumes(d)
    PROVE  ShapeInv'
  <1>1. /\ MayRunJobs /\ d \in awaiting /\ awaiting' = awaiting \ {d} /\ UNCHANGED <<world, mods, loaded, jobs, clock>>
        /\ stk' = Append(stk, Resumed(d))
    BY DEF bodyResumes, Resumed
  <1>2. stk = <<>> /\ d \in 1..Len(mods) /\ mods[d].status \in Begun
    BY <1>1, JobsRunAlone, ShapeIs DEF QueuedOK
  <1>3. /\ mods' \in Seq(ModRec) /\ Len(mods') = Len(mods) /\ Grows(mods, mods')
        /\ LinksOK(world, mods') /\ ParentsIn(mods') /\ RootsOK(mods')
        /\ \A x \in 1..Len(mods) : mods'[x].status \notin {"linking", "evaluating"}
    BY <1>1, <1>2, NothingMade, JobAlone
  <1>4. jobs' \in Seq(Nat \X BOOLEAN) /\ awaiting' \subseteq 1..Len(mods') /\ QueuedOK(mods', jobs', awaiting')
    BY <1>1, ShapeIs DEF QueuedOK
  <1> DEFINE c == Resumed(d)
  <1>5. c = Resumed(d) /\ stk' = Append(stk, c)
    BY <1>1
  <1> HIDE DEF c
  <1>6. c \in CallRec /\ CallOK(world, mods', c) /\ c.op = "bodyResumes"
    <2>1. d \in 1..Len(mods') /\ mods'[d].status \in Begun
      BY <1>1, <1>2
    <2>2. /\ Resumed(d) \in CallRec /\ CallOK(world, mods', Resumed(d)) /\ Resumed(d).op = "bodyResumes"
      BY ONLY <1>3, <2>1, ResumedIs
    <2> QED BY ONLY <1>5, <2>2
  <1>7. c.op \notin Base
    BY <1>6 DEF Base
  <1> QED BY <1>1, <1>2, <1>3, <1>4, <1>5, <1>6, <1>7, JobBegins

(* What the reactions do.                                                  *)
LEMMA rejectedStep ==
    ASSUME ShapeInv, Reenter = FALSE, js_async_module_execution_rejected
    PROVE  /\ stk = <<>> /\ stk' = stk /\ jobs # <<>> /\ jobs' = Tail(jobs) /\ Head(jobs)[2] = FALSE
           /\ UNCHANGED <<world, loaded, awaiting, clock>> /\ mods' \in Seq(ModRec)
           /\ \/ mods' = mods /\ mods[Head(jobs)[1]].status = "evaluated"
              \/ /\ mods[Head(jobs)[1]].status # "evaluated"
                 /\ Rejects(mods, mods', Failing(mods, Head(jobs)[1]), Head(jobs)[1])
                 /\ \A x \in 1..Len(mods) : mods'[x].out = mods[x].out
  <1> DEFINE d == Head(jobs)[1]
  <1>1. /\ MayRunJobs /\ jobs # <<>> /\ ~Head(jobs)[2] /\ jobs' = Tail(jobs)
        /\ mods' = (IF mods[d].status = "evaluated" THEN mods ELSE Rejected(mods, d, d))
        /\ UNCHANGED <<world, loaded, stk, awaiting, clock>>
    BY DEF js_async_module_execution_rejected
  <1>2. d \in 1..Len(mods) /\ Head(jobs)[2] \in BOOLEAN /\ mods \in Seq(ModRec) /\ Len(mods) \in Nat
    BY <1>1, HeadJob, ShapeIs
  <1>3. stk = <<>>
    BY <1>1, JobsRunAlone
  <1>4. Head(jobs)[2] = FALSE
    BY <1>1, <1>2
  <1>5. CASE mods[d].status = "evaluated"
    BY <1>1, <1>2, <1>3, <1>4, <1>5
  <1>6. CASE mods[d].status # "evaluated"
    <2>1. mods' = RejectedAt(mods, Failing(mods, d), d) /\ d \in Nat
      BY <1>1, <1>2, <1>6, RejectedIs
    <2>2. mods' \in Seq(ModRec) /\ Rejects(mods, mods', Failing(mods, d), d) /\ \A x \in 1..Len(mods) : mods'[x].out = mods[x].out
      BY ONLY <1>2, <2>1, RejectsIs
    <2> QED BY <1>1, <1>3, <1>4, <1>6, <2>2
  <1> QED BY <1>5, <1>6

(* js_async_module_execution_rejected keeps the shape.                     *)
LEMMA rejectedShape ==
    ASSUME ShapeInv, Reenter = FALSE, js_async_module_execution_rejected
    PROVE  ShapeInv'
  <1> DEFINE d == Head(jobs)[1]
  <1>1. /\ stk = <<>> /\ stk' = stk /\ jobs # <<>> /\ jobs' = Tail(jobs)
        /\ UNCHANGED <<world, loaded, awaiting, clock>> /\ mods' \in Seq(ModRec)
    BY rejectedStep
  <1>2. d \in 1..Len(mods) /\ mods[d].status \in Begun
    BY <1>1, HeadJob
  <1>3. CASE mods' = mods
    <2>1. /\ Len(mods') = Len(mods) /\ Grows(mods, mods')
          /\ LinksOK(world, mods') /\ ParentsIn(mods') /\ RootsOK(mods')
          /\ \A x \in 1..Len(mods) : mods'[x].status \notin {"linking", "evaluating"}
      BY <1>1, <1>3, NothingMade, JobAlone
    <2> QED BY <1>1, <2>1, JobShape
  <1>4. CASE Rejects(mods, mods', Failing(mods, d), d)
    <2>1. \A x \in 1..Len(mods) : SameShape(mods[x], mods[x])
      BY DEF SameShape
    <2>2. /\ Len(mods') = Len(mods) /\ Grows(mods, mods')
          /\ LinksOK(world, mods') /\ ParentsIn(mods') /\ RootsOK(mods')
          /\ \A x \in 1..Len(mods) : mods'[x].status \notin {"linking", "evaluating"}
      BY <1>1, <1>2, <1>4, <2>1, ShapeIs, RejectsRefs
    <2> QED BY <1>1, <2>2, JobShape
  <1> QED BY <1>3, <1>4, rejectedStep

Reacts(list) == [Call("fulfilled", 0, 0) EXCEPT !.list = list]

(* The call of a reaction with the modules in list to execute.             *)
LEMMA ReactsIs ==
    ASSUME NEW w, NEW ms \in Seq(ModRec), NEW list \in Seq(Nat),
           \A x : Has(list, x) => x \in 1..Len(ms) /\ ms[x].status \in Begun
    PROVE  /\ Reacts(list) \in CallRec /\ CallOK(w, ms, Reacts(list)) /\ Reacts(list).op = "fulfilled"
           /\ Reacts(list).body = 0 /\ Reacts(list).path = <<>> /\ Reacts(list).list = list /\ Reacts(list).loads = 0
  <1> DEFINE c == Reacts(list)
             c0 == Call("fulfilled", 0, 0)
  <1>1. c = Reacts(list) /\ c = [c0 EXCEPT !.list = list]
    BY DEF Reacts
  <1>2. /\ c0 \in CallRec /\ c0.op = "fulfilled" /\ c0.d = 0 /\ c0.list = <<>> /\ c0.path = <<>> /\ c0.loads = 0
        /\ c0.body = 0
    <2>1. "fulfilled" \in Ops /\ 0 \in Names \cup {0} /\ 0 \in Nat /\ <<>> \in Seq(Nat) /\ <<>> \in Seq(Point)
      BY DEF Ops
    <2> HIDE DEF c
    <2> QED BY ONLY <2>1 DEF c0, Call, CallRec
  <1> HIDE DEF c, c0
  <1>3. c \in CallRec /\ c.op = "fulfilled" /\ c.d = 0 /\ c.list = list /\ c.path = <<>> /\ c.loads = 0 /\ c.body = 0
    BY <1>1, <1>2 DEF CallRec
  <1>4. 0 \in 0..Len(ms)
    BY ModIs
  <1>5. \A k \in 1..Len(list) : Has(list, list[k])
    BY DEF Has
  <1>6. CallIn(ms, c)
    BY <1>3, <1>4, <1>5 DEF CallIn
  <1>7. CallOK(w, ms, c)
    BY <1>3, <1>5, <1>6 DEF CallOK, Resolvers
  <1> QED BY ONLY <1>1, <1>3, <1>7

(* The reaction to a body that returned: the modules are as in ms when d   *)
(* is done, those in A became available.                                   *)
Freed(ms, d) == Released(ms, d, Available(ms, d))
Collects(d, ms, list) ==
    /\ mods[d].status # "evaluated" /\ ms \in Seq(ModRec) /\ Evaluates(mods, ms, d)
    /\ (\A x \in 1..Len(mods) : ms[x].out = mods[x].out)
    /\ Lightens(ms, mods', Freed(ms, d))
    /\ list \in ByTimestamp(ms, Available(ms, d)) /\ list \in Seq(Nat)
    /\ \A x : Has(list, x) <=> x \in Available(ms, d)
    /\ stk' = Append(stk, Reacts(list))

(* A reaction does nothing, or collects what became available.             *)
LEMMA fulfilledStep ==
    ASSUME ShapeInv, Reenter = FALSE, js_async_module_execution_fulfilled
    PROVE  /\ stk = <<>> /\ jobs # <<>> /\ jobs' = Tail(jobs) /\ Head(jobs)[2] = TRUE
           /\ UNCHANGED <<world, loaded, awaiting, clock>> /\ mods' \in Seq(ModRec)
           /\ \/ mods' = mods /\ stk' = stk /\ mods[Head(jobs)[1]].status = "evaluated"
              \/ \E ms, list : Collects(Head(jobs)[1], ms, list)
  <1> DEFINE d == Head(jobs)[1]
             ms == Evaluated(mods, d)
  <1>1. /\ MayRunJobs /\ jobs # <<>> /\ Head(jobs)[2] /\ jobs' = Tail(jobs)
        /\ UNCHANGED <<world, loaded, awaiting, clock>>
        /\ \/ mods[d].status = "evaluated" /\ mods' = mods /\ stk' = stk
           \/ /\ mods[d].status # "evaluated" /\ mods' = Gathered(ms, d)
              /\ \E list \in ByTimestamp(ms, Available(ms, d)) : stk' = Append(stk, Reacts(list))
    BY DEF js_async_module_execution_fulfilled, Reacts
  <1>2. d \in 1..Len(mods) /\ Head(jobs)[2] \in BOOLEAN /\ mods \in Seq(ModRec) /\ Len(mods) \in Nat
    BY <1>1, HeadJob, ShapeIs
  <1>3. stk = <<>> /\ Head(jobs)[2] = TRUE
    BY <1>1, <1>2, JobsRunAlone
  <1>4. ms = Evaluated(mods, d)
    OBVIOUS
  <1> HIDE DEF ms, d
  <1>5. CASE mods[d].status = "evaluated" /\ mods' = mods /\ stk' = stk
    BY <1>1, <1>2, <1>3, <1>5 DEF d
  <1>6. CASE /\ mods[d].status # "evaluated" /\ mods' = Gathered(ms, d)
             /\ \E list \in ByTimestamp(ms, Available(ms, d)) : stk' = Append(stk, Reacts(list))
    <2>1. ms \in Seq(ModRec) /\ Evaluates(mods, ms, d) /\ \A x \in 1..Len(mods) : ms[x].out = mods[x].out
      BY ONLY <1>2, <1>4, EvaluatesIs
    <2>2. PICK list \in ByTimestamp(ms, Available(ms, d)) : stk' = Append(stk, Reacts(list))
      BY <1>6
    <2>3. d \in 1..Len(ms)
      BY <1>2, <2>1 DEF Evaluates
    <2>4. Available(ms, d) \subseteq 1..Len(ms) /\ Freed(ms, d) \subseteq 1..Len(ms)
      BY <2>1, <2>3, AvailableIn DEF Freed
    <2> DEFINE A == Available(ms, d)
               R == Freed(ms, d)
    <2>5. mods' = GatheredAt(ms, R)
      BY <1>6, <2>1, GatheredIs DEF Freed
    <2> HIDE DEF A, R
    <2>6. R \subseteq 1..Len(ms) /\ A \subseteq 1..Len(ms) /\ list \in ByTimestamp(ms, A)
      BY <2>2, <2>4 DEF A, R
    <2>7. mods' \in Seq(ModRec) /\ Lightens(ms, mods', R)
      BY <2>1, <2>5, <2>6, LightensIs
    <2>8. list \in Seq(Nat) /\ \A x : Has(list, x) <=> x \in A
      BY ONLY <2>1, <2>6, ByTimestampIs
    <2>9. Collects(d, ms, list)
      BY <1>6, <2>1, <2>2, <2>7, <2>8 DEF Collects, A, R
    <2> QED BY <1>1, <1>3, <2>7, <2>9 DEF d
  <1> QED BY <1>1, <1>5, <1>6 DEF d

(* What becomes available was begun.                                       *)
LEMMA AvailableBegun ==
    ASSUME NEW ms \in Seq(ModRec), ParentsIn(ms), NEW d \in 1..Len(ms)
    PROVE  \A x \in Available(ms, d) : x \in 1..Len(ms) /\ ms[x].status \in Begun
  <1> DEFINE S == {x \in 1..Len(ms) : ms[x].status \in Begun}
  <1>1. DOMAIN ms = 1..Len(ms) /\ \A x \in 1..Len(ms) : \A p : p \in ToSet(ms[x].parents) <=> Has(ms[x].parents, p)
    BY ModIs, ToSetHas, LenProperties
  <1>2. ASSUME NEW p \in Gathers(ms, d, S) PROVE p \in S
    <2> DEFINE R == Released(ms, d, S)
    <2>1. p \in WaitingFor(ms, R)
      BY DEF Gathers, Waiters
    <2>2. R \subseteq 1..Len(ms)
      BY DEF Released
    <2>3. PICK x \in R : p \in ToSet(ms[x].parents)
      BY <2>1 DEF WaitingFor
    <2>4. PICK j \in 1..Len(ms[x].parents) : ms[x].parents[j] = p
      BY <1>1, <2>2, <2>3 DEF Has
    <2> QED BY <2>2, <2>3, <2>4 DEF ParentsIn
  <1>3. S \in SUBSET DOMAIN ms /\ Gathers(ms, d, S) \subseteq S
    BY <1>1, <1>2
  <1> HIDE DEF S
  <1>4. Available(ms, d) \subseteq S
    BY <1>3 DEF Available
  <1> QED BY <1>4 DEF S

(* js_async_module_execution_fulfilled keeps the shape.                    *)
LEMMA fulfilledShape ==
    ASSUME ShapeInv, Reenter = FALSE, js_async_module_execution_fulfilled
    PROVE  ShapeInv'
  <1> DEFINE d == Head(jobs)[1]
  <1>1. /\ stk = <<>> /\ jobs # <<>> /\ jobs' = Tail(jobs)
        /\ UNCHANGED <<world, loaded, awaiting, clock>> /\ mods' \in Seq(ModRec)
    BY fulfilledStep
  <1>2. d \in 1..Len(mods) /\ mods[d].status \in Begun
    BY <1>1, HeadJob
  <1>3. CASE mods' = mods /\ stk' = stk
    <2>1. /\ Len(mods') = Len(mods) /\ Grows(mods, mods')
          /\ LinksOK(world, mods') /\ ParentsIn(mods') /\ RootsOK(mods')
          /\ \A x \in 1..Len(mods) : mods'[x].status \notin {"linking", "evaluating"}
      BY <1>1, <1>3, NothingMade, JobAlone
    <2> QED BY <1>1, <1>3, <2>1, JobShape
  <1>4. ASSUME NEW ms, NEW list, Collects(d, ms, list) PROVE ShapeInv'
    <2>1. /\ ms \in Seq(ModRec) /\ Evaluates(mods, ms, d) /\ Lightens(ms, mods', Freed(ms, d))
          /\ list \in Seq(Nat) /\ (\A x : Has(list, x) <=> x \in Available(ms, d))
          /\ stk' = Append(stk, Reacts(list))
      BY <1>4 DEF Collects
    <2>2. Len(ms) = Len(mods) /\ Len(mods') = Len(mods)
      BY <2>1 DEF Evaluates, Lightens
    <2>3. ASSUME NEW x \in 1..Len(mods)
          PROVE  /\ SameBase(mods[x], ms[x]) /\ ms[x].parents = mods[x].parents /\ ms[x].root = mods[x].root
                 /\ ms[x].err = mods[x].err
                 /\ (x # d => ms[x].status = mods[x].status) /\ (x = d => ms[x].status = "evaluated")
      BY ONLY <2>1, x \in 1..Len(mods) DEF Evaluates, OthersSame, SameMod, SameEval, SameShape, SameBase
    <2>4. ASSUME NEW x \in 1..Len(mods)
          PROVE  /\ SameBase(ms[x], mods'[x]) /\ mods'[x].parents = ms[x].parents /\ mods'[x].root = ms[x].root
                 /\ mods'[x].err = ms[x].err /\ mods'[x].status = ms[x].status
      BY ONLY <2>1, <2>2, x \in 1..Len(mods) DEF Lightens, SameButPending, SameShape, SameBase
    <2>5. ASSUME NEW x \in 1..Len(mods)
          PROVE  /\ SameBase(mods[x], mods'[x]) /\ mods'[x].parents = mods[x].parents /\ mods'[x].root = mods[x].root
                 /\ mods'[x].err = mods[x].err
                 /\ mods'[x].status = mods[x].status \/ (mods[x].status \in Begun /\ mods'[x].status = "evaluated")
      BY ONLY <1>2, <2>3, <2>4, x \in 1..Len(mods) DEF SameBase
    <2>6. \A x \in 1..Len(mods) : mods[x].err \in 0..Len(mods)
      BY ShapeIs DEF RootsOK
    <2>7. /\ Grows(mods, mods') /\ LinksOK(world, mods') /\ ParentsIn(mods') /\ RootsOK(mods')
          /\ \A x \in 1..Len(mods) : mods'[x].status \notin {"linking", "evaluating"}
      BY <1>1, <2>2, <2>5, <2>6, EndsRefs
    <2>8. ParentsIn(ms)
      <3>1. \A x \in 1..Len(mods) : mods'[x].parents = ms[x].parents /\ mods'[x].status = ms[x].status
        BY <2>4
      <3> QED BY ONLY <2>2, <2>7, <3>1 DEF ParentsIn
    <2>9. \A x : Has(list, x) => x \in 1..Len(mods') /\ mods'[x].status \in Begun
      <3>1. \A x \in Available(ms, d) : x \in 1..Len(ms) /\ ms[x].status \in Begun
        BY <1>2, <2>1, <2>2, <2>8, AvailableBegun
      <3> QED BY <2>1, <2>2, <2>4, <3>1
    <2>10. Reacts(list) \in CallRec /\ CallOK(world, mods', Reacts(list)) /\ Reacts(list).op \notin Base
      <3>1. Reacts(list) \in CallRec /\ CallOK(world, mods', Reacts(list)) /\ Reacts(list).op = "fulfilled"
        BY ONLY <1>1, <2>1, <2>9, ReactsIs
      <3> QED BY <3>1 DEF Base
    <2>11. jobs' \in Seq(Nat \X BOOLEAN) /\ awaiting' \subseteq 1..Len(mods') /\ QueuedOK(mods', jobs', awaiting')
      <3>1. jobs' \in Seq(Nat \X BOOLEAN) /\ QueuedOK(mods, jobs', awaiting)
        BY <1>1, HeadJob
      <3> QED BY <1>1, <2>7, <3>1, ShapeIs, QueuedSame
    <2> DEFINE c == Reacts(list)
    <2>12. c \in CallRec /\ CallOK(world, mods', c) /\ c.op \notin Base /\ stk' = Append(stk, c)
      BY <2>1, <2>10
    <2> HIDE DEF c
    <2> QED BY ONLY ShapeInv, <1>1, <2>2, <2>7, <2>11, <2>12, JobBegins
  <1> QED BY <1>3, <1>4, fulfilledStep

WithTail(c) == [c EXCEPT !.list = Tail(@)]
(* The call of a reaction without the first module of its list.            *)
LEMMA WithTailIs ==
    ASSUME NEW c \in CallRec, c.list # <<>>
    PROVE  /\ WithTail(c) \in CallRec /\ WithTail(c).op = c.op /\ WithTail(c).n = c.n /\ WithTail(c).d = c.d
           /\ WithTail(c).i = c.i /\ WithTail(c).path = c.path /\ WithTail(c).loads = c.loads
           /\ WithTail(c).body = c.body /\ WithTail(c).list = Tail(c.list)
           /\ Tail(c.list) \in Seq(Nat) /\ Head(c.list) = c.list[1] /\ 1 \in 1..Len(c.list)
           /\ Len(Tail(c.list)) = Len(c.list) - 1
           /\ \A k \in 1..Len(Tail(c.list)) : k + 1 \in 1..Len(c.list) /\ Tail(c.list)[k] = c.list[k + 1]
  <1>1. c.list \in Seq(Nat)
    BY CallFields
  <1>2. /\ Len(c.list) \in Nat \ {0} /\ 1 \in 1..Len(c.list) /\ Head(c.list) = c.list[1]
        /\ Tail(c.list) \in Seq(Nat) /\ Len(Tail(c.list)) = Len(c.list) - 1
        /\ \A i \in 1..(Len(c.list) - 1) : i + 1 \in 1..Len(c.list) /\ i + 1 # 1 /\ Tail(c.list)[i] = c.list[i + 1]
    BY ONLY <1>1, c.list # <<>>, TailIs
  <1>3. /\ WithTail(c) \in CallRec /\ WithTail(c).op = c.op /\ WithTail(c).n = c.n /\ WithTail(c).d = c.d
        /\ WithTail(c).i = c.i /\ WithTail(c).path = c.path /\ WithTail(c).loads = c.loads
        /\ WithTail(c).body = c.body /\ WithTail(c).list = Tail(c.list)
    BY <1>2 DEF WithTail, CallRec
  <1> QED BY <1>2, <1>3

(* What the execution of a module that became available does.              *)
Runs(d, c) ==
    /\ c \in CallRec /\ c.op = "fulfilled" /\ c.path = <<>> /\ c.loads = 0 /\ c.d = Top.d
    /\ c.list = Tail(Top.list) /\ stk' = WithTop(c)
    /\ \/ mods[d].status = "evaluated" /\ mods' = mods /\ c.body = 0
       \/ mods[d].status # "evaluated" /\ Starts(mods, mods', d, 1, FALSE, 0) /\ c.body = d

(* The first module that became available is skipped or run.               *)
LEMMA executeAvailableStep ==
    ASSUME ShapeInv, executeAvailable
    PROVE  /\ Is("fulfilled") /\ stk # <<>> /\ Len(stk) = 1 /\ Top.list # <<>> /\ Top \in CallRec
           /\ Head(Top.list) = Top.list[1] /\ 1 \in 1..Len(Top.list)
           /\ Head(Top.list) \in 1..Len(mods) /\ mods[Head(Top.list)].status \in Begun
           /\ Tail(Top.list) \in Seq(Nat) /\ Len(Tail(Top.list)) = Len(Top.list) - 1
           /\ \A k \in 1..Len(Tail(Top.list)) : k + 1 \in 1..Len(Top.list) /\ Tail(Top.list)[k] = Top.list[k + 1]
           /\ UNCHANGED <<world, loaded, jobs, awaiting, clock>> /\ mods' \in Seq(ModRec)
           /\ \E c : Runs(Head(Top.list), c)
  <1> DEFINE d == Head(Top.list)
             c0 == WithTail(Top)
  <1>1. /\ Is("fulfilled") /\ Top.list # <<>> /\ UNCHANGED <<world, loaded, jobs, awaiting, clock>>
        /\ \/ mods[d].status = "evaluated" /\ stk' = WithTop(c0) /\ mods' = mods
           \/ mods[d].status # "evaluated" /\ stk' = WithTop(WithBody(c0, d)) /\ mods' = Ran(mods, d)
    BY DEF executeAvailable, WithTail, WithBody, Ran
  <1>2. stk # <<>> /\ Top.op = "fulfilled" /\ Top.loads = 0 /\ Top.body = 0
    BY <1>1 DEF Is
  <1>3. Top \in CallRec /\ CallOK(world, mods, Top) /\ Len(stk) = 1
    BY <1>2, TopIs DEF Base
  <1>4. Top.path = <<>> /\ CallIn(mods, Top) /\ \A k \in 1..Len(Top.list) : mods[Top.list[k]].status \in Begun
    BY <1>2, <1>3 DEF CallOK
  <1>5. /\ c0 \in CallRec /\ c0.op = Top.op /\ c0.n = Top.n /\ c0.d = Top.d
        /\ c0.i = Top.i /\ c0.path = Top.path /\ c0.loads = Top.loads
        /\ c0.body = Top.body /\ c0.list = Tail(Top.list)
        /\ Tail(Top.list) \in Seq(Nat) /\ Head(Top.list) = Top.list[1] /\ 1 \in 1..Len(Top.list)
        /\ Len(Tail(Top.list)) = Len(Top.list) - 1
        /\ \A k \in 1..Len(Tail(Top.list)) : k + 1 \in 1..Len(Top.list) /\ Tail(Top.list)[k] = Top.list[k + 1]
    BY <1>1, <1>3, WithTailIs
  <1>6. d \in 1..Len(mods) /\ mods[d].status \in Begun /\ mods \in Seq(ModRec) /\ d \in Nat
    <2>1. d = Top.list[1] /\ 1 \in 1..Len(Top.list)
      BY <1>5
    <2> HIDE DEF d
    <2> QED BY <1>4, <2>1, ShapeIs DEF CallIn
  <1> HIDE DEF d, c0
  <1>7. CASE mods[d].status = "evaluated" /\ stk' = WithTop(c0) /\ mods' = mods
    <2>1. Runs(d, c0)
      BY <1>2, <1>4, <1>5, <1>7 DEF Runs
    <2> QED BY <1>1, <1>2, <1>3, <1>5, <1>6, <1>7, <2>1 DEF d
  <1>8. CASE mods[d].status # "evaluated" /\ stk' = WithTop(WithBody(c0, d)) /\ mods' = Ran(mods, d)
    <2> DEFINE c == WithBody(c0, d)
    <2>1. /\ c \in CallRec /\ c.body = d /\ c.op = c0.op /\ c.n = c0.n /\ c.d = c0.d /\ c.i = c0.i
          /\ c.list = c0.list /\ c.path = c0.path /\ c.loads = c0.loads
      BY <1>5, <1>6 DEF WithBody, CallRec
    <2>2. stk' = WithTop(c)
      BY <1>8
    <2> HIDE DEF c
    <2>3. mods' = Started(mods, d, 1, FALSE, 0)
      BY <1>6, <1>8, ExecutesIs
    <2>4. mods' \in Seq(ModRec) /\ Starts(mods, mods', d, 1, FALSE, 0)
      <3>1. 1 \in Nat /\ 0 \in Nat /\ FALSE \in BOOLEAN
        OBVIOUS
      <3> QED BY <1>6, <2>3, <3>1, StartsIs
    <2>5. Runs(d, c)
      BY <1>2, <1>4, <1>5, <1>8, <2>1, <2>2, <2>4 DEF Runs
    <2> QED BY <1>1, <1>2, <1>3, <1>5, <1>6, <2>4, <2>5 DEF d
  <1> QED BY <1>1, <1>7, <1>8

(* executeAvailable keeps the shape.                                       *)
LEMMA executeAvailableShape ==
    ASSUME ShapeInv, executeAvailable
    PROVE  ShapeInv'
  <1> DEFINE d == Head(Top.list)
  <1>1. /\ Is("fulfilled") /\ stk # <<>> /\ Len(stk) = 1 /\ Top.list # <<>> /\ Top \in CallRec
        /\ d \in 1..Len(mods) /\ mods[d].status \in Begun
        /\ \A k \in 1..Len(Tail(Top.list)) : k + 1 \in 1..Len(Top.list) /\ Tail(Top.list)[k] = Top.list[k + 1]
        /\ UNCHANGED <<world, loaded, jobs, awaiting, clock>> /\ mods' \in Seq(ModRec)
    BY executeAvailableStep
  <1>2. PICK c : Runs(d, c)
    BY executeAvailableStep
  <1>3. Top.op = "fulfilled" /\ Top.op \notin Base /\ CallOK(world, mods, Top)
    BY <1>1, TopIs DEF Is, Base
  <1>4. /\ Len(mods') = Len(mods)
        /\ \A x \in 1..Len(mods) : SameShape(mods[x], mods'[x]) /\ mods'[x].parents = mods[x].parents
                                   /\ mods'[x].root = mods[x].root /\ mods'[x].err = mods[x].err
    <2>1. CASE mods' = mods
      BY <2>1 DEF SameShape
    <2>2. CASE Starts(mods, mods', d, 1, FALSE, 0)
      BY ONLY <2>2 DEF Starts, OthersSame, SameMod, SameEval
    <2> QED BY <1>2, <2>1, <2>2 DEF Runs
  <1>5. /\ Grows(mods, mods') /\ LinksOK(world, mods') /\ ParentsIn(mods') /\ RootsOK(mods')
        /\ \A x \in 1..Len(mods) : mods'[x].status \notin {"linking", "evaluating"}
    <2>1. \A x \in 1..Len(mods) : mods[x].err \in 0..Len(mods)
      BY ShapeIs DEF RootsOK
    <2>2. \A x \in 1..Len(mods) :
              /\ SameBase(mods[x], mods'[x]) /\ mods'[x].parents = mods[x].parents /\ mods'[x].root = mods[x].root
              /\ mods'[x].err \in 0..Len(mods) /\ mods'[x].status = mods[x].status
      BY ONLY <1>4, <2>1 DEF SameShape, SameBase
    <2> QED BY <1>1, <1>3, <1>4, <2>2, EndsRefs
  <1>6. /\ c \in CallRec /\ c.op = "fulfilled" /\ c.path = <<>> /\ c.loads = 0 /\ c.d = Top.d
        /\ c.list = Tail(Top.list) /\ stk' = WithTop(c) /\ (c.body = 0 \/ c.body = d)
    BY <1>2 DEF Runs
  <1>7. CallOK(world, mods', c)
    <2>1. CallIn(mods, Top) /\ \A k \in 1..Len(Top.list) : mods[Top.list[k]].status \in Begun
      BY <1>3 DEF CallOK
    <2>2. \A k \in 1..Len(c.list) : c.list[k] \in 1..Len(mods') /\ mods'[c.list[k]].status \in Begun
      BY ONLY <1>1, <1>4, <1>6, <2>1, SMTT(30) DEF CallIn, SameShape
    <2>3. c.body \in 0..Len(mods') /\ (c.body # 0 => mods'[c.body].status \in Begun)
      <3>1. Len(mods) \in Nat
        BY ShapeIs
      <3>2. d \in 0..Len(mods') /\ mods'[d].status \in Begun /\ 0 \in 0..Len(mods')
        BY <1>1, <1>4, <3>1 DEF SameShape
      <3> QED BY <1>6, <3>2
    <2>4. CallIn(mods', c)
      BY ONLY <1>4, <1>6, <2>1, <2>2, <2>3 DEF CallIn
    <2> QED BY <1>6, <2>2, <2>4 DEF CallOK, Resolvers
  <1>8. CallNeeds(world, mods', c)
    BY <1>6 DEF CallNeeds, Base
  <1>9. /\ world \in Worlds /\ mods \in Seq(ModRec) /\ stk \in Seq(CallRec) /\ StackOK(world, mods, stk)
        /\ loaded \subseteq 1..Len(mods) /\ clock \in Nat /\ Top = stk[Len(stk)]
    BY <1>1, ShapeIs, TopIs
  <1>10. c.op \notin Base /\ Touches(world, mods, mods', stk)
    BY <1>1, <1>6 DEF Base, Touches
  <1>11. \A k \in 1..Len(stk) : k = 1 /\ stk[k] = Top
    BY <1>1, <1>9
  <1>12. StackOK(world, mods', stk') /\ stk' \in Seq(CallRec)
    <2>1. stk' = [stk EXCEPT ![1] = c]
      BY <1>1, <1>6 DEF WithTop
    <2>2. stk' \in Seq(CallRec) /\ Len(stk') = 1 /\ stk'[1] = c
      BY ONLY <1>1, <1>6, <1>9, <2>1, 1 \in 1..Len(stk), ExceptIs
    <2>3. CallsOK(world, mods', stk')
      BY <1>7, <1>8, <2>2 DEF CallsOK
    <2>4. Nested(world, mods', stk')
      BY <2>2 DEF Nested, JobsBelow, HostsBelow, Apart
    <2>5. Listed(mods', stk')
      BY <1>4, <1>5 DEF Listed
    <2> QED BY <2>2, <2>3, <2>4, <2>5 DEF StackOK
  <1>13. jobs' \in Seq(Nat \X BOOLEAN) /\ awaiting' \subseteq 1..Len(mods') /\ QueuedOK(mods', jobs', awaiting')
    BY <1>1, <1>5, QueueSame
  <1> QED BY <1>1, <1>4, <1>5, <1>9, <1>12, <1>13, ShapeStep

(* fulfilledDone keeps the shape.                                          *)
LEMMA fulfilledDoneShape ==
    ASSUME ShapeInv, fulfilledDone
    PROVE  ShapeInv'
  <1>1. Is("fulfilled") /\ stk' = Pop /\ UNCHANGED <<world, mods, loaded, jobs, awaiting, clock>>
    BY DEF fulfilledDone
  <1>2. stk # <<>> /\ Top.op = "fulfilled"
    BY <1>1 DEF Is
  <1>3. Len(stk) = 1 /\ Top.op \notin Base
    BY <1>2, TopIs DEF Base
  <1>4. stk' = SubSeq(stk, 1, Len(stk) - 1)
    BY <1>1 DEF Pop
  <1>5. /\ world \in Worlds /\ mods \in Seq(ModRec) /\ stk \in Seq(CallRec) /\ StackOK(world, mods, stk)
        /\ loaded \subseteq 1..Len(mods) /\ clock \in Nat /\ LinksOK(world, mods) /\ ParentsIn(mods) /\ RootsOK(mods)
        /\ jobs \in Seq(Nat \X BOOLEAN) /\ awaiting \subseteq 1..Len(mods) /\ QueuedOK(mods, jobs, awaiting)
    BY ShapeIs
  <1>6. Grows(mods, mods) /\ Touches(world, mods, mods, stk) /\ \A x \in 1..Len(mods) : mods[x].status \notin {"linking", "evaluating"}
    BY <1>3, NothingMade, JobAlone DEF Touches
  <1>7. stk' \in Seq(CallRec) /\ StackOK(world, mods, stk')
    BY ONLY <1>2, <1>4, <1>5, <1>6, PopKept
  <1> QED BY <1>1, <1>5, <1>7, ShapeStep

-----------------------------------------------------------------------------
(* The shape is kept.                                                      *)

(* The stack is what is below the innermost call, and that call.           *)
LEMMA PopIs ==
    ASSUME stk \in Seq(CallRec), stk # <<>>
    PROVE  /\ Pop \in Seq(CallRec) /\ Len(Pop) = Len(stk) - 1 /\ Len(stk) \in Nat \ {0}
           /\ Top \in CallRec /\ Top = stk[Len(stk)] /\ stk = Append(Pop, Top)
           /\ \A k \in 1..Len(Pop) : k \in 1..Len(stk) /\ Pop[k] = stk[k]
  <1>1. /\ SubSeq(stk, 1, Len(stk) - 1) \in Seq(CallRec) /\ Len(SubSeq(stk, 1, Len(stk) - 1)) = Len(stk) - 1
        /\ stk[Len(stk)] \in CallRec /\ stk = Append(SubSeq(stk, 1, Len(stk) - 1), stk[Len(stk)])
        /\ Len(stk) \in Nat \ {0} /\ \A i \in 1..(Len(stk) - 1) : SubSeq(stk, 1, Len(stk) - 1)[i] = stk[i]
    BY ONLY stk \in Seq(CallRec), stk # <<>>, LastAndFront
  <1>2. \A k \in 1..(Len(stk) - 1) : k \in 1..Len(stk)
    BY ONLY <1>1, Below
  <1> QED BY ONLY <1>1, <1>2 DEF Pop, Top

(* The stack with another innermost call.                                  *)
LEMMA WithTopIs ==
    ASSUME stk \in Seq(CallRec), stk # <<>>, NEW c \in CallRec
    PROVE  WithTop(c) = Append(Pop, c) /\ WithTop(c) \in Seq(CallRec)
  <1>1. /\ Pop \in Seq(CallRec) /\ Len(Pop) = Len(stk) - 1 /\ Len(stk) \in Nat \ {0}
        /\ \A k \in 1..Len(Pop) : k \in 1..Len(stk) /\ Pop[k] = stk[k]
    BY PopIs
  <1> DEFINE a == WithTop(c)
             b == Append(Pop, c)
  <1>2. /\ a \in Seq(CallRec) /\ Len(a) = Len(stk) /\ a[Len(stk)] = c
        /\ \A j \in 1..Len(stk) : j # Len(stk) => a[j] = stk[j]
    <2>1. Len(stk) \in 1..Len(stk)
      BY <1>1
    <2> QED BY ONLY <2>1, stk \in Seq(CallRec), c \in CallRec, ExceptIs DEF WithTop
  <1>3. /\ b \in Seq(CallRec) /\ Len(b) = Len(Pop) + 1 /\ b[Len(Pop) + 1] = c
        /\ \A i \in 1..Len(Pop) : b[i] = Pop[i]
    BY ONLY <1>1, c \in CallRec, AppendIs
  <1> HIDE DEF a, b
  <1>4. Len(a) = Len(b) /\ Len(a) \in Nat /\ Len(Pop) + 1 = Len(stk)
    BY ONLY <1>1, <1>2, <1>3
  <1>5. \A k \in 1..Len(a) : a[k] = b[k]
    <2> SUFFICES ASSUME NEW k \in 1..Len(a) PROVE a[k] = b[k]
      OBVIOUS
    <2>1. CASE k = Len(stk)
      BY ONLY <1>2, <1>3, <1>4, <2>1
    <2>2. CASE k # Len(stk)
      <3>1. k \in 1..Len(Pop)
        BY ONLY <1>1, <1>2, <2>2, k \in 1..Len(a)
      <3> QED BY ONLY <1>1, <1>2, <1>3, <2>2, <3>1
    <2> QED BY ONLY <2>1, <2>2
  <1>6. a = b
    <2>1. \A s \in Seq(CallRec), t \in Seq(CallRec) : Len(s) = Len(t) /\ (\A k \in 1..Len(s) : s[k] = t[k]) => s = t
      BY SeqEqual
    <2> QED BY ONLY <1>2, <1>3, <1>4, <1>5, <2>1
  <1> QED BY <1>2, <1>6 DEF a, b

(* Only bodies with an await are resumed.                                  *)
Named(ms, ms2) == Len(ms) <= Len(ms2) /\ \A x \in 1..Len(ms) : ms2[x].name = ms[x].name

(* What resumes was suspended, or is a body with an await.                 *)
LEMMA AwaitsKept ==
    ASSUME ShapeInv, AwaitInv, world' = world, Named(mods, mods'),
           \A x \in awaiting' : x \in awaiting \/ (x \in 1..Len(mods) /\ HasTla(x)),
           \A k \in 1..Len(stk') : stk'[k].op = "bodyResumes" =>
              \/ k \in 1..Len(stk) /\ stk[k].op = "bodyResumes" /\ stk'[k].body = stk[k].body
              \/ stk'[k].body \in 1..Len(mods) /\ HasTla(stk'[k].body)
    PROVE  AwaitInv'
  <1>1. awaiting \subseteq 1..Len(mods)
    BY ShapeIs
  <1>2. \A k \in 1..Len(stk) : stk[k].op = "bodyResumes" => stk[k].body \in 1..Len(mods)
    <2>1. \A k \in 1..Len(stk) : CallOK(world, mods, stk[k])
      BY ShapeIs DEF StackOK, CallsOK
    <2>2. Len(mods) \in Nat
      BY ShapeIs
    <2> QED BY ONLY <2>1, <2>2 DEF CallOK, CallIn
  <1>3. \A x \in awaiting' : mods'[x].name \in world'.has_tla
    BY <1>1 DEF AwaitInv, Awaits, HasTla, Named
  <1>4. \A k \in 1..Len(stk') : stk'[k].op = "bodyResumes" => mods'[stk'[k].body].name \in world'.has_tla
    BY <1>2 DEF AwaitInv, Awaits, HasTla, Named
  <1> QED BY <1>3, <1>4 DEF AwaitInv, Awaits

(* The calls of a stack that grew or shrank by one, or has a new top.      *)
LEMMA AppendCalls ==
    ASSUME NEW s \in Seq(CallRec), NEW c \in CallRec, NEW k \in 1..Len(Append(s, c))
    PROVE  (k \in 1..Len(s) /\ Append(s, c)[k] = s[k]) \/ (k = Len(s) + 1 /\ Append(s, c)[k] = c)
  BY AppendIs

(* Steps that resume nothing.                                              *)
LEMMA AwaitsSame ==
    ASSUME ShapeInv, AwaitInv, world' = world, Named(mods, mods'), awaiting' = awaiting,
           \/ stk' = stk
           \/ stk # <<>> /\ stk' = Pop
           \/ \E c \in CallRec : stk' = Append(stk, c) /\ c.op # "bodyResumes"
           \/ \E c \in CallRec : stk # <<>> /\ stk' = WithTop(c) /\ c.op # "bodyResumes"
    PROVE  AwaitInv'
  <1> USE ShapeIs
  <1>1. CASE stk' = stk
    BY ONLY <1>1, ShapeInv, AwaitInv, world' = world, Named(mods, mods'), awaiting' = awaiting, AwaitsKept
  <1>2. CASE stk # <<>> /\ stk' = Pop
    <2>1. \A k \in 1..Len(stk') : k \in 1..Len(stk) /\ stk'[k] = stk[k]
      BY <1>2, PopIs
    <2> QED BY ONLY <2>1, ShapeInv, AwaitInv, world' = world, Named(mods, mods'), awaiting' = awaiting, AwaitsKept
  <1>3. ASSUME NEW c \in CallRec, stk' = Append(stk, c), c.op # "bodyResumes" PROVE AwaitInv'
    <2>1. \A k \in 1..Len(stk') : (k \in 1..Len(stk) /\ stk'[k] = stk[k]) \/ stk'[k] = c
      BY <1>3, AppendCalls
    <2> QED BY ONLY <1>3, <2>1, ShapeInv, AwaitInv, world' = world, Named(mods, mods'), awaiting' = awaiting, AwaitsKept
  <1>4. ASSUME NEW c \in CallRec, stk # <<>>, stk' = WithTop(c), c.op # "bodyResumes" PROVE AwaitInv'
    <2>1. stk' = Append(Pop, c) /\ Pop \in Seq(CallRec) /\ \A k \in 1..Len(Pop) : k \in 1..Len(stk) /\ Pop[k] = stk[k]
      BY <1>4, WithTopIs, PopIs
    <2>2. \A k \in 1..Len(stk') : (k \in 1..Len(stk) /\ stk'[k] = stk[k]) \/ stk'[k] = c
      BY ONLY <2>1, c \in CallRec, AppendCalls
    <2> QED BY ONLY <1>4, <2>2, ShapeInv, AwaitInv, world' = world, Named(mods, mods'), awaiting' = awaiting, AwaitsKept
  <1> QED BY <1>1, <1>2, <1>3, <1>4

(* Quiet steps.                                                            *)
LEMMA AwaitsQuiet ==
    ASSUME ShapeInv, ShapeInv', AwaitInv, QuietStep
    PROVE  AwaitInv'
  <1>1. Named(mods, mods') /\ awaiting' = awaiting /\ world' = world /\ QuietCalls(stk, stk')
    BY DEF QuietStep, QuietMods, Named
  <1>2. \A k \in 1..Len(stk') : stk'[k].op = "bodyResumes" => k \in 1..Len(stk) /\ stk'[k] = stk[k]
    BY <1>1 DEF QuietCalls, Loud
  <1> QED BY <1>1, <1>2, AwaitsKept

(* What the steps of an evaluation do to the innermost call.               *)
LEMMA EnterIs ==
    ASSUME ShapeInv, stk # <<>>, NEW d \in 1..Len(mods)
    PROVE  /\ Enter(d) = WithTop(WithEntered(Top, d)) /\ WithEntered(Top, d) \in CallRec
           /\ WithEntered(Top, d).op = Top.op /\ WithEntered(Top, d).body = Top.body
  <1>1. Top \in CallRec /\ d \in Nat
    BY ShapeIs, TopIs
  <1>2. Enter(d) = WithTop(WithEntered(Top, d))
    BY DEF Enter, WithEntered
  <1> DEFINE c == WithEntered(Top, d)
  <1>3. c \in CallRec /\ EntersCall(Top, c, d)
    <2>1. c = WithEntered(Top, d)
      OBVIOUS
    <2> HIDE DEF c
    <2> QED BY ONLY <1>1, <2>1, EntersCallIs
  <1> QED BY <1>2, <1>3 DEF EntersCall, SameHead

(* The call of a body that ended.                                          *)
LEMMA BodyEndsIs ==
    ASSUME ShapeInv, RunsBody
    PROVE  \/ Top.op = "bodyResumes" /\ BodyEnds = Pop
           \/ /\ Top.op # "bodyResumes" /\ BodyEnds = WithTop(WithBody(Top, 0)) /\ WithBody(Top, 0) \in CallRec
              /\ WithBody(Top, 0).op = Top.op /\ WithBody(Top, 0).body = 0
              /\ WithBody(Top, 0).list = Top.list /\ WithBody(Top, 0).path = Top.path
  <1>1. Top \in CallRec
    BY BodyRuns
  <1>2. Top.op # "bodyResumes" => BodyEnds = WithTop(WithBody(Top, 0))
    BY DEF BodyEnds, WithBody
  <1>3. Top.op = "bodyResumes" => BodyEnds = Pop
    BY DEF BodyEnds
  <1>4. /\ WithBody(Top, 0) \in CallRec /\ WithBody(Top, 0).op = Top.op /\ WithBody(Top, 0).body = 0
        /\ WithBody(Top, 0).list = Top.list /\ WithBody(Top, 0).path = Top.path
    BY ONLY <1>1 DEF CallRec, WithBody
  <1> QED BY <1>2, <1>3, <1>4

(* Evaluations resume nothing.                                             *)
LEMMA EvaluateAwaits ==
    ASSUME ShapeInv, AwaitInv, Evaluate
    PROVE  AwaitInv'
  <1>1. CASE js_evaluate_module
    <2>1. /\ stk # <<>> /\ Top.op = "js_evaluate_module" /\ Top.d \in 1..Len(mods)
          /\ world' = world /\ awaiting' = awaiting
          /\ (stk' = Pop /\ mods' = mods) \/ (\E r, p : Answers(r, p)) \/ Begins(Top.d)
      BY <1>1, js_evaluate_moduleStep
    <2>2. CASE stk' = Pop /\ mods' = mods
      <3>1. Named(mods, mods')
        BY <2>2, ShapeIs DEF Named
      <3> QED BY <2>1, <2>2, <3>1, AwaitsSame
    <2>3. ASSUME NEW r, NEW p, Answers(r, p) PROVE AwaitInv'
      <3>1. Promises(mods, mods', r, p) /\ stk' = Pop
        BY <2>3 DEF Answers
      <3>2. Named(mods, mods')
        BY ONLY <3>1, ShapeInv, ShapeIs DEF Named, Promises, OthersSame, SameMod, SameShape
      <3> QED BY <2>1, <3>1, <3>2, AwaitsSame
    <2>4. CASE Begins(Top.d)
      <3>1. stk' = Enter(Top.d) /\ Enters(mods, mods', Top.d, Top.i, "evaluating")
        BY <2>4 DEF Begins
      <3>2. Named(mods, mods')
        BY ONLY <3>1, ShapeInv, ShapeIs DEF Named, Enters, OthersSame, SameMod, SameShape
      <3>3. \E c \in CallRec : stk # <<>> /\ stk' = WithTop(c) /\ c.op # "bodyResumes"
        BY <2>1, <3>1, EnterIs
      <3> QED BY <2>1, <3>2, <3>3, AwaitsSame
    <2> QED BY <2>1, <2>2, <2>3, <2>4
  <1>2. CASE evaluateRequest
    <2>1. /\ Within("js_evaluate_module") /\ Child \in 1..Len(mods) /\ world' = world /\ awaiting' = awaiting
          /\ Descends(Child) \/ (\E e : GivesUp(Child, e)) \/ (\E x, a : Continues(Child, x, a))
      BY <1>2, evaluateRequestStep
    <2>2. stk # <<>> /\ Top \in CallRec /\ Top.op = "js_evaluate_module" /\ Top.path # <<>>
      BY <2>1, EvalWithin
    <2>3. CASE Descends(Child)
      <3>1. stk' = Enter(Child) /\ Enters(mods, mods', Child, Top.i, "evaluating")
        BY <2>3 DEF Descends
      <3>2. Named(mods, mods')
        BY ONLY <3>1, ShapeInv, ShapeIs DEF Named, Enters, OthersSame, SameMod, SameShape
      <3>3. \E c \in CallRec : stk # <<>> /\ stk' = WithTop(c) /\ c.op # "bodyResumes"
        BY <2>1, <2>2, <3>1, EnterIs
      <3> QED BY <2>1, <3>2, <3>3, AwaitsSame
    <2>4. ASSUME NEW e, GivesUp(Child, e) PROVE AwaitInv'
      <3>1. Fails(mods, mods', ToSet(Top.list), e, Top.list[1]) /\ stk' = Pop
        BY <2>4 DEF GivesUp
      <3>2. Named(mods, mods')
        BY ONLY <3>1, ShapeInv, ShapeIs DEF Named, Fails, SameBase
      <3> QED BY <2>1, <2>2, <3>1, <3>2, AwaitsSame
    <2>5. ASSUME NEW x, NEW a, Continues(Child, x, a) PROVE AwaitInv'
      <3>1. Asks(mods, mods', Cur.d, x, a) /\ stk' = WithTop(Advance(Top))
        BY <2>5 DEF Continues
      <3>2. Named(mods, mods')
        BY ONLY <3>1, ShapeInv, ShapeIs, SMTT(30) DEF Named, Asks, SameBase
      <3>3. Advance(Top) \in CallRec /\ Advance(Top).op # "bodyResumes"
        BY <2>2, AdvanceIs DEF Advances, SameHead
      <3> QED BY <2>1, <2>2, <3>1, <3>2, <3>3, AwaitsSame
    <2> QED BY <2>1, <2>3, <2>4, <2>5
  <1>3. CASE waitForRequests \/ executeModule
    <2>1. Within("js_evaluate_module") /\ world' = world /\ awaiting' = awaiting /\ \E n, w : Executes(n, w)
      BY <1>3, executeStep
    <2>2. stk # <<>> /\ Top \in CallRec /\ Top.op = "js_evaluate_module" /\ Top.path # <<>> /\ Cur.d \in 1..Len(mods)
      BY <2>1, EvalWithin
    <2>3. PICK n, w : Executes(n, w)
      BY <2>1
    <2>4. /\ Starts(mods, mods', Cur.d, n, w, clock)
          /\ stk' = WithTop(Advance(Top)) \/ stk' = WithTop(WithBody(Advance(Top), Cur.d))
      BY <2>3 DEF Executes, WithBody
    <2>5. Named(mods, mods')
      BY ONLY <2>4, ShapeInv, ShapeIs DEF Named, Starts, OthersSame, SameMod, SameShape
    <2>6. Advance(Top) \in CallRec /\ Advance(Top).op # "bodyResumes"
      BY <2>2, AdvanceIs DEF Advances, SameHead
    <2>7. WithBody(Advance(Top), Cur.d) \in CallRec /\ WithBody(Advance(Top), Cur.d).op # "bodyResumes"
      <3>1. Cur.d \in Nat
        BY <2>2, ShapeIs
      <3> QED BY ONLY <2>6, <3>1 DEF CallRec, WithBody
    <2> QED BY <2>1, <2>2, <2>4, <2>5, <2>6, <2>7, AwaitsSame
  <1>4. CASE evaluateDone
    <2>1. Within("js_evaluate_module") /\ world' = world /\ awaiting' = awaiting /\ Ends
      BY <1>4, evaluateDoneStep
    <2>2. stk # <<>> /\ Top.op = "js_evaluate_module"
      BY <2>1, EvalWithin
    <2>3. Finishes(mods, mods', Done(Cur.d), Cur.d) /\ (stk' = Pop \/ stk' = Return(Cur.d))
      BY <2>1 DEF Ends
    <2>4. Named(mods, mods')
      BY ONLY <2>3, ShapeInv, ShapeIs DEF Named, Finishes, SameBase
    <2>5. \E c \in CallRec : Return(Cur.d) = WithTop(c) /\ c.op # "bodyResumes"
      <3>1. WalkOp("evaluating") = "js_evaluate_module" /\ "evaluating" \in {"linking", "evaluating"}
        BY EvalOp
      <3>2. \E n \in Nat, c \in CallRec : Return(Cur.d) = WithTop(c) /\ ReturnsCall(Top, c, n)
        BY <2>1, <3>1, ReturnIs
      <3> QED BY <2>2, <3>2 DEF ReturnsCall, SameHead
    <2> QED BY <2>1, <2>2, <2>3, <2>4, <2>5, AwaitsSame
  <1> QED BY <1>1, <1>2, <1>3, <1>4 DEF Evaluate

(* A body ends or is suspended.                                            *)
LEMMA BodyEndsAwaits ==
    ASSUME ShapeInv, AwaitInv, RunsBody, stk' = BodyEnds, world' = world, Named(mods, mods'),
           awaiting' = awaiting \/ (awaiting' = awaiting \cup {Top.body} /\ HasTla(Top.body))
    PROVE  AwaitInv'
  <1>1. stk \in Seq(CallRec) /\ stk # <<>> /\ Top.body \in 1..Len(mods)
    BY ShapeIs, BodyRuns
  <1>2. /\ Pop \in Seq(CallRec) /\ \A k \in 1..Len(Pop) : k \in 1..Len(stk) /\ Pop[k] = stk[k]
    BY <1>1, PopIs
  <1>3. ASSUME NEW k \in 1..Len(stk'), stk'[k].op = "bodyResumes"
        PROVE  k \in 1..Len(stk) /\ stk'[k] = stk[k]
    <2>1. CASE Top.op = "bodyResumes" /\ BodyEnds = Pop
      BY <1>2, <2>1
    <2>2. CASE /\ Top.op # "bodyResumes" /\ BodyEnds = WithTop(WithBody(Top, 0)) /\ WithBody(Top, 0) \in CallRec
               /\ WithBody(Top, 0).op = Top.op
      <3>1. stk' = Append(Pop, WithBody(Top, 0))
        BY <1>1, <2>2, WithTopIs
      <3>2. (k \in 1..Len(Pop) /\ stk'[k] = Pop[k]) \/ stk'[k] = WithBody(Top, 0)
        BY <1>2, <2>2, <3>1, AppendCalls
      <3> QED BY ONLY <1>2, <1>3, <2>2, <3>2
    <2> QED BY <2>1, <2>2, BodyEndsIs
  <1>4. \A x \in awaiting' : x \in awaiting \/ (x \in 1..Len(mods) /\ HasTla(x))
    BY <1>1
  <1> QED BY ONLY <1>3, <1>4, ShapeInv, AwaitInv, world' = world, Named(mods, mods'), AwaitsKept

(* Only bodies with an await are suspended.                                *)
LEMMA BodiesAwaits ==
    ASSUME ShapeInv, AwaitInv, Bodies
    PROVE  AwaitInv'
  <1>1. CASE bodyReturns
    <2>1. RunsBody /\ world' = world /\ awaiting' = awaiting
          /\ (Reports(Top.body, TRUE) \/ Comes(Top.body) \/ (\E ms : Completes(Top.body, ms)))
      BY <1>1, bodyReturnsStep
    <2>2. stk' = BodyEnds /\ Named(mods, mods')
      <3>1. CASE Reports(Top.body, TRUE)
        BY ONLY <3>1, ShapeInv, ShapeIs DEF Reports, Named, Outs, OthersSame, SameMod, SameShape
      <3>2. CASE Comes(Top.body)
        BY ONLY <3>2, ShapeInv, ShapeIs DEF Comes, Named, Outs, OthersSame, SameMod, SameShape
      <3>3. ASSUME NEW ms, Completes(Top.body, ms) PROVE stk' = BodyEnds /\ Named(mods, mods')
        <4>1. stk' = BodyEnds /\ Outs(mods, ms, Top.body, "ok") /\ Evaluates(ms, mods', Top.body)
          BY <3>3 DEF Completes
        <4>2. Len(ms) = Len(mods) /\ \A x \in 1..Len(mods) : ms[x].name = mods[x].name
          BY ONLY <4>1 DEF Outs, OthersSame, SameMod, SameShape
        <4>3. Len(mods') = Len(ms) /\ \A x \in 1..Len(ms) : mods'[x].name = ms[x].name
          BY ONLY <4>1 DEF Evaluates, OthersSame, SameMod, SameShape, SameBase
        <4> QED BY <4>1, <4>2, <4>3, ShapeIs DEF Named
      <3> QED BY <2>1, <3>1, <3>2, <3>3
    <2> QED BY <2>1, <2>2, BodyEndsAwaits
  <1>2. CASE bodyThrows
    <2>1. RunsBody /\ world' = world /\ awaiting' = awaiting
          /\ (Reports(Top.body, FALSE) \/ (\E ms : Throws(Top.body, ms)) \/ (\E ms : Breaks(Top.body, ms)))
      BY <1>2, bodyThrowsStep
    <2>2. CASE Reports(Top.body, FALSE)
      <3>1. stk' = BodyEnds /\ Named(mods, mods')
        BY ONLY <2>2, ShapeInv, ShapeIs DEF Reports, Named, Outs, OthersSame, SameMod, SameShape
      <3> QED BY <2>1, <3>1, BodyEndsAwaits
    <2>3. ASSUME NEW ms, Throws(Top.body, ms) PROVE AwaitInv'
      <3>1. Outs(mods, ms, Top.body, "threw") /\ AbandonEvaluation(ms, Top.body)
        BY <2>3 DEF Throws
      <3>2. stk' = Pop
        BY ONLY <3>1 DEF AbandonEvaluation
      <3>3. stk # <<>> /\ Named(mods, mods')
        <4>1. stk # <<>> /\ Top.body \in 1..Len(mods)
          BY <2>1, BodyRuns
        <4>2. Top.op = "js_evaluate_module"
          <5>1. Top = stk[Len(stk)] /\ Len(stk) \in 1..Len(stk)
            BY <4>1, ShapeIs, TopIs
          <5>2. ~HasTla(Top.body) /\ Top.op # "fulfilled"
            BY <2>3 DEF Throws
          <5>3. Top.op # "bodyResumes"
            BY <5>1, <5>2 DEF AwaitInv, Awaits, HasTla
          <5> QED BY <2>1, <5>2, <5>3, BodyRuns DEF BodyOps
        <4>3. Top.list # <<>> /\ Top.body \in Nat
          BY <2>1, <4>1, <4>2, BodyRuns, ShapeIs
        <4>4. ms \in Seq(ModRec) /\ Len(ms) = Len(mods) /\ \A x \in 1..Len(mods) : ms[x].name = mods[x].name
          BY ONLY <2>3, <3>1 DEF Throws, Outs, OthersSame, SameMod, SameShape
        <4>5. Fails(ms, mods', ToSet(Top.list), Top.body, Top.list[1])
          BY <3>1, <4>1, <4>2, <4>3, <4>4, AbandonIs
        <4>6. Len(mods') = Len(ms) /\ \A x \in 1..Len(ms) : mods'[x].name = ms[x].name
          BY ONLY <4>5 DEF Fails, SameBase
        <4> QED BY <4>1, <4>4, <4>6, ShapeIs DEF Named
      <3> QED BY <2>1, <3>2, <3>3, AwaitsSame
    <2>4. ASSUME NEW ms, Breaks(Top.body, ms) PROVE AwaitInv'
      <3>1. stk' = BodyEnds /\ Outs(mods, ms, Top.body, "threw") /\ Rejects(ms, mods', Failing(ms, Top.body), Top.body)
        BY <2>4 DEF Breaks
      <3>2. Len(ms) = Len(mods) /\ \A x \in 1..Len(mods) : ms[x].name = mods[x].name
        BY ONLY <3>1 DEF Outs, OthersSame, SameMod, SameShape
      <3>3. Len(mods') = Len(ms) /\ \A x \in 1..Len(ms) : mods'[x].name = ms[x].name
        BY ONLY <3>1 DEF Rejects, SameBase
      <3>4. Named(mods, mods')
        BY <3>2, <3>3, ShapeIs DEF Named
      <3> QED BY <2>1, <3>1, <3>4, BodyEndsAwaits
    <2> QED BY <2>1, <2>2, <2>3, <2>4
  <1>3. CASE bodyAwaits
    <2>1. RunsBody /\ HasTla(Top.body) /\ awaiting' = awaiting \cup {Top.body} /\ stk' = BodyEnds
          /\ world' = world /\ mods' = mods
      BY <1>3 DEF bodyAwaits
    <2>2. Named(mods, mods')
      BY <2>1, ShapeIs DEF Named
    <2> QED BY <2>1, <2>2, BodyEndsAwaits
  <1> QED BY <1>1, <1>2, <1>3 DEF Bodies

(* Jobs resume what was suspended.                                         *)
LEMMA JobsAwaits ==
    ASSUME ShapeInv, Reenter = FALSE, AwaitInv, Jobs
    PROVE  AwaitInv'
  <1>1. stk \in Seq(CallRec) /\ Len(mods) \in Nat /\ Defs = 1..Len(mods)
    BY ShapeIs
  <1>2. ASSUME NEW d \in Defs, bodyResumes(d) PROVE AwaitInv'
    <2>1. MayRunJobs /\ d \in awaiting /\ awaiting' = awaiting \ {d} /\ stk' = Append(stk, Resumed(d))
          /\ world' = world /\ mods' = mods
      BY <1>2 DEF bodyResumes, Resumed
    <2>2. HasTla(d) /\ d \in 1..Len(mods) /\ mods[d].status \in Begun
      BY <1>1, <2>1, ShapeIs DEF AwaitInv, Awaits, HasTla, QueuedOK
    <2>3. Resumed(d) \in CallRec /\ Resumed(d).body = d
      BY <2>2, ShapeIs, ResumedIs
    <2>4. Named(mods, mods')
      BY <1>1, <2>1 DEF Named
    <2>5. \A k \in 1..Len(stk') : (k \in 1..Len(stk) /\ stk'[k] = stk[k]) \/ stk'[k] = Resumed(d)
      BY <1>1, <2>1, <2>3, AppendCalls
    <2>6. \A x \in awaiting' : x \in awaiting
      BY <2>1
    <2> QED BY ONLY ShapeInv, AwaitInv, <2>1, <2>2, <2>3, <2>4, <2>5, <2>6, AwaitsKept
  <1>3. CASE js_async_module_execution_rejected
    <2>1. /\ stk' = stk /\ world' = world /\ awaiting' = awaiting
          /\ \/ mods' = mods
             \/ Rejects(mods, mods', Failing(mods, Head(jobs)[1]), Head(jobs)[1])
      BY <1>3, rejectedStep
    <2>2. Named(mods, mods')
      BY ONLY <1>1, <2>1 DEF Named, Rejects, SameBase
    <2> QED BY <2>1, <2>2, AwaitsSame
  <1>4. CASE js_async_module_execution_fulfilled
    <2>1. /\ world' = world /\ awaiting' = awaiting /\ mods' \in Seq(ModRec)
          /\ \/ mods' = mods /\ stk' = stk
             \/ \E ms, list : Collects(Head(jobs)[1], ms, list)
      BY <1>4, fulfilledStep
    <2>2. CASE mods' = mods /\ stk' = stk
      <3>1. Named(mods, mods')
        BY <1>1, <2>2 DEF Named
      <3> QED BY <2>1, <2>2, <3>1, AwaitsSame
    <2>3. ASSUME NEW ms, NEW list, Collects(Head(jobs)[1], ms, list) PROVE AwaitInv'
      <3>1. /\ Evaluates(mods, ms, Head(jobs)[1]) /\ Lightens(ms, mods', Freed(ms, Head(jobs)[1]))
            /\ list \in Seq(Nat) /\ stk' = Append(stk, Reacts(list))
        BY <2>3 DEF Collects
      <3>2. Len(ms) = Len(mods) /\ \A x \in 1..Len(mods) : ms[x].name = mods[x].name
        BY ONLY <3>1 DEF Evaluates, OthersSame, SameMod, SameShape, SameBase
      <3>3. Len(mods') = Len(ms) /\ \A x \in 1..Len(ms) : mods'[x].name = ms[x].name
        BY ONLY <3>1 DEF Lightens, SameButPending, SameShape
      <3>4. Named(mods, mods')
        BY <1>1, <3>2, <3>3 DEF Named
      <3>5. Reacts(list) \in CallRec /\ Reacts(list).op # "bodyResumes"
        <4>1. Call("fulfilled", 0, 0) \in CallRec /\ Call("fulfilled", 0, 0).op = "fulfilled"
          <5>1. "fulfilled" \in Ops /\ 0 \in Names \cup {0} /\ 0 \in Nat
            BY DEF Ops
          <5> QED BY ONLY <5>1, CallNew
        <4> QED BY ONLY <3>1, <4>1 DEF Reacts, CallRec
      <3> QED BY <2>1, <3>1, <3>4, <3>5, AwaitsSame
    <2> QED BY <2>1, <2>2, <2>3
  <1>5. CASE executeAvailable
    <2>1. stk # <<>> /\ world' = world /\ awaiting' = awaiting /\ \E c : Runs(Head(Top.list), c)
      BY <1>5, executeAvailableStep
    <2>2. PICK c : Runs(Head(Top.list), c)
      BY <2>1
    <2>3. c \in CallRec /\ c.op # "bodyResumes" /\ stk' = WithTop(c)
          /\ (mods' = mods \/ Starts(mods, mods', Head(Top.list), 1, FALSE, 0))
      BY <2>2 DEF Runs
    <2>4. Named(mods, mods')
      BY ONLY <1>1, <2>3 DEF Named, Starts, OthersSame, SameMod, SameShape
    <2> QED BY <2>1, <2>3, <2>4, AwaitsSame
  <1>6. CASE fulfilledDone
    <2>1. stk # <<>> /\ stk' = Pop /\ world' = world /\ awaiting' = awaiting /\ mods' = mods
      BY <1>6 DEF fulfilledDone, Is
    <2>2. Named(mods, mods')
      BY <1>1, <2>1 DEF Named
    <2> QED BY <2>1, <2>2, AwaitsSame
  <1> QED BY <1>2, <1>3, <1>4, <1>5, <1>6 DEF Jobs

(* Every step keeps the shape.                                             *)
LEMMA ShapeNext ==
    ASSUME ShapeInv, Reenter = FALSE, AwaitInv, Next
    PROVE  ShapeInv' /\ AwaitInv' /\ (Calls \/ Load \/ Link => QuietStep)
  <1>1. CASE Calls
    <2>1. ShapeInv' /\ QuietStep
      BY <1>1, CallsShape
    <2> QED BY <2>1, AwaitsQuiet
  <1>2. CASE Load
    <2>1. ShapeInv' /\ QuietStep
      BY <1>2, LoadShape
    <2> QED BY <2>1, AwaitsQuiet
  <1>3. CASE Link
    <2>1. ShapeInv' /\ QuietStep
      BY <1>3, LinkShape
    <2> QED BY <2>1, AwaitsQuiet
  <1>4. ASSUME Evaluate PROVE ShapeInv' /\ AwaitInv'
    <2>1. AwaitInv'
      BY <1>4, EvaluateAwaits
    <2>2. ShapeInv'
      BY <1>4, js_evaluate_moduleShape, evaluateRequestShape, executeShape, evaluateDoneShape DEF Evaluate
    <2> QED BY <2>1, <2>2
  <1>5. ASSUME Bodies PROVE ShapeInv' /\ AwaitInv'
    <2>1. AwaitInv'
      BY <1>5, BodiesAwaits
    <2>2. ShapeInv'
      BY <1>5, bodyReturnsShape, bodyThrowsShape, bodyAwaitsShape DEF Bodies
    <2> QED BY <2>1, <2>2
  <1>6. ASSUME Jobs PROVE ShapeInv' /\ AwaitInv'
    <2>1. AwaitInv'
      BY <1>6, JobsAwaits
    <2>2. ShapeInv'
      BY <1>6, bodyResumesShape, rejectedShape, fulfilledShape, executeAvailableShape, fulfilledDoneShape DEF Jobs
    <2> QED BY <2>1, <2>2
  <1>7. Calls \/ Load \/ Link => QuietStep
    BY CallsShape, LoadShape, LinkShape
  <1> QED BY <1>1, <1>2, <1>3, <1>4, <1>5, <1>6, <1>7 DEF Next, Step

(* At first there is nothing.                                              *)
LEMMA ShapeInit ==
    ASSUME Init
    PROVE  ShapeInv /\ AwaitInv
  <1>1. /\ world \in Worlds /\ mods = <<>> /\ loaded = {} /\ stk = <<>> /\ jobs = <<>> /\ awaiting = {} /\ clock = 0
    BY DEF Init
  <1>2. Len(mods) = 0 /\ Len(stk) = 0 /\ Len(jobs) = 0 /\ \A k : k \notin 1..0
    BY <1>1
  <1>3. Typed(mods, loaded, stk, jobs, awaiting, clock)
    BY <1>1 DEF Typed
  <1>4. LinksOK(world, mods) /\ ParentsIn(mods) /\ RootsOK(mods) /\ Listed(mods, stk)
    BY ONLY <1>2 DEF LinksOK, ParentsIn, RootsOK, Listed
  <1>5. Nested(world, mods, stk) /\ QueuedOK(mods, jobs, awaiting)
    BY ONLY <1>1, <1>2 DEF Nested, JobsBelow, HostsBelow, Apart, QueuedOK
  <1>6. AwaitInv
    BY ONLY <1>1, <1>2 DEF AwaitInv, Awaits
  <1> QED BY <1>1, <1>2, <1>3, <1>4, <1>5, <1>6 DEF ShapeInv, Shape

=============================================================================
