------------------------------ MODULE Modules ------------------------------
(***************************************************************************)
(* The modules of one context: how evalCode, compileCode, loadModule and   *)
(* evalFunction load them through the host's loader, link them and         *)
(* evaluate them, with top-level await, import cycles and errors, while    *)
(* module bodies, C modules and the loader run host code that may call     *)
(* the context again.                                                      *)
(*                                                                         *)
(* The native call stack is explicit: every call of the host has a record, *)
(* with the recursion of the engine's functions in it, and a step is one   *)
(* turn of their loops.                                                    *)
(***************************************************************************)
EXTENDS Integers, Sequences, FiniteSets, SequencesExt

CONSTANTS
    Names,       \* module names, after normalization
    Worlds,      \* what guest and host provide: see WorldType
    MaxDepth,    \* bound on their nesting
    Reenter      \* whether host code may touch modules that are in use

(* For every name: the modules its source imports, in order; whether it    *)
(* has a top-level await; whether it is a C module of the host; whether    *)
(* the normalizer or the loader may fail for it; whether it imports a name *)
(* that nobody exports, so that linking it fails.  calls bounds the calls  *)
(* the host makes.                                                         *)
WorldType ==
    [imports : [Names -> Seq(Names)], has_tla : SUBSET Names, native : SUBSET Names,
     missing : SUBSET Names, broken : SUBSET Names, calls : Nat]

ASSUME BoundsAssumption == MaxDepth \in Nat /\ Reenter \in BOOLEAN
ASSUME NamesAssumption == 0 \notin Names
ASSUME WorldsAssumption ==
    \A w \in Worlds :
        /\ w \in WorldType
        /\ \A n \in w.native : w.imports[n] = <<>> /\ n \notin w.has_tla

VARIABLES
    world,       \* the member of Worlds this context lives in
    mods,        \* every JSModuleDef that was ever made, numbered
    loaded,      \* ctx->loaded_modules, which is in the order they were made
    stk,         \* the calls in progress, innermost last
    jobs,        \* reactions to the promises of module bodies
    awaiting,    \* the modules whose body is suspended at an await
    clock,       \* rt->module_async_evaluation_next_timestamp
    calls        \* how many calls the host has made

vars == <<world, mods, loaded, stk, jobs, awaiting, clock, calls>>

-----------------------------------------------------------------------------
(* Modules.                                                                *)

Status == {"unlinked", "linking", "linked", "evaluating", "async", "evaluated"}

Defs == 1..Len(mods)

(* The fields of JSModuleDef; 0 is NULL.  err is the module whose body     *)
(* threw the error that is kept; runs and out are what happened to the     *)
(* module's own body.                                                      *)
js_new_module_def(n) ==
    [name |-> n, links |-> <<>>, resolved |-> FALSE, func_created |-> FALSE,
     status |-> "unlinked", dfs |-> 0, ancestor |-> 0, root |-> 0,
     pending |-> 0, async |-> FALSE, timestamp |-> 0, parents |-> <<>>,
     err |-> 0, promise |-> "none", runs |-> 0, out |-> "none"]

Imports(d) == world.imports[mods[d].name]
HasTla(d) == mods[d].name \in world.has_tla

Alive(d) == d \in loaded

(* js_find_loaded_module: the first of that name, 0 if there is none.      *)
js_find_loaded_module(n) ==
    LET found == {d \in loaded : mods[d].name = n}
    IN  IF found = {} THEN 0 ELSE CHOOSE d \in found : \A e \in found : d <= e

(* What is reached from x, x included: it is in every set with x that has  *)
(* the successors of its members.                                          *)
From(x, succ) ==
    {y \in DOMAIN succ : \A S \in SUBSET DOMAIN succ :
        x \in S /\ (\A a \in S : succ[a] \subseteq S) => y \in S}

(* The modules that are reached from d through its requests.               *)
Reach(d) == From(d, [x \in Defs |-> ToSet(mods[x].links)])

-----------------------------------------------------------------------------
(* The calls in progress.  A call of the host is "compileCode", "evalCode" *)
(* or "loadModule" while it resolves, then "js_link_module" and            *)
(* "js_evaluate_module"; a job is "fulfilled" or "bodyResumes".  n is the  *)
(* name called for and d the module; path is the recursion of              *)
(* js_resolve_module, js_inner_module_linking or                           *)
(* js_inner_module_evaluation, with the position in the requests of every  *)
(* module; i is the next DFS index; list is the stack of modules           *)
(* (stack_top), in "fulfilled" the modules still to execute; loads is what *)
(* the loader is running for, body the module whose body runs.             *)

Base == {"compileCode", "evalCode", "loadModule", "js_link_module", "js_evaluate_module"}
Ops == Base \cup {"fulfilled", "bodyResumes"}

Call(op, n, d) ==
    [op |-> op, n |-> n, d |-> d, i |-> 0, list |-> <<>>, path |-> <<>>, loads |-> 0, body |-> 0]
At(d, i) == [d |-> d, i |-> i]

Top == stk[Len(stk)]
Pop == SubSeq(stk, 1, Len(stk) - 1)
WithTop(c) == [stk EXCEPT ![Len(stk)] = c]
Cur == Top.path[Len(Top.path)]
Advance(c) == [c EXCEPT !.path[Len(c.path)].i = @ + 1]

(* The innermost call is op, and no host code runs in it.                  *)
Is(op) == stk # <<>> /\ Top.op = op /\ Top.loads = 0 /\ Top.body = 0
Within(op) == Is(op) /\ Top.path # <<>>
Loads == stk # <<>> /\ Top.loads # 0
RunsBody == stk # <<>> /\ Top.body # 0
HostRuns == stk # <<>> => Loads \/ RunsBody

Depth == Cardinality({k \in DOMAIN stk : stk[k].op \in Base})

(* The modules that some call is working on.                               *)
Uses(c) == {c.path[k].d : k \in DOMAIN c.path} \cup ToSet(c.list) \cup ({c.body} \ {0})
InUse == UNION {{stk[k].n, stk[k].loads} \cup {mods[d].name : d \in Uses(stk[k])} : k \in DOMAIN stk}

Needs(n) == From(n, [x \in Names |-> ToSet(world.imports[x])])

MayCall(n) ==
    /\ HostRuns /\ calls < world.calls /\ Depth < MaxDepth
    /\ Reenter \/ Needs(n) \cap InUse = {}

Init ==
    /\ world \in Worlds
    /\ mods = <<>>
    /\ loaded = {}
    /\ stk = <<>>
    /\ jobs = <<>>
    /\ awaiting = {}
    /\ clock = 0
    /\ calls = 0

-----------------------------------------------------------------------------
(* What the host does.                                                     *)

(* compileCode and evalCode of a module always register a new one.  Its    *)
(* requests are resolved at once, and evalCode then evaluates it.          *)
Compile(n, op) ==
    LET d == Len(mods) + 1 IN
    /\ MayCall(n) /\ n \notin world.native
    /\ mods' = Append(mods, [js_new_module_def(n) EXCEPT !.resolved = TRUE])
    /\ loaded' = loaded \cup {d}
    /\ stk' = Append(stk, [Call(op, n, d) EXCEPT !.path = <<At(d, 1)>>])
    /\ calls' = calls + 1
    /\ UNCHANGED <<world, jobs, awaiting, clock>>

(* loadModule, and import() through its job.                               *)
loadModule(n) ==
    /\ MayCall(n)
    /\ stk' = Append(stk, Call("loadModule", n, 0))
    /\ calls' = calls + 1
    /\ UNCHANGED <<world, mods, loaded, jobs, awaiting, clock>>

(* evalFunction of a module that was compiled before.                      *)
evalFunction(d) ==
    /\ MayCall(mods[d].name) /\ Alive(d) /\ mods[d].resolved
    /\ stk' = Append(stk, Call("js_link_module", mods[d].name, d))
    /\ calls' = calls + 1
    /\ UNCHANGED <<world, mods, loaded, jobs, awaiting, clock>>

newCModule(n) ==
    /\ HostRuns /\ n \in world.native /\ js_find_loaded_module(n) = 0
    /\ calls < world.calls /\ calls' = calls + 1
    /\ mods' = Append(mods, js_new_module_def(n))
    /\ loaded' = loaded \cup {Len(mods) + 1}
    /\ UNCHANGED <<world, stk, jobs, awaiting, clock>>

-----------------------------------------------------------------------------
(* Loading.                                                                *)

(* A call that fails while it resolves frees every module that it was      *)
(* compiling, whoever already refers to it.                                *)
AbandonLoad ==
    /\ loaded' = loaded \ {Top.path[k].d : k \in DOMAIN Top.path}
    /\ stk' = Pop

(* js_resolve_module stores the module it was given and resolves it, which *)
(* only a C module still needs; JS_LoadModuleInternal goes on to evaluate  *)
(* the module it was given.  c is the call from here on.                   *)
Deliver(d, ms, c) ==
    LET resolved == [ms EXCEPT ![d].resolved = TRUE]
        m == c.path[Len(c.path)].d
    IN  \/ /\ c.path # <<>>
           /\ mods' = [resolved EXCEPT ![m].links = Append(@, d)]
           /\ stk' = WithTop(Advance(c))
        \/ /\ c.path = <<>>
           /\ mods' = resolved
           /\ stk' = WithTop(Call("js_link_module", c.n, d))

Resolving == \E op \in {"compileCode", "evalCode", "loadModule"} : Is(op)
Requested ==
    CASE Resolving /\ Top.path = <<>> -> Top.n
      [] Resolving /\ Top.path # <<>> /\ Cur.i <= Len(Imports(Cur.d)) -> Imports(Cur.d)[Cur.i]
      [] OTHER -> 0

(* js_host_resolve_imported_module: the host normalizes the name; a module *)
(* that is registered under it is taken as it is, else the loader runs.    *)
ImportFound ==
    /\ Requested # 0 /\ js_find_loaded_module(Requested) # 0
    /\ Deliver(js_find_loaded_module(Requested), mods, Top)
    /\ UNCHANGED <<world, loaded, jobs, awaiting, clock, calls>>

ImportCallsLoader ==
    /\ Requested # 0 /\ js_find_loaded_module(Requested) = 0
    /\ stk' = WithTop([Top EXCEPT !.loads = Requested])
    /\ UNCHANGED <<world, mods, loaded, jobs, awaiting, clock, calls>>

normalizerThrows ==
    /\ Requested # 0 /\ Requested \in world.missing
    /\ AbandonLoad
    /\ UNCHANGED <<world, mods, jobs, awaiting, clock, calls>>

(* The loader returns source, which qjs_bun_compile_module compiles.       *)
loaderReturnsSource ==
    LET d == Len(mods) + 1 IN
    /\ Loads /\ Top.loads \notin world.native
    /\ mods' = Append(mods, [js_new_module_def(Top.loads) EXCEPT !.resolved = TRUE])
    /\ loaded' = loaded \cup {d}
    /\ stk' = WithTop([Top EXCEPT !.loads = 0, !.path = Append(@, At(d, 1))])
    /\ UNCHANGED <<world, jobs, awaiting, clock, calls>>

(* The loader returns a C module: one it makes, or the one made before.    *)
loaderReturnsModule ==
    LET old == js_find_loaded_module(Top.loads)
        new == Len(mods) + 1
        c == [Top EXCEPT !.loads = 0]
    IN
    /\ Loads /\ Top.loads \in world.native
    /\ \/ old # 0 /\ Deliver(old, mods, c) /\ UNCHANGED loaded
       \/ /\ old = 0
          /\ Deliver(new, Append(mods, js_new_module_def(Top.loads)), c)
          /\ loaded' = loaded \cup {new}
    /\ UNCHANGED <<world, jobs, awaiting, clock, calls>>

(* The loader throws, or returns undefined.                                *)
loaderFails ==
    /\ Loads /\ Top.loads \in world.missing
    /\ AbandonLoad
    /\ UNCHANGED <<world, mods, jobs, awaiting, clock, calls>>

(* All requests of a module are resolved: its compilation returns, to the  *)
(* host, to JS_EvalFunctionInternal or to the import that wanted it.       *)
resolveDone ==
    LET d == Cur.d
        outermost == Len(Top.path) = 1
    IN
    /\ Resolving /\ Top.path # <<>> /\ Cur.i > Len(Imports(d))
    /\ \/ Is("compileCode") /\ outermost /\ stk' = Pop /\ UNCHANGED mods
       \/ /\ Is("evalCode") /\ outermost
          /\ stk' = WithTop(Call("js_link_module", Top.n, d))
          /\ UNCHANGED mods
       \/ /\ Is("loadModule") \/ ~outermost
          /\ Deliver(d, mods, [Top EXCEPT !.path = Front(@)])
    /\ UNCHANGED <<world, loaded, jobs, awaiting, clock, calls>>

-----------------------------------------------------------------------------
(* Linking and evaluating walk the requests depth first.                   *)

(* Enter module d: it gets the next index and goes on the stack of modules *)
(* of the call.                                                            *)
Entered(d, status) ==
    [mods EXCEPT ![d].status = status, ![d].dfs = Top.i, ![d].ancestor = Top.i,
                 ![d].pending = IF status = "evaluating" THEN 0 ELSE @]
Enter(d) ==
    WithTop([Top EXCEPT !.i = @ + 1, !.list = Append(@, d), !.path = Append(@, At(d, 1))])

MinOf(a, b) == IF a <= b THEN a ELSE b

(* The first module of a cycle that was entered takes the cycle off the    *)
(* stack of modules.                                                       *)
Place(d) == CHOOSE k \in DOMAIN Top.list : Top.list[k] = d
EndsCycle(d) == mods[d].dfs = mods[d].ancestor
Done(d) == IF EndsCycle(d) THEN {Top.list[k] : k \in Place(d)..Len(Top.list)} ELSE {}
Return(d) ==
    WithTop([Top EXCEPT !.path = Front(@),
                        !.list = IF EndsCycle(d) THEN SubSeq(@, 1, Place(d) - 1) ELSE @])

Visiting(op) == Within(op) /\ Cur.i <= Len(mods[Cur.d].links)
Visited(op) == Within(op) /\ Cur.i > Len(mods[Cur.d].links)
Child == mods[Cur.d].links[Cur.i]

(* JS_EvalFunctionInternal: js_create_module_function for all that can be  *)
(* reached, then js_link_module.                                           *)
js_link_module ==
    LET d == Top.d IN
    /\ Is("js_link_module") /\ Top.path = <<>>
    /\ \/ /\ mods[d].status = "unlinked"
          /\ mods' = [x \in Defs |-> [Entered(d, "linking")[x] EXCEPT
                                         !.func_created = @ \/ x \in Reach(d)]]
          /\ stk' = Enter(d)
       \/ /\ mods[d].status \in {"linked", "async", "evaluated"}
          /\ stk' = WithTop(Call("js_evaluate_module", Top.n, d))
          /\ UNCHANGED mods
    /\ UNCHANGED <<world, loaded, jobs, awaiting, clock, calls>>

linkRequest ==
    LET d == Cur.d
        m1 == Child
    IN
    /\ Visiting("js_link_module")
    /\ \/ /\ mods[m1].status = "unlinked"
          /\ mods' = Entered(m1, "linking")
          /\ stk' = Enter(m1)
       \/ /\ mods[m1].status = "linking"
          /\ mods' = [mods EXCEPT ![d].ancestor = MinOf(@, mods[m1].ancestor)]
          /\ stk' = WithTop(Advance(Top))
       \/ /\ mods[m1].status \in {"linked", "async", "evaluated"}
          /\ stk' = WithTop(Advance(Top))
          /\ UNCHANGED mods
    /\ UNCHANGED <<world, loaded, jobs, awaiting, clock, calls>>

linkDone ==
    LET d == Cur.d IN
    /\ Visited("js_link_module") /\ mods[d].name \notin world.broken
    /\ mods' = [x \in Defs |->
                  IF x \in Done(d) THEN [mods[x] EXCEPT !.status = "linked"] ELSE mods[x]]
    /\ stk' = Return(d)
    /\ UNCHANGED <<world, loaded, jobs, awaiting, clock, calls>>

(* Mutant: of the modules of a cycle, those that the walk has left already *)
(* are forgotten.                                                          *)
linkFailsOnPath ==
    LET OnPath == {Top.path[k].d : k \in DOMAIN Top.path} IN
    /\ Visited("js_link_module") /\ mods[Cur.d].name \in world.broken
    /\ mods' = [x \in Defs |->
                  IF x \in OnPath THEN [mods[x] EXCEPT !.status = "unlinked"] ELSE mods[x]]
    /\ stk' = Pop
    /\ UNCHANGED <<world, loaded, jobs, awaiting, clock, calls>>

(* An export that is not found: the call fails, and every module on its    *)
(* stack is as before.                                                     *)
linkFails ==
    /\ Visited("js_link_module") /\ mods[Cur.d].name \in world.broken
    /\ mods' = [x \in Defs |->
                  IF x \in ToSet(Top.list) THEN [mods[x] EXCEPT !.status = "unlinked"] ELSE mods[x]]
    /\ stk' = Pop
    /\ UNCHANGED <<world, loaded, jobs, awaiting, clock, calls>>

-----------------------------------------------------------------------------
(* Evaluation.                                                             *)

Settled(promise, with) == IF promise = "pending" THEN with ELSE promise

(* js_evaluate_module answers with the promise of the cycle's root, and    *)
(* begins an evaluation if there is none yet and none took place.          *)
js_evaluate_module ==
    LET d == Top.d
        r == IF mods[d].status \in {"async", "evaluated"} THEN mods[d].root ELSE d
        begun == [mods EXCEPT ![r].promise = "pending"]
    IN
    /\ Is("js_evaluate_module") /\ Top.path = <<>>
    /\ \/ /\ mods[r].promise # "none"
          /\ stk' = Pop
          /\ UNCHANGED mods
       \/ /\ mods[r].promise = "none" /\ mods[r].status \in {"async", "evaluated"}
          /\ mods' = CASE mods[r].err # 0 -> [mods EXCEPT ![r].promise = "rejected"]
                       [] mods[r].err = 0 /\ mods[r].async -> begun
                       [] OTHER -> [mods EXCEPT ![r].promise = "fulfilled"]
          /\ stk' = Pop
       \/ /\ mods[r].promise = "none" /\ mods[r].status = "linked"
          /\ mods' = [Entered(r, "evaluating") EXCEPT ![r].promise = "pending"]
          /\ stk' = Enter(r)
    /\ UNCHANGED <<world, loaded, jobs, awaiting, clock, calls>>

(* The evaluation fails: so does every module on its stack.                *)
AbandonEvaluation(ms, e) ==
    LET r == Top.list[1]
        failed == [x \in DOMAIN ms |->
                    IF x \in ToSet(Top.list)
                    THEN [ms[x] EXCEPT !.status = "evaluated", !.err = e, !.root = r]
                    ELSE ms[x]]
    IN  /\ mods' = [failed EXCEPT ![r].promise = "rejected"]
        /\ stk' = Pop

(* A request m1 of d that is being evaluated, or was evaluated, with x to  *)
(* tell about its cycle: d waits for x if x has not ended.                 *)
Requests(d, m1, x) ==
    [y \in Defs |->
        [mods[y] EXCEPT
            !.ancestor = IF y = d /\ mods[m1].status = "evaluating"
                         THEN MinOf(@, mods[m1].ancestor) ELSE @,
            !.pending = IF y = d /\ mods[x].async THEN @ + 1 ELSE @,
            !.parents = IF y = x /\ mods[x].async THEN Append(@, d) ELSE @]]

(* Mutant: the root of the cycle of m1 is not looked up.                   *)
evaluateRequestWithoutRoot ==
    LET m1 == Child IN
    /\ Visiting("js_evaluate_module")
    /\ \/ /\ mods[m1].status = "linked"
          /\ mods' = Entered(m1, "evaluating")
          /\ stk' = Enter(m1)
       \/ /\ mods[m1].status \in {"async", "evaluated"} /\ mods[m1].err # 0
          /\ AbandonEvaluation(mods, mods[m1].err)
       \/ /\ mods[m1].status \in {"evaluating", "async", "evaluated"} /\ mods[m1].err = 0
          /\ mods' = Requests(Cur.d, m1, m1)
          /\ stk' = WithTop(Advance(Top))
    /\ UNCHANGED <<world, loaded, jobs, awaiting, clock, calls>>

(* A request of the module is evaluated first; if it is evaluated already, *)
(* the root of its cycle tells whether it failed and is to be waited for.  *)
evaluateRequest ==
    LET m1 == Child
        x == IF mods[m1].status = "evaluating" THEN m1 ELSE mods[m1].root
    IN
    /\ Visiting("js_evaluate_module")
    /\ \/ /\ mods[m1].status = "linked"
          /\ mods' = Entered(m1, "evaluating")
          /\ stk' = Enter(m1)
       \/ /\ mods[m1].status \in {"async", "evaluated"}
          /\ \/ mods[m1].err # 0 /\ AbandonEvaluation(mods, mods[m1].err)
             \/ mods[m1].err = 0 /\ mods[x].err # 0 /\ AbandonEvaluation(mods, mods[x].err)
       \/ /\ mods[m1].status \in {"evaluating", "async", "evaluated"}
          /\ mods[m1].status # "evaluating" => mods[m1].err = 0 /\ mods[x].err = 0
          /\ mods' = Requests(Cur.d, m1, x)
          /\ stk' = WithTop(Advance(Top))
    /\ UNCHANGED <<world, loaded, jobs, awaiting, clock, calls>>

(* All requests are done: a module that waits for one is executed later, a *)
(* module with an await starts and is waited for.                          *)
waitForRequests ==
    LET d == Cur.d IN
    /\ Within("js_evaluate_module") /\ Cur.i = Len(mods[d].links) + 1 /\ mods[d].pending > 0
    /\ mods' = [mods EXCEPT ![d].async = TRUE, ![d].timestamp = clock]
    /\ clock' = clock + 1
    /\ stk' = WithTop(Advance(Top))
    /\ UNCHANGED <<world, loaded, jobs, awaiting, calls>>

executeModule ==
    LET d == Cur.d
        started == [mods EXCEPT ![d].runs = @ + 1]
    IN
    /\ Within("js_evaluate_module") /\ Cur.i = Len(mods[d].links) + 1 /\ mods[d].pending = 0
    /\ stk' = WithTop([Advance(Top) EXCEPT !.body = d])
    /\ \/ /\ HasTla(d)
          /\ mods' = [started EXCEPT ![d].async = TRUE, ![d].timestamp = clock]
          /\ clock' = clock + 1
       \/ /\ ~HasTla(d)
          /\ mods' = started
          /\ UNCHANGED clock
    /\ UNCHANGED <<world, loaded, jobs, awaiting, calls>>

(* d has been executed, or waits: its cycle ends with the first module of  *)
(* it that was entered.                                                    *)
Finished(d) ==
    [x \in Defs |->
        IF x \in Done(d)
        THEN [mods[x] EXCEPT !.status = IF mods[x].async THEN "async" ELSE "evaluated", !.root = d]
        ELSE mods[x]]

(* Mutant: the promise is fulfilled though the module still waits.         *)
evaluateDoneAtOnce ==
    LET d == Cur.d IN
    /\ Within("js_evaluate_module") /\ Cur.i = Len(mods[d].links) + 2
    /\ \/ /\ Len(Top.path) = 1
          /\ mods' = [Finished(d) EXCEPT ![d].promise = "fulfilled"]
          /\ stk' = Pop
       \/ /\ Len(Top.path) > 1
          /\ mods' = Finished(d)
          /\ stk' = Return(d)
    /\ UNCHANGED <<world, loaded, jobs, awaiting, clock, calls>>

evaluateDone ==
    LET d == Cur.d IN
    /\ Within("js_evaluate_module") /\ Cur.i = Len(mods[d].links) + 2
    /\ \/ /\ Len(Top.path) = 1
          /\ mods' = IF mods[d].async THEN Finished(d)
                     ELSE [Finished(d) EXCEPT ![d].promise = "fulfilled"]
          /\ stk' = Pop
       \/ /\ Len(Top.path) > 1
          /\ mods' = Finished(d)
          /\ stk' = Return(d)
    /\ UNCHANGED <<world, loaded, jobs, awaiting, clock, calls>>

-----------------------------------------------------------------------------
(* Module bodies.  A body with an await has a promise of its own, whose    *)
(* reaction tells the engine how it ended.                                 *)

(* js_set_module_evaluated                                                 *)
Evaluated(ms, d) ==
    [ms EXCEPT ![d].async = FALSE, ![d].status = "evaluated",
               ![d].promise = Settled(@, "fulfilled")]

(* js_async_module_execution_rejected: the error goes to the modules that  *)
(* wait for d, and to those that wait for them.                            *)
WaitingFor(ms, D) == UNION {ToSet(ms[x].parents) : x \in D}
Failing(ms, d) ==
    From(d, [x \in DOMAIN ms |-> {p \in ToSet(ms[x].parents) : ms[p].status # "evaluated"}])
(* Mutant: the modules that wait for d are not told.                       *)
RejectedAlone(ms, d, e) ==
    [ms EXCEPT ![d].err = e, ![d].status = "evaluated", ![d].async = FALSE,
               ![d].promise = Settled(@, "rejected")]
Rejected(ms, d, e) ==
    LET Fail == Failing(ms, d) IN
    [x \in DOMAIN ms |->
        IF x \in Fail
        THEN [ms[x] EXCEPT !.err = e, !.status = "evaluated", !.async = FALSE,
                           !.promise = Settled(@, "rejected")]
        ELSE ms[x]]

(* A body returns or throws: from js_execute_sync_module into the          *)
(* evaluation or into the modules that a reaction executes, from an async  *)
(* function into its promise.                                              *)
BodyEnds == IF Top.op = "bodyResumes" THEN Pop ELSE WithTop([Top EXCEPT !.body = 0])

bodyReturns ==
    LET d == Top.body
        ended == [mods EXCEPT ![d].out = "ok"]
    IN
    /\ RunsBody
    /\ stk' = BodyEnds
    /\ \/ /\ HasTla(d)
          /\ jobs' = Append(jobs, <<d, TRUE>>)
          /\ mods' = ended
       \/ /\ ~HasTla(d)
          /\ mods' = IF Top.op = "fulfilled" THEN Evaluated(ended, d) ELSE ended
          /\ UNCHANGED jobs
    /\ UNCHANGED <<world, loaded, awaiting, clock, calls>>

bodyThrows ==
    LET d == Top.body
        ended == [mods EXCEPT ![d].out = "threw"]
    IN
    /\ RunsBody
    /\ \/ /\ HasTla(d)
          /\ jobs' = Append(jobs, <<d, FALSE>>)
          /\ mods' = ended
          /\ stk' = BodyEnds
       \/ /\ ~HasTla(d) /\ Top.op = "fulfilled"
          /\ mods' = Rejected(ended, d, d)
          /\ stk' = BodyEnds
          /\ UNCHANGED jobs
       \/ /\ ~HasTla(d) /\ Top.op # "fulfilled"
          /\ AbandonEvaluation(ended, d)
          /\ UNCHANGED jobs
    /\ UNCHANGED <<world, loaded, awaiting, clock, calls>>

(* A body is suspended at most once: how often makes no difference here.   *)
bodyAwaits ==
    /\ RunsBody /\ HasTla(Top.body) /\ Top.op # "bodyResumes"
    /\ awaiting' = awaiting \cup {Top.body}
    /\ stk' = BodyEnds
    /\ UNCHANGED <<world, mods, loaded, jobs, clock, calls>>

-----------------------------------------------------------------------------
(* Jobs, which the host runs with executePendingJob.                       *)

MayRunJobs == stk = <<>> \/ (Reenter /\ RunsBody)

bodyResumes(d) ==
    /\ MayRunJobs /\ d \in awaiting
    /\ awaiting' = awaiting \ {d}
    /\ stk' = Append(stk, [Call("bodyResumes", 0, 0) EXCEPT !.body = d])
    /\ UNCHANGED <<world, mods, loaded, jobs, clock, calls>>

(* gather_available_ancestors: a module that waited for the last of its    *)
(* requests is available, and if it has no await, it is taken as done for  *)
(* the modules that wait for it.  Modules of a failed cycle are left out.  *)
Waits(ms, D, p) ==
    Cardinality(UNION {{<<x, k>> : k \in {j \in DOMAIN ms[x].parents : ms[x].parents[j] = p}} :
                       x \in D})
Waiters(ms, D) == {p \in WaitingFor(ms, D) : ms[p].root # 0 /\ ms[ms[p].root].err = 0}
Released(ms, d, A) == {d} \cup {x \in A : ms[x].name \notin world.has_tla}
Gathers(ms, d, A) ==
    LET R == Released(ms, d, A) IN {p \in Waiters(ms, R) : ms[p].pending <= Waits(ms, R, p)}
(* Mutant: off by one, a module is available before its last request is.   *)
AvailableEarly(ms, d) ==
    LET Early(A) == LET R == Released(ms, d, A)
                    IN  {p \in Waiters(ms, R) : ms[p].pending <= Waits(ms, R, p) + 1}
    IN  {p \in DOMAIN ms : \A A \in SUBSET DOMAIN ms : Early(A) \subseteq A => p \in A}
Available(ms, d) ==
    {p \in DOMAIN ms : \A A \in SUBSET DOMAIN ms : Gathers(ms, d, A) \subseteq A => p \in A}
(* Mutant: only the modules that wait for d itself are told.               *)
GatheredDirect(ms, d) ==
    [x \in DOMAIN ms |->
        IF x \in Waiters(ms, {d})
        THEN [ms[x] EXCEPT !.pending = @ - MinOf(@, Waits(ms, {d}, x))] ELSE ms[x]]
Gathered(ms, d) ==
    LET R == Released(ms, d, Available(ms, d)) IN
    [x \in DOMAIN ms |->
        IF x \in Waiters(ms, R)
        THEN [ms[x] EXCEPT !.pending = @ - MinOf(@, Waits(ms, R, x))] ELSE ms[x]]

(* exec_module_list_cmp: A in the order of the timestamps.                 *)
ByTimestamp(ms, A) ==
    {s \in [1..Cardinality(A) -> A] :
        /\ ToSet(s) = A
        /\ \A i, j \in DOMAIN s : i < j => ms[s[i]].timestamp < ms[s[j]].timestamp}

js_async_module_execution_rejected ==
    LET d == Head(jobs)[1] IN
    /\ MayRunJobs /\ jobs # <<>> /\ ~Head(jobs)[2]
    /\ jobs' = Tail(jobs)
    /\ mods' = IF mods[d].status = "evaluated" THEN mods ELSE Rejected(mods, d, d)
    /\ UNCHANGED <<world, loaded, stk, awaiting, clock, calls>>

js_async_module_execution_fulfilled ==
    LET d == Head(jobs)[1]
        ms == Evaluated(mods, d)
    IN
    /\ MayRunJobs /\ jobs # <<>> /\ Head(jobs)[2]
    /\ jobs' = Tail(jobs)
    /\ \/ /\ mods[d].status = "evaluated"
          /\ UNCHANGED <<mods, stk>>
       \/ /\ mods[d].status # "evaluated"
          /\ mods' = Gathered(ms, d)
          /\ \E list \in ByTimestamp(ms, Available(ms, d)) :
                stk' = Append(stk, [Call("fulfilled", 0, 0) EXCEPT !.list = list])
    /\ UNCHANGED <<world, loaded, awaiting, clock, calls>>

(* The modules that became available are executed in turn, but not one     *)
(* that failed meanwhile.                                                  *)
executeAvailable ==
    LET d == Head(Top.list)
        rest == [Top EXCEPT !.list = Tail(@)]
    IN
    /\ Is("fulfilled") /\ Top.list # <<>>
    /\ \/ /\ mods[d].status = "evaluated"
          /\ stk' = WithTop(rest)
          /\ UNCHANGED mods
       \/ /\ mods[d].status # "evaluated"
          /\ stk' = WithTop([rest EXCEPT !.body = d])
          /\ mods' = [mods EXCEPT ![d].runs = @ + 1]
    /\ UNCHANGED <<world, loaded, jobs, awaiting, clock, calls>>

fulfilledDone ==
    /\ Is("fulfilled") /\ Top.list = <<>>
    /\ stk' = Pop
    /\ UNCHANGED <<world, mods, loaded, jobs, awaiting, clock, calls>>

-----------------------------------------------------------------------------

Calls ==
    \/ \E n \in Names :
          \/ \E op \in {"compileCode", "evalCode"} : Compile(n, op)
          \/ loadModule(n)
          \/ newCModule(n)
    \/ \E d \in Defs : evalFunction(d)

Load ==
    \/ ImportFound \/ ImportCallsLoader \/ normalizerThrows
    \/ loaderReturnsSource \/ loaderReturnsModule \/ loaderFails \/ resolveDone

Link == js_link_module \/ linkRequest \/ linkDone \/ linkFails

Evaluate ==
    \/ js_evaluate_module \/ evaluateRequest \/ waitForRequests
    \/ executeModule \/ evaluateDone

Bodies == bodyReturns \/ bodyThrows \/ bodyAwaits

Jobs ==
    \/ \E d \in Defs : bodyResumes(d)
    \/ js_async_module_execution_rejected \/ js_async_module_execution_fulfilled
    \/ executeAvailable \/ fulfilledDone

Step == Load \/ Link \/ Evaluate \/ Bodies \/ Jobs

Next == Calls \/ Step

Spec == Init /\ [][Next]_vars

(* Native code goes on, bodies and the loader end, what is awaited         *)
(* happens, and the host runs the pending jobs; it need not call again.    *)
FairSpec == Spec /\ WF_vars(Step)

-----------------------------------------------------------------------------
(* Properties.                                                             *)

(* A module's body is executed at most once, whoever imports or evaluates  *)
(* it and however its evaluation is reached: depth first, or later by the  *)
(* reaction of a module it waits for.                                      *)
BodyRunsOnce == \A d \in Defs : mods[d].runs <= 1

(* When a body starts, every module it imports that is not in a cycle with *)
(* it has run to its end without an error, awaits included, and so has all *)
(* that this one reaches: the rest of its own cycle too.                   *)
RequestsRunFirst ==
    \A d \in Defs : mods[d].runs > 0 =>
        \A x \in ToSet(mods[d].links) :
            LET R == Reach(x) IN d \in R \/ \A y \in R : mods[y].out = "ok"

(* The promise of an evaluation tells what happened: if it is fulfilled,   *)
(* every module that can be reached, through cycles and modules that       *)
(* others evaluated, has run to its end without an error; if it is         *)
(* rejected, one of them has thrown, and its error is the one that is      *)
(* kept.                                                                   *)
PromiseTellsOutcome ==
    \A d \in Defs :
        /\ mods[d].promise = "fulfilled" => \A x \in Reach(d) : mods[x].out = "ok"
        /\ mods[d].promise = "rejected" => mods[d].err # 0
        /\ mods[d].err # 0 => mods[d].err \in Reach(d) /\ mods[mods[d].err].out = "threw"

(* pending_async_dependencies counts the modules that will still report to *)
(* a module that waits: none is counted twice and none is missed.          *)
PendingCountsWaits ==
    \A d \in Defs :
        mods[d].status = "async" /\ mods[d].runs = 0 /\ mods[mods[d].root].err = 0
            /\ (\A k \in DOMAIN stk : stk[k].op # "fulfilled")
        => mods[d].pending = Waits(mods, {x \in Defs : mods[x].async}, d) /\ mods[d].pending > 0

(* js_resolve_module loads all the required modules of a module: every     *)
(* module that a registered one has resolved is itself registered, so that *)
(* linking and evaluating follow pointers to modules that exist.           *)
RequestsAreLoaded ==
    \A d \in Defs : Alive(d) => \A x \in ToSet(mods[d].links) : Alive(x)

(* The assertions of js_link_module, js_inner_module_linking,              *)
(* js_evaluate_module and js_inner_module_evaluation on the module they    *)
(* are at, and those of the reactions on the modules they report to.  The  *)
(* build defines NDEBUG, which leaves them out.                            *)
LinkAsserts ==
    /\ Is("js_link_module") /\ Top.path = <<>> =>
          mods[Top.d].status \in {"unlinked", "linked", "async", "evaluated"}
    /\ Visiting("js_link_module") => mods[Child].status # "evaluating"
EvaluateAsserts ==
    /\ Is("js_evaluate_module") /\ Top.path = <<>> =>
          mods[Top.d].status \in {"linked", "async", "evaluated"}
    /\ Visiting("js_evaluate_module") => mods[Child].status \notin {"unlinked", "linking"}
    /\ Is("fulfilled") /\ Top.list # <<>> =>
          LET d == Head(Top.list) IN mods[d].status = "evaluated" => mods[d].err # 0
ReactionAsserts ==
    MayRunJobs /\ jobs # <<>> =>
        LET d == Head(jobs)[1] IN
        IF mods[d].status = "evaluated" THEN mods[d].err # 0
        ELSE /\ mods[d].status = "async" /\ mods[d].err = 0 /\ mods[d].async
             /\ mods[d].promise # "none" => mods[d].root = d
             /\ \A p \in ToSet(mods[d].parents) :
                   mods[p].root # 0 /\ mods[mods[p].root].err = 0
                   => mods[p].status = "async" /\ mods[p].async /\ mods[p].pending > 0
             /\ \A p \in ToSet(mods[d].parents) : mods[p].root # 0
AssertsHold == LinkAsserts /\ EvaluateAsserts /\ ReactionAsserts

(* Every evaluation that was begun ends: its promise is settled.           *)
EvaluationsSettle ==
    (\E d \in Defs : mods[d].promise = "pending") ~> (\A d \in Defs : mods[d].promise # "pending")

=============================================================================
