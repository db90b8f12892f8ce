----------------------------- MODULE Lifecycle -----------------------------
(***************************************************************************)
(* The lives of the library, its runtimes and their contexts, on the       *)
(* TypeScript side (QuickJS, JSRuntime, JSContext) and on the native side  *)
(* (the bridge's list of contexts, the engine's contexts and jobs), and    *)
(* who may end which while host functions, finalizers and jobs run.        *)
(*                                                                         *)
(* A context of the engine can outlive its JSContext: pending jobs and its *)
(* own functions refer to it until they run or are collected.              *)
(***************************************************************************)
EXTENDS Integers, Sequences, FiniteSets, SequencesExt

CONSTANTS
    Runtimes,    \* JSRuntime objects
    Contexts,    \* JSContext objects
    None,        \* no context
    MaxJobs,     \* bound on the job queue
    MaxObjects,  \* bound on the objects with a class finalizer
    MaxDepth     \* bound on the call stack

ASSUME NoneAssumption == None \notin Contexts
ASSUME BoundsAssumption == MaxJobs \in Nat /\ MaxObjects \in Nat /\ MaxDepth \in Nat

VARIABLES
    library,     \* QuickJS.#closed: "open" or "closed"
    runtimes,    \* QuickJS.runtimes
    stage,       \* how far every runtime has come
    callbacks,   \* the runtimes whose native callbacks are open
    owner,       \* JSContext.runtime
    registered,  \* JSRuntime.contexts
    native,      \* whether the engine's context exists
    entries,     \* QJSBunRuntime.contexts
    jobs,        \* job_list: the realm of every pending job
    objects,     \* how many objects have a finalizer to run
    hostDepth,   \* JSRuntime.hostDepth
    stack        \* native operations and host code, innermost last

vars == <<library, runtimes, stage, callbacks, owner, registered, native, entries, jobs,
          objects, hostDepth, stack>>
hosts == <<library, runtimes, stage, callbacks>>
contexts == <<owner, registered, native, entries>>
guests == <<jobs, objects>>

-----------------------------------------------------------------------------

(* The engine works in "op", "job", "dispose" (JSContext.dispose), "free"  *)
(* (qjs_bun_free_context) and "end" (JSRuntime.dispose); host code runs in *)
(* "host" (functions and other callbacks) and "finalizer".                 *)
Engine == {"op", "job", "dispose", "free", "end"}
Callbacks == {"host", "finalizer"}
Frame == [kind : Engine \cup Callbacks, rt : Runtimes, ctx : Contexts \cup {None}]

(* JSRuntime.dispose disposes the contexts, frees the engine's runtime and *)
(* closes the callbacks.                                                   *)
Stages == {"none", "live", "contexts", "native", "callbacks", "done"}
Exists(r) == stage[r] \in {"live", "contexts", "native"}

Top == stack[Len(stack)]
Rest == SubSeq(stack, 1, Len(stack) - 1)
Is(kinds) == stack # <<>> /\ Top.kind \in kinds
Push(k, r, c) ==
    /\ Len(stack) < MaxDepth
    /\ stack' = Append(stack, [kind |-> k, rt |-> r, ctx |-> c])

HostRuns == stack # <<>> => Top.kind \in Callbacks

(* A finalizer may not make the engine that runs it allocate.              *)
Finalizing(r) == \E i \in 1..Len(stack) : stack[i].kind = "finalizer" /\ stack[i].rt = r

Init ==
    /\ library = "open"
    /\ runtimes = 0
    /\ stage = [r \in Runtimes |-> "none"]
    /\ callbacks = {}
    /\ owner \in [Contexts -> Runtimes]
    /\ registered = {}
    /\ native = [c \in Contexts |-> "none"]
    /\ entries = [r \in Runtimes |-> <<>>]
    /\ jobs = [r \in Runtimes |-> <<>>]
    /\ objects = [r \in Runtimes |-> 0]
    /\ hostDepth = [r \in Runtimes |-> 0]
    /\ stack = <<>>

-----------------------------------------------------------------------------
(* Making runtimes and contexts.                                           *)

(* A program does not use a library that it has closed.                    *)
NewRuntime(r) ==
    /\ HostRuns /\ library = "open" /\ stage[r] = "none"
    /\ stage' = [stage EXCEPT ![r] = "live"]
    /\ runtimes' = runtimes + 1
    /\ callbacks' = callbacks \cup {r}
    /\ UNCHANGED <<library, contexts, guests, hostDepth, stack>>

NewContext(c) ==
    LET r == owner[c] IN
    /\ HostRuns /\ library = "open" /\ ~Finalizing(r)
    /\ stage[r] = "live" /\ native[c] = "none"
    /\ registered' = registered \cup {c}
    /\ native' = [native EXCEPT ![c] = "alive"]
    /\ entries' = [entries EXCEPT ![r] = <<c>> \o @]
    /\ UNCHANGED <<hosts, owner, guests, hostDepth, stack>>

-----------------------------------------------------------------------------
(* Operations and jobs.                                                    *)

(* qjs_bun_timeout finds the entry of a context and moves it to the front. *)
MoveToFront_Copies(c, s) == IF c \in ToSet(s) THEN <<c>> \o s ELSE s
MoveToFront(c, s) == IF c \in ToSet(s) THEN <<c>> \o RemoveFirst(s, c) ELSE s

Operate(c) ==
    LET r == owner[c] IN
    /\ HostRuns /\ library = "open" /\ ~Finalizing(r) /\ c \in registered
    /\ Push("op", r, c)
    /\ entries' = [entries EXCEPT ![r] = MoveToFront(c, @)]
    /\ UNCHANGED <<hosts, owner, registered, native, guests, hostDepth>>

executePendingJob(r) ==
    /\ HostRuns /\ library = "open" /\ ~Finalizing(r) /\ stage[r] = "live" /\ jobs[r] # <<>>
    /\ Push("job", r, Head(jobs[r]))
    /\ jobs' = [jobs EXCEPT ![r] = Tail(@)]
    /\ UNCHANGED <<hosts, contexts, objects, hostDepth>>

(* The guest, enqueueJob, or a FinalizationRegistry that sees an object go *)
(* adds a job for its context.                                             *)
EnqueueJob ==
    /\ Is({"op", "job", "dispose"}) /\ Len(jobs[Top.rt]) < MaxJobs
    /\ jobs' = [jobs EXCEPT ![Top.rt] = Append(@, Top.ctx)]
    /\ UNCHANGED <<hosts, contexts, objects, hostDepth, stack>>

NewObject ==
    /\ Is({"op", "job"}) /\ objects[Top.rt] < MaxObjects
    /\ objects' = [objects EXCEPT ![Top.rt] = @ + 1]
    /\ UNCHANGED <<hosts, contexts, jobs, hostDepth, stack>>

(* A context that is disposed and has no job left is freed at once, unless *)
(* its own functions refer to it: then by a later collection.              *)
Referenced_NoJobs(c, frames) ==
    c \in registered \/ \E i \in 1..Len(frames) : frames[i].ctx = c

Referenced(c, frames) ==
    \/ c \in registered
    \/ c \in ToSet(jobs[owner[c]])
    \/ \E i \in 1..Len(frames) : frames[i].ctx = c

LetGo(c, frames) ==
    native' \in {native, IF Referenced(c, frames) THEN native ELSE [native EXCEPT ![c] = "freed"]}

Returns ==
    /\ Is({"op", "job"})
    /\ stack' = Rest
    /\ LetGo(Top.ctx, Rest)
    /\ UNCHANGED <<hosts, owner, registered, entries, guests, hostDepth>>

Collect(c) ==
    /\ Is(Engine) /\ Top.rt = owner[c]
    /\ native[c] = "alive" /\ ~Referenced(c, stack)
    /\ native' = [native EXCEPT ![c] = "freed"]
    /\ UNCHANGED <<hosts, owner, registered, entries, guests, hostDepth, stack>>

(* #callHost and its like find the JSContext of the caller; a job of a     *)
(* disposed context gets an error instead.                                 *)
CallHost_Unchecked ==
    /\ Is({"op", "job"})
    /\ Push("host", Top.rt, Top.ctx)
    /\ hostDepth' = [hostDepth EXCEPT ![Top.rt] = @ + 1]
    /\ UNCHANGED <<hosts, contexts, guests>>

CallHost ==
    /\ Is({"op", "job"}) /\ Top.ctx \in registered
    /\ Push("host", Top.rt, Top.ctx)
    /\ hostDepth' = [hostDepth EXCEPT ![Top.rt] = @ + 1]
    /\ UNCHANGED <<hosts, contexts, guests>>

(* A class finalizer, in whatever the engine is doing.                     *)
Finalize ==
    /\ Is(Engine) /\ objects[Top.rt] > 0 /\ ~Finalizing(Top.rt)
    /\ Top.kind = "end" => stage[Top.rt] = "native"
    /\ objects' = [objects EXCEPT ![Top.rt] = @ - 1]
    /\ Push("finalizer", Top.rt, None)
    /\ hostDepth' = [hostDepth EXCEPT ![Top.rt] = @ + 1]
    /\ UNCHANGED <<hosts, contexts, jobs>>

HostReturns_Leaky ==
    /\ Is(Callbacks)
    /\ stack' = Rest
    /\ hostDepth' = [hostDepth EXCEPT ![Top.rt] = IF stage[Top.rt] = "live" THEN @ - 1 ELSE @]
    /\ UNCHANGED <<hosts, contexts, guests>>

HostReturns ==
    /\ Is(Callbacks)
    /\ stack' = Rest
    /\ hostDepth' = [hostDepth EXCEPT ![Top.rt] = @ - 1]
    /\ UNCHANGED <<hosts, contexts, guests>>

-----------------------------------------------------------------------------
(* JSContext.dispose, from host code and from JSRuntime.dispose.           *)

(* Refused inside host calls.                                              *)
MayDispose(c) == c \in registered /\ hostDepth[owner[c]] = 0

DisposeContext(c) ==
    /\ HostRuns /\ library = "open" /\ MayDispose(c)
    /\ Push("dispose", owner[c], c)
    /\ UNCHANGED <<hosts, contexts, guests, hostDepth>>

DisposeNextContext(c) ==
    /\ Is({"end"}) /\ stage[Top.rt] = "contexts" /\ owner[c] = Top.rt
    /\ MayDispose(c)
    /\ Push("dispose", Top.rt, c)
    /\ UNCHANGED <<hosts, contexts, guests, hostDepth>>

(* The handles are gone; the context is forgotten on both sides before the *)
(* engine lets go of it.                                                   *)
FreeContext ==
    /\ Is({"dispose"})
    /\ registered' = registered \ {Top.ctx}
    /\ entries' = [entries EXCEPT ![Top.rt] = RemoveFirst(@, Top.ctx)]
    /\ stack' = Append(Rest, [Top EXCEPT !.kind = "free"])
    /\ UNCHANGED <<hosts, owner, native, guests, hostDepth>>

ContextFreed ==
    /\ Is({"free"})
    /\ stack' = Rest
    /\ LetGo(Top.ctx, Rest)
    /\ UNCHANGED <<hosts, owner, registered, entries, guests, hostDepth>>

-----------------------------------------------------------------------------
(* JSRuntime.dispose, with room left for finalizers, and QuickJS.close.    *)

DisposeRuntime_Anytime(r) ==
    /\ HostRuns /\ library = "open" /\ stage[r] = "live"
    /\ stage' = [stage EXCEPT ![r] = "contexts"]
    /\ runtimes' = runtimes - 1
    /\ Push("end", r, None) /\ Len(stack) + 2 <= MaxDepth
    /\ UNCHANGED <<library, callbacks, contexts, guests, hostDepth>>

DisposeRuntime(r) ==
    /\ HostRuns /\ library = "open" /\ stage[r] = "live" /\ hostDepth[r] = 0
    /\ stage' = [stage EXCEPT ![r] = "contexts"]
    /\ runtimes' = runtimes - 1
    /\ Push("end", r, None) /\ Len(stack) + 2 <= MaxDepth
    /\ UNCHANGED <<library, callbacks, contexts, guests, hostDepth>>

(* qjs_bun_free_runtime: pending jobs are dropped, and every object is     *)
(* finalized.                                                              *)
FreeRuntime ==
    /\ Is({"end"}) /\ stage[Top.rt] = "contexts"
    /\ \A c \in registered : owner[c] # Top.rt
    /\ stage' = [stage EXCEPT ![Top.rt] = "native"]
    /\ jobs' = [jobs EXCEPT ![Top.rt] = <<>>]
    /\ UNCHANGED <<library, runtimes, callbacks, contexts, objects, hostDepth, stack>>

RuntimeFreed ==
    /\ Is({"end"}) /\ stage[Top.rt] = "native" /\ objects[Top.rt] = 0
    /\ stage' = [stage EXCEPT ![Top.rt] = "callbacks"]
    /\ native' = [c \in Contexts |->
                    IF owner[c] = Top.rt /\ native[c] = "alive" THEN "freed" ELSE native[c]]
    /\ entries' = [entries EXCEPT ![Top.rt] = <<>>]
    /\ UNCHANGED <<library, runtimes, callbacks, owner, registered, guests, hostDepth, stack>>

CloseCallbacks ==
    /\ Is({"end"}) /\ stage[Top.rt] = "callbacks"
    /\ stage' = [stage EXCEPT ![Top.rt] = "done"]
    /\ callbacks' = callbacks \ {Top.rt}
    /\ stack' = Rest
    /\ UNCHANGED <<library, runtimes, contexts, guests, hostDepth>>

MayClose_Always == library = "open"
MayClose == library = "open" /\ runtimes = 0

close ==
    /\ HostRuns /\ MayClose
    /\ library' = "closed"
    /\ UNCHANGED <<runtimes, stage, callbacks, contexts, guests, hostDepth, stack>>

-----------------------------------------------------------------------------

Ending ==
    \/ FreeContext \/ ContextFreed \/ FreeRuntime \/ RuntimeFreed \/ CloseCallbacks
    \/ \E c \in Contexts : DisposeNextContext(c)

Next ==
    \/ \E r \in Runtimes : NewRuntime(r) \/ executePendingJob(r) \/ DisposeRuntime(r)
    \/ \E c \in Contexts : NewContext(c) \/ Operate(c) \/ DisposeContext(c) \/ Collect(c)
    \/ EnqueueJob \/ NewObject \/ Returns \/ CallHost \/ Finalize \/ HostReturns
    \/ Ending \/ close

Spec == Init /\ [][Next]_vars

(* The operation or the host code at depth d ends, or goes on with what    *)
(* JSRuntime.dispose has to do there.                                      *)
Proceeds(d) == Len(stack) = d /\ (Returns \/ HostReturns \/ Ending)

(* Guest operations end (Deadlines), host code finishes, and native code   *)
(* runs on by itself.                                                      *)
Fairness ==
    /\ \A d \in 1..MaxDepth : SF_vars(Proceeds(d))
    /\ WF_vars(Is({"end"}) /\ Finalize)

FairSpec == Spec /\ Fairness

-----------------------------------------------------------------------------

(* Every variable has its type.                                            *)
TypeOK ==
    /\ library \in {"open", "closed"}
    /\ runtimes \in Nat
    /\ stage \in [Runtimes -> Stages]
    /\ callbacks \subseteq Runtimes
    /\ owner \in [Contexts -> Runtimes]
    /\ registered \subseteq Contexts
    /\ native \in [Contexts -> {"none", "alive", "freed"}]
    /\ entries \in [Runtimes -> Seq(Contexts)]
    /\ jobs \in [Runtimes -> Seq(Contexts)]
    /\ objects \in [Runtimes -> Nat]
    /\ hostDepth \in [Runtimes -> Nat]
    /\ stack \in Seq(Frame)

(* The bridge's list holds the contexts that JSRuntime knows, each once,   *)
(* whatever order they are used and disposed in: none is left without its  *)
(* timeout and no entry points to a freed context (qjs_bun_timeout,        *)
(* qjs_bun_new_context, qjs_bun_free_context).                             *)
EntriesMatchContexts ==
    \A r \in Runtimes :
        /\ ToSet(entries[r]) = {c \in registered : owner[c] = r}
        /\ IsInjective(entries[r])

(* Whatever is still to return finds its runtime, its context and its      *)
(* callbacks in place: nothing is freed under a host function, a finalizer *)
(* or a job, not even that of a disposed context (hostDepth, dispose).     *)
FramesAreAlive ==
    \A i \in 1..Len(stack) :
        LET f == stack[i] IN
        /\ f.ctx # None => native[f.ctx] = "alive"
        /\ f.kind # "end" => Exists(f.rt)
        /\ f.kind \in Callbacks => f.rt \in callbacks

(* Host functions and callbacks are only ever run for a context that is    *)
(* not disposed, and that stays so until they return (#callHost, dispose). *)
HostCodeHasItsContext ==
    \A i \in 1..Len(stack) : stack[i].kind = "host" => stack[i].ctx \in registered

(* Pending jobs keep the engine's context.                                 *)
JobsKeepTheirContext ==
    \A r \in Runtimes : \A i \in 1..Len(jobs[r]) : native[jobs[r][i]] = "alive"

(* The library is not closed under a runtime that has not been disposed    *)
(* (QuickJS.close).                                                        *)
NoLiveRuntimeWhenClosed == library = "closed" => \A r \in Runtimes : stage[r] # "live"

(* "QuickJS library is still used by a runtime": close refuses as long as  *)
(* a runtime exists in the engine.                                         *)
LibraryOutlivesRuntimes == library = "closed" => \A r \in Runtimes : ~Exists(r)

(* Disposing a runtime, once begun, gets to its end, finalizers and all.   *)
DisposeEnds == \A r \in Runtimes : stage[r] = "contexts" ~> stage[r] = "done"

=============================================================================
