----------------------------- MODULE AtomCache -----------------------------
(***************************************************************************)
(* Property names on their way to the engine.  JSContext.atom turns a      *)
(* string into an atom and keeps it in a cache of the context, which is    *)
(* emptied when it is full; the cache's reference is all that keeps the    *)
(* atom alive while a native operation uses it.  JSAtom is a handle on an  *)
(* atom of which host code itself keeps a reference.                       *)
(*                                                                         *)
(* A native operation may run guest code, which may call the host back,    *)
(* which may look up names of its own.                                     *)
(***************************************************************************)
EXTENDS Integers, Sequences, FiniteSets

CONSTANTS
    Contexts,   \* the contexts of the runtime
    Keys,       \* property names, one atom each
    Atoms,      \* JSAtom objects
    None,       \* no context and no name
    Limit,      \* how many atoms a cache holds before it is emptied (4096)
    MaxDepth    \* bound on the call stack

ASSUME KeysAssumption == IsFiniteSet(Keys) /\ None \notin Keys \cup Contexts
ASSUME SetsAssumption == IsFiniteSet(Contexts) /\ IsFiniteSet(Atoms)
ASSUME LimitAssumption == Limit \in Nat \ {0} /\ MaxDepth \in Nat

VARIABLES
    cache,      \* JSContext.#atoms, for every context
    refs,       \* reference counts of the runtime's atoms
    guest,      \* the atoms that the guest refers to
    atom,       \* the JSAtom objects
    lost,       \* history: references that no one will give back
    closed,     \* the disposed contexts
    hostDepth,  \* JSRuntime.hostDepth
    stack       \* native operations and callbacks, innermost last

vars == <<cache, refs, guest, atom, lost, closed, hostDepth, stack>>

-----------------------------------------------------------------------------

Frame == [kind : {"native", "host"}, ctx : Contexts, key : Keys \cup {None}]
Unborn(a) == atom[a].life # "live"
AtomHandle ==
    [life : {"none", "live", "disposed"}, ctx : Contexts \cup {None}, key : Keys \cup {None}]

Top == stack[Len(stack)]
Rest == SubSeq(stack, 1, Len(stack) - 1)
HostRuns == stack # <<>> => Top.kind = "host"
EngineRuns == stack # <<>> /\ Top.kind = "native"
Enter(k, c, key) ==
    /\ Len(stack) < MaxDepth
    /\ stack' = Append(stack, [kind |-> k, ctx |-> c, key |-> key])

Init ==
    /\ cache = [c \in Contexts |-> {}]
    /\ refs = [k \in Keys |-> 0]
    /\ guest = {}
    /\ atom = [a \in Atoms |-> [life |-> "none", ctx |-> None, key |-> None]]
    /\ lost = [k \in Keys |-> 0]
    /\ closed = {}
    /\ hostDepth = 0
    /\ stack = <<>>

-----------------------------------------------------------------------------
(* JSContext.atom, and the native operation that it is called for.         *)

Full_Anytime(c) == Cardinality(cache[c]) >= Limit
Full_Late(c) == Cardinality(cache[c]) > Limit /\ hostDepth = 0

(* Atoms may be in use by operations further out, which only a callback    *)
(* can have left behind.                                                   *)
Full(c) == Cardinality(cache[c]) >= Limit /\ hostDepth = 0

(* What is left of the cache and of the reference counts when a name is    *)
(* to be added.                                                            *)
Kept(c) == IF Full(c) THEN {} ELSE cache[c]
RefsKept_Leaky(c) == refs
RefsKept(c) == [k \in Keys |-> IF k \in cache[c] \ Kept(c) THEN refs[k] - 1 ELSE refs[k]]

Hit(c, k) ==
    /\ HostRuns /\ c \notin closed /\ k \in cache[c]
    /\ Enter("native", c, k)
    /\ UNCHANGED <<cache, refs, guest, atom, lost, closed, hostDepth>>

Miss(c, k) ==
    /\ HostRuns /\ c \notin closed /\ k \notin cache[c]
    /\ cache' = [cache EXCEPT ![c] = Kept(c) \cup {k}]
    /\ refs' = [RefsKept(c) EXCEPT ![k] = @ + 1]
    /\ Enter("native", c, k)
    /\ UNCHANGED <<guest, atom, lost, closed, hostDepth>>

(* Out of memory: the cache is emptied all the same.                       *)
MissFails(c, k) ==
    /\ HostRuns /\ c \notin closed /\ k \notin cache[c]
    /\ cache' = [cache EXCEPT ![c] = Kept(c)]
    /\ refs' = RefsKept(c)
    /\ UNCHANGED <<guest, atom, lost, closed, hostDepth, stack>>

(* Operations without a name of their own: eval, call, dispose, ...        *)
Operate(c) ==
    /\ HostRuns /\ c \notin closed
    /\ Enter("native", c, None)
    /\ UNCHANGED <<cache, refs, guest, atom, lost, closed, hostDepth>>

NativeReturns ==
    /\ EngineRuns
    /\ stack' = Rest
    /\ UNCHANGED <<cache, refs, guest, atom, lost, closed, hostDepth>>

-----------------------------------------------------------------------------
(* The guest, and its calls of the host.                                   *)

GuestKeeps(k) ==
    /\ EngineRuns /\ k \notin guest
    /\ guest' = guest \cup {k}
    /\ refs' = [refs EXCEPT ![k] = @ + 1]
    /\ UNCHANGED <<cache, atom, lost, closed, hostDepth, stack>>

GuestDrops(k) ==
    /\ EngineRuns /\ k \in guest
    /\ guest' = guest \ {k}
    /\ refs' = [refs EXCEPT ![k] = @ - 1]
    /\ UNCHANGED <<cache, atom, lost, closed, hostDepth, stack>>

(* Host functions, finalizers, module loaders and initializers, the        *)
(* rejection tracker: each counts itself in hostDepth.                     *)
CallHost ==
    /\ EngineRuns
    /\ Enter("host", Top.ctx, None)
    /\ hostDepth' = hostDepth + 1
    /\ UNCHANGED <<cache, refs, guest, atom, lost, closed>>

HostReturns ==
    /\ stack # <<>> /\ Top.kind = "host"
    /\ stack' = Rest
    /\ hostDepth' = hostDepth - 1
    /\ UNCHANGED <<cache, refs, guest, atom, lost, closed>>

-----------------------------------------------------------------------------
(* JSAtom.                                                                 *)

newAtom(a, c, k) ==
    /\ HostRuns /\ c \notin closed /\ Unborn(a)
    /\ atom' = [atom EXCEPT ![a] = [life |-> "live", ctx |-> c, key |-> k]]
    /\ refs' = [refs EXCEPT ![k] = @ + 1]
    /\ UNCHANGED <<cache, guest, lost, closed, hostDepth, stack>>

dup(a, copy) ==
    /\ HostRuns /\ atom[a].life = "live" /\ atom[a].ctx \notin closed /\ Unborn(copy)
    /\ atom' = [atom EXCEPT ![copy] = atom[a]]
    /\ refs' = [refs EXCEPT ![atom[a].key] = @ + 1]
    /\ UNCHANGED <<cache, guest, lost, closed, hostDepth, stack>>

(* Nothing is given back the second time, nor when the context is gone.    *)
dispose(a) ==
    /\ HostRuns /\ atom[a].life = "live"
    /\ atom' = [atom EXCEPT ![a].life = "disposed"]
    /\ IF atom[a].ctx \in closed
       THEN /\ lost' = [lost EXCEPT ![atom[a].key] = @ + 1]
            /\ UNCHANGED refs
       ELSE /\ refs' = [refs EXCEPT ![atom[a].key] = @ - 1]
            /\ UNCHANGED lost
    /\ UNCHANGED <<cache, guest, closed, hostDepth, stack>>

-----------------------------------------------------------------------------

(* JSContext.dispose gives the cache back.                                 *)
DisposeContext(c) ==
    /\ HostRuns /\ c \notin closed /\ hostDepth = 0
    /\ closed' = closed \cup {c}
    /\ cache' = [cache EXCEPT ![c] = {}]
    /\ refs' = [k \in Keys |-> IF k \in cache[c] THEN refs[k] - 1 ELSE refs[k]]
    /\ UNCHANGED <<guest, atom, lost, hostDepth, stack>>

LookUp == \E c \in Contexts, k \in Keys : Hit(c, k) \/ Miss(c, k) \/ MissFails(c, k)

Next ==
    \/ LookUp
    \/ \E c \in Contexts : Operate(c) \/ DisposeContext(c)
    \/ \E k \in Keys : GuestKeeps(k) \/ GuestDrops(k)
    \/ NativeReturns \/ CallHost \/ HostReturns
    \/ \E a \in Atoms, c \in Contexts, k \in Keys : newAtom(a, c, k)
    \/ \E a, copy \in Atoms : dup(a, copy)
    \/ \E a \in Atoms : dispose(a)

Spec == Init /\ [][Next]_vars

-----------------------------------------------------------------------------

(* Every variable has its type.                                            *)
TypeOK ==
    /\ cache \in [Contexts -> SUBSET Keys]
    /\ refs \in [Keys -> Nat]
    /\ guest \subseteq Keys
    /\ atom \in [Atoms -> AtomHandle]
    /\ lost \in [Keys -> Nat]
    /\ closed \subseteq Contexts
    /\ hostDepth \in Nat
    /\ stack \in Seq(Frame)

(* The atom that a native operation was given is alive and is the cache's  *)
(* until that operation returns, whatever the callbacks made meanwhile     *)
(* look up and however full the cache is (JSContext.atom, dispose).        *)
AtomsInUseAreAlive ==
    \A i \in 1..Len(stack) : stack[i].key # None =>
        stack[i].key \in cache[stack[i].ctx] /\ refs[stack[i].key] > 0

(* An atom's count is that of the caches, JSAtoms, guest names and lost    *)
(* references that stand for it: emptying a cache, disposing an atom or a  *)
(* context gives back each of theirs once.                                 *)
AtomRefsBalance ==
    \A k \in Keys :
        refs[k] = Cardinality({c \in Contexts : k \in cache[c]})
                + Cardinality({a \in Atoms : atom[a].life = "live" /\ atom[a].key = k})
                + (IF k \in guest THEN 1 ELSE 0) + lost[k]

(* Outside host calls a cache never grows beyond its limit, even if host   *)
(* calls had to let it grow further before (JSContext.atom).               *)
CacheStaysWithinLimit ==
    [][hostDepth = 0 => \A c \in Contexts :
         Cardinality(cache'[c]) <= Limit \/ Cardinality(cache'[c]) <= Cardinality(cache[c])]_vars

=============================================================================
