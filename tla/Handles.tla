------------------------------ MODULE Handles ------------------------------
(***************************************************************************)
(* Handles of one runtime: the JSValue objects that host code holds, the   *)
(* table in which every context keeps those that own a reference in the    *)
(* engine, the reference counts behind them, and the host calls that       *)
(* borrow handles for their arguments.                                     *)
(*                                                                         *)
(* Host code runs in the program, in host functions and callbacks, and in  *)
(* class finalizers, which the engine runs when a reference count reaches  *)
(* zero: in the middle of a dispose, of the end of a host call, or of the  *)
(* disposal of a context.  A finalizer may dispose and duplicate handles;  *)
(* the engine does not support allocating objects in one.                  *)
(***************************************************************************)
EXTENDS Integers, Sequences, FiniteSets

CONSTANTS
    Contexts,   \* the contexts of the runtime
    Handles,    \* JSValue objects
    Objects,    \* guest objects, strings and other counted values
    Finalized,  \* the objects of a class with a finalizer
    Nil,        \* a value that is not counted: a number, undefined, ...
    MaxArgs,    \* bound on the arguments of a host call, this included
    MaxGuest,   \* bound on the guest's own references to an object
    MaxDepth    \* bound on the nesting of host calls

ASSUME HandlesAssumption == IsFiniteSet(Handles)
ASSUME ObjectsAssumption == Nil \notin Objects /\ Finalized \subseteq Objects
ASSUME BoundsAssumption == MaxArgs \in Nat /\ MaxGuest \in Nat /\ MaxDepth \in Nat

VARIABLES
    table,      \* JSContext.handles
    slot,       \* JSValue.#slot
    life,       \* whether a JSValue exists, and JSValue.#disposed
    vm,         \* JSValue.vm
    obj,        \* what the cell of a JSValue holds
    refs,       \* reference counts in the engine
    guest,      \* how many of those are the guest's own
    zero,       \* gc_zero_ref_count_list: objects whose finalizer is to run
    closed,     \* the disposed contexts
    hostDepth,  \* JSRuntime.hostDepth
    stack       \* host calls, finalizers and the disposal in progress

vars == <<table, slot, life, vm, obj, refs, guest, zero, closed, hostDepth, stack>>
cells == <<table, slot, life, vm, obj>>
counts == <<refs, guest, zero>>

-----------------------------------------------------------------------------

Lives == {"unborn", "live", "disposed"}

(* "call", "tracker", "loader": callbacks that borrow handles, which they  *)
(* take in phase "borrow" and give back in phase "end", from the one at    *)
(* index next on.  "finalizer" and "dispose" borrow none.                  *)
Borrowers == {"call", "tracker", "loader"}
Frame == [kind : Borrowers \cup {"finalizer", "dispose"}, ctx : Contexts \cup {Nil},
          phase : {"borrow", "run", "end"}, args : Seq(Handles), next : Nat]

Top == stack[Len(stack)]
Rest == SubSeq(stack, 1, Len(stack) - 1)
Push(f) == stack' = Append(stack, f)
Retop(f) == stack' = Append(Rest, f)
Is(kinds, phase) == stack # <<>> /\ Top.kind \in kinds /\ Top.phase = phase

Registered(h) == life[h] = "live" /\ obj[h] # Nil

(* An argument list keeps its JSValue objects from being collected.        *)
InUse(h) == \E i \in 1..Len(stack) : \E j \in 1..Len(stack[i].args) : stack[i].args[j] = h
Fresh(h) == life[h] # "live" /\ ~InUse(h)

Finalizing == \E i \in 1..Len(stack) : stack[i].kind = "finalizer"

(* The engine returns to host code only when no finalizer is due.          *)
Settled == zero = <<>> \/ Finalizing

HostRuns == Settled /\ (stack # <<>> => Top.phase = "run" /\ Top.kind # "dispose")
GuestMayRun == HostRuns /\ ~Finalizing

Init ==
    /\ table = [c \in Contexts |-> <<>>]
    /\ slot = [h \in Handles |-> -1]
    /\ life = [h \in Handles |-> "unborn"]
    /\ vm = [h \in Handles |-> Nil]
    /\ obj = [h \in Handles |-> Nil]
    /\ refs = [o \in Objects |-> 0]
    /\ guest = [o \in Objects |-> 0]
    /\ zero = <<>>
    /\ closed = {}
    /\ hostDepth = 0
    /\ stack = <<>>

-----------------------------------------------------------------------------
(* JSValue.                                                                *)

(* The constructor, given an owned cell: a counted value takes the next    *)
(* place in the table of its context.                                      *)
Construct(h, c, v) ==
    /\ life' = [life EXCEPT ![h] = "live"]
    /\ vm' = [vm EXCEPT ![h] = c]
    /\ obj' = [obj EXCEPT ![h] = v]
    /\ slot' = [slot EXCEPT ![h] = IF v = Nil THEN -1 ELSE Len(table[c])]
    /\ table' = IF v = Nil THEN table ELSE [table EXCEPT ![c] = Append(@, h)]

(* JS_DupValue and JS_FreeValue.                                           *)
Dup(v) == refs' = IF v = Nil THEN refs ELSE [refs EXCEPT ![v] = @ + 1]

Free(v) ==
    /\ refs' = [refs EXCEPT ![v] = @ - 1]
    /\ zero' = IF refs[v] = 1 /\ v \in Finalized THEN <<v>> \o zero ELSE zero

(* The last handle of the table takes the place of the one that leaves.    *)
Unregister_KeepsSlot(h) ==
    LET handles == table[vm[h]]
        last == handles[Len(handles)]
        front == SubSeq(handles, 1, Len(handles) - 1)
    IN  /\ table' = [table EXCEPT ![vm[h]] =
                        IF last = h THEN front ELSE [front EXCEPT ![slot[h] + 1] = last]]
        /\ UNCHANGED slot

Unregister_DropsLast(h) ==
    LET handles == table[vm[h]]
    IN  /\ table' = [table EXCEPT ![vm[h]] = SubSeq(handles, 1, Len(handles) - 1)]
        /\ UNCHANGED slot

Unregister(h) ==
    LET handles == table[vm[h]]
        last == handles[Len(handles)]
        front == SubSeq(handles, 1, Len(handles) - 1)
    IN  /\ table' = [table EXCEPT ![vm[h]] =
                        IF last = h THEN front ELSE [front EXCEPT ![slot[h] + 1] = last]]
        /\ slot' = IF last = h THEN slot ELSE [slot EXCEPT ![last] = slot[h]]

(* JSValue.dispose, which does nothing the second time.                    *)
Dispose(h) ==
    \/ /\ life[h] = "disposed"
       /\ UNCHANGED <<cells, counts>>
    \/ /\ life[h] = "live" /\ obj[h] = Nil
       /\ life' = [life EXCEPT ![h] = "disposed"]
       /\ UNCHANGED <<table, slot, vm, obj, counts>>
    \/ /\ Registered(h)
       /\ life' = [life EXCEPT ![h] = "disposed"]
       /\ Unregister(h)
       /\ IF vm[h] \in closed THEN UNCHANGED <<refs, zero>> ELSE Free(obj[h])
       /\ UNCHANGED <<vm, obj, guest>>

-----------------------------------------------------------------------------
(* Operations of the host.                                                 *)

(* Any operation whose result is a counted value, new or already known.    *)
resultValue(h, c, o) ==
    /\ GuestMayRun /\ c \notin closed /\ Fresh(h)
    /\ Construct(h, c, o) /\ Dup(o)
    /\ UNCHANGED <<guest, zero, closed, hostDepth, stack>>

resultPrimitive(h, c) ==
    /\ GuestMayRun /\ c \notin closed /\ Fresh(h)
    /\ Construct(h, c, Nil)
    /\ UNCHANGED <<counts, closed, hostDepth, stack>>

dup(h, copy) ==
    /\ HostRuns /\ life[h] = "live" /\ Fresh(copy)
    /\ obj[h] # Nil => vm[h] \notin closed
    /\ Construct(copy, vm[h], obj[h]) /\ Dup(obj[h])
    /\ UNCHANGED <<guest, zero, closed, hostDepth, stack>>

dispose(h) ==
    /\ HostRuns /\ life[h] # "unborn"
    /\ Dispose(h)
    /\ UNCHANGED <<closed, hostDepth, stack>>

(* The guest is given a reference (a property, an export, a callee's       *)
(* argument), and drops one, which may also happen in a collection.        *)
GuestKeeps(h) ==
    /\ GuestMayRun /\ Registered(h) /\ vm[h] \notin closed
    /\ guest[obj[h]] < MaxGuest
    /\ guest' = [guest EXCEPT ![obj[h]] = @ + 1]
    /\ Dup(obj[h])
    /\ UNCHANGED <<cells, zero, closed, hostDepth, stack>>

GuestDrops(o) ==
    /\ GuestMayRun /\ guest[o] > 0
    /\ guest' = [guest EXCEPT ![o] = @ - 1]
    /\ Free(o)
    /\ UNCHANGED <<cells, closed, hostDepth, stack>>

-----------------------------------------------------------------------------
(* Callbacks into the host.                                                *)

Borrow_NoDup(h, c, v) ==
    /\ Fresh(h)
    /\ v # Nil => refs[v] > 0
    /\ Construct(h, c, v)
    /\ UNCHANGED <<counts, closed>>

(* A handle of its own for a value that the engine passes.                 *)
Borrow(h, c, v) ==
    /\ Fresh(h)
    /\ v # Nil => refs[v] > 0
    /\ Construct(h, c, v) /\ Dup(v)
    /\ UNCHANGED <<guest, zero, closed>>

(* A host function, the rejection tracker or the module loader is called:  *)
(* no user code runs before all its handles are there.                     *)
Callback(k, c, h, v) ==
    /\ GuestMayRun /\ c \notin closed /\ Len(stack) < MaxDepth
    /\ Borrow(h, c, v)
    /\ Push([kind |-> k, ctx |-> c, phase |-> "borrow", args |-> <<h>>, next |-> 1])
    /\ hostDepth' = hostDepth + 1

BorrowArg(h, v) ==
    /\ Is({"call", "tracker"}, "borrow") /\ Len(Top.args) < MaxArgs
    /\ Borrow(h, Top.ctx, v)
    /\ Retop([Top EXCEPT !.args = Append(@, h)])
    /\ UNCHANGED hostDepth

StartHost ==
    /\ Is(Borrowers, "borrow")
    /\ Top.kind = "tracker" => Len(Top.args) = 2
    /\ Retop([Top EXCEPT !.phase = "run"])
    /\ UNCHANGED <<cells, counts, closed, hostDepth>>

(* hostDepth goes down before the handles are given back, except for the   *)
(* module loader.                                                          *)
DepthAtEnd == IF Top.kind = "loader" THEN hostDepth ELSE hostDepth - 1
DepthAtPop == IF Top.kind = "loader" THEN hostDepth - 1 ELSE hostDepth

(* The callback returns, or throws, something other than a handle of its   *)
(* own context: a host value, or a handle that is foreign or disposed.     *)
FinishCallback ==
    /\ HostRuns /\ Is(Borrowers, "run")
    /\ Retop([Top EXCEPT !.phase = "end"])
    /\ hostDepth' = DepthAtEnd
    /\ UNCHANGED <<cells, counts, closed>>

(* A host function returns or throws a handle of its own context, which    *)
(* goes over to the guest.                                                 *)
ReturnHandle(h) ==
    /\ HostRuns /\ Is({"call"}, "run")
    /\ life[h] = "live" /\ vm[h] = Top.ctx
    /\ life' = [life EXCEPT ![h] = "disposed"]
    /\ IF obj[h] = Nil
       THEN UNCHANGED <<table, slot, guest>>
       ELSE /\ guest[obj[h]] < MaxGuest
            /\ guest' = [guest EXCEPT ![obj[h]] = @ + 1]
            /\ Unregister(h)
    /\ Retop([Top EXCEPT !.phase = "end"])
    /\ hostDepth' = DepthAtEnd
    /\ UNCHANGED <<vm, obj, refs, zero, closed>>

EndArg ==
    /\ Settled /\ Is(Borrowers, "end") /\ Top.next <= Len(Top.args)
    /\ Dispose(Top.args[Top.next])
    /\ Retop([Top EXCEPT !.next = @ + 1])
    /\ UNCHANGED <<closed, hostDepth>>

EndCallback_Early ==
    /\ Settled /\ Is(Borrowers, "end")
    /\ stack' = Rest
    /\ hostDepth' = DepthAtPop
    /\ UNCHANGED <<cells, counts, closed>>

EndCallback ==
    /\ Settled /\ Is(Borrowers, "end") /\ Top.next > Len(Top.args)
    /\ stack' = Rest
    /\ hostDepth' = DepthAtPop
    /\ UNCHANGED <<cells, counts, closed>>

(* The engine runs the finalizers that are due one after the other, the    *)
(* object freed last first; one that frees more does not nest.             *)
StartFinalizer ==
    /\ ~Settled
    /\ zero' = Tail(zero)
    /\ Push([kind |-> "finalizer", ctx |-> Nil, phase |-> "run", args |-> <<>>, next |-> 1])
    /\ hostDepth' = hostDepth + 1
    /\ UNCHANGED <<cells, refs, guest, closed>>

FinalizerReturns ==
    /\ Is({"finalizer"}, "run")
    /\ stack' = Rest
    /\ hostDepth' = hostDepth - 1
    /\ UNCHANGED <<cells, counts, closed>>

-----------------------------------------------------------------------------
(* JSContext.dispose.                                                      *)

DisposeContext_Anytime(c) ==
    /\ HostRuns /\ c \notin closed
    /\ Push([kind |-> "dispose", ctx |-> c, phase |-> "run", args |-> <<>>, next |-> 1])
    /\ UNCHANGED <<cells, counts, closed, hostDepth>>

DisposeContext(c) ==
    /\ HostRuns /\ c \notin closed /\ hostDepth = 0
    /\ Push([kind |-> "dispose", ctx |-> c, phase |-> "run", args |-> <<>>, next |-> 1])
    /\ UNCHANGED <<cells, counts, closed, hostDepth>>

(* The table is read anew for every handle: finalizers may add to it.      *)
DisposeLast ==
    /\ Settled /\ Is({"dispose"}, "run")
    /\ LET handles == table[Top.ctx]
       IN  handles # <<>> /\ Dispose(handles[Len(handles)])
    /\ UNCHANGED <<closed, hostDepth, stack>>

CloseContext_OneLeft ==
    /\ Settled /\ Is({"dispose"}, "run") /\ Len(table[Top.ctx]) <= 1
    /\ closed' = closed \cup {Top.ctx}
    /\ stack' = Rest
    /\ UNCHANGED <<cells, counts, hostDepth>>

CloseContext ==
    /\ Settled /\ Is({"dispose"}, "run") /\ table[Top.ctx] = <<>>
    /\ closed' = closed \cup {Top.ctx}
    /\ stack' = Rest
    /\ UNCHANGED <<cells, counts, hostDepth>>

-----------------------------------------------------------------------------

Operate ==
    \/ \E h \in Handles, c \in Contexts :
           resultPrimitive(h, c) \/ \E o \in Objects : resultValue(h, c, o)
    \/ \E h, copy \in Handles : dup(h, copy)
    \/ \E h \in Handles : dispose(h) \/ GuestKeeps(h)
    \/ \E o \in Objects : GuestDrops(o)

CallBack ==
    \/ \E h \in Handles, v \in Objects \cup {Nil} :
           \/ BorrowArg(h, v)
           \/ \E k \in Borrowers, c \in Contexts : Callback(k, c, h, v)
    \/ \E h \in Handles : ReturnHandle(h)
    \/ StartHost \/ FinishCallback \/ EndArg \/ EndCallback
    \/ StartFinalizer \/ FinalizerReturns

CloseDown == (\E c \in Contexts : DisposeContext(c)) \/ DisposeLast \/ CloseContext

Next == Operate \/ CallBack \/ CloseDown

Spec == Init /\ [][Next]_vars

-----------------------------------------------------------------------------

(* Every variable has its type.                                            *)
TypeOK ==
    /\ table \in [Contexts -> Seq(Handles)]
    /\ slot \in [Handles -> Nat \cup {-1}]
    /\ life \in [Handles -> Lives]
    /\ vm \in [Handles -> Contexts \cup {Nil}]
    /\ obj \in [Handles -> Objects \cup {Nil}]
    /\ refs \in [Objects -> Nat]
    /\ guest \in [Objects -> Nat]
    /\ zero \in Seq(Finalized)
    /\ closed \subseteq Contexts
    /\ hostDepth \in Nat
    /\ stack \in Seq(Frame)

(* The handles of a table are those of its context that own a reference,   *)
(* each once and at the place that it believes to have, whatever order     *)
(* they are disposed in (JSValue constructor and dispose).                 *)
TableAgrees ==
    /\ \A c \in Contexts : \A i \in 1..Len(table[c]) :
          Registered(table[c][i]) /\ vm[table[c][i]] = c /\ slot[table[c][i]] = i - 1
    /\ \A h \in Handles : Registered(h) =>
          /\ vm[h] \in Contexts
          /\ slot[h] + 1 \in 1..Len(table[vm[h]])
          /\ table[vm[h]][slot[h] + 1] = h

(* The engine's count of references to a value is what the guest and the   *)
(* live handles account for: nothing that a handle names is freed, nothing *)
(* is freed twice and nothing leaks (dup, #borrow, #callHost, dispose).    *)
RefsBalance ==
    \A o \in Objects :
        refs[o] = guest[o] + Cardinality({h \in Handles : Registered(h) /\ obj[h] = o})

(* A disposed context has no handle left, not even one that a finalizer    *)
(* made while the others were being disposed (JSContext.dispose).          *)
ClosedOwnsNothing == \A h \in Handles : Registered(h) => vm[h] \notin closed

(* No context is disposed under a callback that was made for it, however   *)
(* callbacks, finalizers and disposals nest (hostDepth).                   *)
NoCallbackIntoClosed ==
    \A i \in 1..Len(stack) : stack[i].kind \in Borrowers => stack[i].ctx \notin closed

(* When a callback has ended, every handle that was borrowed for it is     *)
(* disposed, even if the host kept it, disposed it itself or returned it   *)
(* (#callHost, #trackRejection, #loadModule).                              *)
ArgsReleased ==
    [][stack # <<>> /\ stack' = Rest =>
         \A i \in 1..Len(Top.args) : life'[Top.args[i]] = "disposed"]_vars

(* The tables implement sets of owned handles.                             *)
Ownership == INSTANCE HandleSet WITH
    owned <- [c \in Contexts |-> {table[c][i] : i \in 1..Len(table[c])}]

(* Every step acquires or releases one handle of one context, or closes a  *)
(* context that owns none, or does not concern the tables: the swap in     *)
(* JSValue.dispose never drops another handle than the one disposed.       *)
RefinesHandleSet == Ownership!Spec

=============================================================================
