-------------------------------- MODULE Dump --------------------------------
(***************************************************************************)
(* JSContext.dump: the conversion of a guest value, with everything that   *)
(* it refers to, into host values.  A guest value that is met twice must   *)
(* become one host value, cycles included; dump knows guest values by      *)
(* their addresses (seen) and holds on to every value it has read (kept),  *)
(* because the guest code that runs in between (getters, proxy traps) may  *)
(* drop values and make new ones, which the engine puts at free addresses. *)
(*                                                                         *)
(* Deadline scopes of dump are in module Deadlines.                        *)
(***************************************************************************)
EXTENDS Naturals, Sequences

CONSTANTS
    Addresses,   \* memory cells of the engine
    None,        \* a value without an address: a number, undefined, ...
    MaxDepth,    \* options.maxDepth
    MaxNodes,    \* options.maxNodes
    MaxEntries,  \* bound on the entries of an array or object
    MaxBorn      \* bound on the guest values ever made

ASSUME NoneAssumption == None \notin Addresses
ASSUME LimitsAssumption == MaxDepth \in Nat \ {0} /\ MaxNodes \in Nat \ {0}
ASSUME BoundsAssumption == MaxEntries \in Nat /\ MaxBorn \in Nat

VARIABLES
    heap,      \* the guest value at every address, 0 when the cell is free
    kind,      \* what kind of value it is
    born,      \* how many guest values have been made
    guest,     \* the addresses that the guest itself refers to
    root,      \* the handle that is dumped
    rootHeld,  \* whether the host program still holds it
    mode,      \* what dump is doing
    cur,       \* the value about to be visited
    stack,     \* the arrays and objects being visited, outermost first
    nodes,     \* the count of values visited
    seen,      \* the host value made for the value at an address, 0 if none
    kept,      \* the addresses of the entries read
    made,      \* history: the guest value that every host value was made for
    pairs,     \* history: guest values visited, with what visit returned
    visits     \* history: the depths at which this dump visited values

vars == <<heap, kind, born, guest, root, rootHeld, mode, cur, stack, nodes, seen, kept, made, pairs, visits>>
engine == <<heap, kind, born, guest>>
handles == <<root, rootHeld, kept>>
maps == <<seen, made, pairs>>
progress == <<nodes, visits>>

-----------------------------------------------------------------------------

(* A "leaf" is a string, a bigint or an error, which no guest code takes   *)
(* part in converting; "other" is a function or a symbol, where dump gives *)
(* up.                                                                     *)
Kinds == {"leaf", "container", "other"}
Modes == {"idle", "visit", "open", "entry", "done", "failed"}
Frame == [addr : Addresses, left : Nat]

Top == stack[Len(stack)]
Rest == SubSeq(stack, 1, Len(stack) - 1)
Live(a) == heap[a] # 0
Held == kept \cup (IF rootHeld THEN {root} ELSE {})

(* Guest code runs while dump reads a length, keys or an entry, and when   *)
(* there is no dump.                                                       *)
GuestRuns == mode \in {"idle", "open"} \/ (mode = "entry" /\ Top.left > 0)

Init ==
    /\ heap = [a \in Addresses |-> 0]
    /\ kind = [a \in Addresses |-> "other"]
    /\ born = 0
    /\ guest = {}
    /\ root = None /\ rootHeld = FALSE
    /\ mode = "idle"
    /\ cur = None
    /\ stack = <<>>
    /\ nodes = 0
    /\ seen = [a \in Addresses |-> 0]
    /\ kept = {}
    /\ made = <<>>
    /\ pairs = {}
    /\ visits = <<>>

-----------------------------------------------------------------------------
(* The guest, and host functions that it calls.                            *)

GuestMakes(a, k) ==
    /\ GuestRuns /\ ~Live(a) /\ born < MaxBorn
    /\ born' = born + 1
    /\ heap' = [heap EXCEPT ![a] = born + 1]
    /\ kind' = [kind EXCEPT ![a] = k]
    /\ guest' = guest \cup {a}
    /\ UNCHANGED <<handles, mode, cur, stack, progress, maps>>

GuestDrops(a) ==
    /\ GuestRuns /\ a \in guest
    /\ guest' = guest \ {a}
    /\ heap' = IF a \in Held THEN heap ELSE [heap EXCEPT ![a] = 0]
    /\ UNCHANGED <<kind, born, handles, mode, cur, stack, progress, maps>>

(* The host program disposes the handle, possibly in a host function that  *)
(* is called while it is being dumped.                                     *)
DisposeRoot ==
    /\ GuestRuns /\ rootHeld
    /\ rootHeld' = FALSE
    /\ heap' = IF root \in guest \cup kept THEN heap ELSE [heap EXCEPT ![root] = 0]
    /\ UNCHANGED <<kind, born, guest, root, kept, mode, cur, stack, progress, maps>>

-----------------------------------------------------------------------------

dump(a) ==
    /\ mode = "idle" /\ Live(a) /\ (rootHeld => a = root)
    /\ root' = a /\ rootHeld' = TRUE
    /\ mode' = "visit" /\ cur' = a
    /\ nodes' = 0 /\ visits' = <<>>
    /\ seen' = [x \in Addresses |-> 0] /\ made' = <<>> /\ pairs' = {}
    /\ UNCHANGED <<engine, kept, stack>>

(* The limits are looked at before the value.                              *)
TooDeep == Len(stack) > MaxDepth
TooMany == nodes + 1 > MaxNodes

Visits == mode = "visit" /\ ~TooDeep /\ ~TooMany
Unseen(k) == Visits /\ cur # None /\ kind[cur] = k /\ seen[cur] = 0

(* A visit returns into the array or object on the stack s.                *)
Return(s) == mode' = IF s = <<>> THEN "done" ELSE "entry"

(* A value at this depth passes the limits, and is counted.                *)
Visit == visits' = Append(visits, Len(stack))
Count == nodes' = nodes + 1

(* The next host value is made for the value at address a.                 *)
Convert(a) ==
    /\ made' = Append(made, heap[a])
    /\ seen' = [seen EXCEPT ![a] = Len(made) + 1]
    /\ pairs' = pairs \cup {<<heap[a], Len(made) + 1>>}

VisitPrimitive_Uncounted ==
    /\ Visits /\ cur = None
    /\ Visit
    /\ Return(stack)
    /\ UNCHANGED <<engine, handles, cur, stack, nodes, maps>>

VisitPrimitive ==
    /\ Visits /\ cur = None
    /\ Visit /\ Count
    /\ Return(stack)
    /\ UNCHANGED <<engine, handles, cur, stack, maps>>

VisitSeen ==
    /\ Visits /\ cur # None /\ kind[cur] # "other" /\ seen[cur] # 0
    /\ Visit /\ Count
    /\ pairs' = pairs \cup {<<heap[cur], seen[cur]>>}
    /\ Return(stack)
    /\ UNCHANGED <<engine, handles, cur, stack, seen, made>>

VisitLeaf ==
    /\ Unseen("leaf")
    /\ Visit /\ Count
    /\ Convert(cur)
    /\ Return(stack)
    /\ UNCHANGED <<engine, handles, cur, stack>>

(* An array or object is noted before its entries are read.                *)
VisitContainer ==
    /\ Unseen("container")
    /\ Visit /\ Count
    /\ Convert(cur)
    /\ stack' = Append(stack, [addr |-> cur, left |-> 0])
    /\ mode' = "open"
    /\ UNCHANGED <<engine, handles, cur>>

(* A limit is exceeded.                                                    *)
VisitRefused ==
    /\ mode = "visit"
    /\ \/ TooDeep /\ UNCHANGED nodes
       \/ ~TooDeep /\ TooMany /\ Count
    /\ mode' = "failed"
    /\ UNCHANGED <<engine, handles, cur, stack, maps, visits>>

(* The value cannot be converted, its type cannot be told (a revoked       *)
(* proxy), or memory runs out.                                             *)
VisitFails ==
    /\ Visits
    /\ (cur # None /\ kind[cur] # "leaf") \/ Unseen("leaf")
    /\ Visit /\ Count
    /\ mode' = "failed"
    /\ UNCHANGED <<engine, handles, cur, stack, maps>>

(* The dumped handle itself must not have been disposed when it is read.   *)
Readable == Len(stack) = 1 => rootHeld

(* The length of an array or the keys of an object, read once.             *)
ReadKeys(n) ==
    /\ mode = "open" /\ Readable
    /\ stack' = Append(Rest, [Top EXCEPT !.left = n])
    /\ mode' = "entry"
    /\ UNCHANGED <<engine, handles, cur, progress, maps>>

Keep_Not(v) == UNCHANGED kept
Keep(v) == kept' = IF v = None THEN kept ELSE kept \cup {v}

(* The guest answers with any of its values.                               *)
ReadEntry(v) ==
    /\ mode = "entry" /\ Top.left > 0 /\ Readable
    /\ v # None => Live(v)
    /\ Keep(v)
    /\ stack' = Append(Rest, [Top EXCEPT !.left = @ - 1])
    /\ cur' = v /\ mode' = "visit"
    /\ UNCHANGED <<engine, root, rootHeld, progress, maps>>

(* Guest code throws or is interrupted, memory runs out, or the handle has *)
(* been disposed.                                                          *)
ReadFails ==
    /\ GuestRuns /\ mode # "idle"
    /\ mode' = "failed"
    /\ UNCHANGED <<engine, handles, cur, stack, progress, maps>>

CloseContainer ==
    /\ mode = "entry" /\ Top.left = 0
    /\ stack' = Rest
    /\ Return(Rest)
    /\ UNCHANGED <<engine, handles, cur, progress, maps>>

(* The finally clause gives the entries back.                              *)
Finish ==
    /\ mode \in {"done", "failed"}
    /\ mode' = "idle"
    /\ kept' = {} /\ stack' = <<>>
    /\ heap' = [a \in Addresses |->
                  IF a \in guest \/ (rootHeld /\ a = root) THEN heap[a] ELSE 0]
    /\ UNCHANGED <<kind, born, guest, root, rootHeld, cur, progress, maps>>

-----------------------------------------------------------------------------

Guest ==
    \/ \E a \in Addresses : GuestDrops(a) \/ \E k \in Kinds : GuestMakes(a, k)
    \/ DisposeRoot

Dump ==
    \/ \E a \in Addresses : dump(a)
    \/ VisitPrimitive \/ VisitSeen \/ VisitLeaf \/ VisitContainer
    \/ VisitRefused \/ VisitFails
    \/ \E n \in 0..MaxEntries : ReadKeys(n)
    \/ \E v \in Addresses \cup {None} : ReadEntry(v)
    \/ ReadFails \/ CloseContainer \/ Finish

Next == Guest \/ Dump

Spec == Init /\ [][Next]_vars

-----------------------------------------------------------------------------

(* Every variable has its type, and seen refers to host values of this     *)
(* dump.                                                                   *)
TypeOK ==
    /\ heap \in [Addresses -> 0..born]
    /\ kind \in [Addresses -> Kinds]
    /\ born \in Nat
    /\ guest \subseteq Addresses
    /\ root \in Addresses \cup {None}
    /\ rootHeld \in BOOLEAN /\ (rootHeld => root # None)
    /\ mode \in Modes
    /\ cur \in Addresses \cup {None}
    /\ stack \in Seq(Frame)
    /\ mode \in {"open", "entry"} => stack # <<>>
    /\ nodes \in Nat
    /\ made \in Seq(1..born)
    /\ seen \in [Addresses -> 0..Len(made)]
    /\ kept \subseteq Addresses
    /\ pairs \subseteq Nat \X Nat
    /\ visits \in Seq(Nat)

(* Two entries of the result are one host value exactly if they were one   *)
(* guest value when they were read, no matter which values the guest drops *)
(* and makes meanwhile and where the engine puts them, as long as the      *)
(* program holds the dumped handle (seen and kept in JSContext.dump).      *)
SharingIsFaithful ==
    rootHeld => \A p, q \in pairs : p[1] = q[1] <=> p[2] = q[2]

(* The limits of a dump are exact (visit in JSContext.dump).  No getter    *)
(* that makes up new values, no cycle and no long array gets it beyond     *)
(* them: at most maxNodes values are visited, primitives and repeated      *)
(* values among them, none more than maxDepth below the dumped one.  And   *)
(* the next value is refused for its number only after maxNodes visits.    *)
WithinLimits ==
    /\ Len(visits) <= MaxNodes
    /\ \A i \in DOMAIN visits : visits[i] <= MaxDepth
    /\ mode = "visit" /\ TooMany => Len(visits) = MaxNodes

=============================================================================
