----------------------------- MODULE HostSlots -----------------------------
(***************************************************************************)
(* Host slots of one runtime: the numbers under which the native side      *)
(* knows host functions and shared byte arrays.  JSRuntime keeps the table *)
(* (#hosts) and a stack of free numbers (#freeSlots); an engine object     *)
(* carries its number in a QJSBunHostSlot and reports it when it is        *)
(* finalized, detached, or could not be completed.                         *)
(*                                                                         *)
(* Slots are counted from 1, as sequences are; the code counts from 0.     *)
(***************************************************************************)
EXTENDS Naturals, Sequences

CONSTANTS
    Objects,    \* engine objects: host functions and array buffers
    Values,     \* host closures and byte arrays
    Undefined   \* undefined, in the table

ASSUME UndefinedAssumption == Undefined \notin Values

VARIABLES
    hosts,      \* JSRuntime.#hosts
    freeSlots,  \* JSRuntime.#freeSlots
    object,     \* the engine objects and the slots that they carry
    making,     \* newFunction or newArrayBuffer in progress
    phase       \* of the runtime: "live", "freeing", "disposed"

slotsVars == <<hosts, freeSlots, object, making, phase>>

-----------------------------------------------------------------------------

(* An object holds a slot while "holds": a buffer that was detached or     *)
(* transferred stays alive without one.  "val" is the host value that the  *)
(* object was made for.                                                    *)
Absent == [life |-> "none", kind |-> "none", holds |-> FALSE, id |-> 0, val |-> Undefined]
Object ==
    [life : {"none", "live"}, kind : {"none", "function", "buffer"}, holds : BOOLEAN,
     id : Nat, val : Values \cup {Undefined}]

Idle == [stage |-> "idle", kind |-> "none", id |-> 0, val |-> Undefined]
Making ==
    [stage : {"idle", "native", "failed"}, kind : {"none", "function", "buffer"},
     id : Nat, val : Values \cup {Undefined}]

Holds(o) == object[o].life = "live" /\ object[o].holds

(* A closure or array that is not registered anywhere yet.                 *)
Unused(v) == v # making.val /\ \A o \in Objects : object[o].val # v

SlotsInit ==
    /\ hosts = <<>>
    /\ freeSlots = <<>>
    /\ object = [o \in Objects |-> Absent]
    /\ making = Idle
    /\ phase = "live"

-----------------------------------------------------------------------------
(* JSRuntime.slot and JSRuntime.release.                                   *)

NextSlot == IF freeSlots # <<>> THEN freeSlots[Len(freeSlots)] ELSE Len(hosts) + 1

slot(v) ==
    IF freeSlots # <<>>
    THEN /\ hosts' = [hosts EXCEPT ![NextSlot] = v]
         /\ freeSlots' = SubSeq(freeSlots, 1, Len(freeSlots) - 1)
    ELSE /\ hosts' = Append(hosts, v)
         /\ UNCHANGED freeSlots

release_Twice(id) ==
    /\ hosts' = [hosts EXCEPT ![id] = Undefined]
    /\ freeSlots' = Append(freeSlots, id)

(* Releasing a slot that is free does nothing.                             *)
release(id) ==
    IF hosts[id] = Undefined
    THEN UNCHANGED <<hosts, freeSlots>>
    ELSE /\ hosts' = [hosts EXCEPT ![id] = Undefined]
         /\ freeSlots' = Append(freeSlots, id)

-----------------------------------------------------------------------------
(* newFunction and newArrayBuffer: the slot is taken first, the native     *)
(* object made next.                                                       *)

Begin(k, v) ==
    /\ phase = "live" /\ making = Idle /\ Unused(v)
    /\ making' = [stage |-> "native", kind |-> k, id |-> NextSlot, val |-> v]
    /\ slot(v)
    /\ UNCHANGED <<object, phase>>

newFunction(v) == Begin("function", v)
newArrayBuffer(v) == Begin("buffer", v)

Made(o) ==
    /\ making.stage = "native" /\ object[o].life = "none"
    /\ object' = [object EXCEPT ![o] = [life |-> "live", kind |-> making.kind, holds |-> TRUE,
                                        id |-> making.id, val |-> making.val]]
    /\ making' = Idle
    /\ UNCHANGED <<hosts, freeSlots, phase>>

(* Out of memory before the object has its slot: it is freed, if it was    *)
(* made at all, without a word to the host.                                *)
FailsEarly ==
    /\ making.stage = "native"
    /\ making' = [making EXCEPT !.stage = "failed"]
    /\ UNCHANGED <<hosts, freeSlots, object, phase>>

(* A function that has its slot but not its properties is freed, and its   *)
(* finalizer releases the slot.                                            *)
FailsLate ==
    /\ making.stage = "native" /\ making.kind = "function"
    /\ making' = [making EXCEPT !.stage = "failed"]
    /\ release(making.id)
    /\ UNCHANGED <<object, phase>>

(* The catch clause releases the slot in either case.                      *)
CatchFailure_Skips ==
    /\ making.stage = "failed"
    /\ making' = Idle
    /\ UNCHANGED <<hosts, freeSlots, object, phase>>

CatchFailure ==
    /\ making.stage = "failed"
    /\ making' = Idle
    /\ release(making.id)
    /\ UNCHANGED <<object, phase>>

-----------------------------------------------------------------------------
(* The engine.  A collection may run whenever it allocates, so also while  *)
(* an object is being made; nothing runs between a failure and its catch.  *)

EngineActs == making.stage # "failed" /\ phase # "disposed"

(* The finalizer of a host function, and that of an array buffer, which    *)
(* has nothing to release once its data is gone.                           *)
Finalize_Always(o) ==
    /\ EngineActs /\ object[o].life = "live"
    /\ object' = [object EXCEPT ![o] = Absent]
    /\ release(object[o].id)
    /\ UNCHANGED <<making, phase>>

Finalize(o) ==
    /\ EngineActs /\ object[o].life = "live"
    /\ object' = [object EXCEPT ![o] = Absent]
    /\ IF object[o].holds THEN release(object[o].id) ELSE UNCHANGED <<hosts, freeSlots>>
    /\ UNCHANGED <<making, phase>>

(* JS_DetachArrayBuffer, and transfer() to another length, which copies.   *)
Detach(o) ==
    /\ EngineActs /\ phase = "live"
    /\ Holds(o) /\ object[o].kind = "buffer"
    /\ object' = [object EXCEPT ![o].holds = FALSE]
    /\ release(object[o].id)
    /\ UNCHANGED <<making, phase>>

(* transfer() to the same length: a new buffer takes over data and slot.   *)
Transfer(o, new) ==
    /\ EngineActs /\ phase = "live"
    /\ Holds(o) /\ object[o].kind = "buffer" /\ object[new].life = "none"
    /\ object' = [object EXCEPT ![new] = object[o], ![o].holds = FALSE]
    /\ UNCHANGED <<hosts, freeSlots, making, phase>>

-----------------------------------------------------------------------------
(* JSRuntime.dispose frees the engine, which finalizes every object, and   *)
(* empties the table afterwards.                                           *)

FreeRuntime ==
    /\ phase = "live" /\ making = Idle
    /\ phase' = "freeing"
    /\ UNCHANGED <<hosts, freeSlots, object, making>>

ClearTable ==
    /\ phase = "freeing" /\ \A o \in Objects : object[o].life = "none"
    /\ phase' = "disposed"
    /\ hosts' = <<>> /\ freeSlots' = <<>>
    /\ UNCHANGED <<object, making>>

SlotsNext ==
    \/ \E v \in Values : newFunction(v) \/ newArrayBuffer(v)
    \/ \E o \in Objects : Made(o) \/ Finalize(o) \/ Detach(o)
    \/ \E o, new \in Objects : Transfer(o, new)
    \/ FailsEarly \/ FailsLate \/ CatchFailure
    \/ FreeRuntime \/ ClearTable

SlotsSpec == SlotsInit /\ [][SlotsNext]_slotsVars

-----------------------------------------------------------------------------

(* Every variable has its type, and an object that is being made has a     *)
(* slot of the table.                                                      *)
SlotsTypeOK ==
    /\ hosts \in Seq(Values \cup {Undefined})
    /\ freeSlots \in Seq(1..Len(hosts))
    /\ object \in [Objects -> Object]
    /\ making \in Making
    /\ phase \in {"live", "freeing", "disposed"}
    /\ making.stage = "idle" \/ making.id \in 1..Len(hosts)
    /\ making.stage = "idle" => making = Idle

(* The number that a live object carries leads to the closure or array it  *)
(* was made for, however numbers are released and taken again: a call of   *)
(* a host function never runs another one (#callHost).                     *)
SlotLeadsToItsValue ==
    \A o \in Objects : Holds(o) => object[o].id \in 1..Len(hosts) /\ hosts[object[o].id] = object[o].val

(* The free numbers are those without a value, each once: a slot that is   *)
(* released by a finalizer and again by a catch clause is not handed out   *)
(* twice (slot, release).                                                  *)
FreeSlotsAreFree ==
    /\ \A i \in 1..Len(freeSlots) : hosts[freeSlots[i]] = Undefined
    /\ \A i, j \in 1..Len(freeSlots) : freeSlots[i] = freeSlots[j] => i = j
    /\ \A id \in 1..Len(hosts) :
          hosts[id] = Undefined => \E i \in 1..Len(freeSlots) : freeSlots[i] = id

(* A slot is in use only on behalf of one object that holds it, or of the  *)
(* one being made: closures and arrays are let go with their objects, and  *)
(* after a failure (newFunction, newArrayBuffer, host finalizers).         *)
NoSlotLeaks ==
    \A id \in 1..Len(hosts) : hosts[id] # Undefined =>
        \/ making.stage # "idle" /\ making.id = id
        \/ \E o \in Objects : Holds(o) /\ object[o].id = id

(* No two objects hold one slot, and none holds that of the object being   *)
(* made: a buffer hands its slot over when it is transferred.              *)
OneHolderPerSlot ==
    /\ \A o, p \in Objects : Holds(o) /\ Holds(p) /\ object[o].id = object[p].id => o = p
    /\ making.stage # "idle" => \A o \in Objects : Holds(o) => object[o].id # making.id

=============================================================================
