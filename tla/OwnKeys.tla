------------------------------ MODULE OwnKeys ------------------------------
(***************************************************************************)
(* JSValue.keys and JSValue.#text: reads of names and strings through the  *)
(* scratch buffer of a context.  A read that does not fit is repeated with *)
(* a larger buffer, which becomes the scratch buffer.  The object may be a *)
(* proxy, whose ownKeys trap runs within the read: it may report other     *)
(* names every time, and through a host function make reads of its own.    *)
(***************************************************************************)
EXTENDS Naturals, Sequences

CONSTANTS
    Contents,    \* lists of names, and strings
    Bytes,       \* the bytes that each takes up
    Buffers,     \* host buffers
    NoContents,  \* what a buffer that holds nothing of use holds
    InitialSize, \* size of the first scratch buffer
    Retries,     \* how often keys repeats a read
    MaxNesting   \* bound on the reads in progress

ASSUME BytesAssumption == Bytes \in [Contents -> Nat] /\ NoContents \notin Contents
ASSUME SizeAssumption == InitialSize \in Nat
ASSUME RetriesAssumption == Retries \in Nat /\ MaxNesting \in Nat

VARIABLES
    scratch,  \* vm.scratch
    size,     \* the byteLength of every buffer
    holds,    \* what it holds
    calls,    \* the calls of keys in progress, outermost first
    last      \* history: the last read that ended

keysVars == <<scratch, size, holds, calls, last>>

-----------------------------------------------------------------------------

(* A call of keys has its own scratch (buf); names are those read, and     *)
(* needs the bytes that each read which did not fit asked for.             *)
(* While it is "reading" the trap may run.                                 *)
Call == [buf : Buffers, phase : {"reading", "short", "read"},
         names : Contents \cup {NoContents}, needs : Seq(Nat)]
Ended == [out : {"none", "text", "names", "grows", "error"},
          got : Contents \cup {NoContents}, own : Contents \cup {NoContents}, needs : Seq(Nat)]

Innermost == calls[Len(calls)]
Outer == SubSeq(calls, 1, Len(calls) - 1)
HostRuns == calls # <<>> => Innermost.phase = "reading"
Free == Buffers \ ({scratch} \cup {calls[i].buf : i \in 1..Len(calls)})

KeysInit ==
    /\ scratch \in Buffers
    /\ size = [b \in Buffers |-> InitialSize]
    /\ holds = [b \in Buffers |-> NoContents]
    /\ calls = <<>>
    /\ last = [out |-> "none", got |-> NoContents, own |-> NoContents, needs |-> <<>>]

(* scratch = vm.scratch = Buffer.allocUnsafe(n * 2)                        *)
Allocate_Exact(b, n, c) ==
    /\ b \in Free
    /\ scratch' = b
    /\ size' = [size EXCEPT ![b] = n]
    /\ holds' = [holds EXCEPT ![b] = c]

Allocate(b, n, c) ==
    /\ b \in Free
    /\ scratch' = b
    /\ size' = [size EXCEPT ![b] = 2 * n]
    /\ holds' = [holds EXCEPT ![b] = c]

-----------------------------------------------------------------------------
(* Strings.  No guest code runs.                                           *)

TextFits(c) ==
    /\ HostRuns /\ Bytes[c] <= size[scratch]
    /\ holds' = [holds EXCEPT ![scratch] = c]
    /\ last' = [out |-> "text", got |-> c, own |-> c, needs |-> <<>>]
    /\ UNCHANGED <<scratch, size, calls>>

TextGrows(c, b) ==
    /\ HostRuns /\ Bytes[c] > size[scratch]
    /\ Allocate(b, Bytes[c], c)
    /\ last' = [out |-> "text", got |-> c, own |-> c, needs |-> <<>>]
    /\ UNCHANGED calls

(* Memory runs out in the first read or in the second.                     *)
TextFails ==
    /\ HostRuns
    /\ last' = [out |-> "error", got |-> NoContents, own |-> NoContents, needs |-> <<>>]
    /\ UNCHANGED <<scratch, size, holds, calls>>

TextGrowsFails(c, b) ==
    /\ HostRuns /\ Bytes[c] > size[scratch]
    /\ Allocate(b, Bytes[c], NoContents)
    /\ last' = [out |-> "error", got |-> NoContents, own |-> NoContents, needs |-> <<>>]
    /\ UNCHANGED calls

-----------------------------------------------------------------------------

keys ==
    /\ HostRuns /\ Len(calls) < MaxNesting
    /\ calls' = Append(calls, [buf |-> scratch, phase |-> "reading",
                               names |-> NoContents, needs |-> <<>>])
    /\ UNCHANGED <<scratch, size, holds, last>>

(* qjs_bun_own_keys: the names are copied when the trap has run.  What     *)
(* fits of too many names is copied as well.                               *)
ReadFits(c) ==
    /\ calls # <<>> /\ Innermost.phase = "reading" /\ Bytes[c] <= size[Innermost.buf]
    /\ holds' = [holds EXCEPT ![Innermost.buf] = c]
    /\ calls' = Append(Outer, [Innermost EXCEPT !.phase = "read", !.names = c])
    /\ UNCHANGED <<scratch, size, last>>

ReadShort(c) ==
    /\ calls # <<>> /\ Innermost.phase = "reading" /\ Bytes[c] > size[Innermost.buf]
    /\ holds' = [holds EXCEPT ![Innermost.buf] = NoContents]
    /\ calls' = Append(Outer, [Innermost EXCEPT !.phase = "short",
                                          !.needs = Append(@, Bytes[c])])
    /\ UNCHANGED <<scratch, size, last>>

(* The trap throws or is interrupted, the handle has been disposed, or     *)
(* memory runs out, possibly when some names have been copied.             *)
KeysFail(c) ==
    /\ calls # <<>> /\ Innermost.phase = "reading"
    /\ c \in {NoContents, holds[Innermost.buf]}
    /\ holds' = [holds EXCEPT ![Innermost.buf] = c]
    /\ last' = [out |-> "error", got |-> NoContents, own |-> NoContents, needs |-> <<>>]
    /\ calls' = Outer
    /\ UNCHANGED <<scratch, size>>

MayRetry == Len(Innermost.needs) <= Retries

Retry(b) ==
    /\ calls # <<>> /\ Innermost.phase = "short" /\ MayRetry
    /\ Allocate(b, Innermost.needs[Len(Innermost.needs)], NoContents)
    /\ calls' = Append(Outer, [Innermost EXCEPT !.buf = b, !.phase = "reading"])
    /\ UNCHANGED last

(* "QuickJS property names keep growing between reads"                     *)
GiveUp ==
    /\ calls # <<>> /\ Innermost.phase = "short" /\ ~MayRetry
    /\ last' = [out |-> "grows", got |-> NoContents, own |-> NoContents, needs |-> Innermost.needs]
    /\ calls' = Outer
    /\ UNCHANGED <<scratch, size, holds>>

(* The host has no memory for a larger buffer.                             *)
RetryFails ==
    /\ calls # <<>> /\ Innermost.phase = "short" /\ MayRetry
    /\ last' = [out |-> "error", got |-> NoContents, own |-> NoContents, needs |-> <<>>]
    /\ calls' = Outer
    /\ UNCHANGED <<scratch, size, holds>>

(* The names are decoded from the buffer that was read into.               *)
Decode_Shared ==
    /\ calls # <<>> /\ Innermost.phase = "read"
    /\ last' = [out |-> "names", got |-> holds[scratch], own |-> Innermost.names, needs |-> <<>>]
    /\ calls' = Outer
    /\ UNCHANGED <<scratch, size, holds>>

Decode ==
    /\ calls # <<>> /\ Innermost.phase = "read"
    /\ last' = [out |-> "names", got |-> holds[Innermost.buf], own |-> Innermost.names, needs |-> <<>>]
    /\ calls' = Outer
    /\ UNCHANGED <<scratch, size, holds>>

KeysNext ==
    \/ \E c \in Contents : TextFits(c) \/ ReadFits(c) \/ ReadShort(c)
    \/ \E c \in Contents, b \in Buffers : TextGrows(c, b) \/ TextGrowsFails(c, b)
    \/ TextFails \/ keys
    \/ \E c \in Contents \cup {NoContents} : KeysFail(c)
    \/ \E b \in Buffers : Retry(b)
    \/ RetryFails \/ GiveUp \/ Decode

KeysSpec == KeysInit /\ [][KeysNext]_keysVars

-----------------------------------------------------------------------------

(* Every variable has its type, and no call reads more often than it may.  *)
KeysTypeOK ==
    /\ scratch \in Buffers
    /\ size \in [Buffers -> Nat]
    /\ holds \in [Buffers -> Contents \cup {NoContents}]
    /\ calls \in Seq(Call)
    /\ last \in Ended
    /\ \A i \in 1..Len(calls) : Len(calls[i].needs) <= Retries + 1

(* keys and #text return what their own last read reported, whatever other *)
(* reads the trap made in the meantime, through the same buffer or after   *)
(* replacing it (the local scratch in JSValue.keys and JSValue.#text).     *)
ReturnsOwnRead == last.got = last.own

(* keys gives up only on an object that asked for more than twice as many  *)
(* bytes in every read as in the one before: names that were merely grown  *)
(* a little, or a scratch buffer that nested reads made smaller, do not    *)
(* make it fail (the loop in JSValue.keys).                                *)
GivesUpOnGrowth ==
    last.out = "grows" =>
        /\ Len(last.needs) = Retries + 1
        /\ \A i \in 1..Retries : last.needs[i + 1] > 2 * last.needs[i]

=============================================================================
