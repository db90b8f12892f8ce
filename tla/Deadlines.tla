----------------------------- MODULE Deadlines -----------------------------
(***************************************************************************)
(* Execution deadlines of one QuickJS runtime: the scopes that the native  *)
(* bridge opens around everything that can run guest code, the interrupt   *)
(* handler that the engine polls, and what becomes of an interrupt on its  *)
(* way back to the host program.                                           *)
(*                                                                         *)
(* Everything runs on one thread.  The state is the call stack, on which   *)
(* guest frames, deadline scopes and host (TypeScript) frames alternate,   *)
(* and the clock, which moves between any two steps.                       *)
(***************************************************************************)
EXTENDS Integers, Sequences, FiniteSets

CONSTANTS
    Contexts,     \* the contexts of the runtime
    Timeouts,     \* the timeoutMs values that calls are made with
    CounterInit,  \* JS_INTERRUPT_COUNTER_INIT
    MaxNow,       \* bound on the clock
    MaxDepth      \* bound on the call stack

ASSUME TimeoutsAssumption == Timeouts \subseteq Nat \ {0}
ASSUME CounterAssumption == CounterInit \in Nat /\ CounterInit > 2
ASSUME BoundsAssumption == MaxNow \in Nat /\ MaxDepth \in Nat

VARIABLES
    now,        \* the monotonic clock, in milliseconds
    deadline,   \* QJSBunRuntime.deadline_ms
    counter,    \* JSContext.interrupt_counter, for every context
    stack,      \* the call stack, innermost frame last
    mode,       \* what the innermost frame is about to do
    exc,        \* JSRuntime.current_exception and its uncatchable flag
    result,     \* how the last outermost operation ended
    unsettled,  \* history: the kinds of frame whose promise should have been
                \* rejected with an interrupt, and was left pending instead
    hot,        \* history: an interrupt fired and the deadline is still past
    passed      \* history: polls let through since then, for every context

vars == <<now, deadline, counter, stack, mode, exc, result, unsettled, hot, passed>>
history == <<unsettled, hot, passed>>

-----------------------------------------------------------------------------
(* Points in time: natural numbers and INFINITY.                           *)

Inf == -1
Time == Nat \cup {Inf}
Before(a, b) == a # Inf /\ (b = Inf \/ a < b)
Earlier(a, b) == IF Before(a, b) THEN a ELSE b

(* "uncatchable" is a fresh interrupt; JS_Throw of the same value clears   *)
(* the flag and leaves the catchable "interrupted".                        *)
Exceptions == {"none", "error", "oom", "timeout", "interrupted", "uncatchable"}
Thrown(e) == IF e = "uncatchable" THEN "interrupted" ELSE e
Interrupts == {"interrupted", "uncatchable"}

(* "call": eval, call, and every QJS_GUEST operation; "job": one pending   *)
(* job; "dump": JSContext.dump.  "iterate" is a builtin or a for-of loop   *)
(* over a guest iterator, "closing" while it closes that iterator;         *)
(* "reaction" becomes "settle" once its handler has been called.  "held"   *)
(* is an exception that a frame keeps: put aside, about to be passed to a  *)
(* reject function, or caught by a host function.                          *)
ScopeKinds == {"call", "job", "dump"}
BodyKinds == {"js", "async", "iterate"}
Kinds == ScopeKinds \cup BodyKinds \cup {"host", "reaction", "settle", "closing"}
Frame == [kind : Kinds, ctx : Contexts, saved : Time, own : Time, held : Exceptions]
Modes == {"run", "throw", "resume", "reject", "resolve"}

Top == stack[Len(stack)]
Below == SubSeq(stack, 1, Len(stack) - 1)
GuestFrame(k, c) == [kind |-> k, ctx |-> c, saved |-> Inf, own |-> Inf, held |-> "none"]
IsScope(f) == f.kind \in ScopeKinds

(* The host program runs at the bottom, in a host function, in a dump.     *)
TopKind == IF stack = <<>> THEN "program" ELSE Top.kind
HostRuns == mode = "run" /\ TopKind \in {"program", "host", "dump"}
Runs(kinds) == mode = "run" /\ TopKind \in kinds
Unwinds(kinds) == mode = "throw" /\ TopKind \in kinds
HasRoom == Len(stack) < MaxDepth

Expired(d) == ~Before(now, d)

Init ==
    /\ now = 0
    /\ deadline = Inf
    /\ counter = [c \in Contexts |-> CounterInit]
    /\ stack = <<>>
    /\ mode = "run"
    /\ exc = "none"
    /\ result = "none"
    /\ unsettled = {}
    /\ hot = FALSE
    /\ passed = [c \in Contexts |-> 0]

-----------------------------------------------------------------------------
(* Polling.                                                                *)

(* The handler: past the deadline every context of the runtime is left two *)
(* polls from the next interrupt.                                          *)
qjs_bun_interrupt_Short == [c \in Contexts |-> 1]
qjs_bun_interrupt_NoReset == [c \in Contexts |-> CounterInit]
qjs_bun_interrupt == [c \in Contexts |-> 2]

Fires(c) == counter[c] <= 1 /\ Expired(deadline)

(* A poll that does not interrupt: the counter goes down, or starts again  *)
(* because the handler found time left.                                    *)
PollPasses(c) ==
    /\ ~Fires(c)
    /\ counter' = [counter EXCEPT ![c] = IF @ > 1 THEN @ - 1 ELSE CounterInit]
    /\ passed' = IF hot THEN [passed EXCEPT ![c] = @ + 1] ELSE passed
    /\ UNCHANGED hot

PollFires_OneContext(c) ==
    /\ Fires(c)
    /\ counter' = [counter EXCEPT ![c] = 2]
    /\ hot' = TRUE
    /\ passed' = [x \in Contexts |-> 0]

PollFires(c) ==
    /\ Fires(c)
    /\ counter' = qjs_bun_interrupt
    /\ hot' = TRUE
    /\ passed' = [x \in Contexts |-> 0]

-----------------------------------------------------------------------------
(* Scopes.                                                                 *)

qjs_bun_enter_Overwrites(k, c, t) ==
    /\ stack' = Append(stack, [kind |-> k, ctx |-> c, saved |-> deadline,
                               own |-> now + t, held |-> "none"])
    /\ deadline' = now + t

qjs_bun_enter(k, c, t) ==
    LET own == now + t IN
    /\ stack' = Append(stack, [kind |-> k, ctx |-> c, saved |-> deadline,
                               own |-> own, held |-> "none"])
    /\ deadline' = Earlier(own, deadline)

(* The deadline goes back to what it was; history notes whether that is    *)
(* still in the past.                                                      *)
RestoreDeadline ==
    /\ deadline' = Top.saved
    /\ hot' = (hot /\ Expired(Top.saved))
    /\ passed' = IF hot' THEN passed ELSE [c \in Contexts |-> 0]

(* Whether a failing scope reports a timeout.                              *)
OwnExpired_Late == Before(Top.own, now)
OwnExpired == Expired(Top.own)

(* What the host sees of a failed scope: a TimeoutError when its own time  *)
(* is up (or the out-of-memory error met while making one), else the       *)
(* exception that the guest threw.                                         *)
Outcomes_Raw == {Thrown(exc)}
Outcomes == IF OwnExpired THEN {"timeout", "oom"} ELSE {Thrown(exc)}

(* The outcome reaches the host program, or the catch clause of a dump, or *)
(* a host function, which may keep the exception and throw it later.       *)
DeliverFailure(r) ==
    LET rest == Below
        into == IF rest = <<>> THEN "program" ELSE rest[Len(rest)].kind
    IN
    /\ stack' = IF into = "host" THEN [rest EXCEPT ![Len(rest)].held = r] ELSE rest
    /\ result' = IF into = "program" THEN r ELSE result
    /\ mode' = IF into = "dump" THEN "throw" ELSE "run"
    /\ exc' = IF into = "dump" THEN r ELSE "none"

DeliverSuccess ==
    /\ stack' = Below
    /\ result' = IF Below = <<>> THEN "none" ELSE result
    /\ UNCHANGED <<mode, exc>>

-----------------------------------------------------------------------------
(* The host program.                                                       *)

(* An evaluation, call or other guest operation; the clock bound keeps its *)
(* deadline within reach.                                                  *)
Call(c, t) ==
    /\ HostRuns /\ HasRoom /\ now + t <= MaxNow
    /\ qjs_bun_enter("call", c, t)
    /\ UNCHANGED <<now, counter, mode, exc, result, history>>

executePendingJob(c, t) ==
    /\ HostRuns /\ HasRoom /\ now + t <= MaxNow
    /\ TopKind # "dump"
    /\ qjs_bun_enter("job", c, t)
    /\ UNCHANGED <<now, counter, mode, exc, result, history>>

dump(c, t) ==
    /\ HostRuns /\ HasRoom /\ now + t <= MaxNow
    /\ TopKind # "dump"
    /\ qjs_bun_enter("dump", c, t)
    /\ UNCHANGED <<now, counter, mode, exc, result, history>>

(* qjs_bun_leave after success and after failure.                          *)
LeaveOk ==
    /\ Runs({"call", "job"})
    /\ RestoreDeadline
    /\ DeliverSuccess
    /\ UNCHANGED <<now, counter, unsettled>>

LeaveFailed ==
    /\ Unwinds({"call", "job"})
    /\ RestoreDeadline
    /\ \E r \in Outcomes : DeliverFailure(r)
    /\ UNCHANGED <<now, counter, unsettled>>

DumpOk ==
    /\ Runs({"dump"})
    /\ RestoreDeadline
    /\ DeliverSuccess
    /\ UNCHANGED <<now, counter, unsettled>>

(* maxDepth, maxNodes, or a value that cannot be dumped.                   *)
DumpThrow ==
    /\ Runs({"dump"})
    /\ mode' = "throw" /\ exc' = "error"
    /\ UNCHANGED <<now, deadline, counter, stack, result, history>>

DumpCatch ==
    /\ Unwinds({"dump"})
    /\ RestoreDeadline
    /\ \E r \in Outcomes : DeliverFailure(r)
    /\ UNCHANGED <<now, counter, unsettled>>

(* A host function returns, whatever its own calls met: it may have caught *)
(* an interrupt.                                                           *)
HostReturn ==
    /\ Runs({"host"})
    /\ stack' = Below
    /\ UNCHANGED <<now, deadline, counter, mode, exc, result, history>>

(* A host function throws: an error of its own, the exception that it kept *)
(* as the very same guest value, or whatever the failed conversion of      *)
(* either leaves.                                                          *)
HostThrow ==
    /\ Runs({"host"})
    /\ stack' = Below
    /\ mode' = "throw"
    /\ exc' \in {"error", "oom", Thrown(Top.held)} \ {"none"}
    /\ UNCHANGED <<now, deadline, counter, result, history>>

-----------------------------------------------------------------------------
(* The engine.  A call polls in the caller's context before it runs.       *)

Callers == {"call", "job", "reaction"} \cup BodyKinds

(* A reaction calls its handler once.                                      *)
Calling == IF Top.kind = "reaction"
           THEN Append(Below, [Top EXCEPT !.kind = "settle"])
           ELSE stack

CallPasses(k) ==
    /\ Runs(Callers) /\ HasRoom
    /\ PollPasses(Top.ctx)
    /\ stack' = Append(Calling, GuestFrame(k, Top.ctx))
    /\ mode' = IF k = "async" THEN "resume" ELSE "run"
    /\ UNCHANGED <<now, deadline, exc, result, unsettled>>

CallFires ==
    /\ Runs(Callers)
    /\ PollFires(Top.ctx)
    /\ stack' = Calling
    /\ mode' = "throw" /\ exc' = "uncatchable"
    /\ UNCHANGED <<now, deadline, result, unsettled>>

(* The first step of a promise job is not a call.                          *)
StartReaction ==
    /\ Runs({"job"}) /\ HasRoom
    /\ stack' = Append(stack, GuestFrame("reaction", Top.ctx))
    /\ UNCHANGED <<now, deadline, counter, mode, exc, result, history>>

(* Loop back-edges, and the polls of long-running builtins.                *)
LoopPasses ==
    /\ Runs(BodyKinds)
    /\ PollPasses(Top.ctx)
    /\ UNCHANGED <<now, deadline, stack, mode, exc, result, unsettled>>

LoopFires ==
    /\ Runs(BodyKinds)
    /\ PollFires(Top.ctx)
    /\ mode' = "throw" /\ exc' = "uncatchable"
    /\ UNCHANGED <<now, deadline, stack, result, unsettled>>

(* An async body that starts or resumes polls once more.                   *)
ResumePasses ==
    /\ mode = "resume"
    /\ PollPasses(Top.ctx)
    /\ mode' = "run"
    /\ UNCHANGED <<now, deadline, stack, exc, result, unsettled>>

ResumeFires ==
    /\ mode = "resume"
    /\ PollFires(Top.ctx)
    /\ mode' = "throw" /\ exc' = "uncatchable"
    /\ UNCHANGED <<now, deadline, stack, result, unsettled>>

Return ==
    /\ Runs({"js", "iterate"})
    /\ stack' = Below
    /\ UNCHANGED <<now, deadline, counter, mode, exc, result, history>>

Throw ==
    /\ Runs({"call", "job"} \cup BodyKinds)
    /\ mode' = "throw" /\ exc' = "error"
    /\ UNCHANGED <<now, deadline, counter, stack, result, history>>

(* catch and finally clauses, which an uncatchable exception skips.        *)
Catch ==
    /\ Unwinds({"js", "async"})
    /\ exc # "uncatchable"
    /\ mode' = "run" /\ exc' = "none"
    /\ UNCHANGED <<now, deadline, counter, stack, result, history>>

Unwind ==
    /\ Unwinds({"js", "iterate"})
    /\ stack' = Below
    /\ UNCHANGED <<now, deadline, counter, mode, exc, result, history>>

(* JS_IteratorClose with an exception pending: the exception is put aside  *)
(* while the guest's return() runs, and thrown again, now catchable,       *)
(* whatever that did.                                                      *)
ClosePasses ==
    /\ Unwinds({"iterate"}) /\ HasRoom
    /\ PollPasses(Top.ctx)
    /\ stack' = Append(Append(Below, [Top EXCEPT !.kind = "closing", !.held = exc]),
                       GuestFrame("js", Top.ctx))
    /\ mode' = "run" /\ exc' = "none"
    /\ UNCHANGED <<now, deadline, result, unsettled>>

CloseFires ==
    /\ Unwinds({"iterate"})
    /\ PollFires(Top.ctx)
    /\ stack' = Below
    /\ exc' = Thrown(exc)
    /\ UNCHANGED <<now, deadline, mode, result, unsettled>>

CloseDone ==
    /\ Runs({"closing"}) \/ Unwinds({"closing"})
    /\ stack' = Below
    /\ mode' = "throw" /\ exc' = Thrown(Top.held)
    /\ UNCHANGED <<now, deadline, counter, result, history>>

-----------------------------------------------------------------------------
(* Promises of async bodies and of promise jobs.                           *)

(* The body has thrown: the exception is taken, to be passed to the reject *)
(* function.                                                               *)
TakeException ==
    /\ Unwinds({"async", "reaction", "settle"})
    /\ stack' = Append(Below, [Top EXCEPT !.held = exc])
    /\ mode' = "reject" /\ exc' = "none"
    /\ UNCHANGED <<now, deadline, counter, result, history>>

(* The body has returned; the handler has, or there is none.               *)
CompleteBody ==
    /\ Runs({"async"})
    /\ mode' = "resolve"
    /\ UNCHANGED <<now, deadline, counter, stack, exc, result, history>>

CompleteReaction ==
    /\ Runs({"reaction", "settle"})
    /\ mode' = "resolve"
    /\ UNCHANGED <<now, deadline, counter, stack, exc, result, history>>

(* The reaction that resumes an await has no promise of its own: what its  *)
(* handler returned or threw is dropped.                                   *)
DropReaction ==
    /\ Runs({"settle"}) \/ Unwinds({"settle"})
    /\ stack' = Below
    /\ mode' = "run" /\ exc' = "none"
    /\ UNCHANGED <<now, deadline, counter, result, history>>

(* await: wrapping the awaited value may take a call, whose interrupt is   *)
(* the body's; otherwise the body suspends.                                *)
AwaitSuspends ==
    /\ Runs({"async"})
    /\ PollPasses(Top.ctx)
    /\ stack' = Below
    /\ UNCHANGED <<now, deadline, mode, exc, result, unsettled>>

AwaitFires ==
    /\ Runs({"async"})
    /\ PollFires(Top.ctx)
    /\ stack' = Append(Below, [Top EXCEPT !.held = "uncatchable"])
    /\ mode' = "reject" /\ exc' = "none"
    /\ UNCHANGED <<now, deadline, result, unsettled>>

(* The reject or resolve function is called like any other, with a poll.   *)
SettlePasses ==
    /\ mode \in {"reject", "resolve"}
    /\ PollPasses(Top.ctx)
    /\ stack' = Below
    /\ mode' = "run"
    /\ UNCHANGED <<now, deadline, exc, result, unsettled>>

(* The call is interrupted and the promise stays pending.  An async body   *)
(* ignores the failure, which is left behind as the current exception; a   *)
(* promise job fails with it.                                              *)
SettleFires ==
    /\ mode \in {"reject", "resolve"}
    /\ PollFires(Top.ctx)
    /\ stack' = Below
    /\ mode' = IF Top.kind = "async" THEN "run" ELSE "throw"
    /\ exc' = "uncatchable"
    /\ unsettled' = IF mode = "reject" /\ Top.held \in Interrupts
                    THEN unsettled \cup {<<Top.kind, Top.held>>}
                    ELSE unsettled
    /\ UNCHANGED <<now, deadline, result>>

-----------------------------------------------------------------------------

Tick ==
    /\ now < MaxNow
    /\ now' = now + 1
    /\ UNCHANGED <<deadline, counter, stack, mode, exc, result, history>>

Host ==
    \/ \E c \in Contexts, t \in Timeouts : Call(c, t) \/ executePendingJob(c, t) \/ dump(c, t)
    \/ DumpThrow \/ HostThrow

HostFinishes == DumpOk \/ DumpCatch \/ HostReturn

Guest ==
    \/ \E k \in {"js", "async", "iterate", "host"} : CallPasses(k)
    \/ CallFires \/ LoopPasses \/ LoopFires
    \/ Return \/ Throw \/ Catch
    \/ StartReaction \/ CompleteBody \/ AwaitSuspends \/ AwaitFires

(* What native code goes on to do by itself.                               *)
Engine ==
    \/ LeaveOk \/ LeaveFailed \/ Unwind
    \/ ClosePasses \/ CloseFires \/ CloseDone
    \/ ResumePasses \/ ResumeFires
    \/ TakeException \/ CompleteReaction \/ DropReaction
    \/ SettlePasses \/ SettleFires

Next == Tick \/ Host \/ HostFinishes \/ Guest \/ Engine

Spec == Init /\ [][Next]_vars

(* A body at depth d that runs for ever without being left takes a loop    *)
(* back-edge, and polls there, for ever: straight-line code is finite.     *)
LoopsOrEnds(d) ==
    /\ Len(stack) = d
    /\ LoopPasses \/ LoopFires \/ (Next /\ Len(stack') < d)

(* The clock advances, the engine runs, host code finishes; of guest code  *)
(* nothing is assumed but that it is a finite program.                     *)
Fairness ==
    /\ WF_vars(Tick)
    /\ WF_vars(HostFinishes)
    /\ WF_vars(Engine)
    /\ \A d \in 1..MaxDepth : SF_vars(LoopsOrEnds(d))

FairSpec == Spec /\ Fairness

-----------------------------------------------------------------------------

(* Every variable has its type, and the modes that settle a promise are    *)
(* met in frames that have one.                                            *)
TypeOK ==
    /\ now \in 0..MaxNow
    /\ deadline \in Time
    /\ counter \in [Contexts -> 1..CounterInit]
    /\ stack \in Seq(Frame)
    /\ mode \in Modes
    /\ exc \in Exceptions
    /\ result \in Exceptions
    /\ unsettled \subseteq Kinds \X Interrupts
    /\ hot \in BOOLEAN
    /\ passed \in [Contexts -> Nat]
    /\ mode \in {"reject", "resolve"} => TopKind \in {"async", "reaction", "settle"}
    /\ mode = "resume" => TopKind = "async"
    /\ mode = "throw" => stack # <<>>

(* d is the earliest of the deadlines of the scopes among the n outermost  *)
(* frames of stack s, INFINITY when there is none.                         *)
Tightest(d, s, n) ==
    /\ \A i \in 1..n : IsScope(s[i]) => ~Before(s[i].own, d)
    /\ d # Inf => \E i \in 1..n : IsScope(s[i]) /\ s[i].own = d

(* However calls, host functions, jobs and dumps nest and fail, the        *)
(* runtime's deadline is the tightest among the scopes still open, and     *)
(* there is none when none is open (qjs_bun_enter, qjs_bun_leave,          *)
(* qjs_bun_leave_scope).                                                   *)
DeadlineIsTightest == Tightest(deadline, stack, Len(stack))

(* Once an interrupt has fired, and as long as the deadline stays past,    *)
(* at most one poll of each context gets through before the next one       *)
(* fires: no async body and no host function that swallows interrupts      *)
(* keeps the guest running (qjs_bun_interrupt).                            *)
SecondPollFires == hot => \A c \in Contexts : passed[c] <= 1

(* An async body or promise job that an interrupt cut short has its        *)
(* promise rejected: the one poll that qjs_bun_interrupt leaves is that of *)
(* the call of the reject function.                                        *)
CutBodyRejects == \A u \in unsettled : u[2] # "uncatchable"

(* README: code interrupted inside an async function surfaces as a         *)
(* rejected promise.  Unlike CutBodyRejects this includes an interrupt     *)
(* that became catchable on its way to the async function.                 *)
InterruptedBodyRejects == \A u \in unsettled : u[1] # "async"

(* Some scope among the n outermost frames of s is past its own deadline.  *)
SomeExpired(s, n) == \E i \in 1..n : IsScope(s[i]) /\ Expired(s[i].own)

(* A host function that holds the engine's raw "interrupted" error was     *)
(* called under a deadline that has passed: a call whose own time is up    *)
(* reports a TimeoutError instead (qjs_bun_leave, JSContext.dump).         *)
RawInterruptIsOuter ==
    \A i \in 1..Len(stack) :
        stack[i].kind = "host" /\ stack[i].held \in Interrupts => SomeExpired(stack, i - 1)

(* No outermost operation ends with the raw "interrupted" error: what the  *)
(* program sees of an interrupt is a TimeoutError (or out of memory).      *)
NoRawInterruptOutside == result \notin Interrupts

(* Every operation ends, however the guest loops, catches, swallows and    *)
(* re-enters, provided that host code itself finishes.                     *)
OperationsEnd == []<>(stack = <<>>)

=============================================================================
