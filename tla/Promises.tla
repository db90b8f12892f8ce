------------------------------ MODULE Promises ------------------------------
(***************************************************************************)
(* The promises and the job queue of one runtime: newPromise (Deferred),   *)
(* the resolving functions, then, reaction jobs, promises and other        *)
(* thenables that a promise is resolved with, host jobs (enqueueJob),      *)
(* executePendingJob(s) and the host's rejection tracker.                  *)
(*                                                                         *)
(* "Code" is guest or host code: it runs when the program makes a call, as *)
(* the handler of a reaction, as the then of a thenable or the getter of   *)
(* its then, as a host job and as the tracker, and wherever it runs it may *)
(* do everything again.                                                    *)
(***************************************************************************)
EXTENDS Integers, Sequences, FiniteSets, SequencesExt

CONSTANTS
    Values,        \* values that are not objects, and reasons
    HandlerSets,   \* for which outcomes a then may bring a handler
    MaxMade,       \* bound on the promises and the host jobs that are made
    MaxCaps,       \* bound on the pairs of resolving functions
    MaxDepth       \* bound on the nesting of code

ASSUME BoundsAssumption ==
    MaxMade \in Nat /\ MaxCaps \in Nat /\ MaxDepth \in Nat
ASSUME ValuesAssumption == {"TypeError", "object", "none"} \cap Values = {}
ASSUME HandlersAssumption == HandlerSets \subseteq SUBSET {"fulfilled", "rejected"}

VARIABLES
    promises,      \* every JSPromiseData
    caps,          \* every pair of resolving functions
    reacts,        \* every reaction (the two JSPromiseReactionData of a then)
    jobs,          \* rt->job_list
    stk,           \* the code that runs, innermost last
    tracker,       \* whether a rejection tracker is set
    hostJobs       \* how often enqueueJob was called

vars == <<promises, caps, reacts, jobs, stk, tracker, hostJobs>>

-----------------------------------------------------------------------------
(* State.                                                                  *)

(* JSPromiseData, what the tracker was told (isHandled) and, for all that  *)
(* was registered on the promise, in which order, and what of it ran.      *)
NewPromise ==
    [state |-> "pending", result |-> "none", is_handled |-> FALSE, reactions |-> <<>>,
     reports |-> <<>>, registered |-> <<>>, ran |-> <<>>]

(* js_create_resolving_functions: the two functions share already_resolved. *)
(* hidden: only the engine has them.  got is what they were called with    *)
(* first.                                                                  *)
js_create_resolving_functions(p, hidden) ==
    [p |-> p, already_resolved |-> FALSE, hidden |-> hidden, got |-> <<>>]

(* A reaction on a promise: for which outcomes it has a handler, and the   *)
(* functions that the outcome is passed to.                                *)
Reaction(p, handlers, c) == [on |-> p, handlers |-> handlers, cap |-> c]

(* What a promise is resolved with.                                        *)
Plain(v) == <<"plain", v>>
OtherPromise(q) == <<"promise", q>>
Object == <<"object", "object">>   \* another one, whose then is code
(* The result of a promise, passed on to another one.                      *)
PassedOn(v) == IF v = "object" THEN Object ELSE Plain(v)

Settled(p) == promises[p].state # "pending"

(* Frames: "executePendingJobs"; "handler", "then" and "job" are code that *)
(* a job calls, with the functions its outcome goes to; "getter" reads the *)
(* then of an object that the functions were called with; "tracker" is the *)
(* host's callback, about a promise that is being rejected (react = 0) or  *)
(* to which a reaction is being added.                                     *)
CodeFrame(op, c) == [op |-> op, cap |-> c, p |-> 0, react |-> 0]
TrackerFrame(p, r) == [op |-> "tracker", cap |-> 0, p |-> p, react |-> r]

Top == stk[Len(stk)]
Is(op) == stk # <<>> /\ Top.op = op
Pop == SubSeq(stk, 1, Len(stk) - 1)
Caller == IF Len(stk) > 1 THEN stk[Len(stk) - 1].op ELSE "program"

CodeRuns == stk # <<>> => Top.op # "executePendingJobs"
HasRoom == Len(stk) < MaxDepth
MayMake == Len(promises) + hostJobs < MaxMade

Init ==
    /\ promises = <<>>
    /\ caps = <<>>
    /\ reacts = <<>>
    /\ jobs = <<>>
    /\ stk = <<>>
    /\ tracker = FALSE
    /\ hostJobs = 0

-----------------------------------------------------------------------------
(* Settling a promise.  ps and js are the promises and the jobs so far,    *)
(* base is the stack that the caller goes on with.                         *)

ReactionJob(r) == <<"reaction", r>>
ThenableJob(p, res) == <<"thenable", p, res>>
HostJob == <<"host">>

(* Mutant: a rejection is reported though it is handled.                   *)
fulfill_or_reject_promise_Always(ps, js, p, state, v, base) ==
    LET settled == [ps EXCEPT ![p].state = state, ![p].result = v]
        report == state = "rejected" /\ tracker
        list == ps[p].reactions
    IN
    \/ /\ ps[p].state = "pending" /\ report
       /\ promises' = [settled EXCEPT ![p].reports = Append(@, FALSE)]
       /\ jobs' = js
       /\ stk' = Append(base, TrackerFrame(p, 0))
    \/ /\ ps[p].state = "pending" /\ ~report
       /\ promises' = [settled EXCEPT ![p].reactions = <<>>]
       /\ jobs' = js \o [k \in DOMAIN list |-> ReactionJob(list[k])]
       /\ stk' = base

(* fulfill_or_reject_promise: a rejection that nobody handles is reported  *)
(* first; then the reactions become jobs.  OneWayToSettle shows that the     *)
(* promise is always pending here.                                         *)
fulfill_or_reject_promise(ps, js, p, state, v, base) ==
    LET settled == [ps EXCEPT ![p].state = state, ![p].result = v]
        report == state = "rejected" /\ ~ps[p].is_handled /\ tracker
        list == ps[p].reactions
    IN
    \/ /\ ps[p].state = "pending" /\ report
       /\ promises' = [settled EXCEPT ![p].reports = Append(@, FALSE)]
       /\ jobs' = js
       /\ stk' = Append(base, TrackerFrame(p, 0))
    \/ /\ ps[p].state = "pending" /\ ~report
       /\ promises' = [settled EXCEPT ![p].reactions = <<>>]
       /\ jobs' = js \o [k \in DOMAIN list |-> ReactionJob(list[k])]
       /\ stk' = base

(* Mutant: already_resolved is not looked at.                              *)
js_promise_resolve_function_call_Again(ps, js, c, is_reject, res, base) ==
    LET p == caps[c].p IN
    /\ caps' = [caps EXCEPT ![c].already_resolved = TRUE,
                            ![c].got = IF @ = <<>> THEN <<is_reject, res>> ELSE @]
    /\ \/ /\ is_reject \/ res = OtherPromise(p)
          /\ fulfill_or_reject_promise(ps, js, p, "rejected", res[2], base)
       \/ /\ ~is_reject /\ res[1] = "plain"
          /\ fulfill_or_reject_promise(ps, js, p, "fulfilled", res[2], base)
       \/ /\ ~is_reject /\ res[1] = "promise" /\ res # OtherPromise(p)
          /\ jobs' = Append(js, ThenableJob(p, res))
          /\ promises' = ps /\ stk' = base
       \/ /\ ~is_reject /\ res = Object
          /\ stk' = Append(base, CodeFrame("getter", c))
          /\ promises' = ps /\ jobs' = js

(* js_promise_resolve_function_call: only the first call counts.  Reading  *)
(* the then of an object runs code, unless it is a promise.                *)
js_promise_resolve_function_call(ps, js, c, is_reject, res, base) ==
    LET p == caps[c].p IN
    \/ /\ caps[c].already_resolved
       /\ promises' = ps /\ jobs' = js /\ stk' = base
       /\ UNCHANGED caps
    \/ /\ ~caps[c].already_resolved
       /\ caps' = [caps EXCEPT ![c].already_resolved = TRUE, ![c].got = <<is_reject, res>>]
       /\ \/ /\ is_reject
             /\ fulfill_or_reject_promise(ps, js, p, "rejected", res[2], base)
          \/ /\ ~is_reject /\ res[1] = "plain"
             /\ fulfill_or_reject_promise(ps, js, p, "fulfilled", res[2], base)
          \/ /\ ~is_reject /\ res = OtherPromise(p)
             /\ fulfill_or_reject_promise(ps, js, p, "rejected", "TypeError", base)
          \/ /\ ~is_reject /\ res[1] = "promise" /\ res # OtherPromise(p)
             /\ jobs' = Append(js, ThenableJob(p, res))
             /\ promises' = ps /\ stk' = base
          \/ /\ ~is_reject /\ res = Object
             /\ stk' = Append(base, CodeFrame("getter", c))
             /\ promises' = ps /\ jobs' = js

(* perform_promise_then: reaction r is added to promise p.  If p was       *)
(* reported, the tracker hears that it is handled now, before the job is   *)
(* made and is_handled is set.                                             *)
Added(ps, p, r) == [ps EXCEPT ![p].is_handled = TRUE, ![p].registered = Append(@, r)]

(* Mutant: the last reaction that is added becomes the first of the list.  *)
perform_promise_then_Front(ps, js, p, r, base) ==
    LET report == ps[p].state = "rejected" /\ ~ps[p].is_handled /\ tracker IN
    \/ /\ ps[p].state = "pending"
       /\ promises' = [Added(ps, p, r) EXCEPT ![p].reactions = <<r>> \o @]
       /\ jobs' = js /\ stk' = base
    \/ /\ ps[p].state # "pending" /\ report
       /\ promises' = [ps EXCEPT ![p].reports = Append(@, TRUE)]
       /\ jobs' = js
       /\ stk' = Append(base, TrackerFrame(p, r))
    \/ /\ ps[p].state # "pending" /\ ~report
       /\ promises' = Added(ps, p, r)
       /\ jobs' = Append(js, ReactionJob(r))
       /\ stk' = base

perform_promise_then(ps, js, p, r, base) ==
    LET report == ps[p].state = "rejected" /\ ~ps[p].is_handled /\ tracker IN
    \/ /\ ps[p].state = "pending"
       /\ promises' = [Added(ps, p, r) EXCEPT ![p].reactions = Append(@, r)]
       /\ jobs' = js /\ stk' = base
    \/ /\ ps[p].state # "pending" /\ report
       /\ promises' = [ps EXCEPT ![p].reports = Append(@, TRUE)]
       /\ jobs' = js
       /\ stk' = Append(base, TrackerFrame(p, r))
    \/ /\ ps[p].state # "pending" /\ ~report
       /\ promises' = Added(ps, p, r)
       /\ jobs' = Append(js, ReactionJob(r))
       /\ stk' = base

-----------------------------------------------------------------------------
(* What code does.                                                         *)

(* setPromiseRejectionTracker, called before guest code runs.              *)
setPromiseRejectionTracker(set) ==
    /\ promises = <<>>
    /\ tracker' = set
    /\ UNCHANGED <<promises, caps, reacts, jobs, stk, hostJobs>>

newPromise ==
    /\ CodeRuns /\ MayMake
    /\ promises' = Append(promises, NewPromise)
    /\ caps' = Append(caps, js_create_resolving_functions(Len(promises) + 1, FALSE))
    /\ UNCHANGED <<reacts, jobs, stk, tracker, hostJobs>>

(* A thenable will need resolving functions of its own.                    *)
MoreCaps ==
    Len(caps) + Cardinality({k \in DOMAIN jobs : jobs[k][1] = "thenable"})
              + Cardinality({k \in DOMAIN stk : stk[k].op = "getter"}) < MaxCaps

Resolutions ==
    {Plain(v) : v \in Values}
    \cup (IF MoreCaps THEN {OtherPromise(q) : q \in DOMAIN promises} \cup {Object} ELSE {})

(* Deferred.resolve and Deferred.reject, and the guest's calls of the      *)
(* functions it was given, as often as it likes.                           *)
resolve(c, res) ==
    /\ CodeRuns /\ ~caps[c].hidden /\ (tracker \/ res = Object => HasRoom)
    /\ js_promise_resolve_function_call(promises, jobs, c, FALSE, res, stk)
    /\ UNCHANGED <<reacts, tracker, hostJobs>>

reject(c, v) ==
    /\ CodeRuns /\ ~caps[c].hidden /\ (tracker => HasRoom)
    /\ js_promise_resolve_function_call(promises, jobs, c, TRUE, Plain(v), stk)
    /\ UNCHANGED <<reacts, tracker, hostJobs>>

(* js_promise_then: the promise it returns is settled by the reaction.     *)
then(p, handlers) ==
    LET r == Len(reacts) + 1
        c == Len(caps) + 1
        q == Len(promises) + 1
    IN
    /\ CodeRuns /\ MayMake /\ (tracker => HasRoom)
    /\ caps' = Append(caps, js_create_resolving_functions(q, TRUE))
    /\ reacts' = Append(reacts, Reaction(p, handlers, c))
    /\ perform_promise_then(Append(promises, NewPromise), jobs, p, r, stk)
    /\ UNCHANGED <<tracker, hostJobs>>

enqueueJob ==
    /\ CodeRuns /\ MayMake
    /\ jobs' = Append(jobs, HostJob)
    /\ hostJobs' = hostJobs + 1
    /\ UNCHANGED <<promises, caps, reacts, stk, tracker>>

-----------------------------------------------------------------------------
(* Jobs: one executePendingJob of the host, or one turn of the loop of     *)
(* executePendingJobs.  The job leaves the queue before it runs.           *)

(* Where there is no job, executePendingJobs does nothing.                 *)
executePendingJobs ==
    /\ CodeRuns /\ HasRoom /\ jobs # <<>>
    /\ stk' = Append(stk, CodeFrame("executePendingJobs", 0))
    /\ UNCHANGED <<promises, caps, reacts, jobs, tracker, hostJobs>>

executePendingJobsReturns ==
    /\ Is("executePendingJobs") /\ jobs = <<>>
    /\ stk' = Pop
    /\ UNCHANGED <<promises, caps, reacts, jobs, tracker, hostJobs>>

MayRun(kind) == jobs # <<>> /\ Head(jobs)[1] = kind /\ (CodeRuns => HasRoom)

(* promise_reaction_job: a handler is called, or the outcome is passed on. *)
promise_reaction_job ==
    LET r == Head(jobs)[2]
        p == reacts[r].on
        c == reacts[r].cap
        ps == [promises EXCEPT ![p].ran = Append(@, r)]
        is_reject == promises[p].state = "rejected"
    IN
    /\ MayRun("reaction")
    /\ \/ /\ promises[p].state \in reacts[r].handlers
          /\ promises' = ps
          /\ jobs' = Tail(jobs)
          /\ stk' = Append(stk, CodeFrame("handler", c))
          /\ UNCHANGED caps
       \/ /\ promises[p].state \notin reacts[r].handlers
          /\ js_promise_resolve_function_call(
                ps, Tail(jobs), c, is_reject, PassedOn(promises[p].result), stk)
    /\ UNCHANGED <<reacts, tracker, hostJobs>>

(* js_promise_resolve_thenable_job: then is called with new functions for  *)
(* the promise.  The then of a promise adds a reaction that passes the     *)
(* outcome on; what it returns nobody sees.                                *)
js_promise_resolve_thenable_job ==
    LET p == Head(jobs)[2]
        res == Head(jobs)[3]
        c == Len(caps) + 1
        r == Len(reacts) + 1
    IN
    /\ MayRun("thenable")
    /\ caps' = Append(caps, js_create_resolving_functions(p, res # Object))
    /\ \/ /\ res = Object
          /\ jobs' = Tail(jobs)
          /\ stk' = Append(stk, CodeFrame("then", c))
          /\ UNCHANGED <<promises, reacts>>
       \/ /\ res # Object
          /\ reacts' = Append(reacts, Reaction(res[2], {}, c))
          /\ perform_promise_then(promises, Tail(jobs), res[2], r, stk)
    /\ UNCHANGED <<tracker, hostJobs>>

qjs_bun_job ==
    /\ MayRun("host")
    /\ jobs' = Tail(jobs)
    /\ stk' = Append(stk, CodeFrame("job", 0))
    /\ UNCHANGED <<promises, caps, reacts, tracker, hostJobs>>

-----------------------------------------------------------------------------
(* Code ends.                                                              *)

(* The outcome of a handler goes to the functions of its reaction.         *)
handlerReturns(res) ==
    /\ Is("handler")
    /\ js_promise_resolve_function_call(promises, jobs, Top.cap, FALSE, res, Pop)
    /\ UNCHANGED <<reacts, tracker, hostJobs>>

(* Mutant: a handler that is interrupted leaves its promise as it is.      *)
handlerThrows_Lost(v) ==
    /\ Is("handler")
    /\ stk' = Pop
    /\ UNCHANGED <<promises, caps, reacts, jobs, tracker, hostJobs>>

(* It throws, or is interrupted at its deadline.                           *)
handlerThrows(v) ==
    /\ Is("handler")
    /\ js_promise_resolve_function_call(promises, jobs, Top.cap, TRUE, Plain(v), Pop)
    /\ UNCHANGED <<reacts, tracker, hostJobs>>

(* The then of an object is no function, or is one, or reading it throws.  *)
(* A thenable needs functions: where the bound leaves none, it is not one. *)
getterReturnsNone ==
    LET p == caps[Top.cap].p IN
    /\ Is("getter")
    /\ fulfill_or_reject_promise(promises, jobs, p, "fulfilled", "object", Pop)
    /\ UNCHANGED <<caps, reacts, tracker, hostJobs>>

getterReturnsThen ==
    LET p == caps[Top.cap].p IN
    /\ Is("getter") /\ Len(caps) < MaxCaps
    /\ jobs' = Append(jobs, ThenableJob(p, Object))
    /\ stk' = Pop
    /\ UNCHANGED <<promises, caps, reacts, tracker, hostJobs>>

getterThrows(v) ==
    LET p == caps[Top.cap].p IN
    /\ Is("getter")
    /\ fulfill_or_reject_promise(promises, jobs, p, "rejected", v, Pop)
    /\ UNCHANGED <<caps, reacts, tracker, hostJobs>>

(* What the then of a thenable throws rejects, if nothing was resolved.    *)
thenReturns ==
    /\ Is("then")
    /\ stk' = Pop
    /\ UNCHANGED <<promises, caps, reacts, jobs, tracker, hostJobs>>

thenThrows(v) ==
    /\ Is("then")
    /\ js_promise_resolve_function_call(promises, jobs, Top.cap, TRUE, Plain(v), Pop)
    /\ UNCHANGED <<reacts, tracker, hostJobs>>

jobReturns ==
    /\ Is("job")
    /\ stk' = Pop
    /\ UNCHANGED <<promises, caps, reacts, jobs, tracker, hostJobs>>

(* A host job that throws also ends the executePendingJobs that ran it.    *)
jobThrows ==
    /\ Is("job")
    /\ stk' = IF Caller = "executePendingJobs" THEN SubSeq(stk, 1, Len(stk) - 2) ELSE Pop
    /\ UNCHANGED <<promises, caps, reacts, jobs, tracker, hostJobs>>

(* Mutant: perform_promise_then forgets the job.                           *)
trackerReturns_NoJob ==
    LET p == Top.p IN
    /\ Is("tracker")
    /\ stk' = Pop
    /\ promises' = IF Top.react = 0 THEN promises ELSE Added(promises, p, Top.react)
    /\ UNCHANGED <<caps, reacts, jobs, tracker, hostJobs>>

(* The tracker returns (#trackRejection swallows what it throws), and      *)
(* fulfill_or_reject_promise or perform_promise_then goes on.              *)
trackerReturns ==
    LET p == Top.p
        list == promises[p].reactions
    IN
    /\ Is("tracker")
    /\ stk' = Pop
    /\ \/ /\ Top.react = 0
          /\ promises' = [promises EXCEPT ![p].reactions = <<>>]
          /\ jobs' = jobs \o [k \in DOMAIN list |-> ReactionJob(list[k])]
       \/ /\ Top.react # 0
          /\ promises' = Added(promises, p, Top.react)
          /\ jobs' = Append(jobs, ReactionJob(Top.react))
    /\ UNCHANGED <<caps, reacts, tracker, hostJobs>>

-----------------------------------------------------------------------------

Code ==
    \/ \E set \in BOOLEAN : setPromiseRejectionTracker(set)
    \/ newPromise
    \/ \E c \in DOMAIN caps :
          \/ \E res \in Resolutions : resolve(c, res)
          \/ \E v \in Values : reject(c, v)
    \/ \E p \in DOMAIN promises, handlers \in HandlerSets : then(p, handlers)
    \/ enqueueJob

Run ==
    \/ executePendingJobs \/ executePendingJobsReturns
    \/ promise_reaction_job \/ js_promise_resolve_thenable_job \/ qjs_bun_job

Return ==
    \/ \E res \in Resolutions : handlerReturns(res)
    \/ \E v \in Values : handlerThrows(v) \/ thenThrows(v) \/ getterThrows(v)
    \/ getterReturnsNone \/ getterReturnsThen \/ thenReturns \/ jobReturns \/ jobThrows \/ trackerReturns

Next == Code \/ Run \/ Return

Spec == Init /\ [][Next]_vars

(* The host runs the jobs while there are any, and code that was called    *)
(* returns: its deadline sees to it.                                       *)
FairSpec == Spec /\ WF_vars(Run \/ Return)

-----------------------------------------------------------------------------
(* Properties.                                                             *)

(* A promise ends as the first call of its resolving functions says,       *)
(* whatever is called later and however many steps it takes: with the      *)
(* value or the reason, or, if it was resolved with a promise, as that one *)
(* did (an object that one has is read again) and not before it.           *)
OutcomeOfFirstCall ==
    \A c \in DOMAIN caps : caps[c].already_resolved =>
        LET p == promises[caps[c].p]
            is_reject == caps[c].got[1]
            res == caps[c].got[2]
        IN  CASE is_reject -> p.state = "rejected" /\ p.result = res[2]
              [] ~is_reject /\ res[1] = "plain" -> p.state = "fulfilled" /\ p.result = res[2]
              [] ~is_reject /\ res = OtherPromise(caps[c].p) -> p.state = "rejected"
              [] ~is_reject /\ res[1] = "promise" /\ res[2] # caps[c].p ->
                    p.state # "pending" => LET q == promises[res[2]] IN
                        q.state # "pending" /\ (q.result # "object" =>
                            p.state = q.state /\ p.result = q.result)
              [] OTHER -> TRUE

(* The reactions of a promise run in the order in which they were added,   *)
(* each once, whether they were added before or after it was settled and   *)
(* from wherever the jobs are run.                                         *)
ReactionsRunInOrder ==
    \A p \in DOMAIN promises :
        /\ IsPrefix(promises[p].ran, promises[p].registered)
        /\ promises[p].ran # <<>> => Settled(p)

(* The engine owes every pending promise exactly one way to be settled:    *)
(* functions that were not called yet, the getter that their first call is *)
(* in, or the job of a thenable; a settled promise has none, so that       *)
(* fulfill_or_reject_promise never meets one.  Where only the engine has   *)
(* the functions, exactly one reaction, job or running handler will call   *)
(* them.                                                                   *)
Holders(c) ==
    LET mine == {r \in DOMAIN reacts : reacts[r].cap = c} IN
    Cardinality({e \in (DOMAIN promises) \X (DOMAIN reacts) :
                    /\ e[2] \in DOMAIN promises[e[1]].reactions
                    /\ promises[e[1]].reactions[e[2]] \in mine})
    + Cardinality({k \in DOMAIN jobs : jobs[k][1] = "reaction" /\ jobs[k][2] \in mine})
    + Cardinality({k \in DOMAIN stk : \/ stk[k].op = "handler" /\ stk[k].cap = c
                                      \/ stk[k].op = "tracker" /\ stk[k].react \in mine})
OneWayToSettle ==
    /\ \A p \in DOMAIN promises :
          Cardinality({c \in DOMAIN caps : caps[c].p = p /\ ~caps[c].already_resolved})
          + Cardinality({k \in DOMAIN jobs : jobs[k][1] = "thenable" /\ jobs[k][2] = p})
          + Cardinality({k \in DOMAIN stk : stk[k].op = "getter" /\ caps[stk[k].cap].p = p})
          = IF Settled(p) THEN 0 ELSE 1
    /\ \A c \in DOMAIN caps :
          caps[c].hidden /\ ~caps[c].already_resolved => Holders(c) = 1

(* What the tracker was told agrees with the promise: a rejection that     *)
(* nobody handled was reported, and was reported as handled when, and only *)
(* when, it is, unless that report is being made.  Nothing else is.        *)
ReportsAgree ==
    \A p \in DOMAIN promises :
        LET reports == promises[p].reports
            adding == \E k \in DOMAIN stk : stk[k].op = "tracker" /\ stk[k].p = p /\ stk[k].react # 0
        IN  /\ promises[p].state # "rejected" => reports = <<>>
            /\ tracker /\ promises[p].state = "rejected" /\ ~promises[p].is_handled
                  => reports # <<>> /\ (reports # <<FALSE>> => adding)
            /\ reports # <<>> => ~reports[1] /\ \A k \in 2..Len(reports) : reports[k]
            /\ reports = <<FALSE>> => ~promises[p].is_handled

(* A promise is not left pending once what it waits for is settled: the    *)
(* promise whose reaction it is, or the one it was resolved with.          *)
Owed(c) ==
    /\ ~caps[c].already_resolved
    /\ \E r \in DOMAIN reacts : reacts[r].cap = c /\ Settled(reacts[r].on)
WaitersAreSettled ==
    (\E c \in DOMAIN caps : Owed(c)) ~> (\A c \in DOMAIN caps : ~Owed(c))

=============================================================================
