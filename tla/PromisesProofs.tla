--------------------------- MODULE PromisesProofs ---------------------------
(***************************************************************************)
(* Proofs, for any number of promises, functions, reactions and jobs and   *)
(* any nesting of code, of the safety properties of Promises.              *)
(*                                                                         *)
(* The invariant is an operator of the promises, functions, reactions,     *)
(* jobs and stack, so that it can be stated between the parts of a step:   *)
(* what the engine does in the middle of one looks like a state in which   *)
(* the tracker, a handler or a getter is about to return.                  *)
(***************************************************************************)
EXTENDS Promises, SequenceTheorems, FiniteSetTheorems, TLAPS

(* What a promise can have as its result, and what resolving functions can *)
(* be called with.                                                         *)
Results == Values \cup {"TypeError", "object"}
PassedRes == {Plain(v) : v \in Values \cup {"TypeError"}} \cup {Object}
AnyRes == PassedRes \cup {OtherPromise(q) : q \in Nat}

(* The types.                                                              *)
PromiseRec ==
    [state : {"pending", "fulfilled", "rejected"}, result : Results \cup {"none"},
     is_handled : BOOLEAN, reactions : Seq(Nat), reports : Seq(BOOLEAN),
     registered : Seq(Nat), ran : Seq(Nat)]
CapRec ==
    [p : Nat, already_resolved : BOOLEAN, hidden : BOOLEAN,
     got : {<<>>} \cup (BOOLEAN \X AnyRes)]
ReactRec == [on : Nat, handlers : SUBSET {"fulfilled", "rejected"}, cap : Nat]
Job ==
    {ReactionJob(r) : r \in Nat} \cup {ThenableJob(p, Object) : p \in Nat}
    \cup {ThenableJob(p, OtherPromise(q)) : p \in Nat, q \in Nat} \cup {HostJob}
Ops == {"executePendingJobs", "handler", "then", "job", "getter", "tracker"}
Frame ==
    {f \in [op : Ops, cap : Nat, p : Nat, react : Nat] :
        IF f.op = "tracker" THEN f.cap = 0 ELSE f.p = 0 /\ f.react = 0}

Typed(ps, cs, rs, js, st) ==
    /\ ps \in Seq(PromiseRec) /\ cs \in Seq(CapRec) /\ rs \in Seq(ReactRec)
    /\ js \in Seq(Job) /\ st \in Seq(Frame)

(* What refers to what.                                                    *)
GotOK(g, n) ==
    g[2] \in PassedRes \/ (~g[1] /\ \E q \in 1..n : g[2] = OtherPromise(q))

CapsOK(ps, cs) ==
    \A c \in 1..Len(cs) :
        /\ cs[c].p \in 1..Len(ps)
        /\ cs[c].already_resolved => cs[c].got \in BOOLEAN \X AnyRes /\ GotOK(cs[c].got, Len(ps))

ReactsOK(ps, cs, rs) ==
    /\ \A r \in 1..Len(rs) :
          rs[r].on \in 1..Len(ps) /\ rs[r].cap \in 1..Len(cs) /\ cs[rs[r].cap].hidden
    /\ \A r, s \in 1..Len(rs) : rs[r].cap = rs[s].cap => r = s
    /\ \A c \in 1..Len(cs) : cs[c].hidden => \E r \in 1..Len(rs) : rs[r].cap = c

JobOK(j, np, nr) ==
    /\ \A r \in Nat : j = ReactionJob(r) => r \in 1..nr
    /\ \A p \in Nat : j = ThenableJob(p, Object) => p \in 1..np
    /\ \A p, q \in Nat : j = ThenableJob(p, OtherPromise(q)) => p \in 1..np /\ q \in 1..np

JobsOK(ps, rs, js) == \A k \in 1..Len(js) : JobOK(js[k], Len(ps), Len(rs))

FrameOK(f, ps, cs, rs) ==
    /\ f.op \in {"handler", "then", "getter"} => f.cap \in 1..Len(cs)
    /\ f.op = "then" => ~cs[f.cap].hidden
    /\ f.op = "getter" => cs[f.cap].already_resolved
    /\ f.op = "tracker" => f.p \in 1..Len(ps)
    /\ f.op = "tracker" /\ f.react = 0 => ps[f.p].state # "pending"
    /\ f.op = "tracker" /\ f.react # 0 => f.react \in 1..Len(rs) /\ rs[f.react].on = f.p

StackOK(ps, cs, rs, st) == \A k \in 1..Len(st) : FrameOK(st[k], ps, cs, rs)

(* The lists of a promise: what is registered waits in reactions, or the   *)
(* promise is settled.                                                     *)
ListOK(s, p, rs) ==
    /\ s.state = "pending" => s.reactions = s.registered /\ s.ran = <<>>
    /\ s.state # "pending" => s.reactions = <<>> /\ s.result \in Results
    /\ s.registered # <<>> => s.is_handled
    /\ Len(s.registered) <= Len(rs)
    /\ \A i \in 1..Len(s.registered) :
          s.registered[i] \in 1..Len(rs) /\ rs[s.registered[i]].on = p
    /\ \A i, j \in 1..Len(s.registered) : s.registered[i] = s.registered[j] => i = j
    /\ Len(s.ran) <= Len(s.registered)
    /\ \A i \in 1..Len(s.ran) : s.ran[i] = s.registered[i]

ListsOK(ps, rs) == \A p \in 1..Len(ps) : ListOK(ps[p], p, rs)

(* The queue has, for every settled promise, what was registered and has   *)
(* not run, in that order.                                                 *)
WaitsIn(s, r) ==
    /\ s.state # "pending"
    /\ \E i \in 1..Len(s.registered) : i > Len(s.ran) /\ s.registered[i] = r

Queued(ps, rs, js) ==
    \A k \in 1..Len(js) : \A r \in 1..Len(rs) :
        js[k] = ReactionJob(r) => WaitsIn(ps[rs[r].on], r)

AllQueued(ps, js) ==
    \A p \in 1..Len(ps) : ps[p].state # "pending" =>
        \A i \in 1..Len(ps[p].registered) : i > Len(ps[p].ran) =>
            \E k \in 1..Len(js) : js[k] = ReactionJob(ps[p].registered[i])

InOrder(ps, js) ==
    \A p \in 1..Len(ps) : \A i, j \in 1..Len(ps[p].registered) : \A k, l \in 1..Len(js) :
        /\ k < l
        /\ js[k] = ReactionJob(ps[p].registered[i])
        /\ js[l] = ReactionJob(ps[p].registered[j])
        => i < j

(* Where the functions of a reaction are: with the tracker that is told    *)
(* about it, then in reactions or in the queue, then with its handler.  x  *)
(* are functions that are being called.                                    *)
InRan(s, r) == \E i \in 1..Len(s.ran) : s.ran[i] = r
InRegistered(s, r) == \E i \in 1..Len(s.registered) : s.registered[i] = r

IsAdding(f, r) == f.op = "tracker" /\ f.react = r
Handles(f, c) == f.op = "handler" /\ f.cap = c

TrackersOK(ps, rs, st) ==
    /\ \A k \in 1..Len(st) : \A r \in 1..Len(rs) :
          IsAdding(st[k], r) => ~InRegistered(ps[rs[r].on], r)
    /\ \A k, l \in 1..Len(st) : \A r \in 1..Len(rs) :
          IsAdding(st[k], r) /\ IsAdding(st[l], r) => k = l
    /\ \A r \in 1..Len(rs) : ~InRegistered(ps[rs[r].on], r) =>
          \E k \in 1..Len(st) : IsAdding(st[k], r)

HandlerOK(f, ps, cs, rs, x) ==
    /\ ~cs[f.cap].already_resolved
    /\ \E r \in 1..Len(rs) : /\ rs[r].cap = f.cap
                             /\ InRan(ps[rs[r].on], r)
                             /\ rs[r].handlers = {} => f.cap = x

HandlersOK(ps, cs, rs, st, x) ==
    /\ \A k \in 1..Len(st) : st[k].op = "handler" => HandlerOK(st[k], ps, cs, rs, x)
    /\ \A k, l \in 1..Len(st) : \A c \in 1..Len(cs) :
          Handles(st[k], c) /\ Handles(st[l], c) => k = l
    /\ \A r \in 1..Len(rs) : ~InRan(ps[rs[r].on], r) => ~cs[rs[r].cap].already_resolved
    /\ \A r \in 1..Len(rs) : InRan(ps[rs[r].on], r) /\ ~cs[rs[r].cap].already_resolved =>
          \E k \in 1..Len(st) : Handles(st[k], rs[r].cap)

(* The ways in which a promise can be settled.                             *)
CapWay(c, p) == c.p = p /\ ~c.already_resolved
JobWay(j, p) == j = ThenableJob(p, Object) \/ \E q \in Nat : j = ThenableJob(p, OtherPromise(q))
GetWay(f, cs, p) == f.op = "getter" /\ cs[f.cap].p = p

WaysOf(s, p, cs, js, st) ==
    /\ \A c, d \in 1..Len(cs) : CapWay(cs[c], p) /\ CapWay(cs[d], p) => c = d
    /\ \A k, l \in 1..Len(js) : JobWay(js[k], p) /\ JobWay(js[l], p) => k = l
    /\ \A k, l \in 1..Len(st) : GetWay(st[k], cs, p) /\ GetWay(st[l], cs, p) => k = l
    /\ \A c \in 1..Len(cs), k \in 1..Len(js) : ~(CapWay(cs[c], p) /\ JobWay(js[k], p))
    /\ \A c \in 1..Len(cs), k \in 1..Len(st) : ~(CapWay(cs[c], p) /\ GetWay(st[k], cs, p))
    /\ \A k \in 1..Len(js), l \in 1..Len(st) : ~(JobWay(js[k], p) /\ GetWay(st[l], cs, p))
    /\ s.state = "pending" <=> \/ \E c \in 1..Len(cs) : CapWay(cs[c], p)
                               \/ \E k \in 1..Len(js) : JobWay(js[k], p)
                               \/ \E k \in 1..Len(st) : GetWay(st[k], cs, p)

WaysOK(ps, cs, js, st) == \A p \in 1..Len(ps) : WaysOf(ps[p], p, cs, js, st)

(* What the first call of the functions c means for their promise, ...     *)
Outcome(ps, c) ==
    LET p == ps[c.p]
        res == c.got[2]
    IN  /\ c.got[1] => p.state = "rejected" /\ p.result = res[2]
        /\ ~c.got[1] /\ res[1] = "plain" => p.state = "fulfilled" /\ p.result = res[2]
        /\ ~c.got[1] /\ res = OtherPromise(c.p) => p.state = "rejected"
        /\ \A q \in 1..Len(ps) : ~c.got[1] /\ res = OtherPromise(q) /\ q # c.p /\ p.state # "pending" =>
              /\ ps[q].state # "pending"
              /\ ps[q].result # "object" => p.state = ps[q].state /\ p.result = ps[q].result

(* ... and, while p is pending because it was resolved with q, the way it  *)
(* will be settled: as q is.                                               *)
JobLink(js, p, q) == \E k \in 1..Len(js) : js[k] = ThenableJob(p, OtherPromise(q))
CapLink(cs, rs, p, q) ==
    \E r \in 1..Len(rs) :
        rs[r].on = q /\ rs[r].handlers = {} /\ CapWay(cs[rs[r].cap], p)
CallLink(ps, cs, x, p, q) ==
    /\ x # 0 /\ cs[x].p = p
    /\ ps[q].state # "pending"
    /\ cs[x].already_resolved
    /\ cs[x].got[1] <=> ps[q].state = "rejected"
    /\ cs[x].got[2] = PassedOn(ps[q].result)

Follows(ps, c, q) ==
    /\ ~c.got[1] /\ c.got[2] = OtherPromise(q) /\ q # c.p
    /\ ps[c.p].state = "pending"
    /\ ~(ps[q].state # "pending" /\ ps[q].result = "object")

OutcomesOK(ps, cs, rs, js, st, x) ==
    /\ \A c \in 1..Len(cs) : c # x /\ cs[c].already_resolved =>
          /\ Outcome(ps, cs[c])
          /\ \A q \in 1..Len(ps) : Follows(ps, cs[c], q) =>
                \/ JobLink(js, cs[c].p, q)
                \/ CapLink(cs, rs, cs[c].p, q)
                \/ CallLink(ps, cs, x, cs[c].p, q)
    /\ \A k \in 1..Len(st) : st[k].op = "getter" /\ st[k].cap # x =>
          ~cs[st[k].cap].got[1] /\ cs[st[k].cap].got[2] = Object

(* All of it.                                                              *)
Core(ps, cs, rs, js, st, x) ==
    /\ Typed(ps, cs, rs, js, st)
    /\ CapsOK(ps, cs) /\ ReactsOK(ps, cs, rs) /\ JobsOK(ps, rs, js) /\ StackOK(ps, cs, rs, st)
    /\ ListsOK(ps, rs)
    /\ Queued(ps, rs, js) /\ AllQueued(ps, js) /\ InOrder(ps, js)
    /\ TrackersOK(ps, rs, st) /\ HandlersOK(ps, cs, rs, st, x)
    /\ WaysOK(ps, cs, js, st)

WInv(ps, cs, rs, js, st, x) ==
    Core(ps, cs, rs, js, st, x) /\ OutcomesOK(ps, cs, rs, js, st, x)

(* The reports.                                                            *)
Adding(st, p) == \E k \in 1..Len(st) : st[k].op = "tracker" /\ st[k].p = p /\ st[k].react # 0

ReportOK(s, adding, tr) ==
    /\ s.state # "rejected" \/ ~tr => s.reports = <<>>
    /\ tr /\ s.state = "rejected" /\ ~s.is_handled => s.reports # <<>>
    /\ Len(s.reports) > 1 /\ ~s.is_handled => adding
    /\ s.reports # <<>> => ~s.reports[1] /\ \A k \in 2..Len(s.reports) : s.reports[k]
    /\ Len(s.reports) = 1 => ~s.is_handled
    /\ adding => Len(s.reports) > 1

ReportsOK(ps, st, tr) == \A p \in 1..Len(ps) : ReportOK(ps[p], Adding(st, p), tr)

IInv ==
    /\ WInv(promises, caps, reacts, jobs, stk, 0)
    /\ ReportsOK(promises, stk, tracker)
    /\ tracker \in BOOLEAN

-----------------------------------------------------------------------------
(* Sequences, jobs and resolutions.                                        *)

(* Adding to a sequence.                                                   *)
LEMMA AppendIs ==
    ASSUME NEW S, NEW s \in Seq(S), NEW e \in S
    PROVE  /\ Append(s, e) \in Seq(S) /\ Len(s) \in Nat /\ Len(Append(s, e)) = Len(s) + 1
           /\ \A i \in 1..Len(s) : i \in 1..(Len(s) + 1) /\ Append(s, e)[i] = s[i]
           /\ Append(s, e)[Len(s) + 1] = e
           /\ Len(s) + 1 \in 1..(Len(s) + 1) /\ Len(s) + 1 \notin 1..Len(s)
           /\ \A i \in 1..(Len(s) + 1) : i \in 1..Len(s) \/ i = Len(s) + 1
  <1>1. Len(s) \in Nat
    BY LenProperties
  <1>2. /\ Append(s, e) \in Seq(S) /\ Len(Append(s, e)) = Len(s) + 1
        /\ \A i \in 1..Len(s) : Append(s, e)[i] = s[i]
        /\ Append(s, e)[Len(s) + 1] = e
    BY AppendProperties
  <1> QED BY <1>1, <1>2

(* Changing one element.                                                   *)
LEMMA ExceptIs ==
    ASSUME NEW S, NEW s \in Seq(S), NEW i \in 1..Len(s), NEW e \in S
    PROVE  /\ [s EXCEPT ![i] = e] \in Seq(S)
           /\ Len([s EXCEPT ![i] = e]) = Len(s)
           /\ [s EXCEPT ![i] = e][i] = e
           /\ \A j \in 1..Len(s) : j # i => [s EXCEPT ![i] = e][j] = s[j]
  BY ExceptSeq, LenProperties

(* Taking the first element.                                               *)
LEMMA TailIs ==
    ASSUME NEW S, NEW s \in Seq(S), s # <<>>
    PROVE  /\ Len(s) \in Nat \ {0} /\ 1 \in 1..Len(s) /\ Head(s) = s[1] /\ Head(s) \in S
           /\ Tail(s) \in Seq(S) /\ Len(Tail(s)) = Len(s) - 1
           /\ \A i \in 1..(Len(s) - 1) : i + 1 \in 1..Len(s) /\ i + 1 # 1 /\ Tail(s)[i] = s[i + 1]
           /\ \A i \in 1..Len(s) : i # 1 => i - 1 \in 1..(Len(s) - 1) /\ Tail(s)[i - 1] = s[i]
  <1>1. Len(s) \in Nat \ {0}
    BY EmptySeq, LenProperties
  <1>2. /\ Head(s) = s[1] /\ Head(s) \in S
        /\ Tail(s) \in Seq(S) /\ Len(Tail(s)) = Len(s) - 1
        /\ \A i \in 1..(Len(s) - 1) : Tail(s)[i] = s[i + 1]
    BY HeadTailProperties, <1>1
  <1>3. \A i \in 1..(Len(s) - 1) : i + 1 \in 1..Len(s) /\ i + 1 # 1
    BY <1>1
  <1>4. ASSUME NEW i \in 1..Len(s), i # 1
        PROVE  i - 1 \in 1..(Len(s) - 1) /\ Tail(s)[i - 1] = s[i]
    <2>1. i - 1 \in 1..(Len(s) - 1) /\ i - 1 + 1 = i
      BY <1>1, <1>4
    <2> QED BY <2>1, <1>2
  <1> QED BY <1>1, <1>2, <1>3, <1>4

(* The last element and the others: the innermost frame and its callers.   *)
LEMMA LastAndFront ==
    ASSUME NEW S, NEW s \in Seq(S), s # <<>>
    PROVE  /\ SubSeq(s, 1, Len(s) - 1) \in Seq(S) /\ Len(SubSeq(s, 1, Len(s) - 1)) = Len(s) - 1
           /\ s[Len(s)] \in S /\ s = Append(SubSeq(s, 1, Len(s) - 1), s[Len(s)])
           /\ Len(s) \in Nat \ {0} /\ \A i \in 1..(Len(s) - 1) : SubSeq(s, 1, Len(s) - 1)[i] = s[i]
  <1> DEFINE n == Len(s) - 1
             t == SubSeq(s, 1, n)
             l == s[Len(s)]
  <1>1. Len(s) \in Nat \ {0} /\ \A i \in 1..Len(s) : s[i] \in S
    BY EmptySeq, LenProperties, ElementOfSeq
  <1>2. n \in Int /\ n >= 0 /\ Len(s) = n + 1 /\ \A i \in 1..n : s[i] \in S
    BY <1>1
  <1>3. l = s[n + 1] /\ l \in S
    BY <1>1, <1>2
  <1> HIDE DEF n, l
  <1>4. /\ t \in Seq(S)
        /\ Len(t) = IF 1 <= n THEN n - 1 + 1 ELSE 0
        /\ \A i \in 1..(n - 1 + 1) : t[i] = s[1 + i - 1]
    BY <1>2, SubSeqProperties
  <1> HIDE DEF t
  <1>5. t \in Seq(S) /\ Len(t) = n /\ \A i \in 1..n : t[i] = s[i]
    BY <1>2, <1>4
  <1>7. /\ Append(t, l) \in Seq(S) /\ Len(Append(t, l)) = n + 1
        /\ \A i \in 1..n : Append(t, l)[i] = t[i]
        /\ Append(t, l)[n + 1] = l
    BY <1>3, <1>5, AppendIs
  <1>8. \A i \in 1..(n + 1) : Append(t, l)[i] = s[i]
    <2> SUFFICES ASSUME NEW i \in 1..(n + 1) PROVE Append(t, l)[i] = s[i]
      OBVIOUS
    <2>1. i \in 1..n \/ i = n + 1
      BY <1>2
    <2> QED BY <2>1, <1>3, <1>5, <1>7
  <1>9. Append(t, l) = s
    BY <1>2, <1>7, <1>8, SeqEqual
  <1> QED BY <1>1, <1>3, <1>5, <1>9 DEF t, n, l

(* The innermost frame, and the stack it returns to.                       *)
LEMMA TopAndPop ==
    ASSUME stk \in Seq(Frame), stk # <<>>
    PROVE  Pop \in Seq(Frame) /\ Top \in Frame /\ stk = Append(Pop, Top)
  BY LastAndFront DEF Pop, Top

(* Jobs differ by what they are for.                                       *)
LEMMA JobTags ==
    /\ \A r, s : ReactionJob(r) = ReactionJob(s) => r = s
    /\ \A r, p, res : ReactionJob(r) # ThenableJob(p, res)
    /\ \A r : ReactionJob(r) # HostJob
    /\ \A p, res : ThenableJob(p, res) # HostJob
    /\ \A p, q, a, b : ThenableJob(p, a) = ThenableJob(q, b) => p = q /\ a = b
  <1>1. ASSUME NEW r, NEW s, ReactionJob(r) = ReactionJob(s) PROVE r = s
    <2>1. ReactionJob(r)[2] = r /\ ReactionJob(s)[2] = s
      BY DEF ReactionJob
    <2> QED BY <2>1, <1>1
  <1>2. /\ \A r : ReactionJob(r)[1] = "reaction"
        /\ \A p, res : ThenableJob(p, res)[1] = "thenable"
        /\ HostJob[1] = "host"
    BY DEF ReactionJob, ThenableJob, HostJob
  <1>3. ASSUME NEW p, NEW q, NEW a, NEW b, ThenableJob(p, a) = ThenableJob(q, b)
        PROVE  p = q /\ a = b
    <2>1. /\ ThenableJob(p, a)[2] = p /\ ThenableJob(p, a)[3] = a
          /\ ThenableJob(q, b)[2] = q /\ ThenableJob(q, b)[3] = b
      BY DEF ThenableJob
    <2> QED BY <2>1, <1>3
  <1>4. /\ \A r, p, res : ReactionJob(r) # ThenableJob(p, res)
        /\ \A r : ReactionJob(r) # HostJob
        /\ \A p, res : ThenableJob(p, res) # HostJob
    BY <1>2
  <1> QED BY <1>1, <1>3, <1>4

(* Resolutions too.                                                        *)
LEMMA ResTags ==
    /\ \A p, q : OtherPromise(p) = OtherPromise(q) => p = q
    /\ \A p : OtherPromise(p) # Object /\ OtherPromise(p) \notin PassedRes
    /\ \A v : Plain(v) # Object
    /\ \A v \in Results : PassedOn(v) \in PassedRes /\ (PassedOn(v) = Object <=> v = "object")
                          /\ (v # "object" => PassedOn(v) = Plain(v))
    /\ \A v : Plain(v)[1] = "plain" /\ Plain(v)[2] = v
    /\ \A p : OtherPromise(p)[1] = "promise" /\ OtherPromise(p)[2] = p
    /\ Object[1] = "object" /\ Object[2] = "object"
  <1>1. /\ \A v : Plain(v)[1] = "plain" /\ Plain(v)[2] = v
        /\ \A p : OtherPromise(p)[1] = "promise" /\ OtherPromise(p)[2] = p
        /\ Object[1] = "object" /\ Object[2] = "object"
    BY DEF Plain, OtherPromise, Object
  <1>2. "plain" # "promise" /\ "plain" # "object" /\ "promise" # "object"
    OBVIOUS
  <1>3. \A v : Plain(v) # Object /\ \A p : Plain(v) # OtherPromise(p)
    BY <1>1, <1>2
  <1>4. \A p : OtherPromise(p) # Object
    BY <1>1, <1>2
  <1>5. \A p : OtherPromise(p) \notin PassedRes
    BY <1>3, <1>4 DEF PassedRes
  <1>6. \A p, q : OtherPromise(p) = OtherPromise(q) => p = q
    <2> SUFFICES ASSUME NEW p, NEW q, OtherPromise(p) = OtherPromise(q) PROVE p = q
      OBVIOUS
    <2> QED BY <1>1
  <1>7. ASSUME NEW v \in Results
        PROVE  /\ PassedOn(v) \in PassedRes /\ (PassedOn(v) = Object <=> v = "object")
               /\ (v # "object" => PassedOn(v) = Plain(v))
    BY <1>3 DEF PassedOn, PassedRes, Results
  <1> QED BY <1>1, <1>3, <1>4, <1>5, <1>6, <1>7

-----------------------------------------------------------------------------
(* The parts of steps.                                                     *)

(* A frame that holds no functions and is no way to settle a promise.      *)
Neutral(f) == f.op \notin {"handler", "getter"} /\ ~(f.op = "tracker" /\ f.react # 0)

(* Such a frame may come and go.                                           *)
LEMMA NeutralFrame ==
    ASSUME NEW ps, NEW cs, NEW rs, NEW js, NEW st \in Seq(Frame), NEW x,
           NEW f \in Frame, Neutral(f)
    PROVE  /\ WInv(ps, cs, rs, js, Append(st, f), x) => WInv(ps, cs, rs, js, st, x)
           /\ WInv(ps, cs, rs, js, st, x) /\ FrameOK(f, ps, cs, rs) =>
                 WInv(ps, cs, rs, js, Append(st, f), x)
  <1> DEFINE t == Append(st, f)
             n == Len(st)
             m == Len(st) + 1
  <1>1. /\ t \in Seq(Frame) /\ Len(t) = m
        /\ \A i \in 1..n : i \in 1..m /\ t[i] = st[i]
        /\ t[m] = f /\ m \in 1..m
        /\ \A i \in 1..m : i \in 1..n \/ i = m
    BY AppendIs
  <1>2. /\ f.op # "handler" /\ f.op # "getter"
        /\ \A r \in 1..Len(rs) : ~IsAdding(f, r)
    BY DEF Neutral, IsAdding
  <1> HIDE DEF t, m
  <1>3. Typed(ps, cs, rs, js, t) <=> Typed(ps, cs, rs, js, st)
    BY <1>1 DEF Typed
  <1>4. StackOK(ps, cs, rs, t) <=> StackOK(ps, cs, rs, st) /\ FrameOK(f, ps, cs, rs)
    BY <1>1 DEF StackOK
  <1>5. TrackersOK(ps, rs, t) <=> TrackersOK(ps, rs, st)
    <2>1. \A i \in 1..m, r \in 1..Len(rs) : IsAdding(t[i], r) => i \in 1..n /\ IsAdding(st[i], r)
      BY <1>1, <1>2
    <2>2. \A i \in 1..n, r \in 1..Len(rs) : IsAdding(st[i], r) => i \in 1..m /\ IsAdding(t[i], r)
      BY <1>1
    <2> QED BY <2>1, <2>2, <1>1 DEF TrackersOK
  <1>6. HandlersOK(ps, cs, rs, t, x) <=> HandlersOK(ps, cs, rs, st, x)
    <2>1. \A i \in 1..m : t[i].op = "handler" => i \in 1..n /\ t[i] = st[i]
      BY <1>1, <1>2
    <2>2. \A i \in 1..n : i \in 1..m /\ t[i] = st[i]
      BY <1>1
    <2>3. \A i \in 1..m, c \in 1..Len(cs) : Handles(t[i], c) => i \in 1..n /\ Handles(st[i], c)
      BY <2>1 DEF Handles
    <2>4. \A i \in 1..n : \A c : Handles(st[i], c) => i \in 1..m /\ Handles(t[i], c)
      BY <2>2
    <2>5. \A c : (\E k \in 1..m : Handles(t[k], c)) <=> (\E k \in 1..n : Handles(st[k], c))
      BY <2>1, <2>2 DEF Handles
    <2> QED BY <2>1, <2>2, <2>3, <2>4, <2>5, <1>1 DEF HandlersOK
  <1>7. WaysOK(ps, cs, js, t) <=> WaysOK(ps, cs, js, st)
    <2> SUFFICES ASSUME NEW p \in 1..Len(ps)
                 PROVE  WaysOf(ps[p], p, cs, js, t) <=> WaysOf(ps[p], p, cs, js, st)
      BY DEF WaysOK
    <2>1. \A i \in 1..m : GetWay(t[i], cs, p) => i \in 1..n /\ GetWay(st[i], cs, p)
      BY <1>1, <1>2 DEF GetWay
    <2>2. \A i \in 1..n : GetWay(st[i], cs, p) => i \in 1..m /\ GetWay(t[i], cs, p)
      BY <1>1
    <2> QED BY <2>1, <2>2, <1>1 DEF WaysOf
  <1>8. OutcomesOK(ps, cs, rs, js, t, x) <=> OutcomesOK(ps, cs, rs, js, st, x)
    BY <1>1, <1>2 DEF OutcomesOK
  <1>9. WInv(ps, cs, rs, js, t, x) <=> WInv(ps, cs, rs, js, st, x) /\ FrameOK(f, ps, cs, rs)
    BY <1>3, <1>4, <1>5, <1>6, <1>7, <1>8 DEF WInv, Core
  <1> QED BY <1>9 DEF t

(* Host jobs are neutral too.                                              *)
LEMMA HostJobAdded ==
    ASSUME NEW ps, NEW cs, NEW rs, NEW js, NEW st, NEW x, WInv(ps, cs, rs, js, st, x)
    PROVE  WInv(ps, cs, rs, Append(js, HostJob), st, x)
  <1> DEFINE t == Append(js, HostJob)
             n == Len(js)
             m == Len(js) + 1
  <1>0. js \in Seq(Job) /\ HostJob \in Job
    BY DEF WInv, Core, Typed, Job
  <1>1. /\ t \in Seq(Job) /\ Len(t) = m
        /\ \A i \in 1..n : i \in 1..m /\ t[i] = js[i]
        /\ t[m] = HostJob /\ m \in 1..m
        /\ \A i \in 1..m : i \in 1..n \/ i = m
    BY <1>0, AppendIs
  <1>a. n \in Nat /\ m = n + 1
    BY <1>0, LenProperties
  <1> HIDE DEF t, m
  <1>2. /\ \A r : HostJob # ReactionJob(r)
        /\ \A p, res : HostJob # ThenableJob(p, res)
    BY JobTags
  <1>3. Typed(ps, cs, rs, t, st) /\ CapsOK(ps, cs) /\ ReactsOK(ps, cs, rs) /\ StackOK(ps, cs, rs, st)
        /\ ListsOK(ps, rs) /\ TrackersOK(ps, rs, st) /\ HandlersOK(ps, cs, rs, st, x)
    BY <1>1 DEF WInv, Core, Typed
  <1>4. JobsOK(ps, rs, t)
    <2>1. JobOK(HostJob, Len(ps), Len(rs))
      BY <1>2 DEF JobOK
    <2> QED BY <2>1, <1>1 DEF WInv, Core, JobsOK
  <1>5. Queued(ps, rs, t)
    <2>1. \A i \in 1..m : \A r : t[i] = ReactionJob(r) => i \in 1..n /\ js[i] = ReactionJob(r)
      BY <1>1, <1>2
    <2>2. Queued(ps, rs, js)
      BY DEF WInv, Core
    <2> QED BY <2>1, <2>2, <1>1 DEF Queued
  <1>6. AllQueued(ps, t)
    <2>1. AllQueued(ps, js)
      BY DEF WInv, Core
    <2>2. \A r : (\E k \in 1..n : js[k] = ReactionJob(r)) => \E k \in 1..m : t[k] = ReactionJob(r)
      BY <1>1
    <2> QED BY <2>1, <2>2, <1>1 DEF AllQueued
  <1>7. InOrder(ps, t)
    <2>1. \A i \in 1..m : \A r : t[i] = ReactionJob(r) => i \in 1..n /\ js[i] = ReactionJob(r)
      BY <1>1, <1>2
    <2> SUFFICES ASSUME NEW p \in 1..Len(ps), NEW i \in 1..Len(ps[p].registered),
                        NEW j \in 1..Len(ps[p].registered), NEW k \in 1..m, NEW l \in 1..m, k < l,
                        t[k] = ReactionJob(ps[p].registered[i]),
                        t[l] = ReactionJob(ps[p].registered[j])
                 PROVE  i < j
      BY <1>1, ZenonT(60) DEF InOrder
    <2>2. InOrder(ps, js)
      BY DEF WInv, Core
    <2>3. /\ k \in 1..n /\ js[k] = ReactionJob(ps[p].registered[i])
          /\ l \in 1..n /\ js[l] = ReactionJob(ps[p].registered[j])
      BY <2>1
    <2> QED BY <2>2, <2>3 DEF InOrder
  <1>8. WaysOK(ps, cs, t, st)
    <2> SUFFICES ASSUME NEW p \in 1..Len(ps) PROVE WaysOf(ps[p], p, cs, t, st)
      BY DEF WaysOK
    <2>1. \A i \in 1..m : JobWay(t[i], p) => i \in 1..n /\ JobWay(js[i], p)
      BY <1>1, <1>2 DEF JobWay
    <2>2. \A i \in 1..n : JobWay(js[i], p) => i \in 1..m /\ JobWay(t[i], p)
      BY <1>1
    <2>3. WaysOf(ps[p], p, cs, js, st)
      BY DEF WInv, Core, WaysOK
    <2> QED BY <2>1, <2>2, <2>3, <1>1 DEF WaysOf
  <1>9. OutcomesOK(ps, cs, rs, t, st, x)
    <2>1. \A p, q : JobLink(js, p, q) => JobLink(t, p, q)
      BY <1>1 DEF JobLink
    <2> QED BY <2>1 DEF WInv, Core, OutcomesOK
  <1> QED BY <1>3, <1>4, <1>5, <1>6, <1>7, <1>8, <1>9 DEF WInv, Core, t

(* The jobs that are left when the first one is taken.                     *)
LEMMA HostJobTaken ==
    ASSUME NEW ps, NEW cs, NEW rs, NEW js, NEW st, NEW x, WInv(ps, cs, rs, js, st, x),
           js # <<>>, Head(js) = HostJob
    PROVE  WInv(ps, cs, rs, Tail(js), st, x)
  <1> DEFINE t == Tail(js)
             n == Len(js) - 1
  <1>0. js \in Seq(Job)
    BY DEF WInv, Core, Typed
  <1>1. /\ t \in Seq(Job) /\ Len(t) = n /\ js[1] = HostJob /\ n \in Nat /\ 1 \in 1..Len(js)
        /\ \A i \in 1..n : i + 1 \in 1..Len(js) /\ i + 1 # 1 /\ t[i] = js[i + 1]
        /\ \A i \in 1..Len(js) : i # 1 => i - 1 \in 1..n /\ t[i - 1] = js[i]
    BY <1>0, TailIs
  <1> HIDE DEF t, n
  <1>2. /\ \A r : HostJob # ReactionJob(r)
        /\ \A p, res : HostJob # ThenableJob(p, res)
    BY JobTags
  <1>3. Typed(ps, cs, rs, t, st) /\ CapsOK(ps, cs) /\ ReactsOK(ps, cs, rs) /\ StackOK(ps, cs, rs, st)
        /\ ListsOK(ps, rs) /\ TrackersOK(ps, rs, st) /\ HandlersOK(ps, cs, rs, st, x)
    BY <1>1 DEF WInv, Core, Typed
  <1>4. JobsOK(ps, rs, t)
    BY <1>1 DEF WInv, Core, JobsOK
  <1>5. Queued(ps, rs, t)
    <2>1. Queued(ps, rs, js)
      BY DEF WInv, Core
    <2> QED BY <2>1, <1>1 DEF Queued
  <1>6. AllQueued(ps, t)
    <2>1. \A r : (\E k \in 1..Len(js) : js[k] = ReactionJob(r)) =>
                    \E k \in 1..n : t[k] = ReactionJob(r)
      BY <1>1, <1>2
    <2> QED BY <1>1, <2>1 DEF WInv, Core, AllQueued
  <1>7. InOrder(ps, t)
    <2> SUFFICES ASSUME NEW p \in 1..Len(ps), NEW i \in 1..Len(ps[p].registered),
                        NEW j \in 1..Len(ps[p].registered), NEW k \in 1..n, NEW l \in 1..n, k < l,
                        t[k] = ReactionJob(ps[p].registered[i]),
                        t[l] = ReactionJob(ps[p].registered[j])
                 PROVE  i < j
      BY <1>1 DEF InOrder
    <2>1. k + 1 < l + 1 /\ k + 1 \in 1..Len(js) /\ l + 1 \in 1..Len(js)
      BY <1>1, SMTT(30)
    <2>2. js[k + 1] = t[k] /\ js[l + 1] = t[l]
      BY <1>1
    <2> QED BY <2>1, <2>2 DEF WInv, Core, InOrder
  <1>8. WaysOK(ps, cs, t, st)
    <2> SUFFICES ASSUME NEW p \in 1..Len(ps) PROVE WaysOf(ps[p], p, cs, t, st)
      BY DEF WaysOK
    <2>1. \A i \in 1..n : JobWay(t[i], p) => i + 1 \in 1..Len(js) /\ JobWay(js[i + 1], p)
      BY <1>1
    <2>2. \A i \in 1..Len(js) : JobWay(js[i], p) => i - 1 \in 1..n /\ JobWay(t[i - 1], p)
      BY <1>1, <1>2 DEF JobWay
    <2>3. WaysOf(ps[p], p, cs, js, st)
      BY DEF WInv, Core, WaysOK
    <2>4. \A k, l \in 1..n : k + 1 = l + 1 => k = l
      BY <1>1
    <2> QED BY <2>1, <2>2, <2>3, <2>4, <1>1, SMTT(30) DEF WaysOf
  <1>9. OutcomesOK(ps, cs, rs, t, st, x)
    <2>1. \A p, q : JobLink(js, p, q) => JobLink(t, p, q)
      BY <1>1, <1>2 DEF JobLink
    <2> QED BY <2>1 DEF WInv, Core, OutcomesOK
  <1> QED BY <1>3, <1>4, <1>5, <1>6, <1>7, <1>8, <1>9 DEF WInv, Core, t

(* A new promise has its functions as its way.                             *)
LEMMA PromiseMade ==
    ASSUME NEW ps, NEW cs, NEW rs, NEW js, NEW st, NEW x, Core(ps, cs, rs, js, st, x)
    PROVE  Core(Append(ps, NewPromise),
                Append(cs, js_create_resolving_functions(Len(ps) + 1, FALSE)), rs, js, st, x)
  <1> DEFINE q == Len(ps) + 1
             d == js_create_resolving_functions(q, FALSE)
             ps2 == Append(ps, NewPromise)
             cs2 == Append(cs, d)
             c == Len(cs) + 1
  <1>0. ps \in Seq(PromiseRec) /\ cs \in Seq(CapRec)
    BY DEF Core, Typed
  <1>1. q \in Nat /\ NewPromise \in PromiseRec /\ d \in CapRec
    <2>1. <<>> \in Seq(Nat) /\ <<>> \in Seq(BOOLEAN)
      OBVIOUS
    <2>2. NewPromise \in PromiseRec
      BY <2>1 DEF NewPromise, PromiseRec
    <2>3. q \in Nat
      BY <1>0, LenProperties
    <2> QED BY <2>2, <2>3 DEF js_create_resolving_functions, CapRec
  <1>2. /\ NewPromise.state = "pending" /\ NewPromise.reactions = <<>> /\ NewPromise.registered = <<>>
        /\ NewPromise.ran = <<>> /\ Len(NewPromise.registered) = 0 /\ Len(NewPromise.ran) = 0
        /\ d.p = q /\ ~d.already_resolved /\ ~d.hidden
    BY DEF NewPromise, js_create_resolving_functions
  <1> HIDE DEF d
  <1>3. /\ ps2 \in Seq(PromiseRec) /\ Len(ps2) = q
        /\ \A i \in 1..Len(ps) : i \in 1..q /\ ps2[i] = ps[i]
        /\ ps2[q] = NewPromise /\ q \in 1..q /\ q \notin 1..Len(ps)
        /\ \A i \in 1..q : i \in 1..Len(ps) \/ i = q
    BY <1>0, <1>1, AppendIs
  <1>4. /\ cs2 \in Seq(CapRec) /\ Len(cs2) = c
        /\ \A i \in 1..Len(cs) : i \in 1..c /\ cs2[i] = cs[i]
        /\ cs2[c] = d /\ c \in 1..c /\ c \notin 1..Len(cs)
        /\ \A i \in 1..c : i \in 1..Len(cs) \/ i = c
    BY <1>0, <1>1, AppendIs
  <1> HIDE DEF ps2, cs2, q, c
  <1>5. Typed(ps2, cs2, rs, js, st)
    BY <1>3, <1>4 DEF Core, Typed
  <1>6. CapsOK(ps2, cs2)
    <2>1. \A g : GotOK(g, Len(ps)) => GotOK(g, q)
      BY <1>3 DEF GotOK
    <2> QED BY <2>1, <1>2, <1>3, <1>4 DEF Core, CapsOK
  <1>7. ReactsOK(ps2, cs2, rs)
    <2>1. ReactsOK(ps, cs, rs)
      BY DEF Core
    <2> QED BY <2>1, <1>2, <1>3, <1>4 DEF ReactsOK
  <1>8. JobsOK(ps2, rs, js)
    BY <1>3 DEF Core, JobsOK, JobOK
  <1>9. StackOK(ps2, cs2, rs, st)
    BY <1>3, <1>4 DEF Core, StackOK, FrameOK
  <1>10. ListsOK(ps2, rs)
    <2>1. ListOK(NewPromise, q, rs)
      <3>1. Len(rs) \in Nat
        BY LenProperties DEF Core, Typed
      <3> QED BY <1>2, <3>1 DEF ListOK
    <2> QED BY <2>1, <1>3 DEF Core, ListsOK
  <1>11. Queued(ps2, rs, js)
    <2>1. \A r \in 1..Len(rs) : ps2[rs[r].on] = ps[rs[r].on]
      BY <1>3 DEF Core, ReactsOK
    <2> QED BY <2>1 DEF Core, Queued
  <1>12. AllQueued(ps2, js)
    BY <1>2, <1>3 DEF Core, AllQueued
  <1>13. InOrder(ps2, js)
    <2> SUFFICES ASSUME NEW p \in 1..q, NEW i \in 1..Len(ps2[p].registered),
                        NEW j \in 1..Len(ps2[p].registered), NEW k \in 1..Len(js), NEW l \in 1..Len(js), k < l,
                        js[k] = ReactionJob(ps2[p].registered[i]),
                        js[l] = ReactionJob(ps2[p].registered[j])
                 PROVE  i < j
      BY <1>3, ZenonT(60) DEF InOrder
    <2>1. p # q
      <3>1. 1..Len(NewPromise.registered) = {}
        BY <1>2
      <3> QED BY <3>1, <1>3
    <2>2. p \in 1..Len(ps) /\ ps2[p] = ps[p]
      BY <2>1, <1>3
    <2> QED BY <2>2 DEF Core, InOrder
  <1>14. TrackersOK(ps2, rs, st) /\ HandlersOK(ps2, cs2, rs, st, x)
    <2>1. \A r \in 1..Len(rs) : ps2[rs[r].on] = ps[rs[r].on] /\ cs2[rs[r].cap] = cs[rs[r].cap]
      BY <1>3, <1>4 DEF Core, ReactsOK
    <2>2. TrackersOK(ps2, rs, st)
      BY <2>1 DEF Core, TrackersOK
    <2>3. \A k \in 1..Len(st) : st[k].op = "handler" => HandlerOK(st[k], ps2, cs2, rs, x)
      <3>1. \A k \in 1..Len(st) : st[k].op = "handler" => st[k].cap \in 1..Len(cs)
        BY DEF Core, StackOK, FrameOK
      <3>2. \A k \in 1..Len(st) : st[k].op = "handler" => HandlerOK(st[k], ps, cs, rs, x)
        BY DEF Core, HandlersOK
      <3> QED BY <2>1, <3>1, <3>2, <1>4 DEF HandlerOK
    <2>4. \A k, l \in 1..Len(st) : \A e \in 1..c : Handles(st[k], e) /\ Handles(st[l], e) => k = l
      BY DEF Core, HandlersOK, StackOK, FrameOK, Handles
    <2> QED BY <2>1, <2>2, <2>3, <2>4, <1>4 DEF Core, HandlersOK
  <1>15. WaysOK(ps2, cs2, js, st)
    <2>1. ASSUME NEW k \in 1..Len(st), NEW p PROVE GetWay(st[k], cs2, p) <=> GetWay(st[k], cs, p)
      BY <1>4 DEF Core, StackOK, FrameOK, GetWay
    <2>2. \A p : \A e \in 1..c :
            CapWay(cs2[e], p) <=> (e \in 1..Len(cs) /\ CapWay(cs[e], p)) \/ (e = c /\ p = q)
      <3>1. \A p : \A e \in 1..Len(cs) : e # c /\ (CapWay(cs2[e], p) <=> CapWay(cs[e], p))
        BY <1>4
      <3>2. \A p : CapWay(cs2[c], p) <=> p = q
        BY <1>2, <1>4 DEF CapWay
      <3> SUFFICES ASSUME NEW p, NEW e \in 1..c
                   PROVE  CapWay(cs2[e], p) <=> (e \in 1..Len(cs) /\ CapWay(cs[e], p)) \/ (e = c /\ p = q)
        OBVIOUS
      <3>3. CASE e = c
        BY <3>2, <3>3, <1>4 DEF CapWay
      <3>4. CASE e \in 1..Len(cs)
        BY <3>1, <3>4 DEF CapWay
      <3> QED BY <3>3, <3>4, <1>4
    <2>3. ASSUME NEW p \in 1..Len(ps) PROVE WaysOf(ps2[p], p, cs2, js, st)
      <3>1. WaysOf(ps[p], p, cs, js, st) /\ p # q /\ ps2[p] = ps[p]
        BY <1>3 DEF Core, WaysOK
      <3>2. \A e \in 1..Len(cs) : e \in 1..c
        BY <1>4
      <3> QED BY <2>1, <2>2, <3>1, <3>2, <1>4 DEF WaysOf
    <2>4. WaysOf(NewPromise, q, cs2, js, st)
      <3>1. \A e \in 1..Len(cs) : ~CapWay(cs[e], q)
        BY <1>3 DEF Core, CapsOK, CapWay
      <3>2. \A k \in 1..Len(js) : ~JobWay(js[k], q)
        <4>1. JobsOK(ps, rs, js)
          BY DEF Core
        <4> QED BY <4>1, <1>1, <1>3 DEF JobsOK, JobOK, JobWay
      <3>3. \A k \in 1..Len(st) : ~GetWay(st[k], cs, q)
        BY <1>3 DEF Core, StackOK, FrameOK, CapsOK, GetWay
      <3> QED BY <2>1, <2>2, <3>1, <3>2, <3>3, <1>2, <1>4 DEF WaysOf
    <2> QED BY <2>3, <2>4, <1>3 DEF WaysOK
  <1>16. Core(ps2, cs2, rs, js, st, x)
    BY <1>5, <1>6, <1>7, <1>8, <1>9, <1>10, <1>11, <1>12, <1>13, <1>14, <1>15 DEF Core
  <1> QED BY <1>16 DEF ps2, cs2, d, q

(* The job of a thenable makes new functions, which are the way from now   *)
(* on.                                                                     *)
LEMMA FunctionsMade ==
    ASSUME NEW ps, NEW cs, NEW rs, NEW js, NEW st, NEW x, Core(ps, cs, rs, js, st, x),
           js # <<>>, NEW p \in Nat, JobWay(Head(js), p)
    PROVE  Core(ps, Append(cs, js_create_resolving_functions(p, FALSE)), rs, Tail(js), st, x)
  <1> DEFINE d == js_create_resolving_functions(p, FALSE)
             cs2 == Append(cs, d)
             c == Len(cs) + 1
             t == Tail(js)
             n == Len(js) - 1
  <1>0. cs \in Seq(CapRec) /\ js \in Seq(Job) /\ d \in CapRec
    BY DEF Core, Typed, js_create_resolving_functions, CapRec
  <1>1. /\ d.p = p /\ ~d.already_resolved /\ ~d.hidden
    BY DEF js_create_resolving_functions
  <1> HIDE DEF d
  <1>2. /\ cs2 \in Seq(CapRec) /\ Len(cs2) = c
        /\ \A i \in 1..Len(cs) : i \in 1..c /\ cs2[i] = cs[i]
        /\ cs2[c] = d /\ c \in 1..c /\ c \notin 1..Len(cs)
        /\ \A i \in 1..c : i \in 1..Len(cs) \/ i = c
    BY <1>0, AppendIs
  <1>3. /\ t \in Seq(Job) /\ Len(t) = n /\ JobWay(js[1], p) /\ n \in Nat /\ 1 \in 1..Len(js)
        /\ \A i \in 1..n : i + 1 \in 1..Len(js) /\ i + 1 # 1 /\ t[i] = js[i + 1]
        /\ \A i \in 1..Len(js) : i # 1 => i - 1 \in 1..n /\ t[i - 1] = js[i]
    BY <1>0, TailIs
  <1> HIDE DEF cs2, c, t, n
  <1>4. p \in 1..Len(ps)
    BY <1>3 DEF Core, JobsOK, JobOK, JobWay
  <1>5. /\ \A r : js[1] # ReactionJob(r)
        /\ \A k \in 1..Len(js) : JobWay(js[k], p) => k = 1
    <2>1. WaysOf(ps[p], p, cs, js, st)
      BY <1>4 DEF Core, WaysOK
    <2>2. \A k \in 1..Len(js) : JobWay(js[k], p) => k = 1
      BY <2>1, <1>3 DEF WaysOf
    <2> QED BY <2>2, <1>3, JobTags DEF JobWay
  <1>6. Typed(ps, cs2, rs, t, st)
    BY <1>2, <1>3 DEF Core, Typed
  <1>7. CapsOK(ps, cs2)
    BY <1>1, <1>2, <1>4 DEF Core, CapsOK
  <1>8. ReactsOK(ps, cs2, rs)
    <2>1. ReactsOK(ps, cs, rs)
      BY DEF Core
    <2> QED BY <2>1, <1>1, <1>2 DEF ReactsOK
  <1>9. JobsOK(ps, rs, t)
    BY <1>3 DEF Core, JobsOK
  <1>10. StackOK(ps, cs2, rs, st)
    BY <1>2 DEF Core, StackOK, FrameOK
  <1>11. ListsOK(ps, rs) /\ TrackersOK(ps, rs, st)
    BY DEF Core
  <1>12. Queued(ps, rs, t)
    <2>1. Queued(ps, rs, js)
      BY DEF Core
    <2> QED BY <2>1, <1>3 DEF Queued
  <1>13. AllQueued(ps, t)
    <2>1. \A r : (\E k \in 1..Len(js) : js[k] = ReactionJob(r)) =>
                    \E k \in 1..n : t[k] = ReactionJob(r)
      BY <1>3, <1>5
    <2> QED BY <1>3, <2>1 DEF Core, AllQueued
  <1>14. InOrder(ps, t)
    <2> SUFFICES ASSUME NEW o \in 1..Len(ps), NEW i \in 1..Len(ps[o].registered),
                        NEW j \in 1..Len(ps[o].registered), NEW k \in 1..n, NEW l \in 1..n, k < l,
                        t[k] = ReactionJob(ps[o].registered[i]),
                        t[l] = ReactionJob(ps[o].registered[j])
                 PROVE  i < j
      BY <1>3, ZenonT(60) DEF InOrder
    <2>1. k + 1 < l + 1 /\ k + 1 \in 1..Len(js) /\ l + 1 \in 1..Len(js)
      BY <1>3
    <2>2. js[k + 1] = t[k] /\ js[l + 1] = t[l]
      BY <1>3
    <2> QED BY <2>1, <2>2 DEF Core, InOrder
  <1>15. HandlersOK(ps, cs2, rs, st, x)
    <2>1. \A r \in 1..Len(rs) : cs2[rs[r].cap] = cs[rs[r].cap]
      BY <1>2 DEF Core, ReactsOK
    <2>2. \A k \in 1..Len(st) : st[k].op = "handler" => HandlerOK(st[k], ps, cs2, rs, x)
      <3>1. \A k \in 1..Len(st) : st[k].op = "handler" => st[k].cap \in 1..Len(cs)
        BY DEF Core, StackOK, FrameOK
      <3>2. \A k \in 1..Len(st) : st[k].op = "handler" => HandlerOK(st[k], ps, cs, rs, x)
        BY DEF Core, HandlersOK
      <3> QED BY <2>1, <3>1, <3>2, <1>2 DEF HandlerOK
    <2>3. \A k, l \in 1..Len(st) : \A e \in 1..c : Handles(st[k], e) /\ Handles(st[l], e) => k = l
      BY DEF Core, HandlersOK, StackOK, FrameOK, Handles
    <2> QED BY <2>1, <2>2, <2>3, <1>2 DEF Core, HandlersOK
  <1>16. WaysOK(ps, cs2, t, st)
    <2> SUFFICES ASSUME NEW o \in 1..Len(ps) PROVE WaysOf(ps[o], o, cs2, t, st)
      BY DEF WaysOK
    <2>1. \A k \in 1..Len(st) : GetWay(st[k], cs2, o) <=> GetWay(st[k], cs, o)
      BY <1>2 DEF Core, StackOK, FrameOK, GetWay
    <2>2. \A e \in 1..c :
            CapWay(cs2[e], o) <=> (e \in 1..Len(cs) /\ CapWay(cs[e], o)) \/ (e = c /\ o = p)
      <3>1. \A e \in 1..Len(cs) : e # c /\ (CapWay(cs2[e], o) <=> CapWay(cs[e], o))
        BY <1>2
      <3>2. CapWay(cs2[c], o) <=> o = p
        BY <1>1, <1>2 DEF CapWay
      <3> SUFFICES ASSUME NEW e \in 1..c
                   PROVE  CapWay(cs2[e], o) <=> (e \in 1..Len(cs) /\ CapWay(cs[e], o)) \/ (e = c /\ o = p)
        OBVIOUS
      <3>3. CASE e = c
        BY <3>2, <3>3, <1>2 DEF CapWay
      <3>4. CASE e \in 1..Len(cs)
        BY <3>1, <3>4 DEF CapWay
      <3> QED BY <3>3, <3>4, <1>2
    <2>3. \A i \in 1..n : JobWay(t[i], o) => o # p /\ i + 1 \in 1..Len(js) /\ JobWay(js[i + 1], o)
      BY <1>3, <1>5
    <2>4. \A i \in 1..Len(js) : JobWay(js[i], o) /\ o # p => i - 1 \in 1..n /\ JobWay(t[i - 1], o)
      <3>1. JobWay(js[1], o) => o = p
        BY <1>3, JobTags DEF JobWay
      <3> QED BY <3>1, <1>3
    <2>5. WaysOf(ps[o], o, cs, js, st)
      BY DEF Core, WaysOK
    <2>6. \A k, l \in 1..n : k + 1 = l + 1 => k = l
      BY <1>3
    <2>7. CASE o # p
      BY <2>1, <2>2, <2>3, <2>4, <2>5, <2>6, <2>7, <1>2, <1>3, ZenonT(60) DEF WaysOf
    <2>8. CASE o = p
      <3>1. /\ \A e \in 1..Len(cs) : ~CapWay(cs[e], p)
            /\ \A k \in 1..Len(st) : ~GetWay(st[k], cs, p)
            /\ ps[p].state = "pending"
        BY <2>5, <2>8, <1>3 DEF WaysOf
      <3> QED BY <2>1, <2>2, <2>3, <2>8, <3>1, <1>2, <1>3, ZenonT(60) DEF WaysOf
    <2> QED BY <2>7, <2>8
  <1>17. Core(ps, cs2, rs, t, st, x)
    BY <1>6, <1>7, <1>8, <1>9, <1>10, <1>11, <1>12, <1>13, <1>14, <1>15, <1>16 DEF Core
  <1> QED BY <1>17 DEF cs2, d, t


(* A reaction is made with functions that only the engine has; the tracker *)
(* is where it is on its way to its promise.                               *)
LEMMA ReactionMade ==
    ASSUME NEW ps, NEW cs \in Seq(CapRec), NEW rs, NEW js, NEW st, NEW p \in Nat,
           NEW o \in 1..Len(ps), NEW hs \in SUBSET {"fulfilled", "rejected"},
           Core(ps, Append(cs, js_create_resolving_functions(p, FALSE)), rs, js, st, 0),
           \A k \in 1..Len(st) : st[k].op = "then" => st[k].cap \in 1..Len(cs)
    PROVE  Core(ps, Append(cs, js_create_resolving_functions(p, TRUE)),
                Append(rs, Reaction(o, hs, Len(cs) + 1)), js,
                Append(st, TrackerFrame(o, Len(rs) + 1)), 0)
  <1> DEFINE d == js_create_resolving_functions(p, FALSE)
             e == js_create_resolving_functions(p, TRUE)
             cs1 == Append(cs, d)
             cs2 == Append(cs, e)
             c == Len(cs) + 1
             nr == Reaction(o, hs, c)
             rs2 == Append(rs, nr)
             r == Len(rs) + 1
             f == TrackerFrame(o, r)
             t == Append(st, f)
             n == Len(st)
             m == Len(st) + 1
  <1>0. rs \in Seq(ReactRec) /\ st \in Seq(Frame) /\ Len(rs) \in Nat /\ Len(cs) \in Nat /\ Len(st) \in Nat
        /\ ps \in Seq(PromiseRec) /\ Len(ps) \in Nat
    BY LenProperties DEF Core, Typed
  <1>1. /\ d \in CapRec /\ e \in CapRec /\ nr \in ReactRec /\ f \in Frame
        /\ d.p = p /\ e.p = p /\ ~d.already_resolved /\ ~e.already_resolved /\ ~d.hidden /\ e.hidden
        /\ nr.on = o /\ nr.handlers = hs /\ nr.cap = c
        /\ f.op = "tracker" /\ f.p = o /\ f.react = r /\ r # 0
    BY <1>0 DEF js_create_resolving_functions, CapRec, Reaction, ReactRec, TrackerFrame, Frame, Ops
  <1> HIDE DEF d, e, nr, f
  <1>2. /\ cs1 \in Seq(CapRec) /\ Len(cs1) = c
        /\ \A i \in 1..Len(cs) : i \in 1..c /\ cs1[i] = cs[i]
        /\ cs1[c] = d /\ c \in 1..c /\ c \notin 1..Len(cs)
        /\ \A i \in 1..c : i \in 1..Len(cs) \/ i = c
    BY <1>1, AppendIs
  <1>3. /\ cs2 \in Seq(CapRec) /\ Len(cs2) = c
        /\ \A i \in 1..Len(cs) : i \in 1..c /\ cs2[i] = cs[i]
        /\ cs2[c] = e
    BY <1>1, AppendIs
  <1>4. /\ rs2 \in Seq(ReactRec) /\ Len(rs2) = r
        /\ \A i \in 1..Len(rs) : i \in 1..r /\ rs2[i] = rs[i]
        /\ rs2[r] = nr /\ r \in 1..r /\ r \notin 1..Len(rs)
        /\ \A i \in 1..r : i \in 1..Len(rs) \/ i = r
    BY <1>0, <1>1, AppendIs
  <1>5. /\ t \in Seq(Frame) /\ Len(t) = m
        /\ \A i \in 1..n : i \in 1..m /\ t[i] = st[i]
        /\ t[m] = f /\ m \in 1..m /\ m \notin 1..n
        /\ \A i \in 1..m : i \in 1..n \/ i = m
    BY <1>0, <1>1, AppendIs
  <1>6. Core(ps, cs1, rs, js, st, 0)
    BY DEF d
  <1> HIDE DEF cs1, cs2, rs2, t, c, r, m, n
  (* The functions are the same but for hidden.                            *)
  <1>7. /\ \A i \in 1..c : cs2[i].p = cs1[i].p /\ (cs2[i].already_resolved <=> cs1[i].already_resolved)
        /\ \A i \in 1..c : i # c => cs2[i] = cs1[i]
    <2>1. \A i \in 1..c : i # c => cs2[i] = cs1[i]
      BY <1>2, <1>3
    <2>2. cs2[c].p = cs1[c].p /\ (cs2[c].already_resolved <=> cs1[c].already_resolved)
      BY <1>1, <1>2, <1>3
    <2> QED BY <2>1, <2>2
  <1>8. /\ \A s \in 1..Len(rs) : rs[s].cap # c /\ rs[s].cap \in 1..c /\ rs[s].on \in 1..Len(ps)
        /\ \A s \in 1..Len(rs) : cs2[rs[s].cap] = cs1[rs[s].cap]
    BY <1>1, <1>2, <1>6, <1>7 DEF Core, ReactsOK
  <1>9. /\ \A q \in 1..Len(ps) : ~InRegistered(ps[q], r) /\ ~InRan(ps[q], r)
    <2> SUFFICES ASSUME NEW q \in 1..Len(ps) PROVE ~InRegistered(ps[q], r) /\ ~InRan(ps[q], r)
      OBVIOUS
    <2>1. ListOK(ps[q], q, rs)
      BY <1>6 DEF Core, ListsOK
    <2>2. ~InRegistered(ps[q], r)
      BY <2>1, <1>4 DEF ListOK, InRegistered
    <2>3. Len(ps[q].ran) \in Nat /\ Len(ps[q].registered) \in Nat
      <3>1. ps[q] \in PromiseRec
        BY <1>0, ElementOfSeq
      <3> QED BY <3>1, LenProperties DEF PromiseRec
    <2>4. \A i \in 1..Len(ps[q].ran) : i \in 1..Len(ps[q].registered) /\ ps[q].ran[i] = ps[q].registered[i]
      BY <2>1, <2>3 DEF ListOK
    <2> QED BY <2>2, <2>4 DEF InRan, InRegistered
  <1>10. Typed(ps, cs2, rs2, js, t)
    BY <1>3, <1>4, <1>5, <1>6 DEF Core, Typed
  <1>11. CapsOK(ps, cs2)
    <2>1. CapsOK(ps, cs1)
      BY <1>6 DEF Core
    <2>2. ~cs2[c].already_resolved /\ cs2[c].p \in 1..Len(ps)
      BY <2>1, <1>1, <1>2, <1>3 DEF CapsOK
    <2>3. \A i \in 1..Len(cs) : cs2[i] = cs1[i] /\ i \in 1..c
      BY <1>2, <1>3
    <2> QED BY <2>1, <2>2, <2>3, <1>2, <1>3 DEF CapsOK
  <1>12. ReactsOK(ps, cs2, rs2)
    <2>1. ReactsOK(ps, cs1, rs)
      BY <1>6 DEF Core
    <2>2. \A s \in 1..r : rs2[s].on \in 1..Len(ps) /\ rs2[s].cap \in 1..c /\ cs2[rs2[s].cap].hidden
      <3>1. \A s \in 1..Len(rs) : rs2[s] = rs[s] /\ cs2[rs[s].cap].hidden
        BY <2>1, <1>4, <1>8 DEF ReactsOK
      <3>2. rs2[r].on \in 1..Len(ps) /\ rs2[r].cap \in 1..c /\ cs2[rs2[r].cap].hidden
        BY <1>1, <1>2, <1>3, <1>4
      <3> QED BY <3>1, <3>2, <1>4, <1>8
    <2>3. \A s, u \in 1..r : rs2[s].cap = rs2[u].cap => s = u
      BY <2>1, <1>1, <1>4, <1>8, SMTT(30) DEF ReactsOK
    <2>4. \A i \in 1..c : cs2[i].hidden => \E s \in 1..r : rs2[s].cap = i
      <3> SUFFICES ASSUME NEW i \in 1..c, cs2[i].hidden PROVE \E s \in 1..r : rs2[s].cap = i
        OBVIOUS
      <3>1. CASE i = c
        BY <3>1, <1>1, <1>4
      <3>2. CASE i # c
        <4>1. \E s \in 1..Len(rs) : rs[s].cap = i
          BY <2>1, <3>2, <1>2, <1>7 DEF ReactsOK
        <4> QED BY <4>1, <1>4
      <3> QED BY <3>1, <3>2
    <2> QED BY <2>2, <2>3, <2>4, <1>3, <1>4 DEF ReactsOK
  <1>13. JobsOK(ps, rs2, js)
    <2>1. \A j : JobOK(j, Len(ps), Len(rs)) => JobOK(j, Len(ps), r)
      BY <1>4 DEF JobOK
    <2> QED BY <2>1, <1>4, <1>6 DEF Core, JobsOK
  <1>14. StackOK(ps, cs2, rs2, t)
    <2>1. FrameOK(f, ps, cs2, rs2)
      BY <1>1, <1>4 DEF FrameOK
    <2>2. ASSUME NEW k \in 1..n PROVE FrameOK(st[k], ps, cs2, rs2)
      <3>1. FrameOK(st[k], ps, cs1, rs)
        BY <1>6 DEF Core, StackOK, n
      <3>2. st[k].op = "then" => st[k].cap # c
        BY <1>2 DEF n
      <3> QED BY <3>1, <3>2, <1>2, <1>3, <1>4, <1>7 DEF FrameOK
    <2> QED BY <2>1, <2>2, <1>5 DEF StackOK
  <1>15. ListsOK(ps, rs2)
    <2> SUFFICES ASSUME NEW q \in 1..Len(ps) PROVE ListOK(ps[q], q, rs2)
      BY DEF ListsOK
    <2>1. ListOK(ps[q], q, rs)
      BY <1>6 DEF Core, ListsOK
    <2>2. Len(ps[q].registered) \in Nat
      <3>1. ps[q] \in PromiseRec
        BY <1>0, ElementOfSeq
      <3> QED BY <3>1, LenProperties DEF PromiseRec
    <2>3. Len(ps[q].registered) <= r
      BY <2>1, <2>2, <1>0 DEF ListOK, r
    <2> DEFINE s == ps[q]
    <2>4. ListOK(s, q, rs) /\ Len(s.registered) <= r
      BY <2>1, <2>3
    <2> HIDE DEF s
    <2>5. \A i \in 1..Len(s.registered) : s.registered[i] \in 1..r /\ rs2[s.registered[i]].on = q
      <3> SUFFICES ASSUME NEW i \in 1..Len(s.registered)
                   PROVE  s.registered[i] \in 1..r /\ rs2[s.registered[i]].on = q
        OBVIOUS
      <3>1. s.registered[i] \in 1..Len(rs) /\ rs[s.registered[i]].on = q
        BY <2>4 DEF ListOK
      <3> QED BY <3>1, <1>4
    <2>6. ListOK(s, q, rs2)
      BY <2>4, <2>5, <1>4 DEF ListOK
    <2> QED BY <2>6 DEF s
  <1>16. Queued(ps, rs2, js)
    <2> SUFFICES ASSUME NEW k \in 1..Len(js), NEW s \in 1..r, js[k] = ReactionJob(s)
                 PROVE  WaitsIn(ps[rs2[s].on], s)
      BY <1>4 DEF Queued
    <2>1. s \in Nat
      BY <1>0 DEF r
    <2>2. s \in 1..Len(rs)
      BY <2>1, <1>6 DEF Core, JobsOK, JobOK
    <2> QED BY <2>2, <1>4, <1>6 DEF Core, Queued
  <1>17. AllQueued(ps, js) /\ InOrder(ps, js)
    BY <1>6 DEF Core
  <1>18. TrackersOK(ps, rs2, t)
    <2>0. TrackersOK(ps, rs, st)
      BY <1>6 DEF Core
    <2>1. \A k \in 1..n : ~IsAdding(st[k], r)
      BY <1>1, <1>4, <1>6 DEF Core, StackOK, FrameOK, IsAdding, n
    <2>2. \A s \in 1..r : IsAdding(f, s) <=> s = r
      BY <1>1 DEF IsAdding
    <2>3. \A k \in 1..m, s \in 1..r :
              IsAdding(t[k], s) => \/ k = m /\ s = r
                                   \/ k \in 1..n /\ s \in 1..Len(rs) /\ IsAdding(st[k], s)
      BY <2>1, <2>2, <1>4, <1>5
    <2>4. IsAdding(t[m], r) /\ \A k \in 1..n, s \in 1..Len(rs) : IsAdding(st[k], s) => IsAdding(t[k], s)
      BY <2>2, <1>4, <1>5
    <2>5. \A k \in 1..m, s \in 1..r : IsAdding(t[k], s) => ~InRegistered(ps[rs2[s].on], s)
      <3> SUFFICES ASSUME NEW k \in 1..m, NEW s \in 1..r, IsAdding(t[k], s)
                   PROVE  ~InRegistered(ps[rs2[s].on], s)
        OBVIOUS
      <3>1. CASE s = r
        BY <3>1, <1>1, <1>4, <1>9
      <3>2. CASE k \in 1..n /\ s \in 1..Len(rs) /\ IsAdding(st[k], s)
        <4>1. ~InRegistered(ps[rs[s].on], s)
          BY <2>0, <3>2 DEF TrackersOK, n
        <4> QED BY <4>1, <3>2, <1>4
      <3> QED BY <2>3, <3>1, <3>2
    <2>6. \A k, l \in 1..m : \A s \in 1..r : IsAdding(t[k], s) /\ IsAdding(t[l], s) => k = l
      <3> SUFFICES ASSUME NEW k \in 1..m, NEW l \in 1..m, NEW s \in 1..r, IsAdding(t[k], s), IsAdding(t[l], s)
                   PROVE  k = l
        OBVIOUS
      <3>1. CASE s = r
        BY <3>1, <2>3, <1>4
      <3>2. CASE s # r
        BY <3>2, <2>0, <2>3 DEF TrackersOK, n
      <3> QED BY <3>1, <3>2
    <2>7. \A s \in 1..r : ~InRegistered(ps[rs2[s].on], s) => \E k \in 1..m : IsAdding(t[k], s)
      <3> SUFFICES ASSUME NEW s \in 1..r, ~InRegistered(ps[rs2[s].on], s)
                   PROVE  \E k \in 1..m : IsAdding(t[k], s)
        OBVIOUS
      <3>1. CASE s = r
        BY <3>1, <2>4, <1>5
      <3>2. CASE s # r
        <4>1. s \in 1..Len(rs) /\ rs2[s] = rs[s]
          BY <3>2, <1>4
        <4>2. \E k \in 1..n : IsAdding(st[k], s)
          BY <4>1, <2>0 DEF TrackersOK, n
        <4> QED BY <4>1, <4>2, <2>4, <1>5
      <3> QED BY <3>1, <3>2
    <2> QED BY <2>5, <2>6, <2>7, <1>4, <1>5 DEF TrackersOK
  <1>19. HandlersOK(ps, cs2, rs2, t, 0)
    <2>0. HandlersOK(ps, cs1, rs, st, 0)
      BY <1>6 DEF Core
    <2>1. \A k \in 1..m : t[k].op = "handler" => k \in 1..n /\ t[k] = st[k]
      BY <1>1, <1>5
    <2>2. ASSUME NEW k \in 1..m, t[k].op = "handler" PROVE HandlerOK(t[k], ps, cs2, rs2, 0)
      <3>1. k \in 1..n /\ t[k] = st[k] /\ HandlerOK(st[k], ps, cs1, rs, 0)
        BY <2>0, <2>1, <2>2 DEF HandlersOK, n
      <3>2. PICK s \in 1..Len(rs) : /\ rs[s].cap = st[k].cap /\ InRan(ps[rs[s].on], s)
                                    /\ rs[s].handlers = {} => st[k].cap = 0
        BY <3>1 DEF HandlerOK
      <3>3. s \in 1..r /\ rs2[s] = rs[s] /\ cs2[st[k].cap] = cs1[st[k].cap]
        BY <3>2, <1>4, <1>8
      <3> QED BY <3>1, <3>2, <3>3, <1>4 DEF HandlerOK
    <2>3. \A k, l \in 1..m : \A i \in 1..c : Handles(t[k], i) /\ Handles(t[l], i) => k = l
      BY <2>0, <2>1, <1>2, SMTT(30) DEF HandlersOK, Handles, n
    <2>4. \A s \in 1..r : ~InRan(ps[rs2[s].on], s) => ~cs2[rs2[s].cap].already_resolved
      <3>1. \A s \in 1..Len(rs) : ~InRan(ps[rs2[s].on], s) => ~cs2[rs2[s].cap].already_resolved
        BY <2>0, <1>4, <1>8 DEF HandlersOK
      <3> QED BY <3>1, <1>1, <1>3, <1>4
    <2>5. \A s \in 1..r : InRan(ps[rs2[s].on], s) /\ ~cs2[rs2[s].cap].already_resolved =>
              \E k \in 1..m : Handles(t[k], rs2[s].cap)
      <3> SUFFICES ASSUME NEW s \in 1..r, InRan(ps[rs2[s].on], s), ~cs2[rs2[s].cap].already_resolved
                   PROVE  \E k \in 1..m : Handles(t[k], rs2[s].cap)
        OBVIOUS
      <3>1. s \in 1..Len(rs) /\ rs2[s] = rs[s] /\ cs2[rs[s].cap] = cs1[rs[s].cap]
        BY <1>1, <1>4, <1>8, <1>9
      <3>2. \E k \in 1..n : Handles(st[k], rs[s].cap)
        BY <3>1, <2>0 DEF HandlersOK, n
      <3> QED BY <3>1, <3>2, <1>5
    <2> QED BY <2>2, <2>3, <2>4, <2>5, <1>3, <1>4, <1>5 DEF HandlersOK
  <1>20. WaysOK(ps, cs2, js, t)
    <2> SUFFICES ASSUME NEW q \in 1..Len(ps) PROVE WaysOf(ps[q], q, cs2, js, t)
      BY DEF WaysOK
    <2>1. WaysOf(ps[q], q, cs1, js, st)
      BY <1>6 DEF Core, WaysOK
    <2>2. \A i \in 1..c : CapWay(cs2[i], q) <=> CapWay(cs1[i], q)
      BY <1>7 DEF CapWay
    <2>3. \A k \in 1..m : GetWay(t[k], cs2, q) => k \in 1..n /\ GetWay(st[k], cs1, q)
      BY <1>1, <1>2, <1>5, <1>6, <1>7, SMTT(30) DEF GetWay, Core, StackOK, FrameOK, n
    <2>4. \A k \in 1..n : GetWay(st[k], cs1, q) => k \in 1..m /\ GetWay(t[k], cs2, q)
      BY <1>2, <1>5, <1>6, <1>7 DEF GetWay, Core, StackOK, FrameOK, n
    <2> QED BY <2>1, <2>2, <2>3, <2>4, <1>2, <1>3, <1>5 DEF WaysOf, n
  <1>21. Core(ps, cs2, rs2, js, t, 0)
    BY <1>10, <1>11, <1>12, <1>13, <1>14, <1>15, <1>16, <1>17, <1>18, <1>19, <1>20 DEF Core
  <1> QED BY <1>21 DEF cs2, rs2, t, e, nr, f, c, r

(* What was called earlier keeps its meaning while nothing is settled and  *)
(* nothing is called, if what promises wait for stays.                     *)
LEMMA OutcomesKept ==
    ASSUME NEW ps, NEW cs, NEW rs, NEW js, NEW st,
           NEW ps2, NEW cs2, NEW rs2, NEW js2, NEW st2, NEW x,
           CapsOK(ps, cs), ReactsOK(ps, cs, rs), OutcomesOK(ps, cs, rs, js, st, 0),
           Len(ps) \in Nat, Len(cs) \in Nat,
           \A i \in 1..Len(ps) : /\ i \in 1..Len(ps2)
                                 /\ ps2[i].state = ps[i].state /\ ps2[i].result = ps[i].result,
           \A i \in 1..Len(cs) : i \in 1..Len(cs2) /\ cs2[i] = cs[i],
           \A i \in 1..Len(cs2) : i \in 1..Len(cs) \/ ~cs2[i].already_resolved,
           \A i \in 1..Len(rs) : i \in 1..Len(rs2) /\ rs2[i] = rs[i],
           \A k \in 1..Len(st2) : st2[k].op = "getter" =>
              st2[k].cap \in 1..Len(cs) /\ \E l \in 1..Len(st) : st[l] = st2[k],
           \A p, q \in 1..Len(ps) :
              JobLink(js, p, q) => JobLink(js2, p, q) \/ CapLink(cs2, rs2, p, q)
    PROVE  OutcomesOK(ps2, cs2, rs2, js2, st2, x)
  <1>1. ASSUME NEW c \in 1..Len(cs2), cs2[c].already_resolved
        PROVE  /\ Outcome(ps2, cs2[c])
               /\ \A q \in 1..Len(ps2) : Follows(ps2, cs2[c], q) =>
                     JobLink(js2, cs2[c].p, q) \/ CapLink(cs2, rs2, cs2[c].p, q)
    <2>1. c \in 1..Len(cs) /\ cs2[c] = cs[c] /\ cs[c].p \in 1..Len(ps) /\ GotOK(cs[c].got, Len(ps))
      BY <1>1 DEF CapsOK
    <2>2. c # 0
      BY <2>1
    <2>3. /\ Outcome(ps, cs[c])
          /\ \A q \in 1..Len(ps) : Follows(ps, cs[c], q) =>
                JobLink(js, cs[c].p, q) \/ CapLink(cs, rs, cs[c].p, q)
      BY <1>1, <2>1, <2>2 DEF OutcomesOK, CallLink
    <2>4. ASSUME NEW q, cs[c].got[2] = OtherPromise(q) PROVE q \in 1..Len(ps)
      BY <2>1, <2>4, ResTags DEF GotOK
    <2>5. Outcome(ps2, cs[c])
      <3> DEFINE d == cs[c]
                 res == d.got[2]
      <3>1. ps2[d.p].state = ps[d.p].state /\ ps2[d.p].result = ps[d.p].result
        BY <2>1
      <3>2. ASSUME NEW q \in 1..Len(ps2), ~d.got[1], res = OtherPromise(q), q # d.p, ps2[d.p].state # "pending"
            PROVE  /\ ps2[q].state # "pending"
                   /\ ps2[q].result # "object" => ps2[d.p].state = ps2[q].state /\ ps2[d.p].result = ps2[q].result
        <4>1. q \in 1..Len(ps) /\ ps2[q].state = ps[q].state /\ ps2[q].result = ps[q].result
          BY <3>2, <2>4
        <4> QED BY <4>1, <3>1, <3>2, <2>3 DEF Outcome
      <3> QED BY <3>1, <3>2, <2>3 DEF Outcome
    <2>6. ASSUME NEW q \in 1..Len(ps2), Follows(ps2, cs[c], q)
          PROVE  JobLink(js2, cs[c].p, q) \/ CapLink(cs2, rs2, cs[c].p, q)
      <3>1. q \in 1..Len(ps) /\ Follows(ps, cs[c], q)
        BY <2>1, <2>4, <2>6 DEF Follows
      <3>2. CASE JobLink(js, cs[c].p, q)
        BY <3>1, <3>2, <2>1
      <3>3. CASE CapLink(cs, rs, cs[c].p, q)
        <4>1. PICK r \in 1..Len(rs) : rs[r].on = q /\ rs[r].handlers = {} /\ CapWay(cs[rs[r].cap], cs[c].p)
          BY <3>3 DEF CapLink
        <4>2. rs2[r] = rs[r] /\ r \in 1..Len(rs2) /\ cs2[rs[r].cap] = cs[rs[r].cap]
          BY DEF ReactsOK
        <4> QED BY <4>1, <4>2 DEF CapLink
      <3> QED BY <3>1, <3>2, <3>3, <2>3
    <2> QED BY <2>1, <2>5, <2>6
  <1>2. ASSUME NEW k \in 1..Len(st2), st2[k].op = "getter"
        PROVE  ~cs2[st2[k].cap].got[1] /\ cs2[st2[k].cap].got[2] = Object
    <2>1. PICK l \in 1..Len(st) : st[l] = st2[k]
      BY <1>2
    <2>2. st2[k].cap \in 1..Len(cs) /\ st2[k].cap # 0
      BY <1>2
    <2>3. ~cs[st[l].cap].got[1] /\ cs[st[l].cap].got[2] = Object
      BY <2>1, <2>2, <1>2 DEF OutcomesOK
    <2> QED BY <2>1, <2>2, <2>3
  <1> QED BY <1>1, <1>2 DEF OutcomesOK

(* newPromise, of all of the invariant.                                    *)
LEMMA NewPromiseStep ==
    ASSUME NEW ps, NEW cs, NEW rs, NEW js, NEW st, WInv(ps, cs, rs, js, st, 0)
    PROVE  WInv(Append(ps, NewPromise),
                Append(cs, js_create_resolving_functions(Len(ps) + 1, FALSE)), rs, js, st, 0)
  <1> DEFINE d == js_create_resolving_functions(Len(ps) + 1, FALSE)
             ps2 == Append(ps, NewPromise)
             cs2 == Append(cs, d)
  <1>1. ps \in Seq(PromiseRec) /\ cs \in Seq(CapRec) /\ Len(ps) \in Nat /\ Len(cs) \in Nat
    BY LenProperties DEF WInv, Core, Typed
  <1>2. Core(ps2, cs2, rs, js, st, 0)
    BY PromiseMade DEF WInv
  <1>3. ~d.already_resolved /\ d \in CapRec /\ NewPromise \in PromiseRec
    <2>1. <<>> \in Seq(Nat) /\ <<>> \in Seq(BOOLEAN)
      OBVIOUS
    <2> QED BY <1>1, <2>1 DEF js_create_resolving_functions, CapRec, NewPromise, PromiseRec
  <1> HIDE DEF d
  <1>4. \A i \in 1..Len(ps) : i \in 1..Len(ps2) /\ ps2[i] = ps[i]
    BY <1>1, <1>3, AppendIs
  <1>5. /\ \A i \in 1..Len(cs) : i \in 1..Len(cs2) /\ cs2[i] = cs[i]
        /\ \A i \in 1..Len(cs2) : i \in 1..Len(cs) \/ ~cs2[i].already_resolved
    <2>1. /\ cs2[Len(cs) + 1] = d /\ Len(cs2) = Len(cs) + 1
          /\ \A i \in 1..(Len(cs) + 1) : i \in 1..Len(cs) \/ i = Len(cs) + 1
          /\ \A i \in 1..Len(cs) : i \in 1..(Len(cs) + 1) /\ cs2[i] = cs[i]
      BY <1>1, <1>3, AppendIs
    <2> HIDE DEF cs2
    <2> QED BY <2>1, <1>3
  <1> HIDE DEF ps2, cs2
  <1>6. \A k \in 1..Len(st) : st[k].op = "getter" => st[k].cap \in 1..Len(cs)
    BY DEF WInv, Core, StackOK, FrameOK
  <1>7. CapsOK(ps, cs) /\ ReactsOK(ps, cs, rs) /\ OutcomesOK(ps, cs, rs, js, st, 0)
    BY DEF WInv, Core
  <1>8. OutcomesOK(ps2, cs2, rs, js, st, 0)
    BY <1>1, <1>4, <1>5, <1>6, <1>7, OutcomesKept
  <1>9. WInv(ps2, cs2, rs, js, st, 0)
    BY <1>2, <1>8 DEF WInv
  <1> QED BY <1>9 DEF ps2, cs2, d

(* js_promise_then before the reaction reaches its promise.                *)
LEMMA ThenStep ==
    ASSUME NEW ps, NEW cs, NEW rs, NEW js, NEW st, WInv(ps, cs, rs, js, st, 0),
           NEW p \in 1..Len(ps), NEW hs \in SUBSET {"fulfilled", "rejected"}
    PROVE  WInv(Append(ps, NewPromise),
                Append(cs, js_create_resolving_functions(Len(ps) + 1, TRUE)),
                Append(rs, Reaction(p, hs, Len(cs) + 1)), js,
                Append(st, TrackerFrame(p, Len(rs) + 1)), 0)
  <1> DEFINE d == js_create_resolving_functions(Len(ps) + 1, FALSE)
             e == js_create_resolving_functions(Len(ps) + 1, TRUE)
             ps2 == Append(ps, NewPromise)
             cs2 == Append(cs, e)
             nr == Reaction(p, hs, Len(cs) + 1)
             rs2 == Append(rs, nr)
             f == TrackerFrame(p, Len(rs) + 1)
             st2 == Append(st, f)
  <1>1. /\ ps \in Seq(PromiseRec) /\ cs \in Seq(CapRec) /\ Len(ps) \in Nat /\ Len(cs) \in Nat
        /\ rs \in Seq(ReactRec) /\ st \in Seq(Frame) /\ Len(rs) \in Nat
    BY LenProperties DEF WInv, Core, Typed
  <1>2. Core(ps2, Append(cs, d), rs, js, st, 0)
    BY PromiseMade DEF WInv
  <1>3. /\ ~e.already_resolved /\ e \in CapRec /\ NewPromise \in PromiseRec
        /\ nr \in ReactRec /\ f \in Frame /\ f.op = "tracker"
    <2>1. <<>> \in Seq(Nat) /\ <<>> \in Seq(BOOLEAN)
      OBVIOUS
    <2>2. f \in Frame /\ f.op = "tracker"
      BY <1>1 DEF TrackerFrame, Frame, Ops
    <2>3. NewPromise \in PromiseRec
      BY <2>1 DEF NewPromise, PromiseRec
    <2>4. ~e.already_resolved /\ e \in CapRec
      BY <1>1 DEF js_create_resolving_functions, CapRec
    <2>5. nr \in ReactRec
      <3>1. p \in Nat /\ Len(cs) + 1 \in Nat
        BY <1>1
      <3> QED BY <3>1 DEF Reaction, ReactRec
    <2> QED BY <2>2, <2>3, <2>4, <2>5
  <1>4. \A i \in 1..Len(ps) : i \in 1..Len(ps2) /\ ps2[i] = ps[i]
    BY <1>1, <1>3, AppendIs
  <1>5. \A k \in 1..Len(st) : st[k].op \in {"getter", "then"} => st[k].cap \in 1..Len(cs)
    BY DEF WInv, Core, StackOK, FrameOK
  <1>6. Core(ps2, cs2, rs2, js, st2, 0)
    <2>1. Len(ps) + 1 \in Nat /\ p \in 1..Len(ps2)
      BY <1>1, <1>4
    <2> HIDE DEF ps2
    <2> QED BY <1>1, <1>2, <1>5, <2>1, ReactionMade
  <1> HIDE DEF e, nr, f
  <1>7. /\ \A i \in 1..Len(cs) : i \in 1..Len(cs2) /\ cs2[i] = cs[i]
        /\ \A i \in 1..Len(cs2) : i \in 1..Len(cs) \/ ~cs2[i].already_resolved
    <2>1. /\ cs2[Len(cs) + 1] = e /\ Len(cs2) = Len(cs) + 1
          /\ \A i \in 1..(Len(cs) + 1) : i \in 1..Len(cs) \/ i = Len(cs) + 1
          /\ \A i \in 1..Len(cs) : i \in 1..(Len(cs) + 1) /\ cs2[i] = cs[i]
      BY <1>1, <1>3, AppendIs
    <2> HIDE DEF cs2
    <2> QED BY <2>1, <1>3
  <1>8. \A i \in 1..Len(rs) : i \in 1..Len(rs2) /\ rs2[i] = rs[i]
    BY <1>1, <1>3, AppendIs
  <1>9. \A k \in 1..Len(st2) : st2[k].op = "getter" =>
           st2[k].cap \in 1..Len(cs) /\ \E l \in 1..Len(st) : st[l] = st2[k]
    <2>1. /\ st2[Len(st) + 1] = f /\ Len(st2) = Len(st) + 1
          /\ \A i \in 1..(Len(st) + 1) : i \in 1..Len(st) \/ i = Len(st) + 1
          /\ \A i \in 1..Len(st) : st2[i] = st[i]
      BY <1>1, <1>3, AppendIs
    <2> HIDE DEF st2
    <2> QED BY <2>1, <1>3, <1>5
  <1> HIDE DEF ps2, cs2, rs2, st2
  <1>10. CapsOK(ps, cs) /\ ReactsOK(ps, cs, rs) /\ OutcomesOK(ps, cs, rs, js, st, 0)
    BY DEF WInv, Core
  <1>11. OutcomesOK(ps2, cs2, rs2, js, st2, 0)
    BY <1>1, <1>4, <1>7, <1>8, <1>9, <1>10, OutcomesKept
  <1>12. WInv(ps2, cs2, rs2, js, st2, 0)
    BY <1>6, <1>11 DEF WInv
  <1> QED BY <1>12 DEF ps2, cs2, rs2, st2, e, nr, f

(* The job of a thenable that is a promise, before the reaction reaches    *)
(* it.                                                                     *)
LEMMA PromiseJobStep ==
    ASSUME NEW ps, NEW cs, NEW rs, NEW js, NEW st, WInv(ps, cs, rs, js, st, 0),
           js # <<>>, NEW p \in Nat, NEW q \in Nat, Head(js) = ThenableJob(p, OtherPromise(q))
    PROVE  /\ q \in 1..Len(ps)
           /\ WInv(ps, Append(cs, js_create_resolving_functions(p, TRUE)),
                Append(rs, Reaction(q, {}, Len(cs) + 1)), Tail(js),
                Append(st, TrackerFrame(q, Len(rs) + 1)), 0)
  <1> DEFINE d == js_create_resolving_functions(p, FALSE)
             e == js_create_resolving_functions(p, TRUE)
             cs2 == Append(cs, e)
             c == Len(cs) + 1
             nr == Reaction(q, {}, c)
             rs2 == Append(rs, nr)
             r == Len(rs) + 1
             f == TrackerFrame(q, r)
             st2 == Append(st, f)
             t == Tail(js)
  <1>1. /\ ps \in Seq(PromiseRec) /\ cs \in Seq(CapRec) /\ Len(ps) \in Nat /\ Len(cs) \in Nat
        /\ rs \in Seq(ReactRec) /\ st \in Seq(Frame) /\ Len(rs) \in Nat /\ js \in Seq(Job)
    BY LenProperties DEF WInv, Core, Typed
  <1>2. /\ js[1] = ThenableJob(p, OtherPromise(q)) /\ 1 \in 1..Len(js)
        /\ Len(t) = Len(js) - 1
        /\ \A i \in 1..Len(js) : i # 1 => i - 1 \in 1..(Len(js) - 1) /\ t[i - 1] = js[i]
    BY <1>1, TailIs
  <1> HIDE DEF t
  <1>3. JobWay(Head(js), p)
    BY DEF JobWay
  <1>4. p \in 1..Len(ps) /\ q \in 1..Len(ps)
    BY <1>2 DEF WInv, Core, JobsOK, JobOK
  <1>5. Core(ps, Append(cs, d), rs, t, st, 0)
    BY <1>3, FunctionsMade DEF WInv, t
  <1>6. \A k \in 1..Len(st) : st[k].op \in {"getter", "then"} => st[k].cap \in 1..Len(cs)
    BY DEF WInv, Core, StackOK, FrameOK
  <1>7. Core(ps, cs2, rs2, t, st2, 0)
    BY <1>1, <1>4, <1>5, <1>6, ReactionMade
  <1>8. /\ ~e.already_resolved /\ e \in CapRec /\ e.p = p
        /\ nr \in ReactRec /\ nr.on = q /\ nr.handlers = {} /\ nr.cap = c
        /\ f \in Frame /\ f.op = "tracker"
    BY <1>1 DEF js_create_resolving_functions, CapRec, Reaction, ReactRec, TrackerFrame, Frame, Ops
  <1> HIDE DEF e, nr, f, d
  <1>9. /\ cs2[c] = e /\ Len(cs2) = c /\ c \in 1..c
        /\ \A i \in 1..c : i \in 1..Len(cs) \/ i = c
        /\ \A i \in 1..Len(cs) : i \in 1..c /\ cs2[i] = cs[i]
    BY <1>1, <1>8, AppendIs, SMTT(30)
  <1>10. /\ rs2[r] = nr /\ Len(rs2) = r /\ r \in 1..r
         /\ \A i \in 1..Len(rs) : i \in 1..r /\ rs2[i] = rs[i]
    BY <1>1, <1>8, AppendIs
  <1> HIDE DEF cs2, rs2, c, r
  <1>11. \A k \in 1..Len(st2) : st2[k].op = "getter" =>
           st2[k].cap \in 1..Len(cs) /\ \E l \in 1..Len(st) : st[l] = st2[k]
    <2>1. /\ st2[Len(st) + 1] = f /\ Len(st2) = Len(st) + 1
          /\ \A i \in 1..(Len(st) + 1) : i \in 1..Len(st) \/ i = Len(st) + 1
          /\ \A i \in 1..Len(st) : st2[i] = st[i]
      BY <1>1, <1>8, AppendIs
    <2> HIDE DEF st2
    <2> QED BY <2>1, <1>8, <1>6
  <1>12. \A a, b \in 1..Len(ps) : JobLink(js, a, b) => JobLink(t, a, b) \/ CapLink(cs2, rs2, a, b)
    <2> SUFFICES ASSUME NEW a \in 1..Len(ps), NEW b \in 1..Len(ps), JobLink(js, a, b)
                 PROVE  JobLink(t, a, b) \/ CapLink(cs2, rs2, a, b)
      OBVIOUS
    <2>1. PICK k \in 1..Len(js) : js[k] = ThenableJob(a, OtherPromise(b))
      BY DEF JobLink
    <2>2. CASE k # 1
      BY <2>1, <2>2, <1>2 DEF JobLink
    <2>3. CASE k = 1
      <3>1. a = p /\ OtherPromise(b) = OtherPromise(q)
        BY <2>1, <2>3, <1>2, JobTags
      <3>2. b = q
        BY <3>1, ResTags
      <3>3. CapWay(cs2[c], p)
        BY <1>8, <1>9 DEF CapWay
      <3> QED BY <3>1, <3>2, <3>3, <1>8, <1>10 DEF CapLink
    <2> QED BY <2>2, <2>3
  <1>13. CapsOK(ps, cs) /\ ReactsOK(ps, cs, rs) /\ OutcomesOK(ps, cs, rs, js, st, 0)
    BY DEF WInv, Core
  <1> HIDE DEF st2
  <1>14. /\ \A i \in 1..Len(cs) : i \in 1..Len(cs2) /\ cs2[i] = cs[i]
         /\ \A i \in 1..Len(cs2) : i \in 1..Len(cs) \/ ~cs2[i].already_resolved
         /\ \A i \in 1..Len(rs) : i \in 1..Len(rs2) /\ rs2[i] = rs[i]
    BY <1>8, <1>9, <1>10
  <1>15. OutcomesOK(ps, cs2, rs2, t, st2, 0)
    BY <1>1, <1>11, <1>12, <1>13, <1>14, OutcomesKept
  <1>16. WInv(ps, cs2, rs2, t, st2, 0)
    BY <1>7, <1>15 DEF WInv
  <1> QED BY <1>4, <1>16 DEF cs2, rs2, st2, e, nr, f, c, r, t

(* The job of another thenable.                                            *)
LEMMA ObjectJobStep ==
    ASSUME NEW ps, NEW cs, NEW rs, NEW js, NEW st, WInv(ps, cs, rs, js, st, 0),
           js # <<>>, NEW p \in Nat, Head(js) = ThenableJob(p, Object)
    PROVE  WInv(ps, Append(cs, js_create_resolving_functions(p, FALSE)), rs, Tail(js),
                Append(st, CodeFrame("then", Len(cs) + 1)), 0)
  <1> DEFINE d == js_create_resolving_functions(p, FALSE)
             cs2 == Append(cs, d)
             c == Len(cs) + 1
             f == CodeFrame("then", c)
             t == Tail(js)
  <1>1. /\ ps \in Seq(PromiseRec) /\ cs \in Seq(CapRec) /\ Len(ps) \in Nat /\ Len(cs) \in Nat
        /\ st \in Seq(Frame) /\ js \in Seq(Job)
    BY LenProperties DEF WInv, Core, Typed
  <1>2. /\ js[1] = ThenableJob(p, Object) /\ 1 \in 1..Len(js)
        /\ Len(t) = Len(js) - 1
        /\ \A i \in 1..Len(js) : i # 1 => i - 1 \in 1..(Len(js) - 1) /\ t[i - 1] = js[i]
    BY <1>1, TailIs
  <1> HIDE DEF t
  <1>3. JobWay(Head(js), p)
    BY DEF JobWay
  <1>4. Core(ps, cs2, rs, t, st, 0)
    BY <1>3, FunctionsMade DEF WInv, t
  <1>5. /\ ~d.already_resolved /\ d \in CapRec /\ ~d.hidden
        /\ f \in Frame /\ f.op = "then" /\ f.cap = c
    BY <1>1 DEF js_create_resolving_functions, CapRec, CodeFrame, Frame, Ops
  <1> HIDE DEF d, f
  <1>6. /\ cs2[c] = d /\ Len(cs2) = c /\ c \in 1..c
        /\ \A i \in 1..c : i \in 1..Len(cs) \/ i = c
        /\ \A i \in 1..Len(cs) : i \in 1..c /\ cs2[i] = cs[i]
    BY <1>1, <1>5, AppendIs
  <1> HIDE DEF cs2, c
  <1>7. \A a, b \in 1..Len(ps) : JobLink(js, a, b) => JobLink(t, a, b)
    <2> SUFFICES ASSUME NEW a \in 1..Len(ps), NEW b \in 1..Len(ps), JobLink(js, a, b)
                 PROVE  JobLink(t, a, b)
      OBVIOUS
    <2>1. PICK k \in 1..Len(js) : js[k] = ThenableJob(a, OtherPromise(b))
      BY DEF JobLink
    <2>2. k # 1
      BY <2>1, <1>2, JobTags, ResTags
    <2> QED BY <2>1, <2>2, <1>2 DEF JobLink
  <1>8. CapsOK(ps, cs) /\ ReactsOK(ps, cs, rs) /\ OutcomesOK(ps, cs, rs, js, st, 0)
    BY DEF WInv, Core
  <1>9. /\ \A i \in 1..Len(cs) : i \in 1..Len(cs2) /\ cs2[i] = cs[i]
        /\ \A i \in 1..Len(cs2) : i \in 1..Len(cs) \/ ~cs2[i].already_resolved
    BY <1>5, <1>6
  <1>10. \A k \in 1..Len(st) : st[k].op = "getter" => st[k].cap \in 1..Len(cs)
    BY DEF WInv, Core, StackOK, FrameOK
  <1>11. OutcomesOK(ps, cs2, rs, t, st, 0)
    BY <1>1, <1>7, <1>8, <1>9, <1>10, OutcomesKept
  <1>12. WInv(ps, cs2, rs, t, st, 0)
    BY <1>4, <1>11 DEF WInv
  <1>13. FrameOK(f, ps, cs2, rs) /\ Neutral(f)
    BY <1>5, <1>6 DEF FrameOK, Neutral
  <1>14. WInv(ps, cs2, rs, t, Append(st, f), 0)
    BY <1>1, <1>5, <1>12, <1>13, NeutralFrame
  <1> QED BY <1>14 DEF cs2, d, c, f, t

(* Different reactions of those that there are cannot be more than those.  *)
LEMMA DifferentAreNoMore ==
    ASSUME NEW n \in Nat, NEW m \in Nat, NEW f,
           \A i \in 1..n : f[i] \in 1..m,
           \A i, j \in 1..n : f[i] = f[j] => i = j
    PROVE  n <= m
  <1> DEFINE g == [i \in 1..n |-> f[i]]
  <1>1. g \in Injection(1..n, 1..m)
    BY DEF Injection, IsInjective
  <1>2. /\ IsFiniteSet(1..m) /\ Cardinality(1..m) = m /\ Cardinality(1..n) = n
    BY FS_Interval
  <1> QED BY <1>1, <1>2, FS_Injection

(* How the promises and the queue change when reaction r reaches promise   *)
(* p.                                                                      *)
Registers(ps, ps2, js, js2, p, r) ==
    /\ ps2 \in Seq(PromiseRec) /\ Len(ps2) = Len(ps)
    /\ \A i \in 1..Len(ps) : i # p => ps2[i] = ps[i]
    /\ ps2[p].state = ps[p].state /\ ps2[p].result = ps[p].result /\ ps2[p].ran = ps[p].ran
    /\ ps2[p].registered = Append(ps[p].registered, r) /\ ps2[p].is_handled
    /\ ps[p].state = "pending" => ps2[p].reactions = Append(ps[p].reactions, r) /\ js2 = js
    /\ ps[p].state # "pending" => ps2[p].reactions = ps[p].reactions /\ js2 = Append(js, ReactionJob(r))

(* A reaction reaches its promise: it waits there, or, if the promise is   *)
(* settled, its job is the last.                                           *)
LEMMA Registered ==
    ASSUME NEW ps, NEW cs, NEW rs, NEW js, NEW st \in Seq(Frame), NEW p \in Nat, NEW r \in Nat \ {0},
           WInv(ps, cs, rs, js, Append(st, TrackerFrame(p, r)), 0),
           NEW ps2, NEW js2, Registers(ps, ps2, js, js2, p, r)
    PROVE  WInv(ps2, cs, rs, js2, st, 0)
  <1> DEFINE f == TrackerFrame(p, r)
             t == Append(st, f)
             n == Len(st)
             m == Len(st) + 1
             old == ps[p].registered
             new == ps2[p].registered
             h == Len(old)
             nj == Len(js)
  <1>0. /\ ps \in Seq(PromiseRec) /\ cs \in Seq(CapRec) /\ rs \in Seq(ReactRec) /\ js \in Seq(Job)
        /\ t \in Seq(Frame) /\ Len(ps) \in Nat /\ Len(cs) \in Nat /\ Len(rs) \in Nat /\ nj \in Nat
    BY LenProperties DEF WInv, Core, Typed
  <1>a. ps2 \in Seq(PromiseRec) /\ Len(ps2) = Len(ps) /\ \A i \in 1..Len(ps) : i # p => ps2[i] = ps[i]
    BY DEF Registers
  <1>b. /\ ps2[p].state = ps[p].state /\ ps2[p].result = ps[p].result /\ ps2[p].ran = ps[p].ran
        /\ ps2[p].is_handled
    BY DEF Registers
  <1>c. \A i \in 1..Len(ps) : ps2[i].state = ps[i].state /\ ps2[i].result = ps[i].result /\ ps2[i].ran = ps[i].ran
    BY <1>a, <1>b
  <1>1. f.op = "tracker" /\ f.p = p /\ f.react = r /\ r # 0 /\ r \in Nat
    BY DEF TrackerFrame
  <1> HIDE DEF f
  <1>2. /\ Len(t) = m /\ t[m] = f /\ m \in 1..m /\ m \notin 1..n
        /\ \A i \in 1..n : i \in 1..m /\ t[i] = st[i]
        /\ \A i \in 1..m : i \in 1..n \/ i = m
    <2>1. f \in Frame
      BY DEF f, TrackerFrame, Frame, Ops
    <2> QED BY <2>1, AppendIs
  <1>3. WInv(ps, cs, rs, js, t, 0)
    BY DEF f
  <1> HIDE DEF t, m, n, nj
  <1>4. p \in 1..Len(ps) /\ r \in 1..Len(rs) /\ rs[r].on = p
    BY <1>1, <1>2, <1>3 DEF WInv, Core, StackOK, FrameOK
  <1>5. ~InRegistered(ps[p], r)
    <2>1. IsAdding(t[m], r)
      BY <1>1, <1>2 DEF IsAdding
    <2> QED BY <2>1, <1>2, <1>3, <1>4 DEF WInv, Core, TrackersOK
  <1>6. /\ old \in Seq(Nat) /\ h \in Nat /\ Len(new) = h + 1
        /\ \A i \in 1..h : i \in 1..(h + 1) /\ new[i] = old[i]
        /\ new[h + 1] = r /\ h + 1 \in 1..(h + 1)
        /\ \A i \in 1..(h + 1) : i \in 1..h \/ i = h + 1
        /\ Len(ps[p].ran) \in Nat /\ ps[p] \in PromiseRec
    <2>1. ps[p] \in PromiseRec
      BY <1>0, <1>4, ElementOfSeq
    <2>2. old \in Seq(Nat) /\ ps[p].ran \in Seq(Nat)
      BY <2>1 DEF PromiseRec
    <2>3. h \in Nat /\ Len(ps[p].ran) \in Nat
      BY <2>2, LenProperties
    <2>4. new = Append(old, r)
      BY DEF Registers
    <2> HIDE DEF old, new
    <2> QED BY <2>1, <2>2, <2>3, <2>4, <1>1, AppendIs
  <1>7. ListOK(ps[p], p, rs)
    BY <1>3, <1>4 DEF WInv, Core, ListsOK
  <1>d. Len(ps[p].registered) = h /\ Len(ps2[p].registered) = h + 1 /\ new = ps2[p].registered /\ old = ps[p].registered
    BY <1>6
  <1> HIDE DEF h, old, new
  <1>8. /\ \A i \in 1..h : old[i] # r
        /\ \A k \in 1..Len(js) : js[k] # ReactionJob(r)
    <2>1. \A i \in 1..h : old[i] # r
      BY <1>5, <1>d DEF InRegistered
    <2>2. \A k \in 1..Len(js) : js[k] # ReactionJob(r)
      BY <1>3, <1>4, <2>1, <1>d DEF WInv, Core, Queued, WaitsIn
    <2> QED BY <2>1, <2>2
  (* The queue.                                                            *)
  <1>9. /\ js2 \in Seq(Job)
        /\ \A k \in 1..nj : k \in 1..Len(js2) /\ js2[k] = js[k]
        /\ \A k \in 1..Len(js2) : k \notin 1..nj =>
              k = nj + 1 /\ js2[k] = ReactionJob(r) /\ ps[p].state # "pending"
        /\ ps[p].state # "pending" => \E k \in 1..Len(js2) : js2[k] = ReactionJob(r)
    <2>1. CASE ps[p].state = "pending"
      <3>1. js2 = js
        BY <2>1 DEF Registers
      <3> QED BY <3>1, <2>1, <1>0 DEF nj
    <2>2. CASE ps[p].state # "pending"
      <3>1. ReactionJob(r) \in Job /\ js2 = Append(js, ReactionJob(r))
        BY <1>1, <2>2 DEF Job, Registers
      <3>2. /\ js2 \in Seq(Job) /\ Len(js2) = nj + 1
            /\ \A k \in 1..nj : k \in 1..(nj + 1) /\ js2[k] = js[k]
            /\ js2[nj + 1] = ReactionJob(r) /\ nj + 1 \in 1..(nj + 1)
            /\ \A k \in 1..(nj + 1) : k \in 1..nj \/ k = nj + 1
        BY <3>1, <1>0, AppendIs DEF nj
      <3> QED BY <3>2, <2>2
    <2> QED BY <2>1, <2>2
  <1>10. \A k \in 1..Len(js2) : \A j : js2[k] = j => (k \in 1..nj /\ js[k] = j) \/ j = ReactionJob(r)
    BY <1>9
  <1>11. Typed(ps2, cs, rs, js2, st)
    BY <1>0, <1>a, <1>9 DEF Typed
  <1>12. CapsOK(ps2, cs) /\ ReactsOK(ps2, cs, rs)
    BY <1>a, <1>3 DEF WInv, Core, CapsOK, ReactsOK
  <1>13. JobsOK(ps2, rs, js2)
    <2>1. JobOK(ReactionJob(r), Len(ps), Len(rs))
      BY <1>4, JobTags DEF JobOK
    <2> QED BY <2>1, <1>a, <1>3, <1>9 DEF WInv, Core, JobsOK, nj
  <1>14. StackOK(ps2, cs, rs, st)
    <2>1. \A k \in 1..n : FrameOK(st[k], ps, cs, rs)
      BY <1>2, <1>3 DEF WInv, Core, StackOK
    <2> QED BY <2>1, <1>a, <1>c DEF StackOK, FrameOK, n
  <1>15. ListsOK(ps2, rs)
    <2>1. ListOK(ps2[p], p, rs)
      <3>1. \A i \in 1..(h + 1) : new[i] \in 1..Len(rs) /\ rs[new[i]].on = p
        <4>1. \A i \in 1..h : old[i] \in 1..Len(rs) /\ rs[old[i]].on = p
          BY <1>7, <1>d DEF ListOK
        <4> QED BY <4>1, <1>4, <1>6
      <3>2. \A i, j \in 1..(h + 1) : new[i] = new[j] => i = j
        <4>1. \A i, j \in 1..h : old[i] = old[j] => i = j
          BY <1>7, <1>d DEF ListOK
        <4> QED BY <4>1, <1>6, <1>8
      <3>3. h + 1 <= Len(rs)
        <4>1. h + 1 \in Nat
          BY <1>6
        <4> QED BY <3>1, <3>2, <4>1, <1>0, DifferentAreNoMore
      <3>4. Len(ps2[p].ran) <= h + 1 /\ \A i \in 1..Len(ps2[p].ran) : ps2[p].ran[i] = new[i]
        <4>1. Len(ps[p].ran) <= h /\ \A i \in 1..Len(ps[p].ran) : ps[p].ran[i] = old[i]
          BY <1>7, <1>d DEF ListOK
        <4>2. \A i \in 1..Len(ps[p].ran) : i \in 1..h
          BY <4>1, <1>6
        <4> QED BY <4>1, <4>2, <1>6, <1>b
      <3>5. ps2[p].state = "pending" => ps2[p].reactions = new /\ ps2[p].ran = <<>>
        BY <1>b, <1>d, <1>7 DEF ListOK, Registers
      <3>6. ps2[p].state # "pending" => ps2[p].reactions = <<>> /\ ps2[p].result \in Results
        BY <1>b, <1>7 DEF ListOK, Registers
      <3>7. ps2[p].registered = new /\ Len(new) = h + 1
        BY <1>6, <1>d
      <3> QED BY <3>1, <3>2, <3>3, <3>4, <3>5, <3>6, <3>7, <1>b DEF ListOK
    <2> QED BY <2>1, <1>a, <1>3 DEF WInv, Core, ListsOK
  <1>16. Queued(ps2, rs, js2)
    <2> SUFFICES ASSUME NEW k \in 1..Len(js2), NEW s \in 1..Len(rs), js2[k] = ReactionJob(s)
                 PROVE  WaitsIn(ps2[rs[s].on], s)
      BY DEF Queued
    <2>1. CASE k \in 1..nj
      <3>1. WaitsIn(ps[rs[s].on], s) /\ rs[s].on \in 1..Len(ps)
        <4>1. js[k] = ReactionJob(s)
          BY <2>1, <1>9
        <4>2. Queued(ps, rs, js) /\ ReactsOK(ps, cs, rs)
          BY <1>3 DEF WInv, Core
        <4> QED BY <4>1, <4>2, <2>1 DEF Queued, ReactsOK, nj
      <3>2. CASE rs[s].on # p
        BY <3>1, <3>2, <1>a
      <3>3. CASE rs[s].on = p
        BY <3>1, <3>3, <1>6, <1>b, <1>d, ZenonT(60) DEF WaitsIn
      <3> QED BY <3>2, <3>3
    <2>2. CASE k \notin 1..nj
      <3>1. s = r /\ ps[p].state # "pending"
        BY <2>2, <1>9, JobTags
      <3>2. h + 1 > Len(ps2[p].ran) /\ h + 1 \in 1..Len(ps2[p].registered) /\ ps2[p].registered[h + 1] = r
        <4>1. Len(ps[p].ran) <= h
          BY <1>7, <1>d DEF ListOK
        <4> QED BY <4>1, <1>6, <1>b, <1>d
      <3> QED BY <3>1, <3>2, <1>4, <1>b DEF WaitsIn
    <2> QED BY <2>1, <2>2
  <1>17. AllQueued(ps2, js2)
    <2> SUFFICES ASSUME NEW q \in 1..Len(ps), ps2[q].state # "pending",
                        NEW i \in 1..Len(ps2[q].registered), i > Len(ps2[q].ran)
                 PROVE  \E k \in 1..Len(js2) : js2[k] = ReactionJob(ps2[q].registered[i])
      BY <1>a DEF AllQueued
    <2>0. AllQueued(ps, js)
      BY <1>3 DEF WInv, Core
    <2>1. CASE q # p
      <3>1. \E k \in 1..Len(js) : js[k] = ReactionJob(ps[q].registered[i])
        BY <2>0, <2>1, <1>a DEF AllQueued
      <3> QED BY <3>1, <2>1, <1>a, <1>9 DEF nj
    <2>2. CASE q = p /\ i \in 1..h
      <3>1. \E k \in 1..Len(js) : js[k] = ReactionJob(old[i])
        BY <2>0, <2>2, <1>4, <1>b, <1>d DEF AllQueued
      <3> QED BY <3>1, <2>2, <1>6, <1>9, <1>d DEF nj
    <2>3. CASE q = p /\ i = h + 1
      BY <2>3, <1>6, <1>9, <1>b, <1>d
    <2> QED BY <2>1, <2>2, <2>3, <1>6, <1>d
  <1>18. InOrder(ps2, js2)
    <2> SUFFICES ASSUME NEW q \in 1..Len(ps), NEW i \in 1..Len(ps2[q].registered),
                        NEW j \in 1..Len(ps2[q].registered), NEW k \in 1..Len(js2), NEW l \in 1..Len(js2),
                        k < l, js2[k] = ReactionJob(ps2[q].registered[i]),
                        js2[l] = ReactionJob(ps2[q].registered[j])
                 PROVE  i < j
      BY <1>a DEF InOrder
    <2>0. InOrder(ps, js) /\ ListOK(ps[q], q, rs)
      BY <1>3 DEF WInv, Core, ListsOK
    <2>1. k \in 1..nj /\ js2[k] = js[k]
      <3>1. k \in 1..nj
        <4> SUFFICES ASSUME k \notin 1..nj PROVE FALSE
          OBVIOUS
        <4>1. k = nj + 1 /\ (l \in 1..nj \/ l = nj + 1)
          BY <1>9
        <4> QED BY <4>1, <1>0
      <3> QED BY <3>1, <1>9
    <2>2. CASE q # p
      <3>1. ps2[q] = ps[q]
        BY <2>2, <1>a
      <3>2. ps[q].registered[j] # r
        <4>1. \A a \in 1..Len(ps[q].registered) : rs[ps[q].registered[a]].on = q
          BY <2>0 DEF ListOK
        <4>2. j \in 1..Len(ps[q].registered)
          BY <3>1
        <4> QED BY <4>1, <4>2, <2>2, <1>4
      <3>3. l \in 1..nj /\ js2[l] = js[l]
        BY <3>1, <3>2, <1>9, JobTags
      <3> QED BY <2>0, <2>1, <3>1, <3>3 DEF InOrder, nj
    <2>3. CASE q = p
      <3>1. i \in 1..h /\ new[i] = old[i]
        <4>1. i # h + 1
          BY <2>1, <2>3, <1>6, <1>8, <1>d DEF nj
        <4> QED BY <4>1, <2>3, <1>6, <1>d
      <3>2. CASE l \in 1..nj
        <4>1. j \in 1..h /\ new[j] = old[j] /\ js2[l] = js[l]
          <5>1. j # h + 1
            BY <3>2, <2>3, <1>6, <1>8, <1>9, <1>d DEF nj
          <5> QED BY <5>1, <2>3, <3>2, <1>6, <1>9, <1>d
        <4>2. js[k] = ReactionJob(ps[p].registered[i]) /\ js[l] = ReactionJob(ps[p].registered[j])
          BY <4>1, <3>1, <2>1, <2>3, <1>d
        <4>3. i \in 1..Len(ps[p].registered) /\ j \in 1..Len(ps[p].registered)
          BY <4>1, <3>1, <1>d
        <4> QED BY <4>2, <4>3, <3>2, <2>0, <2>1, <1>4 DEF InOrder, nj
      <3>3. CASE l \notin 1..nj
        <4>1. new[j] = r
          BY <3>3, <2>3, <1>9, <1>d, JobTags
        <4>2. j = h + 1
          BY <4>1, <2>3, <1>6, <1>8, <1>d
        <4> QED BY <4>2, <3>1, <1>6
      <3> QED BY <3>2, <3>3
    <2> QED BY <2>2, <2>3
  <1>19. TrackersOK(ps2, rs, st)
    <2>0. TrackersOK(ps, rs, t)
      BY <1>3 DEF WInv, Core
    <2>1. \A s \in 1..Len(rs) : InRegistered(ps2[rs[s].on], s) <=> InRegistered(ps[rs[s].on], s) \/ s = r
      <3> SUFFICES ASSUME NEW s \in 1..Len(rs)
                   PROVE  InRegistered(ps2[rs[s].on], s) <=> InRegistered(ps[rs[s].on], s) \/ s = r
        OBVIOUS
      <3>1. rs[s].on \in 1..Len(ps)
        BY <1>3 DEF WInv, Core, ReactsOK
      <3>2. CASE rs[s].on # p
        BY <3>1, <3>2, <1>4, <1>a
      <3>3. CASE rs[s].on = p
        <4>1. InRegistered(ps[p], s) <=> \E i \in 1..h : old[i] = s
          BY <1>d DEF InRegistered
        <4>2. InRegistered(ps2[p], s) <=> \E i \in 1..(h + 1) : new[i] = s
          BY <1>d DEF InRegistered
        <4> QED BY <3>3, <4>1, <4>2, <1>6
      <3> QED BY <3>2, <3>3
    <2>2. IsAdding(t[m], r)
      BY <1>1, <1>2 DEF IsAdding
    <2>3. \A k \in 1..n : ~IsAdding(st[k], r)
      <3> SUFFICES ASSUME NEW k \in 1..n, IsAdding(st[k], r) PROVE FALSE
        OBVIOUS
      <3>1. k \in 1..m /\ IsAdding(t[k], r) /\ k # m
        BY <1>2
      <3> QED BY <3>1, <2>0, <2>2, <1>2, <1>4 DEF TrackersOK
    <2>4. \A s \in 1..Len(rs) : IsAdding(t[m], s) => s = r
      BY <1>1, <1>2 DEF IsAdding
    <2>5. \A k \in 1..n : \A s \in 1..Len(rs) : IsAdding(st[k], s) => ~InRegistered(ps2[rs[s].on], s)
      BY <2>0, <2>1, <2>3, <1>2 DEF TrackersOK
    <2>6. \A k, l \in 1..n : \A s \in 1..Len(rs) : IsAdding(st[k], s) /\ IsAdding(st[l], s) => k = l
      BY <2>0, <1>2 DEF TrackersOK
    <2>7. \A s \in 1..Len(rs) : ~InRegistered(ps2[rs[s].on], s) => \E k \in 1..n : IsAdding(st[k], s)
      <3> SUFFICES ASSUME NEW s \in 1..Len(rs), ~InRegistered(ps2[rs[s].on], s)
                   PROVE  \E k \in 1..n : IsAdding(st[k], s)
        OBVIOUS
      <3>1. s # r /\ \E k \in 1..m : IsAdding(t[k], s)
        BY <2>0, <2>1, <1>2 DEF TrackersOK
      <3> QED BY <3>1, <2>4, <1>2
    <2> QED BY <2>5, <2>6, <2>7 DEF TrackersOK, n
  <1>20. HandlersOK(ps2, cs, rs, st, 0)
    <2>0. HandlersOK(ps, cs, rs, t, 0)
      BY <1>3 DEF WInv, Core
    <2>1. \A s \in 1..Len(rs) : InRan(ps2[rs[s].on], s) <=> InRan(ps[rs[s].on], s)
      <3>1. \A q \in 1..Len(ps) : ps2[q].ran = ps[q].ran
        BY <1>c
      <3>2. \A s \in 1..Len(rs) : rs[s].on \in 1..Len(ps)
        BY <1>3 DEF WInv, Core, ReactsOK
      <3> QED BY <3>1, <3>2 DEF InRan
    <2>2. \A k \in 1..n : st[k].op = "handler" => HandlerOK(st[k], ps2, cs, rs, 0)
      <3>1. \A k \in 1..n : st[k].op = "handler" => HandlerOK(st[k], ps, cs, rs, 0)
        BY <2>0, <1>2 DEF HandlersOK
      <3> QED BY <3>1, <2>1 DEF HandlerOK
    <2>3. \A k, l \in 1..n : \A c \in 1..Len(cs) : Handles(st[k], c) /\ Handles(st[l], c) => k = l
      BY <2>0, <1>2 DEF HandlersOK
    <2>4. \A s \in 1..Len(rs) : InRan(ps[rs[s].on], s) /\ ~cs[rs[s].cap].already_resolved =>
             \E k \in 1..n : Handles(st[k], rs[s].cap)
      <3> SUFFICES ASSUME NEW s \in 1..Len(rs), InRan(ps[rs[s].on], s), ~cs[rs[s].cap].already_resolved
                   PROVE  \E k \in 1..n : Handles(st[k], rs[s].cap)
        OBVIOUS
      <3>1. PICK k \in 1..m : Handles(t[k], rs[s].cap)
        BY <2>0, <1>2 DEF HandlersOK
      <3>2. k # m
        BY <3>1, <1>1, <1>2 DEF Handles
      <3> QED BY <3>1, <3>2, <1>2
    <2> QED BY <2>0, <2>1, <2>2, <2>3, <2>4 DEF HandlersOK, n
  <1>21. WaysOK(ps2, cs, js2, st)
    <2> SUFFICES ASSUME NEW q \in 1..Len(ps) PROVE WaysOf(ps2[q], q, cs, js2, st)
      BY <1>a DEF WaysOK
    <2>1. WaysOf(ps[q], q, cs, js, t) /\ ps2[q].state = ps[q].state
      BY <1>c, <1>3 DEF WInv, Core, WaysOK
    <2>2. \A k \in 1..Len(js2) : JobWay(js2[k], q) => k \in 1..nj /\ JobWay(js[k], q)
      <3>1. ~JobWay(ReactionJob(r), q)
        BY JobTags DEF JobWay
      <3> QED BY <3>1, <1>9
    <2>3. \A k \in 1..nj : JobWay(js[k], q) => k \in 1..Len(js2) /\ JobWay(js2[k], q)
      BY <1>9
    <2>4. \A k \in 1..n : GetWay(st[k], cs, q) => k \in 1..m /\ GetWay(t[k], cs, q)
      BY <1>2
    <2>5. \A k \in 1..m : GetWay(t[k], cs, q) => k \in 1..n /\ GetWay(st[k], cs, q)
      <3>1. ~GetWay(f, cs, q)
        BY <1>1 DEF GetWay
      <3> QED BY <3>1, <1>2
    <2> QED BY <2>1, <2>2, <2>3, <2>4, <2>5, <1>2 DEF WaysOf, n, nj
  <1>22. OutcomesOK(ps2, cs, rs, js2, st, 0)
    <2>1. CapsOK(ps, cs) /\ ReactsOK(ps, cs, rs) /\ OutcomesOK(ps, cs, rs, js, t, 0)
      BY <1>3 DEF WInv, Core
    <2>2. \A i \in 1..Len(ps) : ps2[i].state = ps[i].state /\ ps2[i].result = ps[i].result
      BY <1>c
    <2>3. \A k \in 1..n : st[k].op = "getter" =>
             st[k].cap \in 1..Len(cs) /\ \E l \in 1..Len(t) : t[l] = st[k]
      BY <1>2, <1>3 DEF WInv, Core, StackOK, FrameOK
    <2>4. \A a, b : JobLink(js, a, b) => JobLink(js2, a, b)
      BY <1>9 DEF JobLink, nj
    <2> QED BY <2>1, <2>2, <2>3, <2>4, <1>0, <1>a, OutcomesKept DEF n
  <1> QED BY <1>11, <1>12, <1>13, <1>14, <1>15, <1>16, <1>17, <1>18, <1>19, <1>20, <1>21, <1>22 DEF WInv, Core

(* Functions that were not called yet are called by code that has them, or *)
(* when the handler that they are with ends.                               *)
Calls(S, st, cs, rs, c) ==
    /\ \A k \in 1..Len(st) : k \in 1..Len(S) /\ S[k] = st[k]
    /\ \A k \in 1..Len(S) : k \in 1..Len(st) \/ Handles(S[k], c)
    /\ \A r \in 1..Len(rs) : rs[r].cap = c =>
          \E k \in 1..Len(S) : k \notin 1..Len(st) /\ Handles(S[k], c)

Called(cs, cs2, c, b, res) ==
    /\ cs2 \in Seq(CapRec) /\ Len(cs2) = Len(cs)
    /\ \A i \in 1..Len(cs) : i # c => cs2[i] = cs[i]
    /\ cs2[c].p = cs[c].p /\ (cs2[c].hidden <=> cs[c].hidden)
    /\ cs2[c].already_resolved /\ cs2[c].got = <<b, res>>

(* The first call: from now on the getter, or what takes its place, is the *)
(* way of the promise.                                                     *)
LEMMA FirstCall ==
    ASSUME NEW ps, NEW cs, NEW rs, NEW js, NEW S, NEW st \in Seq(Frame), NEW x,
           WInv(ps, cs, rs, js, S, x), NEW c \in 1..Len(cs), ~cs[c].already_resolved,
           Calls(S, st, cs, rs, c), x = 0 \/ x = c,
           NEW cs2, NEW b \in BOOLEAN, NEW res \in AnyRes, Called(cs, cs2, c, b, res),
           GotOK(<<b, res>>, Len(ps)),
           \A r \in 1..Len(rs) : rs[r].cap = c /\ rs[r].handlers = {} =>
              /\ b <=> ps[rs[r].on].state = "rejected"
              /\ res = PassedOn(ps[rs[r].on].result)
    PROVE  WInv(ps, cs2, rs, js, Append(st, CodeFrame("getter", c)), c)
  <1> DEFINE g == CodeFrame("getter", c)
             t == Append(st, g)
             n == Len(st)
             m == Len(st) + 1
  <1>0. /\ ps \in Seq(PromiseRec) /\ cs \in Seq(CapRec) /\ rs \in Seq(ReactRec) /\ js \in Seq(Job)
        /\ Len(ps) \in Nat /\ Len(cs) \in Nat /\ Len(rs) \in Nat
    BY LenProperties DEF WInv, Core, Typed
  <1>1. g \in Frame /\ g.op = "getter" /\ g.cap = c
    BY <1>0 DEF CodeFrame, Frame, Ops
  <1> HIDE DEF g
  <1>2. /\ t \in Seq(Frame) /\ Len(t) = m /\ t[m] = g /\ m \in 1..m /\ m \notin 1..n
        /\ \A i \in 1..n : i \in 1..m /\ t[i] = st[i]
        /\ \A i \in 1..m : i \in 1..n \/ i = m
    BY <1>1, AppendIs
  <1> HIDE DEF t, m
  <1>3. /\ \A k \in 1..n : k \in 1..Len(S) /\ S[k] = st[k]
        /\ \A k \in 1..Len(S) : k \in 1..n \/ Handles(S[k], c)
        /\ \A r \in 1..Len(rs) : rs[r].cap = c =>
              \E k \in 1..Len(S) : k \notin 1..n /\ Handles(S[k], c)
    BY DEF Calls
  <1> HIDE DEF n
  <1>4. /\ cs2 \in Seq(CapRec) /\ Len(cs2) = Len(cs)
        /\ \A i \in 1..Len(cs) : i # c => cs2[i] = cs[i]
        /\ \A i \in 1..Len(cs) : cs2[i].p = cs[i].p /\ (cs2[i].hidden <=> cs[i].hidden)
        /\ cs2[c].already_resolved /\ cs2[c].got = <<b, res>>
    BY DEF Called
  <1>5. Typed(ps, cs2, rs, js, t)
    BY <1>0, <1>2, <1>4 DEF Typed
  <1>6. CapsOK(ps, cs2)
    <2>1. cs2[c].got \in BOOLEAN \X AnyRes /\ GotOK(cs2[c].got, Len(ps))
      BY <1>4
    <2>2. CapsOK(ps, cs)
      BY DEF WInv, Core
    <2> QED BY <2>1, <2>2, <1>4 DEF CapsOK
  <1>7. ReactsOK(ps, cs2, rs)
    <2>1. ReactsOK(ps, cs, rs)
      BY DEF WInv, Core
    <2> QED BY <2>1, <1>4 DEF ReactsOK
  <1>8. /\ JobsOK(ps, rs, js) /\ ListsOK(ps, rs)
        /\ Queued(ps, rs, js) /\ AllQueued(ps, js) /\ InOrder(ps, js)
    BY DEF WInv, Core
  <1>9. StackOK(ps, cs2, rs, t)
    <2>1. \A k \in 1..n : FrameOK(st[k], ps, cs, rs)
      BY <1>3 DEF WInv, Core, StackOK
    <2>2. \A k \in 1..n : FrameOK(st[k], ps, cs2, rs)
      BY <2>1, <1>4 DEF FrameOK
    <2>3. FrameOK(g, ps, cs2, rs)
      BY <1>1, <1>4 DEF FrameOK
    <2> QED BY <2>2, <2>3, <1>2 DEF StackOK
  <1>10. TrackersOK(ps, rs, t)
    <2>0. TrackersOK(ps, rs, S)
      BY DEF WInv, Core
    <2>1. \A k \in 1..m, r \in 1..Len(rs) : IsAdding(t[k], r) => k \in 1..Len(S) /\ IsAdding(S[k], r)
      <3>1. \A r \in 1..Len(rs) : ~IsAdding(g, r)
        BY <1>1 DEF IsAdding
      <3> QED BY <3>1, <1>2, <1>3
    <2>2. \A k \in 1..Len(S), r \in 1..Len(rs) : IsAdding(S[k], r) => k \in 1..m /\ IsAdding(t[k], r)
      <3>1. \A k \in 1..Len(S) : Handles(S[k], c) => \A r \in 1..Len(rs) : ~IsAdding(S[k], r)
        BY DEF Handles, IsAdding
      <3> QED BY <3>1, <1>2, <1>3
    <2> QED BY <2>0, <2>1, <2>2, <1>2 DEF TrackersOK
  <1>11. /\ \A k \in 1..n : ~Handles(st[k], c)
         /\ \A r \in 1..Len(rs) : rs[r].cap = c => InRan(ps[rs[r].on], r) /\ (rs[r].handlers = {} => x = c)
    <2>0. HandlersOK(ps, cs, rs, S, x) /\ ReactsOK(ps, cs, rs) /\ StackOK(ps, cs, rs, S)
      BY DEF WInv, Core
    <2>1. ASSUME NEW k \in 1..n, Handles(st[k], c) PROVE FALSE
      <3>1. k \in 1..Len(S) /\ S[k] = st[k] /\ S[k].op = "handler" /\ S[k].cap = c
        BY <2>1, <1>3 DEF Handles
      <3>2. PICK r \in 1..Len(rs) : rs[r].cap = c
        BY <3>1, <2>0 DEF HandlersOK, HandlerOK
      <3>3. PICK l \in 1..Len(S) : l \notin 1..n /\ Handles(S[l], c)
        BY <3>2, <1>3
      <3>4. k = l
        BY <3>1, <3>3, <2>0 DEF HandlersOK, Handles
      <3> QED BY <3>3, <3>4
    <2>2. ASSUME NEW r \in 1..Len(rs), rs[r].cap = c
          PROVE  InRan(ps[rs[r].on], r) /\ (rs[r].handlers = {} => x = c)
      <3>1. PICK l \in 1..Len(S) : Handles(S[l], c)
        BY <2>2, <1>3
      <3>2. HandlerOK(S[l], ps, cs, rs, x) /\ S[l].cap = c
        BY <3>1, <2>0 DEF HandlersOK, Handles
      <3>3. PICK s \in 1..Len(rs) : /\ rs[s].cap = c /\ InRan(ps[rs[s].on], s)
                                    /\ rs[s].handlers = {} => c = x
        BY <3>2 DEF HandlerOK
      <3>4. s = r
        BY <2>2, <3>3, <2>0 DEF ReactsOK
      <3> QED BY <3>3, <3>4
    <2> QED BY <2>1, <2>2
  <1>12. HandlersOK(ps, cs2, rs, t, c)
    <2>0. HandlersOK(ps, cs, rs, S, x) /\ ReactsOK(ps, cs, rs) /\ StackOK(ps, cs, rs, S)
      BY DEF WInv, Core
    <2>1. ASSUME NEW k \in 1..m, t[k].op = "handler" PROVE HandlerOK(t[k], ps, cs2, rs, c)
      <3>1. k \in 1..n /\ t[k] = st[k] /\ k \in 1..Len(S) /\ S[k] = st[k]
        BY <2>1, <1>1, <1>2, <1>3
      <3>2. HandlerOK(st[k], ps, cs, rs, x) /\ st[k].cap # c /\ st[k].cap \in 1..Len(cs)
        BY <3>1, <2>0, <2>1, <1>11 DEF HandlersOK, Handles, StackOK, FrameOK
      <3>3. cs2[st[k].cap] = cs[st[k].cap] /\ st[k].cap # x
        BY <3>2, <1>4
      <3> QED BY <3>1, <3>2, <3>3 DEF HandlerOK
    <2>2. \A k, l \in 1..m : \A i \in 1..Len(cs) : Handles(t[k], i) /\ Handles(t[l], i) => k = l
      <3>1. \A k \in 1..m : \A i : Handles(t[k], i) => k \in 1..Len(S) /\ Handles(S[k], i)
        BY <1>1, <1>2, <1>3 DEF Handles
      <3> QED BY <3>1, <2>0 DEF HandlersOK
    <2>3. \A r \in 1..Len(rs) : ~InRan(ps[rs[r].on], r) => ~cs2[rs[r].cap].already_resolved
      BY <2>0, <1>4, <1>11 DEF HandlersOK, ReactsOK
    <2>4. ASSUME NEW r \in 1..Len(rs), InRan(ps[rs[r].on], r), ~cs2[rs[r].cap].already_resolved
          PROVE  \E k \in 1..m : Handles(t[k], rs[r].cap)
      <3>1. rs[r].cap # c /\ ~cs[rs[r].cap].already_resolved
        BY <2>0, <2>4, <1>4 DEF ReactsOK
      <3>2. PICK k \in 1..Len(S) : Handles(S[k], rs[r].cap)
        BY <3>1, <2>0, <2>4 DEF HandlersOK
      <3>3. k \in 1..n
        BY <3>1, <3>2, <1>3 DEF Handles
      <3> QED BY <3>2, <3>3, <1>2, <1>3
    <2> QED BY <2>1, <2>2, <2>3, <2>4, <1>2, <1>4 DEF HandlersOK
  <1>13. WaysOK(ps, cs2, js, t)
    <2> SUFFICES ASSUME NEW q \in 1..Len(ps) PROVE WaysOf(ps[q], q, cs2, js, t)
      BY DEF WaysOK
    <2>1. WaysOf(ps[q], q, cs, js, S)
      BY DEF WInv, Core, WaysOK
    <2>2. \A i \in 1..Len(cs) : CapWay(cs2[i], q) <=> i # c /\ CapWay(cs[i], q)
      BY <1>4 DEF CapWay
    <2>3. \A k \in 1..n : GetWay(t[k], cs2, q) <=> GetWay(S[k], cs, q)
      <3>1. \A k \in 1..n : st[k].op = "getter" => st[k].cap \in 1..Len(cs)
        BY <1>3 DEF WInv, Core, StackOK, FrameOK
      <3> QED BY <3>1, <1>2, <1>3, <1>4, SMTT(30) DEF GetWay
    <2>4. \A k \in 1..Len(S) : GetWay(S[k], cs, q) => k \in 1..n
      BY <1>3 DEF GetWay, Handles
    <2>5. GetWay(t[m], cs2, q) <=> q = cs[c].p
      BY <1>1, <1>2, <1>4 DEF GetWay
    <2>6. CapWay(cs[c], q) <=> q = cs[c].p
      BY DEF CapWay
    <2>7. CASE q # cs[c].p
      <3>1. \A k \in 1..m : GetWay(t[k], cs2, q) => k \in 1..Len(S) /\ GetWay(S[k], cs, q)
        BY <2>3, <2>5, <2>7, <1>2, <1>3
      <3>2. \A k \in 1..Len(S) : GetWay(S[k], cs, q) => k \in 1..m /\ GetWay(t[k], cs2, q)
        BY <2>3, <2>4, <1>2
      <3>3. \A i \in 1..Len(cs) : CapWay(cs2[i], q) <=> CapWay(cs[i], q)
        BY <2>2, <2>6, <2>7
      <3> QED BY <2>1, <3>1, <3>2, <3>3, <1>2, <1>4 DEF WaysOf
    <2>8. CASE q = cs[c].p
      <3>1. CapWay(cs[c], q)
        BY <2>6, <2>8
      <3>2. /\ \A k \in 1..Len(js) : ~JobWay(js[k], q)
            /\ \A k \in 1..Len(S) : ~GetWay(S[k], cs, q)
            /\ \A i \in 1..Len(cs) : CapWay(cs[i], q) => i = c
            /\ ps[q].state = "pending"
        BY <2>1, <3>1 DEF WaysOf
      <3>3. \A i \in 1..Len(cs) : ~CapWay(cs2[i], q)
        BY <2>2, <3>2
      <3>4. \A k \in 1..m : GetWay(t[k], cs2, q) <=> k = m
        BY <2>3, <2>5, <2>8, <3>2, <1>2, <1>3
      <3> QED BY <3>2, <3>3, <3>4, <1>2, <1>4 DEF WaysOf
    <2> QED BY <2>7, <2>8
  <1>14. OutcomesOK(ps, cs2, rs, js, t, c)
    <2>0. OutcomesOK(ps, cs, rs, js, S, x) /\ ReactsOK(ps, cs, rs)
      BY DEF WInv, Core
    <2>1. ASSUME NEW d \in 1..Len(cs), d # c, cs[d].already_resolved,
                 NEW q \in 1..Len(ps), Follows(ps, cs[d], q)
          PROVE  \/ JobLink(js, cs[d].p, q) \/ CapLink(cs2, rs, cs[d].p, q)
                 \/ CallLink(ps, cs2, c, cs[d].p, q)
      <3>1. \/ JobLink(js, cs[d].p, q) \/ CapLink(cs, rs, cs[d].p, q)
            \/ CallLink(ps, cs, x, cs[d].p, q)
        <4>1. d # x
          BY <2>1, <1>0
        <4> QED BY <4>1, <2>0, <2>1 DEF OutcomesOK
      <3>2. ~CallLink(ps, cs, x, cs[d].p, q)
        BY DEF CallLink
      <3>3. CASE CapLink(cs, rs, cs[d].p, q)
        <4>1. PICK r \in 1..Len(rs) : rs[r].on = q /\ rs[r].handlers = {} /\ CapWay(cs[rs[r].cap], cs[d].p)
          BY <3>3 DEF CapLink
        <4>2. CASE rs[r].cap # c
          <5>1. cs2[rs[r].cap] = cs[rs[r].cap]
            BY <4>2, <2>0, <1>4 DEF ReactsOK
          <5> QED BY <4>1, <5>1 DEF CapLink
        <4>3. CASE rs[r].cap = c
          <5>1. InRan(ps[q], r)
            BY <4>1, <4>3, <1>11
          <5>2. ps[q].state # "pending"
            <6>1. ListOK(ps[q], q, rs)
              BY <1>8 DEF ListsOK
            <6>2. ps[q].ran # <<>>
              BY <5>1 DEF InRan
            <6> QED BY <6>1, <6>2 DEF ListOK
          <5>3. cs2[c].p = cs[d].p
            BY <4>1, <4>3, <1>4 DEF CapWay
          <5>4. (b <=> ps[q].state = "rejected") /\ res = PassedOn(ps[q].result)
            BY <4>1, <4>3
          <5>5. (cs2[c].got[1] <=> b) /\ cs2[c].got[2] = res
            BY <1>4
          <5>6. c # 0
            BY <1>0
          <5> QED BY <5>2, <5>3, <5>4, <5>5, <5>6, <1>4 DEF CallLink
        <4> QED BY <4>2, <4>3
      <3> QED BY <3>1, <3>2, <3>3
    <2>2. ASSUME NEW d \in 1..Len(cs2), d # c, cs2[d].already_resolved
          PROVE  /\ Outcome(ps, cs2[d])
                 /\ \A q \in 1..Len(ps) : Follows(ps, cs2[d], q) =>
                       \/ JobLink(js, cs2[d].p, q) \/ CapLink(cs2, rs, cs2[d].p, q)
                       \/ CallLink(ps, cs2, c, cs2[d].p, q)
      <3>1. d \in 1..Len(cs) /\ cs2[d] = cs[d] /\ d # x
        BY <2>2, <1>0, <1>4
      <3>2. Outcome(ps, cs[d])
        BY <3>1, <2>0, <2>2 DEF OutcomesOK
      <3> QED BY <3>1, <3>2, <2>1, <2>2
    <2>3. ASSUME NEW k \in 1..m, t[k].op = "getter", t[k].cap # c
          PROVE  ~cs2[t[k].cap].got[1] /\ cs2[t[k].cap].got[2] = Object
      <3>1. k \in 1..n /\ t[k] = S[k] /\ k \in 1..Len(S)
        BY <2>3, <1>1, <1>2, <1>3
      <3>2. S[k].cap \in 1..Len(cs) /\ S[k].cap # x
        BY <2>3, <3>1, <1>0 DEF WInv, Core, StackOK, FrameOK
      <3>3. ~cs[S[k].cap].got[1] /\ cs[S[k].cap].got[2] = Object
        BY <2>0, <2>3, <3>1, <3>2 DEF OutcomesOK
      <3> QED BY <2>3, <3>1, <3>2, <3>3, <1>4
    <2> QED BY <2>2, <2>3, <1>2 DEF OutcomesOK
  <1>15. WInv(ps, cs2, rs, js, t, c)
    BY <1>5, <1>6, <1>7, <1>8, <1>9, <1>10, <1>12, <1>13, <1>14 DEF WInv, Core
  <1> QED BY <1>15 DEF t, g

(* The jobs of the reactions of a list, behind the others.                 *)
ReactionJobs(list) == [k \in DOMAIN list |-> ReactionJob(list[k])]

QueuedBehind(js, list, js2) ==
    /\ js2 \in Seq(Job) /\ Len(js) \in Nat /\ Len(list) \in Nat
    /\ \A k \in 1..Len(js) : k \in 1..Len(js2) /\ js2[k] = js[k]
    /\ \A i \in 1..Len(list) : Len(js) + i \in 1..Len(js2) /\ js2[Len(js) + i] = ReactionJob(list[i])
    /\ \A k \in 1..Len(js2) : k \notin 1..Len(js) =>
          k - Len(js) \in 1..Len(list) /\ js2[k] = ReactionJob(list[k - Len(js)])

(* The jobs that fulfill_or_reject_promise puts at the end of the queue.   *)
LEMMA ReactionJobsIs ==
    ASSUME NEW js \in Seq(Job), NEW list \in Seq(Nat)
    PROVE  QueuedBehind(js, list, js \o ReactionJobs(list)) /\ js \o ReactionJobs(<<>>) = js
  <1> DEFINE u == ReactionJobs(list)
             n == Len(js)
             h == Len(list)
             w == js \o u
  <1>1. n \in Nat /\ h \in Nat /\ DOMAIN list = 1..h /\ \A k \in 1..h : list[k] \in Nat
    BY LenProperties, ElementOfSeq
  <1>2. u = [k \in 1..h |-> ReactionJob(list[k])] /\ \A k \in 1..h : ReactionJob(list[k]) \in Job
    BY <1>1 DEF Job, ReactionJobs
  <1>3. u \in Seq(Job) /\ Len(u) = h /\ \A k \in 1..h : u[k] = ReactionJob(list[k])
    <2>1. [k \in 1..h |-> ReactionJob(list[k])] \in Seq(Job)
      BY <1>1, <1>2, IsASeq
    <2>2. u \in Seq(Job) /\ DOMAIN u = 1..h
      BY <1>2, <2>1
    <2>3. Len(u) = h
      BY <2>2, <1>1, LenProperties
    <2> QED BY <2>2, <2>3, <1>2
  <1> HIDE DEF u, n, h
  <1>4. /\ w \in Seq(Job) /\ Len(w) = n + h
        /\ \A i \in 1..(n + h) : w[i] = IF i <= n THEN js[i] ELSE u[i - n]
    BY <1>3, ConcatProperties DEF n
  <1> HIDE DEF w
  <1>5. \A k \in 1..n : k \in 1..Len(w) /\ w[k] = js[k]
    BY <1>1, <1>4, SMTT(30)
  <1>6. ASSUME NEW i \in 1..h PROVE n + i \in 1..Len(w) /\ w[n + i] = ReactionJob(list[i])
    <2> DEFINE j == n + i
    <2>1. j \in 1..(n + h) /\ ~(j <= n) /\ j - n = i
      BY <1>1
    <2> HIDE DEF j
    <2>2. w[j] = u[i]
      BY <2>1, <1>4
    <2> QED BY <2>1, <2>2, <1>3, <1>4 DEF j
  <1>7. ASSUME NEW k \in 1..Len(w), k \notin 1..n
        PROVE  k - n \in 1..h /\ w[k] = ReactionJob(list[k - n])
    <2>1. k \in 1..(n + h) /\ k - n \in 1..h /\ ~(k <= n)
      BY <1>1, <1>4, <1>7
    <2> QED BY <2>1, <1>3, <1>4
  <1>8. js \o ReactionJobs(<<>>) = js
    <2>1. ReactionJobs(<<>>) = <<>>
      BY DEF ReactionJobs
    <2> QED BY <2>1, ConcatEmptySeq
  <1>9. QueuedBehind(js, list, w)
    BY <1>1, <1>4, <1>5, <1>6, <1>7 DEF QueuedBehind, n, h
  <1> QED BY <1>8, <1>9 DEF w, u

(* How the promises and the queue change when promise p is settled.        *)
Settles(ps, ps2, js, js2, p, state, v) ==
    /\ ps2 \in Seq(PromiseRec) /\ Len(ps2) = Len(ps)
    /\ \A i \in 1..Len(ps) : i # p => ps2[i] = ps[i]
    /\ ps2[p].state = state /\ ps2[p].result = v /\ ps2[p].ran = ps[p].ran
    /\ ps2[p].registered = ps[p].registered /\ (ps2[p].is_handled <=> ps[p].is_handled)
    /\ ps2[p].reactions = <<>>
    /\ js2 = js \o ReactionJobs(ps[p].reactions)

(* Whether that is what the functions d were called with.                  *)
SettlesAs(d, state, v) ==
    /\ d.got[1] => state = "rejected" /\ v = d.got[2][2]
    /\ ~d.got[1] /\ d.got[2][1] = "plain" => state = "fulfilled" /\ v = d.got[2][2]
    /\ ~d.got[1] /\ d.got[2] = OtherPromise(d.p) => state = "rejected"
    /\ \A q \in Nat : ~d.got[1] /\ d.got[2] = OtherPromise(q) => q = d.p

(* The promise of the getter is settled, its reactions become jobs.        *)
LEMMA Settled1 ==
    ASSUME NEW ps, NEW cs, NEW rs, NEW js, NEW st \in Seq(Frame), NEW c \in Nat, NEW x,
           WInv(ps, cs, rs, js, Append(st, CodeFrame("getter", c)), x), x = 0 \/ x = c,
           NEW state \in {"fulfilled", "rejected"}, NEW v \in Results,
           NEW ps2, NEW js2, Settles(ps, ps2, js, js2, cs[c].p, state, v),
           SettlesAs(cs[c], state, v)
    PROVE  WInv(ps2, cs, rs, js2, st, 0)
  <1> DEFINE g == CodeFrame("getter", c)
             t == Append(st, g)
             n == Len(st)
             m == Len(st) + 1
             p == cs[c].p
             list == ps[p].reactions
             h == Len(list)
             nj == Len(js)
  <1>0. /\ ps \in Seq(PromiseRec) /\ cs \in Seq(CapRec) /\ rs \in Seq(ReactRec) /\ js \in Seq(Job)
        /\ Len(ps) \in Nat /\ Len(cs) \in Nat /\ Len(rs) \in Nat
    BY LenProperties DEF WInv, Core, Typed
  <1>1. g \in Frame /\ g.op = "getter" /\ g.cap = c
    BY DEF CodeFrame, Frame, Ops
  <1>2. WInv(ps, cs, rs, js, t, x)
    OBVIOUS
  <1> HIDE DEF g
  <1>3. /\ Len(t) = m /\ t[m] = g /\ m \in 1..m /\ m \notin 1..n
        /\ \A i \in 1..n : i \in 1..m /\ t[i] = st[i]
        /\ \A i \in 1..m : i \in 1..n \/ i = m
    BY <1>1, AppendIs
  <1> HIDE DEF t, m, n, nj
  <1>4. c \in 1..Len(cs) /\ cs[c].already_resolved /\ p \in 1..Len(ps)
    BY <1>1, <1>2, <1>3, SMTT(30) DEF WInv, Core, StackOK, FrameOK, CapsOK
  <1>5. /\ ps2 \in Seq(PromiseRec) /\ Len(ps2) = Len(ps)
        /\ \A i \in 1..Len(ps) : i # p => ps2[i] = ps[i]
        /\ \A i \in 1..Len(ps) : ps2[i].ran = ps[i].ran /\ ps2[i].registered = ps[i].registered
        /\ ps2[p].state = state /\ ps2[p].result = v /\ ps2[p].reactions = <<>>
        /\ ps2[p].is_handled <=> ps[p].is_handled
    BY DEF Settles
  <1>6. /\ ps[p].state = "pending"
        /\ \A i \in 1..Len(cs) : ~CapWay(cs[i], p)
        /\ \A k \in 1..Len(js) : ~JobWay(js[k], p)
        /\ \A k \in 1..n : ~GetWay(st[k], cs, p)
    <2>1. GetWay(t[m], cs, p)
      BY <1>1, <1>3 DEF GetWay
    <2>2. WaysOf(ps[p], p, cs, js, t)
      BY <1>2, <1>4, SMTT(30) DEF WInv, Core, WaysOK
    <2> QED BY <2>1, <2>2, <1>3 DEF WaysOf
  <1>7. /\ ListOK(ps[p], p, rs) /\ ps[p] \in PromiseRec /\ ps[p].registered = list /\ list \in Seq(Nat)
        /\ ps[p].ran = <<>> /\ Len(ps[p].ran) = 0 /\ ps2[p].registered = list
    <2>1. ListOK(ps[p], p, rs) /\ ps[p] \in PromiseRec
      BY <1>0, <1>2, <1>4, ElementOfSeq, SMTT(30) DEF WInv, Core, ListsOK
    <2> QED BY <2>1, <1>4, <1>5, <1>6 DEF ListOK, PromiseRec
  <1>8. /\ js2 \in Seq(Job) /\ nj \in Nat /\ h \in Nat
        /\ \A k \in 1..nj : k \in 1..Len(js2) /\ js2[k] = js[k]
        /\ \A i \in 1..h : nj + i \in 1..Len(js2) /\ js2[nj + i] = ReactionJob(list[i])
        /\ \A k \in 1..Len(js2) : k \notin 1..nj =>
              k - nj \in 1..h /\ js2[k] = ReactionJob(list[k - nj])
    <2>1. js2 = js \o ReactionJobs(list)
      BY DEF Settles
    <2>2. list \in Seq(Nat) /\ nj = Len(js) /\ h = Len(list)
      BY <1>7 DEF nj
    <2> HIDE DEF list, h, nj
    <2>3. QueuedBehind(js, list, js2)
      BY <2>1, <2>2, <1>0, ReactionJobsIs
    <2> QED BY <2>2, <2>3 DEF QueuedBehind
  <1>9. /\ \A i \in 1..h : list[i] \in 1..Len(rs) /\ rs[list[i]].on = p
        /\ \A i, j \in 1..h : list[i] = list[j] => i = j
    <2>1. ListOK(ps[p], p, rs) /\ ps[p].registered = list
      BY <1>7
    <2> HIDE DEF list
    <2> QED BY <2>1 DEF ListOK
  <1>10. h = Len(ps[p].registered) /\ h = Len(ps2[p].registered)
    BY <1>7
  <1> HIDE DEF list, h, p
  <1>11. Typed(ps2, cs, rs, js2, st)
    BY <1>0, <1>5, <1>8 DEF Typed
  <1>12. CapsOK(ps2, cs) /\ ReactsOK(ps2, cs, rs)
    BY <1>2, <1>5 DEF WInv, Core, CapsOK, ReactsOK
  <1>13. JobsOK(ps2, rs, js2)
    <2>1. \A i \in 1..h : JobOK(ReactionJob(list[i]), Len(ps), Len(rs))
      BY <1>9, JobTags DEF JobOK
    <2> QED BY <2>1, <1>2, <1>5, <1>8 DEF WInv, Core, JobsOK, nj
  <1>14. StackOK(ps2, cs, rs, st)
    <2>1. \A k \in 1..n : FrameOK(st[k], ps, cs, rs)
      BY <1>2, <1>3 DEF WInv, Core, StackOK
    <2>2. \A i \in 1..Len(ps) : ps[i].state # "pending" => ps2[i].state # "pending"
      BY <1>5, <1>6
    <2> QED BY <2>1, <2>2, <1>5 DEF StackOK, FrameOK, n
  <1>15. ListsOK(ps2, rs)
    <2>1. ListOK(ps2[p], p, rs)
      BY <1>4, <1>5, <1>7, SMTT(30) DEF ListOK
    <2> QED BY <2>1, <1>2, <1>5 DEF WInv, Core, ListsOK
  <1>16. ASSUME NEW s \in 1..Len(rs), NEW k \in 1..nj, js[k] = ReactionJob(s)
         PROVE  rs[s].on # p /\ rs[s].on \in 1..Len(ps) /\ WaitsIn(ps[rs[s].on], s)
    BY <1>2, <1>6, <1>16 DEF WInv, Core, Queued, WaitsIn, ReactsOK, nj
  <1>17. Queued(ps2, rs, js2)
    <2> SUFFICES ASSUME NEW k \in 1..Len(js2), NEW s \in 1..Len(rs), js2[k] = ReactionJob(s)
                 PROVE  WaitsIn(ps2[rs[s].on], s)
      BY DEF Queued
    <2>1. CASE k \in 1..nj
      BY <2>1, <1>5, <1>8, <1>16
    <2>2. CASE k \notin 1..nj
      <3>1. k - nj \in 1..h /\ list[k - nj] = s
        BY <2>2, <1>8, JobTags
      <3>2. rs[s].on = p
        BY <3>1, <1>9
      <3>3. k - nj > Len(ps2[p].ran)
        <4>1. Len(ps2[p].ran) = 0
          BY <1>4, <1>5, <1>7
        <4> QED BY <4>1, <3>1, <1>8
      <3> QED BY <3>1, <3>2, <3>3, <1>5, <1>7, <1>10 DEF WaitsIn
    <2> QED BY <2>1, <2>2
  <1>18. AllQueued(ps2, js2)
    <2> SUFFICES ASSUME NEW q \in 1..Len(ps), ps2[q].state # "pending",
                        NEW i \in 1..Len(ps2[q].registered), i > Len(ps2[q].ran)
                 PROVE  \E k \in 1..Len(js2) : js2[k] = ReactionJob(ps2[q].registered[i])
      BY <1>5 DEF AllQueued
    <2>1. CASE q # p
      <3>1. \E k \in 1..Len(js) : js[k] = ReactionJob(ps[q].registered[i])
        BY <2>1, <1>2, <1>5 DEF WInv, Core, AllQueued
      <3> QED BY <3>1, <2>1, <1>5, <1>8 DEF nj
    <2>2. CASE q = p
      BY <2>2, <1>7, <1>8, <1>10
    <2> QED BY <2>1, <2>2
  <1>19. InOrder(ps2, js2)
    <2> SUFFICES ASSUME NEW q \in 1..Len(ps), NEW i \in 1..Len(ps2[q].registered),
                        NEW j \in 1..Len(ps2[q].registered), NEW k \in 1..Len(js2), NEW l \in 1..Len(js2),
                        k < l, js2[k] = ReactionJob(ps2[q].registered[i]),
                        js2[l] = ReactionJob(ps2[q].registered[j])
                 PROVE  i < j
      BY <1>5 DEF InOrder
    <2>1. CASE q # p
      <3>1. ps2[q] = ps[q] /\ ListOK(ps[q], q, rs)
        BY <2>1, <1>2, <1>5 DEF WInv, Core, ListsOK
      <3>2. \A e \in 1..Len(ps[q].registered) : rs[ps[q].registered[e]].on = q
        BY <3>1 DEF ListOK
      <3>3. \A e \in 1..Len(ps[q].registered) : \A a \in 1..h : list[a] # ps[q].registered[e]
        <4> SUFFICES ASSUME NEW e \in 1..Len(ps[q].registered), NEW a \in 1..h,
                            list[a] = ps[q].registered[e]
                     PROVE  FALSE
          OBVIOUS
        <4>1. rs[list[a]].on = p
          BY <1>9
        <4> QED BY <4>1, <3>2, <2>1
      <3>4. k \in 1..nj /\ l \in 1..nj
        BY <3>1, <3>3, <1>8, JobTags, SMTT(30)
      <3>5. js[k] = ReactionJob(ps[q].registered[i]) /\ js[l] = ReactionJob(ps[q].registered[j])
        BY <3>1, <3>4, <1>8
      <3>6. InOrder(ps, js)
        BY <1>2 DEF WInv, Core
      <3> QED BY <3>1, <3>4, <3>5, <3>6 DEF InOrder, nj
    <2>2. CASE q = p
      <3>1. /\ i \in 1..h /\ j \in 1..h
            /\ js2[k] = ReactionJob(list[i]) /\ js2[l] = ReactionJob(list[j])
        BY <2>2, <1>7, <1>10
      <3>2. k \notin 1..nj /\ l \notin 1..nj
        <4>1. \A k1 \in 1..nj, a \in 1..h : js[k1] # ReactionJob(list[a])
          <5> SUFFICES ASSUME NEW k1 \in 1..nj, NEW a \in 1..h, js[k1] = ReactionJob(list[a]) PROVE FALSE
            OBVIOUS
          <5>1. list[a] \in 1..Len(rs) /\ rs[list[a]].on = p
            BY <1>9
          <5> QED BY <5>1, <1>16
        <4> QED BY <4>1, <3>1, <1>8
      <3>3. k - nj \in 1..h /\ l - nj \in 1..h /\ k - nj = i /\ l - nj = j
        <4>1. /\ k - nj \in 1..h /\ js2[k] = ReactionJob(list[k - nj])
              /\ l - nj \in 1..h /\ js2[l] = ReactionJob(list[l - nj])
          BY <3>2, <1>8
        <4>2. list[k - nj] = list[i] /\ list[l - nj] = list[j]
          BY <4>1, <3>1, JobTags
        <4> QED BY <4>1, <4>2, <3>1, <1>9
      <3>4. k \in Nat /\ l \in Nat
        OBVIOUS
      <3> QED BY <3>3, <3>4, <1>8
    <2> QED BY <2>1, <2>2
  <1>20. TrackersOK(ps2, rs, st)
    <2>0. TrackersOK(ps, rs, t) /\ ReactsOK(ps, cs, rs)
      BY <1>2 DEF WInv, Core
    <2>1. \A s \in 1..Len(rs) : InRegistered(ps2[rs[s].on], s) <=> InRegistered(ps[rs[s].on], s)
      BY <2>0, <1>5 DEF ReactsOK, InRegistered
    <2>2. \A k \in 1..m, s \in 1..Len(rs) : IsAdding(t[k], s) => k \in 1..n /\ IsAdding(st[k], s)
      <3>1. \A s \in 1..Len(rs) : ~IsAdding(g, s)
        BY <1>1 DEF IsAdding
      <3> QED BY <3>1, <1>3
    <2>3. \A k \in 1..n, s \in 1..Len(rs) : IsAdding(st[k], s) => k \in 1..m /\ IsAdding(t[k], s)
      BY <1>3
    <2> QED BY <2>0, <2>1, <2>2, <2>3, <1>3 DEF TrackersOK, n
  <1>21. HandlersOK(ps2, cs, rs, st, 0)
    <2>0. HandlersOK(ps, cs, rs, t, x) /\ ReactsOK(ps, cs, rs)
      BY <1>2 DEF WInv, Core
    <2>1. \A s \in 1..Len(rs) : InRan(ps2[rs[s].on], s) <=> InRan(ps[rs[s].on], s)
      BY <2>0, <1>5 DEF ReactsOK, InRan
    <2>2. ASSUME NEW k \in 1..n, st[k].op = "handler" PROVE HandlerOK(st[k], ps2, cs, rs, 0)
      <3>1. HandlerOK(st[k], ps, cs, rs, x)
        BY <2>0, <2>2, <1>3 DEF HandlersOK
      <3>2. st[k].cap # c
        BY <3>1, <1>4 DEF HandlerOK
      <3> QED BY <3>1, <3>2, <2>1 DEF HandlerOK
    <2>3. \A k, l \in 1..n : \A i \in 1..Len(cs) : Handles(st[k], i) /\ Handles(st[l], i) => k = l
      BY <2>0, <1>3 DEF HandlersOK
    <2>4. \A s \in 1..Len(rs) : InRan(ps[rs[s].on], s) /\ ~cs[rs[s].cap].already_resolved =>
             \E k \in 1..n : Handles(st[k], rs[s].cap)
      <3> SUFFICES ASSUME NEW s \in 1..Len(rs), InRan(ps[rs[s].on], s), ~cs[rs[s].cap].already_resolved
                   PROVE  \E k \in 1..n : Handles(st[k], rs[s].cap)
        OBVIOUS
      <3>1. PICK k \in 1..m : Handles(t[k], rs[s].cap)
        BY <2>0, <1>3 DEF HandlersOK
      <3>2. k # m
        BY <3>1, <1>1, <1>3 DEF Handles
      <3> QED BY <3>1, <3>2, <1>3
    <2> QED BY <2>0, <2>1, <2>2, <2>3, <2>4 DEF HandlersOK, n
  <1>22. WaysOK(ps2, cs, js2, st)
    <2> SUFFICES ASSUME NEW q \in 1..Len(ps) PROVE WaysOf(ps2[q], q, cs, js2, st)
      BY <1>5 DEF WaysOK
    <2>1. WaysOf(ps[q], q, cs, js, t)
      BY <1>2 DEF WInv, Core, WaysOK
    <2>2. \A k \in 1..Len(js2) : JobWay(js2[k], q) => k \in 1..nj /\ JobWay(js[k], q)
      <3>1. \A i : ~JobWay(ReactionJob(i), q)
        BY JobTags DEF JobWay
      <3> QED BY <3>1, <1>8
    <2>3. \A k \in 1..nj : JobWay(js[k], q) => k \in 1..Len(js2) /\ JobWay(js2[k], q)
      BY <1>8
    <2>4. \A k \in 1..n : GetWay(st[k], cs, q) => k \in 1..m /\ GetWay(t[k], cs, q)
      BY <1>3
    <2>5. CASE q # p
      <3>1. \A k \in 1..m : GetWay(t[k], cs, q) => k \in 1..n /\ GetWay(st[k], cs, q)
        <4>1. ~GetWay(g, cs, q)
          BY <2>5, <1>1 DEF GetWay, p
        <4> QED BY <4>1, <1>3
      <3>2. ps2[q].state = ps[q].state
        BY <2>5, <1>5
      <3> QED BY <2>1, <2>2, <2>3, <2>4, <3>1, <3>2, <1>3 DEF WaysOf, n, nj
    <2>6. CASE q = p
      <3>1. ps2[q].state # "pending"
        BY <2>6, <1>5
      <3>2. \A k \in 1..Len(js2) : ~JobWay(js2[k], q)
        BY <2>2, <2>6, <1>6 DEF nj
      <3> QED BY <2>6, <3>1, <3>2, <1>6 DEF WaysOf, n
    <2> QED BY <2>5, <2>6
  <1>23. OutcomesOK(ps2, cs, rs, js2, st, 0)
    <2>0. OutcomesOK(ps, cs, rs, js, t, x) /\ CapsOK(ps, cs)
      BY <1>2 DEF WInv, Core
    <2>1. Outcome(ps2, cs[c])
      <3>1. \A q \in 1..Len(ps2) : ~(~cs[c].got[1] /\ cs[c].got[2] = OtherPromise(q) /\ q # cs[c].p)
        <4>1. \A q \in 1..Len(ps2) : q \in Nat
          OBVIOUS
        <4> QED BY <4>1 DEF SettlesAs
      <3>2. ps2[cs[c].p].state = state /\ ps2[cs[c].p].result = v
        BY <1>5 DEF p
      <3> QED BY <3>1, <3>2 DEF Outcome, SettlesAs
    <2>2. ASSUME NEW d \in 1..Len(cs), d # c, cs[d].already_resolved
          PROVE  /\ Outcome(ps, cs[d]) /\ cs[d].p \in 1..Len(ps)
                 /\ \A q \in 1..Len(ps) : Follows(ps, cs[d], q) =>
                       \/ JobLink(js, cs[d].p, q) \/ CapLink(cs, rs, cs[d].p, q)
                       \/ CallLink(ps, cs, x, cs[d].p, q)
      <3>1. d # x
        BY <2>2
      <3> QED BY <3>1, <2>0, <2>2 DEF OutcomesOK, CapsOK
    <2>3. ASSUME NEW d \in 1..Len(cs), d # c, cs[d].already_resolved, cs[d].p = p
          PROVE  Outcome(ps2, cs[d])
      <3>1. Outcome(ps, cs[d])
        BY <2>2, <2>3
      <3>2. ~cs[d].got[1] /\ cs[d].got[2][1] # "plain" /\ cs[d].got[2] # OtherPromise(p)
        BY <3>1, <2>3, <1>6 DEF Outcome
      <3>3. ASSUME NEW q \in 1..Len(ps), cs[d].got[2] = OtherPromise(q), q # p
            PROVE  /\ ps[q].state # "pending"
                   /\ ps[q].result # "object" => state = ps[q].state /\ v = ps[q].result
        <4>1. CASE ps[q].state # "pending" /\ ps[q].result = "object"
          BY <4>1
        <4>2. CASE ~(ps[q].state # "pending" /\ ps[q].result = "object")
          <5>1. Follows(ps, cs[d], q)
            BY <2>3, <3>2, <3>3, <4>2, <1>6 DEF Follows
          <5>2. ~JobLink(js, p, q)
            <6>1. \A k \in 1..Len(js) : js[k] # ThenableJob(p, OtherPromise(q))
              BY <1>6 DEF JobWay
            <6> QED BY <6>1 DEF JobLink
          <5>3. ~CapLink(cs, rs, p, q)
            <6>1. \A s \in 1..Len(rs) : rs[s].cap \in 1..Len(cs)
              BY <1>2 DEF WInv, Core, ReactsOK
            <6> QED BY <6>1, <1>6 DEF CapLink
          <5>4. CallLink(ps, cs, x, p, q)
            BY <5>1, <5>2, <5>3, <2>2, <2>3
          <5>5. /\ x = c /\ ps[q].state # "pending"
                /\ cs[c].got[1] <=> ps[q].state = "rejected"
                /\ cs[c].got[2] = PassedOn(ps[q].result)
            BY <5>4 DEF CallLink
          <5>6. ps[q].state \in {"fulfilled", "rejected"} /\ ps[q].result \in Results
            <6>1. ps[q] \in PromiseRec /\ ListOK(ps[q], q, rs)
              BY <1>0, <1>2, ElementOfSeq DEF WInv, Core, ListsOK
            <6> QED BY <6>1, <5>5 DEF PromiseRec, ListOK
          <5>7. cs[c].got[2] = Plain(ps[q].result)
            BY <4>2, <5>5, <5>6, ResTags
          <5>8. cs[c].got[2][1] = "plain" /\ cs[c].got[2][2] = ps[q].result
            BY <5>7, ResTags
          <5> QED BY <5>5, <5>6, <5>8 DEF SettlesAs
        <4> QED BY <4>1, <4>2
      <3>4. \A q \in 1..Len(ps2) : cs[d].got[2] = OtherPromise(q) /\ q # p =>
               /\ ps2[q].state # "pending"
               /\ ps2[q].result # "object" => state = ps2[q].state /\ v = ps2[q].result
        BY <3>3, <1>5
      <3>5. ps2[cs[d].p].state = state /\ ps2[cs[d].p].result = v
        BY <2>3, <1>5
      <3>6. ~cs[d].got[1] /\ cs[d].got[2][1] # "plain" /\ cs[d].got[2] # OtherPromise(cs[d].p)
        BY <2>3, <3>2
      <3> QED BY <2>3, <3>4, <3>5, <3>6 DEF Outcome
    <2>4. ASSUME NEW d \in 1..Len(cs), d # c, cs[d].already_resolved, cs[d].p # p
          PROVE  Outcome(ps2, cs[d])
      <3>1. Outcome(ps, cs[d]) /\ ps2[cs[d].p] = ps[cs[d].p]
        BY <2>2, <2>4, <1>5
      <3>2. ASSUME NEW q \in 1..Len(ps), ~cs[d].got[1], cs[d].got[2] = OtherPromise(q), q # cs[d].p,
                   ps[cs[d].p].state # "pending"
            PROVE  /\ ps2[q].state # "pending"
                   /\ ps2[q].result # "object" =>
                        ps[cs[d].p].state = ps2[q].state /\ ps[cs[d].p].result = ps2[q].result
        <4>1. /\ ps[q].state # "pending"
              /\ ps[q].result # "object" => ps[cs[d].p].state = ps[q].state /\ ps[cs[d].p].result = ps[q].result
          BY <3>1, <3>2 DEF Outcome
        <4>2. ps2[q] = ps[q]
          BY <4>1, <1>5, <1>6
        <4> QED BY <4>1, <4>2
      <3> QED BY <3>1, <3>2, <1>5 DEF Outcome
    <2>5. ASSUME NEW d \in 1..Len(cs), cs[d].already_resolved, NEW q \in 1..Len(ps), Follows(ps2, cs[d], q)
          PROVE  JobLink(js2, cs[d].p, q) \/ CapLink(cs, rs, cs[d].p, q)
      <3>1. cs[d].p # p /\ d # c
        <4>1. cs[d].p # p
          BY <2>5, <1>5 DEF Follows
        <4> QED BY <4>1 DEF p
      <3>2. Follows(ps, cs[d], q)
        <4>1. cs[d].p \in 1..Len(ps) /\ ps2[cs[d].p] = ps[cs[d].p]
          BY <3>1, <2>2, <2>5, <1>5
        <4>2. ps[q].state # "pending" => ps2[q] = ps[q]
          BY <1>5, <1>6
        <4> QED BY <4>1, <4>2, <2>5 DEF Follows
      <3>3. ~CallLink(ps, cs, x, cs[d].p, q)
        BY <3>1 DEF CallLink, p
      <3>4. JobLink(js, cs[d].p, q) => JobLink(js2, cs[d].p, q)
        BY <1>8 DEF JobLink, nj
      <3> QED BY <3>1, <3>2, <3>3, <3>4, <2>2, <2>5
    <2>6. ASSUME NEW k \in 1..n, st[k].op = "getter"
          PROVE  ~cs[st[k].cap].got[1] /\ cs[st[k].cap].got[2] = Object
      <3>1. st[k].cap # c
        BY <2>6, <1>6 DEF GetWay, p
      <3>2. st[k].cap \in 1..Len(cs) /\ st[k].cap # 0
        BY <2>6, <1>0, <1>2, <1>3 DEF WInv, Core, StackOK, FrameOK
      <3> QED BY <3>1, <3>2, <2>0, <2>6, <1>3 DEF OutcomesOK
    <2>7. \A d \in 1..Len(cs) : cs[d].already_resolved => Outcome(ps2, cs[d])
      BY <2>1, <2>3, <2>4
    <2> QED BY <2>5, <2>6, <2>7, <1>5 DEF OutcomesOK, n
  <1> QED BY <1>11, <1>12, <1>13, <1>14, <1>15, <1>17, <1>18, <1>19, <1>20, <1>21, <1>22, <1>23 DEF WInv, Core

(* What is left of the getter when its promise has another way: the job of *)
(* a thenable.                                                             *)
LEMMA ThenableQueued ==
    ASSUME NEW ps, NEW cs, NEW rs, NEW js, NEW st \in Seq(Frame), NEW c \in Nat, NEW x,
           WInv(ps, cs, rs, js, Append(st, CodeFrame("getter", c)), x), x = 0 \/ x = c,
           NEW res, ~cs[c].got[1], cs[c].got[2] = res,
           res = Object \/ \E q \in 1..Len(ps) : q # cs[c].p /\ res = OtherPromise(q)
    PROVE  WInv(ps, cs, rs, Append(js, ThenableJob(cs[c].p, res)), st, 0)
  <1> DEFINE g == CodeFrame("getter", c)
             t == Append(st, g)
             n == Len(st)
             m == Len(st) + 1
             p == cs[c].p
             w == ThenableJob(p, res)
             js2 == Append(js, w)
             nj == Len(js)
             mj == Len(js) + 1
  <1>0. /\ ps \in Seq(PromiseRec) /\ cs \in Seq(CapRec) /\ rs \in Seq(ReactRec) /\ js \in Seq(Job)
        /\ Len(ps) \in Nat /\ Len(cs) \in Nat /\ Len(rs) \in Nat /\ nj \in Nat
    BY LenProperties DEF WInv, Core, Typed
  <1>1. g \in Frame /\ g.op = "getter" /\ g.cap = c
    BY DEF CodeFrame, Frame, Ops
  <1>2. WInv(ps, cs, rs, js, t, x)
    OBVIOUS
  <1> HIDE DEF g
  <1>3. /\ Len(t) = m /\ t[m] = g /\ m \in 1..m /\ m \notin 1..n
        /\ \A i \in 1..n : i \in 1..m /\ t[i] = st[i]
        /\ \A i \in 1..m : i \in 1..n \/ i = m
    BY <1>1, AppendIs
  <1> HIDE DEF t, m, n
  <1>4. c \in 1..Len(cs) /\ cs[c].already_resolved /\ p \in 1..Len(ps) /\ p \in Nat
    BY <1>1, <1>2, <1>3 DEF WInv, Core, StackOK, FrameOK, CapsOK
  <1>5. /\ w \in Job /\ JobWay(w, p) /\ JobOK(w, Len(ps), Len(rs))
        /\ \A r : w # ReactionJob(r)
        /\ \A q : JobWay(w, q) => q = p
    <2>1. CASE res = Object
      BY <2>1, <1>4, JobTags, ResTags DEF Job, JobWay, JobOK
    <2>2. CASE res # Object
      <3>1. PICK q \in 1..Len(ps) : res = OtherPromise(q)
        BY <2>2
      <3>2. q \in Nat
        OBVIOUS
      <3>3. w \in Job /\ JobWay(w, p)
        BY <3>1, <3>2, <1>4 DEF Job, JobWay
      <3>4. JobOK(w, Len(ps), Len(rs))
        BY <3>1, <1>4, JobTags, ResTags DEF JobOK
      <3> QED BY <3>3, <3>4, JobTags DEF JobWay
    <2> QED BY <2>1, <2>2
  <1> HIDE DEF w
  <1>6. /\ js2 \in Seq(Job) /\ Len(js2) = mj
        /\ \A i \in 1..nj : i \in 1..mj /\ js2[i] = js[i]
        /\ js2[mj] = w /\ mj \in 1..mj /\ mj \notin 1..nj
        /\ \A i \in 1..mj : i \in 1..nj \/ i = mj
    BY <1>0, <1>5, AppendIs
  <1> HIDE DEF js2, nj, mj
  <1>7. /\ ps[p].state = "pending"
        /\ \A i \in 1..Len(cs) : ~CapWay(cs[i], p)
        /\ \A k \in 1..nj : ~JobWay(js[k], p)
        /\ \A k \in 1..n : ~GetWay(st[k], cs, p)
    <2>1. GetWay(t[m], cs, p)
      BY <1>1, <1>3 DEF GetWay
    <2>2. WaysOf(ps[p], p, cs, js, t)
      BY <1>2, <1>4 DEF WInv, Core, WaysOK
    <2> QED BY <2>1, <2>2, <1>3 DEF WaysOf, nj
  <1>8. /\ Typed(ps, cs, rs, js2, st) /\ CapsOK(ps, cs) /\ ReactsOK(ps, cs, rs) /\ ListsOK(ps, rs)
    BY <1>2, <1>6 DEF WInv, Core, Typed
  <1>9. JobsOK(ps, rs, js2)
    BY <1>2, <1>5, <1>6 DEF WInv, Core, JobsOK, nj
  <1>10. StackOK(ps, cs, rs, st)
    BY <1>2, <1>3 DEF WInv, Core, StackOK, n
  <1>11. Queued(ps, rs, js2)
    <2>1. Queued(ps, rs, js)
      BY <1>2 DEF WInv, Core
    <2> QED BY <2>1, <1>5, <1>6, SMTT(30) DEF Queued, nj
  <1>12. AllQueued(ps, js2)
    <2>1. AllQueued(ps, js)
      BY <1>2 DEF WInv, Core
    <2>2. \A r : (\E k \in 1..Len(js) : js[k] = ReactionJob(r)) =>
                    \E k \in 1..Len(js2) : js2[k] = ReactionJob(r)
      BY <1>6 DEF nj
    <2> QED BY <2>1, <2>2 DEF AllQueued
  <1>13. InOrder(ps, js2)
    <2>1. \A i \in 1..mj : \A r : js2[i] = ReactionJob(r) => i \in 1..nj /\ js[i] = ReactionJob(r)
      BY <1>5, <1>6
    <2> SUFFICES ASSUME NEW q \in 1..Len(ps), NEW i \in 1..Len(ps[q].registered),
                        NEW j \in 1..Len(ps[q].registered), NEW k \in 1..mj, NEW l \in 1..mj, k < l,
                        js2[k] = ReactionJob(ps[q].registered[i]),
                        js2[l] = ReactionJob(ps[q].registered[j])
                 PROVE  i < j
      BY <1>6 DEF InOrder
    <2> QED BY <2>1, <1>2 DEF WInv, Core, InOrder, nj
  <1>14. TrackersOK(ps, rs, st)
    <2>0. TrackersOK(ps, rs, t)
      BY <1>2 DEF WInv, Core
    <2>2. \A k \in 1..m, s \in 1..Len(rs) : IsAdding(t[k], s) => k \in 1..n /\ IsAdding(st[k], s)
      <3>1. \A s \in 1..Len(rs) : ~IsAdding(g, s)
        BY <1>1 DEF IsAdding
      <3> QED BY <3>1, <1>3
    <2>3. \A k \in 1..n, s \in 1..Len(rs) : IsAdding(st[k], s) => k \in 1..m /\ IsAdding(t[k], s)
      BY <1>3
    <2> QED BY <2>0, <2>2, <2>3, <1>3 DEF TrackersOK, n
  <1>15. HandlersOK(ps, cs, rs, st, 0)
    <2>0. HandlersOK(ps, cs, rs, t, x)
      BY <1>2 DEF WInv, Core
    <2>2. ASSUME NEW k \in 1..n, st[k].op = "handler" PROVE HandlerOK(st[k], ps, cs, rs, 0)
      <3>1. HandlerOK(st[k], ps, cs, rs, x)
        BY <2>0, <2>2, <1>3 DEF HandlersOK
      <3>2. st[k].cap # c
        BY <3>1, <1>4 DEF HandlerOK
      <3> QED BY <3>1, <3>2 DEF HandlerOK
    <2>3. \A k, l \in 1..n : \A i \in 1..Len(cs) : Handles(st[k], i) /\ Handles(st[l], i) => k = l
      BY <2>0, <1>3 DEF HandlersOK
    <2>4. \A s \in 1..Len(rs) : InRan(ps[rs[s].on], s) /\ ~cs[rs[s].cap].already_resolved =>
             \E k \in 1..n : Handles(st[k], rs[s].cap)
      <3> SUFFICES ASSUME NEW s \in 1..Len(rs), InRan(ps[rs[s].on], s), ~cs[rs[s].cap].already_resolved
                   PROVE  \E k \in 1..n : Handles(st[k], rs[s].cap)
        OBVIOUS
      <3>1. PICK k \in 1..m : Handles(t[k], rs[s].cap)
        BY <2>0, <1>3 DEF HandlersOK
      <3>2. k # m
        BY <3>1, <1>1, <1>3 DEF Handles
      <3> QED BY <3>1, <3>2, <1>3
    <2> QED BY <2>0, <2>2, <2>3, <2>4 DEF HandlersOK, n
  <1>16. WaysOK(ps, cs, js2, st)
    <2> SUFFICES ASSUME NEW q \in 1..Len(ps) PROVE WaysOf(ps[q], q, cs, js2, st)
      BY DEF WaysOK
    <2>1. WaysOf(ps[q], q, cs, js, t)
      BY <1>2 DEF WInv, Core, WaysOK
    <2>2. \A k \in 1..nj : JobWay(js2[k], q) <=> JobWay(js[k], q)
      BY <1>6
    <2>3. JobWay(js2[mj], q) <=> q = p
      BY <1>5, <1>6
    <2>4. \A k \in 1..n : GetWay(st[k], cs, q) => k \in 1..m /\ GetWay(t[k], cs, q)
      BY <1>3
    <2>5. CASE q # p
      <3>1. \A k \in 1..m : GetWay(t[k], cs, q) => k \in 1..n /\ GetWay(st[k], cs, q)
        <4>1. ~GetWay(g, cs, q)
          BY <2>5, <1>1 DEF GetWay
        <4> QED BY <4>1, <1>3
      <3>2. \A k \in 1..mj : JobWay(js2[k], q) => k \in 1..nj /\ JobWay(js[k], q)
        BY <2>2, <2>3, <2>5, <1>6
      <3>3. \A k \in 1..nj : JobWay(js[k], q) => k \in 1..mj /\ JobWay(js2[k], q)
        BY <2>2, <1>6
      <3> QED BY <2>1, <2>4, <3>1, <3>2, <3>3, <1>3, <1>6 DEF WaysOf, n, nj
    <2>6. CASE q = p
      <3>1. \A k \in 1..mj : JobWay(js2[k], p) <=> k = mj
        BY <2>2, <2>3, <2>6, <1>6, <1>7
      <3> QED BY <2>6, <3>1, <1>6, <1>7 DEF WaysOf, n
    <2> QED BY <2>5, <2>6
  <1>17. OutcomesOK(ps, cs, rs, js2, st, 0)
    <2>0. OutcomesOK(ps, cs, rs, js, t, x)
      BY <1>2 DEF WInv, Core
    <2>1. \A a, b : JobLink(js, a, b) => JobLink(js2, a, b)
      BY <1>6 DEF JobLink, nj
    <2>2. Outcome(ps, cs[c])
      <3>1. cs[c].got[2][1] # "plain" /\ cs[c].got[2] # OtherPromise(p)
        BY ResTags
      <3> QED BY <3>1, <1>7 DEF Outcome
    <2>3. ASSUME NEW q \in 1..Len(ps), Follows(ps, cs[c], q) PROVE JobLink(js2, cs[c].p, q)
      <3>1. js2[mj] = ThenableJob(p, OtherPromise(q))
        BY <2>3, <1>6 DEF Follows, w
      <3> QED BY <3>1, <1>6 DEF JobLink
    <2>4. ASSUME NEW d \in 1..Len(cs), d # c, cs[d].already_resolved, NEW q \in 1..Len(ps), Follows(ps, cs[d], q)
          PROVE  JobLink(js, cs[d].p, q) \/ CapLink(cs, rs, cs[d].p, q)
      <3>1. \/ JobLink(js, cs[d].p, q) \/ CapLink(cs, rs, cs[d].p, q)
            \/ CallLink(ps, cs, x, cs[d].p, q)
        <4>1. d # x
          BY <2>4
        <4> QED BY <4>1, <2>0, <2>4 DEF OutcomesOK
      <3>2. ~CallLink(ps, cs, x, cs[d].p, q)
        <4> SUFFICES ASSUME CallLink(ps, cs, x, cs[d].p, q) PROVE FALSE
          OBVIOUS
        <4>1. ps[q].state # "pending" /\ res = PassedOn(ps[q].result)
          BY DEF CallLink
        <4>2. ps[q].result # "object"
          BY <4>1, <2>4 DEF Follows
        <4>3. ps[q].result \in Results
          BY <4>1, <1>8 DEF ListsOK, ListOK
        <4>4. res = Plain(ps[q].result)
          BY <4>1, <4>2, <4>3, ResTags
        <4> QED BY <4>4, ResTags
      <3> QED BY <3>1, <3>2
    <2>5. ASSUME NEW d \in 1..Len(cs), d # c, cs[d].already_resolved PROVE Outcome(ps, cs[d])
      <3>1. d # x
        BY <2>5
      <3> QED BY <3>1, <2>0, <2>5 DEF OutcomesOK
    <2>6. ASSUME NEW k \in 1..n, st[k].op = "getter"
          PROVE  ~cs[st[k].cap].got[1] /\ cs[st[k].cap].got[2] = Object
      <3>1. st[k].cap # c
        BY <2>6, <1>7 DEF GetWay
      <3>2. st[k].cap \in 1..Len(cs) /\ st[k].cap # 0
        BY <2>6, <1>0, <1>2, <1>3 DEF WInv, Core, StackOK, FrameOK
      <3> QED BY <3>1, <3>2, <2>0, <2>6, <1>3 DEF OutcomesOK
    <2> QED BY <2>1, <2>2, <2>3, <2>4, <2>5, <2>6 DEF OutcomesOK, n
  <1>18. WInv(ps, cs, rs, js2, st, 0)
    BY <1>8, <1>9, <1>10, <1>11, <1>12, <1>13, <1>14, <1>15, <1>16, <1>17 DEF WInv, Core
  <1> QED BY <1>18 DEF js2, w

(* The getter of an object is called.                                      *)
LEMMA GetterCalled ==
    ASSUME NEW ps, NEW cs, NEW rs, NEW js, NEW st, NEW c \in 1..Len(cs),
           WInv(ps, cs, rs, js, st, c), cs[c].already_resolved,
           ~cs[c].got[1], cs[c].got[2] = Object
    PROVE  WInv(ps, cs, rs, js, st, 0)
  <1>1. HandlersOK(ps, cs, rs, st, 0)
    <2>1. HandlersOK(ps, cs, rs, st, c)
      BY DEF WInv, Core
    <2>2. ASSUME NEW k \in 1..Len(st), st[k].op = "handler" PROVE HandlerOK(st[k], ps, cs, rs, 0)
      <3>1. HandlerOK(st[k], ps, cs, rs, c)
        BY <2>1, <2>2 DEF HandlersOK
      <3>2. st[k].cap # c
        BY <3>1 DEF HandlerOK
      <3> QED BY <3>1, <3>2 DEF HandlerOK
    <2> QED BY <2>1, <2>2 DEF HandlersOK
  <1>2. OutcomesOK(ps, cs, rs, js, st, 0)
    <2>0. OutcomesOK(ps, cs, rs, js, st, c) /\ ListsOK(ps, rs)
      BY DEF WInv, Core
    <2>1. Outcome(ps, cs[c]) /\ \A q \in 1..Len(ps) : ~Follows(ps, cs[c], q)
      BY ResTags DEF Outcome, Follows
    <2>2. ASSUME NEW d \in 1..Len(cs), NEW q \in 1..Len(ps), Follows(ps, cs[d], q)
          PROVE  ~CallLink(ps, cs, c, cs[d].p, q)
      <3> SUFFICES ASSUME CallLink(ps, cs, c, cs[d].p, q) PROVE FALSE
        OBVIOUS
      <3>1. ps[q].state # "pending" /\ Object = PassedOn(ps[q].result)
        BY DEF CallLink
      <3>2. ps[q].result # "object"
        BY <3>1, <2>2 DEF Follows
      <3>3. ps[q].result \in Results
        BY <3>1, <2>0 DEF ListsOK, ListOK
      <3> QED BY <3>1, <3>2, <3>3, ResTags
    <2>3. \A k \in 1..Len(st) : st[k].op = "getter" =>
             ~cs[st[k].cap].got[1] /\ cs[st[k].cap].got[2] = Object
      BY <2>0 DEF OutcomesOK
    <2> QED BY <2>0, <2>1, <2>2, <2>3 DEF OutcomesOK
  <1> QED BY <1>1, <1>2 DEF WInv, Core

(* How the promises change when reaction r of promise p runs.              *)
Runs(ps, ps2, p, r) ==
    /\ ps2 \in Seq(PromiseRec) /\ Len(ps2) = Len(ps)
    /\ \A i \in 1..Len(ps) : i # p => ps2[i] = ps[i]
    /\ ps2[p].state = ps[p].state /\ ps2[p].result = ps[p].result
    /\ ps2[p].reactions = ps[p].reactions /\ ps2[p].registered = ps[p].registered
    /\ ps2[p].is_handled <=> ps[p].is_handled
    /\ ps2[p].ran = Append(ps[p].ran, r)

(* The first job is the reaction that is due on its promise; its functions *)
(* are with the handler from now on, or, without one, they are called.     *)
LEMMA ReactionRuns ==
    ASSUME NEW ps, NEW cs, NEW rs, NEW js, NEW st, WInv(ps, cs, rs, js, st, 0),
           js # <<>>, NEW r \in Nat, Head(js) = ReactionJob(r), NEW ps2, Runs(ps, ps2, rs[r].on, r),
           NEW x, x = rs[r].cap \/ (x = 0 /\ rs[r].handlers # {})
    PROVE  /\ r \in 1..Len(rs) /\ rs[r].on \in 1..Len(ps) /\ ps[rs[r].on].state # "pending"
           /\ WInv(ps2, cs, rs, Tail(js), Append(st, CodeFrame("handler", rs[r].cap)), x)
  <1> DEFINE p == rs[r].on
             c == rs[r].cap
             f == CodeFrame("handler", c)
             t == Append(st, f)
             n == Len(st)
             m == Len(st) + 1
             u == Tail(js)
             nj == Len(js) - 1
             old == ps[p].ran
             new == ps2[p].ran
             reg == ps[p].registered
             h == Len(old)
  <1>0. /\ ps \in Seq(PromiseRec) /\ cs \in Seq(CapRec) /\ rs \in Seq(ReactRec) /\ js \in Seq(Job)
        /\ st \in Seq(Frame) /\ Len(ps) \in Nat /\ Len(cs) \in Nat /\ Len(rs) \in Nat
    BY LenProperties DEF WInv, Core, Typed
  <1>1. /\ u \in Seq(Job) /\ Len(u) = nj /\ js[1] = ReactionJob(r) /\ nj \in Nat /\ 1 \in 1..Len(js)
        /\ \A i \in 1..nj : i + 1 \in 1..Len(js) /\ i + 1 # 1 /\ u[i] = js[i + 1]
        /\ \A i \in 1..Len(js) : i # 1 => i - 1 \in 1..nj /\ u[i - 1] = js[i]
    BY <1>0, TailIs
  <1> HIDE DEF u, nj
  <1>2. r \in 1..Len(rs) /\ p \in 1..Len(ps) /\ c \in 1..Len(cs)
    <2>1. r \in 1..Len(rs)
      BY <1>1 DEF WInv, Core, JobsOK, JobOK
    <2> QED BY <2>1 DEF WInv, Core, ReactsOK
  <1>3. f \in Frame /\ f.op = "handler" /\ f.cap = c
    BY <1>0, <1>2 DEF CodeFrame, Frame, Ops
  <1> HIDE DEF f
  <1>4. /\ t \in Seq(Frame) /\ Len(t) = m /\ t[m] = f /\ m \in 1..m /\ m \notin 1..n
        /\ \A i \in 1..n : i \in 1..m /\ t[i] = st[i]
        /\ \A i \in 1..m : i \in 1..n \/ i = m
    BY <1>0, <1>3, AppendIs
  <1> HIDE DEF t, m, n
  <1>5. /\ ps2 \in Seq(PromiseRec) /\ Len(ps2) = Len(ps)
        /\ \A i \in 1..Len(ps) : i # p => ps2[i] = ps[i]
        /\ \A i \in 1..Len(ps) : /\ ps2[i].state = ps[i].state /\ ps2[i].result = ps[i].result
                                 /\ ps2[i].reactions = ps[i].reactions /\ ps2[i].registered = ps[i].registered
                                 /\ ps2[i].is_handled <=> ps[i].is_handled
    BY DEF Runs
  <1>6. /\ h \in Nat /\ Len(new) = h + 1 /\ new[h + 1] = r
        /\ \A i \in 1..h : i \in 1..(h + 1) /\ new[i] = old[i]
        /\ \A i \in 1..(h + 1) : i \in 1..h \/ i = h + 1
        /\ h + 1 \in 1..(h + 1) /\ Len(reg) \in Nat
    <2>1. ps[p] \in PromiseRec
      BY <1>0, <1>2, ElementOfSeq
    <2>2. old \in Seq(Nat) /\ reg \in Seq(Nat)
      BY <2>1 DEF PromiseRec
    <2>3. new = Append(old, r)
      BY DEF Runs
    <2> HIDE DEF old, new, reg
    <2>4. Len(old) \in Nat /\ Len(reg) \in Nat
      BY <2>2, LenProperties
    <2> QED BY <2>2, <2>3, <2>4, AppendIs
  <1>7. /\ Len(ps[p].ran) = h /\ ps2[p].ran = new /\ Len(ps2[p].ran) = h + 1
        /\ ps[p].ran = old /\ ps[p].registered = reg
    BY <1>6
  <1>8. /\ ListOK(ps[p], p, rs) /\ WaitsIn(ps[p], r)
        /\ AllQueued(ps, js) /\ InOrder(ps, js) /\ Queued(ps, rs, js)
    BY <1>1, <1>2 DEF WInv, Core, ListsOK, Queued
  <1> HIDE DEF old, new, reg, h
  <1>9. /\ \A i, j \in 1..Len(reg) : reg[i] = reg[j] => i = j
        /\ h <= Len(reg) /\ \A i \in 1..h : old[i] = reg[i]
        /\ ps[p].state # "pending"
    BY <1>7, <1>8 DEF ListOK, WaitsIn
  <1>10. h + 1 \in 1..Len(reg) /\ reg[h + 1] = r
    <2>1. PICK i \in 1..Len(reg) : i > h /\ reg[i] = r
      BY <1>7, <1>8 DEF WaitsIn
    <2>2. h + 1 \in 1..Len(reg) /\ h + 1 > h
      BY <2>1, <1>6
    <2>3. PICK k \in 1..Len(js) : js[k] = ReactionJob(reg[h + 1])
      BY <2>2, <1>2, <1>7, <1>8, <1>9 DEF AllQueued
    <2>4. CASE i = h + 1
      BY <2>1, <2>2, <2>4
    <2>5. CASE i # h + 1
      <3>1. reg[h + 1] # r
        BY <2>1, <2>2, <2>5, <1>9
      <3>2. k # 1
        BY <2>3, <3>1, <1>1, JobTags
      <3>3. 1 < k
        BY <3>2
      <3>4. js[1] = ReactionJob(reg[i])
        BY <2>1, <1>1
      <3>5. i < h + 1
        BY <3>3, <3>4, <2>2, <2>3, <1>1, <1>2, <1>7, <1>8 DEF InOrder
      <3> QED BY <3>5, <2>1, <1>6
    <2> QED BY <2>4, <2>5
  <1>11. \A k \in 1..Len(js) : js[k] = ReactionJob(r) => k = 1
    <2> SUFFICES ASSUME NEW k \in 1..Len(js), js[k] = ReactionJob(r), k # 1 PROVE FALSE
      OBVIOUS
    <2>1. 1 < k
      OBVIOUS
    <2>a. /\ h + 1 \in 1..Len(ps[p].registered)
          /\ js[1] = ReactionJob(ps[p].registered[h + 1]) /\ js[k] = ReactionJob(ps[p].registered[h + 1])
      BY <1>1, <1>7, <1>10
    <2>2. h + 1 < h + 1
      BY <2>1, <2>a, <1>1, <1>2, <1>8 DEF InOrder
    <2> QED BY <2>2, <1>6
  <1>12. \A s \in 1..Len(rs) : InRan(ps2[rs[s].on], s) <=> InRan(ps[rs[s].on], s) \/ s = r
    <2> SUFFICES ASSUME NEW s \in 1..Len(rs)
                 PROVE  InRan(ps2[rs[s].on], s) <=> InRan(ps[rs[s].on], s) \/ s = r
      OBVIOUS
    <2>1. rs[s].on \in 1..Len(ps)
      BY DEF WInv, Core, ReactsOK
    <2>2. CASE rs[s].on # p
      BY <2>1, <2>2, <1>5
    <2>3. CASE rs[s].on = p
      <3>1. InRan(ps[p], s) <=> \E i \in 1..h : old[i] = s
        BY <1>7 DEF InRan
      <3>2. InRan(ps2[p], s) <=> \E i \in 1..(h + 1) : new[i] = s
        BY <1>7 DEF InRan
      <3> QED BY <2>3, <3>1, <3>2, <1>6
    <2> QED BY <2>2, <2>3
  <1>13. ~InRan(ps[p], r) /\ ~cs[c].already_resolved
    <2>1. \A i \in 1..h : i \in 1..Len(reg) /\ i # h + 1
      BY <1>6, <1>9
    <2>2. ~InRan(ps[p], r)
      BY <2>1, <1>7, <1>9, <1>10 DEF InRan
    <2> QED BY <2>2, <1>2 DEF WInv, Core, HandlersOK
  <1> HIDE DEF p, c
  <1>14. Typed(ps2, cs, rs, u, t)
    BY <1>0, <1>1, <1>4, <1>5 DEF Typed
  <1>15. CapsOK(ps2, cs) /\ ReactsOK(ps2, cs, rs) /\ JobsOK(ps2, rs, u)
    BY <1>1, <1>5 DEF WInv, Core, CapsOK, ReactsOK, JobsOK
  <1>16. StackOK(ps2, cs, rs, t)
    <2>1. \A k \in 1..n : FrameOK(st[k], ps2, cs, rs)
      BY <1>5 DEF WInv, Core, StackOK, FrameOK, n
    <2>2. FrameOK(f, ps2, cs, rs)
      BY <1>2, <1>3 DEF FrameOK
    <2> QED BY <2>1, <2>2, <1>4 DEF StackOK
  <1>17. ListsOK(ps2, rs)
    <2>1. ListOK(ps2[p], p, rs)
      <3>1. h + 1 <= Len(reg)
        BY <1>6, <1>10
      <3>2. \A i \in 1..(h + 1) : new[i] = reg[i]
        BY <1>6, <1>9, <1>10
      <3>3. ps2[p].state # "pending" /\ ps2[p].registered = reg
        BY <1>2, <1>5, <1>7, <1>9
      <3> QED BY <3>1, <3>2, <3>3, <1>2, <1>5, <1>7, <1>8 DEF ListOK
    <2> QED BY <2>1, <1>5 DEF WInv, Core, ListsOK
  <1>18. Queued(ps2, rs, u)
    <2> SUFFICES ASSUME NEW k \in 1..nj, NEW s \in 1..Len(rs), u[k] = ReactionJob(s)
                 PROVE  WaitsIn(ps2[rs[s].on], s)
      BY <1>1 DEF Queued
    <2>1. k + 1 \in 1..Len(js) /\ k + 1 # 1 /\ js[k + 1] = ReactionJob(s)
      BY <1>1
    <2>2. s # r
      BY <2>1, <1>11
    <2>3. WaitsIn(ps[rs[s].on], s) /\ rs[s].on \in 1..Len(ps)
      BY <2>1, <1>8 DEF Queued, WInv, Core, ReactsOK
    <2>4. CASE rs[s].on # p
      BY <2>3, <2>4, <1>5
    <2>5. CASE rs[s].on = p
      <3>1. PICK i \in 1..Len(reg) : i > h /\ reg[i] = s
        BY <2>3, <2>5, <1>7 DEF WaitsIn
      <3>2. i > h + 1
        BY <3>1, <2>2, <1>6, <1>10
      <3> QED BY <3>1, <3>2, <2>3, <2>5, <1>5, <1>7 DEF WaitsIn
    <2> QED BY <2>4, <2>5
  <1>19. AllQueued(ps2, u)
    <2> SUFFICES ASSUME NEW q \in 1..Len(ps), ps2[q].state # "pending",
                        NEW i \in 1..Len(ps2[q].registered), i > Len(ps2[q].ran)
                 PROVE  \E k \in 1..nj : u[k] = ReactionJob(ps2[q].registered[i])
      BY <1>1, <1>5 DEF AllQueued
    <2>0. /\ ps[q].state # "pending" /\ ps2[q].registered = ps[q].registered
          /\ i \in 1..Len(ps[q].registered)
      BY <1>5
    <2>1. i > Len(ps[q].ran) /\ ps[q].registered[i] # r
      <3>1. CASE q = p
        <4>1. i > h + 1 /\ i \in 1..Len(reg)
          BY <3>1, <2>0, <1>7
        <4>2. i > h /\ reg[i] # r
          BY <4>1, <1>6, <1>9, <1>10
        <4> QED BY <3>1, <4>2, <1>7
      <3>2. CASE q # p
        <4>1. i > Len(ps[q].ran)
          BY <3>2, <1>5
        <4>2. rs[ps[q].registered[i]].on = q
          BY <2>0 DEF WInv, Core, ListsOK, ListOK
        <4> QED BY <3>2, <4>1, <4>2 DEF p
      <3> QED BY <3>1, <3>2
    <2>2. PICK k \in 1..Len(js) : js[k] = ReactionJob(ps[q].registered[i])
      BY <2>0, <2>1, <1>8 DEF AllQueued
    <2>3. k # 1
      BY <2>1, <2>2, <1>1, JobTags
    <2> QED BY <2>0, <2>2, <2>3, <1>1
  <1>20. InOrder(ps2, u)
    <2>b. Len(u) = nj /\ Len(ps2) = Len(ps)
      BY <1>1, <1>5
    <2> SUFFICES ASSUME NEW q \in 1..Len(ps), NEW i \in 1..Len(ps2[q].registered),
                        NEW j \in 1..Len(ps2[q].registered), NEW k \in 1..nj, NEW l \in 1..nj, k < l,
                        u[k] = ReactionJob(ps2[q].registered[i]),
                        u[l] = ReactionJob(ps2[q].registered[j])
                 PROVE  i < j
      BY <2>b DEF InOrder
    <2>0. ps2[q].registered = ps[q].registered
      BY <1>5
    <2>a. k + 1 < l + 1
      OBVIOUS
    <2>1. k + 1 < l + 1 /\ k + 1 \in 1..Len(js) /\ l + 1 \in 1..Len(js)
      BY <2>a, <1>1
    <2>2. js[k + 1] = u[k] /\ js[l + 1] = u[l]
      BY <1>1
    <2> QED BY <2>0, <2>1, <2>2, <1>8 DEF InOrder
  <1>21. TrackersOK(ps2, rs, t)
    <2>0. TrackersOK(ps, rs, st) /\ ReactsOK(ps, cs, rs)
      BY DEF WInv, Core
    <2>1. \A s \in 1..Len(rs) : InRegistered(ps2[rs[s].on], s) <=> InRegistered(ps[rs[s].on], s)
      BY <2>0, <1>5, SMTT(30) DEF ReactsOK, InRegistered
    <2>2. \A k \in 1..m, s \in 1..Len(rs) : IsAdding(t[k], s) => k \in 1..n /\ IsAdding(st[k], s)
      <3>1. \A s \in 1..Len(rs) : ~IsAdding(f, s)
        BY <1>3 DEF IsAdding
      <3> QED BY <3>1, <1>4
    <2>3. \A k \in 1..n, s \in 1..Len(rs) : IsAdding(st[k], s) => k \in 1..m /\ IsAdding(t[k], s)
      BY <1>4
    <2> QED BY <2>0, <2>1, <2>2, <2>3, <1>4 DEF TrackersOK, n
  <1>22. HandlersOK(ps2, cs, rs, t, x)
    <2>0. HandlersOK(ps, cs, rs, st, 0) /\ ReactsOK(ps, cs, rs) /\ StackOK(ps, cs, rs, st)
      BY DEF WInv, Core
    <2>1. ASSUME NEW k \in 1..n, st[k].op = "handler"
          PROVE  HandlerOK(st[k], ps2, cs, rs, x) /\ st[k].cap # c
      <3>1. HandlerOK(st[k], ps, cs, rs, 0) /\ st[k].cap \in 1..Len(cs)
        BY <2>0, <2>1 DEF HandlersOK, StackOK, FrameOK, n
      <3>2. PICK s \in 1..Len(rs) : /\ rs[s].cap = st[k].cap /\ InRan(ps[rs[s].on], s)
                                    /\ rs[s].handlers = {} => st[k].cap = 0
        BY <3>1 DEF HandlerOK
      <3>3. st[k].cap # c
        BY <3>2, <2>0, <1>2, <1>13 DEF ReactsOK, p, c
      <3>4. HandlerOK(st[k], ps2, cs, rs, x)
        BY <3>1, <3>2, <1>12 DEF HandlerOK
      <3> QED BY <3>3, <3>4
    <2>2. HandlerOK(f, ps2, cs, rs, x)
      <3>1. rs[r].cap = f.cap /\ InRan(ps2[rs[r].on], r) /\ (rs[r].handlers = {} => f.cap = x)
        BY <1>2, <1>3, <1>12 DEF c
      <3> QED BY <3>1, <1>2, <1>3, <1>13 DEF HandlerOK
    <2>3. \A k \in 1..m : t[k].op = "handler" => HandlerOK(t[k], ps2, cs, rs, x)
      BY <2>1, <2>2, <1>4
    <2>4. \A k, l \in 1..m : \A i \in 1..Len(cs) : Handles(t[k], i) /\ Handles(t[l], i) => k = l
      <3> SUFFICES ASSUME NEW k \in 1..m, NEW l \in 1..m, NEW i \in 1..Len(cs), Handles(t[k], i), Handles(t[l], i)
                   PROVE  k = l
        OBVIOUS
      <3>1. CASE i = c
        <4>1. \A k1 \in 1..n : ~Handles(t[k1], c)
          BY <2>1, <1>4 DEF Handles
        <4> QED BY <3>1, <4>1, <1>4
      <3>2. CASE i # c
        <4>1. ~Handles(t[m], i)
          BY <3>2, <1>3, <1>4 DEF Handles
        <4> QED BY <4>1, <2>0, <1>4 DEF HandlersOK, n
      <3> QED BY <3>1, <3>2
    <2>5. \A s \in 1..Len(rs) : ~InRan(ps2[rs[s].on], s) => ~cs[rs[s].cap].already_resolved
      BY <2>0, <1>12 DEF HandlersOK
    <2>6. ASSUME NEW s \in 1..Len(rs), InRan(ps2[rs[s].on], s), ~cs[rs[s].cap].already_resolved
          PROVE  \E k \in 1..m : Handles(t[k], rs[s].cap)
      <3>1. CASE s = r
        BY <3>1, <1>3, <1>4 DEF Handles, c
      <3>2. CASE s # r
        <4>1. \E k \in 1..n : Handles(st[k], rs[s].cap)
          BY <3>2, <2>0, <2>6, <1>12 DEF HandlersOK, n
        <4> QED BY <4>1, <1>4
      <3> QED BY <3>1, <3>2
    <2> QED BY <2>3, <2>4, <2>5, <2>6, <1>4 DEF HandlersOK
  <1>23. WaysOK(ps2, cs, u, t)
    <2> SUFFICES ASSUME NEW q \in 1..Len(ps) PROVE WaysOf(ps2[q], q, cs, u, t)
      BY <1>5 DEF WaysOK
    <2>1. WaysOf(ps[q], q, cs, js, st) /\ ps2[q].state = ps[q].state
      BY <1>5 DEF WInv, Core, WaysOK
    <2>2. \A i \in 1..nj : JobWay(u[i], q) => i + 1 \in 1..Len(js) /\ JobWay(js[i + 1], q)
      BY <1>1
    <2>3. \A i \in 1..Len(js) : JobWay(js[i], q) => i - 1 \in 1..nj /\ JobWay(u[i - 1], q)
      <3>1. ~JobWay(js[1], q)
        BY <1>1, JobTags DEF JobWay
      <3> QED BY <3>1, <1>1
    <2>4. \A k, l \in 1..nj : k + 1 = l + 1 => k = l
      BY <1>1
    <2>5. \A k \in 1..m : GetWay(t[k], cs, q) => k \in 1..n /\ GetWay(st[k], cs, q)
      <3>1. ~GetWay(f, cs, q)
        BY <1>3 DEF GetWay
      <3> QED BY <3>1, <1>4
    <2>6. \A k \in 1..n : GetWay(st[k], cs, q) => k \in 1..m /\ GetWay(t[k], cs, q)
      BY <1>4
    <2> QED BY <2>1, <2>2, <2>3, <2>4, <2>5, <2>6, <1>1, <1>4, SMTT(30) DEF WaysOf, n
  <1>24. OutcomesOK(ps2, cs, rs, u, t, x)
    <2>1. CapsOK(ps, cs) /\ ReactsOK(ps, cs, rs) /\ OutcomesOK(ps, cs, rs, js, st, 0)
      BY DEF WInv, Core
    <2>2. \A k \in 1..Len(t) : t[k].op = "getter" =>
             t[k].cap \in 1..Len(cs) /\ \E l \in 1..Len(st) : st[l] = t[k]
      BY <1>3, <1>4 DEF WInv, Core, StackOK, FrameOK, n
    <2>3. \A a, b : JobLink(js, a, b) => JobLink(u, a, b)
      BY <1>1, JobTags DEF JobLink
    <2> QED BY <2>1, <2>2, <2>3, <1>0, <1>5, OutcomesKept
  <1>25. WInv(ps2, cs, rs, u, t, x)
    BY <1>14, <1>15, <1>16, <1>17, <1>18, <1>19, <1>20, <1>21, <1>22, <1>23, <1>24 DEF WInv, Core
  <1> QED BY <1>2, <1>9, <1>25 DEF u, t, f, c, p

(* The reports are nothing that the rest depends on.                       *)
LEMMA ReportsAside ==
    ASSUME NEW ps, NEW cs, NEW rs, NEW js, NEW st, NEW x, WInv(ps, cs, rs, js, st, x),
           NEW ps2 \in Seq(PromiseRec), Len(ps2) = Len(ps),
           \A i \in 1..Len(ps) :
              /\ ps2[i].state = ps[i].state /\ ps2[i].result = ps[i].result
              /\ ps2[i].reactions = ps[i].reactions /\ ps2[i].registered = ps[i].registered
              /\ ps2[i].ran = ps[i].ran /\ (ps2[i].is_handled <=> ps[i].is_handled)
    PROVE  WInv(ps2, cs, rs, js, st, x)
  <1>1. Typed(ps2, cs, rs, js, st)
    BY DEF WInv, Core, Typed
  <1>2. CapsOK(ps2, cs) /\ ReactsOK(ps2, cs, rs) /\ JobsOK(ps2, rs, js)
    BY DEF WInv, Core, CapsOK, ReactsOK, JobsOK
  <1>3. StackOK(ps2, cs, rs, st)
    <2>1. \A k \in 1..Len(st) : FrameOK(st[k], ps, cs, rs) => FrameOK(st[k], ps2, cs, rs)
      BY DEF FrameOK
    <2> QED BY <2>1 DEF WInv, Core, StackOK
  <1>4. ListsOK(ps2, rs)
    <2>1. ASSUME NEW p \in 1..Len(ps), ListOK(ps[p], p, rs) PROVE ListOK(ps2[p], p, rs)
      <3> DEFINE s == ps[p]
                 t == ps2[p]
      <3>1. /\ t.state = s.state /\ t.result = s.result
            /\ t.reactions = s.reactions /\ t.registered = s.registered
            /\ t.ran = s.ran /\ (t.is_handled <=> s.is_handled)
        OBVIOUS
      <3> HIDE DEF s, t
      <3>2. ListOK(s, p, rs)
        BY <2>1 DEF s
      <3>3. ListOK(t, p, rs)
        BY <3>1, <3>2 DEF ListOK
      <3> QED BY <3>3 DEF t
    <2> QED BY <2>1 DEF WInv, Core, ListsOK
  <1>5. \A r \in 1..Len(rs) : rs[r].on \in 1..Len(ps)
    BY DEF WInv, Core, ReactsOK
  <1>6. Queued(ps2, rs, js)
    <2>1. \A r \in 1..Len(rs) : WaitsIn(ps[rs[r].on], r) => WaitsIn(ps2[rs[r].on], r)
      BY <1>5 DEF WaitsIn
    <2> QED BY <2>1 DEF WInv, Core, Queued
  <1>7. AllQueued(ps2, js)
    <2> SUFFICES ASSUME NEW q \in 1..Len(ps), ps2[q].state # "pending",
                        NEW i \in 1..Len(ps2[q].registered), i > Len(ps2[q].ran)
                 PROVE  \E k \in 1..Len(js) : js[k] = ReactionJob(ps2[q].registered[i])
      BY DEF AllQueued
    <2>1. ps2[q].state = ps[q].state /\ ps2[q].registered = ps[q].registered /\ ps2[q].ran = ps[q].ran
      OBVIOUS
    <2> QED BY <2>1, SMTT(30) DEF WInv, Core, AllQueued
  <1>8. InOrder(ps2, js)
    <2> SUFFICES ASSUME NEW q \in 1..Len(ps), NEW i \in 1..Len(ps2[q].registered),
                        NEW j \in 1..Len(ps2[q].registered), NEW k \in 1..Len(js), NEW l \in 1..Len(js),
                        k < l, js[k] = ReactionJob(ps2[q].registered[i]),
                        js[l] = ReactionJob(ps2[q].registered[j])
                 PROVE  i < j
      BY ZenonT(60) DEF InOrder
    <2>1. ps2[q].registered = ps[q].registered
      OBVIOUS
    <2> QED BY <2>1 DEF WInv, Core, InOrder
  <1>9. /\ \A r \in 1..Len(rs) : InRegistered(ps2[rs[r].on], r) <=> InRegistered(ps[rs[r].on], r)
        /\ \A r \in 1..Len(rs) : InRan(ps2[rs[r].on], r) <=> InRan(ps[rs[r].on], r)
    BY <1>5 DEF InRegistered, InRan
  <1>10. TrackersOK(ps2, rs, st)
    BY <1>9 DEF WInv, Core, TrackersOK
  <1>11. HandlersOK(ps2, cs, rs, st, x)
    <2>1. HandlersOK(ps, cs, rs, st, x)
      BY DEF WInv, Core
    <2>2. \A k \in 1..Len(st) : HandlerOK(st[k], ps, cs, rs, x) => HandlerOK(st[k], ps2, cs, rs, x)
      BY <1>9 DEF HandlerOK
    <2> QED BY <2>1, <2>2, <1>9 DEF HandlersOK
  <1>12. WaysOK(ps2, cs, js, st)
    <2>1. \A p \in 1..Len(ps) : WaysOf(ps[p], p, cs, js, st) => WaysOf(ps2[p], p, cs, js, st)
      BY DEF WaysOf
    <2> QED BY <2>1 DEF WInv, Core, WaysOK
  <1>13. OutcomesOK(ps2, cs, rs, js, st, x)
    <2>0. OutcomesOK(ps, cs, rs, js, st, x) /\ CapsOK(ps, cs)
      BY DEF WInv, Core
    <2>1. ASSUME NEW c \in 1..Len(cs), c # x, cs[c].already_resolved
          PROVE  /\ Outcome(ps2, cs[c])
                 /\ \A q \in 1..Len(ps2) : Follows(ps2, cs[c], q) =>
                       \/ JobLink(js, cs[c].p, q) \/ CapLink(cs, rs, cs[c].p, q)
                       \/ CallLink(ps2, cs, x, cs[c].p, q)
      <3>1. Outcome(ps, cs[c]) /\ cs[c].p \in 1..Len(ps)
        BY <2>0, <2>1 DEF OutcomesOK, CapsOK
      <3>2. Outcome(ps2, cs[c])
        BY <3>1, SMTT(30) DEF Outcome
      <3>3. ASSUME NEW q \in 1..Len(ps), Follows(ps2, cs[c], q)
            PROVE  \/ JobLink(js, cs[c].p, q) \/ CapLink(cs, rs, cs[c].p, q)
                   \/ CallLink(ps2, cs, x, cs[c].p, q)
        <4>1. Follows(ps, cs[c], q)
          BY <3>1, <3>3 DEF Follows
        <4>2. CallLink(ps, cs, x, cs[c].p, q) => CallLink(ps2, cs, x, cs[c].p, q)
          BY DEF CallLink
        <4> QED BY <4>1, <4>2, <2>0, <2>1 DEF OutcomesOK
      <3> QED BY <3>2, <3>3
    <2>2. \A k \in 1..Len(st) : st[k].op = "getter" /\ st[k].cap # x =>
             ~cs[st[k].cap].got[1] /\ cs[st[k].cap].got[2] = Object
      BY <2>0 DEF OutcomesOK
    <2> QED BY <2>1, <2>2 DEF OutcomesOK
  <1> QED BY <1>1, <1>2, <1>3, <1>4, <1>6, <1>7, <1>8, <1>10, <1>11, <1>12, <1>13 DEF WInv, Core

(* Which frames have to do with reports.                                   *)
LEMMA AddingIs ==
    ASSUME NEW st \in Seq(Frame), NEW f \in Frame, NEW p
    PROVE  Adding(Append(st, f), p) <=> Adding(st, p) \/ (f.op = "tracker" /\ f.p = p /\ f.react # 0)
  <1> DEFINE t == Append(st, f)
             n == Len(st)
             m == Len(st) + 1
  <1>1. /\ Len(t) = m /\ t[m] = f /\ m \in 1..m
        /\ \A i \in 1..n : i \in 1..m /\ t[i] = st[i]
        /\ \A i \in 1..m : i \in 1..n \/ i = m
    BY AppendIs
  <1> HIDE DEF t, m
  <1>2. Adding(t, p) <=> Adding(st, p) \/ (f.op = "tracker" /\ f.p = p /\ f.react # 0)
    BY <1>1 DEF Adding
  <1> QED BY <1>2 DEF t

(* What fulfill_or_reject_promise does, in words of the lemmas above.      *)
Reported(ps, ps2, p, state, base, st2, tr) ==
    \/ /\ state = "rejected" /\ ~ps[p].is_handled /\ tr
       /\ ps2[p].reports = Append(ps[p].reports, FALSE)
       /\ st2 = Append(base, TrackerFrame(p, 0))
    \/ /\ ~(state = "rejected" /\ ~ps[p].is_handled /\ tr)
       /\ ps2[p].reports = ps[p].reports
       /\ st2 = base

(* A promise without reactions adds no job.                                *)
LEMMA NoReactionJobs ==
    ASSUME NEW js \in Seq(Job)
    PROVE  js \o ReactionJobs(<<>>) = js
  <1>1. ReactionJobs(<<>>) = <<>>
    BY DEF ReactionJobs
  <1> QED BY <1>1, ConcatEmptySeq

(* fulfill_or_reject_promise settles the promise as Settles says, with or  *)
(* without a report.                                                       *)
LEMMA FulfillIs ==
    ASSUME NEW ps \in Seq(PromiseRec), NEW js \in Seq(Job), NEW p \in 1..Len(ps),
           NEW state \in {"fulfilled", "rejected"}, NEW v \in Results, NEW base, NEW rs,
           ListOK(ps[p], p, rs), fulfill_or_reject_promise(ps, js, p, state, v, base)
    PROVE  /\ Settles(ps, promises', js, jobs', p, state, v) /\ ps[p].state = "pending"
           /\ Reported(ps, promises', p, state, base, stk', tracker)
  <1> DEFINE report == state = "rejected" /\ ~ps[p].is_handled /\ tracker
             e1 == [ps[p] EXCEPT !.state = state, !.result = v, !.reports = Append(@, FALSE)]
             e2 == [ps[p] EXCEPT !.state = state, !.result = v, !.reactions = <<>>]
             q1 == [[ps EXCEPT ![p].state = state, ![p].result = v] EXCEPT ![p].reports = Append(@, FALSE)]
             q2 == [[ps EXCEPT ![p].state = state, ![p].result = v] EXCEPT ![p].reactions = <<>>]
  <1>1. ps[p] \in PromiseRec
    BY ElementOfSeq
  <1>a. ps[p].reports \in Seq(BOOLEAN) /\ <<>> \in Seq(Nat)
    BY <1>1 DEF PromiseRec
  <1>2. Append(ps[p].reports, FALSE) \in Seq(BOOLEAN)
    BY <1>a, AppendIs
  <1>3. e1 \in PromiseRec /\ e2 \in PromiseRec
    BY <1>1, <1>a, <1>2 DEF PromiseRec
  <1>b. /\ ps[p].state = "pending"
        /\ \/ report /\ promises' = q1 /\ jobs' = js /\ stk' = Append(base, TrackerFrame(p, 0))
           \/ ~report /\ promises' = q2 /\ jobs' = js \o ReactionJobs(ps[p].reactions) /\ stk' = base
    BY Zenon DEF fulfill_or_reject_promise, ReactionJobs
  <1>c. q1 = [ps EXCEPT ![p] = e1] /\ q2 = [ps EXCEPT ![p] = e2]
    <2>1. ps \in [1..Len(ps) -> PromiseRec]
      BY LenProperties
    <2> QED BY <2>1, <1>1 DEF PromiseRec
  <1>4. /\ ps[p].state = "pending"
        /\ \/ report /\ promises' = [ps EXCEPT ![p] = e1] /\ jobs' = js /\ stk' = Append(base, TrackerFrame(p, 0))
           \/ /\ ~report /\ promises' = [ps EXCEPT ![p] = e2] /\ stk' = base
              /\ jobs' = js \o ReactionJobs(ps[p].reactions)
    <2> HIDE DEF q1, q2, e1, e2, report
    <2> QED BY <1>b, <1>c
  <1>5. /\ e1.state = state /\ e1.result = v /\ e1.ran = ps[p].ran /\ e1.registered = ps[p].registered
        /\ e1.is_handled = ps[p].is_handled /\ e1.reactions = ps[p].reactions
        /\ e1.reports = Append(ps[p].reports, FALSE)
        /\ e2.state = state /\ e2.result = v /\ e2.ran = ps[p].ran /\ e2.registered = ps[p].registered
        /\ e2.is_handled = ps[p].is_handled /\ e2.reactions = <<>> /\ e2.reports = ps[p].reports
    BY <1>1 DEF PromiseRec
  <1> HIDE DEF e1, e2, q1, q2
  <1>6. CASE report
    <2>1. promises' = [ps EXCEPT ![p] = e1] /\ jobs' = js /\ stk' = Append(base, TrackerFrame(p, 0))
      BY <1>4, <1>6
    <2>2. /\ promises' \in Seq(PromiseRec) /\ Len(promises') = Len(ps) /\ promises'[p] = e1
          /\ \A i \in 1..Len(ps) : i # p => promises'[i] = ps[i]
      BY <2>1, <1>3, ExceptIs
    <2>3. ps[p].reactions = <<>>
      BY <1>4, <1>6 DEF ListOK
    <2>4. jobs' = js \o ReactionJobs(ps[p].reactions)
      BY <2>1, <2>3, NoReactionJobs
    <2>5. Settles(ps, promises', js, jobs', p, state, v)
      BY <2>2, <2>3, <2>4, <1>5 DEF Settles
    <2>6. Reported(ps, promises', p, state, base, stk', tracker)
      BY <2>1, <2>2, <1>5, <1>6 DEF Reported
    <2> QED BY <2>5, <2>6, <1>4
  <1>7. CASE ~report
    <2>1. promises' = [ps EXCEPT ![p] = e2] /\ stk' = base /\ jobs' = js \o ReactionJobs(ps[p].reactions)
      BY <1>4, <1>7
    <2>2. /\ promises' \in Seq(PromiseRec) /\ Len(promises') = Len(ps) /\ promises'[p] = e2
          /\ \A i \in 1..Len(ps) : i # p => promises'[i] = ps[i]
      BY <2>1, <1>3, ExceptIs
    <2>5. Settles(ps, promises', js, jobs', p, state, v)
      BY <2>1, <2>2, <1>5 DEF Settles
    <2>6. Reported(ps, promises', p, state, base, stk', tracker)
      BY <2>1, <2>2, <1>5, <1>7 DEF Reported
    <2> QED BY <2>5, <2>6, <1>4
  <1> QED BY <1>6, <1>7

(* fulfill_or_reject_promise, where the getter or what takes its place was *)
(* the way of the promise.                                                 *)
LEMMA Fulfilled ==
    ASSUME NEW ps, NEW cs, NEW rs, NEW js, NEW base \in Seq(Frame), NEW c \in Nat, NEW x,
           WInv(ps, cs, rs, js, Append(base, CodeFrame("getter", c)), x), x = 0 \/ x = c,
           NEW state \in {"fulfilled", "rejected"}, NEW v \in Results,
           SettlesAs(cs[c], state, v), ReportsOK(ps, base, tracker),
           fulfill_or_reject_promise(ps, js, cs[c].p, state, v, base)
    PROVE  WInv(promises', cs, rs, jobs', stk', 0) /\ ReportsOK(promises', stk', tracker)
  <1> DEFINE p == cs[c].p
             g == CodeFrame("getter", c)
             f == TrackerFrame(p, 0)
  <1>1. /\ ps \in Seq(PromiseRec) /\ js \in Seq(Job) /\ Len(ps) \in Nat
    BY LenProperties DEF WInv, Core, Typed
  <1>2. c \in 1..Len(cs) /\ p \in 1..Len(ps)
    <2>1. g \in Frame /\ g.op = "getter" /\ g.cap = c
      BY DEF CodeFrame, Frame, Ops
    <2>2. Append(base, g)[Len(base) + 1] = g /\ Len(base) + 1 \in 1..Len(Append(base, g))
      BY <2>1, AppendIs
    <2>3. FrameOK(g, ps, cs, rs)
      BY <2>2 DEF WInv, Core, StackOK
    <2> QED BY <2>1, <2>3 DEF FrameOK, WInv, Core, CapsOK
  <1>3. ListOK(ps[p], p, rs)
    BY <1>2 DEF WInv, Core, ListsOK
  <1>4. /\ Settles(ps, promises', js, jobs', p, state, v) /\ ps[p].state = "pending"
        /\ Reported(ps, promises', p, state, base, stk', tracker)
    BY <1>1, <1>2, <1>3, FulfillIs
  <1>5. WInv(promises', cs, rs, jobs', base, 0)
    BY <1>4, Settled1
  <1>6. /\ promises' \in Seq(PromiseRec) /\ Len(promises') = Len(ps)
        /\ \A i \in 1..Len(ps) : i # p => promises'[i] = ps[i]
        /\ promises'[p].state = state /\ (promises'[p].is_handled <=> ps[p].is_handled)
    BY <1>4 DEF Settles
  <1>7. f \in Frame /\ f.op = "tracker" /\ f.react = 0 /\ f.p = p
    BY <1>1, <1>2 DEF TrackerFrame, Frame, Ops
  <1>a. stk' = base \/ stk' = Append(base, f)
    BY <1>4 DEF Reported
  <1> HIDE DEF f
  <1>8. WInv(promises', cs, rs, jobs', stk', 0)
    <2>1. Neutral(f) /\ FrameOK(f, promises', cs, rs)
      BY <1>2, <1>6, <1>7 DEF Neutral, FrameOK
    <2>2. WInv(promises', cs, rs, jobs', Append(base, f), 0)
      BY <2>1, <1>5, <1>7, NeutralFrame
    <2> QED BY <2>2, <1>5, <1>a
  <1>9. \A i : Adding(stk', i) <=> Adding(base, i)
    <2>1. \A i : Adding(Append(base, f), i) <=> Adding(base, i)
      BY <1>7, AddingIs
    <2> QED BY <2>1, <1>a
  <1>10. ps[p].reports = <<>> /\ ~Adding(base, p)
    <2>1. ReportOK(ps[p], Adding(base, p), tracker)
      BY <1>2 DEF ReportsOK
    <2> QED BY <2>1, <1>4 DEF ReportOK
  <1>11. ReportOK(promises'[p], Adding(stk', p), tracker)
    <2>a. ~Adding(stk', p)
      BY <1>9, <1>10
    <2>1. CASE state = "rejected" /\ ~ps[p].is_handled /\ tracker
      <3>a. promises'[p].reports = Append(ps[p].reports, FALSE)
        BY <2>1, <1>4 DEF Reported
      <3>b. <<>> \in Seq(BOOLEAN)
        OBVIOUS
      <3>1. promises'[p].reports = Append(ps[p].reports, FALSE) /\ ps[p].reports \in Seq(BOOLEAN)
        BY <3>a, <3>b, <1>10
      <3>2. /\ Len(promises'[p].reports) = 1 /\ ~promises'[p].reports[1] /\ promises'[p].reports # <<>>
        BY <3>1, <1>10, AppendIs, EmptySeq
      <3> QED BY <2>1, <2>a, <3>2, <1>6, SMTT(30) DEF ReportOK
    <2>2. CASE ~(state = "rejected" /\ ~ps[p].is_handled /\ tracker)
      <3>a. promises'[p].reports = ps[p].reports
        BY <2>2, <1>4 DEF Reported
      <3>b. Len(<<>>) = 0
        OBVIOUS
      <3>1. promises'[p].reports = <<>> /\ Len(promises'[p].reports) = 0
        BY <3>a, <3>b, <1>10
      <3> QED BY <2>2, <2>a, <3>1, <1>6 DEF ReportOK
    <2> QED BY <2>1, <2>2
  <1>12. ReportsOK(promises', stk', tracker)
    <2> SUFFICES ASSUME NEW i \in 1..Len(ps) PROVE ReportOK(promises'[i], Adding(stk', i), tracker)
      BY <1>6 DEF ReportsOK
    <2>1. CASE i # p
      <3>1. ReportOK(ps[i], Adding(base, i), tracker) /\ promises'[i] = ps[i]
        BY <2>1, <1>6 DEF ReportsOK
      <3> QED BY <3>1, <1>9 DEF ReportOK
    <2> QED BY <2>1, <1>11
  <1> QED BY <1>8, <1>12

(* A call of resolving functions in terms of the lemmas above: base is the *)
(* stack without the handler, if it is a handler whose outcome they get.   *)
CallOK(ps, cs, rs, js, S, base, c, b, res, x) ==
    /\ WInv(ps, cs, rs, js, S, x) /\ Calls(S, base, cs, rs, c) /\ (x = 0 \/ x = c)
    /\ cs[c].already_resolved => S = base /\ x = 0
    /\ b \in BOOLEAN /\ res \in AnyRes /\ GotOK(<<b, res>>, Len(ps))
    /\ \A r \in 1..Len(rs) : rs[r].cap = c /\ rs[r].handlers = {} =>
          /\ b <=> ps[rs[r].on].state = "rejected"
          /\ res = PassedOn(ps[rs[r].on].result)

(* What the first call does to the functions.                              *)
LEMMA CalledIs ==
    ASSUME NEW cs \in Seq(CapRec), NEW c \in 1..Len(cs), NEW b \in BOOLEAN, NEW res \in AnyRes, NEW cs2,
           cs2 = [cs EXCEPT ![c].already_resolved = TRUE, ![c].got = <<b, res>>]
    PROVE  Called(cs, cs2, c, b, res)
  <1> DEFINE d == [cs[c] EXCEPT !.already_resolved = TRUE, !.got = <<b, res>>]
  <1>1. cs[c] \in CapRec
    BY ElementOfSeq
  <1>2. d \in CapRec /\ d.p = cs[c].p /\ d.hidden = cs[c].hidden /\ d.already_resolved /\ d.got = <<b, res>>
    BY <1>1 DEF CapRec
  <1>3. cs2 = [cs EXCEPT ![c] = d]
    <2>1. cs \in [1..Len(cs) -> CapRec]
      BY LenProperties
    <2> QED BY <2>1, <1>1 DEF CapRec
  <1> HIDE DEF d
  <1>4. /\ cs2 \in Seq(CapRec) /\ Len(cs2) = Len(cs) /\ cs2[c] = d
        /\ \A i \in 1..Len(cs) : i # c => cs2[i] = cs[i]
    <2>1. /\ [cs EXCEPT ![c] = d] \in Seq(CapRec) /\ Len([cs EXCEPT ![c] = d]) = Len(cs)
          /\ [cs EXCEPT ![c] = d][c] = d
          /\ \A i \in 1..Len(cs) : i # c => [cs EXCEPT ![c] = d][i] = cs[i]
      BY <1>2, ExceptIs
    <2> QED BY <2>1, <1>3
  <1> QED BY <1>2, <1>4 DEF Called

(* js_promise_resolve_function_call.                                       *)
LEMMA CallStep ==
    ASSUME NEW ps, NEW js, NEW S, NEW base \in Seq(Frame), NEW c \in 1..Len(caps), NEW b, NEW res, NEW x,
           CallOK(ps, caps, reacts, js, S, base, c, b, res, x), ReportsOK(ps, base, tracker),
           js_promise_resolve_function_call(ps, js, c, b, res, base)
    PROVE  WInv(promises', caps', reacts, jobs', stk', 0) /\ ReportsOK(promises', stk', tracker)
  <1> DEFINE p == caps[c].p
             g == CodeFrame("getter", c)
             new == [caps EXCEPT ![c].already_resolved = TRUE, ![c].got = <<b, res>>]
  <1>1. \/ caps[c].already_resolved /\ promises' = ps /\ jobs' = js /\ stk' = base /\ caps' = caps
        \/ /\ ~caps[c].already_resolved /\ caps' = new
           /\ \/ b /\ fulfill_or_reject_promise(ps, js, p, "rejected", res[2], base)
              \/ ~b /\ res[1] = "plain" /\ fulfill_or_reject_promise(ps, js, p, "fulfilled", res[2], base)
              \/ /\ ~b /\ res = OtherPromise(p)
                 /\ fulfill_or_reject_promise(ps, js, p, "rejected", "TypeError", base)
              \/ /\ ~b /\ res[1] = "promise" /\ res # OtherPromise(p)
                 /\ jobs' = Append(js, ThenableJob(p, res)) /\ promises' = ps /\ stk' = base
              \/ ~b /\ res = Object /\ stk' = Append(base, g) /\ promises' = ps /\ jobs' = js
    BY Zenon DEF js_promise_resolve_function_call
  <1> HIDE DEF new
  <1>2. CASE caps[c].already_resolved /\ promises' = ps /\ jobs' = js /\ stk' = base /\ caps' = caps
    <2>1. WInv(ps, caps, reacts, js, base, 0)
      BY <1>2 DEF CallOK
    <2> QED BY <1>2, <2>1
  <1>3. CASE ~caps[c].already_resolved /\ caps' = new
    <2>1. b \in BOOLEAN /\ res \in AnyRes /\ GotOK(<<b, res>>, Len(ps)) /\ WInv(ps, caps, reacts, js, S, x)
      BY DEF CallOK
    <2>2. caps \in Seq(CapRec) /\ ps \in Seq(PromiseRec) /\ Len(ps) \in Nat /\ Len(caps) \in Nat /\ c \in Nat
      BY <2>1, LenProperties DEF WInv, Core, Typed
    <2>3. Called(caps, caps', c, b, res)
      BY <1>3, <2>1, <2>2, CalledIs DEF new
    <2>4. WInv(ps, caps', reacts, js, Append(base, g), c)
      <3>1. /\ WInv(ps, caps, reacts, js, S, x) /\ Calls(S, base, caps, reacts, c) /\ (x = 0 \/ x = c)
            /\ \A r \in 1..Len(reacts) : reacts[r].cap = c /\ reacts[r].handlers = {} =>
                  /\ b <=> ps[reacts[r].on].state = "rejected"
                  /\ res = PassedOn(ps[reacts[r].on].result)
        BY DEF CallOK
      <3> QED BY <3>1, <2>1, <2>3, <1>3, FirstCall
    <2>5. /\ c \in 1..Len(caps') /\ caps'[c].p = p /\ caps'[c].already_resolved
          /\ caps'[c].got[1] = b /\ caps'[c].got[2] = res
      BY <2>3 DEF Called
    <2>6. b => res \in PassedRes
      BY <2>1 DEF GotOK
    <2>7. \A q \in Nat : res = OtherPromise(q) => res[1] = "promise" /\ res \notin PassedRes
      BY ResTags
    <2>8. /\ b => res[2] \in Results
          /\ res[1] = "plain" => res[2] \in Results
          /\ res[1] = "promise" => \E q \in Nat : res = OtherPromise(q)
          /\ res = Object => res[1] = "object"
      BY <2>1, <2>6, ResTags DEF AnyRes, PassedRes, Results
    <2>9. ASSUME NEW state \in {"fulfilled", "rejected"}, NEW v \in Results,
                 fulfill_or_reject_promise(ps, js, p, state, v, base), SettlesAs(caps'[c], state, v)
          PROVE  WInv(promises', caps', reacts, jobs', stk', 0) /\ ReportsOK(promises', stk', tracker)
      <3>1. fulfill_or_reject_promise(ps, js, caps'[c].p, state, v, base)
        BY <2>5, <2>9
      <3> QED BY <3>1, <2>2, <2>4, <2>9, Fulfilled
    <2>10. CASE b /\ fulfill_or_reject_promise(ps, js, p, "rejected", res[2], base)
      <3>1. SettlesAs(caps'[c], "rejected", res[2])
        BY <2>5, <2>10 DEF SettlesAs
      <3> QED BY <3>1, <2>8, <2>9, <2>10
    <2>11. CASE ~b /\ res[1] = "plain" /\ fulfill_or_reject_promise(ps, js, p, "fulfilled", res[2], base)
      <3>1. SettlesAs(caps'[c], "fulfilled", res[2])
        BY <2>5, <2>7, <2>11, ResTags DEF SettlesAs
      <3> QED BY <3>1, <2>8, <2>9, <2>11
    <2>12. CASE ~b /\ res = OtherPromise(p) /\ fulfill_or_reject_promise(ps, js, p, "rejected", "TypeError", base)
      <3>1. SettlesAs(caps'[c], "rejected", "TypeError")
        BY <2>5, <2>12, ResTags DEF SettlesAs
      <3>2. "TypeError" \in Results
        BY DEF Results
      <3> QED BY <3>1, <3>2, <2>9, <2>12
    <2>13. CASE /\ ~b /\ res[1] = "promise" /\ res # OtherPromise(p)
                /\ jobs' = Append(js, ThenableJob(p, res)) /\ promises' = ps /\ stk' = base
      <3>1. \E q \in 1..Len(ps) : q # p /\ res = OtherPromise(q)
        <4>1. PICK q \in Nat : res = OtherPromise(q)
          BY <2>8, <2>13
        <4>2. res \notin PassedRes
          BY <4>1, <2>7
        <4>3. PICK i \in 1..Len(ps) : res = OtherPromise(i)
          BY <4>2, <2>1 DEF GotOK
        <4> QED BY <4>3, <2>13
      <3>2. WInv(ps, caps', reacts, Append(js, ThenableJob(caps'[c].p, res)), base, 0)
        BY <3>1, <2>2, <2>4, <2>5, <2>13, ThenableQueued
      <3> QED BY <3>2, <2>5, <2>13
    <2>14. CASE ~b /\ res = Object /\ stk' = Append(base, g) /\ promises' = ps /\ jobs' = js
      <3>1. WInv(ps, caps', reacts, js, Append(base, g), 0)
        BY <2>4, <2>5, <2>14, GetterCalled
      <3>2. g \in Frame /\ g.op = "getter"
        BY <2>2 DEF CodeFrame, Frame, Ops
      <3>3. \A i : Adding(Append(base, g), i) <=> Adding(base, i)
        BY <3>2, AddingIs
      <3>4. ReportsOK(ps, Append(base, g), tracker)
        BY <3>3 DEF ReportsOK, ReportOK
      <3> QED BY <3>1, <3>4, <2>14
    <2> QED BY <1>1, <1>3, <2>10, <2>11, <2>12, <2>13, <2>14
  <1> QED BY <1>1, <1>2, <1>3

(* Reports where one promise, or none, changes.                            *)
LEMMA ReportsChange ==
    ASSUME NEW ps, NEW ps2, NEW p, NEW st, NEW st2, NEW tr, ReportsOK(ps, st, tr),
           Len(ps2) = Len(ps), \A i \in 1..Len(ps) : i # p => ps2[i] = ps[i],
           \A i \in 1..Len(ps) : i # p => (Adding(st2, i) <=> Adding(st, i)),
           p \in 1..Len(ps) => ReportOK(ps2[p], Adding(st2, p), tr)
    PROVE  ReportsOK(ps2, st2, tr)
  <1> SUFFICES ASSUME NEW i \in 1..Len(ps) PROVE ReportOK(ps2[i], Adding(st2, i), tr)
    BY DEF ReportsOK
  <1>1. CASE i # p
    <2>1. ReportOK(ps[i], Adding(st, i), tr) /\ ps2[i] = ps[i] /\ (Adding(st2, i) <=> Adding(st, i))
      BY <1>1 DEF ReportsOK
    <2> QED BY <2>1 DEF ReportOK
  <1> QED BY <1>1

(* What perform_promise_then does to the promise.                          *)
Waiting(ps, p, r) == [Added(ps, p, r) EXCEPT ![p].reactions = Append(@, r)]

(* It registers the reaction and leaves the reports as they are.           *)
LEMMA AddedIs ==
    ASSUME NEW ps \in Seq(PromiseRec), NEW p \in 1..Len(ps), NEW r \in Nat, NEW ps2, NEW js
    PROVE  /\ ps2 = Added(ps, p, r) /\ ps[p].state # "pending" =>
                 /\ Registers(ps, ps2, js, Append(js, ReactionJob(r)), p, r)
                 /\ ps2[p].reports = ps[p].reports
           /\ ps2 = Waiting(ps, p, r) /\ ps[p].state = "pending" =>
                 /\ Registers(ps, ps2, js, js, p, r)
                 /\ ps2[p].reports = ps[p].reports
  <1> DEFINE e == [ps[p] EXCEPT !.is_handled = TRUE, !.registered = Append(@, r)]
             d == [ps[p] EXCEPT !.is_handled = TRUE, !.registered = Append(@, r), !.reactions = Append(@, r)]
             q1 == [ps EXCEPT ![p] = e]
             q2 == [ps EXCEPT ![p] = d]
  <1>1. ps[p] \in PromiseRec /\ ps \in [1..Len(ps) -> PromiseRec]
    BY ElementOfSeq, LenProperties
  <1>2. Append(ps[p].registered, r) \in Seq(Nat) /\ Append(ps[p].reactions, r) \in Seq(Nat)
    <2>1. ps[p].registered \in Seq(Nat) /\ ps[p].reactions \in Seq(Nat)
      BY <1>1 DEF PromiseRec
    <2> QED BY <2>1, AppendIs
  <1>3. /\ e \in PromiseRec /\ e.state = ps[p].state /\ e.result = ps[p].result /\ e.ran = ps[p].ran
        /\ e.registered = Append(ps[p].registered, r) /\ e.is_handled /\ e.reactions = ps[p].reactions
        /\ e.reports = ps[p].reports
    BY <1>1, <1>2 DEF PromiseRec
  <1>4. /\ d \in PromiseRec /\ d.state = ps[p].state /\ d.result = ps[p].result /\ d.ran = ps[p].ran
        /\ d.registered = Append(ps[p].registered, r) /\ d.is_handled
        /\ d.reactions = Append(ps[p].reactions, r) /\ d.reports = ps[p].reports
    BY <1>1, <1>2 DEF PromiseRec
  <1>5. Added(ps, p, r) = q1
    BY <1>1 DEF PromiseRec, Added
  <1>6. Waiting(ps, p, r) = q2
    <2>1. [q1 EXCEPT ![p].reactions = Append(@, r)] = q2
      BY <1>1 DEF PromiseRec
    <2> QED BY <2>1, <1>5 DEF Waiting
  <1> HIDE DEF e, d
  <1>7. /\ q1 \in Seq(PromiseRec) /\ Len(q1) = Len(ps) /\ q1[p] = e
        /\ \A i \in 1..Len(ps) : i # p => q1[i] = ps[i]
        /\ q2 \in Seq(PromiseRec) /\ Len(q2) = Len(ps) /\ q2[p] = d
        /\ \A i \in 1..Len(ps) : i # p => q2[i] = ps[i]
    BY <1>3, <1>4, ExceptIs
  <1> HIDE DEF q1, q2
  <1>8. CASE ps[p].state # "pending"
    BY <1>3, <1>5, <1>7, <1>8 DEF Registers
  <1>9. CASE ps[p].state = "pending"
    BY <1>4, <1>6, <1>7, <1>9 DEF Registers
  <1> QED BY <1>8, <1>9

(* A reaction was registered: what the tracker was told is still right.    *)
LEMMA RegisteredReports ==
    ASSUME NEW s, NEW t, NEW adding, NEW tr, ReportOK(s, adding, tr), t.state = s.state, t.reports = s.reports,
           t.is_handled, Len(s.reports) # 1, NEW adding2, adding2 => adding
    PROVE  ReportOK(t, adding2, tr)
  BY DEF ReportOK

(* perform_promise_then, for a reaction that was made for it.              *)
LEMMA ThenAdds ==
    ASSUME NEW ps, NEW cs, NEW rs, NEW js, NEW base \in Seq(Frame), NEW p \in Nat, NEW r \in Nat \ {0},
           WInv(ps, cs, rs, js, Append(base, TrackerFrame(p, r)), 0), p \in 1..Len(ps),
           ReportsOK(ps, base, tracker), perform_promise_then(ps, js, p, r, base)
    PROVE  WInv(promises', cs, rs, jobs', stk', 0) /\ ReportsOK(promises', stk', tracker)
  <1> DEFINE report == ps[p].state = "rejected" /\ ~ps[p].is_handled /\ tracker
             f == TrackerFrame(p, r)
             e == [ps[p] EXCEPT !.reports = Append(@, TRUE)]
  <1>1. \/ /\ ps[p].state = "pending" /\ jobs' = js /\ stk' = base
           /\ promises' = Waiting(ps, p, r)
        \/ /\ ps[p].state # "pending" /\ report /\ jobs' = js /\ stk' = Append(base, f)
           /\ promises' = [ps EXCEPT ![p].reports = Append(@, TRUE)]
        \/ /\ ps[p].state # "pending" /\ ~report /\ stk' = base
           /\ promises' = Added(ps, p, r) /\ jobs' = Append(js, ReactionJob(r))
    BY Zenon DEF perform_promise_then, Waiting
  <1>2. ps \in Seq(PromiseRec) /\ ps[p] \in PromiseRec
    BY ElementOfSeq DEF WInv, Core, Typed
  <1>a. ps[p].reports \in Seq(BOOLEAN) /\ Len(ps[p].reports) \in Nat
    <2>1. ps[p].reports \in Seq(BOOLEAN)
      BY <1>2 DEF PromiseRec
    <2> QED BY <2>1, LenProperties
  <1>3. ReportOK(ps[p], Adding(base, p), tracker)
    BY DEF ReportsOK
  <1>4. Len(<<>>) = 0
    OBVIOUS
  <1>5. CASE /\ ps[p].state # "pending" /\ report /\ jobs' = js /\ stk' = Append(base, f)
             /\ promises' = [ps EXCEPT ![p].reports = Append(@, TRUE)]
    <2>1. Append(ps[p].reports, TRUE) \in Seq(BOOLEAN)
      BY <1>a, AppendIs
    <2>2. /\ e \in PromiseRec /\ e.state = ps[p].state /\ e.result = ps[p].result
          /\ e.reactions = ps[p].reactions /\ e.registered = ps[p].registered /\ e.ran = ps[p].ran
          /\ (e.is_handled <=> ps[p].is_handled) /\ e.reports = Append(ps[p].reports, TRUE)
      BY <1>2, <2>1 DEF PromiseRec
    <2>3. [ps EXCEPT ![p].reports = Append(@, TRUE)] = [ps EXCEPT ![p] = e]
      <3>1. ps \in [1..Len(ps) -> PromiseRec]
        BY <1>2, LenProperties
      <3> QED BY <3>1, <1>2 DEF PromiseRec
    <2> HIDE DEF e
    <2>4. /\ promises' \in Seq(PromiseRec) /\ Len(promises') = Len(ps) /\ promises'[p] = e
          /\ \A i \in 1..Len(ps) : i # p => promises'[i] = ps[i]
      <3>1. promises' = [ps EXCEPT ![p] = e]
        BY <1>5, <2>3
      <3> QED BY <3>1, <1>2, <2>2, ExceptIs
    <2>5. WInv(promises', cs, rs, js, Append(base, f), 0)
      <3> HIDE DEF f
      <3>1. \A i \in 1..Len(ps) :
              /\ promises'[i].state = ps[i].state /\ promises'[i].result = ps[i].result
              /\ promises'[i].reactions = ps[i].reactions /\ promises'[i].registered = ps[i].registered
              /\ promises'[i].ran = ps[i].ran /\ (promises'[i].is_handled <=> ps[i].is_handled)
        BY <2>2, <2>4
      <3>2. WInv(ps, cs, rs, js, Append(base, f), 0)
        BY DEF f
      <3> QED BY <3>1, <3>2, <2>4, ReportsAside
    <2>6. f \in Frame /\ f.op = "tracker" /\ f.p = p /\ f.react = r /\ f.react # 0
      BY DEF TrackerFrame, Frame, Ops
    <2> HIDE DEF f
    <2>7. \A i : Adding(Append(base, f), i) <=> Adding(base, i) \/ i = p
      BY <2>6, AddingIs
    <2>8. ReportOK(promises'[p], Adding(stk', p), tracker)
      <3>1. ps[p].reports # <<>> /\ ~ps[p].reports[1] /\ \A k \in 2..Len(ps[p].reports) : ps[p].reports[k]
        BY <1>3, <1>5 DEF ReportOK
      <3>2. Len(ps[p].reports) > 0
        BY <3>1, <1>a, EmptySeq
      <3> DEFINE old == ps[p].reports
                 m == Len(old) + 1
                 w == e.reports
      <3>a. w = Append(old, TRUE) /\ old \in Seq(BOOLEAN)
        BY <2>2, <1>a
      <3> HIDE DEF w, old
      <3>3. Len(w) = m /\ w[m] /\ \A i \in 1..Len(old) : w[i] = old[i]
        BY <3>a, AppendIs
      <3>4. m > 1 /\ w # <<>> /\ ~w[1] /\ \A k \in 2..m : w[k]
        <4>1. /\ m > 1 /\ 1 \in 1..Len(old) /\ Len(w) # 0
              /\ \A k \in 2..m : k \in 2..Len(old) \/ k = m
              /\ \A k \in 2..Len(old) : k \in 1..Len(old)
          BY <3>2, <3>3, <1>a DEF old
        <4>2. ~w[1] /\ w # <<>>
          BY <4>1, <3>1, <3>3, <1>4 DEF old
        <4>3. \A k \in 2..Len(old) : w[k]
          BY <4>1, <3>1, <3>3 DEF old
        <4> QED BY <4>1, <4>2, <4>3, <3>3
      <3>5. Adding(stk', p)
        BY <2>7, <1>5
      <3> QED BY <3>3, <3>4, <3>5, <2>2, <2>4, <1>5 DEF ReportOK, w
    <2>9. ReportsOK(promises', stk', tracker)
      <3>1. \A i \in 1..Len(ps) : i # p => (Adding(stk', i) <=> Adding(base, i))
        BY <2>7, <1>5
      <3> QED BY <3>1, <2>4, <2>8, ReportsChange
    <2> QED BY <2>5, <2>9, <1>5
  <1>6. CASE /\ Registers(ps, promises', js, jobs', p, r) /\ promises'[p].reports = ps[p].reports
             /\ stk' = base /\ (ps[p].state = "pending" \/ ~report)
    <2>1. WInv(promises', cs, rs, jobs', base, 0)
      BY <1>6, Registered
    <2>2. /\ Len(promises') = Len(ps) /\ \A i \in 1..Len(ps) : i # p => promises'[i] = ps[i]
          /\ promises'[p].state = ps[p].state /\ promises'[p].is_handled
      BY <1>6 DEF Registers
    <2>3. Len(ps[p].reports) # 1
      <3>1. CASE ps[p].state # "rejected" \/ ~tracker
        BY <3>1, <1>3, <1>4 DEF ReportOK
      <3>2. CASE ~(ps[p].state # "rejected" \/ ~tracker)
        <4>1. ps[p].is_handled
          BY <3>2, <1>6
        <4> QED BY <4>1, <1>3 DEF ReportOK
      <3> QED BY <3>1, <3>2
    <2>4. ReportOK(promises'[p], Adding(base, p), tracker)
      BY <1>3, <1>6, <2>2, <2>3, RegisteredReports
    <2>5. ReportsOK(promises', base, tracker)
      BY <2>2, <2>4, ReportsChange
    <2> QED BY <2>1, <2>5, <1>6
  <1>7. CASE /\ ps[p].state = "pending" /\ jobs' = js /\ stk' = base
             /\ promises' = Waiting(ps, p, r)
    <2>1. Registers(ps, promises', js, js, p, r) /\ promises'[p].reports = ps[p].reports
      BY <1>2, <1>7, AddedIs, SMTT(30)
    <2> QED BY <2>1, <1>6, <1>7
  <1>8. CASE /\ ps[p].state # "pending" /\ ~report /\ stk' = base
             /\ promises' = Added(ps, p, r) /\ jobs' = Append(js, ReactionJob(r))
    <2>1. /\ Registers(ps, promises', js, Append(js, ReactionJob(r)), p, r)
          /\ promises'[p].reports = ps[p].reports
      BY <1>2, <1>8, AddedIs
    <2> QED BY <2>1, <1>6, <1>8
  <1> QED BY <1>1, <1>5, <1>7, <1>8

(* A new promise has no reports.                                           *)
LEMMA NewReports ==
    ASSUME NEW ps \in Seq(PromiseRec), NEW st, NEW tr, ReportsOK(ps, st, tr),
           \A k \in 1..Len(st) : st[k].op = "tracker" => st[k].p \in 1..Len(ps)
    PROVE  ReportsOK(Append(ps, NewPromise), st, tr)
  <1> DEFINE ps2 == Append(ps, NewPromise)
             m == Len(ps) + 1
  <1>1. <<>> \in Seq(Nat) /\ <<>> \in Seq(BOOLEAN) /\ Len(<<>>) = 0
    OBVIOUS
  <1>2. NewPromise \in PromiseRec /\ NewPromise.state = "pending" /\ NewPromise.reports = <<>>
    BY <1>1 DEF NewPromise, PromiseRec
  <1>3. /\ Len(ps2) = m /\ ps2[m] = NewPromise /\ m \notin 1..Len(ps)
        /\ \A i \in 1..Len(ps) : ps2[i] = ps[i]
        /\ \A i \in 1..m : i \in 1..Len(ps) \/ i = m
    BY <1>2, AppendIs
  <1> HIDE DEF ps2, m
  <1>4. ReportOK(NewPromise, Adding(st, m), tr)
    <2>1. ~Adding(st, m)
      BY <1>3 DEF Adding
    <2> QED BY <2>1, <1>1, <1>2 DEF ReportOK
  <1>5. ReportsOK(ps2, st, tr)
    BY <1>3, <1>4 DEF ReportsOK
  <1> QED BY <1>5 DEF ps2

(* A frame that is not about adding a reaction says nothing of reports.    *)
LEMMA NeutralReports ==
    ASSUME NEW ps, NEW st \in Seq(Frame), NEW f \in Frame, NEW tr,
           ~(f.op = "tracker" /\ f.react # 0)
    PROVE  ReportsOK(ps, Append(st, f), tr) <=> ReportsOK(ps, st, tr)
  <1>1. \A i : Adding(Append(st, f), i) <=> Adding(st, i)
    BY AddingIs
  <1> QED BY <1>1 DEF ReportsOK, ReportOK

(* A frame is determined by what it is about.                              *)
LEMMA FrameIs ==
    ASSUME NEW f \in Frame
    PROVE  /\ f.op # "tracker" => f = CodeFrame(f.op, f.cap)
           /\ f.op = "tracker" => f = TrackerFrame(f.p, f.react)
           /\ f.cap \in Nat /\ f.p \in Nat /\ f.react \in Nat /\ f.op \in Ops
  BY DEF Frame, CodeFrame, TrackerFrame

(* A job is determined by what it is for.                                  *)
LEMMA JobIs ==
    ASSUME NEW j \in Job
    PROVE  /\ j[1] = "reaction" => j[2] \in Nat /\ j = ReactionJob(j[2])
           /\ j[1] = "thenable" =>
                 /\ j[2] \in Nat /\ j = ThenableJob(j[2], j[3])
                 /\ j[3] = Object \/ (j[3][2] \in Nat /\ j[3] = OtherPromise(j[3][2]))
           /\ j[1] = "host" => j = HostJob
  <1>1. CASE \E r \in Nat : j = ReactionJob(r)
    BY <1>1 DEF ReactionJob
  <1>2. CASE \E p \in Nat : j = ThenableJob(p, Object)
    BY <1>2 DEF ThenableJob
  <1>3. CASE \E p, q \in Nat : j = ThenableJob(p, OtherPromise(q))
    BY <1>3 DEF ThenableJob, OtherPromise
  <1>4. CASE j = HostJob
    BY <1>4 DEF HostJob
  <1> QED BY <1>1, <1>2, <1>3, <1>4 DEF Job

(* The functions that code has may be called with anything.                *)
LEMMA OpenCall ==
    ASSUME NEW ps, NEW cs, NEW rs, NEW js, NEW st, NEW c \in 1..Len(cs),
           WInv(ps, cs, rs, js, st, 0), ~cs[c].hidden,
           NEW b \in BOOLEAN, NEW res \in AnyRes, GotOK(<<b, res>>, Len(ps))
    PROVE  CallOK(ps, cs, rs, js, st, st, c, b, res, 0)
  <1>1. \A r \in 1..Len(rs) : rs[r].cap # c
    BY DEF WInv, Core, ReactsOK
  <1>2. Calls(st, st, cs, rs, c)
    BY <1>1 DEF Calls
  <1> QED BY <1>1, <1>2 DEF CallOK

(* Those of a reaction get what its handler returns or, without one, the   *)
(* outcome of the promise.                                                 *)
LEMMA HandlerCall ==
    ASSUME NEW ps, NEW cs, NEW rs, NEW js, NEW base \in Seq(Frame), NEW c \in Nat, NEW x,
           WInv(ps, cs, rs, js, Append(base, CodeFrame("handler", c)), x),
           NEW b \in BOOLEAN, NEW res \in AnyRes, GotOK(<<b, res>>, Len(ps)),
           \/ x = 0
           \/ /\ x = c
              /\ \A r \in 1..Len(rs) : rs[r].cap = c =>
                    /\ b <=> ps[rs[r].on].state = "rejected"
                    /\ res = PassedOn(ps[rs[r].on].result)
    PROVE  c \in 1..Len(cs) /\ CallOK(ps, cs, rs, js, Append(base, CodeFrame("handler", c)), base, c, b, res, x)
  <1> DEFINE f == CodeFrame("handler", c)
             S == Append(base, f)
             n == Len(base)
             m == Len(base) + 1
  <1>1. f \in Frame /\ f.op = "handler" /\ f.cap = c
    BY DEF CodeFrame, Frame, Ops
  <1> HIDE DEF f
  <1>2. /\ Len(S) = m /\ S[m] = f /\ m \in 1..m /\ m \notin 1..n
        /\ \A i \in 1..n : i \in 1..m /\ S[i] = base[i]
        /\ \A i \in 1..m : i \in 1..n \/ i = m
    BY <1>1, AppendIs
  <1>3. WInv(ps, cs, rs, js, S, x)
    BY DEF f
  <1> HIDE DEF S, n, m
  <1>4. c \in 1..Len(cs) /\ HandlerOK(f, ps, cs, rs, x) /\ Len(cs) \in Nat
    <2>1. FrameOK(f, ps, cs, rs) /\ HandlerOK(f, ps, cs, rs, x) /\ cs \in Seq(CapRec)
      BY <1>1, <1>2, <1>3 DEF WInv, Core, Typed, StackOK, HandlersOK
    <2> QED BY <2>1, <1>1, LenProperties DEF FrameOK
  <1>5. Calls(S, base, cs, rs, c)
    <2>1. Handles(S[m], c)
      BY <1>1, <1>2 DEF Handles
    <2> QED BY <2>1, <1>2 DEF Calls, n
  <1>6. ~cs[c].already_resolved
    BY <1>1, <1>4 DEF HandlerOK
  <1>7. ASSUME NEW r \in 1..Len(rs), rs[r].cap = c, rs[r].handlers = {}
        PROVE  /\ b <=> ps[rs[r].on].state = "rejected"
               /\ res = PassedOn(ps[rs[r].on].result)
    <2>1. PICK s \in 1..Len(rs) : rs[s].cap = c /\ (rs[s].handlers = {} => c = x)
      BY <1>1, <1>4 DEF HandlerOK
    <2>2. s = r
      BY <2>1, <1>3, <1>7 DEF WInv, Core, ReactsOK
    <2>3. x = c /\ x # 0
      BY <2>1, <2>2, <1>4, <1>7
    <2> QED BY <2>3, <1>7
  <1>8. CallOK(ps, cs, rs, js, S, base, c, b, res, x)
    BY <1>3, <1>5, <1>6, <1>7 DEF CallOK
  <1> QED BY <1>4, <1>8 DEF S, f

(* What code may pass to resolving functions.                              *)
LEMMA ResolutionsOK ==
    ASSUME promises \in Seq(PromiseRec)
    PROVE  /\ \A res \in Resolutions : res \in AnyRes /\ GotOK(<<FALSE, res>>, Len(promises))
           /\ \A v \in Values, b \in BOOLEAN : Plain(v) \in AnyRes /\ GotOK(<<b, Plain(v)>>, Len(promises))
  <1>1. Len(promises) \in Nat /\ DOMAIN promises = 1..Len(promises)
    BY LenProperties
  <1>2. \A v \in Values, b \in BOOLEAN : Plain(v) \in AnyRes /\ GotOK(<<b, Plain(v)>>, Len(promises))
    BY DEF AnyRes, PassedRes, GotOK
  <1>3. Object \in AnyRes /\ GotOK(<<FALSE, Object>>, Len(promises))
    BY DEF AnyRes, PassedRes, GotOK
  <1>4. \A q \in 1..Len(promises) :
           OtherPromise(q) \in AnyRes /\ GotOK(<<FALSE, OtherPromise(q)>>, Len(promises))
    BY <1>1 DEF AnyRes, GotOK
  <1> QED BY <1>1, <1>2, <1>3, <1>4 DEF Resolutions

(* The step leaves the invariant, in terms of its parts.                   *)
LEMMA Kept ==
    ASSUME WInv(promises', caps', reacts', jobs', stk', 0), ReportsOK(promises', stk', tracker'),
           tracker' \in BOOLEAN
    PROVE  IInv'
  BY DEF IInv

(* What code does.                                                         *)
LEMMA CodeKeeps == ASSUME IInv, Code PROVE IInv'
  <1>1. /\ WInv(promises, caps, reacts, jobs, stk, 0) /\ ReportsOK(promises, stk, tracker)
        /\ tracker \in BOOLEAN
    BY DEF IInv
  <1>2. /\ promises \in Seq(PromiseRec) /\ caps \in Seq(CapRec) /\ stk \in Seq(Frame)
        /\ Len(promises) \in Nat /\ Len(reacts) \in Nat
        /\ DOMAIN caps = 1..Len(caps) /\ DOMAIN promises = 1..Len(promises)
    BY <1>1, LenProperties DEF WInv, Core, Typed
  <1>3. ReportsOK(Append(promises, NewPromise), stk, tracker)
    <2>1. \A k \in 1..Len(stk) : stk[k].op = "tracker" => stk[k].p \in 1..Len(promises)
      BY <1>1 DEF WInv, Core, StackOK, FrameOK
    <2> QED BY <2>1, <1>1, <1>2, NewReports
  <1>4. ASSUME NEW set \in BOOLEAN, setPromiseRejectionTracker(set) PROVE IInv'
    <2>1. WInv(promises', caps', reacts', jobs', stk', 0) /\ tracker' \in BOOLEAN
      BY <1>1, <1>4 DEF setPromiseRejectionTracker
    <2>2. Len(promises') = 0
      BY <1>4 DEF setPromiseRejectionTracker
    <2>3. ReportsOK(promises', stk', tracker')
      BY <2>2 DEF ReportsOK
    <2> QED BY <2>1, <2>3, Kept
  <1>5. CASE newPromise
    <2>1. /\ promises' = Append(promises, NewPromise) /\ UNCHANGED <<reacts, jobs, stk, tracker>>
          /\ caps' = Append(caps, js_create_resolving_functions(Len(promises) + 1, FALSE))
      BY <1>5 DEF newPromise
    <2>2. WInv(promises', caps', reacts', jobs', stk', 0)
      BY <2>1, <1>1, NewPromiseStep
    <2>3. ReportsOK(promises', stk', tracker')
      BY <2>1, <1>3
    <2> QED BY <2>1, <2>2, <2>3, <1>1, Kept
  <1>6. ASSUME NEW c \in 1..Len(caps), NEW res \in Resolutions, resolve(c, res) PROVE IInv'
    <2>1. /\ ~caps[c].hidden /\ js_promise_resolve_function_call(promises, jobs, c, FALSE, res, stk)
          /\ UNCHANGED <<reacts, tracker>>
      BY <1>6 DEF resolve
    <2>2. CallOK(promises, caps, reacts, jobs, stk, stk, c, FALSE, res, 0)
      BY <2>1, <1>1, <1>2, ResolutionsOK, OpenCall
    <2>3. WInv(promises', caps', reacts, jobs', stk', 0) /\ ReportsOK(promises', stk', tracker)
      BY <2>1, <2>2, <1>1, <1>2, CallStep
    <2> QED BY <2>1, <2>3, <1>1, Kept
  <1>7. ASSUME NEW c \in 1..Len(caps), NEW v \in Values, reject(c, v) PROVE IInv'
    <2>1. /\ ~caps[c].hidden /\ js_promise_resolve_function_call(promises, jobs, c, TRUE, Plain(v), stk)
          /\ UNCHANGED <<reacts, tracker>>
      BY <1>7 DEF reject
    <2>2. CallOK(promises, caps, reacts, jobs, stk, stk, c, TRUE, Plain(v), 0)
      BY <2>1, <1>1, <1>2, ResolutionsOK, OpenCall
    <2>3. WInv(promises', caps', reacts, jobs', stk', 0) /\ ReportsOK(promises', stk', tracker)
      BY <2>1, <2>2, <1>1, <1>2, CallStep
    <2> QED BY <2>1, <2>3, <1>1, Kept
  <1>8. ASSUME NEW p \in 1..Len(promises), NEW handlers \in HandlerSets, then(p, handlers) PROVE IInv'
    <2> DEFINE r == Len(reacts) + 1
    <2>1. /\ caps' = Append(caps, js_create_resolving_functions(Len(promises) + 1, TRUE))
          /\ reacts' = Append(reacts, Reaction(p, handlers, Len(caps) + 1))
          /\ perform_promise_then(Append(promises, NewPromise), jobs, p, r, stk)
          /\ UNCHANGED tracker
      BY <1>8 DEF then
    <2>2. handlers \in SUBSET {"fulfilled", "rejected"}
      BY HandlersAssumption
    <2>3. WInv(Append(promises, NewPromise), caps', reacts', jobs, Append(stk, TrackerFrame(p, r)), 0)
      BY <2>1, <2>2, <1>1, ThenStep
    <2>4. p \in Nat /\ r \in Nat \ {0} /\ p \in 1..Len(Append(promises, NewPromise))
      <3>1. Len(Append(promises, NewPromise)) = Len(promises) + 1
        BY <1>2
      <3> QED BY <3>1, <1>2
    <2> HIDE DEF r
    <2>5. WInv(promises', caps', reacts', jobs', stk', 0) /\ ReportsOK(promises', stk', tracker)
      BY <2>1, <2>3, <2>4, <1>2, <1>3, ThenAdds
    <2> QED BY <2>1, <2>5, <1>1, Kept
  <1>9. CASE enqueueJob
    <2>1. jobs' = Append(jobs, HostJob) /\ UNCHANGED <<promises, caps, reacts, stk, tracker>>
      BY <1>9 DEF enqueueJob
    <2>2. WInv(promises', caps', reacts', jobs', stk', 0)
      BY <2>1, <1>1, HostJobAdded
    <2> QED BY <2>1, <2>2, <1>1, Kept
  <1> QED BY <1>2, <1>4, <1>5, <1>6, <1>7, <1>8, <1>9 DEF Code

(* What promise_reaction_job does to the promise.                          *)
RunOf(ps, p, r) == [ps EXCEPT ![p].ran = Append(@, r)]

(* The reaction has run; the reports are what they were.                   *)
LEMMA RanIs ==
    ASSUME NEW ps \in Seq(PromiseRec), NEW p \in 1..Len(ps), NEW r \in Nat, NEW st, NEW tr
    PROVE  /\ Runs(ps, RunOf(ps, p, r), p, r)
           /\ ReportsOK(ps, st, tr) => ReportsOK(RunOf(ps, p, r), st, tr)
  <1> DEFINE e == [ps[p] EXCEPT !.ran = Append(@, r)]
             q == [ps EXCEPT ![p] = e]
  <1>1. ps[p] \in PromiseRec /\ ps \in [1..Len(ps) -> PromiseRec]
    BY ElementOfSeq, LenProperties
  <1>2. Append(ps[p].ran, r) \in Seq(Nat)
    <2>1. ps[p].ran \in Seq(Nat)
      BY <1>1 DEF PromiseRec
    <2> QED BY <2>1, AppendIs
  <1>3. /\ e \in PromiseRec /\ e.state = ps[p].state /\ e.result = ps[p].result
        /\ e.ran = Append(ps[p].ran, r)
        /\ e.registered = ps[p].registered /\ (e.is_handled <=> ps[p].is_handled)
        /\ e.reactions = ps[p].reactions /\ e.reports = ps[p].reports
    BY <1>1, <1>2 DEF PromiseRec
  <1>4. RunOf(ps, p, r) = q
    BY <1>1 DEF PromiseRec, RunOf
  <1> HIDE DEF e
  <1>5. /\ q \in Seq(PromiseRec) /\ Len(q) = Len(ps) /\ q[p] = e
        /\ \A i \in 1..Len(ps) : i # p => q[i] = ps[i]
    BY <1>3, ExceptIs
  <1> HIDE DEF q
  <1>6. Runs(ps, q, p, r)
    BY <1>3, <1>5 DEF Runs
  <1>7. ASSUME ReportsOK(ps, st, tr) PROVE ReportsOK(q, st, tr)
    <2>1. ReportOK(ps[p], Adding(st, p), tr)
      BY <1>7 DEF ReportsOK
    <2>2. ReportOK(q[p], Adding(st, p), tr)
      BY <2>1, <1>3, <1>5 DEF ReportOK
    <2> QED BY <2>2, <1>5, <1>7, ReportsChange
  <1> QED BY <1>4, <1>6, <1>7

(* promise_reaction_job.                                                   *)
LEMMA ReactionJobKeeps == ASSUME IInv, promise_reaction_job PROVE IInv'
  <1> DEFINE r == Head(jobs)[2]
             p == reacts[r].on
             c == reacts[r].cap
             ps == RunOf(promises, p, r)
             b == promises[p].state = "rejected"
             res == PassedOn(promises[p].result)
             f == CodeFrame("handler", c)
  <1>1. /\ WInv(promises, caps, reacts, jobs, stk, 0) /\ ReportsOK(promises, stk, tracker)
        /\ tracker \in BOOLEAN
    BY DEF IInv
  <1>2. /\ jobs # <<>> /\ Head(jobs)[1] = "reaction" /\ UNCHANGED <<reacts, tracker>>
        /\ \/ /\ promises[p].state \in reacts[r].handlers
              /\ promises' = ps /\ jobs' = Tail(jobs) /\ stk' = Append(stk, f) /\ caps' = caps
           \/ /\ promises[p].state \notin reacts[r].handlers
              /\ js_promise_resolve_function_call(ps, Tail(jobs), c, b, res, stk)
    BY Zenon DEF promise_reaction_job, MayRun, RunOf
  <1>3. /\ promises \in Seq(PromiseRec) /\ jobs \in Seq(Job) /\ stk \in Seq(Frame)
        /\ Len(caps) \in Nat /\ Len(reacts) \in Nat
    BY <1>1, LenProperties DEF WInv, Core, Typed
  <1>4. r \in Nat /\ Head(jobs) = ReactionJob(r) /\ r \in 1..Len(reacts)
    <2>1. Head(jobs) \in Job /\ Head(jobs) = jobs[1] /\ 1 \in 1..Len(jobs)
      BY <1>2, <1>3, TailIs
    <2>2. r \in Nat /\ Head(jobs) = ReactionJob(r)
      BY <2>1, <1>2, JobIs
    <2>3. JobOK(Head(jobs), Len(promises), Len(reacts))
      BY <2>1, <1>1 DEF WInv, Core, JobsOK
    <2> QED BY <2>2, <2>3 DEF JobOK
  <1>5. p \in 1..Len(promises) /\ c \in 1..Len(caps) /\ \A s \in 1..Len(reacts) : reacts[s].cap = c => s = r
    BY <1>1, <1>4 DEF WInv, Core, ReactsOK
  <1> HIDE DEF r
  <1>6. Runs(promises, ps, p, r) /\ ReportsOK(ps, stk, tracker)
    BY <1>1, <1>3, <1>4, <1>5, RanIs
  <1>7. f \in Frame /\ f.op = "handler"
    BY <1>3, <1>5 DEF CodeFrame, Frame, Ops
  <1>8. CASE /\ promises[p].state \in reacts[r].handlers
             /\ promises' = ps /\ jobs' = Tail(jobs) /\ stk' = Append(stk, f) /\ caps' = caps
    <2> HIDE DEF ps
    <2>1. WInv(ps, caps, reacts, Tail(jobs), Append(stk, f), 0)
      <3>1. reacts[r].handlers # {}
        BY <1>8
      <3> QED BY <3>1, <1>1, <1>2, <1>4, <1>6, ReactionRuns
    <2>2. ReportsOK(ps, Append(stk, f), tracker)
      <3> HIDE DEF f
      <3> QED BY <1>3, <1>6, <1>7, NeutralReports
    <2> QED BY <2>1, <2>2, <1>1, <1>2, <1>8, Kept
  <1>9. CASE js_promise_resolve_function_call(ps, Tail(jobs), c, b, res, stk)
    <2> HIDE DEF ps
    <2>1. /\ WInv(ps, caps, reacts, Tail(jobs), Append(stk, f), c)
          /\ promises[p].state # "pending"
      BY <1>1, <1>2, <1>4, <1>6, ReactionRuns
    <2>2. ListOK(promises[p], p, reacts)
      BY <1>1, <1>5 DEF WInv, Core, ListsOK
    <2>3. promises[p].result \in Results
      BY <2>1, <2>2 DEF ListOK
    <2>4. b \in BOOLEAN /\ res \in AnyRes /\ GotOK(<<b, res>>, Len(ps))
      <3>1. res \in PassedRes
        BY <2>3, ResTags
      <3> HIDE DEF res, b
      <3>2. res \in AnyRes /\ GotOK(<<b, res>>, Len(ps))
        BY <3>1 DEF AnyRes, GotOK
      <3> QED BY <3>2 DEF b
    <2>5. ASSUME NEW s \in 1..Len(reacts), reacts[s].cap = c
          PROVE  (b <=> ps[reacts[s].on].state = "rejected") /\ res = PassedOn(ps[reacts[s].on].result)
      <3>1. s = r
        BY <2>5, <1>5, SMTT(30)
      <3>2. ps[p].state = promises[p].state /\ ps[p].result = promises[p].result
        BY <1>6 DEF Runs
      <3> QED BY <3>1, <3>2
    <2> HIDE DEF b, res
    <2>6. CallOK(ps, caps, reacts, Tail(jobs), Append(stk, f), stk, c, b, res, c)
      <3>1. c \in Nat
        BY <1>3, <1>5
      <3> QED BY <3>1, <2>1, <2>4, <2>5, <1>3, HandlerCall
    <2>7. WInv(promises', caps', reacts, jobs', stk', 0) /\ ReportsOK(promises', stk', tracker)
      BY <2>6, <1>3, <1>5, <1>6, <1>9, CallStep
    <2> QED BY <2>7, <1>1, <1>2, Kept
  <1> QED BY <1>2, <1>8, <1>9

(* js_promise_resolve_thenable_job.                                        *)
LEMMA ThenableJobKeeps == ASSUME IInv, js_promise_resolve_thenable_job PROVE IInv'
  <1> DEFINE j == Head(jobs)
             p == j[2]
             res == j[3]
             q == res[2]
             c == Len(caps) + 1
             r == Len(reacts) + 1
  <1>1. /\ WInv(promises, caps, reacts, jobs, stk, 0) /\ ReportsOK(promises, stk, tracker)
        /\ tracker \in BOOLEAN
    BY DEF IInv
  <1>2. /\ jobs # <<>> /\ j[1] = "thenable" /\ UNCHANGED tracker
        /\ caps' = Append(caps, js_create_resolving_functions(p, res # Object))
        /\ \/ /\ res = Object /\ jobs' = Tail(jobs) /\ stk' = Append(stk, CodeFrame("then", c))
              /\ UNCHANGED <<promises, reacts>>
           \/ /\ res # Object /\ reacts' = Append(reacts, Reaction(q, {}, c))
              /\ perform_promise_then(promises, Tail(jobs), q, r, stk)
    BY DEF js_promise_resolve_thenable_job, MayRun
  <1>3. /\ promises \in Seq(PromiseRec) /\ jobs \in Seq(Job) /\ stk \in Seq(Frame)
        /\ Len(caps) \in Nat /\ Len(reacts) \in Nat
    BY <1>1, LenProperties DEF WInv, Core, Typed
  <1>4. /\ p \in Nat /\ j = ThenableJob(p, res)
        /\ res = Object \/ (q \in Nat /\ res = OtherPromise(q))
    <2>1. j \in Job
      BY <1>2, <1>3, TailIs
    <2> QED BY <2>1, <1>2, JobIs
  <1> HIDE DEF j, p, res, q
  <1>5. CASE /\ res = Object /\ jobs' = Tail(jobs) /\ stk' = Append(stk, CodeFrame("then", c))
             /\ UNCHANGED <<promises, reacts>>
    <2>1. caps' = Append(caps, js_create_resolving_functions(p, FALSE))
      BY <1>2, <1>5 DEF js_create_resolving_functions
    <2>2. WInv(promises', caps', reacts', jobs', stk', 0)
      <3>1. Head(jobs) = ThenableJob(p, Object)
        BY <1>4, <1>5 DEF j
      <3> QED BY <3>1, <2>1, <1>1, <1>2, <1>4, <1>5, ObjectJobStep
    <2>3. CodeFrame("then", c) \in Frame /\ CodeFrame("then", c).op = "then"
      BY <1>3 DEF CodeFrame, Frame, Ops
    <2>4. ReportsOK(promises', stk', tracker')
      BY <2>3, <1>1, <1>2, <1>3, <1>5, NeutralReports
    <2> QED BY <2>2, <2>4, <1>1, <1>2, Kept
  <1>6. CASE /\ res # Object /\ reacts' = Append(reacts, Reaction(q, {}, c))
             /\ perform_promise_then(promises, Tail(jobs), q, r, stk)
    <2>1. caps' = Append(caps, js_create_resolving_functions(p, TRUE))
      BY <1>2, <1>6 DEF js_create_resolving_functions
    <2>2. q \in Nat /\ Head(jobs) = ThenableJob(p, OtherPromise(q))
      BY <1>4, <1>6 DEF j
    <2>3. /\ q \in 1..Len(promises)
          /\ WInv(promises, caps', reacts', Tail(jobs), Append(stk, TrackerFrame(q, r)), 0)
      BY <2>1, <2>2, <1>1, <1>2, <1>4, <1>6, PromiseJobStep
    <2>4. r \in Nat \ {0}
      BY <1>3
    <2> HIDE DEF r
    <2>5. WInv(promises', caps', reacts', jobs', stk', 0) /\ ReportsOK(promises', stk', tracker)
      BY <2>2, <2>3, <2>4, <1>1, <1>3, <1>6, ThenAdds
    <2> QED BY <2>5, <1>1, <1>2, Kept
  <1> QED BY <1>2, <1>5, <1>6

(* Frames that only mark that code runs.                                   *)
LEMMA MarkKeeps ==
    ASSUME NEW ps, NEW cs, NEW rs, NEW js, NEW st \in Seq(Frame), NEW tr,
           WInv(ps, cs, rs, js, st, 0), ReportsOK(ps, st, tr), NEW op \in {"executePendingJobs", "job"}
    PROVE  /\ WInv(ps, cs, rs, js, Append(st, CodeFrame(op, 0)), 0)
           /\ ReportsOK(ps, Append(st, CodeFrame(op, 0)), tr)
  <1> DEFINE f == CodeFrame(op, 0)
  <1>1. f \in Frame /\ f.op = op
    BY DEF CodeFrame, Frame, Ops
  <1> HIDE DEF f
  <1>2. Neutral(f) /\ FrameOK(f, ps, cs, rs) /\ f.op # "tracker"
    BY <1>1 DEF Neutral, FrameOK
  <1>3. WInv(ps, cs, rs, js, Append(st, f), 0) /\ ReportsOK(ps, Append(st, f), tr)
    BY <1>1, <1>2, NeutralFrame, NeutralReports
  <1> QED BY <1>3 DEF f

(* The code that returns was no handler, getter or report of a reaction.   *)
LEMMA PopKeeps ==
    ASSUME NEW ps, NEW cs, NEW rs, NEW js, NEW st \in Seq(Frame), NEW tr, NEW f \in Frame, Neutral(f),
           WInv(ps, cs, rs, js, Append(st, f), 0), ReportsOK(ps, Append(st, f), tr)
    PROVE  WInv(ps, cs, rs, js, st, 0) /\ ReportsOK(ps, st, tr)
  <1>1. ~(f.op = "tracker" /\ f.react # 0)
    BY DEF Neutral
  <1> QED BY <1>1, NeutralFrame, NeutralReports

(* Jobs are run.                                                           *)
LEMMA RunKeeps == ASSUME IInv, Run PROVE IInv'
  <1>1. /\ WInv(promises, caps, reacts, jobs, stk, 0) /\ ReportsOK(promises, stk, tracker)
        /\ tracker \in BOOLEAN
    BY DEF IInv
  <1>2. stk \in Seq(Frame) /\ jobs \in Seq(Job)
    BY <1>1 DEF WInv, Core, Typed
  <1>3. CASE executePendingJobs
    <2>1. /\ stk' = Append(stk, CodeFrame("executePendingJobs", 0))
          /\ UNCHANGED <<promises, caps, reacts, jobs, tracker>>
      BY <1>3 DEF executePendingJobs
    <2>2. WInv(promises', caps', reacts', jobs', stk', 0) /\ ReportsOK(promises', stk', tracker')
      BY <2>1, <1>1, <1>2, MarkKeeps
    <2> QED BY <2>1, <2>2, <1>1, Kept
  <1>4. CASE executePendingJobsReturns
    <2>1. /\ stk # <<>> /\ Top.op = "executePendingJobs" /\ stk' = Pop
          /\ UNCHANGED <<promises, caps, reacts, jobs, tracker>>
      BY <1>4 DEF executePendingJobsReturns, Is
    <2>2. Pop \in Seq(Frame) /\ Top \in Frame /\ stk = Append(Pop, Top)
      BY <2>1, <1>2, TopAndPop
    <2>3. Neutral(Top)
      BY <2>1 DEF Neutral
    <2>4. WInv(promises', caps', reacts', jobs', stk', 0) /\ ReportsOK(promises', stk', tracker')
      BY <2>1, <2>2, <2>3, <1>1, PopKeeps
    <2> QED BY <2>1, <2>4, <1>1, Kept
  <1>5. CASE qjs_bun_job
    <2>1. /\ jobs # <<>> /\ Head(jobs)[1] = "host" /\ jobs' = Tail(jobs)
          /\ stk' = Append(stk, CodeFrame("job", 0))
          /\ UNCHANGED <<promises, caps, reacts, tracker>>
      BY <1>5 DEF qjs_bun_job, MayRun
    <2>2. Head(jobs) = HostJob
      <3>1. Head(jobs) \in Job
        BY <2>1, <1>2, TailIs
      <3> QED BY <3>1, <2>1, JobIs
    <2>3. WInv(promises, caps, reacts, Tail(jobs), stk, 0)
      BY <2>1, <2>2, <1>1, HostJobTaken
    <2>4. WInv(promises', caps', reacts', jobs', stk', 0) /\ ReportsOK(promises', stk', tracker')
      BY <2>1, <2>3, <1>1, <1>2, MarkKeeps
    <2> QED BY <2>1, <2>4, <1>1, Kept
  <1> QED BY <1>3, <1>4, <1>5, ReactionJobKeeps, ThenableJobKeeps DEF Run

(* The innermost code, and the stack it returns to.                        *)
LEMMA Returning ==
    ASSUME IInv, stk # <<>>
    PROVE  /\ Pop \in Seq(Frame) /\ Top \in Frame /\ stk = Append(Pop, Top)
           /\ WInv(promises, caps, reacts, jobs, Append(Pop, Top), 0) /\ FrameOK(Top, promises, caps, reacts)
           /\ ReportsOK(promises, Append(Pop, Top), tracker)
           /\ Top.op # "tracker" => ReportsOK(promises, Pop, tracker)
           /\ Neutral(Top) => /\ WInv(promises, caps, reacts, jobs, Pop, 0)
                              /\ ReportsOK(promises, Pop, tracker)
  <1>1. /\ WInv(promises, caps, reacts, jobs, stk, 0) /\ ReportsOK(promises, stk, tracker)
        /\ stk \in Seq(Frame)
    BY DEF IInv, WInv, Core, Typed
  <1>2. Pop \in Seq(Frame) /\ Top \in Frame /\ stk = Append(Pop, Top)
    BY <1>1, TopAndPop
  <1>3. FrameOK(Top, promises, caps, reacts)
    <2>1. Len(stk) \in 1..Len(stk)
      BY <1>1, LastAndFront
    <2> QED BY <2>1, <1>1 DEF WInv, Core, StackOK, Top
  <1>4. WInv(promises, caps, reacts, jobs, Append(Pop, Top), 0) /\ ReportsOK(promises, Append(Pop, Top), tracker)
    BY <1>1, <1>2
  <1>5. Top.op # "tracker" => ReportsOK(promises, Pop, tracker)
    BY <1>2, <1>4, NeutralReports
  <1>6. Neutral(Top) => WInv(promises, caps, reacts, jobs, Pop, 0) /\ ReportsOK(promises, Pop, tracker)
    BY <1>2, <1>4, PopKeeps
  <1> QED BY <1>2, <1>3, <1>4, <1>5, <1>6

(* A handler returns or throws: its reaction's functions are called.       *)
LEMMA HandlerEnds ==
    ASSUME IInv, Is("handler"), NEW b \in BOOLEAN, NEW res \in AnyRes, GotOK(<<b, res>>, Len(promises)),
           js_promise_resolve_function_call(promises, jobs, Top.cap, b, res, Pop),
           UNCHANGED <<reacts, tracker>>
    PROVE  IInv'
  <1> DEFINE c == Top.cap
  <1>1. stk # <<>> /\ Top.op = "handler"
    BY DEF Is
  <1>2. /\ Pop \in Seq(Frame) /\ WInv(promises, caps, reacts, jobs, Append(Pop, Top), 0) /\ Top \in Frame
        /\ ReportsOK(promises, Pop, tracker)
    BY <1>1, Returning
  <1>3. Top = CodeFrame("handler", c) /\ c \in Nat
    BY <1>1, <1>2, FrameIs
  <1>4. WInv(promises, caps, reacts, jobs, Append(Pop, CodeFrame("handler", c)), 0)
    BY <1>2, <1>3
  <1>5. /\ c \in 1..Len(caps)
        /\ CallOK(promises, caps, reacts, jobs, Append(Pop, CodeFrame("handler", c)), Pop, c, b, res, 0)
    BY <1>2, <1>3, <1>4, HandlerCall
  <1>6. WInv(promises', caps', reacts, jobs', stk', 0) /\ ReportsOK(promises', stk', tracker)
    BY <1>2, <1>5, CallStep
  <1>7. tracker \in BOOLEAN
    BY DEF IInv
  <1> QED BY <1>6, <1>7, Kept

(* The then of a thenable throws.                                          *)
LEMMA ThenEnds ==
    ASSUME IInv, NEW v \in Values, thenThrows(v)
    PROVE  IInv'
  <1> DEFINE c == Top.cap
  <1>1. /\ stk # <<>> /\ Top.op = "then" /\ UNCHANGED <<reacts, tracker>>
        /\ js_promise_resolve_function_call(promises, jobs, c, TRUE, Plain(v), Pop)
    BY DEF thenThrows, Is
  <1>2. Neutral(Top)
    BY <1>1 DEF Neutral
  <1>3. /\ Pop \in Seq(Frame) /\ WInv(promises, caps, reacts, jobs, Pop, 0)
        /\ ReportsOK(promises, Pop, tracker) /\ FrameOK(Top, promises, caps, reacts)
    BY <1>1, <1>2, Returning
  <1>4. c \in 1..Len(caps) /\ ~caps[c].hidden
    BY <1>1, <1>3 DEF FrameOK
  <1>5. Plain(v) \in AnyRes /\ GotOK(<<TRUE, Plain(v)>>, Len(promises))
    BY <1>3, ResolutionsOK DEF WInv, Core, Typed
  <1>6. CallOK(promises, caps, reacts, jobs, Pop, Pop, c, TRUE, Plain(v), 0)
    BY <1>3, <1>4, <1>5, OpenCall
  <1>7. WInv(promises', caps', reacts, jobs', stk', 0) /\ ReportsOK(promises', stk', tracker)
    BY <1>1, <1>3, <1>4, <1>6, CallStep
  <1>8. tracker \in BOOLEAN
    BY DEF IInv
  <1> QED BY <1>1, <1>7, <1>8, Kept

(* The getter of an object is on the stack: the object is what the first   *)
(* call of its functions brought.                                          *)
LEMMA InGetter ==
    ASSUME IInv, Is("getter")
    PROVE  /\ Pop \in Seq(Frame) /\ ReportsOK(promises, Pop, tracker) /\ Top.cap \in Nat
           /\ WInv(promises, caps, reacts, jobs, Append(Pop, CodeFrame("getter", Top.cap)), 0)
           /\ ~caps[Top.cap].got[1] /\ caps[Top.cap].got[2] = Object
           /\ \A state, v : SettlesAs(caps[Top.cap], state, v)
  <1> DEFINE c == Top.cap
  <1>1. stk # <<>> /\ Top.op = "getter"
    BY DEF Is
  <1>2. /\ Pop \in Seq(Frame) /\ WInv(promises, caps, reacts, jobs, Append(Pop, Top), 0) /\ Top \in Frame
        /\ ReportsOK(promises, Pop, tracker) /\ FrameOK(Top, promises, caps, reacts)
    BY <1>1, Returning
  <1>3. Top = CodeFrame("getter", c) /\ c \in Nat
    BY <1>1, <1>2, FrameIs
  <1>4. c \in 1..Len(caps) /\ Len(caps) \in Nat
    BY <1>1, <1>2, LenProperties DEF FrameOK, WInv, Core, Typed
  <1>5. ~caps[c].got[1] /\ caps[c].got[2] = Object
    <2>1. Len(stk) \in 1..Len(stk) /\ stk[Len(stk)] = Top
      BY <1>1, LastAndFront DEF IInv, WInv, Core, Typed, Top
    <2>2. OutcomesOK(promises, caps, reacts, jobs, stk, 0)
      BY DEF IInv, WInv
    <2> QED BY <2>1, <2>2, <1>1, <1>4 DEF OutcomesOK
  <1>6. \A state, v : SettlesAs(caps[c], state, v)
    BY <1>5, ResTags DEF SettlesAs
  <1> QED BY <1>2, <1>3, <1>5, <1>6

(* The getter returns no function, or one, or it throws.                   *)
LEMMA GetterEnds ==
    ASSUME IInv, getterReturnsNone \/ getterReturnsThen \/ (\E v \in Values : getterThrows(v))
    PROVE  IInv'
  <1> DEFINE c == Top.cap
             g == CodeFrame("getter", c)
  <1>1. Is("getter") /\ UNCHANGED <<caps, reacts, tracker>>
    BY DEF getterReturnsNone, getterReturnsThen, getterThrows
  <1>2. /\ Pop \in Seq(Frame) /\ ReportsOK(promises, Pop, tracker) /\ c \in Nat
        /\ WInv(promises, caps, reacts, jobs, Append(Pop, g), 0)
        /\ ~caps[c].got[1] /\ caps[c].got[2] = Object
        /\ \A state, v : SettlesAs(caps[c], state, v)
    BY <1>1, InGetter
  <1>3. tracker \in BOOLEAN
    BY DEF IInv
  <1>4. ASSUME NEW state \in {"fulfilled", "rejected"}, NEW v \in Results,
               fulfill_or_reject_promise(promises, jobs, caps[c].p, state, v, Pop)
        PROVE  IInv'
    <2>1. WInv(promises', caps, reacts, jobs', stk', 0) /\ ReportsOK(promises', stk', tracker)
      BY <1>2, <1>4, Fulfilled
    <2> QED BY <2>1, <1>1, <1>3, Kept
  <1>5. CASE getterReturnsNone
    <2>1. fulfill_or_reject_promise(promises, jobs, caps[c].p, "fulfilled", "object", Pop)
      BY <1>5 DEF getterReturnsNone
    <2>2. "object" \in Results
      BY DEF Results
    <2> QED BY <2>1, <2>2, <1>4
  <1>6. ASSUME NEW v \in Values, getterThrows(v) PROVE IInv'
    <2>1. fulfill_or_reject_promise(promises, jobs, caps[c].p, "rejected", v, Pop)
      BY <1>6 DEF getterThrows
    <2>2. v \in Results
      BY DEF Results
    <2> QED BY <2>1, <2>2, <1>4
  <1>7. CASE getterReturnsThen
    <2>1. jobs' = Append(jobs, ThenableJob(caps[c].p, Object)) /\ stk' = Pop /\ promises' = promises
      BY <1>7 DEF getterReturnsThen
    <2>2. WInv(promises, caps, reacts, Append(jobs, ThenableJob(caps[c].p, Object)), Pop, 0)
      BY <1>2, ThenableQueued
    <2> QED BY <2>1, <2>2, <1>1, <1>2, <1>3, Kept
  <1> QED BY <1>5, <1>6, <1>7

(* A host job ends, and with it, if it throws, the loop that ran it.       *)
LEMMA JobEnds ==
    ASSUME IInv, jobReturns \/ jobThrows \/ thenReturns
    PROVE  IInv'
  <1>1. /\ stk # <<>> /\ Top.op \in {"job", "then"} /\ UNCHANGED <<promises, caps, reacts, jobs, tracker>>
        /\ \/ stk' = Pop
           \/ Caller = "executePendingJobs" /\ stk' = SubSeq(stk, 1, Len(stk) - 2)
    BY DEF jobReturns, jobThrows, thenReturns, Is
  <1>2. Neutral(Top)
    BY <1>1 DEF Neutral
  <1>3. /\ Pop \in Seq(Frame) /\ WInv(promises, caps, reacts, jobs, Pop, 0)
        /\ ReportsOK(promises, Pop, tracker)
    BY <1>1, <1>2, Returning
  <1>4. tracker \in BOOLEAN /\ stk \in Seq(Frame)
    BY DEF IInv, WInv, Core, Typed
  <1>5. CASE stk' = Pop
    BY <1>1, <1>3, <1>4, <1>5, Kept
  <1>6. CASE Caller = "executePendingJobs" /\ stk' = SubSeq(stk, 1, Len(stk) - 2)
    <2> DEFINE n == Len(stk)
               t == SubSeq(stk, 1, n - 1)
               u == SubSeq(t, 1, n - 2)
    <2>1. n \in Nat /\ n > 1 /\ stk[n - 1].op = "executePendingJobs"
      <3>1. n \in Nat
        BY <1>4, LenProperties
      <3> QED BY <3>1, <1>6 DEF Caller
    <2>2. t \in Seq(Frame) /\ Len(t) = n - 1 /\ \A i \in 1..(n - 1) : t[i] = stk[i]
      BY <1>1, <1>4, LastAndFront
    <2>3. t = Pop
      BY DEF Pop
    <2> HIDE DEF n, t
    <2>4. t # <<>> /\ Len(t) - 1 = n - 2
      BY <2>1, <2>2, EmptySeq
    <2>5. /\ u \in Seq(Frame) /\ Len(u) = n - 2 /\ t = Append(u, t[n - 1]) /\ t[n - 1] \in Frame
          /\ \A i \in 1..(n - 2) : u[i] = t[i]
      BY <2>1, <2>2, <2>4, LastAndFront
    <2> HIDE DEF u
    <2>6. stk' = u
      <3>1. stk' = SubSeq(stk, 1, n - 2)
        BY <1>6 DEF n
      <3>2. n - 2 \in Int /\ n - 2 >= 0 /\ \A i \in 1..(n - 2) : i \in 1..n /\ i \in 1..(n - 1)
        BY <2>1
      <3>3. \A i \in 1..(n - 2) : stk[i] \in Frame
        BY <3>2, <1>4, ElementOfSeq DEF n
      <3> DEFINE w == SubSeq(stk, 1, n - 2)
                 m == n - 2
      <3>4. m \in Int /\ m >= 0 /\ \A i \in 1..m : stk[i] \in Frame
        BY <3>2, <3>3
      <3>5. w = SubSeq(stk, 1, m)
        OBVIOUS
      <3> HIDE DEF w, m
      <3>6. /\ w \in Seq(Frame) /\ Len(w) = IF 1 <= m THEN m - 1 + 1 ELSE 0
            /\ \A i \in 1..(m - 1 + 1) : w[i] = stk[1 + i - 1]
        BY <3>4, <3>5, SubSeqProperties
      <3>7. Len(w) = m /\ \A i \in 1..m : w[i] = stk[i]
        BY <3>4, <3>6
      <3>8. Len(u) = m /\ \A i \in 1..m : u[i] = stk[i]
        BY <3>2, <2>2, <2>5 DEF m
      <3>9. w = u
        BY <3>6, <3>7, <3>8, <2>5, SeqEqual
      <3> QED BY <3>1, <3>9 DEF w
    <2>7. t[n - 1].op = "executePendingJobs"
      <3>1. n - 1 \in 1..(n - 1)
        BY <2>1
      <3> QED BY <3>1, <2>1, <2>2
    <2>8. Neutral(t[n - 1])
      BY <2>7 DEF Neutral
    <2>9. WInv(promises, caps, reacts, jobs, Append(u, t[n - 1]), 0) /\ ReportsOK(promises, Append(u, t[n - 1]), tracker)
      BY <2>3, <2>5, <1>3
    <2>10. WInv(promises, caps, reacts, jobs, u, 0) /\ ReportsOK(promises, u, tracker)
      BY <2>5, <2>8, <2>9, PopKeeps
    <2> QED BY <2>6, <2>10, <1>1, <1>4, Kept
  <1> QED BY <1>1, <1>5, <1>6

(* The tracker returns: what waited for it goes on.                        *)
LEMMA TrackerEnds == ASSUME IInv, trackerReturns PROVE IInv'
  <1> DEFINE p == Top.p
             r == Top.react
             list == promises[p].reactions
             cleared == [promises EXCEPT ![p].reactions = <<>>]
  <1>1. /\ stk # <<>> /\ Top.op = "tracker" /\ stk' = Pop /\ UNCHANGED <<caps, reacts, tracker>>
        /\ \/ r = 0 /\ promises' = cleared /\ jobs' = jobs \o ReactionJobs(list)
           \/ r # 0 /\ promises' = Added(promises, p, r) /\ jobs' = Append(jobs, ReactionJob(r))
    BY Zenon DEF trackerReturns, Is, ReactionJobs
  <1>2. /\ Pop \in Seq(Frame) /\ Top \in Frame /\ WInv(promises, caps, reacts, jobs, Append(Pop, Top), 0)
        /\ ReportsOK(promises, Append(Pop, Top), tracker) /\ FrameOK(Top, promises, caps, reacts)
    BY <1>1, Returning
  <1>3. /\ Top = TrackerFrame(p, r) /\ p \in Nat /\ r \in Nat
        /\ p \in 1..Len(promises) /\ (r = 0 => promises[p].state # "pending")
        /\ r # 0 => r \in 1..Len(reacts) /\ reacts[r].on = p
    <2>1. Top = TrackerFrame(p, r) /\ p \in Nat /\ r \in Nat
      BY <1>1, <1>2, FrameIs
    <2> QED BY <2>1, <1>1, <1>2 DEF FrameOK
  <1>4. /\ promises \in Seq(PromiseRec) /\ jobs \in Seq(Job) /\ tracker \in BOOLEAN
        /\ ListOK(promises[p], p, reacts)
    BY <1>3 DEF IInv, WInv, Core, Typed, ListsOK
  <1>5. CASE r = 0 /\ promises' = cleared /\ jobs' = jobs \o ReactionJobs(list)
    <2>1. list = <<>>
      BY <1>3, <1>4, <1>5 DEF ListOK
    <2>2. jobs' = jobs
      BY <2>1, <1>4, <1>5, NoReactionJobs
    <2>3. promises' = promises
      <3>1. promises[p] \in PromiseRec /\ promises \in [1..Len(promises) -> PromiseRec]
        BY <1>3, <1>4, ElementOfSeq, LenProperties
      <3>2. [promises[p] EXCEPT !.reactions = <<>>] = promises[p]
        BY <3>1, <2>1 DEF PromiseRec
      <3>3. cleared = promises
        BY <3>1, <3>2, <1>3
      <3> QED BY <3>3, <1>5
    <2>4. Neutral(Top)
      BY <1>1, <1>5 DEF Neutral
    <2>5. WInv(promises, caps, reacts, jobs, Pop, 0) /\ ReportsOK(promises, Pop, tracker)
      BY <2>4, <1>1, Returning
    <2> QED BY <2>2, <2>3, <2>5, <1>1, <1>4, Kept
  <1>6. CASE r # 0 /\ promises' = Added(promises, p, r) /\ jobs' = Append(jobs, ReactionJob(r))
    <2>1. promises[p].state # "pending"
      <3>1. ReportOK(promises[p], Adding(Append(Pop, Top), p), tracker)
        BY <1>2, <1>3 DEF ReportsOK
      <3>2. Adding(Append(Pop, Top), p)
        BY <1>1, <1>2, <1>6, AddingIs
      <3>3. Len(<<>>) = 0
        OBVIOUS
      <3> QED BY <3>1, <3>2, <3>3 DEF ReportOK
    <2>2. Registers(promises, promises', jobs, jobs', p, r) /\ promises'[p].reports = promises[p].reports
      BY <2>1, <1>3, <1>4, <1>6, AddedIs
    <2>3. WInv(promises', caps, reacts, jobs', Pop, 0)
      <3>1. WInv(promises, caps, reacts, jobs, Append(Pop, TrackerFrame(p, r)), 0) /\ r \in Nat \ {0}
        BY <1>2, <1>3, <1>6
      <3> QED BY <3>1, <2>2, <1>2, <1>3, Registered
    <2>4. /\ Len(promises') = Len(promises) /\ promises'[p].state = promises[p].state /\ promises'[p].is_handled
          /\ \A i \in 1..Len(promises) : i # p => promises'[i] = promises[i]
      BY <2>2 DEF Registers
    <2>5. \A i : Adding(Append(Pop, Top), i) <=> Adding(Pop, i) \/ i = p
      BY <1>1, <1>2, <1>6, AddingIs
    <2>6. ReportOK(promises'[p], Adding(Pop, p), tracker)
      <3>1. ReportOK(promises[p], Adding(Append(Pop, Top), p), tracker) /\ Adding(Append(Pop, Top), p)
        BY <1>2, <1>3, <2>5 DEF ReportsOK
      <3>2. Len(promises[p].reports) # 1
        BY <3>1 DEF ReportOK
      <3>3. Adding(Pop, p) => Adding(Append(Pop, Top), p)
        BY <2>5
      <3> QED BY <3>1, <3>2, <3>3, <2>2, <2>4, RegisteredReports
    <2>7. ReportsOK(promises', Pop, tracker)
      <3>1. \A i \in 1..Len(promises) : i # p => (Adding(Pop, i) <=> Adding(Append(Pop, Top), i))
        BY <2>5
      <3> QED BY <3>1, <2>4, <2>6, <1>2, ReportsChange
    <2> QED BY <2>3, <2>7, <1>1, <1>4, Kept
  <1> QED BY <1>1, <1>5, <1>6

(* Code ends.                                                              *)
LEMMA ReturnKeeps == ASSUME IInv, Return PROVE IInv'
  <1>1. promises \in Seq(PromiseRec)
    BY DEF IInv, WInv, Core, Typed
  <1>2. ASSUME NEW res \in Resolutions, handlerReturns(res) PROVE IInv'
    <2>1. /\ Is("handler") /\ js_promise_resolve_function_call(promises, jobs, Top.cap, FALSE, res, Pop)
          /\ UNCHANGED <<reacts, tracker>>
      BY <1>2 DEF handlerReturns
    <2> QED BY <2>1, <1>1, ResolutionsOK, HandlerEnds
  <1>3. ASSUME NEW v \in Values, handlerThrows(v) PROVE IInv'
    <2>1. /\ Is("handler") /\ js_promise_resolve_function_call(promises, jobs, Top.cap, TRUE, Plain(v), Pop)
          /\ UNCHANGED <<reacts, tracker>>
      BY <1>3 DEF handlerThrows
    <2> QED BY <2>1, <1>1, ResolutionsOK, HandlerEnds
  <1> QED BY <1>2, <1>3, ThenEnds, GetterEnds, JobEnds, TrackerEnds DEF Return

(* Nothing is there at first.                                              *)
LEMMA InitKeeps == Init => IInv
  <1> SUFFICES ASSUME Init PROVE IInv
    OBVIOUS
  <1>1. /\ promises = <<>> /\ caps = <<>> /\ reacts = <<>> /\ jobs = <<>> /\ stk = <<>> /\ tracker = FALSE
    BY DEF Init
  <1>2. \A S : <<>> \in Seq(S)
    OBVIOUS
  <1>3. Len(<<>>) = 0 /\ 1..0 = {}
    OBVIOUS
  <1>4. Typed(promises, caps, reacts, jobs, stk)
    BY <1>1, <1>2 DEF Typed
  <1>5. /\ \A i \in 1..Len(promises) : FALSE
        /\ \A i \in 1..Len(caps) : FALSE
        /\ \A i \in 1..Len(reacts) : FALSE
        /\ \A i \in 1..Len(jobs) : FALSE
        /\ \A i \in 1..Len(stk) : FALSE
    BY <1>1, <1>3
  <1>6. /\ CapsOK(promises, caps) /\ ReactsOK(promises, caps, reacts) /\ JobsOK(promises, reacts, jobs)
        /\ StackOK(promises, caps, reacts, stk) /\ ListsOK(promises, reacts)
        /\ Queued(promises, reacts, jobs) /\ AllQueued(promises, jobs) /\ InOrder(promises, jobs)
    BY <1>5 DEF CapsOK, ReactsOK, JobsOK, StackOK, ListsOK, Queued, AllQueued, InOrder
  <1>7. /\ TrackersOK(promises, reacts, stk) /\ HandlersOK(promises, caps, reacts, stk, 0)
        /\ WaysOK(promises, caps, jobs, stk) /\ OutcomesOK(promises, caps, reacts, jobs, stk, 0)
    BY <1>5 DEF TrackersOK, HandlersOK, WaysOK, OutcomesOK
  <1>8. ReportsOK(promises, stk, tracker) /\ tracker \in BOOLEAN
    BY <1>1, <1>5 DEF ReportsOK
  <1> QED BY <1>4, <1>6, <1>7, <1>8 DEF IInv, WInv, Core

(* Every step keeps the invariant.                                         *)
LEMMA NextKeeps == IInv /\ [Next]_vars => IInv'
  <1> SUFFICES ASSUME IInv, [Next]_vars PROVE IInv'
    OBVIOUS
  <1>1. CASE UNCHANGED vars
    <2>1. /\ promises' = promises /\ caps' = caps /\ reacts' = reacts /\ jobs' = jobs /\ stk' = stk
          /\ tracker' = tracker
      BY <1>1 DEF vars
    <2> QED BY <2>1, Kept DEF IInv
  <1> QED BY <1>1, CodeKeeps, RunKeeps, ReturnKeeps DEF Next

(* The invariant holds however code of the host and of guests interleaves  *)
(* with the jobs, for any number of promises and any nesting.              *)
THEOREM Invariance == Spec => []IInv
  BY InitKeeps, NextKeeps, PTL DEF Spec

-----------------------------------------------------------------------------

(* A promise ends as the first call of its resolving functions says        *)
(* (js_promise_resolve_function_call), whatever is called later and        *)
(* however many jobs and getters lie between.                              *)
THEOREM FirstCallDecides == Spec => []OutcomeOfFirstCall
  <1>1. ASSUME IInv PROVE OutcomeOfFirstCall
    <2>1. /\ OutcomesOK(promises, caps, reacts, jobs, stk, 0) /\ CapsOK(promises, caps)
          /\ DOMAIN caps = 1..Len(caps) /\ Len(promises) \in Nat /\ Len(caps) \in Nat
      BY <1>1, LenProperties DEF IInv, WInv, Core, Typed
    <2> SUFFICES ASSUME NEW c \in 1..Len(caps), caps[c].already_resolved
                 PROVE  LET p == promises[caps[c].p]
                            is_reject == caps[c].got[1]
                            res == caps[c].got[2]
                        IN  CASE is_reject -> p.state = "rejected" /\ p.result = res[2]
                              [] ~is_reject /\ res[1] = "plain" -> p.state = "fulfilled" /\ p.result = res[2]
                              [] ~is_reject /\ res = OtherPromise(caps[c].p) -> p.state = "rejected"
                              [] ~is_reject /\ res[1] = "promise" /\ res[2] # caps[c].p ->
                                    p.state # "pending" => LET q == promises[res[2]] IN
                                        q.state # "pending" /\ (q.result # "object" =>
                                            p.state = q.state /\ p.result = q.result)
                              [] OTHER -> TRUE
      BY <2>1 DEF OutcomeOfFirstCall
    <2> DEFINE p == promises[caps[c].p]
               b == caps[c].got[1]
               res == caps[c].got[2]
    <2>2. c # 0
      BY <2>1
    <2>3. /\ caps[c].got \in BOOLEAN \X AnyRes /\ GotOK(caps[c].got, Len(promises))
          /\ Outcome(promises, caps[c])
      BY <2>1, <2>2 DEF CapsOK, OutcomesOK
    <2>4. /\ b => p.state = "rejected" /\ p.result = res[2]
          /\ ~b /\ res[1] = "plain" => p.state = "fulfilled" /\ p.result = res[2]
          /\ ~b /\ res = OtherPromise(caps[c].p) => p.state = "rejected"
          /\ \A q \in 1..Len(promises) :
                ~b /\ res = OtherPromise(q) /\ q # caps[c].p /\ p.state # "pending" =>
                    /\ promises[q].state # "pending"
                    /\ promises[q].result # "object" => p.state = promises[q].state /\ p.result = promises[q].result
      BY <2>3 DEF Outcome
    <2>5. res[1] = "promise" => res[2] \in 1..Len(promises) /\ res = OtherPromise(res[2])
      <3>1. \A v : Plain(v)[1] # "promise" /\ Object[1] # "promise"
        BY ResTags
      <3>2. res[1] = "promise" => res \notin PassedRes
        BY <3>1 DEF PassedRes
      <3> QED BY <3>2, <2>3, ResTags DEF GotOK
    <2>6. res = OtherPromise(caps[c].p) => res[1] = "promise"
      BY ResTags
    <2>7. b \in BOOLEAN
      BY <2>3
    <2> HIDE DEF p, b, res
    <2>8. CASE b
      BY <2>4, <2>8 DEF p, b, res
    <2>9. CASE ~b /\ res[1] = "plain"
      BY <2>4, <2>6, <2>9 DEF p, b, res
    <2>10. CASE ~b /\ res = OtherPromise(caps[c].p)
      BY <2>4, <2>6, <2>10, ResTags DEF p, b, res
    <2>11. CASE ~b /\ res[1] = "promise" /\ res # OtherPromise(caps[c].p)
      <3>1. res[2] \in 1..Len(promises) /\ res = OtherPromise(res[2]) /\ res[2] # caps[c].p
        BY <2>5, <2>11
      <3>2. p.state # "pending" =>
               /\ promises[res[2]].state # "pending"
               /\ promises[res[2]].result # "object" =>
                     p.state = promises[res[2]].state /\ p.result = promises[res[2]].result
        BY <3>1, <2>4, <2>11
      <3> QED BY <3>1, <3>2, <2>11 DEF p, b, res
    <2>12. CASE ~b /\ res[1] # "plain" /\ res[1] # "promise"
      BY <2>6, <2>12 DEF p, b, res
    <2> QED BY <2>8, <2>9, <2>10, <2>11, <2>12
  <1> QED BY <1>1, Invariance, PTL

(* Reactions run in the order in which they were added, each at most once, *)
(* from wherever the jobs are run (promise_reaction_job).                  *)
THEOREM Reactions == Spec => []ReactionsRunInOrder
  <1>1. ASSUME IInv PROVE ReactionsRunInOrder
    <2>1. promises \in Seq(PromiseRec) /\ ListsOK(promises, reacts) /\ DOMAIN promises = 1..Len(promises)
      BY <1>1, LenProperties DEF IInv, WInv, Core, Typed
    <2> SUFFICES ASSUME NEW p \in 1..Len(promises)
                 PROVE  /\ IsPrefix(promises[p].ran, promises[p].registered)
                        /\ promises[p].ran # <<>> => promises[p].state # "pending"
      BY <2>1 DEF ReactionsRunInOrder, Settled
    <2> DEFINE s == promises[p].ran
               t == promises[p].registered
    <2>2. /\ Len(s) <= Len(t) /\ (\A i \in 1..Len(s) : s[i] = t[i])
          /\ s # <<>> => promises[p].state # "pending"
      BY <2>1 DEF ListsOK, ListOK
    <2>3. s \in Seq(Nat) /\ t \in Seq(Nat)
      <3>1. promises[p] \in PromiseRec
        BY <2>1, ElementOfSeq
      <3> QED BY <3>1 DEF PromiseRec
    <2> HIDE DEF s, t
    <2>4. Len(s) \in Nat /\ Len(t) \in Nat /\ DOMAIN s = 1..Len(s) /\ DOMAIN t = 1..Len(t)
      BY <2>3, LenProperties
    <2>5. IsPrefix(s, t)
      BY <2>2, <2>4 DEF IsPrefix
    <2> QED BY <2>2, <2>5 DEF s, t
  <1> QED BY <1>1, Invariance, PTL

(* Counting what there is at most one of.                                  *)
LEMMA CountOne ==
    /\ Cardinality({}) = 0
    /\ \A S, x : (x \in S /\ \A y \in S : y = x) => Cardinality(S) = 1
    /\ \A S : (\A y \in S : FALSE) => Cardinality(S) = 0
  <1>1. Cardinality({}) = 0 /\ \A x : Cardinality({x}) = 1
    BY FS_EmptySet, FS_Singleton
  <1>2. \A S, x : (x \in S /\ \A y \in S : y = x) => S = {x}
    OBVIOUS
  <1>3. \A S : (\A y \in S : FALSE) => S = {}
    OBVIOUS
  <1> QED BY <1>1, <1>2, <1>3

(* The same for one set.                                                   *)
LEMMA Single ==
    ASSUME NEW S, NEW x \in S, \A y \in S : y = x
    PROVE  Cardinality(S) = 1
  BY CountOne

(* A report that is not TRUE is FALSE.                                     *)
LEMMA FalseReport ==
    ASSUME NEW b \in BOOLEAN, ~b
    PROVE  b = FALSE
  OBVIOUS

(* Of the functions, jobs and getters of a promise there is one, or none.  *)
LEMMA OneWay ==
    ASSUME NEW A, NEW B, NEW C, NEW pending,
           \A a, b \in A : a = b, \A a, b \in B : a = b, \A a, b \in C : a = b,
           A = {} \/ B = {}, A = {} \/ C = {}, B = {} \/ C = {},
           pending <=> (A # {} \/ B # {} \/ C # {})
    PROVE  Cardinality(A) + Cardinality(B) + Cardinality(C) = IF ~pending THEN 0 ELSE 1
  <1>1. Cardinality({}) = 0
    BY CountOne
  <1>2. CASE A # {}
    <2>1. PICK a \in A : TRUE
      BY <1>2
    <2>2. Cardinality(A) = 1
      BY <2>1, CountOne
    <2> QED BY <2>2, <1>1, <1>2
  <1>3. CASE B # {}
    <2>1. PICK a \in B : TRUE
      BY <1>3
    <2>2. Cardinality(B) = 1
      BY <2>1, CountOne
    <2> QED BY <2>2, <1>1, <1>3
  <1>4. CASE C # {}
    <2>1. PICK a \in C : TRUE
      BY <1>4
    <2>2. Cardinality(C) = 1
      BY <2>1, CountOne
    <2> QED BY <2>2, <1>1, <1>4
  <1>5. CASE A = {} /\ B = {} /\ C = {}
    BY <1>1, <1>5
  <1> QED BY <1>2, <1>3, <1>4, <1>5

(* Which jobs settle a promise, and which are of a reaction.               *)
LEMMA JobWayIs ==
    ASSUME NEW j \in Job
    PROVE  /\ \A p \in Nat : j[1] = "thenable" /\ j[2] = p <=> JobWay(j, p)
           /\ \A r \in Nat : j[1] = "reaction" /\ j[2] = r <=> j = ReactionJob(r)
  <1>1. /\ \A p, res : ThenableJob(p, res)[1] = "thenable" /\ ThenableJob(p, res)[2] = p
        /\ \A r : ReactionJob(r)[1] = "reaction" /\ ReactionJob(r)[2] = r
    BY DEF ThenableJob, ReactionJob
  <1>2. /\ j[1] = "reaction" => j[2] \in Nat /\ j = ReactionJob(j[2])
        /\ j[1] = "thenable" =>
              /\ j[2] \in Nat /\ j = ThenableJob(j[2], j[3])
              /\ j[3] = Object \/ (j[3][2] \in Nat /\ j[3] = OtherPromise(j[3][2]))
    BY JobIs
  <1>3. \A p \in Nat : JobWay(j, p) => j[1] = "thenable" /\ j[2] = p
    BY <1>1 DEF JobWay
  <1>4. ASSUME NEW p \in Nat, j[1] = "thenable", j[2] = p PROVE JobWay(j, p)
    <2>1. j = ThenableJob(p, j[3])
      BY <1>2, <1>4
    <2>2. CASE j[3] = Object
      BY <2>1, <2>2 DEF JobWay
    <2>3. CASE j[3][2] \in Nat /\ j[3] = OtherPromise(j[3][2])
      <3> DEFINE q == j[3][2]
      <3>1. q \in Nat /\ j = ThenableJob(p, OtherPromise(q))
        BY <2>1, <2>3
      <3> QED BY <3>1 DEF JobWay
    <2> QED BY <1>2, <1>4, <2>2, <2>3
  <1>5. \A r \in Nat : j[1] = "reaction" /\ j[2] = r <=> j = ReactionJob(r)
    BY <1>1, <1>2
  <1> QED BY <1>3, <1>4, <1>5

(* Whoever will call the functions of a reaction.                          *)
LEMMA OneHolder ==
    ASSUME IInv, NEW c \in 1..Len(caps), caps[c].hidden, ~caps[c].already_resolved
    PROVE  Holders(c) = 1
  <1>1. /\ promises \in Seq(PromiseRec) /\ reacts \in Seq(ReactRec) /\ jobs \in Seq(Job)
        /\ ReactsOK(promises, caps, reacts) /\ ListsOK(promises, reacts) /\ StackOK(promises, caps, reacts, stk)
        /\ Queued(promises, reacts, jobs) /\ AllQueued(promises, jobs) /\ InOrder(promises, jobs)
        /\ TrackersOK(promises, reacts, stk) /\ HandlersOK(promises, caps, reacts, stk, 0)
    BY DEF IInv, WInv, Core, Typed
  <1>2. /\ DOMAIN promises = 1..Len(promises) /\ DOMAIN reacts = 1..Len(reacts) /\ Len(reacts) \in Nat
        /\ DOMAIN jobs = 1..Len(jobs) /\ DOMAIN stk = 1..Len(stk) /\ Len(jobs) \in Nat
    BY <1>1, LenProperties DEF IInv, WInv, Core, Typed
  <1>3. PICK r \in 1..Len(reacts) : reacts[r].cap = c
    BY <1>1 DEF ReactsOK
  <1>4. /\ \A s \in 1..Len(reacts) : reacts[s].cap = c <=> s = r
        /\ reacts[r].on \in 1..Len(promises) /\ r \in Nat
    BY <1>1, <1>2, <1>3 DEF ReactsOK
  <1> DEFINE o == reacts[r].on
             s == promises[o]
             mine == {i \in DOMAIN reacts : reacts[i].cap = c}
             X == {e \in (DOMAIN promises) \X (DOMAIN reacts) :
                      /\ e[2] \in DOMAIN promises[e[1]].reactions
                      /\ promises[e[1]].reactions[e[2]] \in mine}
             Y == {k \in DOMAIN jobs : jobs[k][1] = "reaction" /\ jobs[k][2] \in mine}
             Z == {k \in DOMAIN stk : \/ stk[k].op = "handler" /\ stk[k].cap = c
                                      \/ stk[k].op = "tracker" /\ stk[k].react \in mine}
  <1>5. mine = {r}
    BY <1>2, <1>4
  <1>6. Holders(c) = Cardinality(X) + Cardinality(Y) + Cardinality(Z)
    BY Zenon DEF Holders
  <1>7. /\ Len(s.reactions) \in Nat /\ DOMAIN s.reactions = 1..Len(s.reactions)
        /\ Len(s.registered) \in Nat /\ Len(s.ran) \in Nat /\ ListOK(s, o, reacts)
        /\ \A i \in 1..Len(promises) :
              DOMAIN promises[i].reactions = 1..Len(promises[i].reactions) /\ ListOK(promises[i], i, reacts)
    <2>1. \A i \in 1..Len(promises) : promises[i] \in PromiseRec
      BY <1>1, ElementOfSeq
    <2>2. \A i \in 1..Len(promises) :
             /\ promises[i].reactions \in Seq(Nat) /\ promises[i].registered \in Seq(Nat)
             /\ promises[i].ran \in Seq(Nat)
      BY <2>1, SMTT(30) DEF PromiseRec
    <2> QED BY <2>2, <1>1, <1>4, LenProperties DEF ListsOK
  <1>8. /\ s.state = "pending" => s.reactions = s.registered /\ s.ran = <<>>
        /\ s.state # "pending" => s.reactions = <<>>
        /\ Len(s.registered) <= Len(reacts) /\ Len(s.ran) <= Len(s.registered)
        /\ \A i, j \in 1..Len(s.registered) : s.registered[i] = s.registered[j] => i = j
        /\ \A i \in 1..Len(s.ran) : s.ran[i] = s.registered[i] /\ i \in 1..Len(s.registered)
        /\ s.ran = <<>> => Len(s.ran) = 0
    <2>1. Len(<<>>) = 0
      OBVIOUS
    <2> QED BY <2>1, <1>7, SMTT(30) DEF ListOK
  <1> HIDE DEF mine
  <1>9. \A e \in X : /\ e = <<o, e[2]>> /\ s.state = "pending" /\ e[2] \in 1..Len(s.registered)
                     /\ s.registered[e[2]] = r
    <2> SUFFICES ASSUME NEW e \in X
                 PROVE  /\ e = <<o, e[2]>> /\ s.state = "pending" /\ e[2] \in 1..Len(s.registered)
                        /\ s.registered[e[2]] = r
      OBVIOUS
    <2> DEFINE i == e[1]
               j == e[2]
               t == promises[i]
    <2>1. /\ i \in 1..Len(promises) /\ e = <<i, j>> /\ j \in DOMAIN t.reactions
          /\ t.reactions[j] = r
      BY <1>2, <1>5
    <2>2. ListOK(t, i, reacts) /\ DOMAIN t.reactions = 1..Len(t.reactions)
      BY <2>1, <1>7
    <2> HIDE DEF X, i, j, t, s
    <2>3. t.state = "pending" /\ t.reactions = t.registered
      <3>1. Len(<<>>) = 0 /\ 1..0 = {}
        OBVIOUS
      <3> QED BY <3>1, <2>1, <2>2 DEF ListOK
    <2>4. i = o
      BY <2>1, <2>2, <2>3 DEF ListOK
    <2>5. t = s
      BY <2>4 DEF t, s
    <2> QED BY <2>1, <2>2, <2>3, <2>4, <2>5 DEF i, j
  <1>10. \A k \in Y : k \in 1..Len(jobs) /\ jobs[k] = ReactionJob(r) /\ WaitsIn(s, r)
    <2> SUFFICES ASSUME NEW k \in Y
                 PROVE  k \in 1..Len(jobs) /\ jobs[k] = ReactionJob(r) /\ WaitsIn(s, r)
      OBVIOUS
    <2>1. k \in 1..Len(jobs) /\ jobs[k][1] = "reaction" /\ jobs[k][2] = r /\ jobs[k] \in Job
      BY <1>1, <1>2, <1>5, ElementOfSeq
    <2>2. jobs[k] = ReactionJob(r)
      BY <2>1, <1>4, JobWayIs, SMTT(30)
    <2> QED BY <2>1, <2>2, <1>1 DEF Queued
  <1>11. \A k \in 1..Len(jobs) : jobs[k] = ReactionJob(r) => k \in Y
    BY <1>2, <1>5 DEF ReactionJob
  <1>12. \A k \in 1..Len(stk) : k \in Z <=> Handles(stk[k], c) \/ IsAdding(stk[k], r)
    BY <1>2, <1>5 DEF Handles, IsAdding
  <1>13. Z \subseteq 1..Len(stk)
    BY <1>2
  <1>14. \A k \in 1..Len(stk) : Handles(stk[k], c) => InRan(s, r)
    <2> SUFFICES ASSUME NEW k \in 1..Len(stk), Handles(stk[k], c) PROVE InRan(s, r)
      OBVIOUS
    <2>1. HandlerOK(stk[k], promises, caps, reacts, 0) /\ stk[k].cap = c
      BY <1>1 DEF HandlersOK, Handles
    <2>2. PICK i \in 1..Len(reacts) : reacts[i].cap = c /\ InRan(promises[reacts[i].on], i)
      BY <2>1 DEF HandlerOK
    <2> QED BY <2>2, <1>4
  <1>15. InRan(s, r) => InRegistered(s, r) /\ s.state # "pending"
    <2> SUFFICES ASSUME InRan(s, r) PROVE InRegistered(s, r) /\ s.state # "pending"
      OBVIOUS
    <2> HIDE DEF s
    <2>1. PICK i \in 1..Len(s.ran) : s.ran[i] = r
      BY DEF InRan
    <2>2. s.registered[i] = r /\ i \in 1..Len(s.registered)
      BY <2>1, <1>8
    <2>3. Len(s.ran) # 0
      BY <2>1
    <2> QED BY <2>2, <2>3, <1>8 DEF InRegistered
  <1>16. WaitsIn(s, r) => InRegistered(s, r) /\ s.state # "pending" /\ ~InRan(s, r)
    <2>1. ASSUME WaitsIn(s, r), InRan(s, r) PROVE FALSE
      <3>1. PICK i \in 1..Len(s.registered) : i > Len(s.ran) /\ s.registered[i] = r
        BY <2>1 DEF WaitsIn
      <3>2. PICK j \in 1..Len(s.ran) : s.ran[j] = r
        BY <2>1 DEF InRan
      <3>3. j = i
        BY <3>1, <3>2, <1>8
      <3> QED BY <3>1, <3>2, <3>3, <1>7
    <2> QED BY <2>1 DEF WaitsIn, InRegistered
  <1>17. \A k \in 1..Len(stk) : IsAdding(stk[k], r) => ~InRegistered(s, r)
    BY <1>1 DEF TrackersOK
  <1>18. X # {} => InRegistered(s, r) /\ s.state = "pending"
    BY <1>9 DEF InRegistered
  <1> HIDE DEF X, Y, Z
  <1>19. Cardinality({}) = 0
    BY CountOne
  <1>20. CASE ~InRegistered(s, r)
    <2>1. X = {} /\ Y = {}
      BY <1>10, <1>16, <1>18, <1>20
    <2>2. PICK k \in 1..Len(stk) : IsAdding(stk[k], r)
      BY <1>1, <1>20 DEF TrackersOK
    <2>3. \A l \in 1..Len(stk) : IsAdding(stk[l], r) => l = k
      BY <2>2, <1>1 DEF TrackersOK
    <2>4. k \in Z /\ \A l \in Z : l = k
      BY <2>2, <2>3, <1>12, <1>13, <1>14, <1>15, <1>20
    <2>5. Cardinality(Z) = 1
      <3> HIDE DEF s, o
      <3> QED BY <2>4, Single
    <2> QED BY <2>1, <2>5, <1>6, <1>19
  <1>21. CASE InRegistered(s, r) /\ s.state = "pending"
    <2>1. Y = {} /\ Z = {}
      BY <1>10, <1>12, <1>13, <1>14, <1>15, <1>16, <1>17, <1>21
    <2>2. PICK i \in 1..Len(s.registered) : s.registered[i] = r
      BY <1>21 DEF InRegistered
    <2>3. <<o, i>> \in X
      <3>1. i \in 1..Len(reacts) /\ s.reactions = s.registered
        BY <2>2, <1>2, <1>7, <1>8, <1>21
      <3>2. <<o, i>> \in (DOMAIN promises) \X (DOMAIN reacts)
        BY <3>1, <1>2, <1>4
      <3>3. i \in DOMAIN promises[o].reactions /\ promises[o].reactions[i] \in mine
        BY <3>1, <2>2, <1>5, <1>7
      <3> QED BY <3>2, <3>3 DEF X
    <2>4. \A e \in X : e = <<o, i>>
      BY <2>2, <1>8, <1>9, SMTT(30)
    <2>5. Cardinality(X) = 1
      BY <2>3, <2>4, CountOne
    <2> QED BY <2>1, <2>5, <1>6, <1>19
  <1>22. CASE InRegistered(s, r) /\ s.state # "pending" /\ ~InRan(s, r)
    <2>1. X = {} /\ Z = {}
      BY <1>12, <1>13, <1>14, <1>17, <1>18, <1>22
    <2>2. PICK i \in 1..Len(s.registered) : s.registered[i] = r
      BY <1>22 DEF InRegistered
    <2>3. i > Len(s.ran)
      <3>1. ASSUME i \in 1..Len(s.ran) PROVE FALSE
        BY <3>1, <2>2, <1>8, <1>22 DEF InRan
      <3> QED BY <3>1, <1>7
    <2>4. PICK k \in 1..Len(jobs) : jobs[k] = ReactionJob(r)
      BY <2>2, <2>3, <1>1, <1>4, <1>22 DEF AllQueued
    <2>5. ASSUME NEW l \in Y PROVE l = k
      <3>1. l \in 1..Len(jobs) /\ jobs[l] = ReactionJob(r)
        BY <1>10
      <3>2. \A a, b \in 1..Len(jobs) : a < b /\ jobs[a] = ReactionJob(r) /\ jobs[b] = ReactionJob(r) => i < i
        BY <2>2, <1>1, <1>4 DEF InOrder
      <3>3. ~(l < k) /\ ~(k < l)
        BY <3>1, <3>2, <2>4, <1>7
      <3> QED BY <3>1, <3>3, <2>4, <1>2
    <2>6. Cardinality(Y) = 1
      BY <2>4, <2>5, <1>11, CountOne
    <2> QED BY <2>1, <2>6, <1>6, <1>19
  <1>23. CASE InRan(s, r)
    <2>1. X = {} /\ Y = {}
      BY <1>10, <1>15, <1>16, <1>18, <1>23
    <2>2. PICK k \in 1..Len(stk) : Handles(stk[k], c)
      BY <1>1, <1>3, <1>23 DEF HandlersOK
    <2>3. \A l \in 1..Len(stk) : Handles(stk[l], c) => l = k
      BY <2>2, <1>1 DEF HandlersOK
    <2>4. k \in Z /\ \A l \in Z : l = k
      BY <2>2, <2>3, <1>12, <1>13, <1>15, <1>17, <1>23
    <2>5. Cardinality(Z) = 1
      <3> HIDE DEF s, o
      <3> QED BY <2>4, Single
    <2> QED BY <2>1, <2>5, <1>6, <1>19
  <1> QED BY <1>20, <1>21, <1>22, <1>23

(* A pending promise has exactly one way to be settled, a settled one has  *)
(* none, so that fulfill_or_reject_promise never meets a settled promise;  *)
(* and the functions that only the engine has are never lost or held       *)
(* twice.                                                                  *)
THEOREM WaysToSettle == Spec => []OneWayToSettle
  <1>1. ASSUME IInv PROVE OneWayToSettle
    <2>1. /\ promises \in Seq(PromiseRec) /\ jobs \in Seq(Job) /\ WaysOK(promises, caps, jobs, stk)
          /\ DOMAIN promises = 1..Len(promises) /\ DOMAIN caps = 1..Len(caps)
          /\ DOMAIN jobs = 1..Len(jobs) /\ DOMAIN stk = 1..Len(stk) /\ Len(promises) \in Nat
      BY <1>1, LenProperties DEF IInv, WInv, Core, Typed
    <2>2. ASSUME NEW p \in DOMAIN promises
          PROVE  Cardinality({c \in DOMAIN caps : caps[c].p = p /\ ~caps[c].already_resolved})
                 + Cardinality({k \in DOMAIN jobs : jobs[k][1] = "thenable" /\ jobs[k][2] = p})
                 + Cardinality({k \in DOMAIN stk : stk[k].op = "getter" /\ caps[stk[k].cap].p = p})
                 = IF Settled(p) THEN 0 ELSE 1
      <3> DEFINE A == {c \in DOMAIN caps : caps[c].p = p /\ ~caps[c].already_resolved}
                 B == {k \in DOMAIN jobs : jobs[k][1] = "thenable" /\ jobs[k][2] = p}
                 C == {k \in DOMAIN stk : stk[k].op = "getter" /\ caps[stk[k].cap].p = p}
                 pending == promises[p].state = "pending"
      <3>1. WaysOf(promises[p], p, caps, jobs, stk) /\ p \in Nat
        BY <2>1, <2>2 DEF WaysOK
      <3>2. /\ \A c : c \in A <=> c \in 1..Len(caps) /\ CapWay(caps[c], p)
            /\ \A k : k \in C <=> k \in 1..Len(stk) /\ GetWay(stk[k], caps, p)
        BY <2>1 DEF CapWay, GetWay
      <3>3. \A k : k \in B <=> k \in 1..Len(jobs) /\ JobWay(jobs[k], p)
        <4>1. \A k \in 1..Len(jobs) : jobs[k] \in Job
          BY <2>1, ElementOfSeq
        <4> QED BY <4>1, <3>1, <2>1, JobWayIs
      <3> HIDE DEF A, B, C
      <3>4. /\ \A a, b \in A : a = b
            /\ \A a, b \in B : a = b
            /\ \A a, b \in C : a = b
        BY <3>1, <3>2, <3>3 DEF WaysOf
      <3>5. (A = {} \/ B = {}) /\ (A = {} \/ C = {}) /\ (B = {} \/ C = {})
        <4>1. \A a \in A, b \in B : FALSE
          BY <3>1, <3>2, <3>3 DEF WaysOf
        <4>2. \A a \in A, b \in C : FALSE
          BY <3>1, <3>2, <3>3 DEF WaysOf
        <4>3. \A a \in B, b \in C : FALSE
          BY <3>1, <3>2, <3>3 DEF WaysOf
        <4> QED BY <4>1, <4>2, <4>3
      <3>6. pending <=> (A # {} \/ B # {} \/ C # {})
        BY <3>1, <3>2, <3>3 DEF WaysOf
      <3> HIDE DEF pending
      <3>7. Cardinality(A) + Cardinality(B) + Cardinality(C) = IF ~pending THEN 0 ELSE 1
        BY <3>4, <3>5, <3>6, OneWay
      <3> QED BY <3>7 DEF A, B, C, pending, Settled
    <2> QED BY <1>1, <2>1, <2>2, OneHolder DEF OneWayToSettle
  <1> QED BY <1>1, Invariance, PTL

(* What the host's tracker was told agrees with the promise, whatever the  *)
(* tracker does while it is told (fulfill_or_reject_promise and            *)
(* perform_promise_then, which call it).                                   *)
THEOREM Reports == Spec => []ReportsAgree
  <1>1. ASSUME IInv PROVE ReportsAgree
    <2>1. /\ promises \in Seq(PromiseRec) /\ ReportsOK(promises, stk, tracker)
          /\ DOMAIN promises = 1..Len(promises) /\ DOMAIN stk = 1..Len(stk)
      BY <1>1, LenProperties DEF IInv, WInv, Core, Typed
    <2> SUFFICES ASSUME NEW p \in 1..Len(promises)
                 PROVE  /\ promises[p].state # "rejected" => promises[p].reports = <<>>
                        /\ tracker /\ promises[p].state = "rejected" /\ ~promises[p].is_handled
                              => /\ promises[p].reports # <<>>
                                 /\ promises[p].reports # <<FALSE>> => Adding(stk, p)
                        /\ promises[p].reports # <<>> =>
                              ~promises[p].reports[1] /\ \A k \in 2..Len(promises[p].reports) : promises[p].reports[k]
                        /\ promises[p].reports = <<FALSE>> => ~promises[p].is_handled
      BY <2>1 DEF ReportsAgree, Adding
    <2> DEFINE w == promises[p].reports
    <2>2. ReportOK(promises[p], Adding(stk, p), tracker)
      BY <2>1 DEF ReportsOK
    <2>3. w \in Seq(BOOLEAN)
      <3>1. promises[p] \in PromiseRec
        BY <2>1, ElementOfSeq
      <3> QED BY <3>1 DEF PromiseRec
    <2>4. Len(<<FALSE>>) = 1
      OBVIOUS
    <2>5. ASSUME w # <<>>, w # <<FALSE>> PROVE Len(w) > 1
      <3>1. Len(w) \in Nat /\ Len(w) # 0
        BY <2>3, <2>5, EmptySeq, LenProperties
      <3>2. ~w[1]
        BY <2>2, <2>5 DEF ReportOK
      <3>3. ASSUME Len(w) = 1 PROVE FALSE
        <4> HIDE DEF w
        <4>1. w[1] \in BOOLEAN
          BY <2>3, <3>3, ElementOfSeq
        <4>2. w[1] = FALSE
          BY <3>2, <4>1, FalseReport
        <4>3. w = <<FALSE>>
          <5>1. <<FALSE>> \in Seq(BOOLEAN) /\ <<FALSE>>[1] = FALSE
            OBVIOUS
          <5>2. \A i \in 1..1 : i = 1
            OBVIOUS
          <5>3. \A i \in 1..Len(w) : w[i] = <<FALSE>>[i]
            BY <5>1, <5>2, <4>2, <3>3
          <5> QED BY <5>1, <5>3, <2>3, <2>4, <3>3, SeqEqual
        <4> QED BY <4>3, <2>5
      <3>4. \A n \in Nat : n # 0 /\ n # 1 => n > 1
        OBVIOUS
      <3> QED BY <3>1, <3>3, <3>4
    <2> QED BY <2>2, <2>4, <2>5 DEF ReportOK
  <1> QED BY <1>1, Invariance, PTL
=============================================================================
