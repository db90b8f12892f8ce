----------------------------- MODULE MCModules -----------------------------
(* Worlds of up to four modules for TLC.                                   *)
EXTENDS Modules, TLC

World(imports, tla, native, missing, broken, n) ==
    [imports |-> imports, has_tla |-> tla, native |-> native, missing |-> missing,
     broken |-> broken, calls |-> n]

Lists == {<<>>} \cup {<<n>> : n \in 1..3} \cup {l \in (1..3) \X (1..3) : l[1] # l[2]}

(* One call, on every graph of three modules whose first imports the       *)
(* others.                                                                 *)
Graphs == {World(<< <<2, 3>>, l2, l3, <<>> >>, tla, {}, {}, {}, 1) :
              l2 \in Lists, l3 \in Lists, tla \in {{2}, {3}, {2, 3}, {1, 2}, {1, 2, 3}}}

(* Two calls that share modules, one perhaps inside the other.             *)
Shared ==
    {World(<< <<2, 3>>, <<3>>, <<>>, <<>> >>, {3}, {}, {}, {}, 2),
     World(<< <<2, 3>>, <<1>>, <<>>, <<>> >>, {2}, {}, {}, {}, 2),
     World(<< <<2, 3>>, <<>>, <<>>, <<>> >>, {}, {2}, {3}, {1}, 2)}

(* A cycle of three that waits for a fourth, and chains of waiters.        *)
Chains ==
    {World(<< <<2>>, <<3>>, <<1, 4>>, <<>> >>, {4}, {}, {}, {}, 1),
     World(<< <<2, 3>>, <<3, 4>>, <<4>>, <<>> >>, {2, 4}, {}, {}, {}, 1),
     World(<< <<2, 3>>, <<4>>, <<>>, <<>> >>, {3, 4}, {}, {}, {}, 1),
     World(<< <<2, 4>>, <<3>>, <<2>>, <<3>> >>, {2}, {}, {}, {}, 1),
     World(<< <<2, 3>>, <<4>>, <<2, 4>>, <<>> >>, {4}, {}, {}, {}, 1)}

(* Cycles in which linking fails, at the first module that was entered or  *)
(* further down, and a second call that meets them again.                  *)
BrokenCycles ==
    {World(<< <<2, 3>>, <<1>>, <<>>, <<>> >>, {}, {}, {}, {1}, 2),
     World(<< <<2>>, <<3, 4>>, <<1, 2>>, <<>> >>, {4}, {}, {}, {2}, 2),
     World(<< <<2>>, <<1, 3>>, <<2>>, <<>> >>, {}, {}, {}, {1, 3}, 2)}

(* A cycle whose first module then imports one that cannot be loaded.      *)
FailedLoad == {World(<< <<2, 3>>, <<1>>, <<>>, <<>> >>, {}, {}, {3}, {}, 2)}

MCWorlds == Graphs \cup Shared \cup Chains \cup BrokenCycles
=============================================================================
