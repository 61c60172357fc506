----------------------------- MODULE MCServices -----------------------------
(***************************************************************************)
(* Values for TLC that a configuration cannot write.                       *)
(***************************************************************************)
EXTENDS Services, TLC
CONSTANTS v1, l1, l9

Sym == Permutations(Actor) \union Permutations(Thing)

OneEach == [i \in Thing |-> v1]

\* On the white list or not, quoted (head and name differ) or not, and refused.
Cmd(h, n, k) == [head |-> h, name |-> n, is |-> k]
CommandLines ==
  {Cmd("git", "git", "plain"), Cmd("make", "make", "plain"),
   Cmd("rm", "make", "plain"), Cmd("rm", "rm", "plain")}
    \union {Cmd("rm", "rm", k) : k \in {"forbidden", "compound", "unclosed"}}

\* A short line and one the search has to cut; the limits are scaled down alike.
Notes == [file |-> 2, line |-> 1, search |-> 1]
Places == [f \in Thing |-> [k \in 1..2 |-> k]]
LineLength == [l \in {l1, l9} |-> IF l = l1 THEN 1 ELSE 9]

TableOrder == <<"skills", "messages">>
Sources == [form : {"absent", "broken", "shapeless"}, rows : {{}}]
             \union [form : {"rows"}, rows : {{}, {"bare"}, {"key"}, {"key", "twin"}, {"key", "twin", "bare"}}]

Pack(t, u, body, extra, shape) ==
  [task |-> t, url |-> u, kind |-> "k1", body |-> body, extra |-> extra, shape |-> shape]
Typed == {Pack("t1", "u1", "plan", FALSE, "nested"), Pack("t2", "u1", "tasks", FALSE, "loose")}
Scripted == {Pack("t1", "u1", "plan", FALSE, "plain"), Pack("t1", "u2", "tasks", TRUE, "plain")}
=============================================================================
