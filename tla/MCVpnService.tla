---------------------------- MODULE MCVpnService ----------------------------
(* VpnService with coroutines and parameters as model values, and what the  *)
(* environment may do in the behaviours of each run.                        *)
EXTENDS VpnService, TLC

Budget(s, c, b, r, n) ==
  [starts |-> s, commands |-> c, callbacks |-> b, revokes |-> r, binds |-> n]

\* Two sessions with a command or a callback; one session with callbacks, a
\* command and an unbind, or with a revocation and a command or a callback.
SafetyBudgets ==
  {Budget(2, 1, 0, 0, 0), Budget(2, 0, 1, 0, 0), Budget(1, 1, 2, 0, 1), Budget(1, 0, 3, 0, 1),
   Budget(1, 1, 0, 1, 0), Budget(1, 0, 1, 1, 0)}

\* Two sessions and a callback; one session with two of: a command, a callback,
\* a revocation and an unbind, after which the service may be destroyed.
ProgressBudgets ==
  {Budget(2, 0, 1, 0, 0), Budget(1, 1, 1, 0, 0), Budget(1, 1, 0, 1, 0), Budget(1, 0, 1, 1, 0),
   Budget(1, 1, 0, 0, 1), Budget(1, 0, 0, 1, 1)}

\* One session with two callbacks, a command and a revocation.
OneSession == {Budget(1, 1, 2, 1, 0)}

Symmetry == Permutations(Jobs) \cup Permutations(Params)
=============================================================================
