------------------------------ MODULE BPending ------------------------------
(***************************************************************************)
(* The pending jobs of badvpn's reactor (base/BPending.c): one list per    *)
(* reactor, to which a job is added AT THE FRONT and from which the first  *)
(* job is taken.  The reactor waits for the next event only when the list  *)
(* is empty (system/BReactor_badvpn.c:772).  Several parts of tun2socks    *)
(* rely on that order; the modules that use this one keep the list in a    *)
(* variable of their own.                                                  *)
(***************************************************************************)
EXTENDS Sequences

\* A job at the end of the list, as a queue of callbacks would have it.
MutBPending_Set(jobs, j) == Append(jobs, j)

\* No job of the modelled parts is set while it is set: BPending_Set would
\* move it to the front, but PacketPassInterface asserts its state before
\* and the fair queue asserts that its schedule job is not set.
BPending_Set(jobs, j) == <<j>> \o jobs

\* The job that the reactor executes next is j; Tail(jobs) is what it leaves
\* when the handler starts.
BPendingGroup_ExecuteJob(jobs, j) == jobs # <<>> /\ Head(jobs) = j
=============================================================================
