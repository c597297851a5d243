------------------------- MODULE MCDevnetExecution -------------------------
(* Small instances of DevnetExecution for TLC. *)
EXTENDS DevnetExecution, TLC

CONSTANTS r1, r2, p1, h1, h2, t1, t2

\* Runs that share a worker id: only claimed_at tells their leases apart.
OneWorker == [h \in {p1, h1, h2} |-> "worker"]
=============================================================================
