----------------------------- MODULE KernelWaits -----------------------------
(***************************************************************************)
(* The kernel implements the wait service: proc_exit, k_wait, SIGKILL and  *)
(* the host's parked map are its steps.                                    *)
(***************************************************************************)
EXTENDS Kernel

LifeOf(p) ==
  CASE p >= nextPid                        -> "unborn"
    [] p < nextPid /\ ~Known(p)            -> "gone"
    [] Known(p) /\ exitCode[p] = NoCode    -> "alive"
    [] Known(p) /\ exitCode[p] # NoCode    -> "exited"

Service == INSTANCE WaitService WITH
  Process  <- Pid,
  Root     <- InitPid,
  Status   <- Codes,
  NoStatus <- NoCode,
  life     <- [p \in Pid |-> LifeOf(p)],
  status   <- exitCode,
  waits    <- {w \in Pid \X Pid : parked[w[1]] = Req("kWait", w[2])}

\* Exits are recorded once and collected once, every waiter of a process is
\* answered when it departs, and none sleeps on (WaitService, with its fairness).
ImplementsWaitService == Service!ServiceSpec
=============================================================================
