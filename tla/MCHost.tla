------------------------------- MODULE MCHost -------------------------------
(***************************************************************************)
(* The two protocols of the host that have no lock: the ring between a     *)
(* guest and the kernel worker, and the write-back cache in front of the   *)
(* disk.  They do not meet, and are checked one at a time.                 *)
(***************************************************************************)
EXTENDS CachedStore, Ring

AnyDelay == SUBSET {"guest", "kernel"}

VARIABLE which   \* "ring" or "store"

hostVars == <<which, ringVars, vars>>

\* The protocol that does not run stays as it starts.
HostInit ==
  /\ RingInit /\ Init
  /\ which \in {"ring", "store"}
  /\ which = "ring" => backend = CHOOSE b \in Backends : TRUE
  /\ which = "store" => late = {}

\* Keys are interchangeable while no block exists, and calls of flush while
\* none is open: the first write is to the first key, the flushes (numbered)
\* are called in order.  What is left out is what is there, renamed.
FirstOfItsKind ==
  /\ written = 0 /\ written' = 1 => mirror'[CHOOSE k \in Keys : TRUE] # Absent
  /\ \A f \in Flushes : flush'[f].at # "idle" => \A g \in 1..f : flush'[g].at # "idle"

HostNext ==
  \/ which = "ring" /\ RingNext /\ UNCHANGED <<which, vars>>
  \/ which = "store" /\ Next /\ FirstOfItsKind /\ UNCHANGED <<which, ringVars>>

HostSpec ==
  /\ HostInit /\ [][HostNext]_hostVars
  /\ WF_ringVars(which = "ring" /\ GuestStep) /\ WF_ringVars(which = "ring" /\ ServerStep)
  /\ WF_vars(which = "store" /\ Backing)
  /\ \A f \in Flushes : WF_vars(which = "store" /\ ResumeFlush(f))
=============================================================================
