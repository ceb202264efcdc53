----------------------------- MODULE WaitService -----------------------------
(***************************************************************************)
(* What exit and wait promise, with no kernel in sight: a process lives,   *)
(* exits with a status, and is forgotten when the status is collected or   *)
(* the process is destroyed by force.  A wait on a living process is       *)
(* answered after it departs, to every waiter, and the status goes to one. *)
(***************************************************************************)
EXTENDS Naturals

CONSTANTS Process, Root,  \* Root exists from the start
          Status, NoStatus \* NoStatus is not a Status

VARIABLES life,     \* "unborn", "alive", "exited" or "gone"
          status,   \* of a process that has exited
          waits     \* <<p, c>>: p sleeps until c departs

serviceVars == <<life, status, waits>>

ServiceInit ==
  /\ life = [p \in Process |-> IF p = Root THEN "alive" ELSE "unborn"]
  /\ status = [p \in Process |-> NoStatus]
  /\ waits = {}

Create(p) ==
  /\ life[p] = "unborn"
  /\ life' = [life EXCEPT ![p] = "alive"]
  /\ UNCHANGED <<status, waits>>

Depart(p, s) ==
  /\ life[p] = "alive"
  /\ life'   = [life EXCEPT ![p] = "exited"]
  /\ status' = [status EXCEPT ![p] = s]
  /\ UNCHANGED waits

\* By force: no status is kept, and nothing is left asleep on its behalf.
Destroy(p) ==
  /\ life[p] \in {"alive", "exited"}
  /\ life'   = [life EXCEPT ![p] = "gone"]
  /\ status' = [status EXCEPT ![p] = NoStatus]
  /\ waits'  = {w \in waits : w[1] # p}

Sleep(p, c) ==
  /\ life[p] = "alive" /\ life[c] = "alive"
  /\ waits' = waits \cup {<<p, c>>}
  /\ UNCHANGED <<life, status>>

\* The first to ask takes the status and the process is forgotten.
Collected(c) ==
  IF life[c] = "exited"
  THEN life' = [life EXCEPT ![c] = "gone"] /\ status' = [status EXCEPT ![c] = NoStatus]
  ELSE UNCHANGED <<life, status>>

\* A wait that sleeps is answered once its process has departed ...
Answer(p, c) ==
  /\ <<p, c>> \in waits /\ life[c] # "alive"
  /\ Collected(c)
  /\ waits' = waits \ {<<p, c>>}

\* ... one that comes later is answered at once ...
Collect(p, c) ==
  /\ life[p] = "alive" /\ life[c] = "exited"
  /\ Collected(c)
  /\ UNCHANGED waits

\* ... and one whose sleeper departs is dropped.
Withdraw(p, c) ==
  /\ <<p, c>> \in waits /\ life[p] # "alive"
  /\ waits' = waits \ {<<p, c>>}
  /\ UNCHANGED <<life, status>>

ServiceNext ==
  \E p \in Process :
    \/ Create(p)
    \/ Destroy(p)
    \/ \E s \in Status : Depart(p, s)
    \/ \E c \in Process : Sleep(p, c) \/ Answer(p, c) \/ Collect(p, c) \/ Withdraw(p, c)

\* No sleeper is forgotten.
ServiceSpec ==
  /\ ServiceInit /\ [][ServiceNext]_serviceVars
  /\ \A p, c \in Process : WF_serviceVars(Answer(p, c) \/ Withdraw(p, c))
=============================================================================
