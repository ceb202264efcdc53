--------------------------------- MODULE Rpc ---------------------------------
(***************************************************************************)
(* What the syscall ring promises a guest: its calls are served one at a   *)
(* time, each of them once, and each returns its own answer.  Once the     *)
(* process has been torn down nothing more is served; its thread goes some *)
(* time after that.                                                        *)
(***************************************************************************)
EXTENDS Naturals

CONSTANT Calls          \* the calls the guest makes are 1 .. Calls

Call == 1..Calls

VARIABLES asked,        \* the last call made
          served,       \* how often each call was serviced
          answered,     \* calls whose answer is out
          got,          \* the answer each call returned with
          torn,         \* the process is torn down
          dead          \* its thread is gone

rpcVars == <<asked, served, answered, got, torn, dead>>

RpcInit ==
  /\ asked = 0
  /\ served = [k \in Call |-> 0]
  /\ answered = {}
  /\ got = [k \in Call |-> 0]
  /\ torn = FALSE /\ dead = FALSE

Returned(k) == got[k] # 0

Ask ==
  /\ ~dead /\ asked < Calls
  /\ asked > 0 => Returned(asked)
  /\ asked' = asked + 1
  /\ UNCHANGED <<served, answered, got, torn, dead>>

ServeOnce ==
  /\ ~torn /\ asked > 0 /\ served[asked] = 0
  /\ served' = [served EXCEPT ![asked] = 1]
  /\ UNCHANGED <<asked, answered, got, torn, dead>>

Answer ==
  /\ ~torn /\ asked > 0 /\ served[asked] = 1 /\ asked \notin answered
  /\ answered' = answered \cup {asked}
  /\ UNCHANGED <<asked, served, got, torn, dead>>

Return ==
  /\ ~dead /\ asked \in answered /\ ~Returned(asked)
  /\ got' = [got EXCEPT ![asked] = asked]
  /\ UNCHANGED <<asked, served, answered, torn, dead>>

TearDown == ~torn /\ torn' = TRUE /\ UNCHANGED <<asked, served, answered, got, dead>>

Die == torn /\ ~dead /\ dead' = TRUE /\ UNCHANGED <<asked, served, answered, got, torn>>

RpcNext == Ask \/ ServeOnce \/ Answer \/ Return \/ TearDown \/ Die

\* What is asked is served, and what is answered returns.  An answer may take
\* for ever: the call waits for an event.
RpcSpec == RpcInit /\ [][RpcNext]_rpcVars /\ WF_rpcVars(ServeOnce) /\ WF_rpcVars(Return)
=============================================================================
