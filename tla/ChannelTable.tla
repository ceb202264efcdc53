---------------------------- MODULE ChannelTable ----------------------------
(***************************************************************************)
(* The kernel's message channels (crates/kernel/src/chan.rs): two          *)
(* endpoints, each with an inbox, met by name.  Operators only: Kernel.tla *)
(* owns the table.  The absent channel is the record NoChan: pending,      *)
(* open and peer tests on it give what the code gives for an unknown id.   *)
(***************************************************************************)
EXTENDS Naturals, Sequences

CONSTANT Msg        \* message payloads

End   == {0, 1}
NoEnd == 2         \* a process that holds no endpoint of the channel

Chan == [pending : BOOLEAN, open : [End -> BOOLEAN], inbox : [End -> Seq(Msg)]]

NoChan == [pending |-> FALSE,
           open    |-> [e \in End |-> FALSE],
           inbox   |-> [e \in End |-> <<>>]]

\* open() of a name nobody waits on: endpoint 0, pending until a peer connects.
NewChan == [pending |-> TRUE,
            open    |-> [e \in End |-> e = 0],
            inbox   |-> [e \in End |-> <<>>]]

\* open() of a name somebody waits on: endpoint 1 connects.
Connected(chan) == [chan EXCEPT !.open[1] = TRUE, !.pending = FALSE]

\* peer_open(): a peer is there, or may still appear.
PeerOpen(chan, end) == chan.open[1 - end] \/ chan.pending

Sent(chan, end, msg) == [chan EXCEPT !.inbox[1 - end] = Append(@, msg)]
Received(chan, end)  == [chan EXCEPT !.inbox[end] = Tail(@)]

\* Faulty: the rendezvous of a creator that gave up is kept.
Abandoned_Never(chan, end) == FALSE

\* close() clears the endpoint, then drops the channel in two cases: a creator
\* that gives up on a rendezvous with nothing buffered for the peer to come ...
Abandoned(chan, end) == chan.pending /\ end = 0 /\ chan.inbox[1] = <<>>

\* ... and gc(): both endpoints closed and both inboxes drained.
Collectable(chan) == ~chan.pending /\ \A e \in End : ~chan.open[e] /\ chan.inbox[e] = <<>>

Closed(chan, end) ==
  LET left == [chan EXCEPT !.open[end] = FALSE]
  IN  IF Abandoned(chan, end) \/ Collectable(left) THEN NoChan ELSE left
=============================================================================
