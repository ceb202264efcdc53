------------------------------ MODULE Metrics ------------------------------
(***************************************************************************)
(* What becomes of every key (InputMetrics and InputRouter in compositor/  *)
(* input.ts, with their callers in terminal.ts and surface.ts): it is sent *)
(* to the kernel, whose answer, the frame that shows it, its echo, a       *)
(* snapshot that gives it up and a reset come in any order.                *)
(***************************************************************************)
EXTENDS Naturals, FiniteSets, FiniteSetsExt

CONSTANTS
  Keys,      \* the names keys are counted under
  Windows,   \* processes with a canvas in front
  MaxTyped   \* keys typed

VARIABLES
  nextId,    \* of the next sample
  pending,   \* id -> [source, key, delivered, late]: late once 5 s old
  generated, delivered, rendered, dropped, missed,  \* counted by key
  asked,     \* deliveries the kernel has not answered: [id, nth]
  typed      \* keys so far, resets notwithstanding

countVars == <<generated, delivered, rendered, dropped, missed>>
metricsVars == <<nextId, pending, countVars, asked, typed>>

Terminal == "terminal"
Zero == [k \in Keys |-> 0]

MetricsInit ==
  /\ nextId = 1 /\ pending = <<>> /\ asked = {} /\ typed = 0
  /\ generated = Zero /\ delivered = Zero /\ rendered = Zero
  /\ dropped = Zero /\ missed = Zero

Of(ids, k) == {id \in ids : pending[id].key = k}
Plus(f, ids) == [k \in Keys |-> f[k] + Cardinality(Of(ids, k))]
Undelivered(ids) == {id \in ids : ~pending[id].delivered}
Forget(ids) == pending' = [id \in DOMAIN pending \ ids |-> pending[id]]

\* begin.  A line being edited in the terminal counts as delivered at once.
Begin(source, key, done) ==
  /\ typed < MaxTyped /\ typed' = typed + 1
  /\ nextId' = nextId + 1
  /\ pending' = [id \in DOMAIN pending \cup {nextId} |->
                   IF id = nextId
                   THEN [source |-> source, key |-> key, delivered |-> done, late |-> FALSE]
                   ELSE pending[id]]
  /\ generated' = [generated EXCEPT ![key] = @ + 1]
  /\ delivered' = IF done THEN [delivered EXCEPT ![key] = @ + 1] ELSE delivered
  /\ asked' = IF done THEN asked ELSE asked \cup {[id |-> nextId, nth |-> typed]}
  /\ UNCHANGED <<rendered, dropped, missed>>
CanvasKey(win, key) == Begin(win, key, FALSE)
TerminalKey(key) == \E raw \in BOOLEAN : Begin(Terminal, key, ~raw)

Settled == UNCHANGED <<nextId, generated, missed, typed>>
\* deliveredByKernel, and drop for a refusal or an error.  The id may have been
\* settled, or, after a reset, be another key's.
Answered(call, accepted) ==
  LET ids == {call.id} \cap DOMAIN pending
  IN  /\ call \in asked /\ asked' = asked \ {call}
      /\ IF accepted
         THEN /\ pending' = [id \in DOMAIN pending |->
                               [pending[id] EXCEPT !.delivered = @ \/ id \in ids]]
              /\ delivered' = Plus(delivered, Undelivered(ids)) /\ UNCHANGED dropped
         ELSE Forget(ids) /\ dropped' = Plus(dropped, ids) /\ UNCHANGED delivered
      /\ UNCHANGED rendered /\ Settled

\* A bug: a key the kernel has not answered for stays pending when it is shown.
Shown_Waits(ids) ==
  /\ Forget(ids \ Undelivered(ids)) /\ rendered' = Plus(rendered, ids)
  /\ UNCHANGED <<delivered, dropped, asked>> /\ Settled
\* A frame, or an echo, proves that the kernel took the key.
Shown(ids) ==
  /\ Forget(ids) /\ rendered' = Plus(rendered, ids)
  /\ delivered' = Plus(delivered, Undelivered(ids))
  /\ UNCHANGED <<dropped, asked>> /\ Settled
From(source) == {id \in DOMAIN pending : pending[id].source = source}
MarkCanvasRendered(win) == From(win) # {} /\ Shown(From(win))
MarkTerminalEcho == From(Terminal) # {} /\ Shown({Min(From(Terminal))})

\* Ids start again; the answers on their way keep theirs.
Reset ==
  /\ nextId > 1 /\ nextId' = 1 /\ pending' = <<>>
  /\ generated' = Zero /\ delivered' = Zero /\ rendered' = Zero
  /\ dropped' = Zero /\ missed' = Zero
  /\ UNCHANGED <<asked, typed>>

\* Time passes: the oldest keys are late first.
Lateness ==
  \E n \in DOMAIN pending :
    /\ ~pending[n].late
    /\ pending' = [id \in DOMAIN pending |-> [pending[id] EXCEPT !.late = @ \/ id <= n]]
    /\ UNCHANGED <<nextId, countVars, asked, typed>>

Snapshot ==
  LET late == {id \in DOMAIN pending : pending[id].late}
  IN  /\ late # {} /\ Forget(late) /\ missed' = Plus(missed, late)
      /\ UNCHANGED <<nextId, generated, delivered, rendered, dropped, asked, typed>>

MetricsNext ==
  \/ (\E key \in Keys : TerminalKey(key) \/ \E win \in Windows : CanvasKey(win, key))
  \/ (\E call \in asked, accepted \in BOOLEAN : Answered(call, accepted))
  \/ (\E win \in Windows : MarkCanvasRendered(win)) \/ MarkTerminalEcho
  \/ Reset \/ Lateness \/ Snapshot

MetricsSpec == MetricsInit /\ [][MetricsNext]_metricsVars
----------------------------------------------------------------------------
\* "Inputs that remain unresolved past the timeout are counted as missed instead of
\* being silently omitted" (input.ts): every key is pending or counted once, as
\* rendered, dropped or missed, whichever of its answers comes first.
Conserved ==
  \A k \in Keys :
    generated[k] = rendered[k] + dropped[k] + missed[k] + Cardinality(Of(DOMAIN pending, k))

\* The delivery rate stays a rate: no key is delivered twice, and one that was
\* rendered was delivered.
RatesBounded ==
  \A k \in Keys :
    /\ delivered[k] + Cardinality(Of(Undelivered(DOMAIN pending), k)) <= generated[k]
    /\ rendered[k] <= delivered[k]

CountsAddUp == Conserved /\ RatesBounded
=============================================================================
