------------------------------ MODULE Session ------------------------------
(***************************************************************************)
(* The parts of a terminal session, one at a time: who the keys go to      *)
(* (Terminal), what becomes of each (Metrics), what the line editor makes  *)
(* of them, and what the shell does with a line.  `which' says which part  *)
(* runs.  The terminal and the counts of the others stay as they start;    *)
(* the variables of a line and of a shell that do not run are Off.         *)
(***************************************************************************)
EXTENDS Terminal, Metrics

CONSTANTS
  Off,
  Keyboards, Printable, MaxChunk, MaxKeys, MaxHistory,                 \* LineEditor
  Lines, SearchPath, Installed, Targets, MaxLines, Byte, Capacity     \* Shell

\* split('|') gives a line at least one stage.
ASSUME SessionAssumption == /\ MaxChunk \in Nat
                            /\ \A line \in Lines : Len(line) \in Nat \ {0} /\ DOMAIN line = 1..Len(line)

VARIABLES
  which,
  keys, ed, raw, sent, base, since,                           \* LineEditor
  phase, stages, at, cwd, status, pipes, held, procs, lines   \* Shell

lineVars   == <<keys, ed, raw, sent, base, since>>
shVars     == <<phase, stages, at, cwd, status, pipes, held, procs, lines>>
vars       == <<which, termVars, metricsVars, lineVars, shVars>>

Line == INSTANCE LineEditor
Sh   == INSTANCE Shell

LineOff == keys = Off /\ ed = Off /\ raw = Off /\ sent = Off /\ base = Off /\ since = Off
ShOff   == /\ phase = Off /\ stages = Off /\ at = Off /\ cwd = Off /\ status = Off
           /\ pipes = Off /\ held = Off /\ procs = Off /\ lines = Off

Init == /\ TermInit /\ MetricsInit
        /\ \/ which = "window" /\ LineOff /\ ShOff
           \/ which = "meter" /\ LineOff /\ ShOff
           \/ which = "line" /\ Line!EditorInit /\ ShOff
           \/ which = "shell" /\ Sh!ShellInit /\ LineOff

Next == \/ which = "window" /\ TermNext /\ UNCHANGED <<which, metricsVars, lineVars, shVars>>
        \/ which = "meter" /\ MetricsNext /\ UNCHANGED <<which, termVars, lineVars, shVars>>
        \/ which = "line" /\ Line!EditorNext /\ UNCHANGED <<which, termVars, metricsVars, shVars>>
        \/ which = "shell" /\ Sh!ShellNext /\ UNCHANGED <<which, termVars, metricsVars, lineVars>>

\* TermFairness and ShellFairness, each for the runs of its part.
Fairness ==
  /\ WF_termVars(which = "window" /\ KernelReceive)
  /\ WF_termVars(which = "window" /\ MainReceive)
  /\ \A t \in Polls : WF_termVars(which = "window" /\ WatchTick(t))
  /\ \A p \in Pid : WF_termVars(which = "window" /\ ExitMessage(p))
  /\ WF_shVars(which = "shell" /\ Sh!ShellStep)
  /\ \A i \in 1..Sh!MaxStages : WF_shVars(which = "shell" /\ (Sh!Reads(i) \/ Sh!Writes(i)))

Spec == Init /\ [][Next]_vars /\ Fairness
----------------------------------------------------------------------------
\* Typing means the same in whatever chunks it comes.
ChunkingInvisible == which = "line" => Line!ChunkingInvisible

\* The history is walked without losing the line that was being typed.
HistoryKeepsDraft == which = "line" => Line!HistoryKeepsDraft

\* At the prompt nothing of the last line is left, its status is the last stage's,
\* and no line runs for ever because of a pipe: a line that does not end has a first
\* stage that waits for the terminal, for ever or again and again.
LineEnds ==
  /\ [](which = "shell" => Sh!NothingLeft)
  /\ [][which = "shell" => Sh!StatusIsLast]_vars
  /\ <>[]~(which = "shell" /\ Sh!OnTheUser)
        => ((which = "shell" /\ phase = "pipe") ~> (which = "shell" /\ phase = "prompt"))
=============================================================================
