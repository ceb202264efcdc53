------------------------------- MODULE Shell -------------------------------
(***************************************************************************)
(* The shell (crates/sh): one line at a time, parsed into stages, wired    *)
(* with kernel pipes, spawned left to right, and waited for.  The stages   *)
(* run beside it and talk through the pipes.  k_pipe never fails, so the   *)
(* branch that reports it is left out.                                     *)
(***************************************************************************)
EXTENDS PipeTable, SequencesExt

CONSTANTS
  Lines,      \* what is typed: sequences of stages, each a sequence of [op, word]
  SearchPath, \* PATH, as /etc/profile has it
  Installed,  \* <<directory, program>>
  Targets,    \* what cd is given: [abs, segs]
  MaxLines    \* lines typed

VARIABLES
  phase,      \* "prompt", "pipe", "spawn", "close", "wait" or "gone"
  stages,     \* the parsed line
  at,         \* the stage or pipe the loop is at
  cwd,        \* a sequence of names
  status,     \* last_status
  pipes,      \* pipe i is between stages i and i + 1
  held,       \* the ends the shell still has open
  procs,      \* stage -> the process, and what it does; or a stage not spawned
  lines       \* lines typed so far

shellVars == <<phase, stages, at, cwd, status, pipes, held, procs, lines>>

NoFile == ""
\* parse_stage: `<', `>' and `>>' take what is stuck to them, or else the next token,
\* whatever it is; a later one replaces an earlier one, with nothing if none follows.
ParseStage(toks) ==
  LET Take(st, op, file) == CASE op = "<" -> [st EXCEPT !.stdin = file]
                              [] op = ">" -> [st EXCEPT !.stdout = file, !.append = FALSE]
                              [] op = ">>" -> [st EXCEPT !.stdout = file, !.append = TRUE]
      Step(st, t) ==
        IF st.open # "" THEN [Take(st, st.open, t.op \o t.word) EXCEPT !.open = ""]
        ELSE IF t.op = "" THEN [st EXCEPT !.argv = Append(@, t.word)]
        ELSE [Take(st, t.op, t.word) EXCEPT !.open = IF t.word = "" THEN t.op ELSE ""]
  IN  FoldLeft(Step, [argv |-> <<>>, stdin |-> NoFile, stdout |-> NoFile, append |-> FALSE,
                      open |-> ""], toks)

\* resolve_path
ResolvePath(dir, target) ==
  LET Step(parts, seg) == CASE seg = "."  -> parts
                            [] seg = ".." -> IF parts = <<>> THEN <<>> ELSE Front(parts)
                            [] OTHER      -> Append(parts, seg)
  IN  FoldLeft(Step, IF target.abs THEN <<>> ELSE dir, target.segs)

\* resolve_cmd: the first directory of PATH that has it, or the first one.
ResolveCmd(prog) ==
  LET has == SelectSeq(SearchPath, LAMBDA d : <<d, prog>> \in Installed)
  IN  <<Head(has \o SearchPath), prog>>

ShellInit ==
  /\ phase = "prompt" /\ stages = <<>> /\ at = 1 /\ cwd = <<"home">> /\ status = 0
  /\ pipes = <<>> /\ held = {} /\ procs = <<>> /\ lines = 0
----------------------------------------------------------------------------
Typed == phase = "prompt" /\ lines < MaxLines /\ lines' = lines + 1
Answered(code) == status' = code /\ UNCHANGED <<phase, stages, at, pipes, held, procs>>

\* exit; the terminal's input has no end.
Exit == Typed /\ phase' = "gone" /\ UNCHANGED <<stages, at, cwd, status, pipes, held, procs>>
\* cd does not look whether the directory is there.
Cd == Typed /\ (\E t \in Targets : cwd' = ResolvePath(cwd, t)) /\ Answered(0)
\* kill: 2 for a usage error, 1 for a refusal.
BuiltinKill == Typed /\ (\E code \in {0, 1, 2} : Answered(code)) /\ UNCHANGED cwd

Run(line) ==
  LET parsed == [i \in DOMAIN line |-> ParseStage(line[i])]
  IN  /\ Typed /\ UNCHANGED cwd
      /\ IF \E i \in DOMAIN parsed : parsed[i].argv = <<>>
         THEN Answered(2)
         ELSE /\ phase' = "pipe" /\ stages' = parsed /\ at' = 1
              /\ pipes' = <<>> /\ held' = {} /\ procs' = <<>> /\ UNCHANGED status

\* One pipe between each adjacent pair of stages.
MakePipe ==
  /\ phase = "pipe"
  /\ IF at < Len(stages)
     THEN /\ pipes' = Append(pipes, NewPipe)
          /\ held' = held \cup {<<at, "r">>, <<at, "w">>}
          /\ at' = at + 1 /\ UNCHANGED phase
     ELSE phase' = "spawn" /\ at' = 1 /\ UNCHANGED <<pipes, held>>
  /\ UNCHANGED <<stages, cwd, status, procs, lines>>

\* A file takes the place of the pipe, which then has one end less.
StdinOf(i)  == IF stages[i].stdin = NoFile /\ i > 1 THEN i - 1 ELSE 0
StdoutOf(i) == IF stages[i].stdout = NoFile /\ i < Len(stages) THEN i ELSE 0
NotSpawned  == [prog |-> "none", in |-> 0, out |-> 0, st |-> "none", code |-> 127]
Given(ps, i, r, w) == IF i = 0 THEN ps ELSE [ps EXCEPT ![i] = AddEnds(@, r, w)]
Taken(ps, i, r, w) == IF i = 0 THEN ps ELSE [ps EXCEPT ![i] = CloseEnds(@, r, w)]

Spawn ==
  /\ phase = "spawn"
  /\ IF at > Len(stages)
     THEN phase' = "close" /\ at' = 1 /\ UNCHANGED <<pipes, procs>>
     ELSE LET prog == stages[at].argv[1] IN
          /\ IF ResolveCmd(prog) \in Installed
             THEN /\ procs' = Append(procs, [prog |-> prog, in |-> StdinOf(at), out |-> StdoutOf(at),
                                             st |-> "read", code |-> 0])
                  /\ pipes' = Given(Given(pipes, StdinOf(at), 1, 0), StdoutOf(at), 0, 1)
             ELSE procs' = Append(procs, NotSpawned) /\ UNCHANGED pipes
          /\ at' = at + 1 /\ UNCHANGED phase
  /\ UNCHANGED <<stages, cwd, status, held, lines>>

Close ==
  /\ phase = "close"
  /\ IF at < Len(stages)
     THEN /\ pipes' = Taken(pipes, at, 1, 1)
          /\ held' = held \ {<<at, "r">>, <<at, "w">>} /\ at' = at + 1 /\ UNCHANGED phase
     ELSE phase' = "wait" /\ at' = 1 /\ UNCHANGED <<pipes, held>>
  /\ UNCHANGED <<stages, cwd, status, procs, lines>>

\* A bug: the last stage to be spawned sets the status.
Wait_Spawned ==
  /\ phase = "wait"
  /\ procs[at].st \in {"dead", "none"}
  /\ procs' = [procs EXCEPT ![at].st = IF @ = "dead" THEN "reaped" ELSE @]
  /\ status' = IF procs[at].st = "dead" THEN procs[at].code ELSE status
  /\ IF at = Len(stages) THEN phase' = "prompt" /\ at' = 1 ELSE at' = at + 1 /\ UNCHANGED phase
  /\ UNCHANGED <<stages, cwd, pipes, held, lines>>
\* wait() for each stage; the status is the last one's.
Wait ==
  /\ phase = "wait"
  /\ procs[at].st \in {"dead", "none"}
  /\ procs' = [procs EXCEPT ![at].st = IF @ = "dead" THEN "reaped" ELSE @]
  /\ IF at = Len(stages)
     THEN phase' = "prompt" /\ at' = 1 /\ status' = procs[at].code
     ELSE at' = at + 1 /\ UNCHANGED <<phase, status>>
  /\ UNCHANGED <<stages, cwd, pipes, held, lines>>

ShellStep == MakePipe \/ Spawn \/ Close \/ Wait
----------------------------------------------------------------------------
\* The stages: `cat' copies its input, `head' copies one byte, `yes' writes until
\* nobody reads.  Writing to 0, a file or the terminal, never waits.  Reading from 0
\* ends at once in a file; the terminal's input never ends (close_stdin() has no
\* caller), and a byte of it is there only once the user has typed one.
Running(i) == i \in DOMAIN procs /\ procs[i].st \in {"read", "write"}
Ended(i, code) == [procs EXCEPT ![i].st = "dead", ![i].code = code]
EndsLeft(ps, i) == Taken(Taken(ps, procs[i].in, 1, 0), procs[i].out, 0, 1)
Elsewhere == UNCHANGED <<phase, stages, at, cwd, status, held, lines>>

AtTerminal(i) == /\ Running(i) /\ procs[i].st = "read" /\ procs[i].prog # "yes"
                 /\ i = 1 /\ stages[i].stdin = NoFile

Reads(i) ==
  LET in == procs[i].in IN
  /\ Running(i) /\ procs[i].st = "read"
  /\ \/ /\ procs[i].prog = "yes" /\ procs' = [procs EXCEPT ![i].st = "write"] /\ UNCHANGED pipes
     \/ /\ procs[i].prog # "yes" /\ in # 0 /\ pipes[in].buf # <<>>
        /\ pipes' = [pipes EXCEPT ![in] = Drain(@, 1)]
        /\ procs' = [procs EXCEPT ![i].st = "write"]
     \/ /\ procs[i].prog # "yes" /\ ~AtTerminal(i)
        /\ (in # 0 => pipes[in].buf = <<>> /\ ~WriteOpen(pipes[in]))
        /\ procs' = Ended(i, 0) /\ pipes' = EndsLeft(pipes, i)
  /\ Elsewhere

\* The user types, and the stage that waits for the terminal has a byte to copy.
TypesTo(i) == AtTerminal(i) /\ procs' = [procs EXCEPT ![i].st = "write"] /\ UNCHANGED pipes /\ Elsewhere

Writes(i) ==
  LET out == procs[i].out IN
  /\ Running(i) /\ procs[i].st = "write"
  /\ \/ /\ out # 0 /\ ~ReadOpen(pipes[out])
        /\ procs' = Ended(i, 1) /\ pipes' = EndsLeft(pipes, i)
     \/ /\ (out # 0 => ReadOpen(pipes[out]) /\ Space(pipes[out]) > 0)
        /\ LET sent == IF out = 0 THEN pipes ELSE [pipes EXCEPT ![out] = Fill(@, <<"y">>)]
           IN  IF procs[i].prog = "head"
               THEN procs' = Ended(i, 0) /\ pipes' = EndsLeft(sent, i)
               ELSE procs' = [procs EXCEPT ![i].st = "read"] /\ pipes' = sent
  /\ Elsewhere

\* Another program, or the monitor, kills a stage.
Killed(i) == Running(i) /\ procs' = Ended(i, 137) /\ pipes' = EndsLeft(pipes, i) /\ Elsewhere

ShellNext ==
  \/ Exit \/ Cd \/ BuiltinKill \/ (\E line \in Lines : Run(line))
  \/ MakePipe \/ Spawn \/ Close \/ Wait
  \/ (\E i \in DOMAIN procs : Reads(i) \/ TypesTo(i) \/ Writes(i) \/ Killed(i))

\* The shell and every stage that can go on get their turns, in lines of up to MaxStages;
\* nobody has to kill or type.
MaxStages == 3
ShellFairness == /\ WF_shellVars(ShellStep)
                 /\ \A i \in 1..MaxStages : WF_shellVars(Reads(i) \/ Writes(i))
----------------------------------------------------------------------------
\* At the prompt nothing of the last line is left: no end of a pipe anywhere, and
\* no process that runs or waits to be collected.
NothingLeft ==
  phase = "prompt" => /\ held = {} /\ \A i \in DOMAIN pipes : ~Exists(pipes[i])
                      /\ \A i \in DOMAIN procs : procs[i].st \in {"reaped", "none"}

\* $? is the last stage's code, whatever came of the others (main.rs:242).
StatusIsLast == phase = "wait" /\ phase' = "prompt" => status' = procs[Len(stages)].code

\* A line comes to its end although a stage may read, or fill, a pipe whose other
\* side was never started, ended early, or was killed; only one whose first stage
\* waits for the terminal, for ever or again and again, need not.
OnTheUser == \E i \in DOMAIN procs : AtTerminal(i)
LineEnds == <>[]~OnTheUser => ((phase = "pipe") ~> (phase = "prompt"))
=============================================================================
