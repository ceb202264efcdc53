------------------------------ MODULE Wasmobj ------------------------------
(***************************************************************************)
(* Documents as files (crates/wasmobj): a plain file holds its text, a     *)
(* .wasm document holds it in the data window of a small wasm program that *)
(* prints it, and an executable .wasm is somebody's program.  The length   *)
(* of the text is kept twice: in the window, where the program reads it,   *)
(* and in the wob0 header, where the editors do.  Characters stand for     *)
(* bytes; Tiers are the capacities, prefix included.                       *)
(***************************************************************************)
EXTENDS Naturals, Sequences, SequencesExt, FiniteSetsExt

CONSTANT Tiers

Prefix == 4
Pad    == " "
LF     == "LF"

Missing       == [kind |-> "missing"]
Plain(text)   == [kind |-> "plain", text |-> text]
Executable    == [kind |-> "executable"]
None          == [kind |-> "none"]        \* Option::None
Blank         == [kind |-> "blank"]       \* Some(vec![]): minted on first save

Filled(text, n) == text \o [i \in 1..(n - Len(text)) |-> Pad]

Fits(n)   == {t \in Tiers : t >= n}
ForLen(n) == Min(Fits(n))

Mint(tier) == [kind |-> "object", capacity |-> tier, header |-> 0,
               prefix |-> 0, window |-> Filled(<<>>, tier - Prefix)]

\* locate: the sections are in bounds and so is the length.
Verify(f) == f.kind = "object" /\ f.header + Prefix <= f.capacity

Read(f) == SubSeq(f.window, 1, f.header)
\* What the document prints when it is run.
Printed(f) == SubSeq(f.window, 1, f.prefix)

WriteInPlace(f, text) ==
  [f EXCEPT !.prefix = Len(text), !.header = Len(text),
            !.window = Filled(text, f.capacity - Prefix)]

Repack(text) == WriteInPlace(Mint(ForLen(Len(text) + Prefix)), text)

\* save: in place while it fits, else a larger object; None is Err(TooLarge).
Save(f, text) ==
  IF Len(text) + Prefix <= f.capacity THEN WriteInPlace(f, text)
  ELSE IF Fits(Len(text) + Prefix) # {} THEN Repack(text)
  ELSE None

\* load_editable; from_utf8_lossy of a program's bytes is text of no use.
Garbage == <<"?">>
LoadEditable(f, isWasm) ==
  CASE f.kind = "missing" -> [content |-> <<>>, object |-> IF isWasm THEN Blank ELSE None]
    [] f.kind = "plain"   -> [content |-> f.text, object |-> None]
    [] isWasm /\ Verify(f) -> [content |-> Read(f), object |-> f]
    [] OTHER -> [content |-> Garbage, object |-> None]

\* fs::write opens with O_TRUNC and then writes, in pieces: a failure leaves
\* the file as it was, or a beginning of what was to be written.
Cut(f) == IF f.kind = "plain" THEN {Plain(SubSeq(f.text, 1, n)) : n \in 0..(Len(f.text) - 1)}
          ELSE {Plain(<<>>)}
Outcomes(old, new) == {[ok |-> TRUE, file |-> new], [ok |-> FALSE, file |-> old]}
                        \cup {[ok |-> FALSE, file |-> f] : f \in Cut(new)}

\* save_editable: what may become of the object in memory and the file.
SaveEditable(file, object, text) ==
  IF object = None
  THEN {[ok |-> o.ok, file |-> o.file, object |-> None] : o \in Outcomes(file, Plain(text))}
  ELSE LET blank == Mint(IF Fits(Len(text) + Prefix) = {} THEN Max(Tiers)
                         ELSE ForLen(Len(text) + Prefix))
           base  == IF Verify(object) THEN object ELSE blank
           made  == Save(base, text)
       IN  IF made = None
           THEN {[ok |-> FALSE, file |-> file, object |-> base]}
           ELSE {[ok |-> o.ok, file |-> o.file, object |-> made] : o \in Outcomes(file, made)}

\* The text up to each character in lines, and the lines up to each one in a text.
Scanned(lines, c) == IF c = LF THEN Append(lines, <<>>)
                     ELSE [lines EXCEPT ![Len(lines)] = Append(@, c)]
Split(text) ==
  LET upTo[n \in 0..Len(text)] == IF n = 0 THEN <<<<>>>> ELSE Scanned(upTo[n - 1], text[n])
  IN  upTo[Len(text)]
Join(lines) ==
  LET upTo[n \in 1..Len(lines)] ==
        IF n = 1 THEN lines[1] ELSE upTo[n - 1] \o <<LF>> \o lines[n]
  IN  upTo[Len(lines)]
=============================================================================
