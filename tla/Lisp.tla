-------------------------------- MODULE Lisp --------------------------------
(***************************************************************************)
(* The Lisp application (crates/apps/lisp): its input line and history     *)
(* (main.rs), and the interpreter's reader and evaluator (interp.rs).      *)
(*                                                                         *)
(* What is typed at a key stroke is a phrase, a few tokens.  Values are    *)
(* numbers, booleans, symbols, proper lists and procedures; of the library *)
(* there are the procedures that call, print, build a list or fail, and an *)
(* error is any error.  A scope is a place in scopes; they are shared, and *)
(* none is ever taken back.                                                *)
(***************************************************************************)
EXTENDS Integers, SequencesExt

CONSTANTS
  Phrases,    \* what can be typed: sequences of tokens
  Numbers,    \* token -> the number it is
  MaxDepth,   \* MAX_DEPTH, 128 in the source
  MaxInput,   \* bounds: phrases on a line, lines evaluated
  MaxLines

VARIABLES
  input, cursor,   \* the line being typed
  past, histPos,   \* the lines entered, and the one recalled, 0 for none
  machine,         \* [scopes, depth, out, trapped]: Env, EVAL_DEPTH, OUTPUT, a panic
  outer            \* history: the names defined outside of calls

lispVars == <<input, cursor, past, histPos, machine, outer>>

Number(n) == [tag |-> "number", n |-> n]
Sym(name) == [tag |-> "symbol", name |-> name]
List(vs)  == [tag |-> "list", items |-> vs]
Truth(b)  == [tag |-> "boolean", b |-> b]
Builtin(name) == [tag |-> "builtin", name |-> name]
Lambda(params, rest, body, env) ==
  [tag |-> "lambda", params |-> params, rest |-> rest, body |-> body, env |-> env]
Unspecified == [tag |-> "unspecified"]
Nil         == List(<<>>)
IsList(v)   == v.tag = "list"
IsSym(v)    == v.tag = "symbol"
Truthy(v)   == v # Truth(FALSE)
----------------------------------------------------------------------------
(***************************************************************************)
(* The reader.                                                             *)
(***************************************************************************)
Got(v, pos) == [ok |-> TRUE, v |-> v, pos |-> pos]
Bad         == [ok |-> FALSE]

Atom(t) == CASE t = "#t" -> Truth(TRUE) [] t = "#f" -> Truth(FALSE)
             [] t \in DOMAIN Numbers -> Number(Numbers[t]) [] OTHER -> Sym(t)

RECURSIVE ParseForm(_, _, _), ParseItems(_, _, _, _), ParseAll(_, _, _)
ParseForm(toks, pos, depth) ==
  IF depth > MaxDepth \/ pos > Len(toks) THEN Bad
  ELSE CASE toks[pos] = "(" -> ParseItems(toks, pos + 1, depth, <<>>)
         [] toks[pos] = ")" -> Bad
         [] toks[pos] = "'" ->
              LET quoted == ParseForm(toks, pos + 1, depth + 1)
              IN  IF quoted.ok THEN Got(List(<<Sym("quote"), quoted.v>>), quoted.pos) ELSE Bad
         [] OTHER -> Got(Atom(toks[pos]), pos + 1)
ParseItems(toks, pos, depth, items) ==
  IF pos > Len(toks) THEN Bad
  ELSE IF toks[pos] = ")" THEN Got(List(items), pos + 1)
  ELSE LET item == ParseForm(toks, pos, depth + 1)
       IN  IF item.ok THEN ParseItems(toks, item.pos, depth, Append(items, item.v)) ELSE Bad
ParseAll(toks, pos, forms) ==
  IF pos > Len(toks) THEN Got(forms, pos)
  ELSE LET form == ParseForm(toks, pos, 0)
       IN  IF form.ok THEN ParseAll(toks, form.pos, Append(forms, form.v)) ELSE Bad
Parse(toks) == ParseAll(toks, 1, <<>>)
----------------------------------------------------------------------------
(***************************************************************************)
(* The evaluator: m is the machine before, the answer's m the one after.   *)
(***************************************************************************)
Ok(v, m) == [ok |-> TRUE, v |-> v, m |-> m]
Err(m)   == [ok |-> FALSE, v |-> Unspecified, m |-> m]

Global == 1
Top(m)           == Len(m.scopes)
ChildEnv(env, m) == [m EXCEPT !.scopes = Append(@, [vars |-> <<>>, parent |-> env])]
Bind(name, v, env, m) == [m EXCEPT !.scopes[env].vars = (name :> v) @@ @]

\* The nearest scope outwards that has the name; 0 if none has.
RECURSIVE Holder(_, _, _)
Holder(name, env, m) ==
  IF env = 0 \/ name \in DOMAIN m.scopes[env].vars THEN env
  ELSE Holder(name, m.scopes[env].parent, m)

MakeLambda(params, body, env, m) ==
  IF \A i \in DOMAIN params : IsSym(params[i])
  THEN Ok(Lambda([i \in DOMAIN params |-> params[i].name], "", body, env), m) ELSE Err(m)
EvalLambda(args, env, m) ==
  CASE args = <<>>     -> Err(m)
    [] IsSym(args[1])  -> Ok(Lambda(<<>>, args[1].name, Tail(args), env), m)
    [] IsList(args[1]) -> MakeLambda(args[1].items, Tail(args), env, m)
    [] OTHER -> Err(m)

Define(name, answer, env) ==
  IF answer.ok THEN Ok(Unspecified, Bind(name, answer.v, env, answer.m)) ELSE answer

RECURSIVE Eval(_, _, _), Form(_, _, _), Special(_, _, _, _), Body(_, _, _, _), EvalAll(_, _, _, _),
          Apply(_, _, _), Cond(_, _, _), AndOr(_, _, _, _), Let(_, _, _, _, _)

\* A bug: an error leaves the count where it is.
Eval_Stuck(e, env, m) ==
  IF m.depth >= MaxDepth THEN Err(m)
  ELSE LET answer == Form(e, env, [m EXCEPT !.depth = @ + 1])
       IN  IF answer.ok THEN [answer EXCEPT !.m.depth = @ - 1] ELSE answer
\* The guard counts down on every way out.
Eval(e, env, m) ==
  IF m.depth >= MaxDepth THEN Err(m)
  ELSE LET answer == Form(e, env, [m EXCEPT !.depth = @ + 1])
       IN  [answer EXCEPT !.m.depth = @ - 1]

Specials == {"quote", "if", "define", "set!", "lambda", "let", "let*", "begin", "cond", "and", "or"}
Form(e, env, m) ==
  CASE IsSym(e) -> LET at == Holder(e.name, env, m)
                   IN  IF at = 0 THEN Err(m) ELSE Ok(m.scopes[at].vars[e.name], m)
    [] IsList(e) /\ e # Nil ->
         IF IsSym(e.items[1]) /\ e.items[1].name \in Specials
         THEN Special(e.items[1].name, Tail(e.items), env, m)
         ELSE LET all == EvalAll(e.items, env, m, <<>>)
              IN  IF all.ok THEN Apply(Head(all.v), Tail(all.v), all.m) ELSE all
    [] OTHER -> Ok(e, m)

\* From left to right.
EvalAll(es, env, m, vs) ==
  IF es = <<>> THEN Ok(vs, m)
  ELSE LET first == Eval(Head(es), env, m)
       IN  IF first.ok THEN EvalAll(Tail(es), env, first.m, Append(vs, first.v)) ELSE first
Body(es, env, m, last) ==
  IF es = <<>> THEN Ok(last, m)
  ELSE LET first == Eval(Head(es), env, m)
       IN  IF first.ok THEN Body(Tail(es), env, first.m, first.v) ELSE first

Special(name, args, env, m) ==
  CASE name = "quote"  -> Ok(IF args = <<>> THEN Nil ELSE args[1], m)
    [] name = "lambda" -> EvalLambda(args, env, m)
    [] name = "begin"  -> Body(args, env, m, Unspecified)
    [] name = "and"    -> AndOr(args, env, m, TRUE)
    [] name = "or"     -> AndOr(args, env, m, FALSE)
    [] name = "cond"   -> Cond(args, env, m)
    [] args = <<>>     -> Err(m)
    [] name = "if" ->
         LET test == Eval(args[1], env, m)
             i    == IF Truthy(test.v) THEN 2 ELSE 3
         IN  IF ~test.ok THEN test
             ELSE IF i \in DOMAIN args THEN Eval(args[i], env, test.m)
             ELSE IF i = 3 THEN Ok(Unspecified, test.m) ELSE Err(test.m)
    [] name = "define" ->
         IF IsSym(args[1])
         THEN Define(args[1].name,
                     IF Len(args) > 1 THEN Eval(args[2], env, m) ELSE Ok(Unspecified, m), env)
         ELSE IF IsList(args[1]) /\ args[1] # Nil /\ IsSym(args[1].items[1])
         THEN Define(args[1].items[1].name,
                     MakeLambda(Tail(args[1].items), Tail(args), env, m), env)
         ELSE Err(m)
    [] name = "set!" ->
         IF ~IsSym(args[1]) \/ Len(args) = 1 THEN Err(m)
         ELSE LET v  == Eval(args[2], env, m)
                  at == Holder(args[1].name, env, v.m)
              IN  IF ~v.ok THEN v ELSE IF at = 0 THEN Err(v.m)
                  ELSE Ok(Unspecified, Bind(args[1].name, v.v, at, v.m))
    [] OTHER ->
         IF ~IsList(args[1]) THEN Err(m)
         ELSE LET inner == ChildEnv(env, m)
                  bound == Let(args[1].items, name = "let*", env, Top(inner), inner)
              IN  IF bound.ok THEN Body(Tail(args), Top(inner), bound.m, Unspecified) ELSE bound

\* let evaluates in the scope around, let* in the one that is growing.
Let(bindings, sequential, env, local, m) ==
  IF bindings = <<>> THEN Ok(Unspecified, m)
  ELSE LET b == Head(bindings)
       IN  IF ~IsList(b) \/ b = Nil THEN Err(m) ELSE IF ~IsSym(b.items[1]) THEN Err(m)
           ELSE LET v == IF Len(b.items) = 1 THEN Ok(Unspecified, m)
                         ELSE Eval(b.items[2], IF sequential THEN local ELSE env, m)
                IN  IF v.ok THEN Let(Tail(bindings), sequential, env, local,
                                     Bind(b.items[1].name, v.v, local, v.m))
                            ELSE v

AndOr(args, env, m, conj) ==
  IF args = <<>> THEN Ok(Truth(conj), m)
  ELSE LET first == Eval(Head(args), env, m)
       IN  IF ~first.ok THEN first
           ELSE IF Truthy(first.v) # conj THEN Ok(IF conj THEN Truth(FALSE) ELSE first.v, first.m)
           ELSE IF conj /\ Len(args) = 1 THEN first
           ELSE AndOr(Tail(args), env, first.m, conj)

\* A test that holds is evaluated again for its value.
Cond(clauses, env, m) ==
  IF clauses = <<>> THEN Ok(Unspecified, m)
  ELSE IF ~IsList(Head(clauses)) \/ Head(clauses) = Nil THEN Err(m)
  ELSE LET parts == Head(clauses).items
           else  == parts[1] = Sym("else")
           test  == IF else THEN Ok(Truth(TRUE), m) ELSE Eval(parts[1], env, m)
           again == IF else THEN Ok(Unspecified, m) ELSE Eval(parts[1], env, test.m)
       IN  IF ~test.ok THEN test ELSE IF ~Truthy(test.v) THEN Cond(Tail(clauses), env, test.m)
           ELSE IF again.ok THEN Body(Tail(parts), env, again.m, again.v) ELSE again

\* A procedure's parameters are a new scope under the one it was made in.
Apply(proc, args, m) ==
  CASE proc.tag = "lambda" ->
         LET n     == Len(proc.params)
             local == Len(m.scopes) + 1
             named == [i \in 1..n |-> [name |-> proc.params[i], v |-> args[i]]]
             extra == IF proc.rest = "" THEN <<>>
                      ELSE <<[name |-> proc.rest, v |-> List(SubSeq(args, n + 1, Len(args)))]>>
         IN  IF Len(args) < n \/ (proc.rest = "" /\ Len(args) > n) THEN Err(m)
             ELSE Body(proc.body, local,
                       FoldLeft(LAMBDA k, p : Bind(p.name, p.v, local, k),
                                ChildEnv(proc.env, m), named \o extra), Unspecified)
    [] proc = Builtin("list")    -> Ok(List(args), m)
    [] proc = Builtin("car")     -> IF args # <<>> /\ IsList(args[1]) /\ args[1] # Nil
                                    THEN Ok(args[1].items[1], m) ELSE Err(m)
    [] proc = Builtin("display") ->
         Ok(Unspecified, IF args = <<>> THEN m ELSE [m EXCEPT !.out = Append(@, args[1])])
    [] proc = Builtin("apply")   ->
         IF args = <<>> \/ ~IsList(Last(args)) THEN Err(m)
         ELSE IF Len(args) = 1 THEN Err([m EXCEPT !.trapped = TRUE])   \* a[1..0]
         ELSE Apply(args[1], SubSeq(args, 2, Len(args) - 1) \o Last(args).items, m)
    [] OTHER -> Err(m)
----------------------------------------------------------------------------
(***************************************************************************)
(* The console.                                                            *)
(***************************************************************************)
Library == [name \in {"list", "car", "display", "apply"} |-> Builtin(name)]
LispInit ==
  /\ input = <<>> /\ cursor = 0 /\ past = <<>> /\ histPos = 0
  /\ machine = [scopes |-> <<[vars |-> Library, parent |-> 0]>>, depth |-> 0, out |-> <<>>,
                trapped |-> FALSE]
  /\ outer = {}

\* A line that does not read changes nothing.  One that fails keeps what it has
\* done so far, and what it has displayed stays for the next one that does not.
Run(toks) ==
  LET forms == Parse(toks)
  IN  IF forms.ok THEN Body(forms.v, Global, machine, Unspecified) ELSE Err(machine)
TakeOutput(m) == [m EXCEPT !.out = <<>>]

\* History: the names a form defines where it stands, not in a scope of its own.
RECURSIVE DefinedBy(_)
DefinedIn(es) == UNION {DefinedBy(e) : e \in Range(es)}
DefinedBy(e) ==
  IF ~IsList(e) \/ e = Nil THEN {}
  ELSE LET head == e.items[1]
           args == Tail(e.items)
           name == IF args = <<>> THEN Nil ELSE args[1]
       IN  CASE head \in {Sym("quote"), Sym("lambda"), Sym("let*")} -> {}
             [] head = Sym("define") /\ IsSym(name)  -> {name.name} \cup DefinedIn(Tail(args))
             [] head = Sym("define") /\ ~IsSym(name) ->
                  {x.name : x \in {y \in Range(SubSeq(name.items, 1, 1)) : IsSym(y)}}
             [] OTHER -> DefinedIn(e.items)
Definitions(toks) == LET forms == Parse(toks) IN IF forms.ok THEN DefinedIn(forms.v) ELSE {}

\* A panic ends the program.
Running == Len(past) < MaxLines /\ ~machine.trapped
Submit ==
  /\ Running
  /\ input' = <<>> /\ cursor' = 0 /\ histPos' = 0
  /\ IF input = <<>> THEN UNCHANGED <<past, machine, outer>>
     ELSE LET answer == Run(FlattenSeq(input))
              m      == answer.m
          IN  /\ past' = Append(past, input)
              /\ machine' = IF answer.ok THEN TakeOutput(m) ELSE m
              /\ outer' = outer \cup Definitions(FlattenSeq(input))

Typing == Running /\ UNCHANGED <<past, machine, outer>>
Insert(p) == /\ Typing /\ Len(input) < MaxInput
             /\ input' = InsertAt(input, cursor + 1, p) /\ cursor' = cursor + 1 /\ histPos' = 0
Backspace == /\ Typing /\ cursor > 0
             /\ input' = RemoveAt(input, cursor) /\ cursor' = cursor - 1 /\ UNCHANGED histPos
Delete    == /\ Typing /\ cursor < Len(input)
             /\ input' = RemoveAt(input, cursor + 1) /\ UNCHANGED <<cursor, histPos>>
MoveTo(c) == Typing /\ cursor' = c /\ UNCHANGED <<input, histPos>>
Left  == cursor > 0 /\ MoveTo(cursor - 1)
Right == cursor < Len(input) /\ MoveTo(cursor + 1)
Home  == MoveTo(0)
End   == MoveTo(Len(input))

Recalled(i) == /\ histPos' = i /\ input' = (IF i = 0 THEN <<>> ELSE past[i])
               /\ cursor' = Len(input')
\* Upwards from the newest; downwards beyond it is a blank line.
RecallHistory(back) ==
  /\ Typing /\ past # <<>>
  /\ IF back THEN Recalled(IF histPos = 0 THEN Len(past) ELSE Max({histPos - 1, 1}))
     ELSE histPos # 0 /\ Recalled(IF histPos = Len(past) THEN 0 ELSE histPos + 1)

LispNext == Submit \/ (\E p \in Phrases : Insert(p)) \/ Backspace \/ Delete \/ Left \/ Right
            \/ Home \/ End \/ RecallHistory(TRUE) \/ RecallHistory(FALSE)
----------------------------------------------------------------------------
\* No line, failed or not, leaves the evaluator deeper than it was.
DepthUnwinds == machine.depth = 0

\* A name is bound globally only by a definition that stands outside of every call.
LocalsStayLocal == DOMAIN machine.scopes[Global].vars \subseteq DOMAIN Library \cup outer

\* A line without quotes reads if its parentheses match, not too deep; written down
\* again, what was read is the line.
RECURSIVE Written(_)
AllWritten(es) == FlattenSeq([i \in DOMAIN es |-> Written(es[i])])
Written(e)     == IF IsList(e) THEN <<"(">> \o AllWritten(e.items) \o <<")">> ELSE <<e>>
Tokens(toks)   == [i \in DOMAIN toks |-> IF toks[i] \in {"(", ")"} THEN toks[i] ELSE Atom(toks[i])]
Count(t, toks, i) == Cardinality({j \in 1..i : toks[j] = t})
Depth(toks, i)    == Count("(", toks, i) - Count(")", toks, i)
Proper(toks) ==
  /\ \A i \in DOMAIN toks :
       Depth(toks, i) >= 0 /\ (toks[i] # ")" => Depth(toks, i - 1) <= MaxDepth)
  /\ Depth(toks, Len(toks)) = 0
ReadsBack ==
  LET toks  == FlattenSeq(input)
      forms == Parse(toks)
  IN  "'" \notin Range(toks) =>
        /\ forms.ok <=> Proper(toks)
        /\ forms.ok => AllWritten(forms.v) = Tokens(toks)

LinesApart == DepthUnwinds /\ LocalsStayLocal /\ ReadsBack

\* The input line is a text and a place in it, but for what recalls a line or a blank.
Line == INSTANCE TextBuffer WITH
  Chars <- Phrases, LineBreak <- <<>>, Page <- 0, text <- input, at <- cursor
EditsText ==
  \/ input' \in Range(past) \cup {<<>>} /\ cursor' = Len(input')
  \/ Line!EditStep
=============================================================================
