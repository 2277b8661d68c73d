---------------------------- MODULE Expressions ----------------------------
(***************************************************************************)
(* An expression of a workflow is read twice. The editor                   *)
(* (workflow-core/src/expression/parser.ts) parses it with jsep, each      *)
(* placeholder an identifier, and infers a type. The engine                *)
(* (go/engine/expr) writes the value of each placeholder into the text and *)
(* evaluates that by recursive descent. This module has both readings of   *)
(* expressions that are not of type string, which are templates, and a     *)
(* reference: the value that the inferred types promise.                   *)
(*                                                                         *)
(* A float is a fraction n/d, without the rounding of IEEE 754; an int has *)
(* no width. A string is its rank in the order: 0 is empty, 1 the text of  *)
(* any number, more are other texts. A tree is what the user means; Text   *)
(* is what the user types and the engine reads, as a sequence of tokens.   *)
(* A literal is the value that its spelling has in JavaScript together     *)
(* with the tokens that the engine makes of that spelling.                 *)
(***************************************************************************)
EXTENDS Integers, Sequences

CONSTANT Families   \* the expressions considered: a sequence of sets of trees

VARIABLES
  tree,     \* the expression
  target,   \* the type that its place in the workflow asks for
  result    \* what the engine made of it

vars == <<tree, target, result>>

\* Values, as in go/engine/expr/value.go.
Int64(n) == [type |-> "int", n |-> n, d |-> 1]
Float(n, d) == [type |-> "float", n |-> n, d |-> d]
Bool(b) == [type |-> "bool", n |-> IF b THEN 1 ELSE 0, d |-> 1]
Str(rank) == [type |-> "string", n |-> rank, d |-> 1]
Frame == [type |-> "image", n |-> 0, d |-> 1]
Failure == [type |-> "error", n |-> 0, d |-> 1]

Numeric == {"int", "float"}

Abs(n) == IF n < 0 THEN -n ELSE n

\* Division of integers truncates towards zero, in Go and in C.
Quo(a, b) ==
  LET q == Abs(a) \div Abs(b) IN IF (a < 0) = (b < 0) THEN q ELSE -q

\* A text is read as the number zero: no text of the model is a number.
AsFloat(v) == IF v.type \in Numeric \cup {"bool"} THEN Float(v.n, v.d) ELSE Float(0, 1)
AsInt(v) == LET f == AsFloat(v) IN Quo(f.n, f.d)
AsBool(v) == v.n # 0
Rank(v) == IF v.type = "string" THEN v.n ELSE IF v.type = "image" THEN 0 ELSE 1

Cast(v, to) ==
  IF v.type \in {"error", to} THEN v
  ELSE CASE to = "int" -> Int64(AsInt(v))
         [] to = "float" -> AsFloat(v)
         [] to = "bool" -> Bool(AsBool(v))
         [] to = "string" -> Str(Rank(v))
         [] OTHER -> v

Less(v, w) ==
  IF "string" \in {v.type, w.type} THEN Rank(v) < Rank(w)
  ELSE AsFloat(v).n * AsFloat(w).d < AsFloat(w).n * AsFloat(v).d

SameValue(v, w) == v.type = w.type /\ ~Less(v, w) /\ ~Less(w, v)

-----------------------------------------------------------------------------
(* What is typed *)

Token(s) == [s |-> s, v |-> Failure]
LitToken(v) == [s |-> "lit", v |-> v]

Spelled(v, text) == [k |-> "lit", v |-> v, text |-> text]
Lit(v) == Spelled(v, <<LitToken(v)>>)
Ref(v) == [k |-> "ref", v |-> v]
Un(op, a) == [k |-> "un", op |-> op, a |-> a]
Bin(op, a, b) == [k |-> "bin", op |-> op, a |-> a, b |-> b]
CastTo(to, a) == [k |-> "cast", op |-> to, a |-> a]
If(c, a, b) == [k |-> "if", c |-> c, a |-> a, b |-> b]

\* jsep's binary precedence.
Precedence(op) ==
  CASE op = "||" -> 1 [] op = "&&" -> 2 [] op = "&" -> 5
    [] op \in {"==", "!="} -> 6
    [] op \in {"<", ">", "<=", ">="} -> 7
    [] op \in {"+", "-"} -> 9
    [] op \in {"*", "/", "%"} -> 10

Binding(t) ==
  CASE t.k = "bin" -> Precedence(t.op) [] t.k = "if" -> 0 [] t.k = "un" -> 11 [] OTHER -> 12

\* A reference, or casts of nothing but a reference.
RECURSIVE IsPlaceholder(_)
IsPlaceholder(t) == t.k = "ref" \/ (t.k = "cast" /\ IsPlaceholder(t.a))

RECURSIVE Resolved(_)
Resolved(t) == IF t.k = "ref" THEN t.v ELSE Cast(Resolved(t.a), t.op)

\* A number without a fraction, written without a point, is read as an int.
WithoutPoint(v) == IF v.type \in Numeric /\ v.n % v.d = 0 THEN Int64(v.n \div v.d) ELSE v

\* valueToLiteral: strconv writes the point only before a fraction.
ValueToLiteral(v) ==
  LET w == WithoutPoint(v)
  IN  IF w.type \in Numeric /\ w.n < 0
      THEN <<Token("-"), LitToken([w EXCEPT !.n = -@])>>
      ELSE <<LitToken(w)>>

\* The text of a tree with the parentheses it needs. The values of placeholders
\* are in it, and a cast that the engine can carry out has gone.
RECURSIVE Text(_)
Text(t) ==
  LET In(a, min) ==
        IF Binding(a) >= min THEN Text(a) ELSE <<Token("(")>> \o Text(a) \o <<Token(")")>>
  IN  CASE IsPlaceholder(t) -> ValueToLiteral(Resolved(t))
        [] t.k = "lit" -> t.text
        [] t.k = "un" -> <<Token(t.op)>> \o In(t.a, 11)
        [] t.k = "bin" ->
             In(t.a, Precedence(t.op)) \o <<Token(t.op)>> \o In(t.b, Precedence(t.op) + 1)
        [] t.k = "cast" -> <<Token(t.op), Token("(")>> \o Text(t.a) \o <<Token(")")>>
        [] t.k = "if" ->
             In(t.c, 1) \o <<Token("?")>> \o Text(t.a) \o <<Token(":")>> \o Text(t.b)

-----------------------------------------------------------------------------
(* The engine: go/engine/expr/parser.go *)

\* The operators of each loop, parseOr first, parseMulDiv last.
Loops == <<{"||"}, {"&&"}, {"==", "!="}, {"<=", ">=", "<", ">"}, {"+", "-"}, {"*", "/", "%"}>>

Compare(op, v, w) ==
  CASE op = "==" -> ~Less(v, w) /\ ~Less(w, v)
    [] op = "!=" -> Less(v, w) \/ Less(w, v)
    [] op = "<" -> Less(v, w)
    [] op = ">" -> Less(w, v)
    [] op = "<=" -> ~Less(w, v)
    [] op = ">=" -> ~Less(v, w)

Fractions(op, v, w) ==
  CASE op = "+" -> Float(v.n * w.d + w.n * v.d, v.d * w.d)
    [] op = "-" -> Float(v.n * w.d - w.n * v.d, v.d * w.d)
    [] op = "*" -> Float(v.n * w.n, v.d * w.d)
    [] op = "/" -> IF w.n > 0 THEN Float(v.n * w.d, v.d * w.n)
                   ELSE IF w.n < 0 THEN Float((-v.n) * w.d, v.d * (-w.n)) ELSE Failure

Integers64(op, m, n) ==
  CASE op = "+" -> Int64(m + n)
    [] op = "-" -> Int64(m - n)
    [] op = "*" -> Int64(m * n)
    [] op = "/" -> IF n = 0 THEN Failure ELSE Int64(Quo(m, n))
    [] op = "%" -> IF n = 0 THEN Failure ELSE Int64(m - n * Quo(m, n))

\* Both operands have been evaluated, also those of && and ||.
Apply(op, v, w) ==
  CASE op = "||" -> Bool(AsBool(v) \/ AsBool(w))
    [] op = "&&" -> Bool(AsBool(v) /\ AsBool(w))
    [] op \in {"==", "!=", "<", ">", "<=", ">="} -> Bool(Compare(op, v, w))
    [] op # "%" /\ "float" \in {v.type, w.type} -> Fractions(op, AsFloat(v), AsFloat(w))
    [] OTHER -> Integers64(op, AsInt(v), AsInt(w))

Negated(v) == IF v.type = "float" THEN Float(-v.n, v.d) ELSE Int64(-AsInt(v))

At(ts, i) == IF i \in DOMAIN ts THEN ts[i].s ELSE "end"

RECURSIVE Parse(_, _, _), More(_, _, _, _)

\* Mutant of More: operators of one loop associate to the right.
MoreFromTheRight(level, left, ts, i) ==
  IF left = Failure \/ At(ts, i) \notin Loops[level]
  THEN [v |-> left, at |-> i]
  ELSE LET right == Parse(level, ts, i + 1)
       IN  IF right.v = Failure THEN right
           ELSE [v |-> Apply(At(ts, i), left, right.v), at |-> right.at]

\* The loop of a level, its left operand evaluated.
More(level, left, ts, i) ==
  IF left = Failure \/ At(ts, i) \notin Loops[level]
  THEN [v |-> left, at |-> i]
  ELSE LET right == Parse(level + 1, ts, i + 1)
       IN  IF right.v = Failure THEN right
           ELSE More(level, Apply(At(ts, i), left, right.v), ts, right.at)

\* A level starts with an operand of the next one. After the loops come
\* parseUnary and parseAtom: a closing parenthesis may be missing, and what is
\* no literal is an error, unknown operators and the names of casts included.
Parse(level, ts, i) ==
  IF level \in DOMAIN Loops
  THEN LET left == Parse(level + 1, ts, i) IN More(level, left.v, ts, left.at)
  ELSE CASE At(ts, i) \in {"!", "-"} ->
              LET a == Parse(level, ts, i + 1)
              IN  IF a.v = Failure THEN a
                  ELSE [a EXCEPT !.v = IF At(ts, i) = "!" THEN Bool(~AsBool(@)) ELSE Negated(@)]
         [] At(ts, i) = "(" ->
              LET a == Parse(1, ts, i + 1)
              IN  IF At(ts, a.at) = ")" THEN [a EXCEPT !.at = @ + 1] ELSE a
         [] At(ts, i) = "lit" -> [v |-> ts[i].v, at |-> i + 1]
         [] At(ts, i) = "+" /\ At(ts, i + 1) = "lit" -> [v |-> ts[i + 1].v, at |-> i + 2]
         [] OTHER -> [v |-> Failure, at |-> i]

RECURSIVE Leaves(_)
Leaves(t) ==
  CASE t.k \in {"lit", "ref"} -> {t}
    [] t.k \in {"un", "cast"} -> Leaves(t.a)
    [] t.k = "bin" -> Leaves(t.a) \cup Leaves(t.b)
    [] t.k = "if" -> Leaves(t.c) \cup Leaves(t.a) \cup Leaves(t.b)

\* Mutant of Eval: the value keeps the type it was computed with.
EvalUncast(t, to) ==
  IF Ref(Frame) \in Leaves(t) THEN Failure
  ELSE IF IsPlaceholder(t) THEN Resolved(t)
  ELSE Parse(1, Text(t), 1).v

\* Eval for a target that is no string: a lone reference is never text, and
\* what parseOr leaves of the text is not looked at.
Eval(t, to) ==
  IF Ref(Frame) \in Leaves(t) THEN Failure
  ELSE IF IsPlaceholder(t) THEN Cast(Resolved(t), to)
  ELSE Cast(Parse(1, Text(t), 1).v, to)

-----------------------------------------------------------------------------
(* The editor: inferType and its helpers; "none" when errors were pushed *)

BinaryType(op, l, r) ==
  CASE "none" \in {l, r} -> "none"
    [] op = "+" /\ "string" \in {l, r} -> IF "image" \in {l, r} THEN "none" ELSE "string"
    [] op \in {"+", "-", "*", "/"} ->
         IF ~{l, r} \subseteq Numeric THEN "none" ELSE IF "float" \in {l, r} THEN "float" ELSE "int"
    [] op \in {"%", "&"} -> IF {l, r} = {"int"} THEN "int" ELSE "none"
    [] op \in {"<", ">", "<=", ">="} -> IF {l, r} \subseteq Numeric THEN "bool" ELSE "none"
    [] op \in {"==", "!="} -> IF l = r \/ {l, r} \subseteq Numeric THEN "bool" ELSE "none"
    [] op \in {"&&", "||"} -> IF {l, r} = {"bool"} THEN "bool" ELSE "none"

UnaryType(op, a) ==
  CASE op = "!" -> IF a = "bool" THEN "bool" ELSE "none"
    [] op \in {"-", "+"} -> IF a \in Numeric THEN a ELSE "none"

\* A number of JavaScript remembers no point: 2.0 is an integer.
InferLiteralType(v) == WithoutPoint(v).type

RECURSIVE InferType(_)
InferType(t) ==
  CASE t.k = "ref" -> t.v.type
    [] t.k = "lit" -> InferLiteralType(t.v)
    [] t.k = "un" -> UnaryType(t.op, InferType(t.a))
    [] t.k = "bin" -> BinaryType(t.op, InferType(t.a), InferType(t.b))
    [] t.k = "cast" -> IF InferType(t.a) = "none" THEN "none" ELSE t.op
    [] t.k = "if" ->
         LET a == InferType(t.a) b == InferType(t.b)
         IN  CASE InferType(t.c) # "bool" \/ "none" \in {a, b} -> "none"
               [] a = b -> a
               [] {a, b} \subseteq Numeric -> "float"
               [] OTHER -> "none"

Compatible(from, to) == from = to \/ {from, to} \subseteq Numeric

Accepted(t, to) == InferType(t) # "none" /\ Compatible(InferType(t), to)

-----------------------------------------------------------------------------
(* The value that the types promise, computed on the tree. *)

RECURSIVE Meaning(_)
Meaning(t) ==
  CASE t.k = "ref" -> t.v
    [] t.k = "lit" -> WithoutPoint(t.v)
    [] t.k = "cast" -> Cast(Meaning(t.a), t.op)
    [] t.k = "un" ->
         LET a == Meaning(t.a)
         IN  IF a = Failure THEN a ELSE IF t.op = "!" THEN Bool(a.n = 0) ELSE [a EXCEPT !.n = -@]
    [] t.k = "bin" ->
         LET l == Meaning(t.a)
             r == Meaning(t.b)
             both == Float(l.n * r.d, r.n * l.d)
         IN  CASE Failure \in {l, r} -> Failure
               [] t.op = "||" -> Bool(l.n + r.n > 0)
               [] t.op = "&&" -> Bool(l.n * r.n > 0)
               [] t.op = "==" -> Bool(both.n = both.d)
               [] t.op = "!=" -> Bool(both.n # both.d)
               [] t.op = "<" -> Bool(both.n < both.d)
               [] t.op = ">" -> Bool(both.n > both.d)
               [] t.op = "<=" -> Bool(both.n <= both.d)
               [] t.op = ">=" -> Bool(both.n >= both.d)
               [] InferType(t) = "int" -> Integers64(t.op, l.n, r.n)
               [] OTHER -> Fractions(t.op, l, r)

Subtrees(t) ==
  LET RECURSIVE Sub(_)
      Sub(s) ==
        {s} \cup CASE s.k \in {"lit", "ref"} -> {}
                   [] s.k \in {"un", "cast"} -> Sub(s.a)
                   [] s.k = "bin" -> Sub(s.a) \cup Sub(s.b)
                   [] s.k = "if" -> Sub(s.c) \cup Sub(s.a) \cup Sub(s.b)
  IN  Sub(t)

\* The type with which the engine computes: that of what stands in the text.
RECURSIVE ComputedType(_)
ComputedType(t) ==
  CASE IsPlaceholder(t) -> WithoutPoint(Resolved(t)).type
    [] t.k = "lit" -> t.v.type
    [] t.k = "un" -> IF t.op = "!" THEN "bool" ELSE ComputedType(t.a)
    [] t.k = "bin" /\ t.op \in {"+", "-", "*", "/"} ->
         IF "float" \in {ComputedType(t.a), ComputedType(t.b)} THEN "float" ELSE "int"
    [] OTHER -> InferType(t)

\* A division typed float truncates, because both sides are ints in the text; or
\* one typed int does not, because of a literal such as 2.0.
DividesOtherwise(t) ==
  \E s \in Subtrees(t) : s.k = "bin" /\ s.op = "/" /\ ComputedType(s) # InferType(s)

\* What the editor accepts and the engine does not evaluate.
Unsupported(t) ==
  \E s \in Subtrees(t) :
    \/ s.k = "lit" /\ s.text # <<LitToken(s.v)>>
    \/ s.k = "if"
    \/ s.k \in {"un", "bin"} /\ s.op = "&"
    \/ s.k = "un" /\ s.op = "+"
    \/ s.k = "bin" /\ s.op = "+" /\ InferType(s) = "string"
    \/ s.k = "cast" /\ ~IsPlaceholder(s)
    \/ s = Ref(Frame)

-----------------------------------------------------------------------------
(* One evaluation *)

NotYet == [type |-> "pending", n |-> 0, d |-> 1]

\* A node's argument, or a declared output, that the diagnostics let pass.
Init ==
  /\ \E i \in DOMAIN Families : tree \in Families[i]
  /\ target \in Numeric \cup {"bool"}
  /\ Accepted(tree, target)
  /\ result = NotYet

Evaluate ==
  /\ result = NotYet
  /\ result' = Eval(tree, target)
  /\ UNCHANGED <<tree, target>>

Evaluated == result # NotYet /\ UNCHANGED vars

Next == Evaluate \/ Evaluated

Spec == Init /\ [][Next]_vars

\* An evaluation ends in a value of the type that was asked for, or in an error.
TypeOK == Accepted(tree, target) /\ result.type \in {"pending", "error", target}

\* What the editor accepts the engine evaluates, to the value that the inferred
\* types promise, or to an error where that divides by zero: precedences and
\* associativity of jsep and of the nested loops of parser.go agree, negative
\* values in the text do not change how it is read, and no value of another type
\* comes out (parser.ts:22 against parser.go:17). A number that the one takes for
\* an int and the other for a float does no harm outside a division. Left out are
\* such divisions, and the operations and spellings that the engine does not know.
EngineEvaluatesWhatEditorAccepts ==
  result # NotYet /\ ~Unsupported(tree) /\ ~DividesOtherwise(tree) =>
    SameValue(result, Cast(Meaning(tree), target))

\* Each exception is needed: the editor accepts these, and the engine gives
\* another value, or none, without telling.
Two == Ref(Float(2, 1))
TwoPointZero == Lit(Float(2, 1))
Ten == Spelled(Int64(10), <<LitToken(Int64(1)), Token("e1")>>)
PointFive == Spelled(Float(1, 2), <<Token(".5")>>)
Null == Spelled(Int64(0), <<Token("null")>>)
Quoted == Spelled(Str(2), <<Token("'")>>)

Disagreements ==
  { [tree |-> Bin("/", Ref(Float(3, 1)), Two), target |-> "float", value |-> Float(3, 2)],
    [tree |-> Bin("/", CastTo("float", Ref(Int64(3))), Two), target |-> "float",
     value |-> Float(3, 2)],
    [tree |-> Bin("/", Lit(Int64(7)), TwoPointZero), target |-> "float", value |-> Float(3, 1)],
    [tree |-> Bin("*", Bin("/", Lit(Int64(7)), TwoPointZero), Lit(Int64(2))), target |-> "int",
     value |-> Int64(6)],
    [tree |-> Bin("+", Ten, Lit(Int64(1))), target |-> "int", value |-> Int64(11)],
    [tree |-> Bin("*", PointFive, Lit(Int64(3))), target |-> "float", value |-> Float(3, 2)],
    [tree |-> Bin("+", Null, Lit(Int64(1))), target |-> "int", value |-> Int64(1)],
    [tree |-> Bin("==", Ref(Str(2)), Quoted), target |-> "bool", value |-> Bool(TRUE)],
    [tree |-> If(Ref(Bool(FALSE)), Lit(Int64(5)), Lit(Int64(7))), target |-> "int",
     value |-> Int64(7)],
    [tree |-> Bin("&", Ref(Int64(6)), Lit(Int64(3))), target |-> "int", value |-> Int64(2)],
    [tree |-> Bin("==", Bin("+", Ref(Str(2)), Ref(Str(0))), Ref(Str(2))), target |-> "bool",
     value |-> Bool(TRUE)],
    [tree |-> CastTo("int", Bin("+", Ref(Int64(1)), Lit(Int64(1)))), target |-> "int",
     value |-> Int64(2)],
    [tree |-> Un("+", Ref(Int64(-1))), target |-> "int", value |-> Int64(-1)],
    [tree |-> Bin("==", Ref(Frame), Ref(Frame)), target |-> "bool", value |-> Bool(TRUE)] }

ASSUME EditorAndEngineDisagree ==
  \A x \in Disagreements :
    /\ Accepted(x.tree, x.target)
    /\ Unsupported(x.tree) \/ DividesOtherwise(x.tree)
    /\ ~SameValue(Eval(x.tree, x.target), x.value)

=============================================================================
