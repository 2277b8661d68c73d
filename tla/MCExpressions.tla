--------------------------- MODULE MCExpressions ---------------------------
(***************************************************************************)
(* The well-typed expressions of up to two operators over thirteen         *)
(* operands, and of three operators over four.                             *)
(***************************************************************************)
EXTENDS Expressions

Operators == UNION {Loops[i] : i \in DOMAIN Loops}

WithType(S) == {<<t, InferType(t)>> : t \in S}

\* x is an operator and two typed operands.
Combine(S, T) ==
  {Bin(x[1], x[2][1], x[3][1]) : x \in
     {y \in Operators \X WithType(S) \X WithType(T) : BinaryType(y[1], y[2][2], y[3][2]) # "none"}}

Single(S) ==
  {t \in {Un(op, a) : op \in {"-", "!"}, a \in S} : InferType(t) # "none"}

Operands ==
  {Ref(v) : v \in
     {Int64(-3), Int64(0), Float(3, 2), Float(-2, 1), Bool(FALSE), Bool(TRUE), Str(2)}}
  \cup {Lit(Int64(2)), Lit(Float(1, 2)), TwoPointZero, Lit(Str(0))}
  \cup {CastTo("int", Ref(Float(-3, 2))), CastTo("bool", CastTo("int", Ref(Float(1, 2))))}

Short == Combine(Operands, Operands) \cup Single(Operands)

Few == {Ref(Int64(-3)), Lit(Int64(2)), TwoPointZero, Ref(Float(1, 2))}

MCFamilies ==
  <<Operands, Short, Single(Short), Combine(Short, Operands), Combine(Operands, Short),
    Combine(Combine(Few, Few), Combine(Few, Few))>>

=============================================================================
