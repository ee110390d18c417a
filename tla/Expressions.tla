---------------------------- MODULE Expressions ----------------------------
(***************************************************************************)
(* Expressions over columns of floats: the tree that operators of deferred *)
(* series build, the program it is compiled to, and the two ways to run a  *)
(* program: interpreters with a stack of a few values, and a generated     *)
(* kernel whose text is the expression read back from the program.         *)
(* A column is a function on 0 .. n - 1.                                   *)
(***************************************************************************)
EXTENDS Integers, Sequences, SequencesExt

CONSTANTS
  BinaryValue(_, _, _),  \* a op b, in float32, the same in Metal and NumPy
  UnaryValue(_, _),      \* op a
  Formatted(_),          \* a scalar after {:.8}f
  StackSize,             \* float stack[8]
  Junk                   \* what a stack written past its end leaves

LoadColumn(series) == [kind |-> "column", series |-> series]
LoadScalar(value) == [kind |-> "scalar", value |-> value]
BinaryOp(op, left, right) == [kind |-> "binary", op |-> op, left |-> left, right |-> right]
UnaryOp(op, child) == [kind |-> "unary", op |-> op, child |-> child]

\* What the tree means, for one row.
RECURSIVE TreeValue(_, _, _)
TreeValue(tree, columns, row) ==
  CASE tree.kind = "column" -> columns[tree.series][row]
    [] tree.kind = "scalar" -> tree.value
    [] tree.kind = "unary"  -> UnaryValue(tree.op, TreeValue(tree.child, columns, row))
    [] tree.kind = "binary" ->
         BinaryValue(tree.op, TreeValue(tree.left, columns, row),
                              TreeValue(tree.right, columns, row))

RECURSIVE Leaves(_)
Leaves(tree) ==
  CASE tree.kind = "column" -> <<tree.series>>
    [] tree.kind = "scalar" -> << >>
    [] tree.kind = "unary"  -> Leaves(tree.child)
    [] tree.kind = "binary" -> Leaves(tree.left) \o Leaves(tree.right)

\* Each series once, where it appears first.
collect_columns(tree) ==
  FoldLeft(LAMBDA seen, s : IF s \in Range(seen) THEN seen ELSE Append(seen, s),
           << >>, Leaves(tree))

-----------------------------------------------------------------------------
Load(i) == [kind |-> "column", series |-> i]

\* Mutant: the right operand first.
RECURSIVE RightFirst(_, _)
RightFirst(tree, columns) ==
  CASE tree.kind = "column" -> <<Load(CHOOSE i \in DOMAIN columns : columns[i] = tree.series)>>
    [] tree.kind = "scalar" -> <<tree>>
    [] tree.kind = "unary"  ->
         Append(RightFirst(tree.child, columns), [kind |-> "unary", op |-> tree.op])
    [] tree.kind = "binary" ->
         Append(RightFirst(tree.right, columns) \o RightFirst(tree.left, columns),
                [kind |-> "binary", op |-> tree.op])

\* Children before parents; columns by their place among the bound buffers.
RECURSIVE compile_bytecode(_, _)
compile_bytecode(tree, columns) ==
  CASE tree.kind = "column" -> <<Load(CHOOSE i \in DOMAIN columns : columns[i] = tree.series)>>
    [] tree.kind = "scalar" -> <<tree>>
    [] tree.kind = "unary"  ->
         Append(compile_bytecode(tree.child, columns), [kind |-> "unary", op |-> tree.op])
    [] tree.kind = "binary" ->
         Append(compile_bytecode(tree.left, columns) \o compile_bytecode(tree.right, columns),
                [kind |-> "binary", op |-> tree.op])

Top(stack, n) == stack[Len(stack) - n]
Pushed(stack, n, x) == Append(SubSeq(stack, 1, Len(stack) - n), x)

\* One instruction of an interpreter; one it has no case for does nothing.
Interpret(stack, ins, buffers, row, known) ==
  CASE ins.kind = "column" -> Pushed(stack, 0, buffers[ins.series][row])
    [] ins.kind = "scalar" -> Pushed(stack, 0, ins.value)
    [] ins.kind = "binary" -> Pushed(stack, 2, BinaryValue(ins.op, Top(stack, 1), Top(stack, 0)))
    [] ins.kind = "unary"  ->
         IF ins.op \in known THEN Pushed(stack, 1, UnaryValue(ins.op, Top(stack, 0))) ELSE stack

Pushes(ins) == CASE ins.kind = "binary" -> -1 [] ins.kind = "unary" -> 0 [] OTHER -> 1

StackDepth(program, n) ==
  FoldLeft(LAMBDA d, ins : d + Pushes(ins), 0, SubSeq(program, 1, n))

\* No interpreter looks whether there is room.
Overflows(program) == \E n \in DOMAIN program : StackDepth(program, n) > StackSize

eval_program(program, buffers, row, known) ==
  IF Overflows(program) THEN Junk
  ELSE Head(FoldLeft(LAMBDA stack, ins : Interpret(stack, ins, buffers, row, known),
                     << >>, program))

\* One instruction of the decompiler, whose stack holds expressions.
Decompile(stack, ins) ==
  CASE ins.kind = "column" -> Pushed(stack, 0, ins)
    [] ins.kind = "scalar" -> Pushed(stack, 0, LoadScalar(Formatted(ins.value)))
    [] ins.kind = "binary" -> Pushed(stack, 2, BinaryOp(ins.op, Top(stack, 1), Top(stack, 0)))
    [] ins.kind = "unary"  -> Pushed(stack, 1, UnaryOp(ins.op, Top(stack, 0)))

decompile_to_expr(program) == Last(FoldLeft(Decompile, << >>, program))

\* What the generated kernel computes for a row.
RunGenerated(program, buffers, row) == TreeValue(decompile_to_expr(program), buffers, row)
=============================================================================
