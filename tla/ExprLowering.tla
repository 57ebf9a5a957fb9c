---------------------------- MODULE ExprLowering -----------------------------
(***************************************************************************)
(* CodegenVisitor's expression visitors and operation_map.cxx: the LLVM    *)
(* value an annotated tree (module ExprTyping) is lowered to.  A value is  *)
(* its LLVM type, <<"i", bits>> or <<"fp", bits>>, and whether it is a      *)
(* constant; lowering an expression ends in one of                         *)
(*     ok       a value                                                    *)
(*     throws   the visitor threw std::runtime_error                       *)
(*     invalid  an instruction over operands it does not take was built,   *)
(*              which the verifier refuses, or LLVM stopped the process on *)
(*              an assertion: nothing is emitted either way                *)
(* IRBuilder folds an operation on two constants instead of building an    *)
(* instruction.                                                            *)
(* That each variable and function named exists is not this module's       *)
(* business (see Codegen).                                                 *)
(***************************************************************************)
EXTENDS ExprTrees

Value(ty, const) == [st |-> "ok", ty |-> ty, const |-> const]
Throws  == [st |-> "throws",  ty |-> << >>, const |-> FALSE]
Invalid == [st |-> "invalid", ty |-> << >>, const |-> FALSE]

HasLLVMType(t) == t \in {"Bool"} \cup IntTypes \cup FloatTypes

\* Mutant of get_llvm_type: there is one floating-point type.
get_llvm_type_double(t) == CASE t = "Bool"       -> <<"i", 1>>
                             [] t \in IntTypes   -> <<"i", Width[t]>>
                             [] t \in FloatTypes -> <<"fp", 64>>

get_llvm_type(t) == CASE t = "Bool"       -> <<"i", 1>>
                      [] t \in IntTypes   -> <<"i", Width[t]>>
                      [] t = "Float32"    -> <<"fp", 32>>
                      [] t = "Float64"    -> <<"fp", 64>>

\* The TypeOperations of a type: IntOperations or FloatOperations.
build_type_operations(t) == CASE t \in IntTypes   -> "i"
                              [] t \in FloatTypes -> "fp"
                              [] OTHER            -> Sentinel

\* A comparison is an i1, any other operation has the type of its operands.
OperationType(op, ty) == IF op \in BoolOperators THEN <<"i", 1>> ELSE ty

\* What an operation may end in.  NotEquals has no case: "Unsupported
\* operation".  Operands the operation does not take are an invalid
\* instruction, but two constants are given to LLVM's folder, which only
\* asserts their types: a build of LLVM without assertions may fold them, to a
\* constant of either operand's type, or leave the instruction.
apply(operations, op, l, r) ==
    IF op \notin ArithmeticOperators \cup BoolOperators THEN {Throws}
    ELSE IF l.st = "invalid" \/ r.st = "invalid" THEN {Invalid}
    ELSE IF l.ty = r.ty /\ l.ty[1] = operations
         THEN {Value(OperationType(op, l.ty), l.const /\ r.const)}
    ELSE IF l.const /\ r.const
         THEN {Invalid} \cup {Value(OperationType(op, t), TRUE) : t \in {l.ty, r.ty}}
    ELSE {Invalid}

\* Mutant of emit_bin: the operations of the result's type are used.
emit_bin_by_result(e, l, r) ==
    LET ops == build_type_operations(e.rt)
    IN  IF l.st = "throws" \/ r.st = "throws" \/ ops = Sentinel THEN {Throws}
        ELSE apply(ops, e.op, l, r)

\* The operation on the values l and r of the two sides.  A comparison uses the
\* operations of its operands' type.
emit_bin(e, l, r) ==
    LET ops == build_type_operations(IF e.rt = "Bool" THEN e.ot ELSE e.rt)
    IN  IF l.st = "throws" \/ r.st = "throws" \/ ops = Sentinel THEN {Throws}
        ELSE apply(ops, e.op, l, r)

\* What lowering a tree may end in.  A float literal is always a double; an
\* integer literal needs an integer type.
emit[e \in AllTrees] ==
    CASE e.k = "int"   -> {IF e.rt \in IntTypes THEN Value(get_llvm_type(e.rt), TRUE)
                                                ELSE Throws}
      [] e.k = "float" -> {Value(<<"fp", 64>>, TRUE)}
      [] e.k = "var"   -> {IF HasLLVMType(e.rt) THEN Value(get_llvm_type(e.rt), FALSE)
                                                ELSE Throws}
      [] e.k = "call"  -> {Value(<<"i", 32>>, FALSE)}
      [] e.k = "bin"   -> UNION {emit_bin(e, l, r) : l \in emit[e.l], r \in emit[e.r]}
==============================================================================
