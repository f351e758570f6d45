---------------------------- MODULE MCM3Compile ----------------------------
(***************************************************************************)
(* Kinds of functions for M3Compile, each with the opcodes of one concern. *)
(***************************************************************************)
EXTENDS M3Compile

Sig(params, rets) == [params |-> params, rets |-> rets]

\* Both registers at once, and locals that are set while referenced.
Arithmetic ==
    [type |-> Sig(<<"i32">>, <<"i32">>), locals |-> <<"f32">>,
     types |-> {"i32", "f32"}, blocks |-> {}, calls |-> {},
     opcodes |-> {"local.get", "local.set", "local.tee", "operator", "convert",
                  "select", "const"},
     maxOpcodes |-> 6, maxOperands |-> 3, maxDepth |-> 0]

\* Operands of two slots.
Wide ==
    [type |-> Sig(<<>>, <<"i64">>), locals |-> <<"i32">>,
     types |-> {"i32", "i64", "f64"}, blocks |-> {}, calls |-> {},
     opcodes |-> {"const", "operator", "convert", "local.get", "global.get",
                  "global.set", "drop"},
     maxOpcodes |-> 5, maxOperands |-> 3, maxDepth |-> 0]

Memory ==
    [Arithmetic EXCEPT
        !.opcodes = {"local.get", "const", "memory", "memory.size", "memory.grow",
                     "memory.copy", "global.get", "drop"}]

\* Locals set in and around blocks, loops and ifs.
Blocks ==
    [type |-> Sig(<<"i32">>, <<>>), locals |-> <<>>, types |-> {"i32"},
     blocks |-> {Sig(<<>>, <<>>), Sig(<<>>, <<"i32">>)}, calls |-> {},
     opcodes |-> {"local.get", "local.set", "operator", "block", "loop", "if",
                  "drop"},
     maxOpcodes |-> 7, maxOperands |-> 2, maxDepth |-> 2]

Branches ==
    [Blocks EXCEPT
        !.opcodes = {"local.get", "local.set", "operator", "block", "loop", "br",
                     "br_if", "br_table", "return", "unreachable"},
        !.maxOpcodes = 6]

\* Results in the registers and in several slots.
Results ==
    [type |-> Sig(<<"i32", "f32">>, <<"i32", "f32">>), locals |-> <<>>,
     types |-> {"i32", "f32"},
     blocks |-> {Sig(<<>>, <<"i32", "f32">>), Sig(<<>>, <<"f32", "i32">>)}, calls |-> {},
     opcodes |-> {"local.get", "operator", "block", "if", "br", "return"},
     maxOpcodes |-> 7, maxOperands |-> 2, maxDepth |-> 1]

Calls ==
    [type |-> Sig(<<"i32">>, <<"f32">>), locals |-> <<"f32">>,
     types |-> {"i32", "f32"}, blocks |-> {Sig(<<>>, <<"f32">>)},
     calls |-> {Sig(<<"i32", "f32">>, <<"f32">>), Sig(<<"f32">>, <<"i32", "f32">>),
                Sig(<<"i32", "i32", "f32">>, <<>>)},
     opcodes |-> {"local.get", "local.tee", "operator", "call", "call_indirect",
                  "block"},
     maxOpcodes |-> 6, maxOperands |-> 3, maxDepth |-> 1]

\* An i64 argument that is referenced twice when it is set.
WideLocals ==
    [Wide EXCEPT !.type = Sig(<<"i64">>, <<"i64">>), !.locals = <<>>,
                 !.types = {"i32", "i64"},
                 !.opcodes = {"const", "local.get", "local.set", "drop"}]

MCFunctions == {Arithmetic, Wide, Memory, Blocks, Branches, Results, Calls}
MCWideFunctions == {WideLocals}
=============================================================================
