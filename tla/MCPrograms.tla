------------------------------ MODULE MCPrograms ------------------------------
(* Small functions for TLC, with the features that make block splitting and  *)
(* use rewriting hard.                                                       *)
EXTENDS IR

O(n) == <<"orig", n>>

X == <<"arg", "x">>
Y == <<"arg", "y">>
F == <<"arg", "f">>
G == <<"gvar", "g">>

To(ins, targets) == [ins EXCEPT !.to = targets]
In(ins, pairs)   == [ins EXCEPT !.in = pairs]

\* order lists the instructions as the source mapping numbers them, from 0.
Program(layout, code, order) ==
  [function |-> [entry |-> O("entry"), layout |-> layout, code |-> code],
   id       |-> [i \in ToSet(order) |-> (CHOOSE k \in DOMAIN order : order[k] = i) - 1],
   args     |-> (X :> "i64") @@ (Y :> "i64") @@ (F :> "f64"),
   globals  |-> (G :> "i64*"),
   file     |-> "main.c", name |-> "main",
   config   |-> <<>>]

\* The same under a configuration file that names other functions.
Restricted(p) == [p EXCEPT !.config = [functions |-> {"parse"}]]

\* The same as a function that main calls once the loader has run.
Helper(p) == 
  [p EXCEPT !.name = "helper",
            !.config = [filenames |-> {"main.c"}, functions |-> {"helper"}]]

\* example/foo.c in miniature, in one block: two operations around a load, the
\* second using the first and the load; "retval" is the alloca that clang adds.
Straight ==
  LET entry == << O("retval"), O("a"), O("sa"), O("sum"), O("la"), O("dif"), O("ret") >>
  IN  Program(
        O("entry") :> entry,
        (O("retval") :> Ins("alloca", "f64", <<>>))
          @@ (O("a") :> Ins("alloca", "f64", <<>>))
          @@ (O("sa") :> Ins("store", "void", << F, O("a") >>))
          @@ (O("sum") :> Ins("fadd", "f64", << F, F >>))
          @@ (O("la") :> Ins("load", "f64", << O("a") >>))
          @@ (O("dif") :> Ins("fsub", "f64", << O("sum"), O("la") >>))
          @@ (O("ret") :> Ins("ret", "void", << O("dif") >>)),
        entry)

\* A diamond whose join has a phi over a mutated value; a call is in the way.
Diamond ==
  LET code ==
        (O("call") :> Ins("call", "void", << <<"fn", "puts">> >>))
          @@ (O("lt") :> Ins("slt", "i1", << X, Y >>))
          @@ (O("br") :> To(Ins("condbr", "void", << O("lt") >>), << O("then"), O("join") >>))
          @@ (O("mul") :> Ins("fmul", "f64", << F, F >>))
          @@ (O("jmp") :> Jump(O("join")))
          @@ (O("p") :> In(Ins("phi", "f64", <<>>),
                           {<< O("mul"), O("then") >>, << F, O("entry") >>}))
          @@ (O("sub") :> Ins("fsub", "f64", << O("p"), F >>))
          @@ (O("ret") :> Ins("ret", "void", << O("sub") >>))
  IN  Program(
        (O("entry") :> << O("call"), O("lt"), O("br") >>)
          @@ (O("then") :> << O("mul"), O("jmp") >>)
          @@ (O("join") :> << O("p"), O("sub"), O("ret") >>),
        code,
        << O("call"), O("lt"), O("br"), O("mul"), O("jmp"), O("p"), O("sub"), O("ret") >>)

\* A block that is its own predecessor, with a phi over a value it computes.
Loop ==
  LET code ==
        (O("c") :> Ins("alloca", "i64", <<>>))
          @@ (O("sc") :> Ins("store", "void", << Y, O("c") >>))
          @@ (O("enter") :> Jump(O("body")))
          @@ (O("k") :> In(Ins("phi", "i64", <<>>),
                           {<< X, O("entry") >>, << O("lc"), O("body") >>}))
          @@ (O("lc") :> Ins("load", "i64", << O("c") >>))
          @@ (O("eq") :> Ins("eq", "i1", << O("k"), O("lc") >>))
          @@ (O("br") :> To(Ins("condbr", "void", << O("eq") >>), << O("exit"), O("body") >>))
          @@ (O("ret") :> Ins("ret", "void", << O("k") >>))
  IN  Program(
        (O("entry") :> << O("c"), O("sc"), O("enter") >>)
          @@ (O("body") :> << O("k"), O("lc"), O("eq"), O("br") >>)
          @@ (O("exit") :> << O("ret") >>),
        code,
        << O("c"), O("sc"), O("enter"), O("k"), O("lc"), O("eq"), O("br"), O("ret") >>)

\* A loop of three blocks around a branch; the phi of each join is an operand of a
\* comparison, and the phi of the header has the phi of the latch for a value.
\* Its other instructions have no debug location.
Nest ==
  LET code ==
        (O("a") :> Ins("alloca", "i64", <<>>))
          @@ (O("b") :> Ins("alloca", "i64", <<>>))
          @@ (O("sa") :> Ins("store", "void", << X, O("a") >>))
          @@ (O("enter") :> Jump(O("head")))
          @@ (O("k") :> In(Ins("phi", "i64", <<>>),
                           {<< X, O("entry") >>, << O("p"), O("latch") >>}))
          @@ (O("lt") :> Ins("slt", "i1", << O("k"), Y >>))
          @@ (O("br") :> To(Ins("condbr", "void", << O("lt") >>), << O("then"), O("latch") >>))
          @@ (O("la") :> Ins("load", "i64", << O("a") >>))
          @@ (O("jmp") :> Jump(O("latch")))
          @@ (O("p") :> In(Ins("phi", "i64", <<>>),
                           {<< O("la"), O("then") >>, << O("k"), O("head") >>}))
          @@ (O("eq") :> Ins("eq", "i1", << O("p"), O("k") >>))
          @@ (O("back") :> To(Ins("condbr", "void", << O("eq") >>), << O("exit"), O("head") >>))
          @@ (O("ret") :> Ins("ret", "void", << O("p") >>))
  IN  [Program(
         (O("entry") :> << O("a"), O("b"), O("sa"), O("enter") >>)
           @@ (O("head") :> << O("k"), O("lt"), O("br") >>)
           @@ (O("then") :> << O("la"), O("jmp") >>)
           @@ (O("latch") :> << O("p"), O("eq"), O("back") >>)
           @@ (O("exit") :> << O("ret") >>),
         code,
         << O("lt"), O("la"), O("p"), O("eq"), O("ret") >>)
       EXCEPT !.config = [filenames |-> {"main.c"}, functions |-> {}]]

\* A variable-length array: clang allocates it where it is declared, here in
\* one arm of a branch; the load comes after both arms have met.
ScopedAlloca ==
  LET code ==
        (O("a") :> Ins("alloca", "i64", <<>>))
          @@ (O("lt") :> Ins("slt", "i1", << X, Y >>))
          @@ (O("br") :> To(Ins("condbr", "void", << O("lt") >>), << O("then"), O("join") >>))
          @@ (O("vla") :> Ins("alloca", "i64", << X >>))
          @@ (O("jmp") :> Jump(O("join")))
          @@ (O("la") :> Ins("load", "i64", << O("a") >>))
          @@ (O("ret") :> Ins("ret", "void", << O("la") >>))
  IN  Program(
        (O("entry") :> << O("a"), O("lt"), O("br") >>)
          @@ (O("then") :> << O("vla"), O("jmp") >>)
          @@ (O("join") :> << O("la"), O("ret") >>),
        code,
        << O("a"), O("lt"), O("br"), O("vla"), O("jmp"), O("la"), O("ret") >>)

\* A load of a global, in scope of an alloca of the same type.
GlobalLoads ==
  LET entry == << O("a"), O("lg"), O("ret") >>
  IN  Program(
        O("entry") :> entry,
        (O("a") :> Ins("alloca", "i64", <<>>))
          @@ (O("lg") :> Ins("load", "i64", << G >>))
          @@ (O("ret") :> Ins("ret", "void", << O("lg") >>)),
        entry)

\* What a run makes of a load of a in entry: the input of a second run.
MutantOfA == <<"gvar", "__llvmrepair_instruction_mutant_1__">>

Supermutant ==
  LET code ==
        (O("call") :> Ins("call", "void", << <<"fn", "__llvm_mutate_load_mutations__">> >>))
          @@ (O("a") :> Ins("alloca", "i64", <<>>))
          @@ (O("id") :> Ins("load", "i64", << MutantOfA >>))
          @@ (O("switch") :> [To(Ins("switch", "void", << O("id") >>),
                                 << O("clone"), O("mutant") >>) EXCEPT !.cases = << 1 >>])
          @@ (O("la") :> Ins("load", "i64", << O("a") >>))
          @@ (O("labr") :> Jump(O("rest")))
          @@ (O("ma") :> Ins("load", "i64", << O("a") >>))
          @@ (O("mabr") :> Jump(O("rest")))
          @@ (O("phi") :> In(Ins("phi", "i64", <<>>),
                             {<< O("la"), O("clone") >>, << O("ma"), O("mutant") >>}))
          @@ (O("ret") :> Ins("ret", "void", << O("phi") >>))
  IN  [Program(
         (O("entry") :> << O("call"), O("a"), O("id"), O("switch") >>)
           @@ (O("clone") :> << O("la"), O("labr") >>)
           @@ (O("mutant") :> << O("ma"), O("mabr") >>)
           @@ (O("rest") :> << O("phi"), O("ret") >>),
         code,
         << O("call"), O("a"), O("id"), O("switch"), O("phi"), O("ret"),
            O("la"), O("labr"), O("ma"), O("mabr") >>)
       EXCEPT !.globals = @ @@ (MutantOfA :> "i64*")]
===============================================================================
