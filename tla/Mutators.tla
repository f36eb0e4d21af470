------------------------------- MODULE Mutators -------------------------------
(***************************************************************************)
(* The three mutators.  Each one walks a fixed or a computed list and      *)
(* injects a mutation for every entry it does not skip.                    *)
(***************************************************************************)
EXTENDS ReachingValues

\* BinOpcodeMutator::mutateIntOpcode and mutateFloatOpcode.
IntOpcodes ==
  << "add", "sub", "mul", "udiv", "sdiv", "urem", "srem",
     "shl", "lshr", "ashr", "and", "or", "xor" >>

FloatOpcodes == << "fadd", "fsub", "fmul", "fdiv", "frem" >>

\* ICmpMutator::mutate.
SignedPredicates == << "eq", "ne", "sgt", "sge", "slt", "sle" >>

UnsignedPredicates == << "eq", "ne", "ugt", "uge", "ult", "ule" >>

Opcodes == ToSet(IntOpcodes \o FloatOpcodes \o SignedPredicates \o UnsignedPredicates)

\* llvm::isa<BinaryOperator>, isa<ICmpInst> and isa<LoadInst>: at most one
\* mutator of the three accepts an instruction.
MutatorFor(op) ==
  CASE op \in ToSet(IntOpcodes) \cup ToSet(FloatOpcodes) -> "BinOpcodeMutator"
    [] op \in ToSet(SignedPredicates) \cup ToSet(UnsignedPredicates) -> "ICmpMutator"
    [] op = "load" -> "LoadMutator"
    [] OTHER -> "none"

\* BinOpcodeMutator: the type of the result picks the table.
BinOpcodeCandidates(ins) ==
  IF ins.ty \in {"i1", "i32", "i64"} THEN IntOpcodes ELSE FloatOpcodes

\* ICmpMutator: CmpInst::isSigned is false of eq and ne.
ICmpCandidates(ins) ==
  IF ins.op \in {"sgt", "sge", "slt", "sle"} THEN SignedPredicates ELSE UnsignedPredicates

\* The lists a mutator may walk for instruction i of f.  LoadMutator walks a
\* std::set ordered by address, so the members in any order.
CandidateLists(f, env, i) ==
  LET ins == f.code[i] IN
  CASE MutatorFor(ins.op) = "BinOpcodeMutator" -> {BinOpcodeCandidates(ins)}
    [] MutatorFor(ins.op) = "ICmpMutator"      -> {ICmpCandidates(ins)}
    [] MutatorFor(ins.op) = "LoadMutator"      ->
         SetToSeqs(findReachingValuesWithType(f, env, i, ins.ty))
    [] OTHER -> {<<>>}

\* Mutant: LoadMutator accepts any value of the loaded type.
SkippedUnlessRetVal(f, ins, candidate) ==
  IF ins.op = "load" THEN candidate = RetVal ELSE candidate = ins.op

\* The `continue`s of the three loops.
Skipped(f, ins, candidate) ==
  IF ins.op = "load"
  THEN ~ (/\ candidate \in DOMAIN f.code
          /\ f.code[candidate].op = "alloca"
          /\ candidate # RetVal)
  ELSE candidate = ins.op

\* Mutant: inject copies the original's opcode or pointer, not its own.
ReplacementAsOriginal(ins, candidate) == ins

\* The instruction each Mutation::inject builds from the original.
Replacement(ins, candidate) ==
  IF ins.op = "load" THEN [ins EXCEPT !.args = <<candidate>>]
                     ELSE [ins EXCEPT !.op = candidate]
===============================================================================
