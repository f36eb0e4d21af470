---------------------------------- MODULE IR ----------------------------------
(***************************************************************************)
(* The slice of the LLVM IR API through which the supermutator edits a     *)
(* function.  A function is a record f with                                *)
(*                                                                         *)
(*    f.entry    its entry block                                           *)
(*    f.layout   block       -> sequence of instruction names              *)
(*    f.code     instruction -> what the instruction is                    *)
(*                                                                         *)
(* and an instruction has an opcode (the predicate, for a comparison), a   *)
(* type (for an alloca, the type it allocates), operands, the targets of   *)
(* its jump, the <<value, block>> pairs of a phi and the case values of a  *)
(* switch.  Everything here is LLVM's, modelled from how lib/ uses it.     *)
(***************************************************************************)
EXTENDS Naturals, Sequences, FiniteSets, SequencesExt

Ins(op, ty, args) ==
  [op |-> op, ty |-> ty, args |-> args, to |-> <<>>, in |-> {}, cases |-> <<>>]

Jump(b) == [Ins("br", "void", <<>>) EXCEPT !.to = <<b>>]

BlockOf(f, i) == CHOOSE b \in DOMAIN f.layout : Contains(f.layout[b], i)

IndexOf(f, i) ==
  CHOOSE k \in DOMAIN f.layout[BlockOf(f, i)] : f.layout[BlockOf(f, i)][k] = i

-------------------------------------------------------------------------------
(* Edits: BasicBlock::Create, InstList::push_back and pop_back, IRBuilder   *)
(* at an insertion point, splitBasicBlock, replaceAllUsesWith,             *)
(* eraseFromParent, PHINode::addIncoming and SwitchInst::addCase.          *)

Put(m, k, v) == [x \in DOMAIN m \cup {k} |-> IF x = k THEN v ELSE m[x]]

\* The function f with another layout and other code.
Edit(f, layout, code) == [entry |-> f.entry, layout |-> layout, code |-> code]

AddBlock(f, b) == Edit(f, Put(f.layout, b, <<>>), f.code)

PushBack(f, b, x, ins) ==
  Edit(f, Put(f.layout, b, Append(f.layout[b], x)), Put(f.code, x, ins))

Erase(f, x) ==
  Edit(f, Put(f.layout, BlockOf(f, x), RemoveAt(f.layout[BlockOf(f, x)], IndexOf(f, x))),
       Restrict(f.code, DOMAIN f.code \ {x}))

PopBack(f, b) == Erase(f, Last(f.layout[b]))

InsertBefore(f, i, x, ins) ==
  Edit(f, Put(f.layout, BlockOf(f, i),
              InsertAt(f.layout[BlockOf(f, i)], IndexOf(f, i), x)),
       Put(f.code, x, ins))

\* Applies V to every value an instruction mentions and B to every block a phi
\* names.
Rename(ins, V(_), B(_)) ==
  [op |-> ins.op, ty |-> ins.ty,
   args |-> [k \in DOMAIN ins.args |-> V(ins.args[k])],
   to |-> ins.to,
   in |-> {<<V(e[1]), B(e[2])>> : e \in ins.in},
   cases |-> ins.cases]

ReplaceAllUses(f, old, new) ==
  LET V(v) == IF v = old THEN new ELSE v
      B(b) == b
  IN  Edit(f, f.layout, [x \in DOMAIN f.code |-> Rename(f.code[x], V, B)])

\* The block of i keeps what precedes i and jumps (instruction br) to the new
\* block, which takes the rest; the phis of the block's former successors now
\* name the new block as their predecessor.
SplitBlock(f, i, new, br) ==
  LET b    == BlockOf(f, i)
      k    == IndexOf(f, i)
      s    == f.layout[b]
      V(v) == v
      B(p) == IF p = b THEN new ELSE p
  IN  Edit(f,
        Put(Put(f.layout, new, SubSeq(s, k, Len(s))), b, Append(SubSeq(s, 1, k - 1), br)),
        Put([x \in DOMAIN f.code |-> Rename(f.code[x], V, B)], br, Jump(new)))

AddIncoming(f, phi, value, block) ==
  Edit(f, f.layout,
       Put(f.code, phi, [f.code[phi] EXCEPT !.in = @ \cup {<<value, block>>}]))

AddCase(f, switch, id, block) ==
  Edit(f, f.layout,
       Put(f.code, switch, [f.code[switch] EXCEPT !.cases = Append(@, id),
                                                  !.to    = Append(@, block)]))

-------------------------------------------------------------------------------
(* The shape of a function, as the edits rely on it and keep it.           *)

IsIns(x) ==
  /\ x = [op |-> x.op, ty |-> x.ty, args |-> x.args, to |-> x.to, in |-> x.in,
          cases |-> x.cases]
  /\ x.args = [k \in DOMAIN x.args |-> x.args[k]]

IsFunction(f) == f = [entry |-> f.entry, layout |-> f.layout, code |-> f.code]

\* Instruction x has a place in a block.
Placed(layout, x) ==
  \E b \in DOMAIN layout : \E k \in DOMAIN layout[b] : layout[b][k] = x

\* f is a function whose instructions all have a place; N is a set of names that
\* its blocks take their members from.
WellFormed(f, N) ==
  /\ IsFunction(f)
  /\ \A b \in DOMAIN f.layout : f.layout[b] \in Seq(N)
  /\ \A x \in DOMAIN f.code : IsIns(f.code[x]) /\ Placed(f.layout, x)

\* What is in a block is an instruction, and it is there once and nowhere else.
OnePlace(f) ==
  /\ \A b \in DOMAIN f.layout : \A k \in DOMAIN f.layout[b] : f.layout[b][k] \in DOMAIN f.code
  /\ \A b, c \in DOMAIN f.layout : \A k \in DOMAIN f.layout[b], l \in DOMAIN f.layout[c] :
       f.layout[b][k] = f.layout[c][l] => b = c /\ k = l

TargetsAreBlocks(f) == \A x \in DOMAIN f.code : ToSet(f.code[x].to) \subseteq DOMAIN f.layout

-------------------------------------------------------------------------------
(* The control-flow graph.                                                 *)

BlocksOf(f) == DOMAIN f.layout

Terminators == {"br", "condbr", "switch", "ret"}

Succs(f, b) == ToSet(f.code[Last(f.layout[b])].to)

Preds(f, b) == {p \in BlocksOf(f) : b \in Succs(f, p)}

\* The least set of blocks that contains S and is closed under Step.
Closure(f, Step(_), S) ==
  LET grow[T \in SUBSET BlocksOf(f)] ==
        LET U == T \cup UNION {Step(b) : b \in T}
        IN  IF U = T THEN T ELSE grow[U]
  IN  grow[S]

\* The blocks the entry reaches by a path that avoids block a.
ReachableAvoiding(f, a) ==
  Closure(f, LAMBDA b : Succs(f, b) \ {a}, {f.entry} \ {a})

\* The first instruction of a block that is not a phi.
FirstNonPHI(f, b) ==
  LET s == f.layout[b]
  IN  s[CHOOSE k \in DOMAIN s :
          /\ f.code[s[k]].op # "phi"
          /\ \A j \in 1 .. k - 1 : f.code[s[j]].op = "phi"]

-------------------------------------------------------------------------------
(* What LLVM's verifier demands of a function.                             *)

\* Every block ends in its only terminator and its phis come first.
BlocksWellFormed(f) ==
  \A b \in BlocksOf(f) :
    LET s == f.layout[b] IN
    /\ s # <<>>
    /\ \A k \in DOMAIN s : (f.code[s[k]].op \in Terminators) <=> (k = Len(s))
    /\ \A k \in DOMAIN s :
         f.code[s[k]].op = "phi" => \A j \in 1 .. k - 1 : f.code[s[j]].op = "phi"

\* A phi has exactly one value for each predecessor of its block.
PhisMatchPredecessors(f) ==
  \A b \in BlocksOf(f) : \A x \in ToSet(f.layout[b]) :
    f.code[x].op = "phi" =>
      /\ {e[2] : e \in f.code[x].in} = Preds(f, b)
      /\ \A d, e \in f.code[x].in : d[2] = e[2] => d = e

\* The shape and the two demands together.
Verified(f) ==
  /\ OnePlace(f) /\ TargetsAreBlocks(f)
  /\ BlocksWellFormed(f) /\ PhisMatchPredecessors(f)

\* A value that is an instruction is computed on every path to its use; a phi
\* uses a value at the end of the predecessor it comes from.
DefinitionsDominateUses(f) ==
  LET reach   == [a \in BlocksOf(f) |-> ReachableAvoiding(f, a)]
      live    == Closure(f, LAMBDA b : Succs(f, b), {f.entry})
      Dom(a, b) == a = b \/ b \notin reach[a]
      block   == [x \in DOMAIN f.code |-> BlockOf(f, x)]
  IN  \A x \in {y \in DOMAIN f.code : block[y] \in live} :
        /\ \A v \in ToSet(f.code[x].args) \cap DOMAIN f.code :
             IF block[v] = block[x]
             THEN IndexOf(f, v) < IndexOf(f, x)
             ELSE Dom(block[v], block[x])
        /\ \A e \in f.code[x].in :
             (e[1] \in DOMAIN f.code /\ e[2] \in live) => Dom(block[e[1]], e[2])
===============================================================================
