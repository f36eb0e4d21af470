-------------------------- MODULE Supermutator_proofs --------------------------
(***************************************************************************)
(* Theorems about the supermutator, for every set of programs.  TypeOK and *)
(* TableMatchesBitcode are not inductive: that an operand offered to a     *)
(* load is an instruction of the program, or that the switch of a site is  *)
(* still there when a case is added, depends on what every earlier         *)
(* mutation did to the function.  IInv states it, and ShapeInv, further    *)
(* down, what the function that is left looks like.  AgreesInv, in the     *)
(* last part, states that it offers the mutators what the program did, and *)
(* WorkInv what has been done of that and what is due.                     *)
(***************************************************************************)
EXTENDS Supermutator, IR_proofs

-------------------------------------------------------------------------------
(* What the engine's compositions of edits do to a function: which blocks  *)
(* and instructions appear, and that no other instruction changes its      *)
(* opcode, its cases or, but for the uses the phi takes over, its operands. *)

\* The instructions made for site i; SplitBr(i) is gone again in the end.
Created(i) == {Clone(i), CloneBr(i), GlobalLoad(i), Switch(i), SplitBr(i), Phi(i)}

\* Instruction y is in f and g, and nothing recorded about it differs.
Same(f, g, y) ==
  /\ y \in DOMAIN f.code /\ y \in DOMAIN g.code
  /\ g.code[y].op = f.code[y].op
  /\ g.code[y].cases = f.code[y].cases
  /\ g.code[y].args = f.code[y].args

LEMMA WithCloneIs ==
  ASSUME NEW f, NEW N, WellFormed(f, N), NEW i \in DOMAIN f.code,
         Created(i) \subseteq N, Clone(i) \notin DOMAIN f.layout
  PROVE  LET g == WithClone(f, i) IN
         /\ WellFormed(g, N)
         /\ DOMAIN g.layout = DOMAIN f.layout \cup {Clone(i)}
         /\ DOMAIN g.code = DOMAIN f.code \cup {Clone(i), CloneBr(i)}
         /\ g.code[Clone(i)].op = f.code[i].op
         /\ g.code[CloneBr(i)].op = "br"
         /\ \A y \in DOMAIN f.code \ {Clone(i), CloneBr(i)} : Same(f, g, y)
<1> DEFINE b == Clone(i)
           f1 == AddBlock(f, b)
           f2 == PushBack(f1, b, Clone(i), f.code[i])
           f3 == PushBack(f2, b, CloneBr(i), Jump(Rest(i)))
<1>1. WithClone(f, i) = f3
  BY DEF WithClone
<1>2. /\ IsIns(f.code[i]) /\ Clone(i) \in N /\ CloneBr(i) \in N
      /\ Clone(i) # CloneBr(i)
  BY DEF WellFormed, Created, Clone, CloneBr
<1>3. /\ WellFormed(f1, N) /\ f1.code = f.code
      /\ DOMAIN f1.layout = DOMAIN f.layout \cup {b}
  BY AddBlockIs
<1> HIDE DEF f1
<1>4. b \in DOMAIN f1.layout
  BY <1>3
<1>5. /\ WellFormed(f2, N) /\ DOMAIN f2.layout = DOMAIN f1.layout
      /\ DOMAIN f2.code = DOMAIN f1.code \cup {Clone(i)}
      /\ f2.code[Clone(i)] = f.code[i]
      /\ \A y \in DOMAIN f1.code \ {Clone(i)} : f2.code[y] = f1.code[y]
  BY <1>2, <1>3, <1>4, PushBackIs
<1> HIDE DEF f2
<1>6. b \in DOMAIN f2.layout /\ IsIns(Jump(Rest(i))) /\ Jump(Rest(i)).op = "br"
  BY <1>4, <1>5, JumpIs
<1>7. /\ WellFormed(f3, N) /\ DOMAIN f3.layout = DOMAIN f2.layout
      /\ DOMAIN f3.code = DOMAIN f2.code \cup {CloneBr(i)}
      /\ f3.code[CloneBr(i)] = Jump(Rest(i))
      /\ \A y \in DOMAIN f2.code \ {CloneBr(i)} : f3.code[y] = f2.code[y]
  BY <1>2, <1>5, <1>6, PushBackIs
<1> HIDE DEF f3
<1> QED  BY <1>1, <1>2, <1>3, <1>5, <1>6, <1>7 DEF Same

LEMMA WithSwitchIs ==
  ASSUME NEW f, NEW N, WellFormed(f, N), NEW i \in DOMAIN f.code,
         Created(i) \subseteq N
  PROVE  LET g == WithSwitch(f, i) IN
         /\ WellFormed(g, N)
         /\ DOMAIN g.layout = DOMAIN f.layout
         /\ DOMAIN g.code = DOMAIN f.code \cup {GlobalLoad(i), Switch(i)}
         /\ g.code[GlobalLoad(i)].op = "load"
         /\ g.code[GlobalLoad(i)].args = <<Global(SourceID(i))>>
         /\ g.code[Switch(i)].op = "switch"
         /\ g.code[Switch(i)].cases = <<>>
         /\ \A y \in DOMAIN f.code \ {GlobalLoad(i), Switch(i)} : Same(f, g, y)
<1> DEFINE load == Ins("load", "i64", <<Global(SourceID(i))>>)
           switch == [Ins("switch", "void", <<GlobalLoad(i)>>) EXCEPT !.to = <<Clone(i)>>]
           f1 == InsertBefore(f, i, GlobalLoad(i), load)
           f2 == InsertBefore(f1, i, Switch(i), switch)
<1>1. WithSwitch(f, i) = f2
  BY DEF WithSwitch
<1>2. GlobalLoad(i) \in N /\ Switch(i) \in N /\ GlobalLoad(i) # Switch(i)
  BY DEF Created, GlobalLoad, Switch
<1>3. IsIns(load) /\ load.op = "load" /\ load.args = <<Global(SourceID(i))>>
  BY InsIs, SingletonIs
<1>4. IsIns(switch) /\ switch.op = "switch" /\ switch.cases = <<>>
  <2>1. IsNew(switch, "switch", <<GlobalLoad(i)>>)
    BY NewInsIs, SingletonIs, Zenon
  <2> QED  BY <2>1 DEF IsNew
<1> HIDE DEF load, switch
<1>5. /\ WellFormed(f1, N) /\ DOMAIN f1.layout = DOMAIN f.layout
      /\ DOMAIN f1.code = DOMAIN f.code \cup {GlobalLoad(i)}
      /\ f1.code[GlobalLoad(i)] = load
      /\ \A y \in DOMAIN f.code \ {GlobalLoad(i)} : f1.code[y] = f.code[y]
  BY <1>2, <1>3, InsertBeforeIs
<1> HIDE DEF f1
<1>6. i \in DOMAIN f1.code
  BY <1>5
<1>7. /\ WellFormed(f2, N) /\ DOMAIN f2.layout = DOMAIN f1.layout
      /\ DOMAIN f2.code = DOMAIN f1.code \cup {Switch(i)}
      /\ f2.code[Switch(i)] = switch
      /\ \A y \in DOMAIN f1.code \ {Switch(i)} : f2.code[y] = f1.code[y]
  BY <1>2, <1>4, <1>5, <1>6, InsertBeforeIs
<1> HIDE DEF f2
<1> QED  BY <1>1, <1>2, <1>3, <1>4, <1>5, <1>7 DEF Same

LEMMA WithRestIs ==
  ASSUME NEW f, NEW N, WellFormed(f, N), NEW i \in DOMAIN f.code,
         Created(i) \subseteq N, Rest(i) \notin DOMAIN f.layout
  PROVE  LET g == WithRest(f, i) IN
         /\ WellFormed(g, N)
         /\ DOMAIN g.layout = DOMAIN f.layout \cup {Rest(i)}
         /\ DOMAIN g.code = DOMAIN f.code \ {SplitBr(i)}
         /\ \A y \in DOMAIN f.code \ {SplitBr(i)} : Same(f, g, y)
<1> DEFINE f1 == SplitBlock(f, i, Rest(i), SplitBr(i))
           f2 == Erase(f1, SplitBr(i))
<1>1. SplitBr(i) \in N
  BY DEF Created
<1>2. /\ WellFormed(f1, N)
      /\ DOMAIN f1.layout = DOMAIN f.layout \cup {Rest(i)}
      /\ Last(f1.layout[BlockOf(f, i)]) = SplitBr(i)
      /\ DOMAIN f1.code = DOMAIN f.code \cup {SplitBr(i)}
      /\ \A y \in DOMAIN f.code \ {SplitBr(i)} :
           /\ f1.code[y].op = f.code[y].op
           /\ f1.code[y].cases = f.code[y].cases
           /\ f1.code[y].args = f.code[y].args
  BY <1>1, SplitBlockIs
<1>3. WithRest(f, i) = f2
  BY <1>2 DEF WithRest, PopBack
<1> HIDE DEF f1
<1>4. SplitBr(i) \in DOMAIN f1.code
  BY <1>2
<1>5. /\ WellFormed(f2, N) /\ DOMAIN f2.layout = DOMAIN f1.layout
      /\ DOMAIN f2.code = DOMAIN f1.code \ {SplitBr(i)}
      /\ \A y \in DOMAIN f1.code \ {SplitBr(i)} : f2.code[y] = f1.code[y]
  BY <1>2, <1>4, EraseIs
<1> HIDE DEF f2
<1> QED  BY <1>2, <1>3, <1>5 DEF Same

LEMMA WithPhiIs ==
  ASSUME NEW f, NEW N, WellFormed(f, N), NEW i \in DOMAIN f.code,
         Created(i) \subseteq N
  PROVE  LET g == WithPhi(f, i) IN
         /\ WellFormed(g, N)
         /\ DOMAIN g.layout = DOMAIN f.layout
         /\ DOMAIN g.code = DOMAIN f.code \cup {Phi(i)}
         /\ g.code[Phi(i)].op = "phi"
         /\ \A y \in DOMAIN f.code \ {Phi(i)} :
              /\ g.code[y].op = f.code[y].op
              /\ g.code[y].cases = f.code[y].cases
              /\ g.code[y].args = [k \in DOMAIN f.code[y].args |->
                    IF f.code[y].args[k] = i THEN Phi(i) ELSE f.code[y].args[k]]
<1> DEFINE phi == [Ins("phi", f.code[i].ty, <<>>) EXCEPT !.in = {<<Clone(i), Clone(i)>>}]
           f1 == InsertBefore(f, i, Phi(i), phi)
           f2 == ReplaceAllUses(f1, i, Phi(i))
<1>1. WithPhi(f, i) = f2
  BY DEF WithPhi
<1>2. Phi(i) \in N
  BY DEF Created
<1>3. IsIns(phi) /\ phi.op = "phi"
  <2>1. IsNew(phi, "phi", <<>>)
    BY NewInsIs, EmptyIs, Zenon
  <2> QED  BY <2>1 DEF IsNew
<1> HIDE DEF phi
<1>4. /\ WellFormed(f1, N) /\ DOMAIN f1.layout = DOMAIN f.layout
      /\ DOMAIN f1.code = DOMAIN f.code \cup {Phi(i)}
      /\ f1.code[Phi(i)] = phi
      /\ \A y \in DOMAIN f.code \ {Phi(i)} : f1.code[y] = f.code[y]
  BY <1>2, <1>3, InsertBeforeIs
<1> HIDE DEF f1
<1>5. /\ WellFormed(f2, N) /\ f2.layout = f1.layout
      /\ DOMAIN f2.code = DOMAIN f1.code
      /\ \A y \in DOMAIN f1.code :
           /\ f2.code[y].op = f1.code[y].op
           /\ f2.code[y].cases = f1.code[y].cases
           /\ f2.code[y].args = [k \in DOMAIN f1.code[y].args |->
                IF f1.code[y].args[k] = i THEN Phi(i) ELSE f1.code[y].args[k]]
  BY <1>4, ReplaceAllUsesIs
<1> HIDE DEF f2
<1>6. ASSUME NEW y \in DOMAIN f.code \ {Phi(i)}
      PROVE  /\ f2.code[y].op = f.code[y].op
             /\ f2.code[y].cases = f.code[y].cases
             /\ f2.code[y].args = [k \in DOMAIN f.code[y].args |->
                   IF f.code[y].args[k] = i THEN Phi(i) ELSE f.code[y].args[k]]
  <2>1. y \in DOMAIN f1.code /\ f1.code[y] = f.code[y]
    BY <1>4
  <2> QED  BY <1>5, <2>1
<1>7. /\ WellFormed(f2, N)
      /\ DOMAIN f2.layout = DOMAIN f.layout
      /\ DOMAIN f2.code = DOMAIN f.code \cup {Phi(i)}
      /\ f2.code[Phi(i)].op = "phi"
  BY <1>3, <1>4, <1>5
<1> QED  BY <1>1, <1>6, <1>7

\* prepareInstruction: everything made for the site is there, and the rest of
\* the function is as it was, but for the uses of i.
LEMMA PreparedIs ==
  ASSUME NEW f, NEW N, WellFormed(f, N), NEW i \in DOMAIN f.code, i[1] = "orig",
         Created(i) \subseteq N,
         Clone(i) \notin DOMAIN f.layout, Rest(i) \notin DOMAIN f.layout
  PROVE  LET g == PreparedIR(f, i) IN
         /\ WellFormed(g, N)
         /\ DOMAIN g.layout = DOMAIN f.layout \cup {Clone(i), Rest(i)}
         /\ DOMAIN g.code = (DOMAIN f.code \cup Created(i)) \ {SplitBr(i)}
         /\ g.code[Clone(i)].op = f.code[i].op
         /\ g.code[CloneBr(i)].op = "br"
         /\ g.code[GlobalLoad(i)].op = "load"
         /\ g.code[GlobalLoad(i)].args = <<Global(SourceID(i))>>
         /\ g.code[Switch(i)].op = "switch"
         /\ g.code[Switch(i)].cases = <<>>
         /\ g.code[Phi(i)].op = "phi"
         /\ \A y \in DOMAIN f.code \ Created(i) :
              /\ g.code[y].op = f.code[y].op
              /\ g.code[y].cases = f.code[y].cases
              /\ (\A k \in DOMAIN f.code[y].args : f.code[y].args[k] # i)
                   => g.code[y].args = f.code[y].args
<1> DEFINE f1 == WithClone(f, i)
           f2 == WithSwitch(f1, i)
           f3 == WithRest(f2, i)
           f4 == WithPhi(f3, i)
<1>1. PreparedIR(f, i) = f4
  BY DEF PreparedIR
<1>2. /\ i \notin Created(i) /\ Clone(i) # Rest(i) /\ Global(SourceID(i)) # i
      /\ CloneBr(i) # Clone(i)
      /\ GlobalLoad(i) \notin {Clone(i), CloneBr(i), Switch(i), SplitBr(i), Phi(i)}
      /\ Switch(i) \notin {Clone(i), CloneBr(i), SplitBr(i), Phi(i)}
      /\ SplitBr(i) \notin {Clone(i), CloneBr(i), Phi(i)}
      /\ Phi(i) \notin {Clone(i), CloneBr(i)}
  BY DEF Created, Clone, CloneBr, GlobalLoad, Switch, SplitBr, Phi, Rest, Global
<1>3. /\ WellFormed(f1, N)
      /\ DOMAIN f1.layout = DOMAIN f.layout \cup {Clone(i)}
      /\ DOMAIN f1.code = DOMAIN f.code \cup {Clone(i), CloneBr(i)}
      /\ f1.code[Clone(i)].op = f.code[i].op
      /\ f1.code[CloneBr(i)].op = "br"
      /\ \A y \in DOMAIN f.code \ {Clone(i), CloneBr(i)} : Same(f, f1, y)
  BY WithCloneIs
<1> HIDE DEF f1
<1>4. i \in DOMAIN f1.code
  BY <1>3
<1>5. /\ WellFormed(f2, N)
      /\ DOMAIN f2.layout = DOMAIN f1.layout
      /\ DOMAIN f2.code = DOMAIN f1.code \cup {GlobalLoad(i), Switch(i)}
      /\ f2.code[GlobalLoad(i)].op = "load"
      /\ f2.code[GlobalLoad(i)].args = <<Global(SourceID(i))>>
      /\ f2.code[Switch(i)].op = "switch"
      /\ f2.code[Switch(i)].cases = <<>>
      /\ \A y \in DOMAIN f1.code \ {GlobalLoad(i), Switch(i)} : Same(f1, f2, y)
  BY <1>3, <1>4, WithSwitchIs
<1> HIDE DEF f2
<1>6. i \in DOMAIN f2.code /\ Rest(i) \notin DOMAIN f2.layout
  BY <1>2, <1>3, <1>5
<1>7. /\ WellFormed(f3, N)
      /\ DOMAIN f3.layout = DOMAIN f2.layout \cup {Rest(i)}
      /\ DOMAIN f3.code = DOMAIN f2.code \ {SplitBr(i)}
      /\ \A y \in DOMAIN f2.code \ {SplitBr(i)} : Same(f2, f3, y)
  BY <1>5, <1>6, WithRestIs
<1> HIDE DEF f3
<1>8. i \in DOMAIN f3.code
  BY <1>2, <1>6, <1>7 DEF Created
<1>9. /\ WellFormed(f4, N)
      /\ DOMAIN f4.layout = DOMAIN f3.layout
      /\ DOMAIN f4.code = DOMAIN f3.code \cup {Phi(i)}
      /\ f4.code[Phi(i)].op = "phi"
      /\ \A y \in DOMAIN f3.code \ {Phi(i)} :
           /\ f4.code[y].op = f3.code[y].op
           /\ f4.code[y].cases = f3.code[y].cases
           /\ f4.code[y].args = [k \in DOMAIN f3.code[y].args |->
                 IF f3.code[y].args[k] = i THEN Phi(i) ELSE f3.code[y].args[k]]
  BY <1>7, <1>8, WithPhiIs
<1> HIDE DEF f4
<1>10. \A y \in DOMAIN f3.code \ {Phi(i)} :
         (\A k \in DOMAIN f3.code[y].args : f3.code[y].args[k] # i)
           => f4.code[y].args = f3.code[y].args
  <2> SUFFICES ASSUME NEW y \in DOMAIN f3.code \ {Phi(i)},
                      \A k \in DOMAIN f3.code[y].args : f3.code[y].args[k] # i
               PROVE  f4.code[y].args = f3.code[y].args
    OBVIOUS
  <2>1. f3.code[y].args = [k \in DOMAIN f3.code[y].args |-> f3.code[y].args[k]]
    BY <1>7 DEF WellFormed, IsIns
  <2> QED  BY <1>9, <2>1
<1>11. /\ DOMAIN f4.layout = DOMAIN f.layout \cup {Clone(i), Rest(i)}
       /\ DOMAIN f4.code = (DOMAIN f.code \cup Created(i)) \ {SplitBr(i)}
  BY <1>2, <1>3, <1>5, <1>7, <1>9 DEF Created
<1>12. ASSUME NEW y \in DOMAIN f.code \ Created(i)
       PROVE  /\ f4.code[y].op = f.code[y].op
              /\ f4.code[y].cases = f.code[y].cases
              /\ (\A k \in DOMAIN f.code[y].args : f.code[y].args[k] # i)
                   => f4.code[y].args = f.code[y].args
  <2>1. Same(f, f1, y) /\ Same(f1, f2, y) /\ Same(f2, f3, y)
    BY <1>3, <1>5, <1>7 DEF Created, Same
  <2>2. y \in DOMAIN f3.code \ {Phi(i)}
    BY <2>1 DEF Created, Same
  <2>3. /\ f3.code[y].op = f.code[y].op
        /\ f3.code[y].cases = f.code[y].cases
        /\ f3.code[y].args = f.code[y].args
    BY <2>1 DEF Same
  <2>4. f4.code[y].op = f.code[y].op /\ f4.code[y].cases = f.code[y].cases
    BY <1>9, <2>2, <2>3
  <2>5. ASSUME \A k \in DOMAIN f.code[y].args : f.code[y].args[k] # i
        PROVE  f4.code[y].args = f.code[y].args
    BY <1>10, <2>2, <2>3, <2>5
  <2> QED  BY <2>4, <2>5
<1>13. f4.code[Clone(i)].op = f.code[i].op /\ f4.code[CloneBr(i)].op = "br"
  <2>1. ASSUME NEW y \in {Clone(i), CloneBr(i)} PROVE f4.code[y].op = f1.code[y].op
    <3>1. Same(f1, f2, y) /\ Same(f2, f3, y)
      BY <1>2, <1>3, <1>5, <1>7 DEF Same
    <3>2. y \in DOMAIN f3.code \ {Phi(i)}
      BY <1>2, <3>1 DEF Same
    <3> QED  BY <1>9, <3>1, <3>2 DEF Same
  <2> QED  BY <1>3, <2>1
<1>14. /\ f4.code[GlobalLoad(i)].op = "load"
       /\ f4.code[GlobalLoad(i)].args = <<Global(SourceID(i))>>
       /\ f4.code[Switch(i)].op = "switch"
       /\ f4.code[Switch(i)].cases = <<>>
  <2>1. ASSUME NEW y \in {GlobalLoad(i), Switch(i)}
        PROVE  Same(f2, f3, y) /\ y \in DOMAIN f3.code \ {Phi(i)}
    BY <1>2, <1>5, <1>7 DEF Same
  <2>2. f3.code[GlobalLoad(i)].args = <<Global(SourceID(i))>>
    BY <1>5, <2>1 DEF Same
  <2>3. \A k \in DOMAIN f3.code[GlobalLoad(i)].args : f3.code[GlobalLoad(i)].args[k] # i
    BY <1>2, <2>2
  <2> QED  BY <1>5, <1>9, <1>10, <2>1, <2>2, <2>3 DEF Same
<1> QED  BY <1>1, <1>9, <1>11, <1>12, <1>13, <1>14

LEMMA ReplacementIs ==
  ASSUME NEW ins, IsIns(ins), NEW candidate
  PROVE  /\ IsIns(Replacement(ins, candidate))
         /\ Replacement(ins, candidate).op = IF ins.op = "load" THEN "load" ELSE candidate
<1>1. CASE ins.op = "load"
  <2> DEFINE args == <<candidate>>
             x == [ins EXCEPT !.args = args]
  <2>1. args = [k \in DOMAIN args |-> args[k]]
    OBVIOUS
  <2> HIDE DEF args
  <2>2. x = [op |-> ins.op, ty |-> ins.ty, args |-> args,
             to |-> ins.to, in |-> ins.in, cases |-> ins.cases]
    BY ChangedIns
  <2>3. Replacement(ins, candidate) = x
    BY <1>1 DEF Replacement, args
  <2> HIDE DEF x
  <2> QED  BY <1>1, <2>1, <2>2, <2>3 DEF IsIns
<1>2. CASE ins.op # "load"
  <2> DEFINE x == [ins EXCEPT !.op = candidate]
  <2>1. x = [op |-> candidate, ty |-> ins.ty, args |-> ins.args,
             to |-> ins.to, in |-> ins.in, cases |-> ins.cases]
    BY ChangedIns
  <2>2. Replacement(ins, candidate) = x
    BY <1>2 DEF Replacement
  <2> HIDE DEF x
  <2> QED  BY <1>2, <2>1, <2>2 DEF IsIns
<1> QED  BY <1>1, <1>2

\* Mutation::inject: one replacement and one jump, in the block it is given.
LEMMA InjectReplacementIs ==
  ASSUME NEW f, NEW N, WellFormed(f, N), NEW i \in DOMAIN f.code,
         NEW n, Mutant(n) \in DOMAIN f.layout, NEW phi \in DOMAIN f.code,
         Mutant(n) \in N, MutantBr(n) \in N, phi \notin {Mutant(n), MutantBr(n)},
         NEW candidate, NEW rest
  PROVE  LET g == InjectReplacement(f, i, candidate, Mutant(n), rest, phi) IN
         /\ WellFormed(g, N)
         /\ DOMAIN g.layout = DOMAIN f.layout
         /\ DOMAIN g.code = DOMAIN f.code \cup {Mutant(n), MutantBr(n)}
         /\ g.code[Mutant(n)].op =
              IF f.code[i].op = "load" THEN "load" ELSE candidate
         /\ g.code[MutantBr(n)].op = "br"
         /\ g.code[phi].op = f.code[phi].op
         /\ \A y \in DOMAIN f.code \ {Mutant(n), MutantBr(n), phi} :
              g.code[y] = f.code[y]
<1> DEFINE b == Mutant(n)
           ins == Replacement(f.code[i], candidate)
           f1 == PushBack(f, b, Mutant(n), ins)
           f2 == AddIncoming(f1, phi, Mutant(n), b)
           f3 == PushBack(f2, b, MutantBr(n), Jump(rest))
<1>1. InjectReplacement(f, i, candidate, b, rest, phi) = f3
  BY DEF InjectReplacement, Mutant
<1>2. b \in DOMAIN f.layout /\ Mutant(n) \in N /\ MutantBr(n) \in N
  OBVIOUS
<1>3. IsIns(ins) /\ ins.op = IF f.code[i].op = "load" THEN "load" ELSE candidate
  BY ReplacementIs DEF WellFormed
<1>4. Mutant(n) # MutantBr(n)
  BY DEF Mutant, MutantBr
<1> HIDE DEF b, ins
<1>5. /\ WellFormed(f1, N) /\ DOMAIN f1.layout = DOMAIN f.layout
      /\ DOMAIN f1.code = DOMAIN f.code \cup {Mutant(n)}
      /\ f1.code[Mutant(n)] = ins
      /\ \A y \in DOMAIN f.code \ {Mutant(n)} : f1.code[y] = f.code[y]
  BY <1>2, <1>3, PushBackIs
<1> HIDE DEF f1
<1>6. phi \in DOMAIN f1.code
  BY <1>5
<1>7. /\ WellFormed(f2, N) /\ f2.layout = f1.layout
      /\ DOMAIN f2.code = DOMAIN f1.code
      /\ f2.code[phi].op = f1.code[phi].op
      /\ \A y \in DOMAIN f1.code \ {phi} : f2.code[y] = f1.code[y]
  BY <1>5, <1>6, AddIncomingIs
<1> HIDE DEF f2
<1>8. b \in DOMAIN f2.layout /\ IsIns(Jump(rest)) /\ Jump(rest).op = "br"
  BY <1>2, <1>5, <1>7, JumpIs
<1>9. /\ WellFormed(f3, N) /\ DOMAIN f3.layout = DOMAIN f2.layout
      /\ DOMAIN f3.code = DOMAIN f2.code \cup {MutantBr(n)}
      /\ f3.code[MutantBr(n)] = Jump(rest)
      /\ \A y \in DOMAIN f2.code \ {MutantBr(n)} : f3.code[y] = f2.code[y]
  BY <1>2, <1>7, <1>8, PushBackIs
<1> HIDE DEF f3
<1>10. f3.code[Mutant(n)] = ins
  BY <1>4, <1>5, <1>7, <1>9
<1>11. f3.code[phi].op = f.code[phi].op
  BY <1>5, <1>6, <1>7, <1>9
<1>12. \A y \in DOMAIN f.code \ {Mutant(n), MutantBr(n), phi} : f3.code[y] = f.code[y]
  BY <1>5, <1>7, <1>9
<1> QED  BY <1>1, <1>3, <1>5, <1>7, <1>8, <1>9, <1>10, <1>11, <1>12 DEF b

\* What inject adds to a prepared function: the block of mutation n and a case
\* of the switch of its site.
Injected(f, i, n, candidate) ==
  InjectReplacement(AddCase(AddBlock(f, Mutant(n)), Switch(i), n, Mutant(n)),
                    i, candidate, Mutant(n), Rest(i), Phi(i))

LEMMA InjectedIs ==
  ASSUME NEW f, NEW N, WellFormed(f, N), NEW i \in DOMAIN f.code, i[1] = "orig",
         NEW n, Mutant(n) \notin DOMAIN f.layout,
         Mutant(n) \in N, MutantBr(n) \in N,
         Switch(i) \in DOMAIN f.code, Phi(i) \in DOMAIN f.code, NEW candidate
  PROVE  LET g == Injected(f, i, n, candidate) IN
         /\ WellFormed(g, N)
         /\ DOMAIN g.layout = DOMAIN f.layout \cup {Mutant(n)}
         /\ DOMAIN g.code = DOMAIN f.code \cup {Mutant(n), MutantBr(n)}
         /\ g.code[Mutant(n)].op =
              IF f.code[i].op = "load" THEN "load" ELSE candidate
         /\ g.code[MutantBr(n)].op = "br"
         /\ g.code[Phi(i)].op = f.code[Phi(i)].op
         /\ g.code[Switch(i)].op = f.code[Switch(i)].op
         /\ g.code[Switch(i)].cases = Append(f.code[Switch(i)].cases, n)
         /\ \A y \in DOMAIN f.code \ {Mutant(n), MutantBr(n), Phi(i), Switch(i)} :
              g.code[y] = f.code[y]
<1> DEFINE f1 == AddBlock(f, Mutant(n))
           f2 == AddCase(f1, Switch(i), n, Mutant(n))
           f3 == InjectReplacement(f2, i, candidate, Mutant(n), Rest(i), Phi(i))
<1>1. Injected(f, i, n, candidate) = f3
  BY DEF Injected
<1>2. /\ i \notin {Switch(i), Mutant(n), MutantBr(n)}
      /\ Phi(i) \notin {Switch(i), Mutant(n), MutantBr(n)}
      /\ Switch(i) \notin {Mutant(n), MutantBr(n)}
  BY DEF Switch, Phi, Mutant, MutantBr
<1>3. /\ WellFormed(f1, N)
      /\ DOMAIN f1.layout = DOMAIN f.layout \cup {Mutant(n)}
      /\ f1.code = f.code
  BY AddBlockIs
<1> HIDE DEF f1
<1>4. Switch(i) \in DOMAIN f1.code
  BY <1>3
<1>5. /\ WellFormed(f2, N)
      /\ f2.layout = f1.layout
      /\ DOMAIN f2.code = DOMAIN f1.code
      /\ f2.code[Switch(i)].op = f1.code[Switch(i)].op
      /\ f2.code[Switch(i)].cases = Append(f1.code[Switch(i)].cases, n)
      /\ \A y \in DOMAIN f1.code \ {Switch(i)} : f2.code[y] = f1.code[y]
  BY <1>3, <1>4, AddCaseIs
<1> HIDE DEF f2
<1>6. i \in DOMAIN f2.code /\ Phi(i) \in DOMAIN f2.code /\ Mutant(n) \in DOMAIN f2.layout
  BY <1>3, <1>5
<1>7. /\ WellFormed(f3, N)
      /\ DOMAIN f3.layout = DOMAIN f2.layout
      /\ DOMAIN f3.code = DOMAIN f2.code \cup {Mutant(n), MutantBr(n)}
      /\ f3.code[Mutant(n)].op =
           IF f2.code[i].op = "load" THEN "load" ELSE candidate
      /\ f3.code[MutantBr(n)].op = "br"
      /\ f3.code[Phi(i)].op = f2.code[Phi(i)].op
      /\ \A y \in DOMAIN f2.code \ {Mutant(n), MutantBr(n), Phi(i)} :
           f3.code[y] = f2.code[y]
  BY <1>2, <1>5, <1>6, InjectReplacementIs
<1> HIDE DEF f3
<1>8. f2.code[i].op = f.code[i].op /\ f2.code[Phi(i)].op = f.code[Phi(i)].op
  BY <1>2, <1>3, <1>5
<1>9. f3.code[Switch(i)] = f2.code[Switch(i)]
  BY <1>2, <1>3, <1>5, <1>7
<1>10. \A y \in DOMAIN f.code \ {Mutant(n), MutantBr(n), Phi(i), Switch(i)} :
         f3.code[y] = f.code[y]
  BY <1>3, <1>5, <1>7
<1> QED  BY <1>1, <1>3, <1>5, <1>7, <1>8, <1>9, <1>10
-------------------------------------------------------------------------------
(* The same compositions, place by place.                                  *)

\* The instructions made for site i are all new to f.
IsNewSite(f, N, i) ==
  /\ WellFormed(f, N) /\ OnePlace(f) /\ i \in DOMAIN f.code /\ i[1] = "orig"
  /\ Created(i) \subseteq N /\ Created(i) \cap DOMAIN f.code = {}
  /\ Clone(i) \notin DOMAIN f.layout /\ Rest(i) \notin DOMAIN f.layout

LEMMA WithCloneAt ==
  ASSUME NEW f, NEW N, NEW i, IsNewSite(f, N, i)
  PROVE  LET g == WithClone(f, i) IN
         /\ g.entry = f.entry
         /\ DOMAIN g.layout = DOMAIN f.layout \cup {Clone(i)}
         /\ g.layout[Clone(i)] = << Clone(i), CloneBr(i) >>
         /\ \A c \in DOMAIN f.layout : g.layout[c] = f.layout[c]
         /\ DOMAIN g.code = DOMAIN f.code \cup {Clone(i), CloneBr(i)}
         /\ g.code[Clone(i)] = f.code[i] /\ g.code[CloneBr(i)] = Jump(Rest(i))
         /\ \A y \in DOMAIN f.code : g.code[y] = f.code[y]
         /\ WellFormed(g, N) /\ OnePlace(g)
<1> DEFINE b == Clone(i)
           f1 == AddBlock(f, b)
           f2 == PushBack(f1, b, Clone(i), f.code[i])
           f3 == PushBack(f2, b, CloneBr(i), Jump(Rest(i)))
<1> USE DEF IsNewSite
<1>1. WithClone(f, i) = f3
  BY DEF WithClone
<1>2. /\ IsIns(f.code[i]) /\ Clone(i) \in N /\ CloneBr(i) \in N
      /\ Clone(i) # CloneBr(i) /\ {Clone(i), CloneBr(i)} \cap DOMAIN f.code = {}
      /\ IsIns(Jump(Rest(i)))
  BY JumpIs DEF WellFormed, Created, Clone, CloneBr
<1>3. /\ WellFormed(f1, N) /\ f1.code = f.code /\ f1.entry = f.entry
      /\ DOMAIN f1.layout = DOMAIN f.layout \cup {b}
      /\ f1.layout[b] = <<>>
      /\ \A c \in DOMAIN f.layout : f1.layout[c] = f.layout[c]
      /\ OnePlace(f1)
  BY AddBlockIs, AddBlockAt
<1> HIDE DEF f1
<1>4. b \in DOMAIN f1.layout /\ Clone(i) \notin DOMAIN f1.code
  BY <1>2, <1>3
<1>5. /\ WellFormed(f2, N)
      /\ DOMAIN f2.code = DOMAIN f1.code \cup {Clone(i)}
      /\ f2.code[Clone(i)] = f.code[i]
      /\ \A y \in DOMAIN f1.code \ {Clone(i)} : f2.code[y] = f1.code[y]
  BY <1>2, <1>3, <1>4, PushBackIs
<1>6. /\ f2.entry = f1.entry /\ DOMAIN f2.layout = DOMAIN f1.layout
      /\ f2.layout[b] = Append(f1.layout[b], Clone(i))
      /\ \A c \in DOMAIN f1.layout : c # b => f2.layout[c] = f1.layout[c]
      /\ OnePlace(f2)
  BY <1>2, <1>3, <1>4, PushBackAt
<1> HIDE DEF f2
<1>7. /\ DOMAIN f2.code = DOMAIN f.code \cup {Clone(i)}
      /\ f2.code[Clone(i)] = f.code[i]
      /\ \A y \in DOMAIN f.code : f2.code[y] = f.code[y]
  BY <1>2, <1>3, <1>5
<1>8. b \in DOMAIN f2.layout /\ CloneBr(i) \notin DOMAIN f2.code
  BY <1>2, <1>4, <1>6, <1>7
<1>9. /\ WellFormed(f3, N)
      /\ DOMAIN f3.code = DOMAIN f2.code \cup {CloneBr(i)}
      /\ f3.code[CloneBr(i)] = Jump(Rest(i))
      /\ \A y \in DOMAIN f2.code \ {CloneBr(i)} : f3.code[y] = f2.code[y]
  BY <1>2, <1>5, <1>8, PushBackIs
<1>10. /\ f3.entry = f2.entry /\ DOMAIN f3.layout = DOMAIN f2.layout
       /\ f3.layout[b] = Append(f2.layout[b], CloneBr(i))
       /\ \A c \in DOMAIN f2.layout : c # b => f3.layout[c] = f2.layout[c]
       /\ OnePlace(f3)
  BY <1>2, <1>5, <1>6, <1>8, PushBackAt
<1> HIDE DEF f3
<1>11. \A y \in DOMAIN f2.code : f3.code[y] = f2.code[y]
  BY <1>8, <1>9
<1>12. f3.layout[b] = << Clone(i), CloneBr(i) >>
  BY <1>3, <1>6, <1>10, PairIs
<1> QED  BY <1>1, <1>3, <1>6, <1>7, <1>9, <1>10, <1>11, <1>12

LEMMA WithSwitchAt ==
  ASSUME NEW f, NEW N, WellFormed(f, N), OnePlace(f), NEW i \in DOMAIN f.code,
         NEW b, NEW k, OnlyAt(f, i, b, k),
         GlobalLoad(i) \in N, GlobalLoad(i) \notin DOMAIN f.code,
         Switch(i) \in N, Switch(i) \notin DOMAIN f.code
  PROVE  LET g == WithSwitch(f, i)
             s == f.layout[b]
         IN
         /\ g.entry = f.entry
         /\ DOMAIN g.layout = DOMAIN f.layout
         /\ g.layout[b] \in Seq(N) /\ Len(g.layout[b]) = Len(s) + 2
         /\ \A j \in 1 .. k - 1 : g.layout[b][j] = s[j]
         /\ g.layout[b][k] = GlobalLoad(i) /\ g.layout[b][k + 1] = Switch(i)
         /\ \A j \in k .. Len(s) : g.layout[b][j + 2] = s[j]
         /\ \A c \in DOMAIN f.layout : c # b => g.layout[c] = f.layout[c]
         /\ DOMAIN g.code = DOMAIN f.code \cup {GlobalLoad(i), Switch(i)}
         /\ g.code[GlobalLoad(i)] = Ins("load", "i64", <<Global(SourceID(i))>>)
         /\ g.code[Switch(i)] =
              [Ins("switch", "void", <<GlobalLoad(i)>>) EXCEPT !.to = <<Clone(i)>>]
         /\ \A y \in DOMAIN f.code : g.code[y] = f.code[y]
         /\ WellFormed(g, N) /\ OnePlace(g)
<1> DEFINE load == Ins("load", "i64", <<Global(SourceID(i))>>)
           switch == [Ins("switch", "void", <<GlobalLoad(i)>>) EXCEPT !.to = <<Clone(i)>>]
           f1 == InsertBefore(f, i, GlobalLoad(i), load)
           f2 == InsertBefore(f1, i, Switch(i), switch)
           s == f.layout[b]
           t == f1.layout[b]
           u == f2.layout[b]
<1>1. WithSwitch(f, i) = f2
  BY DEF WithSwitch
<1>2. IsIns(load) /\ IsIns(switch)
  <2>1. IsNew(switch, "switch", <<GlobalLoad(i)>>)
    BY NewInsIs, SingletonIs, Zenon
  <2> QED  BY <2>1, InsIs, SingletonIs DEF IsNew
<1> HIDE DEF load, switch
<1>3. /\ WellFormed(f1, N)
      /\ DOMAIN f1.code = DOMAIN f.code \cup {GlobalLoad(i)}
      /\ f1.code[GlobalLoad(i)] = load
      /\ \A y \in DOMAIN f.code \ {GlobalLoad(i)} : f1.code[y] = f.code[y]
  BY <1>2, InsertBeforeIs
<1>4. /\ f1.entry = f.entry /\ DOMAIN f1.layout = DOMAIN f.layout
      /\ t \in Seq(N) /\ Inserted(s, k, GlobalLoad(i), t)
      /\ \A c \in DOMAIN f.layout : c # b => f1.layout[c] = f.layout[c]
      /\ OnePlace(f1)
  BY InsertBeforeAt
<1>5. b \in DOMAIN f.layout /\ s \in Seq(N) /\ k \in 1 .. Len(s) /\ s[k] = i
  BY OnlyAtIs DEF OnlyAt
<1> HIDE DEF f1, s
<1>6. OnlyAt(f1, i, b, k + 1)
  <2>1. k + 1 \in DOMAIN t /\ t[k + 1] = i
    <3> HIDE DEF t
    <3> QED  BY <1>4, <1>5 DEF Inserted
  <2> QED  BY <1>4, <1>5, <2>1, PlaceIs
<1>7. i \in DOMAIN f1.code /\ Switch(i) \notin DOMAIN f1.code
  BY <1>3 DEF Switch, GlobalLoad
<1>8. /\ WellFormed(f2, N)
      /\ DOMAIN f2.code = DOMAIN f1.code \cup {Switch(i)}
      /\ f2.code[Switch(i)] = switch
      /\ \A y \in DOMAIN f1.code \ {Switch(i)} : f2.code[y] = f1.code[y]
  BY <1>2, <1>3, <1>7, InsertBeforeIs
<1>9. /\ f2.entry = f1.entry /\ DOMAIN f2.layout = DOMAIN f1.layout
      /\ u \in Seq(N) /\ Inserted(t, k + 1, Switch(i), u)
      /\ \A c \in DOMAIN f1.layout : c # b => f2.layout[c] = f1.layout[c]
      /\ OnePlace(f2)
  BY <1>3, <1>4, <1>6, <1>7, InsertBeforeAt
<1> HIDE DEF f2
<1>10. /\ u \in Seq(N) /\ Len(u) = Len(s) + 2
       /\ \A j \in 1 .. k - 1 : u[j] = s[j]
       /\ u[k] = GlobalLoad(i) /\ u[k + 1] = Switch(i)
       /\ \A j \in k .. Len(s) : u[j + 2] = s[j]
  <2> HIDE DEF t, u
  <2>1. /\ Len(t) = Len(s) + 1 /\ t[k] = GlobalLoad(i)
        /\ \A j \in 1 .. k - 1 : t[j] = s[j]
        /\ \A j \in k .. Len(s) : t[j + 1] = s[j]
    BY <1>4 DEF Inserted
  <2>2. /\ Len(u) = Len(t) + 1 /\ u[k + 1] = Switch(i)
        /\ \A j \in 1 .. (k + 1) - 1 : u[j] = t[j]
        /\ \A j \in k + 1 .. Len(t) : u[j + 1] = t[j]
    BY <1>9 DEF Inserted
  <2>3. \A j \in k .. Len(s) : u[j + 2] = s[j]
    <3> SUFFICES ASSUME NEW j \in k .. Len(s) PROVE u[j + 2] = s[j]
      OBVIOUS
    <3>1. j + 1 \in k + 1 .. Len(t) /\ (j + 1) + 1 = j + 2
      BY <1>5, <2>1
    <3>2. u[(j + 1) + 1] = t[j + 1]
      BY <2>2, <3>1
    <3> QED  BY <2>1, <3>1, <3>2
  <2> QED  BY <1>5, <1>9, <2>1, <2>2, <2>3
<1>11. /\ DOMAIN f2.code = DOMAIN f.code \cup {GlobalLoad(i), Switch(i)}
       /\ f2.code[GlobalLoad(i)] = load /\ f2.code[Switch(i)] = switch
       /\ \A y \in DOMAIN f.code : f2.code[y] = f.code[y]
  BY <1>3, <1>7, <1>8
<1> QED  BY <1>1, <1>4, <1>8, <1>9, <1>10, <1>11 DEF load, switch, s

\* The jump that the split adds is gone again.
LEMMA WithRestAt ==
  ASSUME NEW f, NEW N, WellFormed(f, N), OnePlace(f), NEW i \in DOMAIN f.code,
         NEW b, NEW k, OnlyAt(f, i, b, k), Rest(i) \notin DOMAIN f.layout,
         SplitBr(i) \in N, SplitBr(i) \notin DOMAIN f.code
  PROVE  LET g == WithRest(f, i)
             s == f.layout[b]
         IN
         /\ g.entry = f.entry
         /\ DOMAIN g.layout = DOMAIN f.layout \cup {Rest(i)}
         /\ g.layout[b] \in Seq(N) /\ Len(g.layout[b]) = k - 1
         /\ \A j \in 1 .. k - 1 : g.layout[b][j] = s[j]
         /\ g.layout[Rest(i)] \in Seq(N) /\ Len(g.layout[Rest(i)]) = Len(s) - k + 1
         /\ \A j \in 1 .. Len(s) - k + 1 : g.layout[Rest(i)][j] = s[k + j - 1]
         /\ \A c \in DOMAIN f.layout : c # b => g.layout[c] = f.layout[c]
         /\ DOMAIN g.code = DOMAIN f.code
         /\ \A y \in DOMAIN f.code :
              /\ g.code[y].op = f.code[y].op
              /\ g.code[y].to = f.code[y].to
              /\ g.code[y].cases = f.code[y].cases
              /\ g.code[y].args = f.code[y].args
              /\ g.code[y].in =
                   {<<e[1], IF e[2] = b THEN Rest(i) ELSE e[2]>> : e \in f.code[y].in}
         /\ WellFormed(g, N) /\ OnePlace(g)
<1> DEFINE f1 == SplitBlock(f, i, Rest(i), SplitBr(i))
           f2 == Erase(f1, SplitBr(i))
           s == f.layout[b]
           t == f1.layout[b]
           u == f2.layout[b]
           r == f1.layout[Rest(i)]
           In(y) == {<<e[1], IF e[2] = b THEN Rest(i) ELSE e[2]>> : e \in f.code[y].in}
<1>1. /\ WellFormed(f1, N)
      /\ Last(f1.layout[BlockOf(f, i)]) = SplitBr(i)
  BY SplitBlockIs
<1>2. /\ f1.entry = f.entry
      /\ DOMAIN f1.layout = DOMAIN f.layout \cup {Rest(i)}
      /\ t \in Seq(N) /\ Len(t) = k /\ t[k] = SplitBr(i)
      /\ \A j \in 1 .. k - 1 : t[j] = s[j]
      /\ r \in Seq(N) /\ Len(r) = Len(s) - k + 1
      /\ \A j \in 1 .. Len(s) - k + 1 : r[j] = s[k + j - 1]
      /\ \A c \in DOMAIN f.layout : c # b => f1.layout[c] = f.layout[c]
      /\ DOMAIN f1.code = DOMAIN f.code \cup {SplitBr(i)}
      /\ \A y \in DOMAIN f.code :
           /\ f1.code[y].op = f.code[y].op
           /\ f1.code[y].to = f.code[y].to
           /\ f1.code[y].cases = f.code[y].cases
           /\ f1.code[y].args = f.code[y].args
           /\ f1.code[y].in = In(y)
      /\ OnePlace(f1)
  BY SplitBlockAt
<1>3. WithRest(f, i) = f2
  BY <1>1 DEF WithRest, PopBack
<1>4. /\ BlockOf(f, i) = b /\ b \in DOMAIN f.layout /\ b # Rest(i)
      /\ s \in Seq(N) /\ k \in 1 .. Len(s) /\ s[k] = i
  BY OnlyAtIs DEF OnlyAt
<1> HIDE DEF f1, s, In
<1>5. OnlyAt(f1, SplitBr(i), b, k)
  <2>1. k \in DOMAIN t /\ t[k] = SplitBr(i)
    <3> HIDE DEF t
    <3> QED  BY <1>2, <1>4
  <2> QED  BY <1>2, <1>4, <2>1, PlaceIs
<1>6. SplitBr(i) \in DOMAIN f1.code
  BY <1>2
<1>7. WellFormed(f2, N)
  BY <1>1, <1>6, EraseIs
<1>8. /\ f2.entry = f1.entry
      /\ DOMAIN f2.layout = DOMAIN f1.layout
      /\ u \in Seq(N) /\ Removed(t, k, u)
      /\ \A c \in DOMAIN f1.layout : c # b => f2.layout[c] = f1.layout[c]
      /\ DOMAIN f2.code = DOMAIN f1.code \ {SplitBr(i)}
      /\ \A y \in DOMAIN f1.code \ {SplitBr(i)} : f2.code[y] = f1.code[y]
      /\ OnePlace(f2)
  BY <1>1, <1>2, <1>5, <1>6, EraseAt
<1> HIDE DEF f2
<1>9. Len(u) = k - 1 /\ \A j \in 1 .. k - 1 : u[j] = s[j]
  <2> HIDE DEF t, u
  <2> QED  BY <1>2, <1>4, <1>8 DEF Removed
<1>10. f2.layout[Rest(i)] = r
  BY <1>2, <1>4, <1>8
<1>11. /\ DOMAIN f2.layout = DOMAIN f.layout \cup {Rest(i)}
       /\ \A c \in DOMAIN f.layout : c # b => f2.layout[c] = f.layout[c]
  BY <1>2, <1>8
<1>12. /\ DOMAIN f2.code = DOMAIN f.code
       /\ \A y \in DOMAIN f.code :
            /\ f2.code[y].op = f.code[y].op
            /\ f2.code[y].to = f.code[y].to
            /\ f2.code[y].cases = f.code[y].cases
            /\ f2.code[y].args = f.code[y].args
            /\ f2.code[y].in = In(y)
  BY <1>2, <1>8
<1>13. f2.entry = f.entry
  BY <1>2, <1>8
<1> HIDE DEF r
<1> QED  BY <1>2, <1>3, <1>7, <1>8, <1>9, <1>10, <1>11, <1>12, <1>13 DEF s, In

LEMMA WithPhiAt ==
  ASSUME NEW f, NEW N, WellFormed(f, N), OnePlace(f), NEW i \in DOMAIN f.code, i[1] = "orig",
         NEW b, NEW k, OnlyAt(f, i, b, k), Phi(i) \in N, Phi(i) \notin DOMAIN f.code
  PROVE  LET g == WithPhi(f, i) IN
         /\ g.entry = f.entry
         /\ DOMAIN g.layout = DOMAIN f.layout
         /\ g.layout[b] \in Seq(N) /\ Inserted(f.layout[b], k, Phi(i), g.layout[b])
         /\ \A c \in DOMAIN f.layout : c # b => g.layout[c] = f.layout[c]
         /\ DOMAIN g.code = DOMAIN f.code \cup {Phi(i)}
         /\ g.code[Phi(i)].op = "phi" /\ g.code[Phi(i)].to = <<>>
         /\ g.code[Phi(i)].args = <<>> /\ g.code[Phi(i)].cases = <<>>
         /\ g.code[Phi(i)].in = {<<Clone(i), Clone(i)>>}
         /\ \A y \in DOMAIN f.code :
              /\ g.code[y].op = f.code[y].op
              /\ g.code[y].to = f.code[y].to
              /\ g.code[y].cases = f.code[y].cases
              /\ g.code[y].args = [l \in DOMAIN f.code[y].args |->
                    IF f.code[y].args[l] = i THEN Phi(i) ELSE f.code[y].args[l]]
              /\ g.code[y].in =
                   {<<IF e[1] = i THEN Phi(i) ELSE e[1], e[2]>> : e \in f.code[y].in}
         /\ WellFormed(g, N) /\ OnePlace(g)
<1> DEFINE phi == [Ins("phi", f.code[i].ty, <<>>) EXCEPT !.in = {<<Clone(i), Clone(i)>>}]
           f1 == InsertBefore(f, i, Phi(i), phi)
           f2 == ReplaceAllUses(f1, i, Phi(i))
           V(v) == IF v = i THEN Phi(i) ELSE v
<1>1. WithPhi(f, i) = f2
  BY DEF WithPhi
<1>2. /\ IsIns(phi) /\ phi.op = "phi" /\ phi.args = <<>> /\ phi.cases = <<>>
      /\ phi.to = <<>> /\ phi.in = {<<Clone(i), Clone(i)>>}
  <2>1. IsNew(phi, "phi", <<>>)
    BY NewInsIs, EmptyIs, Zenon
  <2>2. phi.to = <<>> /\ phi.in = {<<Clone(i), Clone(i)>>}
    <3> DEFINE v == {<<Clone(i), Clone(i)>>}
               none == <<>>
               ty == f.code[i].ty
    <3>1. none = [l \in DOMAIN none |-> none[l]]
      BY EmptyIs
    <3>2. phi = [Ins("phi", ty, none) EXCEPT !.in = v]
      OBVIOUS
    <3> HIDE DEF v, none, ty, phi
    <3>3. phi.to = <<>> /\ phi.in = v
      BY <3>1, <3>2, NewInsAt
    <3> QED  BY <3>3 DEF v
  <2> QED  BY <2>1, <2>2 DEF IsNew
<1> HIDE DEF phi
<1>3. /\ WellFormed(f1, N)
      /\ DOMAIN f1.code = DOMAIN f.code \cup {Phi(i)}
      /\ f1.code[Phi(i)] = phi
      /\ \A y \in DOMAIN f.code \ {Phi(i)} : f1.code[y] = f.code[y]
  BY <1>2, InsertBeforeIs
<1>4. /\ f1.entry = f.entry /\ DOMAIN f1.layout = DOMAIN f.layout
      /\ f1.layout[b] \in Seq(N) /\ Inserted(f.layout[b], k, Phi(i), f1.layout[b])
      /\ \A c \in DOMAIN f.layout : c # b => f1.layout[c] = f.layout[c]
      /\ OnePlace(f1)
  BY InsertBeforeAt
<1> HIDE DEF f1
<1>5. /\ WellFormed(f2, N) /\ f2.layout = f1.layout
      /\ DOMAIN f2.code = DOMAIN f1.code
      /\ \A y \in DOMAIN f1.code :
           /\ f2.code[y].op = f1.code[y].op
           /\ f2.code[y].to = f1.code[y].to
           /\ f2.code[y].cases = f1.code[y].cases
           /\ f2.code[y].args = [l \in DOMAIN f1.code[y].args |-> V(f1.code[y].args[l])]
  BY <1>3, ReplaceAllUsesIs
<1>6. /\ f2.entry = f1.entry
      /\ \A y \in DOMAIN f1.code :
           f2.code[y].in = {<<V(e[1]), e[2]>> : e \in f1.code[y].in}
      /\ OnePlace(f2)
  BY <1>3, <1>4, ReplaceAllUsesAt
<1> HIDE DEF f2
<1>7. ASSUME NEW y \in DOMAIN f.code
      PROVE  /\ f2.code[y].op = f.code[y].op
             /\ f2.code[y].to = f.code[y].to
             /\ f2.code[y].cases = f.code[y].cases
             /\ f2.code[y].args = [l \in DOMAIN f.code[y].args |-> V(f.code[y].args[l])]
             /\ f2.code[y].in = {<<V(e[1]), e[2]>> : e \in f.code[y].in}
  <2>1. y \in DOMAIN f1.code /\ f1.code[y] = f.code[y]
    BY <1>3
  <2> QED  BY <1>5, <1>6, <2>1
<1>8. /\ f2.code[Phi(i)].op = "phi" /\ f2.code[Phi(i)].to = <<>>
      /\ f2.code[Phi(i)].args = <<>> /\ f2.code[Phi(i)].cases = <<>>
      /\ f2.code[Phi(i)].in = {<<Clone(i), Clone(i)>>}
  <2>1. Phi(i) \in DOMAIN f1.code /\ f1.code[Phi(i)] = phi /\ Clone(i) # i
    BY <1>3 DEF Clone
  <2> DEFINE a == f1.code[Phi(i)].args
  <2>2. f2.code[Phi(i)].args = [l \in DOMAIN a |-> V(a[l])]
    BY <1>5, <2>1
  <2>3. a = <<>> /\ DOMAIN <<>> = {}
    BY <1>2, <2>1
  <2>6. [l \in DOMAIN a |-> V(a[l])] = <<>>
    <3> HIDE DEF a
    <3> QED  BY <2>3
  <2>4. f2.code[Phi(i)].in = {<<V(e[1]), e[2]>> : e \in {<<Clone(i), Clone(i)>>}}
    BY <1>2, <1>6, <2>1
  <2>5. {<<V(e[1]), e[2]>> : e \in {<<Clone(i), Clone(i)>>}} = {<<Clone(i), Clone(i)>>}
    BY <2>1
  <2> QED  BY <1>2, <1>5, <2>1, <2>2, <2>4, <2>5, <2>6
<1> QED  BY <1>1, <1>3, <1>4, <1>5, <1>6, <1>7, <1>8

\* y is instruction x after the uses of i have gone to its phi and the end of
\* its block b to the new block.
Moved(x, y, i, b) ==
  /\ y.op = x.op /\ y.to = x.to /\ y.cases = x.cases
  /\ y.args = [l \in DOMAIN x.args |-> IF x.args[l] = i THEN Phi(i) ELSE x.args[l]]
  /\ y.in = {<< IF e[1] = i THEN Phi(i) ELSE e[1],
                IF e[2] = b THEN Rest(i) ELSE e[2] >> : e \in x.in}

IsJust(x, op, args, to, in) ==
  x.op = op /\ x.args = args /\ x.to = to /\ x.in = in

\* g is f with site i prepared, when i was at place k of block b.
IsPrepared(f, g, i, b, k) ==
  /\ g.entry = f.entry
  /\ DOMAIN g.layout = DOMAIN f.layout \cup {Clone(i), Rest(i)}
  /\ \A c \in DOMAIN f.layout : c # b => g.layout[c] = f.layout[c]
  /\ g.layout[Clone(i)] = << Clone(i), CloneBr(i) >>
  /\ Len(g.layout[b]) = k + 1
  /\ \A j \in 1 .. k - 1 : g.layout[b][j] = f.layout[b][j]
  /\ g.layout[b][k] = GlobalLoad(i) /\ g.layout[b][k + 1] = Switch(i)
  /\ Len(g.layout[Rest(i)]) = Len(f.layout[b]) - k + 2
  /\ g.layout[Rest(i)][1] = Phi(i)
  /\ \A j \in k .. Len(f.layout[b]) : g.layout[Rest(i)][j - k + 2] = f.layout[b][j]
  /\ DOMAIN g.code = (DOMAIN f.code \cup Created(i)) \ {SplitBr(i)}
  /\ \A y \in DOMAIN f.code : Moved(f.code[y], g.code[y], i, b)
  /\ Moved(f.code[i], g.code[Clone(i)], i, b)
  /\ IsJust(g.code[CloneBr(i)], "br", <<>>, << Rest(i) >>, {})
  /\ IsJust(g.code[GlobalLoad(i)], "load", << Global(SourceID(i)) >>, <<>>, {})
  /\ IsJust(g.code[Switch(i)], "switch", << GlobalLoad(i) >>, << Clone(i) >>, {})
  /\ g.code[Switch(i)].cases = <<>>
  /\ IsJust(g.code[Phi(i)], "phi", <<>>, <<>>, {<< Clone(i), Clone(i) >>})

LEMMA MovedJust ==
  ASSUME NEW x, NEW y, NEW i, NEW b, Moved(x, y, i, b), NEW op, NEW args, NEW to,
         IsJust(x, op, args, to, {}),
         args = [l \in DOMAIN args |-> args[l]], \A l \in DOMAIN args : args[l] # i
  PROVE  IsJust(y, op, args, to, {})
BY DEF Moved, IsJust

LEMMA MovedTwice ==
  ASSUME NEW x, NEW y, NEW z, NEW i, NEW b,
         y.op = x.op /\ y.to = x.to /\ y.cases = x.cases /\ y.args = x.args,
         y.in = {<< e[1], IF e[2] = b THEN Rest(i) ELSE e[2] >> : e \in x.in},
         z.op = y.op /\ z.to = y.to /\ z.cases = y.cases,
         z.args = [l \in DOMAIN y.args |-> IF y.args[l] = i THEN Phi(i) ELSE y.args[l]],
         z.in = {<< IF e[1] = i THEN Phi(i) ELSE e[1], e[2] >> : e \in y.in}
  PROVE  Moved(x, z, i, b)
<1> DEFINE V(v) == IF v = i THEN Phi(i) ELSE v
           B(p) == IF p = b THEN Rest(i) ELSE p
<1>1. z.in = {<< V(e[1]), B(e[2]) >> : e \in x.in}
  <2>1. y.in = {<< e[1], B(e[2]) >> : e \in x.in} /\ z.in = {<< V(e[1]), e[2] >> : e \in y.in}
    OBVIOUS
  <2> HIDE DEF V, B
  <2>2. ASSUME NEW d \in z.in PROVE \E e \in x.in : d = << V(e[1]), B(e[2]) >>
    BY <2>1
  <2>3. ASSUME NEW e \in x.in PROVE << V(e[1]), B(e[2]) >> \in z.in
    <3> DEFINE d == << e[1], B(e[2]) >>
    <3>1. d \in y.in /\ d[1] = e[1] /\ d[2] = B(e[2])
      BY <2>1
    <3> HIDE DEF d
    <3>2. << V(d[1]), d[2] >> \in z.in
      BY <2>1, <3>1
    <3> QED  BY <3>1, <3>2
  <2> QED  BY <2>2, <2>3
<1> QED  BY <1>1 DEF Moved

LEMMA PreparedAt ==
  ASSUME NEW f, NEW N, NEW i, IsNewSite(f, N, i), NEW b, NEW k, OnlyAt(f, i, b, k)
  PROVE  LET g == PreparedIR(f, i)
         IN  IsPrepared(f, g, i, b, k) /\ WellFormed(g, N) /\ OnePlace(g)
<1> DEFINE f1 == WithClone(f, i)
           f2 == WithSwitch(f1, i)
           f3 == WithRest(f2, i)
           f4 == WithPhi(f3, i)
           s  == f.layout[b]
           u  == f2.layout[b]
           v  == f3.layout[b]
           r3 == f3.layout[Rest(i)]
           r4 == f4.layout[Rest(i)]
           load   == Ins("load", "i64", <<Global(SourceID(i))>>)
           switch == [Ins("switch", "void", <<GlobalLoad(i)>>) EXCEPT !.to = <<Clone(i)>>]
<1> USE DEF IsNewSite
<1>1. PreparedIR(f, i) = f4
  BY DEF PreparedIR
<1>2. /\ i \notin Created(i) /\ Clone(i) # Rest(i) /\ Global(SourceID(i)) # i
      /\ CloneBr(i) # Clone(i)
      /\ GlobalLoad(i) \notin {i, Clone(i), CloneBr(i), Switch(i), SplitBr(i), Phi(i)}
      /\ Switch(i) \notin {Clone(i), CloneBr(i), SplitBr(i), Phi(i)}
      /\ SplitBr(i) \notin {Clone(i), CloneBr(i), Phi(i)}
      /\ Phi(i) \notin {Clone(i), CloneBr(i)}
      /\ \A y \in Created(i) : y \in N /\ y \notin DOMAIN f.code
  BY DEF Created, Clone, CloneBr, GlobalLoad, Switch, SplitBr, Phi, Rest, Global
<1>3. /\ b \in DOMAIN f.layout /\ s \in Seq(N) /\ k \in 1 .. Len(s) /\ s[k] = i
      /\ b # Clone(i) /\ b # Rest(i)
  BY OnlyAtIs DEF OnlyAt
<1>4. /\ f1.entry = f.entry
      /\ DOMAIN f1.layout = DOMAIN f.layout \cup {Clone(i)}
      /\ f1.layout[Clone(i)] = << Clone(i), CloneBr(i) >>
      /\ \A c \in DOMAIN f.layout : f1.layout[c] = f.layout[c]
      /\ DOMAIN f1.code = DOMAIN f.code \cup {Clone(i), CloneBr(i)}
      /\ f1.code[Clone(i)] = f.code[i] /\ f1.code[CloneBr(i)] = Jump(Rest(i))
      /\ \A y \in DOMAIN f.code : f1.code[y] = f.code[y]
      /\ WellFormed(f1, N) /\ OnePlace(f1)
  BY WithCloneAt
<1> HIDE DEF f1, s, IsNewSite
<1>5. /\ i \in DOMAIN f1.code /\ i[1] = "orig" /\ OnlyAt(f1, i, b, k) /\ f1.layout[b] = s
      /\ GlobalLoad(i) \in N /\ GlobalLoad(i) \notin DOMAIN f1.code
      /\ Switch(i) \in N /\ Switch(i) \notin DOMAIN f1.code
  <2>1. f1.layout[b] = s /\ k \in DOMAIN s
    BY <1>3, <1>4 DEF s
  <2>2. OnlyAt(f1, i, b, k)
    BY <1>3, <1>4, <2>1, PlaceIs
  <2> QED  BY <1>2, <1>4, <2>1, <2>2 DEF Created, IsNewSite
<1>6. /\ f2.entry = f1.entry
      /\ DOMAIN f2.layout = DOMAIN f1.layout
      /\ u \in Seq(N) /\ Len(u) = Len(s) + 2
      /\ \A j \in 1 .. k - 1 : u[j] = s[j]
      /\ u[k] = GlobalLoad(i) /\ u[k + 1] = Switch(i)
      /\ \A j \in k .. Len(s) : u[j + 2] = s[j]
      /\ \A c \in DOMAIN f1.layout : c # b => f2.layout[c] = f1.layout[c]
      /\ DOMAIN f2.code = DOMAIN f1.code \cup {GlobalLoad(i), Switch(i)}
      /\ f2.code[GlobalLoad(i)] = load /\ f2.code[Switch(i)] = switch
      /\ \A y \in DOMAIN f1.code : f2.code[y] = f1.code[y]
      /\ WellFormed(f2, N) /\ OnePlace(f2)
  BY <1>4, <1>5, WithSwitchAt
<1> HIDE DEF f2, load, switch
<1>7. /\ i \in DOMAIN f2.code /\ OnlyAt(f2, i, b, k + 2) /\ Rest(i) \notin DOMAIN f2.layout
      /\ SplitBr(i) \in N /\ SplitBr(i) \notin DOMAIN f2.code
  <2>1. k + 2 \in DOMAIN u /\ u[k + 2] = i
    <3> HIDE DEF u
    <3> QED  BY <1>3, <1>6
  <2>2. OnlyAt(f2, i, b, k + 2)
    BY <1>3, <1>4, <1>6, <2>1, PlaceIs
  <2> QED  BY <1>2, <1>4, <1>5, <1>6, <2>2 DEF Created, IsNewSite
<1>8. /\ f3.entry = f2.entry
      /\ DOMAIN f3.layout = DOMAIN f2.layout \cup {Rest(i)}
      /\ v \in Seq(N) /\ Len(v) = (k + 2) - 1
      /\ \A j \in 1 .. (k + 2) - 1 : v[j] = u[j]
      /\ r3 \in Seq(N) /\ Len(r3) = Len(u) - (k + 2) + 1
      /\ \A j \in 1 .. Len(u) - (k + 2) + 1 : r3[j] = u[(k + 2) + j - 1]
      /\ \A c \in DOMAIN f2.layout : c # b => f3.layout[c] = f2.layout[c]
      /\ DOMAIN f3.code = DOMAIN f2.code
      /\ \A y \in DOMAIN f2.code :
           /\ f3.code[y].op = f2.code[y].op
           /\ f3.code[y].to = f2.code[y].to
           /\ f3.code[y].cases = f2.code[y].cases
           /\ f3.code[y].args = f2.code[y].args
           /\ f3.code[y].in =
                {<<e[1], IF e[2] = b THEN Rest(i) ELSE e[2]>> : e \in f2.code[y].in}
      /\ WellFormed(f3, N) /\ OnePlace(f3)
  BY <1>6, <1>7, WithRestAt
<1> HIDE DEF f3
<1>9. /\ Len(v) = k + 1
      /\ \A j \in 1 .. k - 1 : v[j] = s[j]
      /\ v[k] = GlobalLoad(i) /\ v[k + 1] = Switch(i)
  <2> HIDE DEF u, v
  <2> QED  BY <1>3, <1>6, <1>8
<1>10. /\ r3 \in Seq(N) /\ Len(r3) = Len(s) - k + 1
       /\ \A j \in k .. Len(s) : r3[j - k + 1] = s[j]
  <2> HIDE DEF u, r3
  <2>1. Len(r3) = Len(s) - k + 1
    BY <1>3, <1>6, <1>8
  <2>2. ASSUME NEW j \in k .. Len(s) PROVE r3[j - k + 1] = s[j]
    <3>1. /\ j - k + 1 \in 1 .. Len(u) - (k + 2) + 1
          /\ (k + 2) + (j - k + 1) - 1 = j + 2
      BY <1>3, <1>6
    <3>2. r3[j - k + 1] = u[(k + 2) + (j - k + 1) - 1]
      BY <1>8, <3>1
    <3> QED  BY <1>6, <3>1, <3>2
  <2> QED  BY <1>8, <2>1, <2>2
<1>11. /\ i \in DOMAIN f3.code /\ OnlyAt(f3, i, Rest(i), 1)
       /\ Phi(i) \in N /\ Phi(i) \notin DOMAIN f3.code
  <2>1. 1 \in DOMAIN r3 /\ r3[1] = i
    <3> HIDE DEF r3
    <3>1. Len(s) - k + 1 \in Nat /\ 1 <= Len(s) - k + 1 /\ k \in k .. Len(s) /\ k - k + 1 = 1
      BY <1>3
    <3>2. r3[k - k + 1] = s[k]
      BY <1>10, <3>1
    <3> QED  BY <1>3, <1>10, <3>1, <3>2
  <2>2. OnlyAt(f3, i, Rest(i), 1)
    BY <1>8, <2>1, PlaceIs
  <2> QED  BY <1>2, <1>4, <1>6, <1>7, <1>8, <2>2 DEF Created
<1>12. /\ f4.entry = f3.entry
       /\ DOMAIN f4.layout = DOMAIN f3.layout
       /\ r4 \in Seq(N) /\ Inserted(r3, 1, Phi(i), r4)
       /\ \A c \in DOMAIN f3.layout : c # Rest(i) => f4.layout[c] = f3.layout[c]
       /\ DOMAIN f4.code = DOMAIN f3.code \cup {Phi(i)}
       /\ f4.code[Phi(i)].op = "phi" /\ f4.code[Phi(i)].to = <<>>
       /\ f4.code[Phi(i)].args = <<>> /\ f4.code[Phi(i)].cases = <<>>
       /\ f4.code[Phi(i)].in = {<< Clone(i), Clone(i) >>}
       /\ \A y \in DOMAIN f3.code :
            /\ f4.code[y].op = f3.code[y].op
            /\ f4.code[y].to = f3.code[y].to
            /\ f4.code[y].cases = f3.code[y].cases
            /\ f4.code[y].args = [l \in DOMAIN f3.code[y].args |->
                  IF f3.code[y].args[l] = i THEN Phi(i) ELSE f3.code[y].args[l]]
            /\ f4.code[y].in =
                 {<<IF e[1] = i THEN Phi(i) ELSE e[1], e[2]>> : e \in f3.code[y].in}
       /\ WellFormed(f4, N) /\ OnePlace(f4)
  BY <1>5, <1>8, <1>11, WithPhiAt
<1> HIDE DEF f4
<1>13. ASSUME NEW y \in DOMAIN f2.code PROVE Moved(f2.code[y], f4.code[y], i, b)
  <2> DEFINE x2 == f2.code[y]
             x3 == f3.code[y]
             x4 == f4.code[y]
  <2>1. /\ x3.op = x2.op /\ x3.to = x2.to /\ x3.cases = x2.cases /\ x3.args = x2.args
        /\ x3.in = {<< e[1], IF e[2] = b THEN Rest(i) ELSE e[2] >> : e \in x2.in}
    BY <1>8
  <2>2. /\ x4.op = x3.op /\ x4.to = x3.to /\ x4.cases = x3.cases
        /\ x4.args = [l \in DOMAIN x3.args |-> IF x3.args[l] = i THEN Phi(i) ELSE x3.args[l]]
        /\ x4.in = {<< IF e[1] = i THEN Phi(i) ELSE e[1], e[2] >> : e \in x3.in}
    BY <1>8, <1>12
  <2> HIDE DEF x2, x3, x4
  <2>3. Moved(x2, x4, i, b)
    BY <2>1, <2>2, MovedTwice
  <2> QED  BY <2>3 DEF x2, x4
<1>14. /\ Len(r4) = Len(s) - k + 2 /\ r4[1] = Phi(i)
       /\ \A j \in k .. Len(s) : r4[j - k + 2] = s[j]
  <2> HIDE DEF r3, r4
  <2>1. ASSUME NEW j \in k .. Len(s) PROVE r4[j - k + 2] = s[j]
    <3>1. j - k + 1 \in 1 .. Len(r3) /\ (j - k + 1) + 1 = j - k + 2
      BY <1>3, <1>10
    <3>2. r4[(j - k + 1) + 1] = r3[j - k + 1]
      BY <1>12, <3>1 DEF Inserted
    <3> QED  BY <1>10, <3>1, <3>2
  <2>2. Len(r4) = Len(s) - k + 2 /\ r4[1] = Phi(i)
    BY <1>3, <1>10, <1>12 DEF Inserted
  <2> QED  BY <2>1, <2>2
<1>15. /\ f4.layout[b] = v
       /\ f4.layout[Clone(i)] = << Clone(i), CloneBr(i) >>
       /\ \A c \in DOMAIN f.layout : c # b => f4.layout[c] = f.layout[c]
  BY <1>2, <1>3, <1>4, <1>6, <1>7, <1>8, <1>12
<1>16. /\ \A y \in DOMAIN f.code : Moved(f.code[y], f4.code[y], i, b)
       /\ Moved(f.code[i], f4.code[Clone(i)], i, b)
  BY <1>4, <1>6, <1>13
<1>17. IsJust(f4.code[CloneBr(i)], "br", <<>>, << Rest(i) >>, {})
  <2> DEFINE a == <<>>
             t == << Rest(i) >>
  <2>1. Moved(Jump(Rest(i)), f4.code[CloneBr(i)], i, b)
    BY <1>4, <1>6, <1>13
  <2>2. a = [l \in DOMAIN a |-> a[l]] /\ \A l \in DOMAIN a : a[l] # i
    OBVIOUS
  <2>3. IsJust(Jump(Rest(i)), "br", a, t, {})
    BY JumpIs DEF IsJust
  <2> HIDE DEF a, t
  <2>4. IsJust(f4.code[CloneBr(i)], "br", a, t, {})
    BY <2>1, <2>2, <2>3, MovedJust
  <2> QED  BY <2>4 DEF a, t
<1>18. IsJust(f4.code[GlobalLoad(i)], "load", << Global(SourceID(i)) >>, <<>>, {})
  <2> DEFINE a == << Global(SourceID(i)) >>
  <2>1. Moved(load, f4.code[GlobalLoad(i)], i, b)
    BY <1>6, <1>13
  <2>2. a = [l \in DOMAIN a |-> a[l]]
    OBVIOUS
  <2>3. \A l \in DOMAIN a : a[l] # i
    BY <1>2
  <2> HIDE DEF a
  <2>4. IsJust(load, "load", a, <<>>, {})
    BY <2>2, InsIs DEF IsJust, load, a
  <2> QED  BY <2>1, <2>2, <2>3, <2>4, MovedJust DEF a
<1>19. /\ IsJust(f4.code[Switch(i)], "switch", << GlobalLoad(i) >>, << Clone(i) >>, {})
       /\ f4.code[Switch(i)].cases = <<>>
  <2> DEFINE a == << GlobalLoad(i) >>
             t == << Clone(i) >>
  <2>1. Moved(switch, f4.code[Switch(i)], i, b)
    BY <1>6, <1>13
  <2>2. a = [l \in DOMAIN a |-> a[l]]
    OBVIOUS
  <2>3. \A l \in DOMAIN a : a[l] # i
    BY <1>2
  <2>4. switch = [Ins("switch", "void", a) EXCEPT !.to = t]
    BY DEF switch
  <2> HIDE DEF a, t
  <2>5. IsNew(switch, "switch", a)
    BY <2>2, <2>4, NewInsIs
  <2>6. switch.to = t /\ switch.in = {}
    BY <2>2, <2>4, NewInsAt
  <2>7. IsJust(switch, "switch", a, t, {}) /\ switch.cases = <<>>
    BY <2>5, <2>6 DEF IsJust, IsNew
  <2>8. f4.code[Switch(i)].cases = <<>>
    BY <2>1, <2>7 DEF Moved
  <2>9. IsJust(f4.code[Switch(i)], "switch", a, t, {})
    BY <2>1, <2>2, <2>3, <2>7, MovedJust
  <2> QED  BY <2>8, <2>9 DEF a, t
<1>20. DOMAIN f4.code = (DOMAIN f.code \cup Created(i)) \ {SplitBr(i)}
  BY <1>2, <1>4, <1>6, <1>8, <1>12 DEF Created
<1>21. /\ f4.entry = f.entry
       /\ DOMAIN f4.layout = DOMAIN f.layout \cup {Clone(i), Rest(i)}
  BY <1>4, <1>6, <1>8, <1>12
<1>22. IsPrepared(f, f4, i, b, k)
  BY <1>9, <1>12, <1>14, <1>15, <1>16, <1>17, <1>18, <1>19, <1>20, <1>21 DEF IsPrepared, IsJust, s
<1> QED  BY <1>1, <1>12, <1>22

\* g is f with mutation n of site i.
IsInjected(f, g, i, n, candidate) ==
  /\ g.entry = f.entry
  /\ DOMAIN g.layout = DOMAIN f.layout \cup {Mutant(n)}
  /\ \A c \in DOMAIN f.layout : g.layout[c] = f.layout[c]
  /\ g.layout[Mutant(n)] = << Mutant(n), MutantBr(n) >>
  /\ DOMAIN g.code = DOMAIN f.code \cup {Mutant(n), MutantBr(n)}
  /\ \A y \in DOMAIN f.code \ {Switch(i), Phi(i)} : g.code[y] = f.code[y]
  /\ g.code[Mutant(n)] = Replacement(f.code[i], candidate)
  /\ g.code[MutantBr(n)] = Jump(Rest(i))
  /\ IsJust(g.code[Switch(i)], f.code[Switch(i)].op, f.code[Switch(i)].args,
            Append(f.code[Switch(i)].to, Mutant(n)), f.code[Switch(i)].in)
  /\ g.code[Switch(i)].cases = Append(f.code[Switch(i)].cases, n)
  /\ IsJust(g.code[Phi(i)], f.code[Phi(i)].op, f.code[Phi(i)].args, f.code[Phi(i)].to,
            f.code[Phi(i)].in \cup {<< Mutant(n), Mutant(n) >>})

\* The instructions and the block of mutation n are new to f.
IsNewMutant(f, N, i, n) ==
  /\ WellFormed(f, N) /\ OnePlace(f) /\ i \in DOMAIN f.code /\ i[1] = "orig"
  /\ Mutant(n) \notin DOMAIN f.layout
  /\ {Mutant(n), MutantBr(n)} \subseteq N /\ {Mutant(n), MutantBr(n)} \cap DOMAIN f.code = {}
  /\ {Switch(i), Phi(i)} \subseteq DOMAIN f.code

LEMMA InjectedAt ==
  ASSUME NEW f, NEW N, NEW i, NEW n, IsNewMutant(f, N, i, n), NEW candidate
  PROVE  LET g == Injected(f, i, n, candidate)
         IN  IsInjected(f, g, i, n, candidate) /\ WellFormed(g, N) /\ OnePlace(g)
<1> DEFINE b == Mutant(n)
           f1 == AddBlock(f, b)
           f2 == AddCase(f1, Switch(i), n, b)
           f3 == PushBack(f2, b, Mutant(n), Replacement(f2.code[i], candidate))
           f4 == AddIncoming(f3, Phi(i), Mutant(n), b)
           f5 == PushBack(f4, b, MutantBr(n), Jump(Rest(i)))
<1>1. Injected(f, i, n, candidate) = f5
  BY DEF Injected, InjectReplacement, Mutant
<1>2. /\ i \notin {Switch(i), Phi(i), Mutant(n), MutantBr(n)}
      /\ Phi(i) \notin {Switch(i), Mutant(n), MutantBr(n)}
      /\ Switch(i) \notin {Mutant(n), MutantBr(n)} /\ Mutant(n) # MutantBr(n)
  BY DEF IsNewMutant, Switch, Phi, Mutant, MutantBr
<1>3. /\ i \in DOMAIN f.code /\ {Switch(i), Phi(i)} \subseteq DOMAIN f.code
      /\ b \notin DOMAIN f.layout /\ Mutant(n) \in N /\ MutantBr(n) \in N
      /\ Mutant(n) \notin DOMAIN f.code /\ MutantBr(n) \notin DOMAIN f.code
      /\ WellFormed(f, N) /\ OnePlace(f)
  BY DEF IsNewMutant
<1>4. /\ f1.entry = f.entry
      /\ DOMAIN f1.layout = DOMAIN f.layout \cup {b}
      /\ f1.layout[b] = <<>>
      /\ \A c \in DOMAIN f.layout : f1.layout[c] = f.layout[c]
      /\ f1.code = f.code
      /\ WellFormed(f1, N) /\ OnePlace(f1)
  BY <1>3, AddBlockIs, AddBlockAt
<1> HIDE DEF f1
<1>5. Switch(i) \in DOMAIN f1.code
  BY <1>3, <1>4
<1>6. /\ WellFormed(f2, N) /\ f2.layout = f1.layout /\ DOMAIN f2.code = DOMAIN f1.code
      /\ f2.code[Switch(i)].op = f1.code[Switch(i)].op
      /\ f2.code[Switch(i)].cases = Append(f1.code[Switch(i)].cases, n)
      /\ \A y \in DOMAIN f1.code \ {Switch(i)} : f2.code[y] = f1.code[y]
  BY <1>4, <1>5, AddCaseIs
<1>7. /\ f2.entry = f1.entry
      /\ f2.code[Switch(i)].to = Append(f1.code[Switch(i)].to, b)
      /\ f2.code[Switch(i)].args = f1.code[Switch(i)].args
      /\ f2.code[Switch(i)].in = f1.code[Switch(i)].in
      /\ OnePlace(f2)
  BY <1>4, <1>5, AddCaseAt
<1> HIDE DEF f2
<1>8. /\ b \in DOMAIN f2.layout /\ Mutant(n) \notin DOMAIN f2.code /\ f2.code[i] = f.code[i]
      /\ IsIns(f2.code[i])
  BY <1>2, <1>3, <1>4, <1>6 DEF WellFormed
<1>9. IsIns(Replacement(f2.code[i], candidate))
  BY <1>8, ReplacementIs
<1> DEFINE ins == Replacement(f2.code[i], candidate)
<1> HIDE DEF ins
<1>10. f3 = PushBack(f2, b, Mutant(n), ins)
  BY DEF ins
<1>11. IsIns(ins)
  BY <1>9 DEF ins
<1> HIDE DEF f3
<1>12. /\ WellFormed(f3, N) /\ DOMAIN f3.code = DOMAIN f2.code \cup {Mutant(n)}
       /\ f3.code[Mutant(n)] = ins
       /\ \A y \in DOMAIN f2.code \ {Mutant(n)} : f3.code[y] = f2.code[y]
  BY <1>3, <1>6, <1>8, <1>10, <1>11, PushBackIs
<1>13. /\ f3.entry = f2.entry /\ DOMAIN f3.layout = DOMAIN f2.layout
       /\ f3.layout[b] = Append(f2.layout[b], Mutant(n))
       /\ \A c \in DOMAIN f2.layout : c # b => f3.layout[c] = f2.layout[c]
       /\ OnePlace(f3)
  BY <1>3, <1>6, <1>7, <1>8, <1>10, PushBackAt
<1>14. Phi(i) \in DOMAIN f3.code
  BY <1>3, <1>4, <1>6, <1>12
<1>15. /\ WellFormed(f4, N) /\ f4.layout = f3.layout /\ DOMAIN f4.code = DOMAIN f3.code
       /\ f4.code[Phi(i)].op = f3.code[Phi(i)].op
       /\ \A y \in DOMAIN f3.code \ {Phi(i)} : f4.code[y] = f3.code[y]
  BY <1>12, <1>14, AddIncomingIs
<1>16. /\ f4.entry = f3.entry
       /\ f4.code[Phi(i)].to = f3.code[Phi(i)].to
       /\ f4.code[Phi(i)].args = f3.code[Phi(i)].args
       /\ f4.code[Phi(i)].in = f3.code[Phi(i)].in \cup {<< Mutant(n), b >>}
       /\ OnePlace(f4)
  BY <1>12, <1>13, <1>14, AddIncomingAt
<1> HIDE DEF f4
<1>17. b \in DOMAIN f4.layout /\ MutantBr(n) \notin DOMAIN f4.code /\ IsIns(Jump(Rest(i)))
  BY <1>2, <1>3, <1>4, <1>6, <1>8, <1>12, <1>13, <1>15, JumpIs
<1>18. /\ WellFormed(f5, N) /\ DOMAIN f5.code = DOMAIN f4.code \cup {MutantBr(n)}
       /\ f5.code[MutantBr(n)] = Jump(Rest(i))
       /\ \A y \in DOMAIN f4.code \ {MutantBr(n)} : f5.code[y] = f4.code[y]
  BY <1>3, <1>15, <1>17, PushBackIs
<1>19. /\ f5.entry = f4.entry /\ DOMAIN f5.layout = DOMAIN f4.layout
       /\ f5.layout[b] = Append(f4.layout[b], MutantBr(n))
       /\ \A c \in DOMAIN f4.layout : c # b => f5.layout[c] = f4.layout[c]
       /\ OnePlace(f5)
  BY <1>3, <1>15, <1>16, <1>17, PushBackAt
<1> HIDE DEF f5
<1>20. /\ f5.entry = f.entry
       /\ DOMAIN f5.layout = DOMAIN f.layout \cup {b}
       /\ \A c \in DOMAIN f.layout : f5.layout[c] = f.layout[c]
       /\ f5.layout[b] = << Mutant(n), MutantBr(n) >>
  <2> HIDE DEF b
  <2>1. f5.layout[b] = Append(Append(<<>>, Mutant(n)), MutantBr(n))
    BY <1>4, <1>6, <1>13, <1>15, <1>19
  <2>2. f5.layout[b] = << Mutant(n), MutantBr(n) >>
    BY <2>1, PairIs
  <2>3. f5.entry = f.entry
    BY <1>4, <1>7, <1>13, <1>16, <1>19
  <2>4. /\ DOMAIN f5.layout = DOMAIN f.layout \cup {b}
        /\ \A c \in DOMAIN f.layout : f5.layout[c] = f.layout[c]
    BY <1>3, <1>4, <1>6, <1>13, <1>15, <1>19
  <2> QED  BY <2>2, <2>3, <2>4
<1>21. /\ DOMAIN f5.code = DOMAIN f.code \cup {Mutant(n), MutantBr(n)}
       /\ \A y \in DOMAIN f.code \ {Switch(i), Phi(i)} : f5.code[y] = f.code[y]
       /\ f5.code[Mutant(n)] = ins
       /\ f5.code[MutantBr(n)] = Jump(Rest(i))
       /\ f5.code[Switch(i)] = f2.code[Switch(i)]
       /\ f5.code[Phi(i)] = f4.code[Phi(i)] /\ f3.code[Phi(i)] = f.code[Phi(i)]
  BY <1>2, <1>3, <1>4, <1>6, <1>12, <1>15, <1>18
<1>22. IsInjected(f, f5, i, n, candidate)
  BY <1>4, <1>6, <1>7, <1>8, <1>15, <1>16, <1>20, <1>21 DEF IsInjected, IsJust, ins
<1> QED  BY <1>1, <1>18, <1>19, <1>22

-------------------------------------------------------------------------------
(* The invariant.                                                          *)

Origs == DOMAIN program.function.code

Sites == DOMAIN instructionToSwitchMap

\* The instructions there can be.
Names ==
  Origs \cup {LoaderCall} \cup ({"mutant", "mutantbr"} \X Nat)
    \cup UNION {Created(i) : i \in Origs}

MutationsOf(M, i) == {n \in DOMAIN M : M[n].original = i}

\* f is the program's function after mutations M of the sites S: its blocks are
\* those of the program and those made for S and M, none of the instructions
\* made for them is an alloca, and each site has its switch, with the cases of
\* its mutations, over the global of its ID.
FunctionInv(f, S, M) ==
  /\ WellFormed(f, Names)
  /\ \A b \in DOMAIN f.layout :
       \/ b[1] = "orig"
       \/ \E i \in S : b \in {Clone(i), Rest(i)}
       \/ \E n \in DOMAIN M : b = Mutant(n)
  /\ \A x \in DOMAIN f.code : f.code[x].op = "alloca" => x \in Origs
  /\ \A i \in S :
       /\ {Switch(i), GlobalLoad(i), Phi(i)} \subseteq DOMAIN f.code
       /\ f.code[GlobalLoad(i)].args = <<Global(SourceID(i))>>
       /\ f.code[Switch(i)].cases \in Seq(Nat)
       /\ ToSet(f.code[Switch(i)].cases) = MutationsOf(M, i)

ProgramInv ==
  /\ program \in Programs
  /\ phase = "construct" => ir = program.function

\* What run() has still to visit is in the function, and so is what it visits.
VisitInv ==
  /\ phase \in Phases
  /\ instructions \subseteq DOMAIN ir.code \cap DOMAIN program.id
  /\ phase # "mutate" => instructions = {} /\ current = None
  /\ current # None => /\ current \in DOMAIN ir.code \cap DOMAIN program.id
                       /\ current \notin instructions

PendingInv ==
  pending # <<>> =>
    /\ current # None
    /\ MutatorFor(ir.code[current].op) # "none"
    /\ ir.code[current].op # "load" => pending \in Seq(Opcodes)

MutatorNames == {"BinOpcodeMutator", "ICmpMutator", "LoadMutator", "none"}

MutationRecords == [original : Origs, variant : Origs \cup Opcodes, operator : MutatorNames]

MutationsInv ==
  /\ mutations \in Seq(MutationRecords)
  /\ nextMutantId = Len(mutations) + 1
  /\ \A n \in DOMAIN mutations :
       /\ mutations[n].original \in Sites
       /\ IF mutations[n].operator = "LoadMutator"
          THEN mutations[n].variant \in Origs
          ELSE mutations[n].variant \in Opcodes

MapsInv ==
  /\ Sites \subseteq DOMAIN program.id
  /\ \A m \in {instructionToClone, instructionToPhiMap,
               instructionToDestinationBlock, instructionToCloneBlock} :
       DOMAIN m = Sites
  /\ \A i \in Sites : /\ instructionToSwitchMap[i] = Switch(i)
                      /\ instructionToPhiMap[i] = Phi(i)
                      /\ instructionToDestinationBlock[i] = Rest(i)
                      /\ instructionToCloneBlock[i] = Clone(i)

TableInv ==
  /\ phase \in {"bitcode", "done"} =>
       table = [n \in 1 .. Len(mutations) |-> toJSON(n, mutations[n])]
  /\ phase \notin {"bitcode", "done"} => table = <<>>

IInv ==
  /\ ProgramInv
  /\ FunctionInv(ir, Sites, mutations)
  /\ VisitInv
  /\ PendingInv
  /\ MutationsInv
  /\ MapsInv
  /\ TableInv

-------------------------------------------------------------------------------
(* Opcodes and names.                                                      *)

IsList(s) == s \in Seq(ToSet(s))

LEMMA ConcatRange ==
  ASSUME NEW a, NEW b, IsList(a), IsList(b)
  PROVE  IsList(a \o b) /\ ToSet(a \o b) = ToSet(a) \cup ToSet(b)
<1> DEFINE S == ToSet(a) \cup ToSet(b)
           r == a \o b
<1>1. a \in Seq(S) /\ b \in Seq(S)
  BY DEF IsList
<1> HIDE DEF S
<1>2. /\ r \in Seq(S) /\ Len(r) = Len(a) + Len(b)
      /\ \A k \in 1 .. Len(a) : r[k] = a[k]
      /\ \A k \in 1 .. Len(b) : r[Len(a) + k] = b[k]
  BY <1>1
<1> HIDE DEF r
<1>3. ASSUME NEW k \in DOMAIN a PROVE a[k] \in ToSet(r)
  <2>1. k \in DOMAIN r /\ r[k] = a[k]
    BY <1>1, <1>2
  <2> QED  BY <2>1 DEF ToSet
<1>4. ASSUME NEW k \in DOMAIN b PROVE b[k] \in ToSet(r)
  <2>1. k \in 1 .. Len(b) /\ Len(a) \in Nat /\ Len(b) \in Nat
    BY <1>1
  <2>2. Len(a) + k \in DOMAIN r /\ r[Len(a) + k] = b[k]
    BY <1>2, <2>1
  <2> QED  BY <2>2 DEF ToSet
<1>5. \A k \in DOMAIN r : r[k] \in S
  BY <1>2
<1>6. ToSet(r) = S
  BY <1>3, <1>4, <1>5 DEF ToSet, S
<1> QED  BY <1>2, <1>6 DEF IsList, S, r

LEMMA TablesAre ==
  /\ IsList(IntOpcodes) /\ IsList(FloatOpcodes)
  /\ IsList(SignedPredicates) /\ IsList(UnsignedPredicates)
<1>1. IsList(IntOpcodes) /\ IsList(FloatOpcodes)
  BY DEF IsList, ToSet, IntOpcodes, FloatOpcodes
<1>2. IsList(SignedPredicates) /\ IsList(UnsignedPredicates)
  BY DEF IsList, ToSet, SignedPredicates, UnsignedPredicates
<1> QED  BY <1>1, <1>2

LEMMA OpcodesRange ==
  Opcodes = ToSet(IntOpcodes) \cup ToSet(FloatOpcodes)
              \cup ToSet(SignedPredicates) \cup ToSet(UnsignedPredicates)
<1> DEFINE ab == IntOpcodes \o FloatOpcodes
           abc == ab \o SignedPredicates
           abcd == abc \o UnsignedPredicates
<1>1. IsList(ab) /\ ToSet(ab) = ToSet(IntOpcodes) \cup ToSet(FloatOpcodes)
  BY TablesAre, ConcatRange
<1> HIDE DEF ab
<1>2. IsList(abc) /\ ToSet(abc) = ToSet(ab) \cup ToSet(SignedPredicates)
  BY <1>1, TablesAre, ConcatRange
<1> HIDE DEF abc
<1>3. IsList(abcd) /\ ToSet(abcd) = ToSet(abc) \cup ToSet(UnsignedPredicates)
  BY <1>2, TablesAre, ConcatRange
<1> HIDE DEF abcd
<1>4. Opcodes = ToSet(abcd)
  BY DEF Opcodes, abcd, abc, ab
<1> QED  BY <1>1, <1>2, <1>3, <1>4

\* Every table of the mutators consists of opcodes, and neither a load nor an
\* alloca is among them.
LEMMA OpcodesAre ==
  /\ IntOpcodes \in Seq(Opcodes) /\ FloatOpcodes \in Seq(Opcodes)
  /\ SignedPredicates \in Seq(Opcodes) /\ UnsignedPredicates \in Seq(Opcodes)
  /\ "load" \notin Opcodes /\ "alloca" \notin Opcodes
<1>1. /\ "load" \notin ToSet(IntOpcodes) /\ "alloca" \notin ToSet(IntOpcodes)
      /\ "load" \notin ToSet(FloatOpcodes) /\ "alloca" \notin ToSet(FloatOpcodes)
  BY DEF ToSet, IntOpcodes, FloatOpcodes
<1>2. /\ "load" \notin ToSet(SignedPredicates) /\ "alloca" \notin ToSet(SignedPredicates)
      /\ "load" \notin ToSet(UnsignedPredicates)
      /\ "alloca" \notin ToSet(UnsignedPredicates)
  BY DEF ToSet, SignedPredicates, UnsignedPredicates
<1>3. \A t : IsList(t) /\ ToSet(t) \subseteq Opcodes => t \in Seq(Opcodes)
  BY DEF IsList
<1> QED  BY <1>1, <1>2, <1>3, TablesAre, OpcodesRange

\* A mutator that walks a table walks one of opcodes, and only LoadMutator takes
\* a load.
LEMMA MutatorIs ==
  ASSUME NEW op
  PROVE  /\ MutatorFor(op) \in MutatorNames
         /\ MutatorFor(op) = "LoadMutator" <=> op = "load"
         /\ MutatorFor(op) # "none" => op # "alloca"
<1>1. "load" \notin ToSet(IntOpcodes) \cup ToSet(FloatOpcodes)
      /\ "alloca" \notin ToSet(IntOpcodes) \cup ToSet(FloatOpcodes)
  BY DEF ToSet, IntOpcodes, FloatOpcodes
<1>2. "load" \notin ToSet(SignedPredicates) \cup ToSet(UnsignedPredicates)
      /\ "alloca" \notin ToSet(SignedPredicates) \cup ToSet(UnsignedPredicates)
  BY DEF ToSet, SignedPredicates, UnsignedPredicates
<1> QED  BY <1>1, <1>2 DEF MutatorFor, MutatorNames

LEMMA CandidatesAre ==
  ASSUME NEW f, NEW env, NEW i, NEW list \in CandidateLists(f, env, i), list # <<>>
  PROVE  /\ MutatorFor(f.code[i].op) # "none"
         /\ f.code[i].op # "load" => list \in Seq(Opcodes)
<1>1. CASE MutatorFor(f.code[i].op) = "BinOpcodeMutator"
  <2>1. list \in {IntOpcodes, FloatOpcodes}
    BY <1>1 DEF CandidateLists, BinOpcodeCandidates
  <2> QED  BY <1>1, <2>1, OpcodesAre
<1>2. CASE MutatorFor(f.code[i].op) = "ICmpMutator"
  <2>1. list \in {SignedPredicates, UnsignedPredicates}
    BY <1>2 DEF CandidateLists, ICmpCandidates
  <2> QED  BY <1>2, <2>1, OpcodesAre
<1>3. CASE MutatorFor(f.code[i].op) = "LoadMutator"
  BY <1>3, MutatorIs
<1>4. CASE MutatorFor(f.code[i].op) \notin {"BinOpcodeMutator", "ICmpMutator", "LoadMutator"}
  <2>1. list \in {<<>>}
    BY <1>4 DEF CandidateLists
  <2> QED  BY <2>1
<1> QED  BY <1>1, <1>2, <1>3, <1>4

LEMMA WellFormedIn ==
  ASSUME NEW f, NEW M, NEW N, WellFormed(f, M), M \subseteq N
  PROVE  WellFormed(f, N)
BY DEF WellFormed

LEMMA ProgramIs ==
  ASSUME program \in Programs
  PROVE  /\ WellFormed(program.function, Origs)
         /\ \A x \in Origs \cup DOMAIN program.function.layout : x[1] = "orig"
         /\ program.function.entry \in DOMAIN program.function.layout
         /\ program.function.layout[program.function.entry] # <<>>
         /\ program.function.code[
              program.function.layout[program.function.entry][1]].op # "phi"
         /\ DOMAIN program.id \subseteq Origs
         /\ None \notin Origs
BY ProgramsAssumption DEF IsProgram, Origs

LEMMA NamesAre ==
  /\ Origs \subseteq Names /\ LoaderCall \in Names
  /\ \A i \in Origs : Created(i) \subseteq Names
  /\ \A n \in Nat : Mutant(n) \in Names /\ MutantBr(n) \in Names
BY DEF Names, Mutant, MutantBr

-------------------------------------------------------------------------------
(* The two things inject does to the function.                             *)

LEMMA PrepareKeeps ==
  ASSUME program \in Programs, NEW f, NEW S, S \subseteq Origs, NEW M,
         FunctionInv(f, S, M), NEW i \in DOMAIN f.code \cap Origs, i \notin S,
         f.code[i].op # "alloca", MutationsOf(M, i) = {}
  PROVE  LET g == PreparedIR(f, i) IN
         /\ FunctionInv(g, S \cup {i}, M)
         /\ \A x \in DOMAIN f.code \cap Origs :
              x \in DOMAIN g.code /\ g.code[x].op = f.code[x].op
<1> DEFINE g == PreparedIR(f, i)
<1>1. /\ WellFormed(f, Names) /\ i \in DOMAIN f.code /\ i[1] = "orig"
      /\ Created(i) \subseteq Names
  BY ProgramIs, NamesAre DEF FunctionInv
<1>2. Clone(i) \notin DOMAIN f.layout /\ Rest(i) \notin DOMAIN f.layout
  <2> SUFFICES ASSUME NEW b \in DOMAIN f.layout PROVE b # Clone(i) /\ b # Rest(i)
    OBVIOUS
  <2>1. CASE b[1] = "orig"
    BY <2>1 DEF Clone, Rest
  <2>2. CASE \E j \in S : b \in {Clone(j), Rest(j)}
    BY <2>2 DEF Clone, Rest
  <2>3. CASE \E n \in DOMAIN M : b = Mutant(n)
    BY <2>3 DEF Clone, Rest, Mutant
  <2> QED  BY <2>1, <2>2, <2>3 DEF FunctionInv
<1>3. /\ WellFormed(g, Names)
      /\ DOMAIN g.layout = DOMAIN f.layout \cup {Clone(i), Rest(i)}
      /\ DOMAIN g.code = (DOMAIN f.code \cup Created(i)) \ {SplitBr(i)}
      /\ g.code[Clone(i)].op = f.code[i].op
      /\ g.code[CloneBr(i)].op = "br"
      /\ g.code[GlobalLoad(i)].op = "load"
      /\ g.code[GlobalLoad(i)].args = <<Global(SourceID(i))>>
      /\ g.code[Switch(i)].op = "switch"
      /\ g.code[Switch(i)].cases = <<>>
      /\ g.code[Phi(i)].op = "phi"
      /\ \A y \in DOMAIN f.code \ Created(i) :
           /\ g.code[y].op = f.code[y].op
           /\ g.code[y].cases = f.code[y].cases
           /\ (\A k \in DOMAIN f.code[y].args : f.code[y].args[k] # i)
                => g.code[y].args = f.code[y].args
  BY <1>1, <1>2, PreparedIs
<1> HIDE DEF g
<1>4. ASSUME NEW b \in DOMAIN g.layout
      PROVE  \/ b[1] = "orig"
             \/ \E j \in S \cup {i} : b \in {Clone(j), Rest(j)}
             \/ \E n \in DOMAIN M : b = Mutant(n)
  BY <1>3 DEF FunctionInv
<1>5. ASSUME NEW x \in DOMAIN g.code, g.code[x].op = "alloca" PROVE x \in Origs
  <2>1. CASE x \in DOMAIN f.code \ Created(i)
    BY <1>3, <1>5, <2>1 DEF FunctionInv
  <2>2. CASE x \in Created(i)
    BY <1>3, <1>5, <2>2 DEF Created
  <2> QED  BY <1>3, <2>1, <2>2
<1>6. ASSUME NEW j \in S
      PROVE  /\ {Switch(j), GlobalLoad(j), Phi(j)} \subseteq DOMAIN g.code
             /\ g.code[GlobalLoad(j)].args = <<Global(SourceID(j))>>
             /\ g.code[Switch(j)].cases \in Seq(Nat)
             /\ ToSet(g.code[Switch(j)].cases) = MutationsOf(M, j)
  <2>1. /\ {Switch(j), GlobalLoad(j), Phi(j)} \subseteq DOMAIN f.code
        /\ f.code[GlobalLoad(j)].args = <<Global(SourceID(j))>>
        /\ f.code[Switch(j)].cases \in Seq(Nat)
        /\ ToSet(f.code[Switch(j)].cases) = MutationsOf(M, j)
    BY DEF FunctionInv
  <2>2. i # j
    OBVIOUS
  <2>3. {Switch(j), GlobalLoad(j), Phi(j)} \cap Created(i) = {}
    BY <2>2 DEF Created, Clone, CloneBr, GlobalLoad, Switch, SplitBr, Phi
  <2>4. \A k \in DOMAIN f.code[GlobalLoad(j)].args : f.code[GlobalLoad(j)].args[k] # i
    BY <1>1, <2>1 DEF Global
  <2>5. /\ g.code[GlobalLoad(j)].args = f.code[GlobalLoad(j)].args
        /\ g.code[Switch(j)].cases = f.code[Switch(j)].cases
    BY <1>3, <2>1, <2>3, <2>4
  <2>6. {Switch(j), GlobalLoad(j), Phi(j)} \subseteq DOMAIN g.code
    BY <1>3, <2>1, <2>3 DEF Created
  <2> QED  BY <2>1, <2>5, <2>6
<1>7. /\ {Switch(i), GlobalLoad(i), Phi(i)} \subseteq DOMAIN g.code
      /\ g.code[Switch(i)].cases \in Seq(Nat)
      /\ ToSet(g.code[Switch(i)].cases) = MutationsOf(M, i)
  <2>1. ToSet(<<>>) = {} /\ <<>> \in Seq(Nat)
    BY DEF ToSet
  <2>2. {Switch(i), GlobalLoad(i), Phi(i)} \subseteq Created(i) \ {SplitBr(i)}
    BY DEF Created, GlobalLoad, Switch, SplitBr, Phi
  <2> QED  BY <1>3, <2>1, <2>2
<1>8. ASSUME NEW x \in DOMAIN f.code \cap Origs
      PROVE  x \in DOMAIN g.code /\ g.code[x].op = f.code[x].op
  <2>1. x[1] = "orig"
    BY ProgramIs
  <2>2. x \notin Created(i)
    BY <2>1 DEF Created, Clone, CloneBr, GlobalLoad, Switch, SplitBr, Phi
  <2> QED  BY <1>3, <2>2 DEF Created
<1>9. FunctionInv(g, S \cup {i}, M)
  BY <1>3, <1>4, <1>5, <1>6, <1>7 DEF FunctionInv
<1> QED  BY <1>8, <1>9 DEF g

LEMMA AppendRange ==
  ASSUME NEW T, NEW s \in Seq(T), NEW e \in T
  PROVE  Append(s, e) \in Seq(T) /\ ToSet(Append(s, e)) = ToSet(s) \cup {e}
<1>1. /\ Append(s, e) \in Seq(T)
      /\ DOMAIN Append(s, e) = DOMAIN s \cup {Len(s) + 1}
      /\ Append(s, e)[Len(s) + 1] = e
      /\ \A k \in DOMAIN s : Append(s, e)[k] = s[k]
  OBVIOUS
<1> DEFINE r == Append(s, e)
<1> HIDE DEF r
<1>2. /\ DOMAIN r = DOMAIN s \cup {Len(s) + 1}
      /\ r[Len(s) + 1] = e
      /\ \A k \in DOMAIN s : r[k] = s[k]
  BY <1>1 DEF r
<1>3. ToSet(r) = ToSet(s) \cup {e}
  BY <1>2 DEF ToSet
<1> QED  BY <1>1, <1>3 DEF r

LEMMA MutationsAppended ==
  ASSUME NEW M \in Seq(MutationRecords), NEW m \in MutationRecords
  PROVE  /\ Append(M, m) \in Seq(MutationRecords)
         /\ Len(Append(M, m)) = Len(M) + 1
         /\ DOMAIN Append(M, m) = DOMAIN M \cup {Len(M) + 1}
         /\ Len(M) + 1 \in Nat /\ Len(M) + 1 \notin DOMAIN M
         /\ Append(M, m)[Len(M) + 1] = m
         /\ \A k \in DOMAIN M : Append(M, m)[k] = M[k]
         /\ MutationsOf(Append(M, m), m.original) =
              MutationsOf(M, m.original) \cup {Len(M) + 1}
         /\ \A j : j # m.original => MutationsOf(Append(M, m), j) = MutationsOf(M, j)
<1>1. /\ Append(M, m) \in Seq(MutationRecords)
      /\ Len(Append(M, m)) = Len(M) + 1
      /\ DOMAIN Append(M, m) = DOMAIN M \cup {Len(M) + 1}
      /\ Len(M) + 1 \in Nat /\ Len(M) + 1 \notin DOMAIN M
      /\ Append(M, m)[Len(M) + 1] = m
      /\ \A k \in DOMAIN M : Append(M, m)[k] = M[k]
  OBVIOUS
<1> DEFINE r == Append(M, m)
           n == Len(M) + 1
<1> HIDE DEF r, n
<1>2. /\ DOMAIN r = DOMAIN M \cup {n} /\ n \notin DOMAIN M
      /\ r[n] = m
      /\ \A k \in DOMAIN M : r[k] = M[k]
  BY <1>1 DEF r, n
<1>3. MutationsOf(r, m.original) = MutationsOf(M, m.original) \cup {n}
  BY <1>2 DEF MutationsOf
<1>4. \A j : j # m.original => MutationsOf(r, j) = MutationsOf(M, j)
  BY <1>2 DEF MutationsOf
<1> QED  BY <1>1, <1>3, <1>4 DEF r, n

\* Mutation m of instruction i, one of the sites, is next.
MayInject(f, S, M, i, candidate, m) ==
  /\ S \subseteq Origs /\ M \in Seq(MutationRecords) /\ FunctionInv(f, S, M)
  /\ i \in S /\ i \in DOMAIN f.code /\ f.code[i].op # "alloca"
  /\ f.code[i].op # "load" => candidate # "alloca"
  /\ m \in MutationRecords /\ m.original = i

LEMMA InjectKeeps ==
  ASSUME program \in Programs, NEW f, NEW S, NEW M, NEW i, NEW candidate, NEW m,
         MayInject(f, S, M, i, candidate, m)
  PROVE  LET g == Injected(f, i, Len(M) + 1, candidate) IN
         /\ FunctionInv(g, S, Append(M, m))
         /\ \A x \in DOMAIN f.code \cap Origs :
              x \in DOMAIN g.code /\ g.code[x].op = f.code[x].op
<1> DEFINE n == Len(M) + 1
           g == Injected(f, i, n, candidate)
           R == Append(M, m)
<1> USE DEF MayInject
<1>1. /\ n \in Nat /\ n \notin DOMAIN M
      /\ DOMAIN R = DOMAIN M \cup {n}
      /\ MutationsOf(R, i) = MutationsOf(M, i) \cup {n}
      /\ \A j : j # i => MutationsOf(R, j) = MutationsOf(M, j)
  BY MutationsAppended
<1> HIDE DEF n, R
<1>2. /\ WellFormed(f, Names) /\ i[1] = "orig"
      /\ Mutant(n) \in Names /\ MutantBr(n) \in Names
      /\ Switch(i) \in DOMAIN f.code /\ Phi(i) \in DOMAIN f.code
  BY <1>1, ProgramIs, NamesAre DEF FunctionInv
<1>3. Mutant(n) \notin DOMAIN f.layout
  <2> SUFFICES ASSUME NEW b \in DOMAIN f.layout PROVE b # Mutant(n)
    OBVIOUS
  <2>1. CASE b[1] = "orig"
    BY <2>1 DEF Mutant
  <2>2. CASE \E j \in S : b \in {Clone(j), Rest(j)}
    BY <2>2 DEF Clone, Rest, Mutant
  <2>3. CASE \E k \in DOMAIN M : b = Mutant(k)
    BY <1>1, <2>3 DEF Mutant
  <2> QED  BY <2>1, <2>2, <2>3 DEF FunctionInv
<1>4. /\ WellFormed(g, Names)
      /\ DOMAIN g.layout = DOMAIN f.layout \cup {Mutant(n)}
      /\ DOMAIN g.code = DOMAIN f.code \cup {Mutant(n), MutantBr(n)}
      /\ g.code[Mutant(n)].op =
           IF f.code[i].op = "load" THEN "load" ELSE candidate
      /\ g.code[MutantBr(n)].op = "br"
      /\ g.code[Phi(i)].op = f.code[Phi(i)].op
      /\ g.code[Switch(i)].op = f.code[Switch(i)].op
      /\ g.code[Switch(i)].cases = Append(f.code[Switch(i)].cases, n)
      /\ \A y \in DOMAIN f.code \ {Mutant(n), MutantBr(n), Phi(i), Switch(i)} :
           g.code[y] = f.code[y]
  BY <1>2, <1>3, InjectedIs
<1> HIDE DEF g
<1>5. ASSUME NEW b \in DOMAIN g.layout
      PROVE  \/ b[1] = "orig"
             \/ \E j \in S : b \in {Clone(j), Rest(j)}
             \/ \E k \in DOMAIN R : b = Mutant(k)
  BY <1>1, <1>4 DEF FunctionInv
<1>6. ASSUME NEW x \in DOMAIN g.code, g.code[x].op = "alloca" PROVE x \in Origs
  <2>1. CASE x \in {Mutant(n), MutantBr(n)}
    BY <1>4, <1>6, <2>1
  <2>2. CASE x \in DOMAIN f.code \ {Mutant(n), MutantBr(n)}
    <3>1. g.code[x].op = f.code[x].op
      BY <1>4, <2>2
    <3> QED  BY <1>6, <2>2, <3>1 DEF FunctionInv
  <2> QED  BY <1>4, <2>1, <2>2
<1>7. ASSUME NEW j \in S
      PROVE  /\ {Switch(j), GlobalLoad(j), Phi(j)} \subseteq DOMAIN g.code
             /\ g.code[GlobalLoad(j)].args = <<Global(SourceID(j))>>
             /\ g.code[Switch(j)].cases \in Seq(Nat)
             /\ ToSet(g.code[Switch(j)].cases) = MutationsOf(R, j)
  <2>1. /\ {Switch(j), GlobalLoad(j), Phi(j)} \subseteq DOMAIN f.code
        /\ f.code[GlobalLoad(j)].args = <<Global(SourceID(j))>>
        /\ f.code[Switch(j)].cases \in Seq(Nat)
        /\ ToSet(f.code[Switch(j)].cases) = MutationsOf(M, j)
    BY DEF FunctionInv
  <2>2. {Switch(j), GlobalLoad(j), Phi(j)} \subseteq DOMAIN g.code
    BY <1>4, <2>1
  <2>3. GlobalLoad(j) \notin {Mutant(n), MutantBr(n), Phi(i), Switch(i)}
    BY DEF GlobalLoad, Mutant, MutantBr, Phi, Switch
  <2>4. g.code[GlobalLoad(j)].args = <<Global(SourceID(j))>>
    BY <1>4, <2>1, <2>3
  <2>5. CASE j = i
    <3>1. g.code[Switch(j)].cases = Append(f.code[Switch(j)].cases, n)
      BY <1>4, <2>5
    <3>2. /\ Append(f.code[Switch(j)].cases, n) \in Seq(Nat)
          /\ ToSet(Append(f.code[Switch(j)].cases, n)) =
               ToSet(f.code[Switch(j)].cases) \cup {n}
      BY <1>1, <2>1, AppendRange
    <3> QED  BY <1>1, <2>1, <2>2, <2>4, <2>5, <3>1, <3>2
  <2>6. CASE j # i
    <3>1. Switch(j) \notin {Mutant(n), MutantBr(n), Phi(i), Switch(i)}
      BY <2>6 DEF Mutant, MutantBr, Phi, Switch
    <3>2. g.code[Switch(j)] = f.code[Switch(j)]
      BY <1>4, <2>1, <3>1
    <3> QED  BY <1>1, <2>1, <2>2, <2>4, <2>6, <3>2
  <2> QED  BY <2>5, <2>6
<1>8. ASSUME NEW x \in DOMAIN f.code \cap Origs
      PROVE  x \in DOMAIN g.code /\ g.code[x].op = f.code[x].op
  <2>1. x[1] = "orig"
    BY ProgramIs
  <2>2. x \notin {Mutant(n), MutantBr(n), Phi(i), Switch(i)}
    BY <2>1 DEF Mutant, MutantBr, Phi, Switch
  <2> QED  BY <1>4, <2>2
<1>9. FunctionInv(g, S, R)
  BY <1>4, <1>5, <1>6, <1>7 DEF FunctionInv
<1> QED  BY <1>8, <1>9 DEF g, n, R

\* An original goes; nothing FunctionInv speaks of is one.
LEMMA EraseKeeps ==
  ASSUME program \in Programs, NEW f, NEW S, S \subseteq Origs, NEW M,
         FunctionInv(f, S, M), NEW i \in DOMAIN f.code \cap Origs
  PROVE  LET g == Erase(f, i) IN
         /\ FunctionInv(g, S, M)
         /\ DOMAIN g.code = DOMAIN f.code \ {i}
<1> DEFINE g == Erase(f, i)
<1>1. WellFormed(f, Names) /\ i \in DOMAIN f.code /\ i[1] = "orig"
  BY ProgramIs DEF FunctionInv
<1>2. /\ WellFormed(g, Names)
      /\ DOMAIN g.layout = DOMAIN f.layout
      /\ DOMAIN g.code = DOMAIN f.code \ {i}
      /\ \A y \in DOMAIN f.code \ {i} : g.code[y] = f.code[y]
  BY <1>1, EraseIs
<1> HIDE DEF g
<1>3. \A j : i \notin {Switch(j), GlobalLoad(j), Phi(j)}
  BY <1>1 DEF Switch, GlobalLoad, Phi
<1>4. FunctionInv(g, S, M)
  BY <1>2, <1>3 DEF FunctionInv
<1> QED  BY <1>2, <1>4 DEF g

-------------------------------------------------------------------------------
(* Every step of run() keeps IInv.                                         *)

LEMMA FunctionNext ==
  ASSUME program' = program, FunctionInv(ir', Sites', mutations')
  PROVE  FunctionInv(ir, Sites, mutations)'
BY DEF FunctionInv, Names, Origs, SourceID

LEMMA ListsNext ==
  ASSUME IInv, UNCHANGED << program, nextMutantId, mutations, maps >>
  PROVE  MutationsInv' /\ MapsInv' /\ Sites' = Sites
BY DEF IInv, MutationsInv, MapsInv, MutationRecords, Origs, Sites, maps

LEMMA InitInv == Init => IInv
<1> SUFFICES ASSUME Init PROVE IInv
  OBVIOUS
<1> USE DEF Init, EngineInit
<1>1. /\ program \in Programs /\ ir = program.function
      /\ Sites = {} /\ mutations = <<>> /\ DOMAIN mutations = {}
  BY DEF Sites
<1>2. WellFormed(ir, Names)
  BY <1>1, ProgramIs, NamesAre, WellFormedIn
<1>3. /\ \A b \in DOMAIN ir.layout : b[1] = "orig"
      /\ DOMAIN ir.code = Origs
  BY <1>1, ProgramIs DEF Origs
<1>4. FunctionInv(ir, Sites, mutations)
  BY <1>1, <1>2, <1>3 DEF FunctionInv
<1>5. MutationsInv /\ MapsInv
  BY <1>1 DEF MutationsInv, MapsInv, Sites
<1> QED  BY <1>1, <1>4, <1>5 DEF IInv, ProgramInv, VisitInv, PendingInv, TableInv, Phases

\* prepare() inserts the call of the loader and nothing else.
LEMMA ConstructInv == IInv /\ Construct => IInv'
<1> SUFFICES ASSUME IInv, Construct PROVE IInv'
  OBVIOUS
<1>1. /\ phase = "construct" /\ phase' = "collect" /\ instructions' = instructions
      /\ program' = program /\ current' = current /\ pending' = pending
      /\ table' = table
      /\ UNCHANGED << program, nextMutantId, mutations, maps >>
  BY DEF Construct, prepare, maps
<1>2. /\ program \in Programs /\ ir = program.function
      /\ FunctionInv(ir, Sites, mutations)
      /\ instructions = {} /\ current = None /\ pending = <<>>
  BY <1>1 DEF IInv, ProgramInv, VisitInv, PendingInv
<1>3. MutationsInv' /\ MapsInv' /\ Sites' = Sites
  BY <1>1, ListsNext
<1>4. FunctionInv(ir', Sites, mutations)
  <2> DEFINE call == Ins("call", "void", <<LoaderFunction>>)
             i == FirstNonPHI(ir, ir.entry)
             g == InsertBefore(ir, i, LoaderCall, call)
  <2>1. i \in DOMAIN ir.code
    <3> DEFINE s == ir.layout[ir.entry]
    <3>1. s \in Seq(Origs) /\ s # <<>> /\ ir.code[s[1]].op # "phi"
      BY <1>2, ProgramIs DEF WellFormed
    <3> HIDE DEF s
    <3>2. 1 \in DOMAIN s
      BY <3>1
    <3>3. \E k \in DOMAIN s : /\ ir.code[s[k]].op # "phi"
                              /\ \A j \in 1 .. k - 1 : ir.code[s[j]].op = "phi"
      BY <3>1, <3>2
    <3>4. \E k \in DOMAIN s : i = s[k]
      BY Zenon, <3>3 DEF FirstNonPHI, s
    <3> QED  BY <1>2, <3>1, <3>4 DEF Origs
  <2>2. LoaderCall \in Names /\ IsIns(call) /\ call.op = "call"
    BY NamesAre, InsIs, SingletonIs
  <2>3. WellFormed(ir, Names)
    BY <1>2 DEF FunctionInv
  <2> HIDE DEF call, i
  <2>4. /\ WellFormed(g, Names)
        /\ DOMAIN g.layout = DOMAIN ir.layout
        /\ DOMAIN g.code = DOMAIN ir.code \cup {LoaderCall}
        /\ g.code[LoaderCall] = call
        /\ \A y \in DOMAIN ir.code \ {LoaderCall} : g.code[y] = ir.code[y]
    BY <2>1, <2>2, <2>3, InsertBeforeIs
  <2> HIDE DEF g
  <2>5. \A j : LoaderCall \notin {Switch(j), GlobalLoad(j), Phi(j)}
    BY DEF LoaderCall, Switch, GlobalLoad, Phi
  <2>6. FunctionInv(g, Sites, mutations)
    BY <1>2, <2>2, <2>4, <2>5 DEF FunctionInv
  <2>7. ir' \in {g, ir}
    BY DEF Construct, prepare, g, i, call
  <2> QED  BY <1>2, <2>6, <2>7
<1>5. FunctionInv(ir, Sites, mutations)'
  BY <1>1, <1>3, <1>4, FunctionNext
<1> QED  BY <1>1, <1>2, <1>3, <1>5
         DEF IInv, ProgramInv, VisitInv, PendingInv, TableInv, Phases

\* The steps that leave the function, the mutations and the maps alone.
LEMMA FunctionUnmoved ==
  ASSUME IInv, UNCHANGED << program, ir, nextMutantId, mutations, maps >>
  PROVE  FunctionInv(ir, Sites, mutations)' /\ MutationsInv' /\ MapsInv'
<1>1. MutationsInv' /\ MapsInv' /\ Sites' = Sites
  BY ListsNext
<1>2. FunctionInv(ir', Sites', mutations')
  BY <1>1 DEF IInv
<1> QED  BY <1>1, <1>2, FunctionNext

LEMMA CollectInv == IInv /\ Collect => IInv'
<1> SUFFICES ASSUME IInv, Collect PROVE IInv'
  OBVIOUS
<1> USE DEF Collect, engineVars
<1>1. FunctionInv(ir, Sites, mutations)' /\ MutationsInv' /\ MapsInv'
  BY FunctionUnmoved
<1>2. instructions' \subseteq DOMAIN ir.code \cap DOMAIN program.id
  BY DEF isMutable, DebugInfoFilter
<1> QED  BY <1>1, <1>2
         DEF IInv, ProgramInv, VisitInv, PendingInv, TableInv, Phases

LEMMA BeginInv == ASSUME NEW i \in instructions, IInv, Begin(i) PROVE IInv'
<1> USE DEF Begin, BeginMutate
<1>1. FunctionInv(ir, Sites, mutations)' /\ MutationsInv' /\ MapsInv'
  BY FunctionUnmoved
<1>2. /\ current' = i /\ instructions' = instructions \ {i}
      /\ phase = "mutate" /\ phase' = "mutate" /\ ir' = ir /\ program' = program
      /\ pending' \in CandidateLists(ir, Environment, i)
  OBVIOUS
<1>3. PendingInv'
  <2>1. pending' # <<>> => /\ MutatorFor(ir.code[i].op) # "none"
                           /\ ir.code[i].op # "load" => pending' \in Seq(Opcodes)
    BY <1>2, CandidatesAre
  <2>2. i # None
    BY <1>2, ProgramIs DEF IInv, ProgramInv, VisitInv
  <2> QED  BY <1>2, <2>1, <2>2 DEF PendingInv
<1>4. VisitInv' /\ ProgramInv' /\ TableInv'
  BY <1>2 DEF IInv, VisitInv, ProgramInv, TableInv, Phases
<1> QED  BY <1>1, <1>3, <1>4 DEF IInv

LEMMA SkipInv == IInv /\ Skip => IInv'
<1> SUFFICES ASSUME IInv, Skip PROVE IInv'
  OBVIOUS
<1> USE DEF Skip, SkipCandidate
<1>1. FunctionInv(ir, Sites, mutations)' /\ MutationsInv' /\ MapsInv'
  BY FunctionUnmoved
<1>2. /\ pending # <<>> /\ pending' = Tail(pending)
      /\ UNCHANGED << ir, current, instructions, phase, program >>
  OBVIOUS
<1>3. PendingInv'
  <2>1. \A s \in Seq(Opcodes) : s # <<>> => Tail(s) \in Seq(Opcodes)
    OBVIOUS
  <2> QED  BY <1>2, <2>1 DEF IInv, PendingInv
<1>4. VisitInv' /\ ProgramInv'
  BY <1>2 DEF IInv, VisitInv, ProgramInv, Phases
<1>5. TableInv'
  BY <1>2 DEF IInv, PendingInv, VisitInv, TableInv
<1> QED  BY <1>1, <1>3, <1>4, <1>5 DEF IInv

LEMMA EndInv == IInv /\ End => IInv'
<1> SUFFICES ASSUME IInv, End PROVE IInv'
  OBVIOUS
<1>1. /\ current # None /\ current' = None /\ pending = <<>> /\ pending' = pending
      /\ program' = program /\ phase' = phase /\ instructions' = instructions
      /\ table' = table
      /\ ir' = IF hasBeenMutated(current) THEN Erase(ir, current) ELSE ir
      /\ UNCHANGED << program, nextMutantId, mutations, maps >>
  BY DEF End, EndMutate, maps
<1>2. /\ program \in Programs /\ FunctionInv(ir, Sites, mutations)
      /\ phase = "mutate" /\ current \in DOMAIN ir.code \cap Origs
      /\ Sites \subseteq Origs
  BY <1>1, ProgramIs DEF IInv, ProgramInv, VisitInv, MapsInv
<1>3. MutationsInv' /\ MapsInv' /\ Sites' = Sites
  BY <1>1, ListsNext
<1>4. /\ FunctionInv(ir', Sites, mutations)
      /\ DOMAIN ir.code \ {current} \subseteq DOMAIN ir'.code
  BY <1>1, <1>2, EraseKeeps
<1>5. FunctionInv(ir, Sites, mutations)'
  BY <1>1, <1>3, <1>4, FunctionNext
<1>6. VisitInv'
  BY <1>1, <1>2, <1>4 DEF IInv, VisitInv, Phases
<1> QED  BY <1>1, <1>2, <1>3, <1>5, <1>6 DEF IInv, ProgramInv, PendingInv, TableInv

\* The steps after the last mutation.
LEMMA WriteInv ==
  IInv /\ (Mutated \/ WriteTable \/ WriteBitcode \/ UNCHANGED vars) => IInv'
<1> SUFFICES ASSUME IInv, Mutated \/ WriteTable \/ WriteBitcode \/ UNCHANGED vars
             PROVE  IInv'
  OBVIOUS
<1> USE DEF Mutated, WriteTable, writeMutationTable, WriteBitcode, vars, engineVars
<1>1. /\ UNCHANGED << program, ir, nextMutantId, mutations, maps >>
      /\ UNCHANGED << current, pending, instructions >>
  OBVIOUS
<1>2. FunctionInv(ir, Sites, mutations)' /\ MutationsInv' /\ MapsInv'
  BY <1>1, FunctionUnmoved
<1>3. ProgramInv' /\ VisitInv' /\ PendingInv'
  BY <1>1 DEF IInv, ProgramInv, VisitInv, PendingInv, Phases
<1>4. TableInv'
  BY <1>1 DEF IInv, TableInv, SourceID, toJSON
<1> QED  BY <1>2, <1>3, <1>4 DEF IInv

\* inject: the maps get the site, whether it is new or not.
LEMMA MapsNext ==
  ASSUME IInv, NEW i, i \in DOMAIN program.id, program' = program,
         IF hasBeenMutated(i) THEN UNCHANGED << loader, globals, maps >>
                              ELSE prepareInstruction(i)
  PROVE  /\ MapsInv' /\ Sites' = Sites \cup {i}
         /\ instructionToSwitchMap'[i] = Switch(i)
         /\ instructionToPhiMap'[i] = Phi(i)
         /\ instructionToDestinationBlock'[i] = Rest(i)
<1>1. MapsInv
  BY DEF IInv
<1>2. CASE hasBeenMutated(i)
  <2>1. UNCHANGED maps /\ i \in Sites
    BY <1>2 DEF hasBeenMutated, Sites
  <2> QED  BY <1>1, <2>1 DEF MapsInv, Sites, maps
<1>3. CASE ~ hasBeenMutated(i)
  <2>1. i \notin Sites
    BY <1>3 DEF hasBeenMutated, Sites
  <2>2. /\ DOMAIN instructionToSwitchMap = Sites /\ DOMAIN instructionToClone = Sites
        /\ DOMAIN instructionToPhiMap = Sites /\ DOMAIN instructionToCloneBlock = Sites
        /\ DOMAIN instructionToDestinationBlock = Sites
    BY <1>1 DEF MapsInv, Sites
  <2>3. /\ instructionToClone' = Put(instructionToClone, i, Clone(i))
        /\ instructionToSwitchMap' = Put(instructionToSwitchMap, i, Switch(i))
        /\ instructionToPhiMap' = Put(instructionToPhiMap, i, Phi(i))
        /\ instructionToDestinationBlock' = Put(instructionToDestinationBlock, i, Rest(i))
        /\ instructionToCloneBlock' = Put(instructionToCloneBlock, i, Clone(i))
    BY <1>3, <2>1, <2>2 DEF prepareInstruction, Emplace
  <2>4. /\ DOMAIN instructionToSwitchMap' = Sites \cup {i}
        /\ DOMAIN instructionToClone' = Sites \cup {i}
        /\ DOMAIN instructionToPhiMap' = Sites \cup {i}
        /\ DOMAIN instructionToCloneBlock' = Sites \cup {i}
        /\ DOMAIN instructionToDestinationBlock' = Sites \cup {i}
    BY <2>2, <2>3 DEF Put
  <2>5. \A j \in Sites \cup {i} : /\ instructionToSwitchMap'[j] = Switch(j)
                                 /\ instructionToPhiMap'[j] = Phi(j)
                                 /\ instructionToDestinationBlock'[j] = Rest(j)
                                 /\ instructionToCloneBlock'[j] = Clone(j)
    BY <1>1, <2>1, <2>2, <2>3 DEF Put, MapsInv
  <2>6. Sites' = Sites \cup {i}
    BY <2>4 DEF Sites
  <2> QED  BY <1>1, <2>4, <2>5, <2>6 DEF MapsInv
<1> QED  BY <1>2, <1>3

\* The function that a mutation of i is injected in.
PreparedFor(i) == IF hasBeenMutated(i) THEN ir ELSE PreparedIR(ir, i)

\* What inject is given, and what it makes of it.
LEMMA InjectIs ==
  ASSUME IInv, Inject
  PROVE  LET i == current
             op == ir.code[i].op
             c == Head(pending)
             m == Mutation(i, c)
             f == PreparedFor(i)
             S == Sites \cup {i}
         IN  /\ program \in Programs /\ program' = program /\ inject(i, c)
             /\ i \in DOMAIN ir.code \cap DOMAIN program.id /\ i \in Origs
             /\ MutatorFor(op) # "none" /\ phase = "mutate"
             /\ op = "load" => c \in DOMAIN ir.code /\ ir.code[c].op = "alloca"
             /\ op # "load" => c \in Opcodes
             /\ ~ hasBeenMutated(i) => i \notin Sites /\ MutationsOf(mutations, i) = {}
             /\ MayInject(f, S, mutations, i, c, m)
             /\ IF m.operator = "LoadMutator" THEN m.variant \in Origs
                                              ELSE m.variant \in Opcodes
             /\ \A x \in DOMAIN ir.code \cap Origs :
                  x \in DOMAIN f.code /\ f.code[x].op = ir.code[x].op
             /\ MapsInv' /\ Sites' = S
             /\ nextMutantId = Len(mutations) + 1 /\ nextMutantId' = nextMutantId + 1
             /\ ir' = Injected(f, i, Len(mutations) + 1, c)
             /\ mutations' = Append(mutations, m)
<1> DEFINE i == current
           op == ir.code[i].op
           c == Head(pending)
           n == nextMutantId
           m == Mutation(i, c)
           f == PreparedFor(i)
           S == Sites \cup {i}
<1>1. /\ pending # <<>> /\ ~ Skipped(ir, ir.code[i], c) /\ pending' = Tail(pending)
      /\ program' = program /\ current' = current /\ table' = table
      /\ phase' = phase /\ instructions' = instructions
      /\ inject(i, c)
  BY DEF Inject, InjectCandidate
<1>2. /\ program \in Programs /\ FunctionInv(ir, Sites, mutations)
      /\ MutationsInv /\ MapsInv /\ PendingInv /\ VisitInv
      /\ current # None /\ phase = "mutate" /\ MutatorFor(op) # "none"
      /\ i \in DOMAIN ir.code \cap DOMAIN program.id
  BY <1>1 DEF IInv, ProgramInv, PendingInv, VisitInv
<1>3. i \in Origs /\ S \subseteq Origs /\ op # "alloca"
  BY <1>2, ProgramIs, MutatorIs DEF MapsInv
<1>4. /\ op = "load" => c \in Origs /\ c \in DOMAIN ir.code /\ ir.code[c].op = "alloca"
      /\ op # "load" => c \in Opcodes /\ c # "alloca"
  <2>1. CASE op = "load"
    BY <1>1, <1>2, <2>1 DEF Skipped, FunctionInv
  <2>2. CASE op # "load"
    <3>1. pending \in Seq(Opcodes)
      BY <1>1, <1>2, <2>2 DEF PendingInv
    <3>2. c \in Opcodes
      BY <1>1, <3>1
    <3> QED  BY <2>2, <3>2, OpcodesAre
  <2> QED  BY <2>1, <2>2
<1>5. /\ m \in MutationRecords
      /\ IF m.operator = "LoadMutator" THEN m.variant \in Origs ELSE m.variant \in Opcodes
  BY <1>3, <1>4, MutatorIs DEF MutationRecords, Mutation
<1>6. mutations \in Seq(MutationRecords) /\ n = Len(mutations) + 1
  BY <1>2 DEF MutationsInv
<1>7. /\ FunctionInv(f, S, mutations)
      /\ \A x \in DOMAIN ir.code \cap Origs :
           x \in DOMAIN f.code /\ f.code[x].op = ir.code[x].op
  <2>1. CASE hasBeenMutated(i)
    <3>1. f = ir /\ S = Sites
      BY <2>1 DEF hasBeenMutated, Sites, PreparedFor
    <3> QED  BY <1>2, <3>1
  <2>2. CASE ~ hasBeenMutated(i)
    <3>1. i \notin Sites
      BY <2>2 DEF hasBeenMutated, Sites
    <3>2. MutationsOf(mutations, i) = {}
      BY <1>2, <3>1 DEF MutationsInv, MutationsOf
    <3>3. Sites \subseteq Origs /\ i \in DOMAIN ir.code \cap Origs
      BY <1>2, <1>3
    <3>4. f = PreparedIR(ir, i)
      BY <2>2 DEF PreparedFor
    <3> QED  BY <1>2, <1>3, <3>1, <3>2, <3>3, <3>4, PrepareKeeps
  <2> QED  BY <2>1, <2>2
<1>8. /\ MapsInv' /\ Sites' = S
      /\ instructionToSwitchMap'[i] = Switch(i)
      /\ instructionToPhiMap'[i] = Phi(i)
      /\ instructionToDestinationBlock'[i] = Rest(i)
  BY <1>1, <1>2, MapsNext DEF inject
<1>9. /\ ir' = Injected(f, i, n, c) /\ mutations' = Append(mutations, m)
      /\ nextMutantId' = n + 1
  BY <1>1, <1>8 DEF inject, Injected, PreparedFor
<1> HIDE DEF c, m, f, S, op, n
<1>10. i \in S /\ i \in DOMAIN f.code /\ f.code[i].op = op
  BY <1>2, <1>3, <1>7 DEF op, S
<1>11. m.original = i
  BY DEF m, Mutation
<1>12. ~ hasBeenMutated(i) => i \notin Sites /\ MutationsOf(mutations, i) = {}
  BY <1>2 DEF hasBeenMutated, Sites, MutationsInv, MutationsOf
<1>13. MayInject(f, S, mutations, i, c, m)
  BY <1>2, <1>3, <1>4, <1>5, <1>6, <1>7, <1>10, <1>11 DEF MayInject
<1> QED  BY <1>1, <1>2, <1>3, <1>4, <1>5, <1>6, <1>7, <1>8, <1>9, <1>12, <1>13
         DEF c, m, f, S, op, n

LEMMA InjectInv == IInv /\ Inject => IInv'
<1> SUFFICES ASSUME IInv, Inject PROVE IInv'
  OBVIOUS
<1> DEFINE i == current
           op == ir.code[i].op
           c == Head(pending)
           n == nextMutantId
           m == Mutation(i, c)
           f == PreparedFor(i)
           S == Sites \cup {i}
<1>1. /\ pending # <<>> /\ pending' = Tail(pending)
      /\ current' = current /\ table' = table
      /\ phase' = phase /\ instructions' = instructions
  BY DEF Inject, InjectCandidate
<1>2. /\ MutationsInv /\ PendingInv /\ VisitInv
      /\ current # None /\ TableInv
  BY <1>1 DEF IInv, PendingInv
<1>3. /\ program \in Programs /\ program' = program
      /\ i \in DOMAIN ir.code \cap DOMAIN program.id /\ i \in Origs
      /\ MutatorFor(op) # "none" /\ phase = "mutate"
      /\ MayInject(f, S, mutations, i, c, m)
      /\ IF m.operator = "LoadMutator" THEN m.variant \in Origs ELSE m.variant \in Opcodes
      /\ \A x \in DOMAIN ir.code \cap Origs :
           x \in DOMAIN f.code /\ f.code[x].op = ir.code[x].op
      /\ MapsInv' /\ Sites' = S
      /\ n = Len(mutations) + 1 /\ nextMutantId' = n + 1
      /\ ir' = Injected(f, i, Len(mutations) + 1, c)
      /\ mutations' = Append(mutations, m)
  BY InjectIs
<1> HIDE DEF c, m, f, S, op, n
<1>4. i \in S /\ m \in MutationRecords /\ m.original = i /\ mutations \in Seq(MutationRecords)
  BY <1>3 DEF MayInject
<1>12. /\ FunctionInv(ir', S, Append(mutations, m))
       /\ \A x \in DOMAIN f.code \cap Origs :
            x \in DOMAIN ir'.code /\ ir'.code[x].op = f.code[x].op
  BY <1>3, InjectKeeps
<1>13. FunctionInv(ir, Sites, mutations)'
  BY <1>3, <1>12, FunctionNext
<1>14. MutationsInv'
  <2>1. Origs' = Origs /\ MutationRecords' = MutationRecords
    BY <1>3 DEF Origs, MutationRecords
  <2>2. /\ mutations' \in Seq(MutationRecords) /\ Len(mutations') = Len(mutations) + 1
        /\ DOMAIN mutations' = DOMAIN mutations \cup {n}
        /\ mutations'[n] = m
        /\ \A k \in DOMAIN mutations : mutations'[k] = mutations[k]
    BY <1>3, <1>4, MutationsAppended
  <2>3. nextMutantId' = Len(mutations') + 1
    BY <1>3, <2>2
  <2>4. ASSUME NEW k \in DOMAIN mutations'
        PROVE  /\ mutations'[k].original \in Sites'
               /\ IF mutations'[k].operator = "LoadMutator"
                  THEN mutations'[k].variant \in Origs
                  ELSE mutations'[k].variant \in Opcodes
    <3>1. CASE k = n
      BY <1>3, <1>4, <2>2, <3>1
    <3>2. CASE k \in DOMAIN mutations
      BY <1>2, <1>3, <2>2, <3>2 DEF MutationsInv, S
    <3> QED  BY <2>2, <3>1, <3>2
  <2> QED  BY <2>1, <2>2, <2>3, <2>4 DEF MutationsInv
<1>15. /\ \A x \in DOMAIN ir.code \cap Origs : x \in DOMAIN ir'.code
       /\ ir'.code[i].op = op
  BY <1>3, <1>12 DEF op
<1>16. VisitInv'
  BY <1>1, <1>2, <1>3, <1>15, ProgramIs DEF VisitInv, Phases
<1>17. PendingInv'
  <2>1. \A s \in Seq(Opcodes) : s # <<>> => Tail(s) \in Seq(Opcodes)
    OBVIOUS
  <2> QED  BY <1>1, <1>2, <1>3, <1>15, <2>1 DEF PendingInv, op
<1>18. ProgramInv' /\ TableInv'
  BY <1>1, <1>2, <1>3 DEF ProgramInv, TableInv
<1> QED  BY <1>3, <1>13, <1>14, <1>16, <1>17, <1>18 DEF IInv

LEMMA StepInv == IInv /\ [Next]_vars => IInv'
<1> SUFFICES ASSUME IInv, [Next]_vars PROVE IInv'
  OBVIOUS
<1>1. CASE Construct
  BY <1>1, ConstructInv
<1>2. CASE Collect
  BY <1>2, CollectInv
<1>3. CASE \E i \in instructions : Begin(i)
  BY <1>3, BeginInv
<1>4. CASE Skip
  BY <1>4, SkipInv
<1>5. CASE Inject
  BY <1>5, InjectInv
<1>6. CASE End
  BY <1>6, EndInv
<1>7. CASE Mutated \/ WriteTable \/ WriteBitcode \/ UNCHANGED vars
  BY <1>7, WriteInv
<1>8. CASE Returned
  BY <1>8, WriteInv DEF Returned
<1> QED  BY <1>1, <1>2, <1>3, <1>4, <1>5, <1>6, <1>7, <1>8 DEF Next

\* IInv holds in every state of every run, for every set of programs: whatever
\* the order in which run() visits the instructions, mutate() meets a function
\* in which each has its place and each site its switch.
THEOREM Invariance == Spec => []IInv
<1>1. Init => IInv
  BY InitInv
<1>2. IInv /\ [Next]_vars => IInv'
  BY StepInv
<1> QED  BY <1>1, <1>2, PTL DEF Spec

-------------------------------------------------------------------------------
(* What follows from it.                                                   *)

\* The shape of the engine's state: what is visited and what is still to be
\* visited is in the function, a mutated instruction is one of the program, the
\* replacement operand of a load is an instruction of the program, and the five
\* maps have the same keys.
THEOREM TypeCorrect == Spec => []TypeOK
<1>1. IInv => TypeOK
  <2> SUFFICES ASSUME IInv PROVE TypeOK
    OBVIOUS
  <2>1. DOMAIN program.id \subseteq DOMAIN program.function.code
    BY ProgramIs DEF IInv, ProgramInv, Origs
  <2>2. /\ phase \in Phases /\ current \in DOMAIN ir.code \cup {None}
        /\ instructions \subseteq DOMAIN ir.code
    BY DEF IInv, VisitInv
  <2>3. nextMutantId \in Nat \ {0}
    BY DEF IInv, MutationsInv
  <2>4. /\ Sites \subseteq DOMAIN program.function.code
        /\ \A m \in {instructionToClone, instructionToPhiMap,
                     instructionToDestinationBlock, instructionToCloneBlock} :
             DOMAIN m = Sites
    BY <2>1 DEF IInv, MapsInv
  <2>5. \A k \in DOMAIN mutations :
          /\ mutations[k].original \in DOMAIN program.function.code
          /\ IF mutations[k].operator = "LoadMutator"
             THEN mutations[k].variant \in DOMAIN program.function.code
             ELSE mutations[k].variant \in Opcodes
    BY <2>4 DEF IInv, MutationsInv, Origs
  <2> QED  BY <2>2, <2>3, <2>4, <2>5 DEF TypeOK, Sites
<1> QED  BY <1>1, Invariance, PTL

\* In the end each row of the table has the ID of a case in the switch of the
\* instruction the row names, over the global of that instruction, and each case
\* has its row; though the table is numbered afresh when it is written.
THEOREM TableIsRight == Spec => []TableMatchesBitcode
<1>1. IInv => TableMatchesBitcode
  <2> SUFFICES ASSUME IInv, phase = "done" PROVE TableMatchesBitcode
    BY DEF TableMatchesBitcode
  <2>1. /\ table = [n \in 1 .. Len(mutations) |-> toJSON(n, mutations[n])]
        /\ DOMAIN mutations = 1 .. Len(mutations)
    BY DEF IInv, TableInv, MutationsInv
  <2>2. /\ DOMAIN table = DOMAIN mutations
        /\ \A n \in DOMAIN table : /\ table[n].id = n
             /\ table[n].instruction = SourceID(mutations[n].original)
    BY <2>1 DEF toJSON
  <2>3. \A i \in Sites :
          /\ ir.code[GlobalLoad(i)].args = <<Global(SourceID(i))>>
          /\ ToSet(ir.code[Switch(i)].cases) = MutationsOf(mutations, i)
          /\ SourceID(i) = program.id[i]
    BY DEF IInv, FunctionInv, MapsInv, SourceID
  <2>4. ASSUME NEW n \in DOMAIN table
        PROVE  \E i \in Sites :
                 /\ table[n].id \in ToSet(ir.code[Switch(i)].cases)
                 /\ table[n].instruction = program.id[i]
                 /\ ir.code[GlobalLoad(i)].args = <<Global(table[n].instruction)>>
    <3> DEFINE i == mutations[n].original
    <3>1. i \in Sites
      BY <2>2 DEF IInv, MutationsInv
    <3>2. n \in MutationsOf(mutations, i)
      BY <2>2 DEF MutationsOf
    <3> HIDE DEF i
    <3>3. table[n].instruction = SourceID(i)
      BY <2>2 DEF i
    <3> QED  BY <2>2, <2>3, <3>1, <3>2, <3>3
  <2>5. \A i \in Sites :
          ToSet(ir.code[Switch(i)].cases) \subseteq {table[n].id : n \in DOMAIN table}
    BY <2>2, <2>3 DEF MutationsOf
  <2> QED  BY <2>4, <2>5 DEF TableMatchesBitcode, Sites
<1> QED  BY <1>1, Invariance, PTL
-------------------------------------------------------------------------------
(* The function that the supermutator leaves: its blocks, its phis, the    *)
(* diamonds of the sites and the mutants in them.  ShapeInv is inductive   *)
(* relative to IInv.                                                       *)

\* The instructions that are there when the sites S have been mutated by M.
MadeFor(S, M) ==
  (UNION {Created(i) \ {SplitBr(i)} : i \in S})
    \cup (UNION {{Mutant(n), MutantBr(n)} : n \in DOMAIN M})

NamesInv(f, S, M) ==
  /\ DOMAIN f.code \subseteq Origs \cup {LoaderCall} \cup MadeFor(S, M)
  /\ MadeFor(S, M) \subseteq DOMAIN f.code
  /\ Origs \ S \subseteq DOMAIN f.code
  /\ \A i \in S \cap DOMAIN f.code : MutatorFor(f.code[i].op) # "none"

\* No value of a site is used any more.
UsesInv(f, S) == \A x \in DOMAIN f.code : Values(f, x) \cap S = {}

\* Site i is a diamond: a switch with a block for the clone and one for each
\* mutation, and a block in which they meet, that begins with the only phi it has.
SiteInv(f, M, i) ==
  /\ {Clone(i), Rest(i)} \subseteq DOMAIN f.layout
  /\ f.layout[Clone(i)] = << Clone(i), CloneBr(i) >>
  /\ f.code[CloneBr(i)].to = << Rest(i) >>
  /\ f.layout[Rest(i)] # <<>> /\ f.layout[Rest(i)][1] = Phi(i)
  /\ \A k \in 2 .. Len(f.layout[Rest(i)]) : f.code[f.layout[Rest(i)][k]].op # "phi"
  /\ f.code[Phi(i)].op = "phi"
  /\ f.code[Phi(i)].in =
       {<< Mutant(n), Mutant(n) >> : n \in MutationsOf(M, i)} \cup {<< Clone(i), Clone(i) >>}
  /\ f.code[Switch(i)].op = "switch"
  /\ \A k, l \in DOMAIN f.code[Switch(i)].cases :
       f.code[Switch(i)].cases[k] = f.code[Switch(i)].cases[l] => k = l
  /\ f.code[Switch(i)].to \in Seq(DOMAIN f.layout)
  /\ Len(f.code[Switch(i)].to) = Len(f.code[Switch(i)].cases) + 1
  /\ f.code[Switch(i)].to[1] = Clone(i)
  /\ \A k \in DOMAIN f.code[Switch(i)].cases :
       f.code[Switch(i)].to[k + 1] = Mutant(f.code[Switch(i)].cases[k])
  /\ i \in DOMAIN f.code => f.code[i].args = f.code[Clone(i)].args

\* The block of mutation n is its replacement and a jump to where its site meets.
MutantInv(f, M, n) ==
  /\ Mutant(n) \in DOMAIN f.layout
  /\ f.layout[Mutant(n)] = << Mutant(n), MutantBr(n) >>
  /\ f.code[MutantBr(n)].to = << Rest(M[n].original) >>
  /\ IF M[n].operator = "LoadMutator"
     THEN /\ f.code[Mutant(n)].op = "load"
          /\ f.code[Mutant(n)].args = << M[n].variant >>
          /\ M[n].variant \in DOMAIN f.code
          /\ f.code[M[n].variant].op = "alloca"
     ELSE /\ f.code[Mutant(n)].op = M[n].variant
          /\ f.code[Mutant(n)].args = f.code[Clone(M[n].original)].args

ShapeInv(f, S, M) ==
  /\ f.entry = program.function.entry
  /\ Verified(f)
  /\ NamesInv(f, S, M)
  /\ UsesInv(f, S)
  /\ \A i \in S : SiteInv(f, M, i)
  /\ \A n \in DOMAIN M : MutantInv(f, M, n)

\* Instruction x is the first of the entry block.
StartsWith(f, x) ==
  /\ f.entry \in DOMAIN f.layout
  /\ f.layout[f.entry] # <<>> /\ f.layout[f.entry][1] = x

\* The sequence s has one place for each element of S, with its ID.
OneForEach(s, id, S) ==
  /\ IsFiniteSet(S) /\ s \in Seq({id[i] : i \in S})
  /\ ToSet(s) = {id[i] : i \in S} /\ Len(s) = Cardinality(S)

\* The loader has one check for each site, and main begins with its call.
LoaderInv ==
  /\ OneForEach(loader, program.id, Sites)
  /\ phase # "construct" /\ program.name = "main" => StartsWith(ir, LoaderCall)

-------------------------------------------------------------------------------
(* Opcodes, places and successors.                                         *)

\* What a mutator takes, and what it makes of it, neither ends a block nor is a phi.
LEMMA MutableOps ==
  /\ \A op : MutatorFor(op) # "none" => op \notin Terminators /\ op # "phi" /\ op # "alloca"
  /\ \A op \in Opcodes : op \notin Terminators /\ op # "phi"
<1> DEFINE Plain(S) == \A op \in S : op \notin Terminators /\ op # "phi" /\ op # "alloca"
<1>1. Plain(ToSet(IntOpcodes)) /\ Plain(ToSet(FloatOpcodes))
  BY DEF ToSet, IntOpcodes, FloatOpcodes, Terminators
<1>2. Plain(ToSet(SignedPredicates)) /\ Plain(ToSet(UnsignedPredicates))
  BY DEF ToSet, SignedPredicates, UnsignedPredicates, Terminators
<1>3. \A op : MutatorFor(op) # "none" => op \notin Terminators /\ op # "phi" /\ op # "alloca"
  BY <1>1, <1>2 DEF MutatorFor, Terminators
<1>4. Opcodes = ToSet(IntOpcodes) \cup ToSet(FloatOpcodes)
                  \cup ToSet(SignedPredicates) \cup ToSet(UnsignedPredicates)
  BY OpcodesRange
<1> QED  BY <1>1, <1>2, <1>3, <1>4

\* An instruction of a function has its place, and there is no other.
LEMMA PlaceOf ==
  ASSUME NEW f, NEW N, WellFormed(f, N), OnePlace(f), NEW x \in DOMAIN f.code
  PROVE  \E b, k : OnlyAt(f, x, b, k)
<1>1. PICK b \in DOMAIN f.layout : \E k \in DOMAIN f.layout[b] : f.layout[b][k] = x
  BY DEF WellFormed, Placed
<1>2. PICK k \in DOMAIN f.layout[b] : f.layout[b][k] = x
  BY <1>1
<1> QED  BY <1>1, <1>2, PlaceIs

\* The jump of a block is its last instruction.
Final(f, b) == f.layout[b][Len(f.layout[b])]

LEMMA BlockIs ==
  ASSUME NEW f, NEW N, WellFormed(f, N), BlocksWellFormed(f), OnePlace(f),
         NEW b \in DOMAIN f.layout
  PROVE  /\ f.layout[b] \in Seq(N) /\ DOMAIN f.layout[b] = 1 .. Len(f.layout[b])
         /\ Len(f.layout[b]) \in Nat \ {0} /\ Len(f.layout[b]) \in DOMAIN f.layout[b]
         /\ \A k \in DOMAIN f.layout[b] :
              (f.code[f.layout[b][k]].op \in Terminators) <=> (k = Len(f.layout[b]))
         /\ \A k \in DOMAIN f.layout[b] : \A j \in 1 .. k - 1 :
              f.code[f.layout[b][k]].op = "phi" => f.code[f.layout[b][j]].op = "phi"
         /\ Final(f, b) \in DOMAIN f.code
         /\ f.code[Final(f, b)].op \in Terminators
         /\ Succs(f, b) = ToSet(f.code[Final(f, b)].to)
<1> DEFINE s == f.layout[b]
<1>1. s \in Seq(N) /\ s # <<>>
  BY DEF WellFormed, BlocksWellFormed, BlocksOf
<1>2. /\ \A k \in DOMAIN s : (f.code[s[k]].op \in Terminators) <=> (k = Len(s))
      /\ \A k \in DOMAIN s : \A j \in 1 .. k - 1 :
           f.code[s[k]].op = "phi" => f.code[s[j]].op = "phi"
  BY DEF BlocksWellFormed, BlocksOf
<1>3. \A k \in DOMAIN s : s[k] \in DOMAIN f.code
  BY DEF OnePlace
<1> HIDE DEF s
<1>4. /\ DOMAIN s = 1 .. Len(s) /\ Len(s) \in Nat \ {0} /\ Len(s) \in DOMAIN s
      /\ Last(s) = s[Len(s)]
  BY <1>1 DEF Last
<1> QED  BY <1>1, <1>2, <1>3, <1>4 DEF s, Final, Succs

\* Instruction x has a value for each predecessor of block b.
Fits(f, b, x) ==
  /\ {e[2] : e \in f.code[x].in} = Preds(f, b)
  /\ \A d, e \in f.code[x].in : d[2] = e[2] => d = e

LEMMA PhisAre ==
  ASSUME NEW f
  PROVE  PhisMatchPredecessors(f) <=>
           \A b \in DOMAIN f.layout : \A k \in DOMAIN f.layout[b] :
             f.code[f.layout[b][k]].op = "phi" => Fits(f, b, f.layout[b][k])
<1>1. PhisMatchPredecessors(f) <=>
        \A b \in DOMAIN f.layout : \A x \in ToSet(f.layout[b]) :
          f.code[x].op = "phi" => Fits(f, b, x)
  BY Zenon DEF PhisMatchPredecessors, Fits, BlocksOf
<1> QED  BY <1>1 DEF ToSet

-------------------------------------------------------------------------------
(* Preparing a site.                                                       *)

\* g is the verified function f with site i prepared, which was at place k of
\* block b and is neither a jump nor a phi.
IsSplit(f, g, N, i, b, k) ==
  /\ IsNewSite(f, N, i) /\ OnlyAt(f, i, b, k) /\ Verified(f)
  /\ f.code[i].op \notin Terminators /\ f.code[i].op # "phi"
  /\ IsPrepared(f, g, i, b, k) /\ WellFormed(g, N) /\ OnePlace(g)

\* Where i is, and what the place tells.
LEMMA SplitAt ==
  ASSUME NEW f, NEW g, NEW N, NEW i, NEW b, NEW k, IsSplit(f, g, N, i, b, k)
  PROVE  /\ b \in DOMAIN f.layout /\ b \notin {Clone(i), Rest(i)} /\ Clone(i) # Rest(i)
         /\ f.layout[b][k] = i /\ k \in Nat \ {0} /\ k < Len(f.layout[b])
         /\ Len(f.layout[b]) \in Nat
         /\ \A l \in k .. Len(f.layout[b]) : f.code[f.layout[b][l]].op # "phi"
<1>1. /\ b \in DOMAIN f.layout /\ k \in DOMAIN f.layout[b] /\ f.layout[b][k] = i
      /\ Clone(i) \notin DOMAIN f.layout /\ Rest(i) \notin DOMAIN f.layout
      /\ WellFormed(f, N) /\ OnePlace(f) /\ BlocksWellFormed(f)
      /\ f.code[i].op \notin Terminators /\ f.code[i].op # "phi"
  BY DEF IsSplit, IsNewSite, OnlyAt, Verified
<1> DEFINE s == f.layout[b]
<1>2. /\ DOMAIN s = 1 .. Len(s) /\ Len(s) \in Nat \ {0}
      /\ \A l \in DOMAIN s : (f.code[s[l]].op \in Terminators) <=> (l = Len(s))
      /\ \A l \in DOMAIN s : \A j \in 1 .. l - 1 :
           f.code[s[l]].op = "phi" => f.code[s[j]].op = "phi"
  BY <1>1, BlockIs
<1>3. k \in DOMAIN s /\ s[k] = i
  BY <1>1
<1> HIDE DEF s
<1>4. k \in Nat \ {0} /\ k < Len(s)
  BY <1>1, <1>2, <1>3
<1>5. ASSUME NEW l \in k .. Len(s) PROVE f.code[s[l]].op # "phi"
  <2>1. CASE l = k
    BY <1>1, <1>3, <2>1
  <2>2. CASE l # k
    <3>1. l \in DOMAIN s /\ k \in 1 .. l - 1
      BY <1>2, <1>4, <2>2
    <3> QED  BY <1>1, <1>2, <1>3, <3>1
  <2> QED  BY <2>1, <2>2
<1>6. Clone(i) # Rest(i)
  BY DEF Clone, Rest
<1> QED  BY <1>1, <1>2, <1>4, <1>5, <1>6 DEF s

\* The first half of the block.
LEMMA SplitHead ==
  ASSUME NEW f, NEW g, NEW N, NEW i, NEW b, NEW k, IsSplit(f, g, N, i, b, k)
  PROVE  LET t == g.layout[b] IN
         /\ DOMAIN t = 1 .. k + 1
         /\ \A l \in 1 .. k - 1 : /\ l \in DOMAIN f.layout[b] /\ t[l] = f.layout[b][l]
                                  /\ t[l] \in DOMAIN f.code /\ g.code[t[l]].op = f.code[t[l]].op
                                  /\ f.code[t[l]].op \notin Terminators
         /\ t[k] = GlobalLoad(i) /\ g.code[t[k]].op = "load"
         /\ t[k + 1] = Switch(i) /\ g.code[t[k + 1]].op = "switch"
<1> DEFINE s == f.layout[b]
           t == g.layout[b]
<1>1. /\ b \in DOMAIN f.layout /\ k \in Nat \ {0} /\ k < Len(s) /\ Len(s) \in Nat
  BY SplitAt
<1>2. /\ Len(t) = k + 1 /\ \A l \in 1 .. k - 1 : t[l] = s[l]
      /\ t[k] = GlobalLoad(i) /\ t[k + 1] = Switch(i)
      /\ \A y \in DOMAIN f.code : g.code[y].op = f.code[y].op
      /\ g.code[GlobalLoad(i)].op = "load" /\ g.code[Switch(i)].op = "switch"
      /\ b \in DOMAIN g.layout
  BY <1>1 DEF IsSplit, IsPrepared, Moved, IsJust
<1>3. t \in Seq(N)
  BY <1>2 DEF IsSplit, WellFormed
<1>4. /\ DOMAIN s = 1 .. Len(s)
      /\ \A l \in DOMAIN s : (f.code[s[l]].op \in Terminators) <=> (l = Len(s))
      /\ \A l \in DOMAIN s : s[l] \in DOMAIN f.code
  BY <1>1, BlockIs DEF IsSplit, IsNewSite, Verified, OnePlace
<1> HIDE DEF s, t
<1>5. DOMAIN t = 1 .. k + 1
  BY <1>1, <1>2, <1>3
<1>6. ASSUME NEW l \in 1 .. k - 1
      PROVE  /\ l \in DOMAIN s /\ t[l] = s[l] /\ t[l] \in DOMAIN f.code
             /\ g.code[t[l]].op = f.code[t[l]].op /\ f.code[t[l]].op \notin Terminators
  <2>1. l \in 1 .. Len(s) /\ l # Len(s)
    BY <1>1
  <2>2. l \in DOMAIN s /\ t[l] = s[l]
    BY Zenon, <1>2, <1>4, <2>1
  <2>3. s[l] \in DOMAIN f.code /\ f.code[s[l]].op \notin Terminators
    BY <1>4, <2>1, <2>2
  <2> QED  BY <1>2, <2>2, <2>3
<1> QED  BY <1>2, <1>5, <1>6 DEF s, t

\* The second half, from i on, is behind the phi.
LEMMA SplitTail ==
  ASSUME NEW f, NEW g, NEW N, NEW i, NEW b, NEW k, IsSplit(f, g, N, i, b, k)
  PROVE  LET t == g.layout[Rest(i)] IN
         /\ Len(t) = Len(f.layout[b]) - k + 2 /\ DOMAIN t = 1 .. Len(t)
         /\ t[1] = Phi(i) /\ g.code[t[1]].op = "phi"
         /\ \A l \in 2 .. Len(t) : /\ l + k - 2 \in k .. Len(f.layout[b])
                                   /\ t[l] = f.layout[b][l + k - 2]
                                   /\ t[l] \in DOMAIN f.code
                                   /\ g.code[t[l]].op = f.code[t[l]].op
                                   /\ f.code[t[l]].op # "phi"
                                   /\ (f.code[t[l]].op \in Terminators) <=> (l = Len(t))
<1> DEFINE s == f.layout[b]
           t == g.layout[Rest(i)]
<1>1. /\ b \in DOMAIN f.layout /\ k \in Nat \ {0} /\ k < Len(s) /\ Len(s) \in Nat
      /\ \A l \in k .. Len(s) : f.code[s[l]].op # "phi"
  BY SplitAt
<1>2. /\ Len(t) = Len(s) - k + 2 /\ t[1] = Phi(i)
      /\ \A j \in k .. Len(s) : t[j - k + 2] = s[j]
      /\ \A y \in DOMAIN f.code : g.code[y].op = f.code[y].op
      /\ g.code[Phi(i)].op = "phi"
      /\ Rest(i) \in DOMAIN g.layout
  BY DEF IsSplit, IsPrepared, Moved, IsJust
<1>3. t \in Seq(N)
  BY <1>2 DEF IsSplit, WellFormed
<1>4. /\ DOMAIN s = 1 .. Len(s)
      /\ \A l \in DOMAIN s : (f.code[s[l]].op \in Terminators) <=> (l = Len(s))
      /\ \A l \in DOMAIN s : s[l] \in DOMAIN f.code
  BY <1>1, BlockIs DEF IsSplit, IsNewSite, Verified, OnePlace
<1> HIDE DEF s, t
<1>5. DOMAIN t = 1 .. Len(t)
  BY <1>3
<1>6. ASSUME NEW l \in 2 .. Len(t)
      PROVE  /\ l + k - 2 \in k .. Len(s) /\ t[l] = s[l + k - 2] /\ t[l] \in DOMAIN f.code
             /\ g.code[t[l]].op = f.code[t[l]].op /\ f.code[t[l]].op # "phi"
             /\ (f.code[t[l]].op \in Terminators) <=> (l = Len(t))
  <2> DEFINE j == l + k - 2
  <2>1. /\ j \in k .. Len(s) /\ j - k + 2 = l /\ j \in 1 .. Len(s)
        /\ j = Len(s) <=> l = Len(t)
    BY <1>1, <1>2
  <2> HIDE DEF j
  <2>2. t[j - k + 2] = s[j] /\ f.code[s[j]].op # "phi"
    BY <1>1, <1>2, <2>1
  <2>3. j \in DOMAIN s
    BY <1>4, <2>1
  <2>4. s[j] \in DOMAIN f.code /\ ((f.code[s[j]].op \in Terminators) <=> (j = Len(s)))
    BY <1>4, <2>3
  <2>5. t[l] = s[j]
    BY <2>1, <2>2
  <2>6. g.code[s[j]].op = f.code[s[j]].op
    BY <1>2, <2>4
  <2> QED  BY <2>1, <2>2, <2>4, <2>5, <2>6 DEF j
<1> QED  BY <1>2, <1>5, <1>6 DEF s, t

\* The clone's block, and the blocks that stay as they are.
LEMMA SplitOthers ==
  ASSUME NEW f, NEW g, NEW N, NEW i, NEW b, NEW k, IsSplit(f, g, N, i, b, k)
  PROVE  /\ DOMAIN g.layout = DOMAIN f.layout \cup {Clone(i), Rest(i)}
         /\ g.layout[Clone(i)] = << Clone(i), CloneBr(i) >>
         /\ g.code[Clone(i)].op = f.code[i].op /\ g.code[CloneBr(i)].op = "br"
         /\ \A c \in DOMAIN f.layout : c # b => g.layout[c] = f.layout[c]
         /\ \A c \in DOMAIN f.layout : \A l \in DOMAIN f.layout[c] :
              /\ f.layout[c][l] \in DOMAIN f.code
              /\ g.code[f.layout[c][l]].op = f.code[f.layout[c][l]].op
<1>1. IsPrepared(f, g, i, b, k) /\ OnePlace(f)
  BY DEF IsSplit, IsNewSite
<1> QED  BY <1>1 DEF IsPrepared, Moved, IsJust, OnePlace

LEMMA SplitBlocks ==
  ASSUME NEW f, NEW g, NEW N, NEW i, NEW b, NEW k, IsSplit(f, g, N, i, b, k)
  PROVE  BlocksWellFormed(g)
<1> SUFFICES ASSUME NEW c \in DOMAIN g.layout
             PROVE  LET t == g.layout[c] IN
                    /\ t # <<>>
                    /\ \A l \in DOMAIN t : (g.code[t[l]].op \in Terminators) <=> (l = Len(t))
                    /\ \A l \in DOMAIN t : g.code[t[l]].op = "phi" =>
                         \A j \in 1 .. l - 1 : g.code[t[j]].op = "phi"
  BY DEF BlocksWellFormed, BlocksOf
<1> DEFINE t == g.layout[c]
<1>1. /\ b \in DOMAIN f.layout /\ k \in Nat \ {0} /\ k < Len(f.layout[b])
      /\ Len(f.layout[b]) \in Nat /\ Clone(i) # Rest(i)
  BY SplitAt
<1>2. /\ WellFormed(f, N) /\ BlocksWellFormed(f) /\ OnePlace(f)
      /\ f.code[i].op \notin Terminators /\ f.code[i].op # "phi"
      /\ t \in Seq(N)
  BY DEF IsSplit, IsNewSite, Verified, WellFormed
<1>3. CASE c = b
  <2>1. /\ DOMAIN t = 1 .. k + 1
        /\ \A l \in 1 .. k - 1 : /\ l \in DOMAIN f.layout[b] /\ t[l] = f.layout[b][l]
                                 /\ t[l] \in DOMAIN f.code /\ g.code[t[l]].op = f.code[t[l]].op
                                 /\ f.code[t[l]].op \notin Terminators
        /\ g.code[t[k]].op = "load" /\ g.code[t[k + 1]].op = "switch"
    BY <1>3, SplitHead
  <2>2. \A l \in DOMAIN f.layout[b] : \A j \in 1 .. l - 1 :
          f.code[f.layout[b][l]].op = "phi" => f.code[f.layout[b][j]].op = "phi"
    BY <1>1, <1>2, BlockIs
  <2> HIDE DEF t
  <2>3. t # <<>> /\ Len(t) = k + 1
    BY <1>1, <1>2, <2>1
  <2>4. ASSUME NEW l \in DOMAIN t PROVE (g.code[t[l]].op \in Terminators) <=> (l = Len(t))
    <3>1. CASE l \in 1 .. k - 1
      BY <1>1, <2>1, <2>3, <3>1
    <3>2. CASE l \in {k, k + 1}
      BY <1>1, <2>1, <2>3, <3>2 DEF Terminators
    <3> QED  BY <1>1, <2>1, <3>1, <3>2
  <2>5. ASSUME NEW l \in DOMAIN t, g.code[t[l]].op = "phi", NEW j \in 1 .. l - 1
        PROVE  g.code[t[j]].op = "phi"
    <3>1. l \in 1 .. k - 1 /\ j \in 1 .. k - 1
      BY <1>1, <2>1, <2>5
    <3>2. /\ l \in DOMAIN f.layout[b] /\ f.code[f.layout[b][l]].op = "phi"
          /\ g.code[t[j]].op = f.code[f.layout[b][j]].op
      BY <2>1, <2>5, <3>1
    <3> QED  BY <2>2, <3>2
  <2> QED  BY <2>3, <2>4, <2>5 DEF t
<1>4. CASE c = Rest(i)
  <2>1. /\ Len(t) = Len(f.layout[b]) - k + 2 /\ DOMAIN t = 1 .. Len(t)
        /\ g.code[t[1]].op = "phi"
        /\ \A l \in 2 .. Len(t) : /\ g.code[t[l]].op = f.code[t[l]].op
                                  /\ f.code[t[l]].op # "phi"
                                  /\ (f.code[t[l]].op \in Terminators) <=> (l = Len(t))
    BY <1>4, SplitTail
  <2> HIDE DEF t
  <2>2. t # <<>> /\ Len(t) \in Nat /\ Len(t) > 1
    BY <1>1, <1>2, <2>1
  <2>3. ASSUME NEW l \in DOMAIN t PROVE (g.code[t[l]].op \in Terminators) <=> (l = Len(t))
    <3>1. CASE l = 1
      BY <2>1, <2>2, <3>1 DEF Terminators
    <3>2. CASE l \in 2 .. Len(t)
      BY <2>1, <3>2
    <3> QED  BY <2>1, <2>2, <3>1, <3>2
  <2>4. ASSUME NEW l \in DOMAIN t, g.code[t[l]].op = "phi", NEW j \in 1 .. l - 1 PROVE FALSE
    <3>1. l \in 2 .. Len(t)
      BY <2>1, <2>2
    <3> QED  BY <2>1, <2>4, <3>1
  <2> QED  BY <2>2, <2>3, <2>4 DEF t
<1>5. CASE c = Clone(i)
  <2>1. t = << Clone(i), CloneBr(i) >> /\ g.code[Clone(i)].op = f.code[i].op
        /\ g.code[CloneBr(i)].op = "br"
    BY <1>5, SplitOthers
  <2> HIDE DEF t
  <2>2. /\ t # <<>> /\ Len(t) = 2 /\ DOMAIN t = {1, 2}
        /\ t[1] = Clone(i) /\ t[2] = CloneBr(i)
    BY <2>1
  <2> QED  BY <1>2, <2>1, <2>2 DEF Terminators, t
<1>6. CASE c \in DOMAIN f.layout /\ c # b
  <2>1. t = f.layout[c]
    BY <1>6, SplitOthers
  <2>2. \A l \in DOMAIN t : g.code[t[l]].op = f.code[t[l]].op
    BY <1>6, <2>1, SplitOthers
  <2>3. /\ DOMAIN t = 1 .. Len(t) /\ Len(t) \in Nat \ {0}
        /\ \A l \in DOMAIN t : (f.code[t[l]].op \in Terminators) <=> (l = Len(t))
        /\ \A l \in DOMAIN t : \A j \in 1 .. l - 1 :
             f.code[t[l]].op = "phi" => f.code[t[j]].op = "phi"
    BY <1>2, <1>6, <2>1, BlockIs
  <2> HIDE DEF t
  <2>4. t # <<>>
    BY <2>3
  <2>5. ASSUME NEW l \in DOMAIN t, g.code[t[l]].op = "phi", NEW j \in 1 .. l - 1
        PROVE  g.code[t[j]].op = "phi"
    <3>1. j \in DOMAIN t
      BY <2>3
    <3> QED  BY <2>2, <2>3, <2>5, <3>1
  <2> QED  BY <2>2, <2>3, <2>4, <2>5 DEF t
<1>7. c \in DOMAIN f.layout \cup {Clone(i), Rest(i)}
  BY SplitOthers
<1> QED  BY <1>3, <1>4, <1>5, <1>6, <1>7

\* The block jumps to the clone and to nothing else yet; its targets are now
\* those of its second half.
LEMMA SplitSuccs ==
  ASSUME NEW f, NEW g, NEW N, NEW i, NEW b, NEW k, IsSplit(f, g, N, i, b, k)
  PROVE  /\ Succs(g, b) = {Clone(i)} /\ Succs(g, Clone(i)) = {Rest(i)}
         /\ Succs(g, Rest(i)) = Succs(f, b)
         /\ \A c \in DOMAIN f.layout : c # b => Succs(g, c) = Succs(f, c)
<1>1. /\ b \in DOMAIN f.layout /\ b \notin {Clone(i), Rest(i)} /\ k \in Nat \ {0}
      /\ k < Len(f.layout[b]) /\ Len(f.layout[b]) \in Nat
  BY SplitAt
<1>2. /\ WellFormed(f, N) /\ BlocksWellFormed(f) /\ OnePlace(f)
      /\ WellFormed(g, N) /\ BlocksWellFormed(g) /\ OnePlace(g)
      /\ IsPrepared(f, g, i, b, k)
  BY SplitBlocks DEF IsSplit, IsNewSite, Verified
<1>3. /\ DOMAIN g.layout = DOMAIN f.layout \cup {Clone(i), Rest(i)}
      /\ \A y \in DOMAIN f.code : g.code[y].to = f.code[y].to
      /\ g.code[CloneBr(i)].to = << Rest(i) >> /\ g.code[Switch(i)].to = << Clone(i) >>
  BY <1>2 DEF IsPrepared, Moved, IsJust
<1>4. \A c \in DOMAIN g.layout : Succs(g, c) = ToSet(g.code[Final(g, c)].to)
  BY <1>2, BlockIs
<1>5. \A c \in DOMAIN f.layout : /\ Succs(f, c) = ToSet(f.code[Final(f, c)].to)
                                 /\ Final(f, c) \in DOMAIN f.code
  BY <1>2, BlockIs
<1>6. Final(g, b) = Switch(i)
  <2>1. Len(g.layout[b]) = k + 1 /\ g.layout[b][k + 1] = Switch(i)
    BY <1>2 DEF IsPrepared
  <2> QED  BY <2>1 DEF Final
<1>7. Final(g, Clone(i)) = CloneBr(i)
  <2> DEFINE t == g.layout[Clone(i)]
  <2>1. t = << Clone(i), CloneBr(i) >>
    BY SplitOthers
  <2> HIDE DEF t
  <2>2. Len(t) = 2 /\ t[2] = CloneBr(i)
    BY <2>1
  <2> QED  BY <2>2 DEF Final, t
<1>8. Final(g, Rest(i)) = Final(f, b)
  <2> DEFINE t == g.layout[Rest(i)]
             s == f.layout[b]
  <2>1. /\ Len(t) = Len(s) - k + 2
        /\ \A l \in 2 .. Len(t) : t[l] = s[l + k - 2]
    BY SplitTail
  <2>2. k \in Nat \ {0} /\ k < Len(s) /\ Len(s) \in Nat
    BY <1>1
  <2> HIDE DEF t, s
  <2>3. Len(t) \in 2 .. Len(t) /\ Len(t) + k - 2 = Len(s)
    BY <2>1, <2>2
  <2>4. t[Len(t)] = s[Len(t) + k - 2]
    BY <2>1, <2>3
  <2> QED  BY <2>3, <2>4 DEF Final, s, t
<1>9. \A c \in DOMAIN f.layout : c # b => Final(g, c) = Final(f, c)
  BY SplitOthers DEF Final
<1>10. ToSet(<< Clone(i) >>) = {Clone(i)} /\ ToSet(<< Rest(i) >>) = {Rest(i)}
  BY DEF ToSet
<1> QED  BY <1>1, <1>3, <1>4, <1>5, <1>6, <1>7, <1>8, <1>9, <1>10

\* A predecessor that was the block is now its second half.
LEMMA SplitPreds ==
  ASSUME NEW f, NEW g, NEW N, NEW i, NEW b, NEW k, IsSplit(f, g, N, i, b, k)
  PROVE  /\ \A c \in DOMAIN f.layout :
              Preds(g, c) = {IF p = b THEN Rest(i) ELSE p : p \in Preds(f, c)}
         /\ Preds(g, Rest(i)) = {Clone(i)}
<1>1. /\ b \in DOMAIN f.layout /\ b \notin {Clone(i), Rest(i)} /\ Clone(i) # Rest(i)
  BY SplitAt
<1>2. /\ Clone(i) \notin DOMAIN f.layout /\ Rest(i) \notin DOMAIN f.layout
      /\ WellFormed(f, N) /\ BlocksWellFormed(f) /\ OnePlace(f) /\ TargetsAreBlocks(f)
      /\ DOMAIN g.layout = DOMAIN f.layout \cup {Clone(i), Rest(i)}
  BY SplitOthers DEF IsSplit, IsNewSite, Verified
<1>3. \A c \in DOMAIN f.layout : Succs(f, c) \subseteq DOMAIN f.layout
  BY <1>2, BlockIs DEF TargetsAreBlocks
<1>4. /\ Succs(g, b) = {Clone(i)} /\ Succs(g, Clone(i)) = {Rest(i)}
      /\ Succs(g, Rest(i)) = Succs(f, b)
      /\ \A c \in DOMAIN f.layout : c # b => Succs(g, c) = Succs(f, c)
  BY SplitSuccs
<1>5. ASSUME NEW c \in DOMAIN f.layout
      PROVE  Preds(g, c) = {IF p = b THEN Rest(i) ELSE p : p \in Preds(f, c)}
  BY <1>1, <1>2, <1>4 DEF Preds, BlocksOf
<1>6. Preds(g, Rest(i)) = {Clone(i)}
  BY <1>1, <1>2, <1>3, <1>4 DEF Preds, BlocksOf
<1> QED  BY <1>5, <1>6

\* A phi that had a value for each predecessor of its block still has.
LEMMA SplitFits ==
  ASSUME NEW f, NEW g, NEW N, NEW i, NEW b, NEW k, IsSplit(f, g, N, i, b, k),
         NEW c \in DOMAIN f.layout, NEW x \in DOMAIN f.code, Fits(f, c, x)
  PROVE  Fits(g, c, x)
<1> DEFINE V(v) == IF v = i THEN Phi(i) ELSE v
           B(p) == IF p = b THEN Rest(i) ELSE p
<1>1. g.code[x].in = {<< V(e[1]), B(e[2]) >> : e \in f.code[x].in}
  BY DEF IsSplit, IsPrepared, Moved
<1>2. Preds(g, c) = {B(p) : p \in Preds(f, c)}
  BY SplitPreds
<1>3. \A p, q \in DOMAIN f.layout : B(p) = B(q) => p = q
  BY DEF IsSplit, IsNewSite
<1>4. Preds(f, c) \subseteq DOMAIN f.layout
  BY DEF Preds, BlocksOf
<1>5. /\ {e[2] : e \in f.code[x].in} = Preds(f, c)
      /\ \A d, e \in f.code[x].in : d[2] = e[2] => d = e
  BY DEF Fits
<1> HIDE DEF V, B
<1>6. {e[2] : e \in g.code[x].in} = Preds(g, c)
  <2>1. ASSUME NEW e \in g.code[x].in PROVE e[2] \in Preds(g, c)
    BY <1>1, <1>2, <1>5
  <2>2. ASSUME NEW q \in Preds(g, c) PROVE \E e \in g.code[x].in : e[2] = q
    <3>1. PICK p \in Preds(f, c) : q = B(p)
      BY <1>2
    <3>2. PICK e \in f.code[x].in : e[2] = p
      BY <1>5
    <3> DEFINE d == << V(e[1]), B(e[2]) >>
    <3>3. d \in g.code[x].in /\ d[2] = B(e[2])
      BY <1>1
    <3> HIDE DEF d
    <3> QED  BY <3>1, <3>2, <3>3
  <2> QED  BY <2>1, <2>2
<1>7. ASSUME NEW d \in g.code[x].in, NEW e \in g.code[x].in, d[2] = e[2] PROVE d = e
  <2>1. PICK d0 \in f.code[x].in : d = << V(d0[1]), B(d0[2]) >>
    BY <1>1
  <2>2. PICK e0 \in f.code[x].in : e = << V(e0[1]), B(e0[2]) >>
    BY <1>1
  <2>3. B(d0[2]) = B(e0[2]) /\ d0[2] \in DOMAIN f.layout /\ e0[2] \in DOMAIN f.layout
    BY <1>4, <1>5, <1>7, <2>1, <2>2
  <2>4. d0 = e0
    BY <1>3, <1>5, <2>3
  <2> QED  BY <2>1, <2>2, <2>4
<1> QED  BY <1>6, <1>7 DEF Fits

\* Every phi is the one of the site or one that was there, in the same block.
LEMMA SplitPhis ==
  ASSUME NEW f, NEW g, NEW N, NEW i, NEW b, NEW k, IsSplit(f, g, N, i, b, k)
  PROVE  PhisMatchPredecessors(g)
<1> SUFFICES ASSUME NEW c \in DOMAIN g.layout, NEW l \in DOMAIN g.layout[c],
                    g.code[g.layout[c][l]].op = "phi"
             PROVE  Fits(g, c, g.layout[c][l])
  BY PhisAre
<1> DEFINE t == g.layout[c]
<1>1. /\ \A d \in DOMAIN f.layout : \A j \in DOMAIN f.layout[d] :
           f.code[f.layout[d][j]].op = "phi" => Fits(f, d, f.layout[d][j])
      /\ f.code[i].op # "phi"
  BY PhisAre DEF IsSplit, Verified
<1>2. b \in DOMAIN f.layout /\ k \in Nat \ {0}
  BY SplitAt
<1>3. CASE c = b
  <2>1. /\ DOMAIN t = 1 .. k + 1
        /\ \A j \in 1 .. k - 1 : /\ j \in DOMAIN f.layout[b] /\ t[j] = f.layout[b][j]
                                 /\ t[j] \in DOMAIN f.code /\ g.code[t[j]].op = f.code[t[j]].op
        /\ g.code[t[k]].op = "load" /\ g.code[t[k + 1]].op = "switch"
    BY <1>3, SplitHead
  <2>2. l \in 1 .. k - 1
    <3> HIDE DEF t
    <3>1. l \in 1 .. k + 1 /\ g.code[t[l]].op = "phi"
      BY <2>1 DEF t
    <3> QED  BY <1>2, <2>1, <3>1
  <2> QED  BY <1>1, <1>2, <1>3, <2>1, <2>2, SplitFits
<1>4. CASE c = Rest(i)
  <2>1. l = 1 /\ t[l] = Phi(i)
    BY <1>4, SplitTail
  <2>2. g.code[Phi(i)].in = {<< Clone(i), Clone(i) >>}
    BY Zenon DEF IsSplit, IsPrepared, IsJust
  <2>3. Preds(g, Rest(i)) = {Clone(i)}
    BY SplitPreds
  <2>4. Fits(g, Rest(i), Phi(i))
    BY <2>2, <2>3 DEF Fits
  <2> QED  BY <1>4, <2>1, <2>4
<1>5. CASE c = Clone(i)
  <2>1. t = << Clone(i), CloneBr(i) >> /\ g.code[Clone(i)].op = f.code[i].op
        /\ g.code[CloneBr(i)].op = "br"
    BY <1>5, SplitOthers
  <2>2. t[l] \in {Clone(i), CloneBr(i)}
    BY <2>1
  <2> QED  BY <1>1, <2>1, <2>2
<1>6. CASE c \in DOMAIN f.layout /\ c # b
  <2>1. t = f.layout[c] /\ t[l] \in DOMAIN f.code /\ g.code[t[l]].op = f.code[t[l]].op
    BY <1>6, SplitOthers
  <2> QED  BY <1>1, <1>6, <2>1, SplitFits
<1>7. c \in DOMAIN f.layout \cup {Clone(i), Rest(i)}
  BY SplitOthers
<1> QED  BY <1>3, <1>4, <1>5, <1>6, <1>7

LEMMA SplitVerified ==
  ASSUME NEW f, NEW g, NEW N, NEW i, NEW b, NEW k, IsSplit(f, g, N, i, b, k)
  PROVE  Verified(g)
<1>1. TargetsAreBlocks(g)
  <2> SUFFICES ASSUME NEW x \in DOMAIN g.code
               PROVE  ToSet(g.code[x].to) \subseteq DOMAIN g.layout
    BY DEF TargetsAreBlocks
  <2>1. IsPrepared(f, g, i, b, k) /\ TargetsAreBlocks(f) /\ i \in DOMAIN f.code
    BY DEF IsSplit, IsNewSite, Verified
  <2>2. /\ \A y \in DOMAIN f.code : g.code[y].to = f.code[y].to
        /\ g.code[Clone(i)].to = f.code[i].to
        /\ g.code[CloneBr(i)].to = << Rest(i) >> /\ g.code[GlobalLoad(i)].to = <<>>
        /\ g.code[Switch(i)].to = << Clone(i) >> /\ g.code[Phi(i)].to = <<>>
        /\ DOMAIN g.layout = DOMAIN f.layout \cup {Clone(i), Rest(i)}
        /\ DOMAIN g.code = (DOMAIN f.code \cup Created(i)) \ {SplitBr(i)}
    BY <2>1 DEF IsPrepared, Moved, IsJust
  <2>3. /\ ToSet(<< Rest(i) >>) = {Rest(i)} /\ ToSet(<< Clone(i) >>) = {Clone(i)}
        /\ ToSet(<<>>) = {}
    BY DEF ToSet
  <2>4. CASE x \in DOMAIN f.code
    BY <2>1, <2>2, <2>4 DEF TargetsAreBlocks
  <2>5. CASE x \in {Clone(i), CloneBr(i), GlobalLoad(i), Switch(i), Phi(i)}
    BY <2>1, <2>2, <2>3, <2>5 DEF TargetsAreBlocks
  <2> QED  BY <2>2, <2>4, <2>5 DEF Created
<1> QED  BY <1>1, SplitBlocks, SplitPhis DEF Verified, IsSplit

\* The site of instruction i can be prepared in f, which has the sites S.
CanPrepare(f, S, M, i) ==
  /\ FunctionInv(f, S, M) /\ ShapeInv(f, S, M)
  /\ S \subseteq Origs /\ \A n \in DOMAIN M : M[n].original \in S
  /\ i \in DOMAIN f.code \cap Origs /\ i \notin S
  /\ MutatorFor(f.code[i].op) # "none"

LEMMA PrepareSplits ==
  ASSUME program \in Programs, NEW f, NEW S, NEW M, NEW i, CanPrepare(f, S, M, i)
  PROVE  \E b, k : IsSplit(f, PreparedIR(f, i), Names, i, b, k)
<1>1. /\ WellFormed(f, Names) /\ Verified(f) /\ OnePlace(f)
      /\ i \in DOMAIN f.code /\ i[1] = "orig"
      /\ Created(i) \subseteq Names
      /\ f.code[i].op \notin Terminators /\ f.code[i].op # "phi"
  BY ProgramIs, NamesAre, MutableOps DEF CanPrepare, FunctionInv, ShapeInv, Verified
<1>2. Created(i) \cap DOMAIN f.code = {}
  <2> SUFFICES ASSUME NEW x \in Created(i) PROVE x \notin DOMAIN f.code
    OBVIOUS
  <2>1. x \notin Origs \cup {LoaderCall}
    BY ProgramIs DEF Created, Clone, CloneBr, GlobalLoad, Switch, SplitBr, Phi,
                     LoaderCall, LoaderFunction
  <2>2. \A j \in S : x \notin Created(j)
    BY DEF CanPrepare, Created, Clone, CloneBr, GlobalLoad, Switch, SplitBr, Phi
  <2>3. \A n : x \notin {Mutant(n), MutantBr(n)}
    BY DEF Created, Clone, CloneBr, GlobalLoad, Switch, SplitBr, Phi, Mutant, MutantBr
  <2>4. x \notin MadeFor(S, M)
    BY <2>2, <2>3 DEF MadeFor
  <2> QED  BY <2>1, <2>4 DEF CanPrepare, ShapeInv, NamesInv
<1>3. Clone(i) \notin DOMAIN f.layout /\ Rest(i) \notin DOMAIN f.layout
  <2> SUFFICES ASSUME NEW b \in DOMAIN f.layout PROVE b # Clone(i) /\ b # Rest(i)
    OBVIOUS
  <2>1. CASE b[1] = "orig"
    BY <2>1 DEF Clone, Rest
  <2>2. CASE \E j \in S : b \in {Clone(j), Rest(j)}
    BY <2>2 DEF Clone, Rest, CanPrepare
  <2>3. CASE \E n \in DOMAIN M : b = Mutant(n)
    BY <2>3 DEF Clone, Rest, Mutant
  <2> QED  BY <2>1, <2>2, <2>3 DEF FunctionInv, CanPrepare
<1>4. IsNewSite(f, Names, i)
  BY <1>1, <1>2, <1>3 DEF IsNewSite
<1>5. PICK b, k : OnlyAt(f, i, b, k)
  BY <1>1, PlaceOf
<1>6. LET g == PreparedIR(f, i)
      IN  IsPrepared(f, g, i, b, k) /\ WellFormed(g, Names) /\ OnePlace(g)
  BY <1>4, <1>5, PreparedAt
<1>7. IsSplit(f, PreparedIR(f, i), Names, i, b, k)
  BY <1>1, <1>4, <1>5, <1>6 DEF IsSplit
<1> QED  BY <1>7

\* The instructions of site j and of mutation n, which are all of f.
LEMMA SiteHas ==
  ASSUME NEW f, NEW S, NEW M, NamesInv(f, S, M)
  PROVE  /\ \A j \in S : {Clone(j), CloneBr(j), GlobalLoad(j), Switch(j), Phi(j)}
                            \subseteq DOMAIN f.code
         /\ \A n \in DOMAIN M : {Mutant(n), MutantBr(n)} \subseteq DOMAIN f.code
<1>1. MadeFor(S, M) \subseteq DOMAIN f.code
  BY DEF NamesInv
<1>2. ASSUME NEW j \in S
      PROVE  {Clone(j), CloneBr(j), GlobalLoad(j), Switch(j), Phi(j)} \subseteq DOMAIN f.code
  <2>1. {Clone(j), CloneBr(j), GlobalLoad(j), Switch(j), Phi(j)} \subseteq Created(j) \ {SplitBr(j)}
    BY DEF Created, Clone, CloneBr, GlobalLoad, Switch, SplitBr, Phi
  <2> QED  BY <1>1, <2>1 DEF MadeFor
<1>3. ASSUME NEW n \in DOMAIN M PROVE {Mutant(n), MutantBr(n)} \subseteq DOMAIN f.code
  BY <1>1 DEF MadeFor
<1> QED  BY <1>2, <1>3

\* The blocks of the clones and of the mutants are not the one that is split.
LEMMA SplitElsewhere ==
  ASSUME NEW f, NEW g, NEW N, NEW i, NEW b, NEW k, IsSplit(f, g, N, i, b, k),
         NEW c, NEW x, NEW y, f.layout[c] = << x, y >>, i # x, i # y
  PROVE  c # b
<1> DEFINE t == f.layout[c]
<1>1. t = << x, y >>
  OBVIOUS
<1> HIDE DEF t
<1>2. \A l \in DOMAIN t : t[l] # i
  BY <1>1
<1> QED  BY <1>2 DEF t, IsSplit, OnlyAt

\* An edge of a phi that comes neither with i nor from block b.
Apart(e, i, b) == e = << e[1], e[2] >> /\ e[1] # i /\ e[2] # b

LEMMA MovedEdges ==
  ASSUME NEW x, NEW y, NEW i, NEW b, Moved(x, y, i, b), \A e \in x.in : Apart(e, i, b)
  PROVE  y.in = x.in
<1> DEFINE V(v) == IF v = i THEN Phi(i) ELSE v
           B(p) == IF p = b THEN Rest(i) ELSE p
<1>1. y.in = {<< V(e[1]), B(e[2]) >> : e \in x.in}
  BY DEF Moved
<1>2. \A e \in x.in : V(e[1]) = e[1] /\ B(e[2]) = e[2] /\ e = << e[1], e[2] >>
  BY DEF Apart
<1> HIDE DEF V, B
<1>3. \A e \in x.in : e = << V(e[1]), B(e[2]) >>
  BY <1>2
<1> QED  BY <1>1, <1>3

LEMMA MovedArgs ==
  ASSUME NEW v, NEW w, NEW x, NEW y, NEW i, NEW b, Moved(v, x, i, b), Moved(w, y, i, b),
         v.args = w.args
  PROVE  x.args = y.args
BY DEF Moved

LEMMA SplitKeepsSite ==
  ASSUME program \in Programs, NEW f, NEW S, NEW M, NEW i, CanPrepare(f, S, M, i),
         NEW g, NEW b, NEW k, IsSplit(f, g, Names, i, b, k), NEW j \in S
  PROVE  SiteInv(g, M, j)
<1>1. /\ SiteInv(f, M, j) /\ NamesInv(f, S, M) /\ i # j /\ i[1] = "orig" /\ j[1] = "orig"
      /\ \A n \in MutationsOf(M, j) : MutantInv(f, M, n)
      /\ OnePlace(f) /\ WellFormed(f, Names)
  BY ProgramIs DEF CanPrepare, ShapeInv, MutationsOf, FunctionInv, Verified
<1>2. /\ {Clone(j), CloneBr(j), GlobalLoad(j), Switch(j), Phi(j)} \subseteq DOMAIN f.code
      /\ \A n \in DOMAIN M : {Mutant(n), MutantBr(n)} \subseteq DOMAIN f.code
  BY <1>1, SiteHas
<1>3. /\ \A y \in DOMAIN f.code : Moved(f.code[y], g.code[y], i, b)
      /\ DOMAIN g.layout = DOMAIN f.layout \cup {Clone(i), Rest(i)}
      /\ DOMAIN g.code = (DOMAIN f.code \cup Created(i)) \ {SplitBr(i)}
      /\ \A c \in DOMAIN f.layout : c # b => g.layout[c] = f.layout[c]
  BY DEF IsSplit, IsPrepared
<1>4. /\ {Clone(j), Rest(j)} \subseteq DOMAIN f.layout
      /\ f.layout[Clone(j)] = << Clone(j), CloneBr(j) >>
      /\ f.layout[Rest(j)] # <<>> /\ f.layout[Rest(j)][1] = Phi(j)
      /\ \A l \in 2 .. Len(f.layout[Rest(j)]) : f.code[f.layout[Rest(j)][l]].op # "phi"
  BY <1>1 DEF SiteInv
<1>5. Clone(j) # b
  <2>1. i # Clone(j) /\ i # CloneBr(j)
    BY <1>1 DEF Clone, CloneBr
  <2> QED  BY <1>4, <2>1, SplitElsewhere
<1>6. /\ {Clone(j), Rest(j)} \subseteq DOMAIN g.layout
      /\ g.layout[Clone(j)] = << Clone(j), CloneBr(j) >>
  BY <1>3, <1>4, <1>5
<1>7. /\ g.layout[Rest(j)] # <<>> /\ g.layout[Rest(j)][1] = Phi(j)
      /\ \A l \in 2 .. Len(g.layout[Rest(j)]) : g.code[g.layout[Rest(j)][l]].op # "phi"
  <2> DEFINE t == g.layout[Rest(j)]
             s == f.layout[Rest(j)]
  <2>1. CASE Rest(j) = b
    <3>1. /\ k \in Nat \ {0} /\ s[k] = i /\ i # Phi(j)
      BY <1>1, <2>1, SplitAt DEF Phi
    <3>2. /\ DOMAIN t = 1 .. k + 1
          /\ \A l \in 1 .. k - 1 : /\ l \in DOMAIN s /\ t[l] = s[l]
                                   /\ g.code[t[l]].op = f.code[t[l]].op
          /\ g.code[t[k]].op = "load" /\ g.code[t[k + 1]].op = "switch"
      BY <2>1, SplitHead
    <3>3. /\ s[1] = Phi(j) /\ \A l \in 2 .. Len(s) : f.code[s[l]].op # "phi"
          /\ s \in Seq(Names) /\ t \in Seq(Names)
      BY <1>1, <1>4, <1>6 DEF IsSplit, WellFormed
    <3> HIDE DEF s, t
    <3>4. k > 1 /\ t[1] = Phi(j) /\ Len(t) = k + 1 /\ t # <<>>
      BY <3>1, <3>2, <3>3
    <3>5. ASSUME NEW l \in 2 .. Len(t) PROVE g.code[t[l]].op # "phi"
      <4>1. CASE l \in 2 .. k - 1
        <5>1. l \in DOMAIN s /\ t[l] = s[l] /\ g.code[t[l]].op = f.code[t[l]].op
          BY <3>2, <4>1
        <5> QED  BY <3>3, <4>1, <5>1
      <4>2. CASE l \in {k, k + 1}
        BY <3>2, <4>2
      <4> QED  BY <3>1, <3>4, <4>1, <4>2
    <3> QED  BY <3>4, <3>5 DEF t
  <2>2. CASE Rest(j) # b
    <3>1. t = s
      BY <1>3, <1>4, <2>2
    <3>2. \A l \in DOMAIN s : g.code[s[l]].op = f.code[s[l]].op
      BY <1>4, SplitOthers
    <3>3. s \in Seq(Names)
      BY <1>1, <1>4 DEF WellFormed
    <3>4. \A l \in 2 .. Len(s) : l \in DOMAIN s
      <4> HIDE DEF s
      <4> QED  BY <3>3
    <3> QED  BY <1>4, <3>1, <3>2, <3>4
  <2> QED  BY <2>1, <2>2
<1>8. g.code[Phi(j)].in = f.code[Phi(j)].in
  <2>1. f.code[Phi(j)].in = {<< Mutant(n), Mutant(n) >> : n \in MutationsOf(M, j)}
                              \cup {<< Clone(j), Clone(j) >>}
    BY <1>1 DEF SiteInv
  <2>2. \A n \in MutationsOf(M, j) : Mutant(n) # b
    <3> SUFFICES ASSUME NEW n \in MutationsOf(M, j) PROVE Mutant(n) # b
      OBVIOUS
    <3>1. f.layout[Mutant(n)] = << Mutant(n), MutantBr(n) >>
      BY <1>1 DEF MutantInv
    <3>2. i # Mutant(n) /\ i # MutantBr(n)
      BY <1>1 DEF Mutant, MutantBr
    <3> QED  BY <3>1, <3>2, SplitElsewhere
  <2>3. Clone(j) # i /\ \A n : Mutant(n) # i
    BY <1>1 DEF Clone, Mutant
  <2>4. \A e \in f.code[Phi(j)].in : Apart(e, i, b)
    BY <1>5, <2>1, <2>2, <2>3 DEF Apart
  <2>5. Moved(f.code[Phi(j)], g.code[Phi(j)], i, b)
    BY <1>2, <1>3
  <2> QED  BY <2>4, <2>5, MovedEdges
<1>9. /\ g.code[CloneBr(j)].to = f.code[CloneBr(j)].to
      /\ g.code[Phi(j)].op = f.code[Phi(j)].op
      /\ g.code[Switch(j)].op = f.code[Switch(j)].op
      /\ g.code[Switch(j)].cases = f.code[Switch(j)].cases
      /\ g.code[Switch(j)].to = f.code[Switch(j)].to
  BY <1>2, <1>3 DEF Moved
<1>10. g.code[Switch(j)].to \in Seq(DOMAIN g.layout)
  <2>1. f.code[Switch(j)].to \in Seq(DOMAIN f.layout)
    BY <1>1 DEF SiteInv
  <2>2. \A s : s \in Seq(DOMAIN f.layout) => s \in Seq(DOMAIN g.layout)
    BY <1>3
  <2> QED  BY <1>9, <2>1, <2>2
<1>11. j \in DOMAIN g.code => g.code[j].args = g.code[Clone(j)].args
  <2> SUFFICES ASSUME j \in DOMAIN g.code PROVE g.code[j].args = g.code[Clone(j)].args
    OBVIOUS
  <2>1. j \notin Created(i)
    BY <1>1 DEF Created, Clone, CloneBr, GlobalLoad, Switch, SplitBr, Phi
  <2>2. j \in DOMAIN f.code /\ f.code[j].args = f.code[Clone(j)].args
    BY <1>1, <1>3, <2>1 DEF SiteInv
  <2>3. Moved(f.code[j], g.code[j], i, b) /\ Moved(f.code[Clone(j)], g.code[Clone(j)], i, b)
    BY <1>2, <1>3, <2>2
  <2> QED  BY <2>2, <2>3, MovedArgs
<1> QED  BY <1>1, <1>6, <1>7, <1>8, <1>9, <1>10, <1>11 DEF SiteInv

LEMMA SplitMakesSite ==
  ASSUME program \in Programs, NEW f, NEW S, NEW M, NEW i, CanPrepare(f, S, M, i),
         NEW g, NEW b, NEW k, IsSplit(f, g, Names, i, b, k)
  PROVE  SiteInv(g, M, i)
<1>1. MutationsOf(M, i) = {}
  BY DEF MutationsOf, CanPrepare
<1>2. IsPrepared(f, g, i, b, k) /\ i \in DOMAIN f.code
  BY DEF IsSplit, CanPrepare
<1>3. /\ {Clone(i), Rest(i)} \subseteq DOMAIN g.layout
      /\ g.layout[Clone(i)] = << Clone(i), CloneBr(i) >>
      /\ g.layout[Rest(i)][1] = Phi(i)
      /\ g.code[CloneBr(i)].to = << Rest(i) >>
      /\ g.code[Phi(i)].op = "phi" /\ g.code[Phi(i)].in = {<< Clone(i), Clone(i) >>}
      /\ g.code[Switch(i)].op = "switch" /\ g.code[Switch(i)].cases = <<>>
      /\ g.code[Switch(i)].to = << Clone(i) >>
      /\ Moved(f.code[i], g.code[i], i, b) /\ Moved(f.code[i], g.code[Clone(i)], i, b)
  BY <1>2, Zenon DEF IsPrepared, IsJust
<1>4. /\ g.layout[Rest(i)] # <<>>
      /\ \A l \in 2 .. Len(g.layout[Rest(i)]) : g.code[g.layout[Rest(i)][l]].op # "phi"
  <2> DEFINE t == g.layout[Rest(i)]
  <2>1. /\ Len(t) = Len(f.layout[b]) - k + 2
        /\ \A l \in 2 .. Len(t) : /\ g.code[t[l]].op = f.code[t[l]].op
                                  /\ f.code[t[l]].op # "phi"
    BY SplitTail
  <2>2. k \in Nat /\ Len(f.layout[b]) \in Nat /\ k < Len(f.layout[b]) /\ t \in Seq(Names)
    BY <1>3, SplitAt DEF IsSplit, WellFormed
  <2>3. Len(t) > 0
    BY <2>1, <2>2
  <2> HIDE DEF t
  <2>4. t # <<>>
    BY <2>2, <2>3
  <2> QED  BY <2>1, <2>4 DEF t
<1>5. /\ << Clone(i) >> \in Seq(DOMAIN g.layout) /\ Len(<< Clone(i) >>) = 1
      /\ << Clone(i) >>[1] = Clone(i) /\ Len(<<>>) = 0 /\ DOMAIN <<>> = {}
  BY <1>3
<1>6. g.code[i].args = g.code[Clone(i)].args
  BY <1>3 DEF Moved
<1> QED  BY <1>1, <1>3, <1>4, <1>5, <1>6 DEF SiteInv

LEMMA SplitKeepsMutant ==
  ASSUME program \in Programs, NEW f, NEW S, NEW M, NEW i, CanPrepare(f, S, M, i),
         NEW g, NEW b, NEW k, IsSplit(f, g, Names, i, b, k), NEW n \in DOMAIN M
  PROVE  MutantInv(g, M, n)
<1> DEFINE j == M[n].original
<1>1. /\ MutantInv(f, M, n) /\ NamesInv(f, S, M) /\ i[1] = "orig" /\ j \in S
      /\ MutatorFor(f.code[i].op) # "none"
  BY ProgramIs DEF CanPrepare, ShapeInv
<1>2. /\ {Mutant(n), MutantBr(n), Clone(j)} \subseteq DOMAIN f.code
  BY <1>1, SiteHas
<1>3. /\ \A y \in DOMAIN f.code : Moved(f.code[y], g.code[y], i, b)
      /\ DOMAIN g.layout = DOMAIN f.layout \cup {Clone(i), Rest(i)}
      /\ DOMAIN g.code = (DOMAIN f.code \cup Created(i)) \ {SplitBr(i)}
      /\ \A c \in DOMAIN f.layout : c # b => g.layout[c] = f.layout[c]
  BY DEF IsSplit, IsPrepared
<1>4. Mutant(n) \in DOMAIN g.layout /\ g.layout[Mutant(n)] = << Mutant(n), MutantBr(n) >>
  <2>1. Mutant(n) \in DOMAIN f.layout /\ f.layout[Mutant(n)] = << Mutant(n), MutantBr(n) >>
    BY <1>1 DEF MutantInv
  <2>2. i # Mutant(n) /\ i # MutantBr(n)
    BY <1>1 DEF Mutant, MutantBr
  <2>3. Mutant(n) # b
    BY <2>1, <2>2, SplitElsewhere
  <2> QED  BY <1>3, <2>1, <2>3
<1>5. /\ g.code[MutantBr(n)].to = f.code[MutantBr(n)].to
      /\ g.code[Mutant(n)].op = f.code[Mutant(n)].op
  BY <1>2, <1>3 DEF Moved
<1>6. CASE M[n].operator = "LoadMutator"
  <2> DEFINE v == M[n].variant
             a == << v >>
  <2>1. /\ f.code[Mutant(n)].op = "load" /\ f.code[Mutant(n)].args = << v >>
        /\ v \in DOMAIN f.code /\ f.code[v].op = "alloca"
    BY <1>1, <1>6 DEF MutantInv
  <2>2. v # i
    BY <1>1, <2>1, MutableOps
  <2>3. v \in DOMAIN g.code /\ g.code[v].op = "alloca"
    <3>1. v \notin Created(i)
      BY <2>1 DEF IsSplit, IsNewSite
    <3>2. SplitBr(i) \in Created(i)
      BY DEF Created
    <3>3. g.code[v].op = f.code[v].op
      BY <1>3, <2>1 DEF Moved
    <3> QED  BY <1>3, <2>1, <3>1, <3>2, <3>3
  <2> HIDE DEF v
  <2>4. a = [l \in DOMAIN a |-> a[l]] /\ \A l \in DOMAIN a : a[l] # i
    BY <2>2
  <2>5. f.code[Mutant(n)].args = a
    BY <2>1
  <2> HIDE DEF a
  <2>6. g.code[Mutant(n)].args = a
    BY <1>2, <1>3, <2>4, <2>5 DEF Moved
  <2> QED  BY <1>1, <1>4, <1>5, <1>6, <2>1, <2>3, <2>6 DEF MutantInv, a, v
<1>7. CASE M[n].operator # "LoadMutator"
  <2>1. /\ f.code[Mutant(n)].op = M[n].variant
        /\ f.code[Mutant(n)].args = f.code[Clone(j)].args
    BY <1>1, <1>7 DEF MutantInv
  <2>2. /\ Moved(f.code[Mutant(n)], g.code[Mutant(n)], i, b)
        /\ Moved(f.code[Clone(j)], g.code[Clone(j)], i, b)
    BY <1>2, <1>3
  <2>3. g.code[Mutant(n)].args = g.code[Clone(j)].args
    BY <2>1, <2>2, MovedArgs
  <2> QED  BY <1>1, <1>4, <1>5, <1>7, <2>1, <2>3 DEF MutantInv
<1> QED  BY <1>6, <1>7

LEMMA SplitNames ==
  ASSUME program \in Programs, NEW f, NEW S, NEW M, NEW i, CanPrepare(f, S, M, i),
         NEW g, NEW b, NEW k, IsSplit(f, g, Names, i, b, k)
  PROVE  NamesInv(g, S \cup {i}, M)
<1>1. /\ NamesInv(f, S, M) /\ i \in DOMAIN f.code /\ MutatorFor(f.code[i].op) # "none"
      /\ S \subseteq Origs /\ i \in Origs
  BY DEF CanPrepare, ShapeInv
<1>2. /\ DOMAIN g.code = (DOMAIN f.code \cup Created(i)) \ {SplitBr(i)}
      /\ Created(i) \cap DOMAIN f.code = {} /\ SplitBr(i) \in Created(i)
      /\ \A y \in DOMAIN f.code : g.code[y].op = f.code[y].op
  BY DEF IsSplit, IsNewSite, IsPrepared, Moved, Created
<1>3. DOMAIN g.code = DOMAIN f.code \cup (Created(i) \ {SplitBr(i)})
  BY <1>2
<1>4. MadeFor(S \cup {i}, M) = MadeFor(S, M) \cup (Created(i) \ {SplitBr(i)})
  BY DEF MadeFor
<1>5. ASSUME NEW j \in (S \cup {i}) \cap DOMAIN g.code
      PROVE  MutatorFor(g.code[j].op) # "none"
  <2>1. j \notin Created(i)
    BY <1>1, ProgramIs DEF Created, Clone, CloneBr, GlobalLoad, Switch, SplitBr, Phi
  <2>2. j \in DOMAIN f.code
    BY <1>3, <2>1
  <2> QED  BY <1>1, <1>2, <2>2 DEF NamesInv
<1> QED  BY <1>1, <1>3, <1>4, <1>5 DEF NamesInv

LEMMA SplitUses ==
  ASSUME program \in Programs, NEW f, NEW S, NEW M, NEW i, CanPrepare(f, S, M, i),
         NEW g, NEW b, NEW k, IsSplit(f, g, Names, i, b, k)
  PROVE  UsesInv(g, S \cup {i})
<1>1. \A j \in S \cup {i} : j[1] = "orig"
  BY ProgramIs DEF CanPrepare
<1>2. IsPrepared(f, g, i, b, k) /\ i \in DOMAIN f.code /\ UsesInv(f, S)
  BY DEF IsSplit, CanPrepare, ShapeInv
<1>3. ASSUME NEW x \in DOMAIN f.code, NEW y, Moved(f.code[x], g.code[y], i, b)
      PROVE  Values(g, y) \cap (S \cup {i}) = {}
  <2>1. Phi(i) \notin S \cup {i}
    BY <1>1 DEF Phi
  <2>2. /\ \A l \in DOMAIN f.code[x].args : f.code[x].args[l] \notin S
        /\ \A e \in f.code[x].in : e[1] \notin S
    BY <1>2 DEF UsesInv, Values, ToSet
  <2> DEFINE V(v) == IF v = i THEN Phi(i) ELSE v
             a == f.code[x].args
             p == f.code[x].in
  <2>3. /\ g.code[y].args = [l \in DOMAIN a |-> V(a[l])]
        /\ \A d \in g.code[y].in : \E e \in p : d[1] = V(e[1])
    BY <1>3 DEF Moved
  <2>4. \A v : v \notin S => V(v) \notin S \cup {i}
    BY <2>1
  <2> HIDE DEF V
  <2>5. \A l \in DOMAIN g.code[y].args : g.code[y].args[l] \notin S \cup {i}
    BY <2>2, <2>3, <2>4
  <2>6. \A d \in g.code[y].in : d[1] \notin S \cup {i}
    BY <2>2, <2>3, <2>4
  <2> QED  BY <2>5, <2>6 DEF Values, ToSet
<1>4. ASSUME NEW x \in {CloneBr(i), GlobalLoad(i), Switch(i), Phi(i)}
      PROVE  Values(g, x) \cap (S \cup {i}) = {}
  <2>1. \A v \in Values(g, x) : v \in {Global(SourceID(i)), GlobalLoad(i), Clone(i)}
    <3>1. /\ g.code[CloneBr(i)].args = <<>> /\ g.code[CloneBr(i)].in = {}
          /\ g.code[GlobalLoad(i)].args = << Global(SourceID(i)) >>
          /\ g.code[GlobalLoad(i)].in = {}
          /\ g.code[Switch(i)].args = << GlobalLoad(i) >> /\ g.code[Switch(i)].in = {}
          /\ g.code[Phi(i)].args = <<>>
          /\ g.code[Phi(i)].in = {<< Clone(i), Clone(i) >>}
      BY <1>2, Zenon DEF IsPrepared, IsJust
    <3>2. /\ ToSet(<<>>) = {} /\ ToSet(<< GlobalLoad(i) >>) = {GlobalLoad(i)}
          /\ ToSet(<< Global(SourceID(i)) >>) = {Global(SourceID(i))}
      BY DEF ToSet
    <3> QED  BY <3>1, <3>2 DEF Values
  <2>2. \A v \in {Global(SourceID(i)), GlobalLoad(i), Clone(i)} : v \notin S \cup {i}
    BY <1>1 DEF Global, GlobalLoad, Clone
  <2> QED  BY <2>1, <2>2
<1>5. ASSUME NEW x \in DOMAIN g.code PROVE Values(g, x) \cap (S \cup {i}) = {}
  <2>1. x \in DOMAIN f.code \cup {Clone(i), CloneBr(i), GlobalLoad(i), Switch(i), Phi(i)}
    BY <1>2 DEF IsPrepared, Created
  <2>2. /\ \A y \in DOMAIN f.code : Moved(f.code[y], g.code[y], i, b)
        /\ Moved(f.code[i], g.code[Clone(i)], i, b)
    BY <1>2 DEF IsPrepared
  <2>3. CASE x \in DOMAIN f.code
    BY <1>3, <2>2, <2>3
  <2>4. CASE x = Clone(i)
    BY <1>2, <1>3, <2>2, <2>4
  <2>5. CASE x \in {CloneBr(i), GlobalLoad(i), Switch(i), Phi(i)}
    BY <1>4, <2>5
  <2> QED  BY <2>1, <2>3, <2>4, <2>5
<1> QED  BY <1>5 DEF UsesInv

\* prepareInstruction keeps the shape of the function and adds a site to it.
LEMMA PrepareShape ==
  ASSUME program \in Programs, NEW f, NEW S, NEW M, NEW i, CanPrepare(f, S, M, i)
  PROVE  LET g == PreparedIR(f, i) IN
         /\ ShapeInv(g, S \cup {i}, M)
         /\ StartsWith(f, LoaderCall) => StartsWith(g, LoaderCall)
         /\ \A x \in DOMAIN f.code :
              x \in DOMAIN g.code /\ g.code[x].op = f.code[x].op
<1> DEFINE g == PreparedIR(f, i)
<1>1. PICK b, k : IsSplit(f, g, Names, i, b, k)
  BY PrepareSplits
<1> HIDE DEF g
<1>2. g.entry = f.entry /\ f.entry = program.function.entry
  BY <1>1 DEF IsSplit, IsPrepared, CanPrepare, ShapeInv
<1>3. \A j \in S \cup {i} : SiteInv(g, M, j)
  BY <1>1, SplitKeepsSite, SplitMakesSite
<1>4. ShapeInv(g, S \cup {i}, M)
  BY <1>1, <1>2, <1>3, SplitVerified, SplitKeepsMutant, SplitNames, SplitUses DEF ShapeInv
<1>5. ASSUME NEW c \in DOMAIN f.layout, f.layout[c] # <<>>, f.layout[c][1] # i
      PROVE  g.layout[c] # <<>> /\ g.layout[c][1] = f.layout[c][1]
  <2>1. CASE c = b
    <3>1. f.layout[b][k] = i /\ k \in Nat \ {0}
      BY <1>1, SplitAt
    <3>2. 1 \in 1 .. k - 1
      BY <1>5, <2>1, <3>1
    <3> DEFINE t == g.layout[b]
    <3>3. DOMAIN t = 1 .. k + 1 /\ \A l \in 1 .. k - 1 : t[l] = f.layout[b][l]
      BY <1>1, SplitHead
    <3> HIDE DEF t
    <3>4. t # <<>> /\ t[1] = f.layout[b][1]
      BY <3>1, <3>2, <3>3
    <3> QED  BY <2>1, <3>4 DEF t
  <2>2. CASE c # b
    BY <1>1, <1>5, <2>2, SplitOthers
  <2> QED  BY <2>1, <2>2
<1>6. \A x \in DOMAIN f.code : x \in DOMAIN g.code /\ g.code[x].op = f.code[x].op
  BY <1>1 DEF IsSplit, IsPrepared, Moved, IsNewSite, Created
<1>7. StartsWith(f, LoaderCall) => StartsWith(g, LoaderCall)
  <2>1. DOMAIN f.layout \subseteq DOMAIN g.layout
    BY <1>1 DEF IsSplit, IsPrepared
  <2>2. i # LoaderCall
    BY ProgramIs DEF CanPrepare, LoaderCall
  <2> QED  BY <1>2, <1>5, <2>1, <2>2 DEF StartsWith
<1> QED  BY <1>4, <1>6, <1>7 DEF g

-------------------------------------------------------------------------------
(* Injecting a mutation.                                                   *)

\* Mutation m, which offers the candidate, of site i can be injected in f.
CanInject(f, S, M, i, candidate, m) ==
  /\ MayInject(f, S, M, i, candidate, m) /\ ShapeInv(f, S, M)
  /\ m = [original |-> i, variant |-> candidate, operator |-> MutatorFor(f.code[i].op)]
  /\ IF f.code[i].op = "load"
     THEN candidate \in DOMAIN f.code /\ f.code[candidate].op = "alloca"
     ELSE candidate \in Opcodes

\* g is the verified function f with mutation n of its site i.
IsGrown(f, g, N, M, i, n, candidate) ==
  /\ IsNewMutant(f, N, i, n) /\ Verified(f) /\ SiteInv(f, M, i)
  /\ IsInjected(f, g, i, n, candidate) /\ WellFormed(g, N) /\ OnePlace(g)
  /\ f.code[i].op # "load" => candidate \in Opcodes

LEMMA InjectGrows ==
  ASSUME program \in Programs, NEW f, NEW S, NEW M, NEW i, NEW candidate, NEW m,
         CanInject(f, S, M, i, candidate, m)
  PROVE  IsGrown(f, Injected(f, i, Len(M) + 1, candidate), Names, M, i, Len(M) + 1, candidate)
<1> DEFINE n == Len(M) + 1
<1>1. n \in Nat /\ n \notin DOMAIN M
  BY MutationsAppended DEF CanInject, MayInject
<1> HIDE DEF n
<1>2. /\ WellFormed(f, Names) /\ Verified(f) /\ OnePlace(f) /\ NamesInv(f, S, M)
      /\ i \in DOMAIN f.code /\ i[1] = "orig" /\ SiteInv(f, M, i) /\ i \in S
      /\ f.code[i].op # "load" => candidate \in Opcodes
  BY ProgramIs DEF CanInject, MayInject, FunctionInv, ShapeInv, Verified
<1>3. Mutant(n) \notin DOMAIN f.layout
  <2> SUFFICES ASSUME NEW b \in DOMAIN f.layout PROVE b # Mutant(n)
    OBVIOUS
  <2>1. CASE b[1] = "orig"
    BY <2>1 DEF Mutant
  <2>2. CASE \E j \in S : b \in {Clone(j), Rest(j)}
    BY <2>2 DEF Clone, Rest, Mutant
  <2>3. CASE \E k \in DOMAIN M : b = Mutant(k)
    BY <1>1, <2>3 DEF Mutant
  <2> QED  BY <2>1, <2>2, <2>3 DEF CanInject, MayInject, FunctionInv
<1>4. {Mutant(n), MutantBr(n)} \cap DOMAIN f.code = {}
  <2> SUFFICES ASSUME NEW x \in {Mutant(n), MutantBr(n)} PROVE x \notin DOMAIN f.code
    OBVIOUS
  <2>1. x \notin Origs \cup {LoaderCall}
    BY ProgramIs DEF Mutant, MutantBr, LoaderCall, LoaderFunction
  <2>2. \A j \in S : x \notin Created(j)
    BY DEF Created, Clone, CloneBr, GlobalLoad, Switch, SplitBr, Phi, Mutant, MutantBr
  <2>3. \A k \in DOMAIN M : x \notin {Mutant(k), MutantBr(k)}
    BY <1>1 DEF Mutant, MutantBr
  <2>4. x \notin MadeFor(S, M)
    BY <2>2, <2>3 DEF MadeFor
  <2> QED  BY <1>2, <2>1, <2>4 DEF NamesInv
<1>5. {Mutant(n), MutantBr(n)} \subseteq Names
  BY <1>1, NamesAre
<1>6. {Switch(i), Phi(i)} \subseteq DOMAIN f.code
  BY <1>2, SiteHas
<1>7. IsNewMutant(f, Names, i, n)
  BY <1>2, <1>3, <1>4, <1>5, <1>6 DEF IsNewMutant
<1>8. LET g == Injected(f, i, n, candidate)
      IN  IsInjected(f, g, i, n, candidate) /\ WellFormed(g, Names) /\ OnePlace(g)
  BY <1>7, InjectedAt
<1>9. IsGrown(f, Injected(f, i, n, candidate), Names, M, i, n, candidate)
  BY <1>2, <1>7, <1>8 DEF IsGrown
<1> QED  BY <1>9 DEF n

\* What the replacement of i is.
LEMMA ReplacementAt ==
  ASSUME NEW ins, IsIns(ins), NEW candidate
  PROVE  LET x == Replacement(ins, candidate) IN
         /\ x.op = IF ins.op = "load" THEN "load" ELSE candidate
         /\ x.args = IF ins.op = "load" THEN << candidate >> ELSE ins.args
         /\ x.to = ins.to /\ x.in = ins.in
<1>1. CASE ins.op = "load"
  <2> DEFINE args == << candidate >>
             x == [ins EXCEPT !.args = args]
  <2>1. x = [op |-> ins.op, ty |-> ins.ty, args |-> args,
             to |-> ins.to, in |-> ins.in, cases |-> ins.cases]
    BY ChangedIns
  <2>2. Replacement(ins, candidate) = x
    BY <1>1 DEF Replacement
  <2> HIDE DEF x, args
  <2> QED  BY <1>1, <2>1, <2>2 DEF args
<1>2. CASE ins.op # "load"
  <2> DEFINE x == [ins EXCEPT !.op = candidate]
  <2>1. x = [op |-> candidate, ty |-> ins.ty, args |-> ins.args,
             to |-> ins.to, in |-> ins.in, cases |-> ins.cases]
    BY ChangedIns
  <2>2. Replacement(ins, candidate) = x
    BY <1>2 DEF Replacement
  <2> HIDE DEF x
  <2> QED  BY <1>2, <2>1, <2>2
<1> QED  BY <1>1, <1>2

\* The operations stay, and so do the blocks that were there.
LEMMA GrownHas ==
  ASSUME NEW f, NEW g, NEW N, NEW M, NEW i, NEW n, NEW candidate,
         IsGrown(f, g, N, M, i, n, candidate)
  PROVE  /\ DOMAIN g.layout = DOMAIN f.layout \cup {Mutant(n)}
         /\ Mutant(n) \notin DOMAIN f.layout
         /\ \A c \in DOMAIN f.layout : g.layout[c] = f.layout[c]
         /\ DOMAIN g.code = DOMAIN f.code \cup {Mutant(n), MutantBr(n)}
         /\ \A y \in DOMAIN f.code : g.code[y].op = f.code[y].op
         /\ \A y \in DOMAIN f.code \ {Switch(i), Phi(i)} : g.code[y] = f.code[y]
         /\ {Switch(i), Phi(i)} \subseteq DOMAIN f.code /\ i \in DOMAIN f.code
         /\ i \notin {Switch(i), Phi(i)} /\ Switch(i) # Phi(i)
         /\ {Mutant(n), MutantBr(n)} \cap DOMAIN f.code = {}
         /\ g.code[Switch(i)].args = f.code[Switch(i)].args
         /\ g.code[Switch(i)].in = f.code[Switch(i)].in
         /\ g.code[Switch(i)].to = Append(f.code[Switch(i)].to, Mutant(n))
         /\ g.code[Switch(i)].cases = Append(f.code[Switch(i)].cases, n)
         /\ g.code[Phi(i)].args = f.code[Phi(i)].args
         /\ g.code[Phi(i)].to = f.code[Phi(i)].to
         /\ g.code[Phi(i)].in = f.code[Phi(i)].in \cup {<< Mutant(n), Mutant(n) >>}
<1>1. i # Switch(i) /\ i # Phi(i) /\ Switch(i) # Phi(i) /\ i \in DOMAIN f.code
  BY DEF IsGrown, IsNewMutant, Switch, Phi
<1>2. IsInjected(f, g, i, n, candidate) /\ IsNewMutant(f, N, i, n)
  BY DEF IsGrown
<1>3. /\ g.code[Switch(i)].op = f.code[Switch(i)].op /\ g.code[Phi(i)].op = f.code[Phi(i)].op
  BY <1>2 DEF IsInjected, IsJust
<1>4. \A y \in DOMAIN f.code \ {Switch(i), Phi(i)} : g.code[y] = f.code[y]
  BY <1>2 DEF IsInjected
<1>5. \A y \in DOMAIN f.code : g.code[y].op = f.code[y].op
  BY <1>3, <1>4
<1> QED  BY <1>1, <1>2, <1>4, <1>5 DEF IsInjected, IsNewMutant, IsJust

\* The instructions of the mutant and their block.
LEMMA GrownValues ==
  ASSUME NEW f, NEW g, NEW N, NEW M, NEW i, NEW n, NEW candidate,
         IsGrown(f, g, N, M, i, n, candidate)
  PROVE  /\ g.layout[Mutant(n)] = << Mutant(n), MutantBr(n) >>
         /\ f.code[i].op = "load" => /\ g.code[Mutant(n)].op = "load"
                                    /\ g.code[Mutant(n)].args = << candidate >>
         /\ f.code[i].op # "load" => /\ g.code[Mutant(n)].op = candidate
                                    /\ g.code[Mutant(n)].args = f.code[i].args
         /\ g.code[Mutant(n)].to = f.code[i].to /\ g.code[Mutant(n)].in = f.code[i].in
         /\ g.code[MutantBr(n)] = Jump(Rest(i))
<1>1. IsInjected(f, g, i, n, candidate)
  BY DEF IsGrown
<1>2. IsIns(f.code[i])
  BY DEF IsGrown, IsNewMutant, WellFormed
<1> DEFINE x == Replacement(f.code[i], candidate)
<1>3. /\ x.op = IF f.code[i].op = "load" THEN "load" ELSE candidate
      /\ x.args = IF f.code[i].op = "load" THEN << candidate >> ELSE f.code[i].args
      /\ x.to = f.code[i].to /\ x.in = f.code[i].in
  BY <1>2, ReplacementAt
<1>4. /\ g.code[Mutant(n)] = x /\ g.code[MutantBr(n)] = Jump(Rest(i))
      /\ g.layout[Mutant(n)] = << Mutant(n), MutantBr(n) >>
  BY <1>1 DEF IsInjected
<1> HIDE DEF x
<1> QED  BY <1>3, <1>4

LEMMA GrownBlock ==
  ASSUME NEW f, NEW g, NEW N, NEW M, NEW i, NEW n, NEW candidate,
         IsGrown(f, g, N, M, i, n, candidate)
  PROVE  /\ g.layout[Mutant(n)] = << Mutant(n), MutantBr(n) >>
         /\ g.code[Mutant(n)].op \notin Terminators /\ g.code[Mutant(n)].op # "phi"
         /\ g.code[Mutant(n)].to = f.code[i].to /\ g.code[Mutant(n)].in = f.code[i].in
         /\ g.code[MutantBr(n)].op = "br" /\ g.code[MutantBr(n)].to = << Rest(i) >>
         /\ g.code[MutantBr(n)].args = <<>> /\ g.code[MutantBr(n)].in = {}
<1>1. /\ Jump(Rest(i)).op = "br" /\ Jump(Rest(i)).to = << Rest(i) >>
      /\ Jump(Rest(i)).args = <<>> /\ Jump(Rest(i)).in = {}
  BY JumpIs
<1>2. g.code[MutantBr(n)] = Jump(Rest(i)) /\ g.layout[Mutant(n)] = << Mutant(n), MutantBr(n) >>
      /\ g.code[Mutant(n)].to = f.code[i].to /\ g.code[Mutant(n)].in = f.code[i].in
  BY GrownValues
<1>3. g.code[Mutant(n)].op \notin Terminators /\ g.code[Mutant(n)].op # "phi"
  BY GrownValues, MutableOps DEF IsGrown, Terminators
<1> QED  BY <1>1, <1>2, <1>3

LEMMA GrownBlocks ==
  ASSUME NEW f, NEW g, NEW N, NEW M, NEW i, NEW n, NEW candidate,
         IsGrown(f, g, N, M, i, n, candidate)
  PROVE  BlocksWellFormed(g)
<1> SUFFICES ASSUME NEW c \in DOMAIN g.layout
             PROVE  LET t == g.layout[c] IN
                    /\ t # <<>>
                    /\ \A l \in DOMAIN t : (g.code[t[l]].op \in Terminators) <=> (l = Len(t))
                    /\ \A l \in DOMAIN t : g.code[t[l]].op = "phi" =>
                         \A j \in 1 .. l - 1 : g.code[t[j]].op = "phi"
  BY DEF BlocksWellFormed, BlocksOf
<1> DEFINE t == g.layout[c]
<1>1. CASE c \in DOMAIN f.layout
  <2>1. /\ t = f.layout[c] /\ WellFormed(f, N) /\ BlocksWellFormed(f) /\ OnePlace(f)
        /\ \A y \in DOMAIN f.code : g.code[y].op = f.code[y].op
    BY <1>1, GrownHas DEF IsGrown, IsNewMutant, Verified
  <2>2. /\ DOMAIN t = 1 .. Len(t) /\ Len(t) \in Nat \ {0}
        /\ \A l \in DOMAIN t : (f.code[t[l]].op \in Terminators) <=> (l = Len(t))
        /\ \A l \in DOMAIN t : \A j \in 1 .. l - 1 :
             f.code[t[l]].op = "phi" => f.code[t[j]].op = "phi"
    BY <1>1, <2>1, BlockIs
  <2>3. \A l \in DOMAIN t : g.code[t[l]].op = f.code[t[l]].op
    BY <1>1, <2>1 DEF OnePlace
  <2> HIDE DEF t
  <2>4. t # <<>>
    BY <2>2
  <2>5. ASSUME NEW l \in DOMAIN t, g.code[t[l]].op = "phi", NEW j \in 1 .. l - 1
        PROVE  g.code[t[j]].op = "phi"
    <3>1. j \in DOMAIN t
      BY <2>2
    <3> QED  BY <2>2, <2>3, <2>5, <3>1
  <2> QED  BY <2>2, <2>3, <2>4, <2>5 DEF t
<1>2. CASE c = Mutant(n)
  <2>1. /\ t = << Mutant(n), MutantBr(n) >>
        /\ g.code[Mutant(n)].op \notin Terminators /\ g.code[Mutant(n)].op # "phi"
        /\ g.code[MutantBr(n)].op = "br"
    BY <1>2, GrownBlock
  <2> HIDE DEF t
  <2>2. /\ t # <<>> /\ Len(t) = 2 /\ DOMAIN t = {1, 2}
        /\ t[1] = Mutant(n) /\ t[2] = MutantBr(n)
    BY <2>1
  <2> QED  BY <2>1, <2>2 DEF Terminators, t
<1> QED  BY <1>1, <1>2, GrownHas

\* Where the switch is, there is one target more, which goes to where the site meets.
LEMMA GrownPreds ==
  ASSUME NEW f, NEW g, NEW N, NEW M, NEW i, NEW n, NEW candidate,
         IsGrown(f, g, N, M, i, n, candidate)
  PROVE  /\ \A c \in DOMAIN f.layout : c # Rest(i) => Preds(g, c) = Preds(f, c)
         /\ Preds(g, Rest(i)) = Preds(f, Rest(i)) \cup {Mutant(n)}
         /\ \A c \in DOMAIN f.layout : Succs(f, c) \subseteq DOMAIN f.layout
         /\ Succs(g, Mutant(n)) = {Rest(i)}
<1>1. /\ WellFormed(f, N) /\ BlocksWellFormed(f) /\ OnePlace(f) /\ TargetsAreBlocks(f)
      /\ WellFormed(g, N) /\ BlocksWellFormed(g) /\ OnePlace(g)
      /\ f.code[Phi(i)].op = "phi" /\ f.code[Switch(i)].to \in Seq(DOMAIN f.layout)
  BY GrownBlocks DEF IsGrown, IsNewMutant, Verified, SiteInv
<1>2. /\ DOMAIN g.layout = DOMAIN f.layout \cup {Mutant(n)} /\ Mutant(n) \notin DOMAIN f.layout
      /\ \A c \in DOMAIN f.layout : g.layout[c] = f.layout[c]
      /\ \A y \in DOMAIN f.code \ {Switch(i), Phi(i)} : g.code[y] = f.code[y]
      /\ g.code[Switch(i)].to = Append(f.code[Switch(i)].to, Mutant(n))
  BY GrownHas
<1>3. \A c \in DOMAIN f.layout : Succs(f, c) \subseteq DOMAIN f.layout
  BY <1>1, BlockIs DEF TargetsAreBlocks
<1>4. ToSet(g.code[Switch(i)].to) = ToSet(f.code[Switch(i)].to) \cup {Mutant(n)}
  <2> DEFINE s == f.code[Switch(i)].to
             B == DOMAIN f.layout \cup {Mutant(n)}
  <2>1. s \in Seq(B) /\ Mutant(n) \in B
    BY <1>1
  <2> HIDE DEF s, B
  <2>2. ToSet(Append(s, Mutant(n))) = ToSet(s) \cup {Mutant(n)}
    BY <2>1, AppendRange
  <2> QED  BY <1>2, <2>2 DEF s
<1>5. ASSUME NEW c \in DOMAIN f.layout
      PROVE  Succs(g, c) \in {Succs(f, c), Succs(f, c) \cup {Mutant(n)}}
  <2>1. Final(g, c) = Final(f, c)
    BY <1>2 DEF Final
  <2>2. /\ Final(f, c) \in DOMAIN f.code /\ f.code[Final(f, c)].op \in Terminators
        /\ Succs(f, c) = ToSet(f.code[Final(f, c)].to)
    BY <1>1, BlockIs
  <2>3. Succs(g, c) = ToSet(g.code[Final(g, c)].to)
    BY <1>1, <1>2, BlockIs
  <2>4. Final(f, c) # Phi(i)
    BY <1>1, <2>2 DEF Terminators
  <2>5. CASE Final(f, c) = Switch(i)
    BY <1>4, <2>1, <2>2, <2>3, <2>5
  <2>6. CASE Final(f, c) # Switch(i)
    <3>1. g.code[Final(f, c)] = f.code[Final(f, c)]
      BY <1>2, <2>2, <2>4, <2>6
    <3> QED  BY <2>1, <2>2, <2>3, <3>1
  <2> QED  BY <2>5, <2>6
<1>6. Succs(g, Mutant(n)) = {Rest(i)}
  <2> DEFINE t == g.layout[Mutant(n)]
  <2>1. t = << Mutant(n), MutantBr(n) >> /\ g.code[MutantBr(n)].to = << Rest(i) >>
    BY GrownBlock
  <2> HIDE DEF t
  <2>2. Len(t) = 2 /\ t[2] = MutantBr(n)
    BY <2>1
  <2>3. Final(g, Mutant(n)) = MutantBr(n)
    BY <2>2 DEF Final, t
  <2>4. Succs(g, Mutant(n)) = ToSet(g.code[Final(g, Mutant(n))].to)
    BY <1>1, <1>2, BlockIs
  <2>5. ToSet(<< Rest(i) >>) = {Rest(i)}
    BY DEF ToSet
  <2> QED  BY <2>1, <2>3, <2>4, <2>5
<1>7. ASSUME NEW c \in DOMAIN f.layout
      PROVE  /\ c # Rest(i) => Preds(g, c) = Preds(f, c)
             /\ c = Rest(i) => Preds(g, c) = Preds(f, c) \cup {Mutant(n)}
  <2>1. ASSUME NEW p \in DOMAIN f.layout PROVE c \in Succs(g, p) <=> c \in Succs(f, p)
    BY <1>2, <1>5
  <2>2. c \in Succs(g, Mutant(n)) <=> c = Rest(i)
    BY <1>6
  <2> QED  BY <1>2, <2>1, <2>2 DEF Preds, BlocksOf
<1>8. Rest(i) \in DOMAIN f.layout
  BY DEF IsGrown, SiteInv
<1> QED  BY <1>3, <1>6, <1>7, <1>8

LEMMA GrownPhis ==
  ASSUME NEW f, NEW g, NEW N, NEW M, NEW i, NEW n, NEW candidate,
         IsGrown(f, g, N, M, i, n, candidate)
  PROVE  PhisMatchPredecessors(g)
<1> SUFFICES ASSUME NEW c \in DOMAIN g.layout, NEW l \in DOMAIN g.layout[c],
                    g.code[g.layout[c][l]].op = "phi"
             PROVE  Fits(g, c, g.layout[c][l])
  BY PhisAre
<1> DEFINE x == g.layout[c][l]
<1>1. c # Mutant(n)
  <2> SUFFICES ASSUME c = Mutant(n) PROVE FALSE
    OBVIOUS
  <2> DEFINE t == g.layout[c]
  <2>1. /\ t = << Mutant(n), MutantBr(n) >> /\ g.code[Mutant(n)].op # "phi"
        /\ g.code[MutantBr(n)].op = "br"
    BY GrownBlock
  <2>2. t[l] \in {Mutant(n), MutantBr(n)}
    BY <2>1
  <2> QED  BY <2>1, <2>2
<1>2. /\ c \in DOMAIN f.layout /\ g.layout[c] = f.layout[c]
      /\ x \in DOMAIN f.code /\ f.code[x].op = "phi"
  <2>1. c \in DOMAIN f.layout /\ g.layout[c] = f.layout[c]
    BY <1>1, GrownHas
  <2>2. x \in DOMAIN f.code
    BY <2>1 DEF IsGrown, IsNewMutant, OnePlace
  <2> QED  BY <2>1, <2>2, GrownHas
<1>3. Fits(f, c, x)
  BY <1>2, PhisAre DEF IsGrown, Verified
<1>4. /\ OnePlace(f) /\ WellFormed(f, N) /\ Rest(i) \in DOMAIN f.layout
      /\ f.layout[Rest(i)] # <<>> /\ f.layout[Rest(i)][1] = Phi(i)
      /\ \A j \in 2 .. Len(f.layout[Rest(i)]) : f.code[f.layout[Rest(i)][j]].op # "phi"
      /\ f.code[Switch(i)].op = "switch"
  BY DEF IsGrown, IsNewMutant, SiteInv
<1>5. f.layout[Rest(i)] \in Seq(N)
  BY <1>4 DEF WellFormed
<1>6. 1 \in DOMAIN f.layout[Rest(i)]
  <2> DEFINE s == f.layout[Rest(i)]
  <2> HIDE DEF s
  <2>1. s \in Seq(N) /\ s # <<>>
    BY <1>4, <1>5 DEF s
  <2> QED  BY <2>1 DEF s
<1>7. CASE x = Phi(i)
  <2>1. c = Rest(i)
    BY <1>2, <1>4, <1>6, <1>7 DEF OnePlace
  <2>2. Preds(g, c) = Preds(f, c) \cup {Mutant(n)}
    BY <1>2, <2>1, GrownPreds
  <2>3. g.code[x].in = f.code[x].in \cup {<< Mutant(n), Mutant(n) >>}
    BY <1>7, GrownHas
  <2>4. Mutant(n) \notin Preds(f, c)
    BY GrownHas DEF Preds, BlocksOf
  <2> HIDE DEF x
  <2>5. {e[2] : e \in g.code[x].in} = Preds(g, c)
    <3>1. {e[2] : e \in f.code[x].in} = Preds(f, c)
      BY <1>3 DEF Fits
    <3> DEFINE p == << Mutant(n), Mutant(n) >>
    <3>2. p[2] = Mutant(n) /\ g.code[x].in = f.code[x].in \cup {p}
      BY <2>3
    <3> HIDE DEF p
    <3> QED  BY <2>2, <3>1, <3>2
  <2>6. \A e \in f.code[x].in : e[2] # Mutant(n)
    BY <1>3, <2>4 DEF Fits
  <2>7. \A d, e \in g.code[x].in : d[2] = e[2] => d = e
    BY <1>3, <2>3, <2>6 DEF Fits
  <2>8. Fits(g, c, x)
    BY <2>5, <2>7 DEF Fits
  <2> QED  BY <2>8 DEF x
<1>8. CASE x # Phi(i)
  <2>1. x # Switch(i) /\ g.code[x] = f.code[x]
    BY <1>2, <1>4, <1>8, GrownHas
  <2>2. c # Rest(i)
    <3> SUFFICES ASSUME c = Rest(i) PROVE FALSE
      OBVIOUS
    <3> DEFINE s == f.layout[Rest(i)]
    <3>1. s \in Seq(N) /\ l \in DOMAIN s /\ s[l] = x /\ s[1] = Phi(i)
          /\ \A j \in 2 .. Len(s) : f.code[s[j]].op # "phi"
      BY <1>2, <1>4, <1>5
    <3> HIDE DEF s
    <3>2. l \in 2 .. Len(s)
      BY <1>8, <3>1
    <3> QED  BY <1>2, <3>1, <3>2
  <2>3. Preds(g, c) = Preds(f, c)
    BY <1>2, <2>2, GrownPreds
  <2> QED  BY <1>3, <2>1, <2>3 DEF Fits
<1> QED  BY <1>7, <1>8

LEMMA GrownVerified ==
  ASSUME NEW f, NEW g, NEW N, NEW M, NEW i, NEW n, NEW candidate,
         IsGrown(f, g, N, M, i, n, candidate)
  PROVE  Verified(g)
<1>1. TargetsAreBlocks(g)
  <2> SUFFICES ASSUME NEW x \in DOMAIN g.code
               PROVE  ToSet(g.code[x].to) \subseteq DOMAIN g.layout
    BY DEF TargetsAreBlocks
  <2>1. /\ TargetsAreBlocks(f) /\ Rest(i) \in DOMAIN f.layout /\ i \in DOMAIN f.code
        /\ f.code[Switch(i)].to \in Seq(DOMAIN f.layout)
        /\ DOMAIN g.layout = DOMAIN f.layout \cup {Mutant(n)}
    <3>1. TargetsAreBlocks(f) /\ SiteInv(f, M, i)
      BY DEF IsGrown, Verified
    <3>2. DOMAIN g.layout = DOMAIN f.layout \cup {Mutant(n)} /\ i \in DOMAIN f.code
      BY GrownHas
    <3> QED  BY <3>1, <3>2 DEF SiteInv
  <2>2. CASE x \in DOMAIN f.code \ {Switch(i)}
    <3>1. g.code[x].to = f.code[x].to
      BY <2>2, GrownHas
    <3> QED  BY <2>1, <2>2, <3>1 DEF TargetsAreBlocks
  <2>3. CASE x = Switch(i)
    <3> DEFINE s == f.code[Switch(i)].to
               B == DOMAIN g.layout
    <3>1. s \in Seq(B) /\ Mutant(n) \in B
      BY <2>1
    <3>2. g.code[x].to = Append(s, Mutant(n))
      BY <2>3, GrownHas
    <3> HIDE DEF s, B
    <3>3. \A j \in DOMAIN Append(s, Mutant(n)) : Append(s, Mutant(n))[j] \in B
      BY <3>1
    <3> QED  BY <3>2, <3>3 DEF ToSet, B
  <2>4. CASE x = Mutant(n)
    <3>1. g.code[x].to = f.code[i].to
      BY <2>4, GrownBlock
    <3> QED  BY <2>1, <3>1 DEF TargetsAreBlocks
  <2>5. CASE x = MutantBr(n)
    <3>1. g.code[x].to = << Rest(i) >>
      BY <2>5, GrownBlock
    <3> QED  BY <2>1, <3>1 DEF ToSet
  <2> QED  BY <2>2, <2>3, <2>4, <2>5, GrownHas
<1> QED  BY <1>1, GrownBlocks, GrownPhis DEF Verified, IsGrown

\* g is f with mutation m, which is the last one of R, that has those of M before.
Grows(f, g, S, M, R, i, n, candidate, m) ==
  /\ CanInject(f, S, M, i, candidate, m) /\ IsGrown(f, g, Names, M, i, n, candidate)
  /\ n \in Nat /\ n \notin DOMAIN M /\ DOMAIN R = DOMAIN M \cup {n}
  /\ R[n] = m /\ \A k \in DOMAIN M : R[k] = M[k]

\* The sites of f, whose switches and phis are only named by their own site.
LEMMA GrownIs ==
  ASSUME program \in Programs, NEW f, NEW g, NEW S, NEW M, NEW R, NEW i, NEW n,
         NEW candidate, NEW m, Grows(f, g, S, M, R, i, n, candidate, m)
  PROVE  /\ i \in S /\ i \in DOMAIN f.code /\ NamesInv(f, S, M) /\ S \subseteq Origs
         /\ \A j \in S : SiteInv(f, M, j) /\ j[1] = "orig"
         /\ \A k \in DOMAIN M : MutantInv(f, M, k)
         /\ R[n].original = i /\ MutationsOf(R, i) = MutationsOf(M, i) \cup {n}
         /\ \A j : j # i => MutationsOf(R, j) = MutationsOf(M, j)
         /\ IsGrown(f, g, Names, M, i, n, candidate)
<1>1. /\ i \in S /\ i \in DOMAIN f.code /\ NamesInv(f, S, M) /\ S \subseteq Origs
      /\ \A j \in S : SiteInv(f, M, j) /\ j[1] = "orig"
      /\ \A k \in DOMAIN M : MutantInv(f, M, k)
      /\ m.original = i
  BY ProgramIs DEF Grows, CanInject, MayInject, ShapeInv
<1>2. /\ n \notin DOMAIN M /\ DOMAIN R = DOMAIN M \cup {n}
      /\ R[n].original = i /\ \A k \in DOMAIN M : R[k] = M[k]
  BY <1>1 DEF Grows
<1>3. MutationsOf(R, i) = MutationsOf(M, i) \cup {n}
  BY <1>2 DEF MutationsOf
<1>4. \A j : j # i => MutationsOf(R, j) = MutationsOf(M, j)
  BY <1>2 DEF MutationsOf
<1> QED  BY <1>1, <1>2, <1>3, <1>4 DEF Grows

\* The blocks of a site stay as they are.
LEMMA GrownDiamond ==
  ASSUME program \in Programs, NEW f, NEW g, NEW S, NEW M, NEW R, NEW i, NEW n,
         NEW candidate, NEW m, Grows(f, g, S, M, R, i, n, candidate, m), NEW j \in S
  PROVE  /\ {Clone(j), Rest(j)} \subseteq DOMAIN g.layout
         /\ g.layout[Clone(j)] = << Clone(j), CloneBr(j) >>
         /\ g.code[CloneBr(j)].to = << Rest(j) >>
         /\ g.layout[Rest(j)] # <<>> /\ g.layout[Rest(j)][1] = Phi(j)
         /\ \A l \in 2 .. Len(g.layout[Rest(j)]) : g.code[g.layout[Rest(j)][l]].op # "phi"
         /\ g.code[Phi(j)].op = "phi" /\ g.code[Switch(j)].op = "switch"
         /\ j \in DOMAIN g.code => g.code[j].args = g.code[Clone(j)].args
<1>1. /\ SiteInv(f, M, j) /\ j[1] = "orig" /\ IsGrown(f, g, Names, M, i, n, candidate)
      /\ {Clone(j), CloneBr(j), Switch(j), Phi(j)} \subseteq DOMAIN f.code
  BY GrownIs, SiteHas
<1>2. /\ DOMAIN g.layout = DOMAIN f.layout \cup {Mutant(n)}
      /\ \A c \in DOMAIN f.layout : g.layout[c] = f.layout[c]
      /\ DOMAIN g.code = DOMAIN f.code \cup {Mutant(n), MutantBr(n)}
      /\ \A y \in DOMAIN f.code : g.code[y].op = f.code[y].op
      /\ \A y \in DOMAIN f.code \ {Switch(i), Phi(i)} : g.code[y] = f.code[y]
  BY <1>1, GrownHas
<1>3. \A x \in {Clone(j), CloneBr(j), j} : x \notin {Switch(i), Phi(i)}
  BY <1>1 DEF Clone, CloneBr, Switch, Phi
<1>4. j \notin {Mutant(n), MutantBr(n)}
  BY <1>1 DEF Mutant, MutantBr
<1>5. \A l \in 2 .. Len(f.layout[Rest(j)]) : f.layout[Rest(j)][l] \in DOMAIN f.code
  <2> DEFINE s == f.layout[Rest(j)]
  <2>1. s \in Seq(Names) /\ \A l \in DOMAIN s : s[l] \in DOMAIN f.code
    BY <1>1 DEF SiteInv, IsGrown, IsNewMutant, WellFormed, OnePlace
  <2> HIDE DEF s
  <2>2. \A l \in 2 .. Len(s) : l \in DOMAIN s
    BY <2>1
  <2> QED  BY <2>1, <2>2 DEF s
<1>6. /\ {Clone(j), Rest(j)} \subseteq DOMAIN f.layout
      /\ f.layout[Clone(j)] = << Clone(j), CloneBr(j) >>
      /\ f.code[CloneBr(j)].to = << Rest(j) >>
      /\ f.layout[Rest(j)] # <<>> /\ f.layout[Rest(j)][1] = Phi(j)
      /\ \A l \in 2 .. Len(f.layout[Rest(j)]) : f.code[f.layout[Rest(j)][l]].op # "phi"
      /\ f.code[Phi(j)].op = "phi" /\ f.code[Switch(j)].op = "switch"
      /\ j \in DOMAIN f.code => f.code[j].args = f.code[Clone(j)].args
  BY <1>1 DEF SiteInv
<1>7. \A l \in 2 .. Len(g.layout[Rest(j)]) : g.code[g.layout[Rest(j)][l]].op # "phi"
  BY <1>2, <1>5, <1>6
<1>8. j \in DOMAIN g.code => g.code[j].args = g.code[Clone(j)].args
  BY <1>1, <1>2, <1>3, <1>4, <1>6
<1>9. g.code[CloneBr(j)].to = << Rest(j) >>
  BY <1>1, <1>2, <1>3, <1>6
<1> QED  BY <1>1, <1>2, <1>6, <1>7, <1>8, <1>9

LEMMA GrownKeepsSite ==
  ASSUME program \in Programs, NEW f, NEW g, NEW S, NEW M, NEW R, NEW i, NEW n,
         NEW candidate, NEW m, Grows(f, g, S, M, R, i, n, candidate, m),
         NEW j \in S, j # i
  PROVE  SiteInv(g, R, j)
<1>1. /\ SiteInv(f, M, j) /\ MutationsOf(R, j) = MutationsOf(M, j)
      /\ IsGrown(f, g, Names, M, i, n, candidate)
      /\ {Switch(j), Phi(j)} \subseteq DOMAIN f.code
  BY GrownIs, SiteHas
<1>2. {Switch(j), Phi(j)} \cap {Switch(i), Phi(i)} = {}
  BY DEF Switch, Phi
<1>3. g.code[Switch(j)] = f.code[Switch(j)] /\ g.code[Phi(j)] = f.code[Phi(j)]
  <2>1. \A y \in DOMAIN f.code \ {Switch(i), Phi(i)} : g.code[y] = f.code[y]
    BY <1>1, GrownHas
  <2> QED  BY <1>1, <1>2, <2>1
<1>4. g.code[Switch(j)].to \in Seq(DOMAIN g.layout)
  <2>1. f.code[Switch(j)].to \in Seq(DOMAIN f.layout)
    BY <1>1 DEF SiteInv
  <2>2. DOMAIN f.layout \subseteq DOMAIN g.layout
    BY <1>1, GrownHas
  <2>3. \A s : s \in Seq(DOMAIN f.layout) => s \in Seq(DOMAIN g.layout)
    BY <2>2
  <2> QED  BY <1>3, <2>1, <2>3
<1> QED  BY <1>1, <1>3, <1>4, GrownDiamond DEF SiteInv

\* A case, its target and the value of the phi come together.
LEMMA GrownMakesCase ==
  ASSUME program \in Programs, NEW f, NEW g, NEW S, NEW M, NEW R, NEW i, NEW n,
         NEW candidate, NEW m, Grows(f, g, S, M, R, i, n, candidate, m)
  PROVE  SiteInv(g, R, i)
<1>1. /\ SiteInv(f, M, i) /\ i \in S /\ MutationsOf(R, i) = MutationsOf(M, i) \cup {n}
      /\ IsGrown(f, g, Names, M, i, n, candidate)
  BY GrownIs
<1>2. /\ g.code[Switch(i)].to = Append(f.code[Switch(i)].to, Mutant(n))
      /\ g.code[Switch(i)].cases = Append(f.code[Switch(i)].cases, n)
      /\ g.code[Phi(i)].in = f.code[Phi(i)].in \cup {<< Mutant(n), Mutant(n) >>}
      /\ DOMAIN g.layout = DOMAIN f.layout \cup {Mutant(n)}
  BY <1>1, GrownHas
<1>3. g.code[Phi(i)].in =
        {<< Mutant(k), Mutant(k) >> : k \in MutationsOf(R, i)} \cup {<< Clone(i), Clone(i) >>}
  <2> DEFINE P(k) == << Mutant(k), Mutant(k) >>
             p == << Clone(i), Clone(i) >>
  <2>1. f.code[Phi(i)].in = {P(k) : k \in MutationsOf(M, i)} \cup {p}
    BY <1>1 DEF SiteInv
  <2>2. g.code[Phi(i)].in = f.code[Phi(i)].in \cup {P(n)}
    BY <1>2
  <2> HIDE DEF P, p
  <2>3. g.code[Phi(i)].in = {P(k) : k \in MutationsOf(R, i)} \cup {p}
    BY <1>1, <2>1, <2>2
  <2> QED  BY <2>3 DEF P, p
<1> DEFINE cs == f.code[Switch(i)].cases
           to == f.code[Switch(i)].to
           cs2 == Append(cs, n)
           to2 == Append(to, Mutant(n))
<1>4. /\ cs \in Seq(Nat) /\ ToSet(cs) = MutationsOf(M, i)
      /\ n \in Nat /\ n \notin MutationsOf(M, i)
  BY <1>1 DEF Grows, CanInject, MayInject, FunctionInv, MutationsOf
<1>5. /\ to \in Seq(DOMAIN f.layout) /\ Len(to) = Len(cs) + 1 /\ to[1] = Clone(i)
      /\ \A k, l \in DOMAIN cs : cs[k] = cs[l] => k = l
      /\ \A k \in DOMAIN cs : to[k + 1] = Mutant(cs[k])
  BY <1>1 DEF SiteInv
<1>6. \A k \in DOMAIN cs : cs[k] # n
  BY <1>4 DEF ToSet
<1>7. to \in Seq(DOMAIN g.layout) /\ Mutant(n) \in DOMAIN g.layout
  <2>1. \A s : s \in Seq(DOMAIN f.layout) => s \in Seq(DOMAIN g.layout)
    BY <1>2
  <2> QED  BY <1>2, <1>5, <2>1
<1> HIDE DEF cs, to
<1>8. /\ DOMAIN cs2 = DOMAIN cs \cup {Len(cs) + 1} /\ Len(cs2) = Len(cs) + 1
      /\ DOMAIN cs = 1 .. Len(cs) /\ Len(cs) \in Nat
      /\ cs2[Len(cs) + 1] = n /\ \A k \in DOMAIN cs : cs2[k] = cs[k]
  BY <1>4
<1>9. /\ to2 \in Seq(DOMAIN g.layout) /\ Len(to2) = Len(to) + 1
      /\ to2[Len(to) + 1] = Mutant(n) /\ \A k \in 1 .. Len(to) : to2[k] = to[k]
  BY <1>7
<1> HIDE DEF cs2, to2
<1>10. \A k, l \in DOMAIN cs2 : cs2[k] = cs2[l] => k = l
  BY <1>5, <1>6, <1>8
<1>11. Len(to2) = Len(cs2) + 1 /\ to2[1] = Clone(i)
  BY <1>5, <1>8, <1>9
<1>12. ASSUME NEW k \in DOMAIN cs2 PROVE to2[k + 1] = Mutant(cs2[k])
  <2>1. CASE k \in DOMAIN cs
    <3>1. k + 1 \in 1 .. Len(to)
      BY <1>5, <1>8, <2>1
    <3> QED  BY <1>5, <1>8, <1>9, <2>1, <3>1
  <2>2. CASE k = Len(cs) + 1
    <3>1. k + 1 = Len(to) + 1
      BY <1>5, <2>2
    <3> QED  BY <1>8, <1>9, <2>2, <3>1
  <2> QED  BY <1>8, <2>1, <2>2
<1>13. g.code[Switch(i)].cases = cs2 /\ g.code[Switch(i)].to = to2
  BY <1>2 DEF cs, to, cs2, to2
<1> QED  BY <1>1, <1>3, <1>9, <1>10, <1>11, <1>12, <1>13, GrownDiamond DEF SiteInv

LEMMA GrownKeepsMutant ==
  ASSUME program \in Programs, NEW f, NEW g, NEW S, NEW M, NEW R, NEW i, NEW n,
         NEW candidate, NEW m, Grows(f, g, S, M, R, i, n, candidate, m),
         \A k \in DOMAIN M : M[k].original \in S, NEW k \in DOMAIN M
  PROVE  MutantInv(g, R, k)
<1> DEFINE j == M[k].original
           v == M[k].variant
<1>1. /\ MutantInv(f, M, k) /\ IsGrown(f, g, Names, M, i, n, candidate)
      /\ R[k] = M[k] /\ j \in S
      /\ {Mutant(k), MutantBr(k), Clone(j)} \subseteq DOMAIN f.code
  <2>1. /\ MutantInv(f, M, k) /\ IsGrown(f, g, Names, M, i, n, candidate)
        /\ NamesInv(f, S, M)
    BY GrownIs
  <2>2. R[k] = M[k]
    BY DEF Grows
  <2>3. {Mutant(k), MutantBr(k), Clone(j)} \subseteq DOMAIN f.code
    BY <2>1, SiteHas
  <2> QED  BY <2>1, <2>2, <2>3
<1>2. /\ DOMAIN g.layout = DOMAIN f.layout \cup {Mutant(n)}
      /\ \A c \in DOMAIN f.layout : g.layout[c] = f.layout[c]
      /\ DOMAIN g.code = DOMAIN f.code \cup {Mutant(n), MutantBr(n)}
      /\ \A y \in DOMAIN f.code : g.code[y].op = f.code[y].op
      /\ \A y \in DOMAIN f.code \ {Switch(i), Phi(i)} : g.code[y] = f.code[y]
  BY <1>1, GrownHas
<1>3. \A x \in {Mutant(k), MutantBr(k), Clone(j)} : x \notin {Switch(i), Phi(i)}
  BY DEF Mutant, MutantBr, Clone, Switch, Phi
<1>4. /\ g.code[Mutant(k)] = f.code[Mutant(k)] /\ g.code[MutantBr(k)] = f.code[MutantBr(k)]
      /\ g.code[Clone(j)] = f.code[Clone(j)]
  BY <1>1, <1>2, <1>3
<1> HIDE DEF v, j
<1>5. v \in DOMAIN f.code => v \in DOMAIN g.code /\ g.code[v].op = f.code[v].op
  BY <1>2
<1> QED  BY <1>1, <1>2, <1>4, <1>5 DEF MutantInv, v, j

LEMMA GrownMakesMutant ==
  ASSUME program \in Programs, NEW f, NEW g, NEW S, NEW M, NEW R, NEW i, NEW n,
         NEW candidate, NEW m, Grows(f, g, S, M, R, i, n, candidate, m)
  PROVE  MutantInv(g, R, n)
<1>1. /\ IsGrown(f, g, Names, M, i, n, candidate) /\ SiteInv(f, M, i) /\ i \in DOMAIN f.code
      /\ {Clone(i)} \subseteq DOMAIN f.code
  BY GrownIs, SiteHas
<1>2. /\ R[n].original = i /\ R[n].variant = candidate
      /\ R[n].operator = MutatorFor(f.code[i].op)
      /\ f.code[i].op = "load" => candidate \in DOMAIN f.code /\ f.code[candidate].op = "alloca"
  BY DEF Grows, CanInject
<1>3. R[n].operator = "LoadMutator" <=> f.code[i].op = "load"
  BY <1>2, MutatorIs
<1>4. /\ DOMAIN g.layout = DOMAIN f.layout \cup {Mutant(n)}
      /\ DOMAIN g.code = DOMAIN f.code \cup {Mutant(n), MutantBr(n)}
      /\ \A y \in DOMAIN f.code : g.code[y].op = f.code[y].op
      /\ \A y \in DOMAIN f.code \ {Switch(i), Phi(i)} : g.code[y] = f.code[y]
  BY <1>1, GrownHas
<1>5. g.layout[Mutant(n)] = << Mutant(n), MutantBr(n) >> /\ g.code[MutantBr(n)].to = << Rest(i) >>
  BY <1>1, GrownBlock
<1>6. CASE f.code[i].op = "load"
  <2>1. g.code[Mutant(n)].op = "load" /\ g.code[Mutant(n)].args = << candidate >>
    BY <1>1, <1>6, GrownValues
  <2>2. candidate \in DOMAIN g.code /\ g.code[candidate].op = "alloca"
    BY <1>2, <1>4, <1>6
  <2> QED  BY <1>2, <1>3, <1>4, <1>5, <1>6, <2>1, <2>2 DEF MutantInv
<1>7. CASE f.code[i].op # "load"
  <2>1. g.code[Mutant(n)].op = candidate /\ g.code[Mutant(n)].args = f.code[i].args
    BY <1>1, <1>7, GrownValues
  <2>2. f.code[i].args = f.code[Clone(i)].args
    BY <1>1 DEF SiteInv
  <2>3. Clone(i) \notin {Switch(i), Phi(i)}
    BY DEF Clone, Switch, Phi
  <2>4. g.code[Clone(i)] = f.code[Clone(i)]
    BY <1>1, <1>4, <2>3
  <2> QED  BY <1>2, <1>3, <1>4, <1>5, <1>7, <2>1, <2>2, <2>4 DEF MutantInv
<1> QED  BY <1>6, <1>7

LEMMA GrownNames ==
  ASSUME program \in Programs, NEW f, NEW g, NEW S, NEW M, NEW R, NEW i, NEW n,
         NEW candidate, NEW m, Grows(f, g, S, M, R, i, n, candidate, m)
  PROVE  NamesInv(g, S, R)
<1>1. /\ NamesInv(f, S, M) /\ IsGrown(f, g, Names, M, i, n, candidate)
      /\ \A j \in S : j[1] = "orig"
  BY GrownIs
<1>5. DOMAIN R = DOMAIN M \cup {n}
  BY DEF Grows
<1>2. /\ DOMAIN g.code = DOMAIN f.code \cup {Mutant(n), MutantBr(n)}
      /\ \A y \in DOMAIN f.code : g.code[y].op = f.code[y].op
  BY <1>1, GrownHas
<1>3. MadeFor(S, R) = MadeFor(S, M) \cup {Mutant(n), MutantBr(n)}
  BY <1>5 DEF MadeFor
<1>4. \A j \in S : j \notin {Mutant(n), MutantBr(n)}
  BY <1>1 DEF Mutant, MutantBr
<1> QED  BY <1>1, <1>2, <1>3, <1>4 DEF NamesInv

LEMMA GrownUses ==
  ASSUME program \in Programs, NEW f, NEW g, NEW S, NEW M, NEW R, NEW i, NEW n,
         NEW candidate, NEW m, Grows(f, g, S, M, R, i, n, candidate, m)
  PROVE  UsesInv(g, S)
<1> SUFFICES ASSUME NEW x \in DOMAIN g.code PROVE Values(g, x) \cap S = {}
  BY DEF UsesInv
<1>1. /\ NamesInv(f, S, M) /\ IsGrown(f, g, Names, M, i, n, candidate)
      /\ (\A j \in S : j[1] = "orig") /\ i \in DOMAIN f.code
      /\ UsesInv(f, S)
  <2>1. UsesInv(f, S)
    BY DEF Grows, CanInject, ShapeInv
  <2> QED  BY <2>1, GrownIs
<1>2. /\ \A y \in DOMAIN f.code \ {Switch(i), Phi(i)} : g.code[y] = f.code[y]
      /\ DOMAIN g.code = DOMAIN f.code \cup {Mutant(n), MutantBr(n)}
      /\ {Switch(i), Phi(i)} \subseteq DOMAIN f.code
      /\ g.code[Switch(i)].args = f.code[Switch(i)].args
      /\ g.code[Switch(i)].in = f.code[Switch(i)].in
      /\ g.code[Phi(i)].args = f.code[Phi(i)].args
      /\ g.code[Phi(i)].in = f.code[Phi(i)].in \cup {<< Mutant(n), Mutant(n) >>}
  BY <1>1, GrownHas
<1>3. Mutant(n) \notin S
  BY <1>1 DEF Mutant
<1>4. CASE x \in DOMAIN f.code \ {Phi(i)}
  <2>1. Values(g, x) = Values(f, x)
    BY <1>2, <1>4 DEF Values
  <2> QED  BY <1>1, <1>4, <2>1 DEF UsesInv
<1>5. CASE x = Phi(i)
  <2> DEFINE p == << Mutant(n), Mutant(n) >>
  <2>1. p[1] = Mutant(n) /\ g.code[x].in = f.code[x].in \cup {p}
        /\ g.code[x].args = f.code[x].args
    BY <1>2, <1>5
  <2> HIDE DEF p
  <2>2. Values(g, x) = Values(f, x) \cup {Mutant(n)}
    BY <2>1 DEF Values
  <2> QED  BY <1>1, <1>2, <1>3, <1>5, <2>2 DEF UsesInv
<1>6. CASE x = Mutant(n)
  <2>1. Values(f, i) \cap S = {} /\ g.code[x].in = f.code[i].in
    BY <1>1, <1>6, GrownBlock DEF UsesInv
  <2>2. CASE f.code[i].op = "load"
    <3>1. g.code[x].args = << candidate >>
      BY <1>1, <1>6, <2>2, GrownValues
    <3>2. candidate \in DOMAIN f.code /\ f.code[candidate].op = "alloca"
      BY <2>2 DEF Grows, CanInject
    <3>3. candidate \notin S
      BY <1>1, <3>2, MutableOps DEF NamesInv
    <3>4. ToSet(<< candidate >>) = {candidate}
      BY DEF ToSet
    <3> QED  BY <2>1, <3>1, <3>3, <3>4 DEF Values
  <2>3. CASE f.code[i].op # "load"
    <3>1. g.code[x].args = f.code[i].args
      BY <1>1, <1>6, <2>3, GrownValues
    <3> QED  BY <2>1, <3>1 DEF Values
  <2> QED  BY <2>2, <2>3
<1>7. CASE x = MutantBr(n)
  <2>1. g.code[x].args = <<>> /\ g.code[x].in = {}
    BY <1>1, <1>7, GrownBlock
  <2> QED  BY <2>1 DEF Values, ToSet
<1> QED  BY <1>2, <1>4, <1>5, <1>6, <1>7

\* inject keeps the shape of the function and adds a mutant to it.
LEMMA InjectShape ==
  ASSUME program \in Programs, NEW f, NEW S, NEW M, NEW i, NEW candidate, NEW m,
         CanInject(f, S, M, i, candidate, m), \A k \in DOMAIN M : M[k].original \in S
  PROVE  LET g == Injected(f, i, Len(M) + 1, candidate) IN
         /\ ShapeInv(g, S, Append(M, m))
         /\ StartsWith(f, LoaderCall) => StartsWith(g, LoaderCall)
<1> DEFINE n == Len(M) + 1
           g == Injected(f, i, n, candidate)
           R == Append(M, m)
<1>1. IsGrown(f, g, Names, M, i, n, candidate)
  BY InjectGrows
<1>2. Grows(f, g, S, M, R, i, n, candidate, m)
  BY <1>1, MutationsAppended DEF Grows, CanInject, MayInject
<1> HIDE DEF n, g, R
<1>3. g.entry = f.entry /\ f.entry = program.function.entry
  BY Zenon, <1>1, <1>2 DEF IsGrown, IsInjected, Grows, CanInject, ShapeInv
<1>4. \A j \in S : SiteInv(g, R, j)
  BY <1>2, GrownKeepsSite, GrownMakesCase
<1>5. \A k \in DOMAIN R : MutantInv(g, R, k)
  BY <1>2, GrownKeepsMutant, GrownMakesMutant DEF Grows
<1>6. ShapeInv(g, S, R)
  BY <1>1, <1>2, <1>3, <1>4, <1>5, GrownVerified, GrownNames, GrownUses DEF ShapeInv
<1>7. StartsWith(f, LoaderCall) => StartsWith(g, LoaderCall)
  <2>1. /\ \A c \in DOMAIN f.layout : g.layout[c] = f.layout[c]
        /\ DOMAIN f.layout \subseteq DOMAIN g.layout
    BY <1>1, GrownHas
  <2> QED  BY <1>3, <2>1 DEF StartsWith
<1> QED  BY <1>6, <1>7 DEF n, g, R

-------------------------------------------------------------------------------
(* Erasing an original.                                                    *)

\* g is the verified function f without instruction x, which was at place k of
\* block b and is neither a jump nor a phi.
IsErased(f, g, N, x, b, k) ==
  /\ WellFormed(f, N) /\ Verified(f) /\ OnlyAt(f, x, b, k)
  /\ x \in DOMAIN f.code /\ f.code[x].op \notin Terminators /\ f.code[x].op # "phi"
  /\ WellFormed(g, N) /\ OnePlace(g) /\ g.entry = f.entry
  /\ DOMAIN g.layout = DOMAIN f.layout
  /\ g.layout[b] \in Seq(N) /\ Removed(f.layout[b], k, g.layout[b])
  /\ \A c \in DOMAIN f.layout : c # b => g.layout[c] = f.layout[c]
  /\ DOMAIN g.code = DOMAIN f.code \ {x}
  /\ \A y \in DOMAIN f.code \ {x} : g.code[y] = f.code[y]

\* Place h of s has moved to place l of t: what is before it was before it, and it
\* is last if it was last.
Shifted(s, t, h, l) ==
  /\ t[l] = s[h]
  /\ l = Len(t) <=> h = Len(s)
  /\ \A j \in 1 .. l - 1 : \E i \in 1 .. h - 1 : t[j] = s[i]

LEMMA RemovedShifts ==
  ASSUME NEW N, NEW s \in Seq(N), NEW t \in Seq(N), NEW k \in 1 .. Len(s) - 1,
         Removed(s, k, t)
  PROVE  /\ t # <<>> /\ t[Len(t)] = s[Len(s)]
         /\ \A l \in DOMAIN t : \E h \in DOMAIN s : Shifted(s, t, h, l)
         /\ k # 1 => t[1] = s[1]
<1>1. /\ Len(s) \in Nat /\ Len(t) \in Nat /\ k \in Nat \ {0} /\ k < Len(s)
      /\ DOMAIN s = 1 .. Len(s) /\ DOMAIN t = 1 .. Len(t) /\ Len(t) = Len(s) - 1
      /\ \A j \in 1 .. k - 1 : t[j] = s[j]
      /\ \A j \in k + 1 .. Len(s) : t[j - 1] = s[j]
      /\ t # <<>>
  BY DEF Removed
<1>2. t[Len(t)] = s[Len(s)]
  <2>1. Len(s) \in k + 1 .. Len(s) /\ Len(s) - 1 = Len(t)
    BY <1>1
  <2> QED  BY <1>1, <2>1
<1>3. k # 1 => t[1] = s[1]
  <2>1. k # 1 => 1 \in 1 .. k - 1
    BY <1>1
  <2> QED  BY <1>1, <2>1
<1>4. \A j \in k .. Len(t) : j + 1 \in DOMAIN s /\ t[j] = s[j + 1]
  <2> SUFFICES ASSUME NEW j \in k .. Len(t) PROVE j + 1 \in DOMAIN s /\ t[j] = s[j + 1]
    OBVIOUS
  <2>1. j + 1 \in k + 1 .. Len(s) /\ (j + 1) - 1 = j
    BY <1>1
  <2>2. t[(j + 1) - 1] = s[j + 1]
    BY <1>1, <2>1
  <2> QED  BY <1>1, <2>1, <2>2
<1>5. ASSUME NEW l \in DOMAIN t PROVE \E h \in DOMAIN s : Shifted(s, t, h, l)
  <2>1. CASE l < k
    <3>1. l \in DOMAIN s /\ t[l] = s[l] /\ l # Len(t) /\ l # Len(s)
      BY <1>1, <2>1
    <3>2. \A j \in 1 .. l - 1 : t[j] = s[j]
      BY <1>1, <2>1
    <3> QED  BY <3>1, <3>2 DEF Shifted
  <2>2. CASE k <= l
    <3> DEFINE h == l + 1
    <3>3. l \in k .. Len(t)
      BY <1>1, <2>2
    <3>4. h \in DOMAIN s /\ t[l] = s[h]
      BY <1>4, <3>3
    <3>1. h \in DOMAIN s /\ t[l] = s[h] /\ (l = Len(t) <=> h = Len(s))
      BY <1>1, <3>3, <3>4
    <3>2. ASSUME NEW j \in 1 .. l - 1 PROVE \E i \in 1 .. h - 1 : t[j] = s[i]
      <4>1. CASE j < k
        <5>1. j \in 1 .. k - 1 /\ j \in 1 .. h - 1
          BY <1>1, <4>1
        <5> QED  BY <1>1, <5>1
      <4>2. CASE k <= j
        <5>1. j \in k .. Len(t) /\ j + 1 \in 1 .. h - 1
          BY <1>1, <4>2
        <5> QED  BY <1>4, <5>1
      <4> QED  BY <1>1, <4>1, <4>2
    <3> HIDE DEF h
    <3> QED  BY <3>1, <3>2 DEF Shifted
  <2> QED  BY <1>1, <2>1, <2>2
<1> QED  BY <1>1, <1>2, <1>3, <1>5

\* The blocks keep their last instruction, and their first one if it is not x.
LEMMA ErasedBlocks ==
  ASSUME NEW f, NEW g, NEW N, NEW x, NEW b, NEW k, IsErased(f, g, N, x, b, k),
         NEW c \in DOMAIN f.layout
  PROVE  /\ g.layout[c] # <<>> /\ Final(g, c) = Final(f, c)
         /\ \A l \in DOMAIN g.layout[c] : \E h \in DOMAIN f.layout[c] :
              Shifted(f.layout[c], g.layout[c], h, l)
         /\ \A l \in DOMAIN g.layout[c] :
              g.code[g.layout[c][l]] = f.code[g.layout[c][l]]
         /\ f.layout[c][1] # x => g.layout[c][1] = f.layout[c][1]
<1>1. /\ WellFormed(f, N) /\ BlocksWellFormed(f) /\ OnePlace(f) /\ OnePlace(g)
      /\ DOMAIN g.layout = DOMAIN f.layout /\ DOMAIN g.code = DOMAIN f.code \ {x}
      /\ \A y \in DOMAIN f.code \ {x} : g.code[y] = f.code[y]
  BY DEF IsErased, Verified
<1> DEFINE s == f.layout[c]
           t == g.layout[c]
<1>2. /\ s \in Seq(N) /\ DOMAIN s = 1 .. Len(s) /\ Len(s) \in Nat \ {0}
      /\ \A l \in DOMAIN s : (f.code[s[l]].op \in Terminators) <=> (l = Len(s))
  BY <1>1, BlockIs
<1>3. \A l \in DOMAIN t : g.code[t[l]] = f.code[t[l]]
  BY <1>1 DEF OnePlace
<1>4. CASE c = b
  <2>1. /\ t \in Seq(N) /\ Removed(s, k, t) /\ k \in DOMAIN s /\ s[k] = x
        /\ f.code[x].op \notin Terminators
    BY <1>4 DEF IsErased, OnlyAt
  <2> HIDE DEF s, t
  <2>2. k \in 1 .. Len(s) - 1
    BY <1>2, <2>1
  <2>3. /\ t # <<>> /\ t[Len(t)] = s[Len(s)]
        /\ \A l \in DOMAIN t : \E h \in DOMAIN s : Shifted(s, t, h, l)
        /\ k # 1 => t[1] = s[1]
    BY <1>2, <2>1, <2>2, RemovedShifts
  <2> QED  BY <1>3, <2>1, <2>3 DEF s, t, Final
<1>5. CASE c # b
  <2>1. t = s
    BY <1>5 DEF IsErased
  <2> HIDE DEF s, t
  <2>2. t # <<>>
    BY <1>2, <2>1
  <2>3. \A l \in DOMAIN t : Shifted(s, t, l, l)
    BY <2>1 DEF Shifted
  <2> QED  BY <1>3, <2>1, <2>2, <2>3 DEF s, t, Final
<1> QED  BY <1>4, <1>5

LEMMA ErasedVerified ==
  ASSUME NEW f, NEW g, NEW N, NEW x, NEW b, NEW k, IsErased(f, g, N, x, b, k)
  PROVE  Verified(g)
<1>1. /\ WellFormed(f, N) /\ BlocksWellFormed(f) /\ OnePlace(f) /\ TargetsAreBlocks(f)
      /\ PhisMatchPredecessors(f) /\ WellFormed(g, N) /\ OnePlace(g)
      /\ DOMAIN g.layout = DOMAIN f.layout /\ DOMAIN g.code = DOMAIN f.code \ {x}
      /\ \A y \in DOMAIN f.code \ {x} : g.code[y] = f.code[y]
  BY DEF IsErased, Verified
<1>2. TargetsAreBlocks(g)
  BY <1>1 DEF TargetsAreBlocks
<1>3. ASSUME NEW c \in DOMAIN f.layout
      PROVE  LET t == g.layout[c] IN
             /\ t # <<>>
             /\ \A l \in DOMAIN t : (g.code[t[l]].op \in Terminators) <=> (l = Len(t))
             /\ \A l \in DOMAIN t : g.code[t[l]].op = "phi" =>
                  \A j \in 1 .. l - 1 : g.code[t[j]].op = "phi"
  <2> DEFINE s == f.layout[c]
             t == g.layout[c]
  <2>1. /\ t # <<>>
        /\ \A l \in DOMAIN t : \E h \in DOMAIN s : Shifted(s, t, h, l)
        /\ \A l \in DOMAIN t : g.code[t[l]] = f.code[t[l]]
    BY ErasedBlocks
  <2>2. /\ \A l \in DOMAIN s : (f.code[s[l]].op \in Terminators) <=> (l = Len(s))
        /\ \A l \in DOMAIN s : \A j \in 1 .. l - 1 :
             f.code[s[l]].op = "phi" => f.code[s[j]].op = "phi"
        /\ DOMAIN s = 1 .. Len(s) /\ Len(s) \in Nat
    BY <1>1, BlockIs
  <2>3. t \in Seq(N)
    BY <1>1 DEF WellFormed
  <2> HIDE DEF s, t
  <2>4. ASSUME NEW l \in DOMAIN t
        PROVE  (g.code[t[l]].op \in Terminators) <=> (l = Len(t))
    <3>1. PICK h \in DOMAIN s : Shifted(s, t, h, l)
      BY <2>1
    <3> QED  BY <2>1, <2>2, <3>1 DEF Shifted
  <2>5. ASSUME NEW l \in DOMAIN t, g.code[t[l]].op = "phi", NEW j \in 1 .. l - 1
        PROVE  g.code[t[j]].op = "phi"
    <3>1. PICK h \in DOMAIN s : Shifted(s, t, h, l)
      BY <2>1
    <3>2. PICK i \in 1 .. h - 1 : t[j] = s[i]
      BY <3>1 DEF Shifted
    <3>3. j \in DOMAIN t
      BY <2>3
    <3>4. f.code[s[h]].op = "phi"
      BY <2>1, <2>5, <3>1 DEF Shifted
    <3>5. f.code[s[i]].op = "phi"
      BY <2>2, <3>4
    <3> QED  BY <2>1, <3>2, <3>3, <3>5
  <2> QED  BY <2>1, <2>4, <2>5 DEF t
<1>4. BlocksWellFormed(g)
  BY <1>1, <1>3 DEF BlocksWellFormed, BlocksOf
<1>5. ASSUME NEW c \in DOMAIN f.layout PROVE Succs(g, c) = Succs(f, c)
  <2>1. Final(g, c) = Final(f, c)
    BY ErasedBlocks
  <2>2. Final(f, c) \in DOMAIN f.code /\ Succs(f, c) = ToSet(f.code[Final(f, c)].to)
    BY <1>1, BlockIs
  <2>3. Final(g, c) \in DOMAIN g.code /\ Succs(g, c) = ToSet(g.code[Final(g, c)].to)
    BY <1>1, <1>4, BlockIs
  <2> QED  BY <1>1, <2>1, <2>2, <2>3
<1>6. \A c \in DOMAIN f.layout : Preds(g, c) = Preds(f, c)
  BY <1>1, <1>5 DEF Preds, BlocksOf
<1>7. ASSUME NEW c \in DOMAIN f.layout, NEW l \in DOMAIN g.layout[c],
             g.code[g.layout[c][l]].op = "phi"
      PROVE  Fits(g, c, g.layout[c][l])
  <2> DEFINE y == g.layout[c][l]
  <2>1. PICK h \in DOMAIN f.layout[c] : Shifted(f.layout[c], g.layout[c], h, l)
    BY ErasedBlocks
  <2>2. y = f.layout[c][h] /\ g.code[y] = f.code[y]
    BY <2>1, ErasedBlocks DEF Shifted
  <2>3. Fits(f, c, f.layout[c][h])
    BY <1>1, <1>7, <2>2, PhisAre
  <2> HIDE DEF y
  <2>4. Fits(f, c, y)
    BY <2>2, <2>3
  <2>5. Fits(g, c, y)
    BY <1>6, <2>2, <2>4 DEF Fits
  <2> QED  BY <2>5 DEF y
<1>8. PhisMatchPredecessors(g)
  BY <1>1, <1>7, PhisAre
<1> QED  BY <1>1, <1>2, <1>4, <1>8 DEF Verified

\* x is the original of one of the sites of f.
CanErase(f, S, M, x) ==
  /\ WellFormed(f, Names) /\ ShapeInv(f, S, M) /\ S \subseteq Origs
  /\ x \in S /\ x \in DOMAIN f.code

LEMMA EraseErases ==
  ASSUME program \in Programs, NEW f, NEW S, NEW M, NEW x, CanErase(f, S, M, x)
  PROVE  \E b, k : IsErased(f, Erase(f, x), Names, x, b, k)
<1> DEFINE g == Erase(f, x)
<1>1. /\ WellFormed(f, Names) /\ Verified(f) /\ OnePlace(f) /\ x \in DOMAIN f.code
      /\ x \in S /\ NamesInv(f, S, M)
  BY DEF CanErase, ShapeInv, Verified
<1>2. f.code[x].op \notin Terminators /\ f.code[x].op # "phi"
  BY <1>1, MutableOps DEF NamesInv
<1>3. PICK b, k : OnlyAt(f, x, b, k)
  BY <1>1, PlaceOf
<1>4. WellFormed(g, Names)
  BY <1>1, EraseIs
<1>5. /\ g.entry = f.entry
      /\ DOMAIN g.layout = DOMAIN f.layout
      /\ g.layout[b] \in Seq(Names) /\ Removed(f.layout[b], k, g.layout[b])
      /\ \A c \in DOMAIN f.layout : c # b => g.layout[c] = f.layout[c]
      /\ DOMAIN g.code = DOMAIN f.code \ {x}
      /\ \A y \in DOMAIN f.code \ {x} : g.code[y] = f.code[y]
      /\ OnePlace(g)
  BY <1>1, <1>3, EraseAt
<1> HIDE DEF g
<1>6. IsErased(f, g, Names, x, b, k)
  BY <1>1, <1>2, <1>3, <1>4, <1>5 DEF IsErased
<1> QED  BY <1>6 DEF g

\* mutate() erases the original, of whose value there is no use, and keeps the
\* shape of the function.
LEMMA EraseShape ==
  ASSUME program \in Programs, NEW f, NEW S, NEW M, NEW x, CanErase(f, S, M, x),
         \A n \in DOMAIN M : M[n].original \in S
  PROVE  LET g == Erase(f, x) IN
         /\ ShapeInv(g, S, M)
         /\ StartsWith(f, LoaderCall) => StartsWith(g, LoaderCall)
<1> DEFINE g == Erase(f, x)
<1>1. PICK b, k : IsErased(f, g, Names, x, b, k)
  BY EraseErases
<1> HIDE DEF g
<1>2. /\ ShapeInv(f, S, M) /\ x \in S /\ x \in DOMAIN f.code
      /\ NamesInv(f, S, M) /\ UsesInv(f, S) /\ Verified(f)
      /\ f.entry = program.function.entry
      /\ \A j \in S : SiteInv(f, M, j)
      /\ \A n \in DOMAIN M : MutantInv(f, M, n)
  BY DEF CanErase, ShapeInv
<1>3. x[1] = "orig" /\ S \subseteq Origs
  BY ProgramIs DEF CanErase
<1>4. /\ DOMAIN g.layout = DOMAIN f.layout /\ g.entry = f.entry
      /\ \A c \in DOMAIN f.layout : c # b => g.layout[c] = f.layout[c]
      /\ DOMAIN g.code = DOMAIN f.code \ {x}
      /\ \A y \in DOMAIN f.code \ {x} : g.code[y] = f.code[y]
      /\ b \in DOMAIN f.layout /\ k \in DOMAIN f.layout[b] /\ f.layout[b][k] = x
  BY <1>1 DEF IsErased, OnlyAt
<1>5. /\ \A j \in S : {Clone(j), CloneBr(j), GlobalLoad(j), Switch(j), Phi(j)}
                         \subseteq DOMAIN f.code
      /\ \A n \in DOMAIN M : {Mutant(n), MutantBr(n)} \subseteq DOMAIN f.code
  BY <1>2, SiteHas
<1>6. /\ \A j : x \notin {Clone(j), CloneBr(j), GlobalLoad(j), Switch(j), Phi(j), SplitBr(j)}
      /\ \A n : x \notin {Mutant(n), MutantBr(n)}
  BY <1>3 DEF Clone, CloneBr, GlobalLoad, Switch, Phi, SplitBr, Mutant, MutantBr
<1>7. \A p, q : x \notin {p, q} /\ f.layout[b] = << p, q >> => FALSE
  <2> SUFFICES ASSUME NEW p, NEW q, x \notin {p, q}, f.layout[b] = << p, q >> PROVE FALSE
    OBVIOUS
  <2> DEFINE s == f.layout[b]
  <2>1. s = << p, q >> /\ k \in DOMAIN s /\ s[k] = x
    BY <1>4
  <2> HIDE DEF s
  <2>2. s[k] \in {p, q}
    BY <2>1
  <2> QED  BY <2>1, <2>2
<1>8. NamesInv(g, S, M)
  <2>1. x \notin MadeFor(S, M)
    <3>1. \A j : x \notin Created(j)
      BY <1>6 DEF Created
    <3> QED  BY <1>6, <3>1 DEF MadeFor
  <2> QED  BY <1>2, <1>4, <2>1 DEF NamesInv
<1>9. UsesInv(g, S)
  BY <1>2, <1>4 DEF UsesInv, Values
<1>10. ASSUME NEW j \in S PROVE SiteInv(g, M, j)
  <2>1. SiteInv(f, M, j)
    BY <1>2
  <2>2. /\ g.code[Clone(j)] = f.code[Clone(j)] /\ g.code[CloneBr(j)] = f.code[CloneBr(j)]
        /\ g.code[Switch(j)] = f.code[Switch(j)] /\ g.code[Phi(j)] = f.code[Phi(j)]
    BY <1>4, <1>5, <1>6
  <2>3. g.layout[Clone(j)] = << Clone(j), CloneBr(j) >>
    <3>1. Clone(j) # b
      BY <1>6, <1>7, <2>1 DEF SiteInv
    <3> QED  BY <1>4, <2>1, <3>1 DEF SiteInv
  <2>4. /\ Rest(j) \in DOMAIN f.layout /\ f.layout[Rest(j)][1] = Phi(j)
        /\ \A l \in 2 .. Len(f.layout[Rest(j)]) : f.code[f.layout[Rest(j)][l]].op # "phi"
    BY <2>1 DEF SiteInv
  <2>5. g.layout[Rest(j)] # <<>> /\ g.layout[Rest(j)][1] = Phi(j)
    BY <1>1, <1>6, <2>4, ErasedBlocks
  <2>6. \A l \in 2 .. Len(g.layout[Rest(j)]) : g.code[g.layout[Rest(j)][l]].op # "phi"
    <3> DEFINE s == f.layout[Rest(j)]
               t == g.layout[Rest(j)]
    <3> SUFFICES ASSUME NEW l \in 2 .. Len(t) PROVE g.code[t[l]].op # "phi"
      OBVIOUS
    <3>1. t \in Seq(Names) /\ s \in Seq(Names)
      BY <1>1, <1>4, <2>4 DEF IsErased, WellFormed
    <3>2. /\ \A m \in DOMAIN t : \E h \in DOMAIN s : Shifted(s, t, h, m)
          /\ \A m \in DOMAIN t : g.code[t[m]] = f.code[t[m]]
      BY <1>1, <2>4, ErasedBlocks
    <3>3. \A m \in 2 .. Len(s) : f.code[s[m]].op # "phi"
      BY <2>4
    <3> HIDE DEF s, t
    <3>4. l \in DOMAIN t /\ 1 \in 1 .. l - 1
      BY <3>1
    <3>5. PICK h \in DOMAIN s : Shifted(s, t, h, l)
      BY <3>2, <3>4
    <3>6. \E i \in 1 .. h - 1 : t[1] = s[i]
      BY <3>4, <3>5 DEF Shifted
    <3>7. h \in 2 .. Len(s)
      BY <3>1, <3>6
    <3> QED  BY <3>2, <3>3, <3>4, <3>5, <3>7 DEF Shifted
  <2>7. j \in DOMAIN g.code => j \in DOMAIN f.code /\ g.code[j] = f.code[j]
    BY <1>4
  <2> QED  BY <1>4, <2>1, <2>2, <2>3, <2>5, <2>6, <2>7 DEF SiteInv
<1>11. ASSUME NEW n \in DOMAIN M PROVE MutantInv(g, M, n)
  <2> DEFINE j == M[n].original
             v == M[n].variant
  <2>1. /\ MutantInv(f, M, n) /\ j \in S /\ Mutant(n) # b
    BY <1>2, <1>6, <1>7 DEF MutantInv
  <2>2. /\ g.layout[Mutant(n)] = f.layout[Mutant(n)]
        /\ Mutant(n) \in DOMAIN f.layout /\ Mutant(n) \in DOMAIN g.layout
    BY <1>4, <2>1 DEF MutantInv
  <2>3. /\ g.code[Mutant(n)] = f.code[Mutant(n)] /\ g.code[MutantBr(n)] = f.code[MutantBr(n)]
        /\ g.code[Clone(j)] = f.code[Clone(j)]
    BY <1>4, <1>5, <1>6, <2>1
  <2>4. f.code[x].op # "alloca"
    BY <1>2, MutableOps DEF NamesInv
  <2> HIDE DEF v, j
  <2>5. v \in DOMAIN f.code /\ f.code[v].op = "alloca" =>
          v \in DOMAIN g.code /\ g.code[v].op = "alloca"
    BY <1>4, <2>4
  <2> QED  BY <2>1, <2>2, <2>3, <2>5 DEF MutantInv, v, j
<1>12. ShapeInv(g, S, M)
  BY <1>1, <1>2, <1>4, <1>8, <1>9, <1>10, <1>11, ErasedVerified DEF ShapeInv
<1>13. \A c \in DOMAIN f.layout : f.layout[c][1] # x =>
         g.layout[c] # <<>> /\ g.layout[c][1] = f.layout[c][1]
  BY <1>1, ErasedBlocks
<1>14. StartsWith(f, LoaderCall) => StartsWith(g, LoaderCall)
  BY <1>3, <1>4, <1>13 DEF StartsWith, LoaderCall
<1> QED  BY <1>12, <1>14 DEF g

-------------------------------------------------------------------------------
(* The call of the loader.                                                 *)

\* g is the verified function f with a call x before the first instruction of
\* block e, which is not a phi.
IsCalling(f, g, N, e, x) ==
  /\ WellFormed(f, N) /\ Verified(f) /\ e \in DOMAIN f.layout /\ x \notin DOMAIN f.code
  /\ f.code[f.layout[e][1]].op # "phi"
  /\ WellFormed(g, N) /\ OnePlace(g) /\ g.entry = f.entry
  /\ DOMAIN g.layout = DOMAIN f.layout
  /\ g.layout[e] \in Seq(N) /\ Inserted(f.layout[e], 1, x, g.layout[e])
  /\ \A c \in DOMAIN f.layout : c # e => g.layout[c] = f.layout[c]
  /\ DOMAIN g.code = DOMAIN f.code \cup {x}
  /\ \A y \in DOMAIN f.code : g.code[y] = f.code[y]
  /\ g.code[x].op = "call" /\ g.code[x].to = <<>>

\* The block is the call and what it was before.
LEMMA CallingHead ==
  ASSUME NEW f, NEW g, NEW N, NEW e, NEW x, IsCalling(f, g, N, e, x)
  PROVE  LET s == f.layout[e]
             t == g.layout[e] IN
         /\ Len(s) \in Nat \ {0} /\ DOMAIN s = 1 .. Len(s)
         /\ Len(t) = Len(s) + 1 /\ DOMAIN t = 1 .. Len(t) /\ t[1] = x
         /\ \A l \in DOMAIN t : l # 1 => l - 1 \in DOMAIN s /\ t[l] = s[l - 1]
         /\ \A l \in DOMAIN s : f.code[s[l]].op # "phi"
<1> DEFINE s == f.layout[e]
           t == g.layout[e]
<1>1. /\ t \in Seq(N) /\ Inserted(s, 1, x, t) /\ WellFormed(f, N) /\ BlocksWellFormed(f)
      /\ OnePlace(f) /\ e \in DOMAIN f.layout /\ f.code[s[1]].op # "phi"
  BY DEF IsCalling, Verified
<1>2. /\ s \in Seq(N) /\ Len(s) \in Nat \ {0} /\ DOMAIN s = 1 .. Len(s)
      /\ \A l \in DOMAIN s : \A j \in 1 .. l - 1 :
           f.code[s[l]].op = "phi" => f.code[s[j]].op = "phi"
  BY <1>1, BlockIs
<1> HIDE DEF s, t
<1>3. /\ Len(t) = Len(s) + 1 /\ t[1] = x
      /\ \A j \in 1 .. Len(s) : t[j + 1] = s[j]
  BY <1>1 DEF Inserted
<1>4. ASSUME NEW l \in DOMAIN t, l # 1 PROVE l - 1 \in DOMAIN s /\ t[l] = s[l - 1]
  <2>1. l - 1 \in 1 .. Len(s) /\ (l - 1) + 1 = l
    BY <1>1, <1>2, <1>3, <1>4
  <2>2. t[(l - 1) + 1] = s[l - 1]
    BY <1>3, <2>1
  <2> QED  BY <1>2, <2>1, <2>2
<1>5. ASSUME NEW l \in DOMAIN s PROVE f.code[s[l]].op # "phi"
  <2>1. l # 1 => 1 \in 1 .. l - 1
    BY <1>2
  <2> QED  BY <1>1, <1>2, <2>1
<1>6. DOMAIN t = 1 .. Len(t)
  BY <1>1
<1> QED  BY <1>2, <1>3, <1>4, <1>5, <1>6 DEF s, t

LEMMA CallingVerified ==
  ASSUME NEW f, NEW g, NEW N, NEW e, NEW x, IsCalling(f, g, N, e, x)
  PROVE  Verified(g)
<1>1. /\ WellFormed(f, N) /\ BlocksWellFormed(f) /\ OnePlace(f) /\ TargetsAreBlocks(f)
      /\ PhisMatchPredecessors(f) /\ WellFormed(g, N) /\ OnePlace(g)
      /\ e \in DOMAIN f.layout /\ x \notin DOMAIN f.code
      /\ DOMAIN g.layout = DOMAIN f.layout /\ DOMAIN g.code = DOMAIN f.code \cup {x}
      /\ \A c \in DOMAIN f.layout : c # e => g.layout[c] = f.layout[c]
      /\ \A y \in DOMAIN f.code : g.code[y] = f.code[y]
      /\ g.code[x].op = "call" /\ g.code[x].to = <<>>
  BY DEF IsCalling, Verified
<1>2. TargetsAreBlocks(g)
  <2>1. ToSet(g.code[x].to) = {}
    BY <1>1 DEF ToSet
  <2> QED  BY <1>1, <2>1 DEF TargetsAreBlocks
<1>3. \A c \in DOMAIN f.layout : \A l \in DOMAIN f.layout[c] :
        g.code[f.layout[c][l]] = f.code[f.layout[c][l]]
  BY <1>1 DEF OnePlace
<1>4. ASSUME NEW c \in DOMAIN f.layout
      PROVE  LET t == g.layout[c] IN
             /\ t # <<>> /\ Final(g, c) = Final(f, c)
             /\ \A l \in DOMAIN t : (g.code[t[l]].op \in Terminators) <=> (l = Len(t))
             /\ \A l \in DOMAIN t : g.code[t[l]].op = "phi" =>
                  \A j \in 1 .. l - 1 : g.code[t[j]].op = "phi"
             /\ \A l \in DOMAIN t : g.code[t[l]].op = "phi" =>
                  \E h \in DOMAIN f.layout[c] : t[l] = f.layout[c][h]
  <2> DEFINE s == f.layout[c]
             t == g.layout[c]
  <2>1. /\ DOMAIN s = 1 .. Len(s) /\ Len(s) \in Nat \ {0}
        /\ \A l \in DOMAIN s : (f.code[s[l]].op \in Terminators) <=> (l = Len(s))
        /\ \A l \in DOMAIN s : \A j \in 1 .. l - 1 :
             f.code[s[l]].op = "phi" => f.code[s[j]].op = "phi"
        /\ Final(f, c) = s[Len(s)]
    BY <1>1, BlockIs DEF Final
  <2>2. \A l \in DOMAIN s : g.code[s[l]] = f.code[s[l]]
    BY <1>3
  <2>3. Final(g, c) = t[Len(t)]
    BY DEF Final
  <2>4. CASE c = e
    <3>1. /\ Len(t) = Len(s) + 1 /\ DOMAIN t = 1 .. Len(t) /\ t[1] = x
          /\ \A l \in DOMAIN t : l # 1 => l - 1 \in DOMAIN s /\ t[l] = s[l - 1]
          /\ \A l \in DOMAIN s : f.code[s[l]].op # "phi"
      BY <2>4, CallingHead
    <3> HIDE DEF s, t
    <3>2. t # <<>> /\ Len(t) # 1 /\ Len(t) \in DOMAIN t /\ t[Len(t)] = s[Len(s)]
      <4>1. Len(t) \in DOMAIN t /\ Len(t) # 1 /\ Len(t) - 1 = Len(s)
        BY <2>1, <3>1
      <4>2. t[Len(t)] = s[Len(t) - 1]
        BY <3>1, <4>1
      <4> QED  BY <3>1, <4>1, <4>2
    <3>3. ASSUME NEW l \in DOMAIN t
          PROVE  /\ (g.code[t[l]].op \in Terminators) <=> (l = Len(t))
                 /\ g.code[t[l]].op # "phi"
      <4>1. CASE l = 1
        BY <1>1, <3>1, <3>2, <4>1 DEF Terminators
      <4>2. CASE l # 1
        <5> DEFINE h == l - 1
        <5>1. h \in DOMAIN s /\ t[l] = s[h] /\ (h = Len(s) <=> l = Len(t))
          BY <2>1, <3>1, <4>2
        <5> HIDE DEF h
        <5> QED  BY <2>1, <2>2, <3>1, <5>1
      <4> QED  BY <4>1, <4>2
    <3> QED  BY <2>1, <2>3, <3>2, <3>3 DEF s, t
  <2>5. CASE c # e
    <3>1. t = s
      BY <1>1, <2>5
    <3> HIDE DEF s, t
    <3>2. t # <<>>
      BY <2>1, <3>1
    <3>3. ASSUME NEW l \in DOMAIN t, g.code[t[l]].op = "phi", NEW j \in 1 .. l - 1
          PROVE  g.code[t[j]].op = "phi"
      <4>1. j \in DOMAIN s
        BY <2>1, <3>1
      <4> QED  BY <2>1, <2>2, <3>1, <3>3, <4>1
    <3> QED  BY <2>1, <2>2, <2>3, <3>1, <3>2, <3>3 DEF s, t
  <2> QED  BY <2>4, <2>5
<1>5. BlocksWellFormed(g)
  BY <1>1, <1>4 DEF BlocksWellFormed, BlocksOf
<1>6. ASSUME NEW c \in DOMAIN f.layout PROVE Succs(g, c) = Succs(f, c)
  <2>1. Final(g, c) = Final(f, c)
    BY <1>4
  <2>2. Final(f, c) \in DOMAIN f.code /\ Succs(f, c) = ToSet(f.code[Final(f, c)].to)
    BY <1>1, BlockIs
  <2>3. Succs(g, c) = ToSet(g.code[Final(g, c)].to)
    BY <1>1, <1>5, BlockIs
  <2> QED  BY <1>1, <2>1, <2>2, <2>3
<1>7. \A c \in DOMAIN f.layout : Preds(g, c) = Preds(f, c)
  BY <1>1, <1>6 DEF Preds, BlocksOf
<1>8. ASSUME NEW c \in DOMAIN f.layout, NEW l \in DOMAIN g.layout[c],
             g.code[g.layout[c][l]].op = "phi"
      PROVE  Fits(g, c, g.layout[c][l])
  <2> DEFINE y == g.layout[c][l]
  <2>1. PICK h \in DOMAIN f.layout[c] : y = f.layout[c][h]
    BY <1>4, <1>8
  <2>2. g.code[y] = f.code[y]
    BY <1>3, <2>1
  <2>3. Fits(f, c, f.layout[c][h])
    BY <1>1, <1>8, <2>1, <2>2, PhisAre
  <2> HIDE DEF y
  <2>4. Fits(f, c, y)
    BY <2>1, <2>3
  <2>5. Fits(g, c, y)
    BY <1>7, <2>2, <2>4 DEF Fits
  <2> QED  BY <2>5 DEF y
<1>9. PhisMatchPredecessors(g)
  BY <1>1, <1>8, PhisAre
<1> QED  BY <1>1, <1>2, <1>5, <1>9 DEF Verified

\* The function as it is given has the shape.
LEMMA ProgramShape ==
  ASSUME program \in Programs
  PROVE  ShapeInv(program.function, {}, <<>>)
<1>1. Verified(program.function)
  BY ProgramsAssumption DEF IsProgram
<1>2. NamesInv(program.function, {}, <<>>)
  <2>1. MadeFor({}, <<>>) = {}
    BY DEF MadeFor
  <2> QED  BY <2>1 DEF NamesInv, Origs
<1> QED  BY <1>1, <1>2 DEF ShapeInv, UsesInv

\* What prepare() makes of main.
Called(f) == InsertBefore(f, FirstNonPHI(f, f.entry), LoaderCall,
                          Ins("call", "void", <<LoaderFunction>>))

LEMMA CallCalls ==
  ASSUME program \in Programs
  PROVE  LET f == program.function
         IN  IsCalling(f, Called(f), Names, f.entry, LoaderCall)
<1> DEFINE f == program.function
           e == f.entry
           s == f.layout[e]
           i == s[1]
           call == Ins("call", "void", <<LoaderFunction>>)
           g == InsertBefore(f, i, LoaderCall, call)
<1>1. /\ WellFormed(f, Origs) /\ Verified(f) /\ OnePlace(f) /\ e \in DOMAIN f.layout
      /\ s # <<>> /\ f.code[i].op # "phi" /\ DOMAIN f.code = Origs
      /\ \A x \in Origs : x[1] = "orig"
  BY Zenon, ProgramsAssumption, ProgramIs DEF IsProgram, Verified, Origs
<1>2. WellFormed(f, Names) /\ LoaderCall \in Names /\ LoaderCall \notin DOMAIN f.code
  BY <1>1, NamesAre, WellFormedIn DEF LoaderCall
<1>3. s \in Seq(Names) /\ 1 \in DOMAIN s /\ DOMAIN s = 1 .. Len(s)
  <2>1. s \in Seq(Names)
    BY <1>1, <1>2 DEF WellFormed
  <2> HIDE DEF s
  <2> QED  BY <1>1, <2>1
<1>4. OnlyAt(f, i, e, 1) /\ i \in DOMAIN f.code
  BY <1>1, <1>3, PlaceIs DEF OnePlace
<1>5. FirstNonPHI(f, e) = i
  <2> DEFINE P(k) == /\ f.code[s[k]].op # "phi"
                     /\ \A j \in 1 .. k - 1 : f.code[s[j]].op = "phi"
  <2>1. P(1) /\ \A k \in DOMAIN s : P(k) => k = 1
    <3> HIDE DEF s, e
    <3>1. \A k \in DOMAIN s : k # 1 => 1 \in 1 .. k - 1
      BY <1>3
    <3>2. P(1)
      BY <1>1
    <3>3. ASSUME NEW k \in DOMAIN s, k # 1 PROVE ~ P(k)
      BY <1>1, <3>1, <3>3
    <3> QED  BY <3>2, <3>3
  <2> HIDE DEF P
  <2>2. (CHOOSE k \in DOMAIN s : P(k)) = 1
    BY <1>3, <2>1
  <2> QED  BY Zenon, <2>2 DEF FirstNonPHI, P
<1>6. IsIns(call) /\ call.op = "call" /\ call.to = <<>>
  BY InsIs, SingletonIs
<1>7. /\ WellFormed(g, Names)
      /\ DOMAIN g.code = DOMAIN f.code \cup {LoaderCall} /\ g.code[LoaderCall] = call
      /\ \A y \in DOMAIN f.code \ {LoaderCall} : g.code[y] = f.code[y]
  <2> HIDE DEF call, f, i
  <2> QED  BY <1>2, <1>4, <1>6, InsertBeforeIs
<1>8. /\ g.entry = f.entry /\ DOMAIN g.layout = DOMAIN f.layout
      /\ g.layout[e] \in Seq(Names) /\ Inserted(s, 1, LoaderCall, g.layout[e])
      /\ \A c \in DOMAIN f.layout : c # e => g.layout[c] = f.layout[c]
      /\ OnePlace(g)
  <2> HIDE DEF call, i, e
  <2> QED  BY <1>1, <1>2, <1>4, InsertBeforeAt
<1> HIDE DEF g, call
<1>9. IsCalling(f, g, Names, e, LoaderCall)
  BY <1>1, <1>2, <1>6, <1>7, <1>8 DEF IsCalling
<1> HIDE DEF i
<1>10. g = Called(f)
  BY <1>5 DEF g, call, Called
<1> QED  BY <1>9, <1>10

\* The call that prepare() puts in front of main keeps it.
LEMMA CallShape ==
  ASSUME program \in Programs
  PROVE  LET g == Called(program.function) IN
         /\ ShapeInv(g, {}, <<>>)
         /\ StartsWith(g, LoaderCall)
<1> DEFINE f == program.function
           e == f.entry
           s == f.layout[e]
           g == Called(f)
<1>1. IsCalling(f, g, Names, e, LoaderCall)
  BY CallCalls
<1> HIDE DEF g
<1>2. /\ g.entry = f.entry /\ DOMAIN g.layout = DOMAIN f.layout /\ e \in DOMAIN f.layout
      /\ DOMAIN g.code = DOMAIN f.code \cup {LoaderCall} /\ DOMAIN f.code = Origs
      /\ \A y \in DOMAIN f.code : g.code[y] = f.code[y]
      /\ LoaderCall \notin DOMAIN f.code
  BY <1>1 DEF IsCalling, Origs
<1>3. NamesInv(g, {}, <<>>)
  <2>1. MadeFor({}, <<>>) = {}
    BY DEF MadeFor
  <2> QED  BY <1>2, <2>1 DEF NamesInv
<1>4. ShapeInv(g, {}, <<>>)
  BY <1>1, <1>2, <1>3, CallingVerified DEF ShapeInv, UsesInv
<1>5. g.layout[e] # <<>> /\ g.layout[e][1] = LoaderCall
  <2> DEFINE t == g.layout[e]
  <2>1. t[1] = LoaderCall /\ Len(t) = Len(s) + 1 /\ Len(s) \in Nat
    <3> HIDE DEF e
    <3> QED  BY <1>1, CallingHead
  <2> HIDE DEF t, s
  <2>2. t # <<>>
    BY <2>1
  <2> QED  BY <2>1, <2>2 DEF t
<1>6. StartsWith(g, LoaderCall)
  BY <1>2, <1>5 DEF e, StartsWith
<1> QED  BY <1>4, <1>6 DEF g

-------------------------------------------------------------------------------
(* Every step of run() keeps the shape.                                    *)

FlowInv == ShapeInv(ir, Sites, mutations) /\ LoaderInv

LEMMA ShapeNext ==
  ASSUME program' = program, ShapeInv(ir', Sites', mutations')
  PROVE  ShapeInv(ir, Sites, mutations)'
BY DEF ShapeInv, NamesInv, Origs, MadeFor, UsesInv, SiteInv, MutantInv, MutationsOf

LEMMA LoaderNext ==
  ASSUME LoaderInv, program' = program, Sites' = Sites, loader' = loader,
         phase' # "construct" /\ program.name = "main" => StartsWith(ir', LoaderCall)
  PROVE  LoaderInv'
BY DEF LoaderInv, StartsWith

LEMMA FlowUnmoved ==
  ASSUME FlowInv, UNCHANGED << program, ir, loader, mutations, maps >>,
         phase' = "construct" <=> phase = "construct"
  PROVE  FlowInv'
<1>1. Sites' = Sites
  BY DEF Sites, maps
<1>2. LoaderInv'
  <2>1. phase' # "construct" /\ program.name = "main" => StartsWith(ir', LoaderCall)
    BY DEF FlowInv, LoaderInv
  <2> QED  BY <1>1, <2>1, LoaderNext DEF FlowInv
<1>3. ShapeInv(ir', Sites', mutations')
  BY <1>1 DEF FlowInv
<1> QED  BY <1>2, <1>3, ShapeNext DEF FlowInv

LEMMA InitFlow == Init => FlowInv
<1> SUFFICES ASSUME Init PROVE FlowInv
  OBVIOUS
<1>1. /\ program \in Programs /\ ir = program.function /\ loader = <<>>
      /\ Sites = {} /\ mutations = <<>> /\ phase = "construct"
  BY DEF Init, EngineInit, Sites
<1>2. ShapeInv(ir, Sites, mutations)
  BY <1>1, ProgramShape
<1>3. IsFiniteSet({}) /\ Cardinality({}) = 0
  BY FS_EmptySet
<1>4. ToSet(<<>>) = {}
  BY DEF ToSet
<1>5. LoaderInv
  BY <1>1, <1>3, <1>4 DEF LoaderInv, OneForEach
<1> QED  BY <1>2, <1>5 DEF FlowInv

\* Before prepare() there is no site and no mutation.
LEMMA NothingYet ==
  ASSUME IInv, phase = "construct"
  PROVE  ir = program.function /\ Sites = {} /\ mutations = <<>>
<1>1. ir = program.function
  BY DEF IInv, ProgramInv
<1>2. Sites = {}
  <2> SUFFICES ASSUME NEW i \in Sites PROVE FALSE
    OBVIOUS
  <2>1. Switch(i) \in Origs
    BY <1>1 DEF IInv, FunctionInv, Origs
  <2> QED  BY <2>1, ProgramIs DEF IInv, ProgramInv, Switch
<1>3. DOMAIN mutations = {}
  BY <1>2 DEF IInv, MutationsInv
<1>4. \A s \in Seq(MutationRecords) : DOMAIN s = {} => s = <<>>
  OBVIOUS
<1>5. mutations = <<>>
  BY <1>3, <1>4 DEF IInv, MutationsInv
<1> QED  BY <1>1, <1>2, <1>5

LEMMA ConstructFlow == IInv /\ FlowInv /\ Construct => FlowInv'
<1> SUFFICES ASSUME IInv, FlowInv, Construct PROVE FlowInv'
  OBVIOUS
<1> DEFINE f == program.function
           g == Called(f)
<1>1. /\ program \in Programs /\ program' = program /\ loader' = loader
      /\ mutations' = mutations /\ Sites' = Sites
      /\ ir = f /\ Sites = {} /\ mutations = <<>>
      /\ ir' = IF program.name = "main" THEN g ELSE f
  BY NothingYet DEF IInv, ProgramInv, Construct, prepare, Sites, maps, Called
<1> HIDE DEF g
<1>2. /\ ShapeInv(f, {}, <<>>)
      /\ ShapeInv(g, {}, <<>>) /\ StartsWith(g, LoaderCall)
  BY <1>1, ProgramShape, CallShape DEF g
<1>3. ShapeInv(ir', Sites', mutations')
  BY <1>1, <1>2
<1>4. LoaderInv'
  BY <1>1, <1>2, LoaderNext DEF FlowInv
<1> QED  BY <1>1, <1>3, <1>4, ShapeNext DEF FlowInv

LEMMA EndFlow == IInv /\ FlowInv /\ End => FlowInv'
<1> SUFFICES ASSUME IInv, FlowInv, End PROVE FlowInv'
  OBVIOUS
<1>1. /\ program \in Programs /\ program' = program /\ loader' = loader
      /\ mutations' = mutations /\ Sites' = Sites /\ phase' = phase
      /\ ir' = IF hasBeenMutated(current) THEN Erase(ir, current) ELSE ir
      /\ current # None
  BY DEF IInv, ProgramInv, End, EndMutate, Sites, maps
<1>2. CASE ~ hasBeenMutated(current)
  <2>1. UNCHANGED << program, ir, loader, mutations, maps >>
    BY <1>1, <1>2 DEF End, EndMutate
  <2> QED  BY <1>1, <2>1, FlowUnmoved
<1>3. CASE hasBeenMutated(current)
  <2> DEFINE g == Erase(ir, current)
  <2>1. /\ CanErase(ir, Sites, mutations, current)
        /\ \A n \in DOMAIN mutations : mutations[n].original \in Sites
    <3>1. current \in Sites /\ current \in DOMAIN ir.code
      BY <1>1, <1>3 DEF hasBeenMutated, Sites, IInv, VisitInv
    <3>2. WellFormed(ir, Names) /\ ShapeInv(ir, Sites, mutations)
      BY DEF IInv, FunctionInv, FlowInv
    <3>3. Sites \subseteq Origs
      BY <1>1, ProgramIs DEF IInv, MapsInv
    <3> QED  BY <3>1, <3>2, <3>3 DEF CanErase, IInv, MutationsInv
  <2>2. ShapeInv(g, Sites, mutations) /\ (StartsWith(ir, LoaderCall) => StartsWith(g, LoaderCall))
    BY <1>1, <2>1, EraseShape
  <2>3. ir' = g
    BY <1>1, <1>3
  <2> HIDE DEF g
  <2>4. LoaderInv'
    BY <1>1, <2>2, <2>3, LoaderNext DEF FlowInv, LoaderInv
  <2>5. ShapeInv(ir', Sites', mutations')
    BY <1>1, <2>2, <2>3
  <2> QED  BY <1>1, <2>4, <2>5, ShapeNext DEF FlowInv
<1> QED  BY <1>2, <1>3

\* The loader gets a check when it gets a site.
LEMMA LoaderGrows ==
  ASSUME NEW S, NEW i, i \notin S, NEW id, NEW s, OneForEach(s, id, S)
  PROVE  OneForEach(<< id[i] >> \o s, id, S \cup {i})
<1> DEFINE a == << id[i] >>
           B == {id[j] : j \in S \cup {i}}
           t == a \o s
<1>1. IsFiniteSet(S \cup {i}) /\ Cardinality(S \cup {i}) = Cardinality(S) + 1
  BY FS_AddElement DEF OneForEach
<1>2. IsList(a) /\ ToSet(a) = {id[i]} /\ Len(a) = 1
  BY DEF IsList, ToSet
<1>3. IsList(s) /\ ToSet(s) = {id[j] : j \in S} /\ Len(s) = Cardinality(S)
  BY DEF IsList, OneForEach
<1>4. B = {id[i]} \cup {id[j] : j \in S}
  OBVIOUS
<1> HIDE DEF a, B
<1>5. IsList(t) /\ ToSet(t) = ToSet(a) \cup ToSet(s)
  BY <1>2, <1>3, ConcatRange
<1>6. Len(t) = Len(s) + 1
  <2> DEFINE C == ToSet(a) \cup ToSet(s)
  <2>1. a \in Seq(C) /\ s \in Seq(C)
    BY <1>2, <1>3 DEF IsList
  <2> HIDE DEF C
  <2>2. Len(a \o s) = Len(a) + Len(s) /\ Len(s) \in Nat
    BY <2>1
  <2> QED  BY <1>2, <2>2
<1>7. ToSet(t) = B /\ t \in Seq(B)
  BY <1>2, <1>3, <1>4, <1>5 DEF IsList
<1>8. Cardinality(S) \in Nat
  BY FS_CardinalityType DEF OneForEach
<1> QED  BY <1>1, <1>3, <1>6, <1>7, <1>8 DEF a, B, OneForEach

\* What inject relies on.
LEMMA InjectCan ==
  ASSUME IInv, FlowInv, Inject
  PROVE  LET i == current
             c == Head(pending)
             f == PreparedFor(i)
             S == Sites \cup {i}
         IN  /\ ~ hasBeenMutated(i) => CanPrepare(ir, Sites, mutations, i)
             /\ CanInject(f, S, mutations, i, c, Mutation(i, c))
             /\ StartsWith(ir, LoaderCall) => StartsWith(f, LoaderCall)
<1> DEFINE i == current
           op == ir.code[i].op
           c == Head(pending)
           m == Mutation(i, c)
           f == PreparedFor(i)
           S == Sites \cup {i}
<1>1. /\ program \in Programs /\ program' = program /\ inject(i, c)
      /\ i \in DOMAIN ir.code \cap DOMAIN program.id /\ i \in Origs
      /\ MutatorFor(op) # "none" /\ phase = "mutate"
      /\ op = "load" => c \in DOMAIN ir.code /\ ir.code[c].op = "alloca"
      /\ op # "load" => c \in Opcodes
      /\ ~ hasBeenMutated(i) => i \notin Sites /\ MutationsOf(mutations, i) = {}
      /\ MayInject(f, S, mutations, i, c, m)
      /\ \A x \in DOMAIN ir.code \cap Origs :
           x \in DOMAIN f.code /\ f.code[x].op = ir.code[x].op
      /\ Sites' = S
      /\ ir' = Injected(f, i, Len(mutations) + 1, c)
      /\ mutations' = Append(mutations, m)
  BY InjectIs
<1>2. m = [original |-> i, variant |-> c, operator |-> MutatorFor(op)]
  BY DEF Mutation
<1> HIDE DEF c, m, f, S, op
<1>3. ASSUME ~ hasBeenMutated(i) PROVE CanPrepare(ir, Sites, mutations, i)
  <2>1. Sites \subseteq Origs
    BY <1>1, ProgramIs DEF IInv, MapsInv
  <2>2. \A n \in DOMAIN mutations : mutations[n].original \in Sites
    BY DEF IInv, MutationsInv
  <2>3. FunctionInv(ir, Sites, mutations) /\ ShapeInv(ir, Sites, mutations)
    BY DEF IInv, FlowInv
  <2> QED  BY <1>1, <1>3, <2>1, <2>2, <2>3 DEF CanPrepare, op
<1>4. /\ ShapeInv(f, S, mutations)
      /\ StartsWith(ir, LoaderCall) => StartsWith(f, LoaderCall)
      /\ op = "load" => c \in DOMAIN f.code /\ f.code[c].op = "alloca"
      /\ f.code[i].op = op
  <2>1. CASE hasBeenMutated(i)
    <3>1. f = ir /\ S = Sites
      BY <2>1 DEF hasBeenMutated, Sites, PreparedFor, f, S
    <3> QED  BY <1>1, <3>1 DEF FlowInv, op
  <2>2. CASE ~ hasBeenMutated(i)
    <3>1. f = PreparedIR(ir, i)
      BY <2>2 DEF PreparedFor, f
    <3>2. CanPrepare(ir, Sites, mutations, i)
      BY <1>3, <2>2
    <3> DEFINE g == PreparedIR(ir, i)
    <3>3. /\ ShapeInv(g, Sites \cup {i}, mutations)
          /\ StartsWith(ir, LoaderCall) => StartsWith(g, LoaderCall)
          /\ \A x \in DOMAIN ir.code : x \in DOMAIN g.code /\ g.code[x].op = ir.code[x].op
      <4>1. program \in Programs
        BY <1>1
      <4> QED  BY <3>2, <4>1, PrepareShape
    <3> HIDE DEF g
    <3> QED  BY <1>1, <3>1, <3>3 DEF S, g, op
  <2> QED  BY <2>1, <2>2
<1>5. CanInject(f, S, mutations, i, c, m)
  BY <1>1, <1>2, <1>4 DEF CanInject
<1> QED  BY <1>3, <1>4, <1>5 DEF c, m, f, S

LEMMA InjectFlow == IInv /\ FlowInv /\ Inject => FlowInv'
<1> SUFFICES ASSUME IInv, FlowInv, Inject PROVE FlowInv'
  OBVIOUS
<1> DEFINE i == current
           op == ir.code[i].op
           c == Head(pending)
           m == Mutation(i, c)
           f == PreparedFor(i)
           S == Sites \cup {i}
<1>1. /\ program \in Programs /\ program' = program /\ inject(i, c)
      /\ i \in DOMAIN ir.code \cap DOMAIN program.id /\ i \in Origs
      /\ MutatorFor(op) # "none" /\ phase = "mutate"
      /\ op = "load" => c \in DOMAIN ir.code /\ ir.code[c].op = "alloca"
      /\ op # "load" => c \in Opcodes
      /\ ~ hasBeenMutated(i) => i \notin Sites /\ MutationsOf(mutations, i) = {}
      /\ MayInject(f, S, mutations, i, c, m)
      /\ \A x \in DOMAIN ir.code \cap Origs :
           x \in DOMAIN f.code /\ f.code[x].op = ir.code[x].op
      /\ Sites' = S
      /\ ir' = Injected(f, i, Len(mutations) + 1, c)
      /\ mutations' = Append(mutations, m)
  BY InjectIs
<1>2. phase' = phase
  BY DEF Inject, InjectCandidate
<1>3. /\ CanInject(f, S, mutations, i, c, m)
      /\ StartsWith(ir, LoaderCall) => StartsWith(f, LoaderCall)
  BY InjectCan
<1> HIDE DEF c, m, f, S, op
<1>4. \A n \in DOMAIN mutations : mutations[n].original \in S
  BY DEF IInv, MutationsInv, S
<1> DEFINE h == Injected(f, i, Len(mutations) + 1, c)
<1>5. /\ ShapeInv(h, S, Append(mutations, m))
      /\ StartsWith(f, LoaderCall) => StartsWith(h, LoaderCall)
  BY <1>1, <1>3, <1>4, InjectShape
<1> HIDE DEF h
<1>6. ir' = h
  BY <1>1 DEF h
<1>7. ShapeInv(ir', Sites', mutations')
  BY <1>1, <1>5, <1>6
<1>8. LoaderInv'
  <2>1. phase' # "construct" /\ program.name = "main" => StartsWith(ir', LoaderCall)
    BY <1>1, <1>2, <1>3, <1>5, <1>6 DEF FlowInv, LoaderInv
  <2>2. CASE hasBeenMutated(i)
    <3>1. loader' = loader
      BY <1>1, <2>2 DEF inject
    <3>2. Sites' = Sites
      BY <1>1, <2>2 DEF hasBeenMutated, Sites, S
    <3> QED  BY <1>1, <2>1, <3>1, <3>2, LoaderNext DEF FlowInv
  <2>3. CASE ~ hasBeenMutated(i)
    <3>1. loader' = << program.id[i] >> \o loader
      BY <1>1, <2>3 DEF inject, prepareInstruction, SourceID
    <3>2. i \notin Sites
      BY <1>1, <2>3
    <3>3. OneForEach(loader', program.id, S)
      BY <3>1, <3>2, LoaderGrows DEF FlowInv, LoaderInv, S
    <3> QED  BY <1>1, <2>1, <3>3 DEF LoaderInv, StartsWith
  <2> QED  BY <2>2, <2>3
<1> QED  BY <1>1, <1>7, <1>8, ShapeNext DEF FlowInv

LEMMA StepFlow == IInv /\ FlowInv /\ [Next]_vars => FlowInv'
<1> SUFFICES ASSUME IInv, FlowInv, [Next]_vars PROVE FlowInv'
  OBVIOUS
<1>1. CASE Construct
  BY <1>1, ConstructFlow
<1>2. CASE Collect
  BY <1>2, FlowUnmoved DEF Collect, engineVars
<1>3. CASE \E i \in instructions : Begin(i)
  BY <1>3, FlowUnmoved DEF Begin, BeginMutate
<1>4. CASE Skip
  BY <1>4, FlowUnmoved DEF Skip, SkipCandidate
<1>5. CASE Inject
  BY <1>5, InjectFlow
<1>6. CASE End
  BY <1>6, EndFlow
<1>7. CASE Mutated \/ WriteTable \/ WriteBitcode \/ UNCHANGED vars
  BY <1>7, FlowUnmoved
     DEF Mutated, WriteTable, writeMutationTable, WriteBitcode, vars, engineVars
<1>8. CASE Returned
  BY <1>8, FlowUnmoved DEF Returned, vars, engineVars
<1> QED  BY <1>1, <1>2, <1>3, <1>4, <1>5, <1>6, <1>7, <1>8 DEF Next

\* The shape holds in every state of every run, for every set of programs and in
\* whatever order run() visits the instructions: the function is one that LLVM's
\* verifier accepts, each site is the diamond the engine builds, each mutation has
\* its block, and the loader has one check for each site.
THEOREM FlowInvariance == Spec => [](IInv /\ FlowInv)
<1>1. Init => IInv /\ FlowInv
  BY InitInv, InitFlow
<1>2. IInv /\ FlowInv /\ [Next]_vars => (IInv /\ FlowInv)'
  BY StepInv, StepFlow
<1> QED  BY <1>1, <1>2, PTL DEF Spec

-------------------------------------------------------------------------------
(* What follows from it.                                                   *)

LEMMA CountOfDistinct ==
  ASSUME NEW T, NEW s \in Seq(T), \A k, l \in DOMAIN s : s[k] = s[l] => k = l
  PROVE  Len(s) = Cardinality(ToSet(s))
<1> DEFINE n == Len(s)
           F == [k \in 1 .. n |-> s[k]]
<1>1. n \in Nat /\ DOMAIN s = 1 .. n
  OBVIOUS
<1>2. F \in [1 .. n -> ToSet(s)] /\ \A k \in 1 .. n : F[k] = s[k]
  BY <1>1 DEF ToSet
<1>3. \A e \in ToSet(s) : \E k \in 1 .. n : s[k] = e
  BY <1>1 DEF ToSet
<1> HIDE DEF n, F
<1>4. F \in Injection(1 .. n, ToSet(s))
  BY <1>1, <1>2 DEF Injection, IsInjective
<1>5. F \in Surjection(1 .. n, ToSet(s))
  BY <1>2, <1>3 DEF Surjection
<1>6. ExistsBijection(1 .. n, ToSet(s))
  BY <1>4, <1>5 DEF ExistsBijection, Bijection
<1> QED  BY <1>1, <1>6, FS_CountingElements DEF n

\* What the invariants say of a site.
LEMMA SiteIs ==
  ASSUME IInv, FlowInv, NEW i \in Sites
  PROVE  /\ SiteInv(ir, mutations, i)
         /\ Switch(i) \in DOMAIN ir.code /\ ir.code[Switch(i)].cases \in Seq(Nat)
         /\ ToSet(ir.code[Switch(i)].cases) = MutationsOf(mutations, i)
         /\ \A n \in MutationsOf(mutations, i) :
              MutantInv(ir, mutations, n) /\ mutations[n].original = i
  BY DEF IInv, FlowInv, FunctionInv, ShapeInv, MutationsOf

\* Between any two steps every block ends in its only terminator, its phis come
\* first, and each of them, the program's own and the engine's, has exactly one
\* value for each predecessor of its block.
THEOREM ControlFlowIsWellFormed == Spec => []ControlFlowWellFormed
<1>1. FlowInv => ControlFlowWellFormed
  BY DEF FlowInv, ShapeInv, Verified, ControlFlowWellFormed
<1> QED  BY <1>1, FlowInvariance, PTL

\* Nothing that is left uses the value of an original that mutate() has erased.
THEOREM ErasedIsUnused == Spec => []NoUseOfErased
<1>1. FlowInv => NoUseOfErased
  <2> SUFFICES ASSUME FlowInv, NEW x \in DOMAIN ir.code,
                      NEW v \in Values(ir, x) \cap Origs
               PROVE  v \in DOMAIN ir.code
    BY DEF NoUseOfErased, Origs
  <2>1. UsesInv(ir, Sites) /\ Origs \ Sites \subseteq DOMAIN ir.code
    BY DEF FlowInv, ShapeInv, NamesInv
  <2> QED  BY <2>1 DEF UsesInv
<1> QED  BY <1>1, FlowInvariance, PTL

\* Each site's switch has one case for each mutation of the site and for no other,
\* which leads to the block with the replacement that the mutation describes, and
\* the site's phi has the value of each of these blocks and of the clone.
THEOREM SwitchesAreRight == Spec => []SwitchesMatchMutations
<1>1. IInv /\ FlowInv => SwitchesMatchMutations
  <2> SUFFICES ASSUME IInv, FlowInv, NEW i \in Sites
               PROVE  LET switch == ir.code[Switch(i)]
                          ids    == {n \in DOMAIN mutations : mutations[n].original = i}
                      IN  /\ ToSet(switch.cases) = ids
                          /\ Len(switch.cases) = Cardinality(ids)
                          /\ \A k \in DOMAIN switch.cases :
                               LET n == switch.cases[k] IN
                               /\ switch.to[k + 1] = Mutant(n)
                               /\ Mutant(n) \in ToSet(ir.layout[switch.to[k + 1]])
                               /\ IF mutations[n].operator = "LoadMutator"
                                  THEN ir.code[Mutant(n)].args = <<mutations[n].variant>>
                                  ELSE /\ ir.code[Mutant(n)].op = mutations[n].variant
                                       /\ ir.code[Mutant(n)].args = ir.code[Clone(i)].args
                          /\ ir.code[Phi(i)].in =
                               {<<Mutant(n), Mutant(n)>> : n \in ids} \cup {<<Clone(i), Clone(i)>>}
    BY Zenon DEF SwitchesMatchMutations, Sites
  <2> DEFINE switch == ir.code[Switch(i)]
             ids    == MutationsOf(mutations, i)
  <2>1. /\ SiteInv(ir, mutations, i) /\ switch.cases \in Seq(Nat)
        /\ ToSet(switch.cases) = ids
        /\ \A n \in ids : MutantInv(ir, mutations, n) /\ mutations[n].original = i
    BY SiteIs
  <2>2. Len(switch.cases) = Cardinality(ids)
    <3>1. \A k, l \in DOMAIN switch.cases : switch.cases[k] = switch.cases[l] => k = l
      BY <2>1 DEF SiteInv
    <3> HIDE DEF switch, ids
    <3> QED  BY <2>1, <3>1, CountOfDistinct
  <2>3. ASSUME NEW k \in DOMAIN switch.cases
        PROVE  LET n == switch.cases[k] IN
               /\ switch.to[k + 1] = Mutant(n)
               /\ Mutant(n) \in ToSet(ir.layout[switch.to[k + 1]])
               /\ IF mutations[n].operator = "LoadMutator"
                  THEN ir.code[Mutant(n)].args = <<mutations[n].variant>>
                  ELSE /\ ir.code[Mutant(n)].op = mutations[n].variant
                       /\ ir.code[Mutant(n)].args = ir.code[Clone(i)].args
    <3> DEFINE n == switch.cases[k]
    <3>1. n \in ids
      BY <2>1 DEF ToSet
    <3>2. switch.to[k + 1] = Mutant(n)
      BY <2>1 DEF SiteInv
    <3>3. MutantInv(ir, mutations, n) /\ mutations[n].original = i
      BY <2>1, <3>1
    <3> HIDE DEF n, switch, ids
    <3>4. Mutant(n) \in ToSet(ir.layout[Mutant(n)])
      <4> DEFINE t == ir.layout[Mutant(n)]
      <4>1. t = << Mutant(n), MutantBr(n) >>
        BY <3>3 DEF MutantInv
      <4> HIDE DEF t
      <4>2. 1 \in DOMAIN t /\ t[1] = Mutant(n)
        BY <4>1
      <4> QED  BY <4>2 DEF t, ToSet
    <3>5. IF mutations[n].operator = "LoadMutator"
          THEN ir.code[Mutant(n)].args = <<mutations[n].variant>>
          ELSE /\ ir.code[Mutant(n)].op = mutations[n].variant
               /\ ir.code[Mutant(n)].args = ir.code[Clone(i)].args
      BY <3>3 DEF MutantInv
    <3> QED  BY <3>2, <3>4, <3>5 DEF n
  <2>4. ir.code[Phi(i)].in =
          {<<Mutant(n), Mutant(n)>> : n \in ids} \cup {<<Clone(i), Clone(i)>>}
    BY <2>1 DEF SiteInv
  <2> QED  BY <2>1, <2>2, <2>3, <2>4 DEF MutationsOf
<1> QED  BY <1>1, FlowInvariance, PTL

\* A row of the table that names an opcode or a predicate names the one that the
\* replacement with the row's ID was built with; a row without one is of a load.
THEOREM RowsAreRight == Spec => []RowsDescribeReplacements
<1>1. IInv /\ FlowInv => RowsDescribeReplacements
  <2> SUFFICES ASSUME IInv, FlowInv, NEW n \in DOMAIN table
               PROVE  ir.code[Mutant(table[n].id)].op =
                        IF table[n].replacement = None THEN "load" ELSE table[n].replacement
    BY DEF RowsDescribeReplacements
  <2>1. /\ table = [k \in 1 .. Len(mutations) |-> toJSON(k, mutations[k])]
        /\ DOMAIN mutations = 1 .. Len(mutations)
    BY DEF IInv, TableInv, MutationsInv
  <2>2. /\ n \in DOMAIN mutations /\ table[n].id = n
        /\ table[n].replacement = IF mutations[n].operator = "LoadMutator" THEN None
                                  ELSE mutations[n].variant
    BY <2>1 DEF toJSON
  <2>3. MutantInv(ir, mutations, n)
    BY <2>2 DEF FlowInv, ShapeInv
  <2>4. mutations[n].operator # "LoadMutator" => mutations[n].variant # None
    BY <2>2, NoneAssumption DEF IInv, MutationsInv
  <2> QED  BY <2>2, <2>3, <2>4 DEF MutantInv
<1> QED  BY <1>1, FlowInvariance, PTL

\* Each site is a diamond that meets again: its switch ends its block, the clone
\* and each mutant are alone with a jump to the block on the site's books, and
\* that block goes on with the phi on the books.
THEOREM SitesMeetAgain == Spec => []SitesRejoin
<1>1. IInv /\ FlowInv => SitesRejoin
  <2> SUFFICES ASSUME IInv, FlowInv, NEW i \in Sites
               PROVE  LET rest   == instructionToDestinationBlock[i]
                          switch == instructionToSwitchMap[i]
                      IN  /\ ir.layout[BlockOf(ir, switch)] # <<>>
                          /\ Last(ir.layout[BlockOf(ir, switch)]) = switch
                          /\ instructionToPhiMap[i] \in ToSet(ir.layout[rest])
                          /\ ir.code[instructionToPhiMap[i]].op = "phi"
                          /\ Head(ir.code[switch].to) = instructionToCloneBlock[i]
                          /\ \A b \in ToSet(ir.code[switch].to) :
                               Len(ir.layout[b]) = 2 /\ Succs(ir, b) = {rest}
    BY Zenon DEF SitesRejoin, Sites
  <2>1. /\ instructionToDestinationBlock[i] = Rest(i) /\ instructionToSwitchMap[i] = Switch(i)
        /\ instructionToPhiMap[i] = Phi(i) /\ instructionToCloneBlock[i] = Clone(i)
    BY DEF IInv, MapsInv
  <2>2. /\ SiteInv(ir, mutations, i) /\ Switch(i) \in DOMAIN ir.code
        /\ ir.code[Switch(i)].cases \in Seq(Nat)
        /\ ToSet(ir.code[Switch(i)].cases) = MutationsOf(mutations, i)
        /\ \A n \in MutationsOf(mutations, i) :
             MutantInv(ir, mutations, n) /\ mutations[n].original = i
    BY SiteIs
  <2>3. WellFormed(ir, Names) /\ BlocksWellFormed(ir) /\ OnePlace(ir)
    BY DEF IInv, FunctionInv, FlowInv, ShapeInv, Verified
  <2>4. /\ ir.layout[BlockOf(ir, Switch(i))] # <<>>
        /\ Last(ir.layout[BlockOf(ir, Switch(i))]) = Switch(i)
    <3>1. PICK b, k : OnlyAt(ir, Switch(i), b, k)
      BY <2>2, <2>3, PlaceOf
    <3> DEFINE s == ir.layout[b]
    <3>2. /\ BlockOf(ir, Switch(i)) = b /\ b \in DOMAIN ir.layout
          /\ k \in DOMAIN s /\ s[k] = Switch(i)
      BY <2>3, <3>1, OnlyAtIs DEF OnlyAt
    <3>3. ir.code[Switch(i)].op \in Terminators
      BY <2>2 DEF SiteInv, Terminators
    <3>4. /\ Len(s) \in Nat \ {0}
          /\ \A l \in DOMAIN s : (ir.code[s[l]].op \in Terminators) <=> (l = Len(s))
      BY <2>3, <3>2, BlockIs
    <3> HIDE DEF s
    <3>5. s # <<>> /\ s[Len(s)] = Switch(i)
      BY <3>2, <3>3, <3>4
    <3> QED  BY <3>2, <3>5 DEF s, Last
  <2>5. Phi(i) \in ToSet(ir.layout[Rest(i)]) /\ ir.code[Phi(i)].op = "phi"
    <3> DEFINE t == ir.layout[Rest(i)]
    <3>1. t \in Seq(Names) /\ t # <<>> /\ t[1] = Phi(i)
      BY <2>2, <2>3 DEF SiteInv, WellFormed
    <3> HIDE DEF t
    <3>2. 1 \in DOMAIN t
      BY <3>1
    <3>3. Phi(i) \in ToSet(t)
      BY <3>1, <3>2 DEF ToSet
    <3> QED  BY <2>2, <3>3 DEF t, SiteInv
  <2>6. ASSUME NEW b \in DOMAIN ir.layout, NEW x, NEW y, ir.layout[b] = << x, y >>,
               ir.code[y].to = << Rest(i) >>
        PROVE  Len(ir.layout[b]) = 2 /\ Succs(ir, b) = {Rest(i)}
    <3> DEFINE t == ir.layout[b]
    <3>1. t = << x, y >>
      BY <2>6
    <3> HIDE DEF t
    <3>2. Len(t) = 2 /\ t[Len(t)] = y
      BY <3>1
    <3>3. Succs(ir, b) = ToSet(ir.code[Final(ir, b)].to)
      BY <2>3, BlockIs
    <3>4. ToSet(<< Rest(i) >>) = {Rest(i)}
      BY DEF ToSet
    <3> QED  BY <2>6, <3>2, <3>3, <3>4 DEF t, Final
  <2> DEFINE to == ir.code[Switch(i)].to
             cs == ir.code[Switch(i)].cases
  <2>7. /\ to \in Seq(DOMAIN ir.layout) /\ cs \in Seq(Nat) /\ Len(to) = Len(cs) + 1
        /\ to[1] = Clone(i) /\ \A k \in DOMAIN cs : to[k + 1] = Mutant(cs[k])
    BY <2>2 DEF SiteInv
  <2>8. Head(to) = Clone(i)
    <3> HIDE DEF to, cs
    <3> QED  BY <2>7
  <2>9. ASSUME NEW b \in ToSet(to)
        PROVE  Len(ir.layout[b]) = 2 /\ Succs(ir, b) = {Rest(i)}
    <3>1. b = Clone(i) \/ \E n \in ToSet(cs) : b = Mutant(n)
      <4>1. PICK k \in DOMAIN to : to[k] = b
        BY DEF ToSet
      <4> HIDE DEF to, cs
      <4>2. CASE k = 1
        BY <2>7, <4>1, <4>2
      <4>3. CASE k # 1
        <5>1. k - 1 \in DOMAIN cs /\ (k - 1) + 1 = k
          BY <2>7, <4>1, <4>3
        <5>2. b = Mutant(cs[k - 1])
          BY <2>7, <4>1, <5>1
        <5> QED  BY <5>1, <5>2 DEF ToSet
      <4> QED  BY <4>2, <4>3
    <3>2. CASE b = Clone(i)
      <4>1. /\ b \in DOMAIN ir.layout /\ ir.layout[b] = << Clone(i), CloneBr(i) >>
            /\ ir.code[CloneBr(i)].to = << Rest(i) >>
        BY <2>2, <3>2 DEF SiteInv
      <4> QED  BY <2>6, <4>1
    <3>3. CASE \E n \in ToSet(cs) : b = Mutant(n)
      <4>1. PICK n \in MutationsOf(mutations, i) : b = Mutant(n)
        BY <2>2, <3>3
      <4>2. /\ b \in DOMAIN ir.layout /\ ir.layout[b] = << Mutant(n), MutantBr(n) >>
            /\ ir.code[MutantBr(n)].to = << Rest(i) >>
        BY <2>2, <4>1 DEF MutantInv
      <4> QED  BY <2>6, <4>2
    <3> QED  BY <3>1, <3>2, <3>3
  <2> HIDE DEF to
  <2> QED  BY <2>1, <2>4, <2>5, <2>8, <2>9 DEF to
<1> QED  BY <1>1, FlowInvariance, PTL

\* Once prepare() has run, main calls the loader before anything else, and the
\* loader has exactly one check for each site, which is of the site's ID.
THEOREM LoaderIsComplete == Spec => []LoaderCoversSites
<1>1. FlowInv => LoaderCoversSites
  BY DEF FlowInv, LoaderInv, OneForEach, StartsWith, LoaderCoversSites, Sites
<1> QED  BY <1>1, FlowInvariance, PTL

-------------------------------------------------------------------------------
(* What is finite.                                                         *)

LEMMA FiniteImage ==
  ASSUME NEW S, IsFiniteSet(S), NEW h
  PROVE  IsFiniteSet({h[x] : x \in S})
<1> DEFINE T == {h[x] : x \in S}
           F == [x \in S |-> h[x]]
<1>1. F \in Surjection(S, T)
  BY DEF Surjection
<1> QED  BY <1>1, FS_Surjection

\* A function with finitely many instructions has finitely many blocks.
LEMMA BlocksAreFinite ==
  ASSUME NEW f, NEW N, WellFormed(f, N), Verified(f), IsFiniteSet(DOMAIN f.code)
  PROVE  IsFiniteSet(BlocksOf(f))
<1> DEFINE home == [x \in DOMAIN f.code |-> CHOOSE b \in BlocksOf(f) : Final(f, b) = x]
           I == {home[x] : x \in DOMAIN f.code}
<1>1. IsFiniteSet(I)
  BY FiniteImage
<1>2. ASSUME NEW b \in BlocksOf(f) PROVE b \in I
  <2>1. /\ Final(f, b) \in DOMAIN f.code /\ Len(f.layout[b]) \in DOMAIN f.layout[b]
    BY BlockIs DEF Verified, BlocksOf
  <2>2. ASSUME NEW c \in BlocksOf(f), Final(f, c) = Final(f, b) PROVE c = b
    <3>1. Len(f.layout[c]) \in DOMAIN f.layout[c]
      BY BlockIs DEF Verified, BlocksOf
    <3> QED  BY <2>1, <2>2, <3>1 DEF Final, Verified, OnePlace, BlocksOf
  <2>3. home[Final(f, b)] = b
    BY <2>1, <2>2
  <2> QED  BY <2>1, <2>3
<1> QED  BY <1>1, <1>2, FS_Subset

LEMMA SourceIsFinite ==
  ASSUME program \in Programs
  PROVE  /\ IsFiniteSet(Origs) /\ IsFiniteSet(DOMAIN program.args)
         /\ IsFiniteSet(DOMAIN program.globals)
BY FiniteAssumption DEF Origs

LEMMA FewAreFinite ==
  \A a, b, c, d, e, h : IsFiniteSet({a, b}) /\ IsFiniteSet({a, b, c, d, e, h})
<1> TAKE a, b, c, d, e, h
<1>1. IsFiniteSet({a})
  BY FS_Singleton
<1>2. IsFiniteSet({a, b})
  <2>1. {a, b} = {a} \cup {b}
    OBVIOUS
  <2> QED  BY <1>1, <2>1, FS_AddElement
<1>3. IsFiniteSet({a, b, c})
  <2>1. {a, b, c} = {a, b} \cup {c}
    OBVIOUS
  <2> QED  BY <1>2, <2>1, FS_AddElement
<1>4. IsFiniteSet({a, b, c, d})
  <2>1. {a, b, c, d} = {a, b, c} \cup {d}
    OBVIOUS
  <2> QED  BY <1>3, <2>1, FS_AddElement
<1>5. IsFiniteSet({a, b, c, d, e})
  <2>1. {a, b, c, d, e} = {a, b, c, d} \cup {e}
    OBVIOUS
  <2> QED  BY <1>4, <2>1, FS_AddElement
<1>6. {a, b, c, d, e, h} = {a, b, c, d, e} \cup {h}
  OBVIOUS
<1> QED  BY <1>2, <1>5, <1>6, FS_AddElement

\* The engine has made finitely many instructions.
LEMMA FiniteSites ==
  ASSUME NEW M \in Seq(MutationRecords), NEW S, IsFiniteSet(S)
  PROVE  IsFiniteSet(MadeFor(S, M))
<1>1. IsFiniteSet(DOMAIN M)
  <2>1. DOMAIN M = 1 .. Len(M) /\ Len(M) \in Nat
    OBVIOUS
  <2> QED  BY <2>1, FS_Interval
<1> DEFINE made == [i \in S |-> Created(i) \ {SplitBr(i)}]
           mutant == [n \in DOMAIN M |-> {Mutant(n), MutantBr(n)}]
<1>2. IsFiniteSet({made[i] : i \in S}) /\ IsFiniteSet({mutant[n] : n \in DOMAIN M})
  BY <1>1, FiniteImage
<1>3. \A i : IsFiniteSet(Created(i) \ {SplitBr(i)})
  BY FewAreFinite, FS_Subset DEF Created
<1>4. \A n : IsFiniteSet({Mutant(n), MutantBr(n)})
  BY FewAreFinite
<1>5. /\ \A T \in {made[i] : i \in S} : IsFiniteSet(T)
      /\ \A T \in {mutant[n] : n \in DOMAIN M} : IsFiniteSet(T)
  BY <1>3, <1>4
<1>6. IsFiniteSet(UNION {made[i] : i \in S}) /\ IsFiniteSet(UNION {mutant[n] : n \in DOMAIN M})
  BY <1>2, <1>5, FS_UNION
<1>7. MadeFor(S, M) = (UNION {made[i] : i \in S}) \cup UNION {mutant[n] : n \in DOMAIN M}
  BY DEF MadeFor
<1> DEFINE U == UNION {made[i] : i \in S}
           V == UNION {mutant[n] : n \in DOMAIN M}
<1>8. IsFiniteSet(U) /\ IsFiniteSet(V) /\ MadeFor(S, M) = U \cup V
  BY <1>6, <1>7
<1> HIDE DEF U, V
<1> QED  BY <1>8, FS_Union

\* The function is finite at any time.
LEMMA FunctionIsFinite ==
  ASSUME IInv, FlowInv
  PROVE  /\ IsFiniteSet(DOMAIN ir.code) /\ IsFiniteSet(BlocksOf(ir))
         /\ IsFiniteSet(Sites) /\ Sites \subseteq Origs
<1>1. /\ program \in Programs /\ mutations \in Seq(MutationRecords)
      /\ WellFormed(ir, Names) /\ Verified(ir) /\ NamesInv(ir, Sites, mutations)
  BY DEF IInv, ProgramInv, MutationsInv, FunctionInv, FlowInv, ShapeInv
<1>2. Sites \subseteq Origs
  BY <1>1, ProgramIs DEF IInv, MapsInv
<1>3. IsFiniteSet(Origs) /\ IsFiniteSet(Sites)
  BY <1>1, <1>2, SourceIsFinite, FS_Subset
<1>4. IsFiniteSet(MadeFor(Sites, mutations))
  BY <1>1, <1>3, FiniteSites
<1> DEFINE A == Origs \cup {LoaderCall}
           B == A \cup MadeFor(Sites, mutations)
<1>5. IsFiniteSet(A)
  BY <1>3, FS_AddElement
<1> HIDE DEF A
<1>6. IsFiniteSet(B)
  BY <1>4, <1>5, FS_Union
<1>7. DOMAIN ir.code \subseteq B
  BY <1>1 DEF NamesInv, A
<1>8. IsFiniteSet(DOMAIN ir.code)
  BY <1>6, <1>7, FS_Subset
<1> QED  BY <1>1, <1>2, <1>3, <1>8, BlocksAreFinite

-------------------------------------------------------------------------------
(* What the search of findReachingValues finds.                            *)

InEdges(f) == [b \in BlocksOf(f) |-> Preds(f, b)]

\* Block p leads to block c.
Leads(f, p, c) == p \in Least(InEdges(f), BlocksOf(f), Preds(f, c))

LEMMA InEdgesAre ==
  ASSUME NEW f
  PROVE  /\ IsRelation(InEdges(f), BlocksOf(f))
         /\ \A c : Preds(f, c) \in SUBSET BlocksOf(f)
BY DEF IsRelation, InEdges, Preds

LEMMA PredecessorsAre ==
  ASSUME NEW f, IsFiniteSet(BlocksOf(f)), NEW c
  PROVE  transitivePredecessors(f, c) = Least(InEdges(f), BlocksOf(f), Preds(f, c))
<1> DEFINE B == BlocksOf(f)
           E == InEdges(f)
           S == Preds(f, c)
           Q(T) == T \cup UNION {Preds(f, p) : p \in T}
           G(g) == g = [T \in SUBSET BlocksOf(f) |-> IF Q(T) = T THEN T ELSE g[Q(T)]]
<1>1. transitivePredecessors(f, c) = (CHOOSE g : G(g))[S]
  BY Zenon DEF transitivePredecessors, Closure
<1>2. \A T \in SUBSET B : Q(T) = Extended(E, T)
  BY DEF Extended, InEdges
<1>3. IsRelation(E, B) /\ S \in SUBSET B
  BY InEdgesAre
<1> HIDE DEF E, Q, S
<1>4. \A g : G(g) <=> IsGrow(g, E, B)
  BY <1>2 DEF IsGrow
<1>5. (CHOOSE g : G(g)) = (CHOOSE g : IsGrow(g, E, B))
  <2> HIDE DEF G
  <2> QED  BY <1>4, Zenon
<1>6. IsGrow(CHOOSE g : IsGrow(g, E, B), E, B)
  BY <1>3, GrowExists, Zenon
<1> HIDE DEF G, B
<1>7. (CHOOSE g : IsGrow(g, E, B))[S] = Least(E, B, S)
  BY <1>3, <1>6, GrowIs DEF B
<1> QED  BY <1>1, <1>5, <1>7 DEF B, E, S

\* The values of the body that findReachingValues finds.
Earlier(f, y) ==
  {f.layout[BlockOf(f, y)][k] : k \in 1 .. IndexOf(f, y) - 1}
    \cup UNION {ToSet(f.layout[p]) : p \in transitivePredecessors(f, BlockOf(f, y))}

\* What findReachingValues offers for i: what comes before it, and what is
\* outside the function.
LEMMA ReachingIs ==
  ASSUME NEW f, NEW env, NEW y
  PROVE  findReachingValues(f, env, y) = DOMAIN env.args \cup DOMAIN env.globals \cup Earlier(f, y)
BY DEF findReachingValues, Earlier

\* x comes before y in their block, or its block leads to that of y.
LEMMA EarlierIs ==
  ASSUME NEW f, NEW N, WellFormed(f, N), Verified(f), IsFiniteSet(DOMAIN f.code),
         NEW y, NEW c, NEW l, OnlyAt(f, y, c, l)
  PROVE  /\ Earlier(f, y) \subseteq DOMAIN f.code
         /\ \A x, b, k : OnlyAt(f, x, b, k) =>
              (x \in Earlier(f, y) <=> (b = c /\ k < l) \/ Leads(f, b, c))
<1> DEFINE P == transitivePredecessors(f, c)
<1>1. BlockOf(f, y) = c /\ IndexOf(f, y) = l
  BY OnlyAtIs
<1>2. P = Least(InEdges(f), BlocksOf(f), Preds(f, c)) /\ P \subseteq BlocksOf(f)
  BY BlocksAreFinite, PredecessorsAre DEF Least
<1>3. Earlier(f, y) = {f.layout[c][k] : k \in 1 .. l - 1} \cup UNION {ToSet(f.layout[p]) : p \in P}
  BY <1>1 DEF Earlier
<1>4. c \in DOMAIN f.layout /\ f.layout[c] \in Seq(N) /\ l \in 1 .. Len(f.layout[c])
  BY OnlyAtIs DEF OnlyAt
<1> HIDE DEF P
<1>5. Earlier(f, y) \subseteq DOMAIN f.code
  BY <1>2, <1>3, <1>4 DEF Verified, OnePlace, ToSet, BlocksOf
<1>6. ASSUME NEW x, NEW b, NEW k, OnlyAt(f, x, b, k)
      PROVE  x \in Earlier(f, y) <=> (b = c /\ k < l) \/ Leads(f, b, c)
  <2>1. x \in {f.layout[c][j] : j \in 1 .. l - 1} <=> b = c /\ k < l
    BY <1>4, <1>6 DEF OnlyAt
  <2>2. x \in UNION {ToSet(f.layout[p]) : p \in P} <=> b \in P
    BY <1>2, <1>6 DEF OnlyAt, ToSet, BlocksOf
  <2> QED  BY <1>2, <1>3, <2>1, <2>2 DEF Leads
<1> QED  BY <1>5, <1>6

-------------------------------------------------------------------------------
(* The edits do not change what leads where: first the preparation of a    *)
(* site, whose block leads where it and its rest led before.               *)

LEMMA LeadsIs ==
  ASSUME NEW f, NEW c
  PROVE  LET A == Least(InEdges(f), BlocksOf(f), Preds(f, c)) IN
         /\ A \subseteq BlocksOf(f) /\ Preds(f, c) \subseteq A
         /\ \A q \in A : Preds(f, q) \subseteq A
         /\ \A T \in SUBSET BlocksOf(f) :
              Preds(f, c) \subseteq T /\ (\A q \in T : Preds(f, q) \subseteq T) => A \subseteq T
<1> DEFINE A == Least(InEdges(f), BlocksOf(f), Preds(f, c))
<1>1. \A T \in SUBSET BlocksOf(f) :
        ClosedUnder(InEdges(f), T) <=> \A q \in T : Preds(f, q) \subseteq T
  BY DEF ClosedUnder, InEdges
<1>2. A \subseteq BlocksOf(f) /\ Preds(f, c) \subseteq A /\ ClosedUnder(InEdges(f), A)
  BY InEdgesAre, LeastIs
<1>3. \A T \in SUBSET BlocksOf(f) :
        Preds(f, c) \subseteq T /\ (\A q \in T : Preds(f, q) \subseteq T) => A \subseteq T
  BY <1>1 DEF Least
<1> QED  BY <1>1, <1>2, <1>3

\* In g block b of f is a chain of b, a block a and a block r, of which the last
\* has what b led to.
IsChain(f, g, b, a, r) ==
  /\ b \in BlocksOf(f) /\ a \notin BlocksOf(f) /\ r \notin BlocksOf(f) /\ a # r
  /\ BlocksOf(g) = BlocksOf(f) \cup {a, r}
  /\ \A c \in BlocksOf(f) : Preds(g, c) = {IF p = b THEN r ELSE p : p \in Preds(f, c)}
  /\ Preds(g, r) = {a} /\ Preds(g, a) = {b}

LEMMA ChainLeads ==
  ASSUME NEW f, NEW g, NEW b, NEW a, NEW r, IsChain(f, g, b, a, r),
         NEW c \in BlocksOf(f)
  PROVE  /\ \A p \in BlocksOf(f) : Leads(g, p, c) <=> Leads(f, p, c)
         /\ Leads(g, r, c) <=> Leads(f, b, c)
<1> DEFINE F == BlocksOf(f)
           A == Least(InEdges(f), BlocksOf(f), Preds(f, c))
           B == Least(InEdges(g), BlocksOf(g), Preds(g, c))
           U == A \cup {x \in {a, r} : b \in A}
           T == {q \in F : (IF q = b THEN r ELSE q) \in B}
<1>1. /\ A \subseteq F /\ Preds(f, c) \subseteq A
      /\ \A q \in A : Preds(f, q) \subseteq A
      /\ \A S \in SUBSET F :
           Preds(f, c) \subseteq S /\ (\A q \in S : Preds(f, q) \subseteq S) => A \subseteq S
  BY LeadsIs
<1>2. /\ B \subseteq BlocksOf(g) /\ Preds(g, c) \subseteq B
      /\ \A q \in B : Preds(g, q) \subseteq B
      /\ \A S \in SUBSET BlocksOf(g) :
           Preds(g, c) \subseteq S /\ (\A q \in S : Preds(g, q) \subseteq S) => B \subseteq S
  BY LeadsIs
<1>3. \A q \in F : Preds(f, q) \subseteq F
  BY InEdgesAre
<1> HIDE DEF A, B
<1>4. B \subseteq U
  <2>1. U \in SUBSET BlocksOf(g)
    BY <1>1 DEF IsChain
  <2>2. ASSUME NEW q \in F, Preds(f, q) \subseteq A PROVE Preds(g, q) \subseteq U
    BY <2>2 DEF IsChain
  <2>3. ASSUME NEW q \in U PROVE Preds(g, q) \subseteq U
    <3>1. CASE q \in A
      BY <1>1, <2>2, <3>1
    <3>2. CASE q \in {a, r} /\ b \in A
      BY <3>2 DEF IsChain
    <3> QED  BY <3>1, <3>2
  <2>4. Preds(g, c) \subseteq U
    BY <1>1, <2>2
  <2> HIDE DEF U
  <2> QED  BY <1>2, <2>1, <2>3, <2>4
<1>5. r \in B => b \in B
  BY <1>2 DEF IsChain
<1>6. A \subseteq T
  <2>1. ASSUME NEW q \in F, Preds(g, q) \subseteq B PROVE Preds(f, q) \subseteq T
    BY <1>3, <2>1 DEF IsChain
  <2>2. ASSUME NEW q \in T PROVE Preds(g, q) \subseteq B
    BY <1>2, <1>5
  <2>3. \A q \in T : Preds(f, q) \subseteq T
    BY <2>1, <2>2
  <2>4. Preds(f, c) \subseteq T
    BY <1>2, <2>1
  <2>5. T \in SUBSET F
    OBVIOUS
  <2> HIDE DEF T
  <2> QED  BY <1>1, <2>3, <2>4, <2>5
<1>7. \A p \in F : p \in B <=> p \in A
  BY <1>4, <1>5, <1>6 DEF IsChain
<1>8. r \in B <=> b \in A
  BY <1>1, <1>4, <1>6 DEF IsChain
<1> QED  BY <1>7, <1>8 DEF Leads, A, B

LEMMA ChainLeadsOn ==
  ASSUME NEW f, NEW g, NEW b, NEW a, NEW r, IsChain(f, g, b, a, r)
  PROVE  /\ \A p \in BlocksOf(f) : Leads(g, p, r) <=> p = b \/ Leads(f, p, b)
         /\ Leads(g, r, r) <=> Leads(f, b, b)
<1> DEFINE A == Least(InEdges(g), BlocksOf(g), Preds(g, b))
           B == Least(InEdges(g), BlocksOf(g), Preds(g, r))
           U == A \cup {a, b}
<1>1. /\ A \subseteq BlocksOf(g) /\ Preds(g, b) \subseteq A
      /\ \A q \in A : Preds(g, q) \subseteq A
      /\ \A S \in SUBSET BlocksOf(g) :
           Preds(g, b) \subseteq S /\ (\A q \in S : Preds(g, q) \subseteq S) => A \subseteq S
  BY LeadsIs
<1>2. /\ B \subseteq BlocksOf(g) /\ Preds(g, r) \subseteq B
      /\ \A q \in B : Preds(g, q) \subseteq B
      /\ \A S \in SUBSET BlocksOf(g) :
           Preds(g, r) \subseteq S /\ (\A q \in S : Preds(g, q) \subseteq S) => B \subseteq S
  BY LeadsIs
<1> HIDE DEF A, B
<1>3. B \subseteq U
  <2>1. /\ U \in SUBSET BlocksOf(g) /\ Preds(g, r) \subseteq U
        /\ \A q \in U : Preds(g, q) \subseteq U
    BY <1>1 DEF IsChain
  <2> HIDE DEF U
  <2> QED  BY <1>2, <2>1
<1>4. a \in B /\ b \in B
  BY <1>2 DEF IsChain
<1>5. A \subseteq B
  BY <1>1, <1>2, <1>4
<1>6. \A p \in BlocksOf(g) \ {a} : p \in B <=> p = b \/ p \in A
  BY <1>3, <1>4, <1>5
<1>7. \A p \in BlocksOf(f) \cup {r} : Leads(g, p, r) <=> p = b \/ Leads(g, p, b)
  BY <1>6 DEF Leads, A, B, IsChain
<1>8. b \in BlocksOf(f) /\ r # b
  BY DEF IsChain
<1>9. /\ \A p \in BlocksOf(f) : Leads(g, p, b) <=> Leads(f, p, b)
      /\ Leads(g, r, b) <=> Leads(f, b, b)
  BY <1>8, ChainLeads
<1> QED  BY <1>7, <1>8, <1>9

LEMMA SplitChain ==
  ASSUME NEW f, NEW g, NEW N, NEW i, NEW b, NEW k, IsSplit(f, g, N, i, b, k)
  PROVE  IsChain(f, g, b, Clone(i), Rest(i))
<1>1. /\ b \in BlocksOf(f) /\ b \notin {Clone(i), Rest(i)} /\ Clone(i) # Rest(i)
      /\ Clone(i) \notin BlocksOf(f) /\ Rest(i) \notin BlocksOf(f)
      /\ BlocksOf(g) = BlocksOf(f) \cup {Clone(i), Rest(i)}
  BY SplitAt DEF IsSplit, IsNewSite, IsPrepared, BlocksOf
<1>2. /\ \A c \in BlocksOf(f) : Preds(g, c) = {IF p = b THEN Rest(i) ELSE p : p \in Preds(f, c)}
      /\ Preds(g, Rest(i)) = {Clone(i)}
  BY SplitPreds DEF BlocksOf
<1>3. \A c \in BlocksOf(f) : Succs(f, c) \subseteq BlocksOf(f)
  <2>1. WellFormed(f, N) /\ BlocksWellFormed(f) /\ OnePlace(f) /\ TargetsAreBlocks(f)
    BY DEF IsSplit, IsNewSite, Verified
  <2> QED  BY <2>1, BlockIs DEF TargetsAreBlocks, BlocksOf
<1>4. Preds(g, Clone(i)) = {b}
  BY <1>1, <1>3, SplitSuccs DEF Preds, BlocksOf
<1> QED  BY <1>1, <1>2, <1>4 DEF IsChain

\* Where an instruction of f is in g.
LEMMA PlaceAfterSplit ==
  ASSUME NEW f, NEW g, NEW N, NEW i, NEW b, NEW k, IsSplit(f, g, N, i, b, k),
         NEW x, NEW c, NEW l, OnlyAt(f, x, c, l)
  PROVE  /\ c # b => OnlyAt(g, x, c, l)
         /\ c = b /\ l < k => OnlyAt(g, x, b, l)
         /\ c = b /\ ~ l < k => OnlyAt(g, x, Rest(i), l - k + 2)
<1>1. /\ IsPrepared(f, g, i, b, k) /\ WellFormed(g, N) /\ OnePlace(g)
      /\ WellFormed(f, N) /\ c \in DOMAIN f.layout /\ l \in DOMAIN f.layout[c]
      /\ f.layout[c][l] = x /\ f.layout[c] \in Seq(N)
  BY OnlyAtIs DEF IsSplit, IsNewSite, OnlyAt
<1>2. /\ k \in Nat \ {0} /\ k < Len(f.layout[b]) /\ Len(f.layout[b]) \in Nat
      /\ b \in DOMAIN f.layout
  BY SplitAt
<1>3. l \in Nat \ {0} /\ l <= Len(f.layout[c])
  BY <1>1
<1>4. ASSUME NEW d \in DOMAIN g.layout, NEW j \in 1 .. Len(g.layout[d]), g.layout[d][j] = x
      PROVE  OnlyAt(g, x, d, j)
  <2>1. j \in DOMAIN g.layout[d]
    BY <1>1, <1>4 DEF WellFormed
  <2> QED  BY <1>1, <1>4, <2>1, PlaceIs
<1>5. CASE c # b
  <2>1. c \in DOMAIN g.layout /\ g.layout[c] = f.layout[c]
    BY <1>1, <1>5 DEF IsPrepared
  <2> QED  BY <1>1, <1>3, <1>4, <1>5, <2>1
<1>6. CASE c = b /\ l < k
  <2>1. /\ b \in DOMAIN g.layout /\ Len(g.layout[b]) = k + 1
        /\ g.layout[b][l] = f.layout[b][l]
    BY <1>1, <1>2, <1>3, <1>6 DEF IsPrepared
  <2>2. l \in 1 .. Len(g.layout[b])
    BY <1>2, <1>3, <1>6, <2>1
  <2> QED  BY <1>1, <1>4, <1>6, <2>1, <2>2
<1>7. CASE c = b /\ ~ l < k
  <2>1. l \in k .. Len(f.layout[b])
    BY <1>2, <1>3, <1>7
  <2>2. /\ Rest(i) \in DOMAIN g.layout /\ Len(g.layout[Rest(i)]) = Len(f.layout[b]) - k + 2
        /\ g.layout[Rest(i)][l - k + 2] = f.layout[b][l]
    BY <1>1, <2>1 DEF IsPrepared
  <2>3. l - k + 2 \in 1 .. Len(g.layout[Rest(i)])
    BY <1>2, <2>1, <2>2
  <2> QED  BY <1>1, <1>4, <1>7, <2>2, <2>3
<1> QED  BY <1>5, <1>6, <1>7

\* What comes before what is the same in f and g, for the instructions of both.
SameOrder(f, g) ==
  \A x, y \in DOMAIN f.code \cap DOMAIN g.code : x \in Earlier(g, y) <=> x \in Earlier(f, y)

\* Splitting the block of a site moves nothing past anything.
LEMMA EarlierSplit ==
  ASSUME NEW f, NEW g, NEW N, NEW i, NEW b, NEW k, IsSplit(f, g, N, i, b, k),
         IsFiniteSet(DOMAIN f.code), IsFiniteSet(DOMAIN g.code), Verified(g)
  PROVE  SameOrder(f, g)
<1> SUFFICES ASSUME NEW x \in DOMAIN f.code, NEW y \in DOMAIN f.code
             PROVE  x \in Earlier(g, y) <=> x \in Earlier(f, y)
  BY DEF SameOrder
<1>1. WellFormed(f, N) /\ Verified(f) /\ OnePlace(f) /\ WellFormed(g, N)
  BY DEF IsSplit, IsNewSite, Verified
<1>2. PICK c, l : OnlyAt(f, x, c, l)
  BY <1>1, PlaceOf
<1>3. PICK d, m : OnlyAt(f, y, d, m)
  BY <1>1, PlaceOf
<1>4. x \in Earlier(f, y) <=> (c = d /\ l < m) \/ Leads(f, c, d)
  BY <1>1, <1>2, <1>3, EarlierIs
<1>5. ASSUME NEW c2, NEW l2, OnlyAt(g, x, c2, l2), NEW d2, NEW m2, OnlyAt(g, y, d2, m2)
      PROVE  x \in Earlier(g, y) <=> (c2 = d2 /\ l2 < m2) \/ Leads(g, c2, d2)
  BY <1>1, <1>5, EarlierIs
<1>6. /\ c # b => OnlyAt(g, x, c, l)
      /\ c = b /\ l < k => OnlyAt(g, x, b, l)
      /\ c = b /\ ~ l < k => OnlyAt(g, x, Rest(i), l - k + 2)
  BY <1>2, PlaceAfterSplit
<1>7. /\ d # b => OnlyAt(g, y, d, m)
      /\ d = b /\ m < k => OnlyAt(g, y, b, m)
      /\ d = b /\ ~ m < k => OnlyAt(g, y, Rest(i), m - k + 2)
  BY <1>3, PlaceAfterSplit
<1> DEFINE r == Rest(i)
<1>8. /\ c \in BlocksOf(f) /\ d \in BlocksOf(f) /\ b \in BlocksOf(f) /\ r \notin BlocksOf(f)
      /\ l \in Nat /\ m \in Nat /\ k \in Nat
  <2>1. /\ c \in DOMAIN f.layout /\ d \in DOMAIN f.layout
        /\ l \in 1 .. Len(f.layout[c]) /\ m \in 1 .. Len(f.layout[d])
        /\ Len(f.layout[c]) \in Nat /\ Len(f.layout[d]) \in Nat
    BY <1>1, <1>2, <1>3, OnlyAtIs DEF OnlyAt
  <2>2. b \in DOMAIN f.layout /\ k \in Nat /\ r \notin DOMAIN f.layout
    BY SplitAt DEF IsSplit, IsNewSite
  <2> QED  BY <2>1, <2>2 DEF BlocksOf
<1>9. IsChain(f, g, b, Clone(i), r)
  BY SplitChain
<1>10. /\ \A p, q \in BlocksOf(f) : Leads(g, p, q) <=> Leads(f, p, q)
       /\ \A q \in BlocksOf(f) : Leads(g, r, q) <=> Leads(f, b, q)
       /\ \A p \in BlocksOf(f) : Leads(g, p, r) <=> p = b \/ Leads(f, p, b)
       /\ Leads(g, r, r) <=> Leads(f, b, b)
  BY <1>9, ChainLeads, ChainLeadsOn
<1> HIDE DEF r
<1>11. CASE c # b /\ d # b
  BY <1>4, <1>5, <1>6, <1>7, <1>8, <1>10, <1>11
<1>12. CASE c # b /\ d = b /\ m < k
  BY <1>4, <1>5, <1>6, <1>7, <1>8, <1>10, <1>12
<1>13. CASE c # b /\ d = b /\ ~ m < k
  BY <1>4, <1>5, <1>6, <1>7, <1>8, <1>10, <1>13 DEF r
<1>14. CASE c = b /\ l < k /\ d # b
  BY <1>4, <1>5, <1>6, <1>7, <1>8, <1>10, <1>14
<1>15. CASE c = b /\ l < k /\ d = b /\ m < k
  BY <1>4, <1>5, <1>6, <1>7, <1>8, <1>10, <1>15
<1>16. CASE c = b /\ l < k /\ d = b /\ ~ m < k
  <2>1. x \in Earlier(g, y) <=> (b = r /\ l < m - k + 2) \/ Leads(g, b, r)
    BY <1>5, <1>6, <1>7, <1>16 DEF r
  <2> QED  BY <1>4, <1>8, <1>10, <1>16, <2>1
<1>17. CASE c = b /\ ~ l < k /\ d # b
  BY <1>4, <1>5, <1>6, <1>7, <1>8, <1>10, <1>17 DEF r
<1>18. CASE c = b /\ ~ l < k /\ d = b /\ m < k
  <2>1. x \in Earlier(g, y) <=> (r = b /\ l - k + 2 < m) \/ Leads(g, r, b)
    BY <1>5, <1>6, <1>7, <1>18 DEF r
  <2> QED  BY <1>4, <1>8, <1>10, <1>18, <2>1
<1>19. CASE c = b /\ ~ l < k /\ d = b /\ ~ m < k
  <2>1. x \in Earlier(g, y) <=> (r = r /\ l - k + 2 < m - k + 2) \/ Leads(g, r, r)
    BY <1>5, <1>6, <1>7, <1>19 DEF r
  <2> QED  BY <1>4, <1>8, <1>10, <1>19, <2>1
<1> QED  BY <1>11, <1>12, <1>13, <1>14, <1>15, <1>16, <1>17, <1>18, <1>19

-------------------------------------------------------------------------------
(* Then the block of a mutant, which leads where its site's clone does.    *)

\* g is f with a block a from where block d of f comes from to r, where it leads to.
IsDetour(f, g, d, a, r) ==
  /\ d \in Preds(f, r) /\ r \in BlocksOf(f) /\ a \notin BlocksOf(f)
  /\ BlocksOf(g) = BlocksOf(f) \cup {a}
  /\ \A c \in BlocksOf(f) : Preds(g, c) = Preds(f, c) \cup {p \in {a} : c = r}
  /\ Preds(g, a) \subseteq Preds(f, d)

LEMMA DetourLeads ==
  ASSUME NEW f, NEW g, NEW d, NEW a, NEW r, IsDetour(f, g, d, a, r),
         NEW c \in BlocksOf(f)
  PROVE  \A p \in BlocksOf(f) : Leads(g, p, c) <=> Leads(f, p, c)
<1> DEFINE F == BlocksOf(f)
           A == Least(InEdges(f), BlocksOf(f), Preds(f, c))
           B == Least(InEdges(g), BlocksOf(g), Preds(g, c))
           U == A \cup {p \in {a} : r \in A \cup {c}}
           T == B \cap F
<1>1. /\ A \subseteq F /\ Preds(f, c) \subseteq A
      /\ \A q \in A : Preds(f, q) \subseteq A
      /\ \A S \in SUBSET F :
           Preds(f, c) \subseteq S /\ (\A q \in S : Preds(f, q) \subseteq S) => A \subseteq S
  BY LeadsIs
<1>2. /\ B \subseteq BlocksOf(g) /\ Preds(g, c) \subseteq B
      /\ \A q \in B : Preds(g, q) \subseteq B
      /\ \A S \in SUBSET BlocksOf(g) :
           Preds(g, c) \subseteq S /\ (\A q \in S : Preds(g, q) \subseteq S) => B \subseteq S
  BY LeadsIs
<1>3. \A q \in F : Preds(f, q) \subseteq F
  BY InEdgesAre
<1> HIDE DEF A, B
<1>4. B \subseteq U
  <2>1. U \in SUBSET BlocksOf(g)
    BY <1>1 DEF IsDetour
  <2>2. ASSUME NEW q \in U PROVE Preds(g, q) \subseteq U
    <3>1. CASE q \in A
      BY <1>1, <3>1 DEF IsDetour
    <3>2. CASE q = a /\ r \in A \cup {c}
      <4>1. d \in A
        BY <1>1, <3>2 DEF IsDetour
      <4> QED  BY <1>1, <3>2, <4>1 DEF IsDetour
    <3> QED  BY <3>1, <3>2
  <2>3. Preds(g, c) \subseteq U
    BY <1>1 DEF IsDetour
  <2> HIDE DEF U
  <2> QED  BY <1>2, <2>1, <2>2, <2>3
<1>5. A \subseteq T
  <2>1. /\ T \in SUBSET F /\ Preds(f, c) \subseteq T /\ \A q \in T : Preds(f, q) \subseteq T
    BY <1>2, <1>3 DEF IsDetour
  <2> HIDE DEF T
  <2> QED  BY <1>1, <2>1
<1>6. \A p \in F : p \in B <=> p \in A
  BY <1>4, <1>5 DEF IsDetour
<1> QED  BY <1>6 DEF Leads, A, B

LEMMA GrownDetour ==
  ASSUME NEW f, NEW g, NEW N, NEW M, NEW i, NEW n, NEW candidate,
         IsGrown(f, g, N, M, i, n, candidate), f.code[Switch(i)].cases \in Seq(Nat)
  PROVE  IsDetour(f, g, Clone(i), Mutant(n), Rest(i))
<1>1. /\ WellFormed(f, N) /\ BlocksWellFormed(f) /\ OnePlace(f)
      /\ WellFormed(g, N) /\ BlocksWellFormed(g) /\ OnePlace(g)
      /\ SiteInv(f, M, i)
  BY GrownBlocks DEF IsGrown, IsNewMutant, Verified
<1>2. /\ BlocksOf(g) = BlocksOf(f) \cup {Mutant(n)} /\ Mutant(n) \notin BlocksOf(f)
      /\ \A c \in BlocksOf(f) : g.layout[c] = f.layout[c]
      /\ \A y \in DOMAIN f.code \ {Switch(i), Phi(i)} : g.code[y] = f.code[y]
  BY GrownHas DEF BlocksOf
<1>3. /\ \A c \in BlocksOf(f) : c # Rest(i) => Preds(g, c) = Preds(f, c)
      /\ Preds(g, Rest(i)) = Preds(f, Rest(i)) \cup {Mutant(n)}
      /\ \A c \in BlocksOf(f) : Succs(f, c) \subseteq BlocksOf(f)
      /\ Succs(g, Mutant(n)) = {Rest(i)}
  BY GrownPreds DEF BlocksOf
<1>4. Clone(i) \in BlocksOf(f) /\ Rest(i) \in BlocksOf(f)
  BY <1>1 DEF SiteInv, BlocksOf
<1>5. Clone(i) \in Preds(f, Rest(i))
  <2> DEFINE t == f.layout[Clone(i)]
  <2>1. t = << Clone(i), CloneBr(i) >> /\ f.code[CloneBr(i)].to = << Rest(i) >>
    BY <1>1 DEF SiteInv
  <2> HIDE DEF t
  <2>2. Len(t) = 2 /\ t[2] = CloneBr(i)
    BY <2>1
  <2>3. Final(f, Clone(i)) = CloneBr(i)
    BY <2>2 DEF Final, t
  <2>4. Succs(f, Clone(i)) = ToSet(f.code[Final(f, Clone(i))].to)
    BY <1>1, <1>4, BlockIs DEF BlocksOf
  <2>5. ToSet(<< Rest(i) >>) = {Rest(i)}
    BY DEF ToSet
  <2> QED  BY <1>4, <2>1, <2>3, <2>4, <2>5 DEF Preds
<1>6. ASSUME NEW p \in Preds(g, Mutant(n)) PROVE p \in Preds(f, Clone(i))
  <2>1. p \in BlocksOf(f) /\ Mutant(n) \in Succs(g, p)
    BY <1>2, <1>3, <1>4 DEF Preds
  <2>2. Final(g, p) = Final(f, p)
    BY <1>2, <2>1 DEF Final
  <2>3. /\ Final(f, p) \in DOMAIN f.code /\ f.code[Final(f, p)].op \in Terminators
        /\ Succs(f, p) = ToSet(f.code[Final(f, p)].to)
        /\ Succs(g, p) = ToSet(g.code[Final(g, p)].to)
    BY <1>1, <1>2, <2>1, BlockIs DEF BlocksOf
  <2>4. Final(f, p) # Phi(i)
    BY <1>1, <2>3 DEF Terminators, SiteInv
  <2>5. CASE Final(f, p) = Switch(i)
    <3> DEFINE s == f.code[Switch(i)].to
    <3>1. s \in Seq(DOMAIN f.layout) /\ Len(s) = Len(f.code[Switch(i)].cases) + 1 /\ s[1] = Clone(i)
      BY <1>1 DEF SiteInv
    <3>2. Len(f.code[Switch(i)].cases) \in Nat
      OBVIOUS
    <3> HIDE DEF s
    <3>3. 1 \in DOMAIN s
      BY <3>1, <3>2
    <3>4. Clone(i) \in ToSet(s)
      BY <3>1, <3>3 DEF ToSet
    <3> QED  BY <2>1, <2>3, <2>5, <3>4 DEF s, Preds
  <2>6. CASE Final(f, p) # Switch(i)
    <3>1. Succs(g, p) = Succs(f, p)
      BY <1>2, <2>2, <2>3, <2>4, <2>6
    <3> QED  BY <1>2, <1>3, <2>1, <3>1
  <2> QED  BY <2>5, <2>6
<1> QED  BY <1>2, <1>3, <1>4, <1>5, <1>6 DEF IsDetour

\* Nor does the block of a new mutant.
LEMMA GrownOrder ==
  ASSUME NEW f, NEW g, NEW N, NEW M, NEW i, NEW n, NEW candidate,
         IsGrown(f, g, N, M, i, n, candidate), f.code[Switch(i)].cases \in Seq(Nat),
         IsFiniteSet(DOMAIN f.code), IsFiniteSet(DOMAIN g.code), Verified(g)
  PROVE  SameOrder(f, g)
<1> SUFFICES ASSUME NEW x \in DOMAIN f.code, NEW y \in DOMAIN f.code
             PROVE  x \in Earlier(g, y) <=> x \in Earlier(f, y)
  BY DEF SameOrder
<1>1. WellFormed(f, N) /\ Verified(f) /\ OnePlace(f) /\ WellFormed(g, N) /\ OnePlace(g)
  BY DEF IsGrown, IsNewMutant, Verified
<1>2. PICK c, l : OnlyAt(f, x, c, l)
  BY <1>1, PlaceOf
<1>3. PICK d, m : OnlyAt(f, y, d, m)
  BY <1>1, PlaceOf
<1>4. ASSUME NEW z, NEW e, NEW h, OnlyAt(f, z, e, h) PROVE OnlyAt(g, z, e, h)
  <2>1. e \in DOMAIN g.layout /\ g.layout[e] = f.layout[e]
    BY <1>4, GrownHas DEF OnlyAt
  <2>2. h \in DOMAIN g.layout[e] /\ g.layout[e][h] = z
    BY <1>4, <2>1 DEF OnlyAt
  <2> QED  BY <1>1, <2>1, <2>2, PlaceIs
<1>5. x \in Earlier(f, y) <=> (c = d /\ l < m) \/ Leads(f, c, d)
  BY <1>1, <1>2, <1>3, EarlierIs
<1>6. x \in Earlier(g, y) <=> (c = d /\ l < m) \/ Leads(g, c, d)
  BY <1>1, <1>2, <1>3, <1>4, EarlierIs
<1>7. c \in BlocksOf(f) /\ d \in BlocksOf(f)
  BY <1>2, <1>3 DEF OnlyAt, BlocksOf
<1>8. Leads(g, c, d) <=> Leads(f, c, d)
  BY <1>7, GrownDetour, DetourLeads
<1> QED  BY <1>5, <1>6, <1>8

-------------------------------------------------------------------------------
(* The edits that leave the graph alone.                                   *)

\* g has the graph of f, and what was at place l of block c is at place at[c][l].
LEMMA GraphOrder ==
  ASSUME NEW f, NEW g, NEW N, WellFormed(f, N), WellFormed(g, N), Verified(f), Verified(g),
         IsFiniteSet(DOMAIN f.code), IsFiniteSet(DOMAIN g.code),
         BlocksOf(g) = BlocksOf(f), \A c \in BlocksOf(f) : Preds(g, c) = Preds(f, c),
         NEW at, NEW D,
         \A x \in D : \A c, l : OnlyAt(f, x, c, l) => OnlyAt(g, x, c, at[c][l]),
         \A x, y \in D : \A c, l, m : OnlyAt(f, x, c, l) /\ OnlyAt(f, y, c, m) =>
                                      (l < m <=> at[c][l] < at[c][m]),
         DOMAIN f.code \cap DOMAIN g.code \subseteq D
  PROVE  SameOrder(f, g)
<1> SUFFICES ASSUME NEW x \in D, NEW y \in D, x \in DOMAIN f.code, y \in DOMAIN f.code
             PROVE  x \in Earlier(g, y) <=> x \in Earlier(f, y)
  BY DEF SameOrder
<1>1. OnePlace(f)
  BY DEF Verified
<1>2. PICK c, l : OnlyAt(f, x, c, l)
  BY <1>1, PlaceOf
<1>3. PICK d, m : OnlyAt(f, y, d, m)
  BY <1>1, PlaceOf
<1>4. x \in Earlier(f, y) <=> (c = d /\ l < m) \/ Leads(f, c, d)
  BY <1>2, <1>3, EarlierIs
<1>5. OnlyAt(g, x, c, at[c][l]) /\ OnlyAt(g, y, d, at[d][m])
  BY <1>2, <1>3
<1>6. x \in Earlier(g, y) <=> (c = d /\ at[c][l] < at[d][m]) \/ Leads(g, c, d)
  BY <1>5, EarlierIs
<1>7. c = d => (l < m <=> at[c][l] < at[d][m])
  BY <1>2, <1>3
<1>8. Leads(g, c, d) <=> Leads(f, c, d)
  <2>1. c \in BlocksOf(f) /\ d \in BlocksOf(f)
    BY <1>2, <1>3 DEF OnlyAt, BlocksOf
  <2>2. InEdges(g) = InEdges(f)
    BY DEF InEdges
  <2> QED  BY <2>1, <2>2 DEF Leads
<1> QED  BY <1>4, <1>6, <1>7, <1>8

\* Nor does the erasure of an instruction that ends no block.
LEMMA ErasedOrder ==
  ASSUME NEW f, NEW g, NEW N, NEW x, NEW b, NEW k, IsErased(f, g, N, x, b, k),
         IsFiniteSet(DOMAIN f.code), IsFiniteSet(DOMAIN g.code)
  PROVE  SameOrder(f, g)
<1> DEFINE at == [c \in DOMAIN f.layout |-> [l \in DOMAIN f.layout[c] |->
                    IF c = b /\ k < l THEN l - 1 ELSE l]]
           D == DOMAIN g.code
<1>1. /\ WellFormed(f, N) /\ Verified(f) /\ OnePlace(f) /\ WellFormed(g, N) /\ OnePlace(g)
      /\ DOMAIN g.layout = DOMAIN f.layout /\ DOMAIN g.code = DOMAIN f.code \ {x}
      /\ \A y \in DOMAIN f.code \ {x} : g.code[y] = f.code[y]
      /\ BlocksWellFormed(f) /\ Removed(f.layout[b], k, g.layout[b]) /\ OnlyAt(f, x, b, k)
      /\ \A c \in DOMAIN f.layout : c # b => g.layout[c] = f.layout[c]
  BY DEF IsErased, Verified
<1>2. Verified(g) /\ BlocksWellFormed(g)
  BY ErasedVerified DEF Verified
<1>3. ASSUME NEW c \in DOMAIN f.layout PROVE Succs(g, c) = Succs(f, c)
  <2>1. Final(g, c) = Final(f, c)
    BY ErasedBlocks
  <2>2. Final(f, c) \in DOMAIN f.code /\ Succs(f, c) = ToSet(f.code[Final(f, c)].to)
    BY <1>1, BlockIs
  <2>3. Final(g, c) \in DOMAIN g.code /\ Succs(g, c) = ToSet(g.code[Final(g, c)].to)
    BY <1>1, <1>2, BlockIs
  <2> QED  BY <1>1, <2>1, <2>2, <2>3
<1>4. BlocksOf(g) = BlocksOf(f) /\ \A c \in BlocksOf(f) : Preds(g, c) = Preds(f, c)
  BY <1>1, <1>3 DEF Preds, BlocksOf
<1>5. ASSUME NEW y, NEW c, NEW l, OnlyAt(f, y, c, l)
      PROVE  /\ c \in DOMAIN f.layout /\ l \in DOMAIN f.layout[c] /\ l \in Nat \ {0}
             /\ at[c][l] = IF c = b /\ k < l THEN l - 1 ELSE l
             /\ f.layout[c][l] = y /\ l <= Len(f.layout[c]) /\ Len(f.layout[c]) \in Nat
  <2>1. c \in DOMAIN f.layout /\ f.layout[c] \in Seq(N) /\ l \in 1 .. Len(f.layout[c])
        /\ l \in DOMAIN f.layout[c] /\ f.layout[c][l] = y
    BY <1>1, <1>5, OnlyAtIs DEF OnlyAt
  <2>2. at[c][l] = IF c = b /\ k < l THEN l - 1 ELSE l
    BY <2>1
  <2> HIDE DEF at
  <2> QED  BY <2>1, <2>2
<1> HIDE DEF at
<1>6. k \in Nat \ {0} /\ f.layout[b][k] = x /\ b \in DOMAIN f.layout
  BY <1>1, <1>5
<1>7. ASSUME NEW y \in D, NEW c, NEW l, OnlyAt(f, y, c, l)
      PROVE  OnlyAt(g, y, c, at[c][l]) /\ (c = b => l # k)
  <2>0. c = b => l # k
    BY <1>1, <1>5, <1>6, <1>7
  <2>1. ASSUME NEW j \in 1 .. Len(g.layout[c]), g.layout[c][j] = y PROVE OnlyAt(g, y, c, j)
    <3>1. c \in DOMAIN g.layout
      BY <1>1, <1>5, <1>7
    <3>2. g.layout[c] \in Seq(N)
      BY <1>1, <3>1 DEF WellFormed
    <3>3. j \in DOMAIN g.layout[c]
      BY <2>1, <3>2
    <3> QED  BY <1>1, <2>1, <3>1, <3>3, PlaceIs
  <2>2. CASE c # b
    <3>1. g.layout[c] = f.layout[c] /\ at[c][l] = l /\ l \in 1 .. Len(f.layout[c])
      BY <1>1, <1>5, <1>7, <2>2
    <3> QED  BY <1>5, <1>7, <2>0, <2>1, <3>1
  <2>3. CASE c = b /\ l < k
    <3>1. at[c][l] = l /\ l \in 1 .. k - 1 /\ k <= Len(f.layout[b]) /\ Len(f.layout[b]) \in Nat
      BY <1>1, <1>5, <1>6, <1>7, <2>3
    <3>2. g.layout[b][l] = f.layout[b][l] /\ Len(g.layout[b]) = Len(f.layout[b]) - 1
      BY <1>1, <3>1 DEF Removed
    <3>3. l \in 1 .. Len(g.layout[b])
      BY <1>6, <3>1, <3>2
    <3> QED  BY <1>5, <1>7, <2>1, <2>3, <3>1, <3>2, <3>3
  <2>4. CASE c = b /\ k < l
    <3>1. at[c][l] = l - 1 /\ l \in k + 1 .. Len(f.layout[b]) /\ Len(f.layout[b]) \in Nat
      BY <1>5, <1>6, <1>7, <2>4
    <3>2. g.layout[b][l - 1] = f.layout[b][l] /\ Len(g.layout[b]) = Len(f.layout[b]) - 1
      BY <1>1, <3>1 DEF Removed
    <3>3. l - 1 \in 1 .. Len(g.layout[b])
      BY <1>6, <3>1, <3>2
    <3> QED  BY <1>5, <1>7, <2>1, <2>4, <3>1, <3>2, <3>3
  <2>5. l \in Nat
    BY <1>5, <1>7
  <2> QED  BY <1>6, <2>0, <2>2, <2>3, <2>4, <2>5
<1>8. ASSUME NEW y \in D, NEW z \in D, NEW c, NEW l, NEW m,
             OnlyAt(f, y, c, l), OnlyAt(f, z, c, m)
      PROVE  l < m <=> at[c][l] < at[c][m]
  <2>1. /\ l \in Nat /\ at[c][l] = (IF c = b /\ k < l THEN l - 1 ELSE l)
        /\ m \in Nat /\ at[c][m] = (IF c = b /\ k < m THEN m - 1 ELSE m)
    BY <1>5, <1>8
  <2>2. c = b => l # k /\ m # k
    BY <1>7, <1>8
  <2> QED  BY <1>6, <2>1, <2>2
<1>9. DOMAIN f.code \cap DOMAIN g.code \subseteq D
  OBVIOUS
<1>10. /\ \A y \in D : \A c, l : OnlyAt(f, y, c, l) => OnlyAt(g, y, c, at[c][l])
       /\ \A y, z \in D : \A c, l, m : OnlyAt(f, y, c, l) /\ OnlyAt(f, z, c, m) =>
                                         (l < m <=> at[c][l] < at[c][m])
  BY <1>7, <1>8
<1>11. WellFormed(f, N) /\ Verified(f) /\ WellFormed(g, N) /\ Verified(g)
  BY <1>1, <1>2
<1> HIDE DEF D
<1> QED  BY <1>4, <1>9, <1>10, <1>11, GraphOrder

\* Nor does the call of the loader at the head of main.
LEMMA CallingOrder ==
  ASSUME NEW f, NEW g, NEW N, NEW e, NEW x, IsCalling(f, g, N, e, x),
         IsFiniteSet(DOMAIN f.code), IsFiniteSet(DOMAIN g.code)
  PROVE  SameOrder(f, g)
<1> DEFINE at == [c \in DOMAIN f.layout |-> [l \in DOMAIN f.layout[c] |->
                    IF c = e THEN l + 1 ELSE l]]
           D == DOMAIN f.code
<1>1. /\ WellFormed(f, N) /\ Verified(f) /\ OnePlace(f) /\ WellFormed(g, N) /\ OnePlace(g)
      /\ DOMAIN g.layout = DOMAIN f.layout /\ DOMAIN g.code = DOMAIN f.code \cup {x}
      /\ \A y \in DOMAIN f.code : g.code[y] = f.code[y]
      /\ BlocksWellFormed(f) /\ Inserted(f.layout[e], 1, x, g.layout[e])
      /\ \A c \in DOMAIN f.layout : c # e => g.layout[c] = f.layout[c]
      /\ e \in DOMAIN f.layout
  BY DEF IsCalling, Verified
<1>2. Verified(g) /\ BlocksWellFormed(g)
  BY CallingVerified DEF Verified
<1>3. ASSUME NEW c \in DOMAIN f.layout PROVE Succs(g, c) = Succs(f, c)
  <2>1. Final(g, c) = Final(f, c)
    <3>1. CASE c = e
      <4> DEFINE s == f.layout[e]
                 t == g.layout[e]
      <4>1. /\ Len(s) \in Nat \ {0} /\ Len(t) = Len(s) + 1 /\ DOMAIN t = 1 .. Len(t)
            /\ \A l \in DOMAIN t : l # 1 => l - 1 \in DOMAIN s /\ t[l] = s[l - 1]
        BY CallingHead
      <4> HIDE DEF s, t
      <4>2. Len(t) \in DOMAIN t /\ Len(t) # 1 /\ Len(t) - 1 = Len(s)
        BY <4>1
      <4>3. t[Len(t)] = s[Len(t) - 1]
        BY <4>1, <4>2
      <4> QED  BY <3>1, <4>2, <4>3 DEF s, t, Final
    <3>2. CASE c # e
      BY <1>1, <3>2 DEF Final
    <3> QED  BY <3>1, <3>2
  <2>2. Final(f, c) \in DOMAIN f.code /\ Succs(f, c) = ToSet(f.code[Final(f, c)].to)
    BY <1>1, BlockIs
  <2>3. Final(g, c) \in DOMAIN g.code /\ Succs(g, c) = ToSet(g.code[Final(g, c)].to)
    BY <1>1, <1>2, BlockIs
  <2> QED  BY <1>1, <2>1, <2>2, <2>3
<1>4. BlocksOf(g) = BlocksOf(f) /\ \A c \in BlocksOf(f) : Preds(g, c) = Preds(f, c)
  BY <1>1, <1>3 DEF Preds, BlocksOf
<1>5. ASSUME NEW y, NEW c, NEW l, OnlyAt(f, y, c, l)
      PROVE  /\ c \in DOMAIN f.layout /\ l \in DOMAIN f.layout[c] /\ l \in Nat \ {0}
             /\ at[c][l] = IF c = e THEN l + 1 ELSE l
             /\ f.layout[c][l] = y /\ l <= Len(f.layout[c]) /\ Len(f.layout[c]) \in Nat
  <2>1. c \in DOMAIN f.layout /\ f.layout[c] \in Seq(N) /\ l \in 1 .. Len(f.layout[c])
        /\ l \in DOMAIN f.layout[c] /\ f.layout[c][l] = y
    BY <1>1, <1>5, OnlyAtIs DEF OnlyAt
  <2> QED  BY <2>1
<1> HIDE DEF at
<1>6. ASSUME NEW y \in D, NEW c, NEW l, OnlyAt(f, y, c, l) PROVE OnlyAt(g, y, c, at[c][l])
  <2>1. ASSUME NEW j \in 1 .. Len(g.layout[c]), g.layout[c][j] = y PROVE OnlyAt(g, y, c, j)
    <3>1. c \in DOMAIN g.layout /\ j \in DOMAIN g.layout[c]
      BY <1>1, <1>5, <1>6, <2>1 DEF WellFormed
    <3> QED  BY <1>1, <2>1, <3>1, PlaceIs
  <2>2. CASE c # e
    <3>1. g.layout[c] = f.layout[c] /\ at[c][l] = l /\ l \in 1 .. Len(f.layout[c])
      BY <1>1, <1>5, <1>6, <2>2
    <3> QED  BY <1>5, <1>6, <2>1, <3>1
  <2>3. CASE c = e
    <3>1. at[c][l] = l + 1 /\ l \in 1 .. Len(f.layout[e]) /\ Len(f.layout[e]) \in Nat
      BY <1>5, <1>6, <2>3
    <3>2. g.layout[e][l + 1] = f.layout[e][l] /\ Len(g.layout[e]) = Len(f.layout[e]) + 1
      BY <1>1, <3>1 DEF Inserted
    <3>3. l + 1 \in 1 .. Len(g.layout[e])
      BY <3>1, <3>2
    <3> QED  BY <1>5, <1>6, <2>1, <2>3, <3>1, <3>2, <3>3
  <2> QED  BY <2>2, <2>3
<1>7. ASSUME NEW y \in D, NEW z \in D, NEW c, NEW l, NEW m,
             OnlyAt(f, y, c, l), OnlyAt(f, z, c, m)
      PROVE  l < m <=> at[c][l] < at[c][m]
  <2>1. /\ l \in Nat /\ at[c][l] = (IF c = e THEN l + 1 ELSE l)
        /\ m \in Nat /\ at[c][m] = (IF c = e THEN m + 1 ELSE m)
    BY <1>5, <1>7
  <2> QED  BY <2>1
<1>8. DOMAIN f.code \cap DOMAIN g.code \subseteq D
  OBVIOUS
<1>9. /\ \A y \in D : \A c, l : OnlyAt(f, y, c, l) => OnlyAt(g, y, c, at[c][l])
      /\ \A y, z \in D : \A c, l, m : OnlyAt(f, y, c, l) /\ OnlyAt(f, z, c, m) =>
                                        (l < m <=> at[c][l] < at[c][m])
  BY <1>6, <1>7
<1> HIDE DEF D
<1> QED  BY <1>1, <1>2, <1>4, <1>8, <1>9, GraphOrder

-------------------------------------------------------------------------------
(* The lists the mutators walk.                                            *)

Unrepeated(s) == \A k, l \in DOMAIN s : s[k] = s[l] => k = l

LEMMA TablesUnrepeated ==
  /\ Unrepeated(IntOpcodes) /\ Unrepeated(FloatOpcodes)
  /\ Unrepeated(SignedPredicates) /\ Unrepeated(UnsignedPredicates)
<1>1. Unrepeated(IntOpcodes)
  BY DEF Unrepeated, IntOpcodes
<1>2. Unrepeated(FloatOpcodes) /\ Unrepeated(SignedPredicates) /\ Unrepeated(UnsignedPredicates)
  BY DEF Unrepeated, FloatOpcodes, SignedPredicates, UnsignedPredicates
<1> QED  BY <1>1, <1>2

\* What SetToSeqs makes of a finite set: the lists of its elements.
LEMMA OrderingsAre ==
  ASSUME NEW S, IsFiniteSet(S)
  PROVE  /\ SetToSeqs(S) # {}
         /\ \A s \in SetToSeqs(S) : IsList(s) /\ Unrepeated(s) /\ ToSet(s) = S
<1> DEFINE D == 1 .. Cardinality(S)
<1>1. SetToSeqs(S) = {f \in [D -> S] : \A i, j \in D : i # j => f[i] # f[j]}
  BY DEF SetToSeqs
<1>2. Cardinality(S) \in Nat /\ ExistsBijection(D, S) /\ IsFiniteSet(D)
      /\ Cardinality(D) = Cardinality(S)
  <2>1. Cardinality(S) \in Nat /\ ExistsBijection(D, S)
    BY FS_CardinalityType
  <2> QED  BY <2>1, FS_Interval
<1> HIDE DEF D
<1>3. SetToSeqs(S) # {}
  <2>1. PICK f : f \in Bijection(D, S)
    BY <1>2 DEF ExistsBijection
  <2>2. f \in SetToSeqs(S)
    BY <1>1, <2>1 DEF Bijection, Injection, IsInjective
  <2> QED  BY <2>2
<1>4. ASSUME NEW s \in SetToSeqs(S) PROVE IsList(s) /\ Unrepeated(s) /\ ToSet(s) = S
  <2>1. s \in [D -> S] /\ \A i, j \in D : s[i] = s[j] => i = j
    BY <1>1
  <2>2. s \in Injection(D, S)
    BY <2>1 DEF Injection, IsInjective
  <2>3. s \in Surjection(D, S)
    BY <1>2, <2>2, FS_Injection
  <2>4. ToSet(s) = S
    BY <2>1, <2>3 DEF ToSet, Surjection
  <2>5. s \in Seq(S)
    BY <1>2, <2>1 DEF D
  <2> QED  BY <2>1, <2>4, <2>5 DEF IsList, Unrepeated
<1> QED  BY <1>3, <1>4

\* What the mutator of instruction i is offered, whatever the order.
OfferedTo(f, env, i) ==
  LET ins == f.code[i] IN
  CASE MutatorFor(ins.op) = "BinOpcodeMutator" -> ToSet(BinOpcodeCandidates(ins))
    [] MutatorFor(ins.op) = "ICmpMutator"      -> ToSet(ICmpCandidates(ins))
    [] MutatorFor(ins.op) = "LoadMutator"      -> findReachingValuesWithType(f, env, i, ins.ty)
    [] OTHER -> {}

\* Whatever list a mutator walks: it has each candidate once.
LEMMA ListsAre ==
  ASSUME NEW f, NEW env, NEW i, IsFiniteSet(findReachingValues(f, env, i))
  PROVE  /\ CandidateLists(f, env, i) # {}
         /\ \A s \in CandidateLists(f, env, i) :
              IsList(s) /\ Unrepeated(s) /\ ToSet(s) = OfferedTo(f, env, i)
<1> DEFINE op == f.code[i].op
           V == findReachingValuesWithType(f, env, i, f.code[i].ty)
<1>1. CASE MutatorFor(op) = "BinOpcodeMutator"
  <2>1. /\ CandidateLists(f, env, i) = {BinOpcodeCandidates(f.code[i])}
        /\ OfferedTo(f, env, i) = ToSet(BinOpcodeCandidates(f.code[i]))
    BY <1>1 DEF CandidateLists, OfferedTo
  <2> QED  BY <2>1, TablesAre, TablesUnrepeated DEF BinOpcodeCandidates
<1>2. CASE MutatorFor(op) = "ICmpMutator"
  <2>1. /\ CandidateLists(f, env, i) = {ICmpCandidates(f.code[i])}
        /\ OfferedTo(f, env, i) = ToSet(ICmpCandidates(f.code[i]))
    BY <1>2 DEF CandidateLists, OfferedTo
  <2> QED  BY <2>1, TablesAre, TablesUnrepeated DEF ICmpCandidates
<1>3. CASE MutatorFor(op) = "LoadMutator"
  <2>1. CandidateLists(f, env, i) = SetToSeqs(V) /\ OfferedTo(f, env, i) = V
    BY <1>3 DEF CandidateLists, OfferedTo
  <2>2. V \subseteq findReachingValues(f, env, i)
    BY DEF findReachingValuesWithType
  <2> HIDE DEF V
  <2>3. IsFiniteSet(V)
    BY <2>2, FS_Subset
  <2> QED  BY <2>1, <2>3, OrderingsAre
<1>4. CASE MutatorFor(op) \notin {"BinOpcodeMutator", "ICmpMutator", "LoadMutator"}
  <2>1. CandidateLists(f, env, i) = {<<>>} /\ OfferedTo(f, env, i) = {}
    BY <1>4 DEF CandidateLists, OfferedTo
  <2>2. IsList(<<>>) /\ Unrepeated(<<>>) /\ ToSet(<<>>) = {}
    BY DEF IsList, Unrepeated, ToSet
  <2> QED  BY <2>1, <2>2
<1> QED  BY <1>1, <1>2, <1>3, <1>4

LEMMA TailIs ==
  ASSUME NEW s, IsList(s), Unrepeated(s), s # <<>>
  PROVE  /\ IsList(Tail(s)) /\ Unrepeated(Tail(s))
         /\ Len(s) \in Nat /\ Len(Tail(s)) = Len(s) - 1
         /\ Head(s) \in ToSet(s) /\ ToSet(Tail(s)) = ToSet(s) \ {Head(s)}
<1> DEFINE t == Tail(s)
<1>1. /\ s \in Seq(ToSet(s)) /\ Len(s) \in Nat \ {0} /\ DOMAIN s = 1 .. Len(s)
      /\ t \in Seq(ToSet(s)) /\ Len(t) = Len(s) - 1 /\ DOMAIN t = 1 .. Len(t)
      /\ \A k \in DOMAIN t : t[k] = s[k + 1]
      /\ Head(s) = s[1]
  BY DEF IsList
<1> HIDE DEF t
<1>2. \A k \in DOMAIN t : k + 1 \in DOMAIN s
  BY <1>1
<1>3. \A k \in DOMAIN s : k # 1 => k - 1 \in DOMAIN t /\ t[k - 1] = s[k]
  <2> SUFFICES ASSUME NEW k \in DOMAIN s, k # 1 PROVE k - 1 \in DOMAIN t /\ t[k - 1] = s[k]
    OBVIOUS
  <2>1. k - 1 \in DOMAIN t /\ (k - 1) + 1 = k
    BY <1>1
  <2> QED  BY <1>1, <2>1
<1>4. Unrepeated(t)
  <2> SUFFICES ASSUME NEW k \in DOMAIN t, NEW l \in DOMAIN t, t[k] = t[l] PROVE k = l
    BY DEF Unrepeated
  <2>1. s[k + 1] = s[l + 1] /\ k + 1 \in DOMAIN s /\ l + 1 \in DOMAIN s
    BY <1>1, <1>2
  <2>2. k + 1 = l + 1
    BY <2>1 DEF Unrepeated
  <2> QED  BY <1>1, <2>2
<1>5. ToSet(t) = ToSet(s) \ {Head(s)}
  <2>1. ASSUME NEW k \in DOMAIN t PROVE t[k] \in ToSet(s) \ {Head(s)}
    <3>1. k + 1 \in DOMAIN s /\ k + 1 # 1 /\ 1 \in DOMAIN s
      BY <1>1, <1>2
    <3>2. s[k + 1] # s[1]
      BY <3>1 DEF Unrepeated
    <3> QED  BY <1>1, <3>1, <3>2 DEF ToSet
  <2>2. ASSUME NEW k \in DOMAIN s, s[k] # Head(s) PROVE s[k] \in ToSet(t)
    <3>1. k # 1
      BY <1>1, <2>2
    <3> QED  BY <1>3, <3>1 DEF ToSet
  <2> QED  BY <2>1, <2>2 DEF ToSet
<1>6. IsList(t)
  <2> DEFINE T == ToSet(t)
  <2>1. \A k \in DOMAIN t : t[k] \in T
    BY DEF ToSet
  <2> HIDE DEF T
  <2>2. t \in Seq(T)
    BY <1>1, <2>1
  <2> QED  BY <2>2 DEF IsList, T
<1>7. Head(s) \in ToSet(s)
  BY <1>1 DEF ToSet
<1> QED  BY <1>1, <1>4, <1>5, <1>6, <1>7 DEF t

-------------------------------------------------------------------------------
(* The lists are finite, so run() returns.                                 *)

\* What findReachingValues finds, in a function and outside of it, is finite.
LEMMA FindsFinite ==
  ASSUME NEW f, NEW N, WellFormed(f, N), Verified(f), IsFiniteSet(DOMAIN f.code),
         NEW env, IsFiniteSet(DOMAIN env.args), IsFiniteSet(DOMAIN env.globals),
         NEW y \in DOMAIN f.code
  PROVE  IsFiniteSet(findReachingValues(f, env, y))
<1>1. PICK b, k : OnlyAt(f, y, b, k)
  BY PlaceOf DEF Verified
<1>2. IsFiniteSet(Earlier(f, y))
  BY <1>1, EarlierIs, FS_Subset
<1> DEFINE A == DOMAIN env.args \cup DOMAIN env.globals
<1>3. IsFiniteSet(A)
  BY FS_Union
<1> HIDE DEF A
<1>4. IsFiniteSet(A \cup Earlier(f, y))
  BY <1>2, <1>3, FS_Union
<1> QED  BY <1>4, ReachingIs DEF A
-------------------------------------------------------------------------------
(* The types stay what they were: what a mutator is offered depends on them. *)

SameTypes(f, g) == \A y \in DOMAIN f.code : y \in DOMAIN g.code /\ g.code[y].ty = f.code[y].ty

LEMMA PushBackTypes ==
  ASSUME NEW f, NEW b, NEW x, x \notin DOMAIN f.code, NEW ins
  PROVE  /\ SameTypes(f, PushBack(f, b, x, ins))
         /\ DOMAIN PushBack(f, b, x, ins).code = DOMAIN f.code \cup {x}
BY DEF SameTypes, PushBack, Edit, Put

LEMMA InsertBeforeTypes ==
  ASSUME NEW f, NEW i, NEW x, x \notin DOMAIN f.code, NEW ins
  PROVE  /\ SameTypes(f, InsertBefore(f, i, x, ins))
         /\ DOMAIN InsertBefore(f, i, x, ins).code = DOMAIN f.code \cup {x}
BY DEF SameTypes, InsertBefore, Edit, Put

LEMMA RenameType ==
  ASSUME NEW ins, NEW V(_), NEW B(_)
  PROVE  Rename(ins, V, B).ty = ins.ty
BY DEF Rename

LEMMA ReplaceAllUsesTypes ==
  ASSUME NEW f, NEW old, NEW new
  PROVE  /\ SameTypes(f, ReplaceAllUses(f, old, new))
         /\ DOMAIN ReplaceAllUses(f, old, new).code = DOMAIN f.code
<1> DEFINE V(v) == IF v = old THEN new ELSE v
           B(b) == b
           code == [x \in DOMAIN f.code |-> Rename(f.code[x], V, B)]
<1>1. ReplaceAllUses(f, old, new).code = code
  BY DEF ReplaceAllUses, Edit
<1>2. \A x \in DOMAIN f.code : code[x].ty = f.code[x].ty
  BY DEF Rename
<1>3. DOMAIN code = DOMAIN f.code
  OBVIOUS
<1> HIDE DEF code
<1> QED  BY <1>1, <1>2, <1>3 DEF SameTypes

LEMMA SplitBlockTypes ==
  ASSUME NEW f, NEW i, NEW new, NEW br, br \notin DOMAIN f.code
  PROVE  /\ SameTypes(f, SplitBlock(f, i, new, br))
         /\ DOMAIN SplitBlock(f, i, new, br).code = DOMAIN f.code \cup {br}
<1> DEFINE b == BlockOf(f, i)
           V(v) == v
           B(p) == IF p = b THEN new ELSE p
           renamed == [x \in DOMAIN f.code |-> Rename(f.code[x], V, B)]
           code == Put(renamed, br, Jump(new))
<1>1. SplitBlock(f, i, new, br).code = code
  BY DEF SplitBlock, Edit
<1>2. \A x \in DOMAIN f.code : renamed[x].ty = f.code[x].ty
  BY DEF Rename
<1>3. DOMAIN renamed = DOMAIN f.code
  OBVIOUS
<1> HIDE DEF renamed
<1>4. DOMAIN code = DOMAIN f.code \cup {br} /\ \A x \in DOMAIN f.code : code[x] = renamed[x]
  BY <1>3 DEF Put
<1> HIDE DEF code
<1> QED  BY <1>1, <1>2, <1>4 DEF SameTypes

LEMMA PreparedTypes ==
  ASSUME NEW f, NEW N, NEW i, IsNewSite(f, N, i)
  PROVE  SameTypes(f, PreparedIR(f, i))
<1> DEFINE f1 == WithClone(f, i)
           f2 == WithSwitch(f1, i)
           f3 == WithRest(f2, i)
           f4 == WithPhi(f3, i)
<1>1. /\ WellFormed(f, N) /\ i \in DOMAIN f.code /\ Created(i) \subseteq N
      /\ Clone(i) \notin DOMAIN f.code /\ CloneBr(i) \notin DOMAIN f.code
      /\ GlobalLoad(i) \notin DOMAIN f.code /\ Switch(i) \notin DOMAIN f.code
      /\ SplitBr(i) \notin DOMAIN f.code /\ Phi(i) \notin DOMAIN f.code /\ SplitBr(i) \in N
      /\ Clone(i) \notin DOMAIN f.layout /\ Rest(i) \notin DOMAIN f.layout
      /\ Clone(i) # CloneBr(i) /\ GlobalLoad(i) # Switch(i)
      /\ {Phi(i), SplitBr(i)} \cap {Clone(i), CloneBr(i), GlobalLoad(i), Switch(i)} = {}
      /\ {GlobalLoad(i), Switch(i)} \cap {Clone(i), CloneBr(i)} = {}
      /\ Phi(i) # SplitBr(i) /\ Rest(i) # Clone(i)
  BY DEF IsNewSite, Created, Clone, CloneBr, GlobalLoad, Switch, SplitBr, Phi, Rest
<1>2. /\ SameTypes(f, f1) /\ WellFormed(f1, N)
      /\ DOMAIN f1.code = DOMAIN f.code \cup {Clone(i), CloneBr(i)}
      /\ DOMAIN f1.layout = DOMAIN f.layout \cup {Clone(i)}
  <2> DEFINE e0 == AddBlock(f, Clone(i))
             e1 == PushBack(e0, Clone(i), Clone(i), f.code[i])
             e2 == PushBack(e1, Clone(i), CloneBr(i), Jump(Rest(i)))
  <2>1. f1 = e2
    BY DEF WithClone
  <2>2. e0.code = f.code
    BY DEF AddBlock, Edit
  <2> HIDE DEF e0
  <2>3. Clone(i) \notin DOMAIN e0.code
    BY <1>1, <2>2
  <2>4. SameTypes(e0, e1) /\ DOMAIN e1.code = DOMAIN e0.code \cup {Clone(i)}
    BY <2>3, PushBackTypes
  <2> HIDE DEF e1
  <2>5. CloneBr(i) \notin DOMAIN e1.code
    BY <1>1, <2>2, <2>4
  <2>6. SameTypes(e1, e2) /\ DOMAIN e2.code = DOMAIN e1.code \cup {CloneBr(i)}
    BY <2>5, PushBackTypes
  <2> HIDE DEF e2, f1
  <2>7. SameTypes(f, f1)
    BY <2>1, <2>2, <2>4, <2>6 DEF SameTypes
  <2>8. /\ WellFormed(f1, N) /\ DOMAIN f1.layout = DOMAIN f.layout \cup {Clone(i)}
        /\ DOMAIN f1.code = DOMAIN f.code \cup {Clone(i), CloneBr(i)}
    BY <1>1, WithCloneIs DEF f1
  <2> QED  BY <2>7, <2>8
<1> HIDE DEF f1
<1>3. /\ SameTypes(f1, f2) /\ WellFormed(f2, N) /\ DOMAIN f2.layout = DOMAIN f1.layout
      /\ DOMAIN f2.code = DOMAIN f1.code \cup {GlobalLoad(i), Switch(i)}
  <2> DEFINE load == Ins("load", "i64", <<Global(SourceID(i))>>)
             switch == [Ins("switch", "void", <<GlobalLoad(i)>>) EXCEPT !.to = <<Clone(i)>>]
             e1 == InsertBefore(f1, i, GlobalLoad(i), load)
             e2 == InsertBefore(e1, i, Switch(i), switch)
  <2>1. f2 = e2
    BY DEF WithSwitch
  <2> HIDE DEF load, switch
  <2>2. GlobalLoad(i) \notin DOMAIN f1.code
    BY <1>1, <1>2
  <2>3. SameTypes(f1, e1) /\ DOMAIN e1.code = DOMAIN f1.code \cup {GlobalLoad(i)}
    <3>1. \A x : x \notin DOMAIN f1.code =>
            /\ SameTypes(f1, InsertBefore(f1, i, x, load))
            /\ DOMAIN InsertBefore(f1, i, x, load).code = DOMAIN f1.code \cup {x}
      BY InsertBeforeTypes
    <3> QED  BY <2>2, <3>1
  <2> HIDE DEF e1
  <2>4. Switch(i) \notin DOMAIN e1.code
    BY <1>1, <1>2, <2>3
  <2>5. SameTypes(e1, e2)
    BY <2>4, InsertBeforeTypes
  <2> HIDE DEF e2, f2
  <2>6. SameTypes(f1, f2)
    BY <2>1, <2>3, <2>5 DEF SameTypes
  <2>7. /\ WellFormed(f2, N) /\ DOMAIN f2.layout = DOMAIN f1.layout
        /\ DOMAIN f2.code = DOMAIN f1.code \cup {GlobalLoad(i), Switch(i)}
    BY <1>1, <1>2, WithSwitchIs DEF f2
  <2> QED  BY <2>6, <2>7
<1> HIDE DEF f2
<1>4. \A y \in DOMAIN f.code : y \in DOMAIN f3.code /\ f3.code[y].ty = f2.code[y].ty
  <2> DEFINE e1 == SplitBlock(f2, i, Rest(i), SplitBr(i))
             e2 == Erase(e1, SplitBr(i))
  <2>1. /\ i \in DOMAIN f2.code /\ SplitBr(i) \notin DOMAIN f2.code /\ SplitBr(i) \in N
        /\ Rest(i) \notin DOMAIN f2.layout /\ DOMAIN f.code \subseteq DOMAIN f2.code
    BY <1>1, <1>2, <1>3
  <2>2. SameTypes(f2, e1) /\ DOMAIN e1.code = DOMAIN f2.code \cup {SplitBr(i)}
    BY <2>1, SplitBlockTypes
  <2>3. WellFormed(e1, N) /\ Last(e1.layout[BlockOf(f2, i)]) = SplitBr(i)
    BY <1>3, <2>1, SplitBlockIs
  <2>4. f3 = e2
    BY <2>3 DEF WithRest, PopBack
  <2> HIDE DEF e1
  <2>5. \A y \in DOMAIN e1.code \ {SplitBr(i)} : y \in DOMAIN e2.code /\ e2.code[y] = e1.code[y]
    BY <2>2, <2>3, EraseIs
  <2> HIDE DEF e2, f3
  <2> QED  BY <2>1, <2>2, <2>4, <2>5 DEF SameTypes
<1>5. DOMAIN f3.code = DOMAIN f2.code
  <2>1. /\ i \in DOMAIN f2.code /\ SplitBr(i) \notin DOMAIN f2.code
        /\ Rest(i) \notin DOMAIN f2.layout
    BY <1>1, <1>2, <1>3
  <2>2. DOMAIN f3.code = DOMAIN f2.code \ {SplitBr(i)}
    BY <1>1, <1>3, <2>1, WithRestIs
  <2> QED  BY <2>1, <2>2
<1> HIDE DEF f3
<1>6. SameTypes(f3, f4)
  <2> DEFINE phi == [Ins("phi", f3.code[i].ty, <<>>) EXCEPT !.in = {<<Clone(i), Clone(i)>>}]
             e1 == InsertBefore(f3, i, Phi(i), phi)
             e2 == ReplaceAllUses(e1, i, Phi(i))
  <2>1. f4 = e2
    BY DEF WithPhi
  <2> HIDE DEF phi
  <2>2. Phi(i) \notin DOMAIN f3.code
    BY <1>1, <1>2, <1>3, <1>5
  <2>3. SameTypes(f3, e1)
    BY <2>2, InsertBeforeTypes
  <2> HIDE DEF e1
  <2>4. SameTypes(e1, e2)
    BY ReplaceAllUsesTypes
  <2> HIDE DEF e2, f4
  <2> QED  BY <2>1, <2>3, <2>4 DEF SameTypes
<1>7. PreparedIR(f, i) = f4
  BY DEF PreparedIR, f3, f2, f1
<1> HIDE DEF f4
<1> QED  BY <1>2, <1>3, <1>4, <1>6, <1>7 DEF SameTypes

-------------------------------------------------------------------------------
(* What the function offers for an instruction it still has is what the    *)
(* program offers: opcodes, types and what comes before what are the same. *)

Agrees(f) ==
  \A x \in DOMAIN f.code \cap Origs :
    /\ f.code[x].op = program.function.code[x].op
    /\ f.code[x].ty = program.function.code[x].ty
    /\ \A y \in DOMAIN f.code \cap Origs :
         y \in Earlier(f, x) <=> y \in Earlier(program.function, x)

\* No alloca is a site, and the engine's globals are those of its sites.
AgreesInv ==
  /\ Agrees(ir)
  /\ \A i \in Sites : MutatorFor(program.function.code[i].op) # "none"
  /\ DOMAIN globals \subseteq {Global(SourceID(i)) : i \in Sites}

LEMMA AgreesAfter ==
  ASSUME NEW f, NEW g, Agrees(f), SameOrder(f, g), DOMAIN g.code \cap Origs \subseteq DOMAIN f.code,
         \A x \in DOMAIN g.code \cap Origs :
           g.code[x].op = f.code[x].op /\ g.code[x].ty = f.code[x].ty
  PROVE  Agrees(g)
BY DEF Agrees, SameOrder

LEMMA NamesFinite ==
  ASSUME program \in Programs, NEW f, NEW S, NEW M \in Seq(MutationRecords),
         IsFiniteSet(S), NamesInv(f, S, M)
  PROVE  IsFiniteSet(DOMAIN f.code)
<1>1. IsFiniteSet(Origs) /\ IsFiniteSet(MadeFor(S, M))
  BY SourceIsFinite, FiniteSites
<1> DEFINE A == Origs \cup {LoaderCall}
           B == A \cup MadeFor(S, M)
<1>2. IsFiniteSet(A)
  BY <1>1, FS_AddElement
<1> HIDE DEF A
<1>3. IsFiniteSet(B)
  BY <1>1, <1>2, FS_Union
<1>4. DOMAIN f.code \subseteq B
  BY DEF NamesInv, A
<1> QED  BY <1>3, <1>4, FS_Subset

\* An instruction of the program is none of those the engine makes.
LEMMA MadeAreNew ==
  ASSUME program \in Programs
  PROVE  /\ \A i : Created(i) \cap Origs = {}
         /\ \A n : {Mutant(n), MutantBr(n)} \cap Origs = {}
         /\ LoaderCall \notin Origs /\ \A n : Global(n) \notin Origs
BY ProgramIs DEF Created, Clone, CloneBr, GlobalLoad, Switch, SplitBr, Phi, Mutant, MutantBr,
                 LoaderCall, LoaderFunction, Global

\* Preparing a site changes nothing that is offered for another.
LEMMA PreparedAgrees ==
  ASSUME program \in Programs, NEW f, NEW S, NEW M \in Seq(MutationRecords), NEW i,
         CanPrepare(f, S, M, i), IsFiniteSet(S), IsFiniteSet(DOMAIN f.code), Agrees(f)
  PROVE  Agrees(PreparedIR(f, i)) /\ IsFiniteSet(DOMAIN PreparedIR(f, i).code)
<1> DEFINE g == PreparedIR(f, i)
<1>1. PICK b, k : IsSplit(f, g, Names, i, b, k)
  BY PrepareSplits
<1>2. ShapeInv(g, S \cup {i}, M)
  BY PrepareShape
<1>3. SameTypes(f, g)
  BY <1>1, PreparedTypes DEF IsSplit
<1> HIDE DEF g
<1>4. IsFiniteSet(S \cup {i})
  BY FS_AddElement
<1>5. IsFiniteSet(DOMAIN g.code)
  BY <1>2, <1>4, NamesFinite DEF ShapeInv
<1>6. SameOrder(f, g)
  BY <1>1, <1>2, <1>5, EarlierSplit DEF ShapeInv
<1>7. /\ DOMAIN g.code \cap Origs \subseteq DOMAIN f.code
      /\ \A x \in DOMAIN f.code : g.code[x].op = f.code[x].op
  BY <1>1, MadeAreNew DEF IsSplit, IsPrepared, Moved
<1>8. Agrees(g)
  BY <1>3, <1>6, <1>7, AgreesAfter DEF SameTypes
<1> QED  BY <1>5, <1>8 DEF g

\* Nor does a mutation of it.
LEMMA InjectedAgrees ==
  ASSUME program \in Programs, NEW f, NEW S, NEW M, NEW i, NEW candidate, NEW m,
         CanInject(f, S, M, i, candidate, m), IsFiniteSet(DOMAIN f.code), Agrees(f)
  PROVE  Agrees(Injected(f, i, Len(M) + 1, candidate))
<1> DEFINE n == Len(M) + 1
           g == Injected(f, i, n, candidate)
<1>1. IsGrown(f, g, Names, M, i, n, candidate)
  BY InjectGrows
<1>2. f.code[Switch(i)].cases \in Seq(Nat)
  BY DEF CanInject, MayInject, FunctionInv
<1> HIDE DEF g, n
<1>3. /\ DOMAIN g.code = DOMAIN f.code \cup {Mutant(n), MutantBr(n)}
      /\ \A y \in DOMAIN f.code \ {Switch(i), Phi(i)} : g.code[y] = f.code[y]
  BY <1>1, GrownHas
<1>4. IsFiniteSet(DOMAIN g.code)
  <2> DEFINE A == DOMAIN f.code \cup {Mutant(n)}
  <2>1. IsFiniteSet(A)
    BY FS_AddElement
  <2>2. DOMAIN g.code = A \cup {MutantBr(n)}
    BY <1>3
  <2> HIDE DEF A
  <2> QED  BY <2>1, <2>2, FS_AddElement
<1>5. SameOrder(f, g)
  <2>1. Verified(g)
    BY <1>1, GrownVerified
  <2> QED  BY <1>1, <1>2, <1>4, <2>1, GrownOrder
<1>6. /\ DOMAIN g.code \cap Origs \subseteq DOMAIN f.code
      /\ \A x \in DOMAIN g.code \cap Origs : g.code[x] = f.code[x]
  BY <1>3, MadeAreNew DEF Created
<1>7. Agrees(g)
  BY <1>5, <1>6, AgreesAfter
<1> QED  BY <1>7 DEF g, n

\* Nor does the erasure of the original.
LEMMA ErasedAgrees ==
  ASSUME program \in Programs, NEW f, NEW S, NEW M, NEW x, CanErase(f, S, M, x),
         IsFiniteSet(DOMAIN f.code), Agrees(f)
  PROVE  Agrees(Erase(f, x))
<1> DEFINE g == Erase(f, x)
<1>1. PICK b, k : IsErased(f, g, Names, x, b, k)
  BY EraseErases
<1> HIDE DEF g
<1>2. DOMAIN g.code = DOMAIN f.code \ {x} /\ \A y \in DOMAIN f.code \ {x} : g.code[y] = f.code[y]
  BY <1>1 DEF IsErased
<1>3. IsFiniteSet(DOMAIN g.code)
  BY <1>2, FS_Subset
<1>4. SameOrder(f, g)
  BY <1>1, <1>3, ErasedOrder
<1>5. Agrees(g)
  BY <1>2, <1>4, AgreesAfter
<1> QED  BY <1>5 DEF g

\* Nor does the call of the loader.
LEMMA CalledAgrees ==
  ASSUME program \in Programs
  PROVE  Agrees(program.function) /\ Agrees(Called(program.function))
<1> DEFINE f == program.function
           g == Called(f)
<1>1. Agrees(f)
  BY DEF Agrees
<1>2. IsCalling(f, g, Names, f.entry, LoaderCall) /\ IsFiniteSet(DOMAIN f.code)
  BY CallCalls, SourceIsFinite DEF Origs
<1> HIDE DEF g
<1>3. /\ DOMAIN g.code = DOMAIN f.code \cup {LoaderCall}
      /\ \A y \in DOMAIN f.code : g.code[y] = f.code[y]
  BY <1>2 DEF IsCalling
<1>4. IsFiniteSet(DOMAIN g.code)
  BY <1>2, <1>3, FS_AddElement
<1>5. SameOrder(f, g)
  BY <1>2, <1>4, CallingOrder
<1>6. DOMAIN f.code = Origs
  BY DEF Origs
<1> HIDE DEF f
<1>7. Agrees(g)
  BY <1>1, <1>3, <1>5, <1>6, MadeAreNew, AgreesAfter
<1> QED  BY <1>1, <1>7 DEF f, g
LEMMA AgreesNext ==
  ASSUME program' = program, Agrees(ir')
  PROVE  Agrees(ir)'
BY DEF Agrees, Origs

LEMMA AgreesUnmoved ==
  ASSUME AgreesInv, UNCHANGED << program, ir, globals, maps >>
  PROVE  AgreesInv'
<1>1. Agrees(ir)'
  BY AgreesNext DEF AgreesInv
<1> QED  BY <1>1 DEF AgreesInv, Sites, SourceID, maps

LEMMA InitAgrees == Init => AgreesInv
<1> SUFFICES ASSUME Init PROVE AgreesInv
  OBVIOUS
<1>1. program \in Programs /\ ir = program.function /\ globals = <<>> /\ Sites = {}
  BY DEF Init, EngineInit, Sites
<1> QED  BY <1>1, CalledAgrees DEF AgreesInv

LEMMA ConstructAgrees == IInv /\ AgreesInv /\ Construct => AgreesInv'
<1> SUFFICES ASSUME IInv, AgreesInv, Construct PROVE AgreesInv'
  OBVIOUS
<1>1. /\ program \in Programs /\ program' = program /\ globals' = globals /\ UNCHANGED maps
      /\ ir = program.function
      /\ ir' = IF program.name = "main" THEN Called(program.function) ELSE program.function
  BY NothingYet DEF IInv, ProgramInv, Construct, prepare, maps, Called
<1>2. Agrees(ir')
  BY <1>1, CalledAgrees
<1>3. Agrees(ir)'
  BY <1>1, <1>2, AgreesNext
<1> QED  BY <1>1, <1>3 DEF AgreesInv, Sites, SourceID, maps

LEMMA EndAgrees == IInv /\ FlowInv /\ AgreesInv /\ End => AgreesInv'
<1> SUFFICES ASSUME IInv, FlowInv, AgreesInv, End PROVE AgreesInv'
  OBVIOUS
<1>1. /\ program \in Programs /\ program' = program /\ globals' = globals /\ UNCHANGED maps
      /\ ir' = IF hasBeenMutated(current) THEN Erase(ir, current) ELSE ir
      /\ current # None
  BY DEF IInv, ProgramInv, End, EndMutate, maps
<1>2. Agrees(ir')
  <2>1. CASE hasBeenMutated(current)
    <3>1. current \in Sites /\ current \in DOMAIN ir.code
      BY <1>1, <2>1 DEF hasBeenMutated, Sites, IInv, VisitInv
    <3>2. WellFormed(ir, Names) /\ ShapeInv(ir, Sites, mutations)
      BY DEF IInv, FunctionInv, FlowInv
    <3>3. CanErase(ir, Sites, mutations, current)
      BY <3>1, <3>2, FunctionIsFinite DEF CanErase
    <3> QED  BY <1>1, <2>1, <3>3, ErasedAgrees, FunctionIsFinite DEF AgreesInv
  <2>2. CASE ~ hasBeenMutated(current)
    BY <1>1, <2>2 DEF AgreesInv
  <2> QED  BY <2>1, <2>2
<1>3. Agrees(ir)'
  BY <1>1, <1>2, AgreesNext
<1> QED  BY <1>1, <1>3 DEF AgreesInv, Sites, SourceID, maps

LEMMA InjectAgrees == IInv /\ FlowInv /\ AgreesInv /\ Inject => AgreesInv'
<1> SUFFICES ASSUME IInv, FlowInv, AgreesInv, Inject PROVE AgreesInv'
  OBVIOUS
<1> DEFINE i == current
           c == Head(pending)
           m == Mutation(i, c)
           f == PreparedFor(i)
           S == Sites \cup {i}
<1>1. /\ program \in Programs /\ program' = program /\ inject(i, c)
      /\ i \in DOMAIN ir.code \cap DOMAIN program.id /\ i \in Origs
      /\ MutatorFor(ir.code[i].op) # "none"
      /\ Sites' = S
      /\ ir' = Injected(f, i, Len(mutations) + 1, c)
      /\ ~ hasBeenMutated(i) => CanPrepare(ir, Sites, mutations, i)
      /\ CanInject(f, S, mutations, i, c, m)
  BY InjectIs, InjectCan
<1>2. Agrees(f) /\ IsFiniteSet(DOMAIN f.code)
  <2>1. CASE hasBeenMutated(i)
    BY <2>1, FunctionIsFinite DEF PreparedFor, AgreesInv
  <2>2. CASE ~ hasBeenMutated(i)
    <3>1. f = PreparedIR(ir, i)
      BY <2>2 DEF PreparedFor
    <3>2. mutations \in Seq(MutationRecords)
      BY DEF IInv, MutationsInv
    <3> HIDE DEF f
    <3> QED  BY <1>1, <2>2, <3>1, <3>2, PreparedAgrees, FunctionIsFinite DEF AgreesInv
  <2> QED  BY <2>1, <2>2
<1> HIDE DEF f, c, m
<1>3. Agrees(ir')
  BY <1>1, <1>2, InjectedAgrees
<1>4. Agrees(ir)'
  BY <1>1, <1>3, AgreesNext
<1>5. \A j \in Sites' : MutatorFor(program'.function.code[j].op) # "none"
  BY <1>1 DEF AgreesInv, Agrees
<1>6. DOMAIN globals' \subseteq {Global(SourceID(j)) : j \in Sites'}
  <2>1. DOMAIN globals' \subseteq DOMAIN globals \cup {Global(SourceID(i))}
    BY <1>1 DEF inject, prepareInstruction, Emplace, Put
  <2> QED  BY <1>1, <2>1 DEF AgreesInv
<1> QED  BY <1>1, <1>4, <1>5, <1>6 DEF AgreesInv, SourceID

LEMMA StepAgrees == IInv /\ FlowInv /\ AgreesInv /\ [Next]_vars => AgreesInv'
<1> SUFFICES ASSUME IInv, FlowInv, AgreesInv, [Next]_vars PROVE AgreesInv'
  OBVIOUS
<1>1. CASE Construct
  BY <1>1, ConstructAgrees
<1>2. CASE Collect
  BY <1>2, AgreesUnmoved DEF Collect, engineVars
<1>3. CASE \E i \in instructions : Begin(i)
  BY <1>3, AgreesUnmoved DEF Begin, BeginMutate
<1>4. CASE Skip
  BY <1>4, AgreesUnmoved DEF Skip, SkipCandidate
<1>5. CASE Inject
  BY <1>5, InjectAgrees
<1>6. CASE End
  BY <1>6, EndAgrees
<1>7. CASE Mutated \/ WriteTable \/ WriteBitcode \/ UNCHANGED vars
  BY <1>7, AgreesUnmoved
     DEF Mutated, WriteTable, writeMutationTable, WriteBitcode, vars, engineVars
<1>8. CASE Returned
  BY <1>8, AgreesUnmoved DEF Returned, vars, engineVars
<1> QED  BY <1>1, <1>2, <1>3, <1>4, <1>5, <1>6, <1>7, <1>8 DEF Next

-------------------------------------------------------------------------------
(* So a mutator that comes late is offered what it would have been at first. *)

\* The mutations the program as it was given has for instruction i.
Given == [args |-> program.args, globals |-> program.globals]

Offered(i) ==
  {c \in OfferedTo(program.function, Given, i) :
     ~ Skipped(program.function, program.function.code[i], c)}

\* An operand of the program or one of the engine, that a load skips anyway.
LEMMA SkippedIs ==
  ASSUME IInv, FlowInv, AgreesInv, NEW i \in DOMAIN ir.code \cap Origs, NEW c
  PROVE  Skipped(ir, ir.code[i], c) <=> Skipped(program.function, program.function.code[i], c)
<1> DEFINE s == program.function
<1>1. ir.code[i].op = s.code[i].op /\ DOMAIN s.code = Origs
  BY DEF AgreesInv, Agrees, Origs
<1>2. /\ \A x \in DOMAIN ir.code : ir.code[x].op = "alloca" => x \in Origs
      /\ Origs \ Sites \subseteq DOMAIN ir.code
  BY DEF IInv, FunctionInv, FlowInv, ShapeInv, NamesInv
<1>3. c \in DOMAIN ir.code /\ ir.code[c].op = "alloca"
        <=> c \in DOMAIN s.code /\ s.code[c].op = "alloca"
  <2>1. ASSUME c \in DOMAIN ir.code, ir.code[c].op = "alloca"
        PROVE  c \in DOMAIN s.code /\ s.code[c].op = "alloca"
    BY <1>1, <1>2, <2>1 DEF AgreesInv, Agrees
  <2>2. ASSUME c \in DOMAIN s.code, s.code[c].op = "alloca"
        PROVE  c \in DOMAIN ir.code /\ ir.code[c].op = "alloca"
    <3>1. c \notin Sites
      BY <2>2, MutatorIs DEF AgreesInv
    <3> QED  BY <1>1, <1>2, <2>2, <3>1 DEF AgreesInv, Agrees
  <2> QED  BY <2>1, <2>2
<1> HIDE DEF s
<1> QED  BY <1>1, <1>3 DEF Skipped, s

\* What the program offers for i is what the function that is left does, without
\* what a mutator skips.
LEMMA OfferedIs ==
  ASSUME IInv, FlowInv, AgreesInv, NEW i \in DOMAIN ir.code \cap Origs
  PROVE  Offered(i) = {c \in OfferedTo(ir, Environment, i) :
                         ~ Skipped(program.function, program.function.code[i], c)}
<1> DEFINE s == program.function
<1>1. ir.code[i].op = s.code[i].op /\ ir.code[i].ty = s.code[i].ty
  BY DEF AgreesInv, Agrees
<1>2. CASE MutatorFor(s.code[i].op) # "LoadMutator"
  <2>1. OfferedTo(ir, Environment, i) = OfferedTo(s, Given, i)
    BY <1>1, <1>2 DEF OfferedTo, BinOpcodeCandidates, ICmpCandidates
  <2> QED  BY <2>1 DEF Offered
<1>3. CASE MutatorFor(s.code[i].op) = "LoadMutator"
  <2> DEFINE ty == s.code[i].ty
  <2>1. /\ OfferedTo(ir, Environment, i) = findReachingValuesWithType(ir, Environment, i, ty)
        /\ OfferedTo(s, Given, i) = findReachingValuesWithType(s, Given, i, ty)
        /\ s.code[i].op = "load"
    BY <1>1, <1>3, MutatorIs DEF OfferedTo
  <2>2. ASSUME NEW c, ~ Skipped(s, s.code[i], c)
        PROVE  c \in findReachingValuesWithType(ir, Environment, i, ty)
                 <=> c \in findReachingValuesWithType(s, Given, i, ty)
    <3>1. /\ c \in DOMAIN ir.code \cap Origs /\ c \in DOMAIN s.code
          /\ ir.code[c].op = "alloca" /\ s.code[c].op = "alloca"
      <4>1. ~ Skipped(ir, ir.code[i], c)
        BY <2>2, SkippedIs
      <4>2. c \in DOMAIN ir.code /\ ir.code[c].op = "alloca"
        BY <1>1, <2>1, <4>1 DEF Skipped
      <4>3. c \in DOMAIN s.code /\ s.code[c].op = "alloca"
        BY <2>1, <2>2 DEF Skipped
      <4> QED  BY <4>2, <4>3 DEF Origs
    <3>2. c \in Earlier(ir, i) <=> c \in Earlier(s, i)
      BY <3>1 DEF AgreesInv, Agrees
    <3>3. ir.code[c].ty = s.code[c].ty
      BY <3>1 DEF AgreesInv, Agrees
    <3>4. c \notin DOMAIN globals
      BY <3>1, MadeAreNew DEF AgreesInv, IInv, ProgramInv
    <3>5. /\ Environment.args = Given.args
          /\ c \in DOMAIN Environment.globals <=> c \in DOMAIN Given.globals
          /\ c \in DOMAIN Given.globals => Environment.globals[c] = Given.globals[c]
      BY <3>4 DEF Environment, Given
    <3>6. c \in findReachingValues(ir, Environment, i) <=> c \in findReachingValues(s, Given, i)
      BY <3>2, <3>5, ReachingIs
    <3> QED  BY <3>1, <3>3, <3>5, <3>6 DEF findReachingValuesWithType
  <2> HIDE DEF ty
  <2> QED  BY <2>1, <2>2 DEF Offered
<1> QED  BY <1>2, <1>3

-------------------------------------------------------------------------------
(* What has been done and what is still to be done.                        *)

Done(M, i, c) == \E n \in DOMAIN M : M[n].original = i /\ M[n].variant = c

\* The mutator's list has no element twice, and nothing happens before mutate().
ListInv ==
  /\ IsList(pending) /\ Unrepeated(pending)
  /\ phase \in {"construct", "collect"} => mutations = <<>> /\ Sites = {}
  /\ instructions # {} \/ current # None => isMutableFunction

\* Each mutation is one the program offers, and there once.
DoneInv ==
  /\ \A m, n \in DOMAIN mutations :
       /\ mutations[m].original = mutations[n].original
       /\ mutations[m].variant = mutations[n].variant
       => m = n
  /\ \A n \in DOMAIN mutations :
       /\ mutations[n].variant \in Offered(mutations[n].original)
       /\ mutations[n].original \notin instructions
       /\ isMutableFunction

\* The list of the current instruction has what it offers and is not yet done.
CurrentInv ==
  current # None =>
    /\ \A c \in ToSet(pending) :
         /\ ~ Done(mutations, current, c)
         /\ ~ Skipped(program.function, program.function.code[current], c)
              => c \in Offered(current)
    /\ \A c \in Offered(current) : c \in ToSet(pending) \/ Done(mutations, current, c)

\* What run() has left behind has all its mutations.
VisitedInv ==
  phase \notin {"construct", "collect"} /\ isMutableFunction =>
    \A i \in DOMAIN program.id \ (instructions \cup {current}) :
      \A c \in Offered(i) : Done(mutations, i, c)

WorkInv == ListInv /\ DoneInv /\ CurrentInv /\ VisitedInv

LEMMA OfferedNext ==
  ASSUME program' = program
  PROVE  /\ isMutableFunction' <=> isMutableFunction
         /\ \A i : Offered(i)' = Offered(i)
<1>1. isMutableFunction' <=> isMutableFunction
  BY DEF isMutableFunction, restrictToFiles, restrictToFunctions, Listed
<1>2. \A i : Offered(i)' = Offered(i)
  BY DEF Offered, Given
<1> QED  BY <1>1, <1>2

LEMMA WorkUnmoved ==
  ASSUME WorkInv,
         UNCHANGED << program, current, pending, mutations, instructions, maps >>,
         phase' \in {"construct", "collect"} <=> phase \in {"construct", "collect"}
  PROVE  WorkInv'
<1>1. Sites' = Sites
  BY DEF Sites, maps
<1>2. isMutableFunction' <=> isMutableFunction
  BY OfferedNext
<1>3. \A i : Offered(i)' = Offered(i)
  BY OfferedNext
<1>4. ListInv'
  BY <1>1, <1>2 DEF WorkInv, ListInv
<1>5. DoneInv'
  BY <1>2, <1>3 DEF WorkInv, DoneInv
<1>6. CurrentInv'
  BY <1>3 DEF WorkInv, CurrentInv, Done
<1>7. VisitedInv'
  BY <1>2, <1>3 DEF WorkInv, VisitedInv, Done
<1> QED  BY <1>4, <1>5, <1>6, <1>7 DEF WorkInv

LEMMA InitWork == Init => WorkInv
<1> SUFFICES ASSUME Init PROVE WorkInv
  OBVIOUS
<1>1. /\ pending = <<>> /\ mutations = <<>> /\ Sites = {} /\ instructions = {}
      /\ current = None /\ phase = "construct"
  BY DEF Init, EngineInit, Sites
<1>2. IsList(<<>>) /\ Unrepeated(<<>>)
  BY DEF IsList, Unrepeated
<1> QED  BY <1>1, <1>2 DEF WorkInv, ListInv, DoneInv, CurrentInv, VisitedInv

\* Of a function that is mutated the filters leave out only calls among the mapped
\* instructions, and no mutator takes a call.
LEMMA CallsOfferNothing ==
  ASSUME NEW i, program.function.code[i].op = "call"
  PROVE  Offered(i) = {}
<1>1. MutatorFor("call") = "none"
  <2>1. /\ "call" \notin ToSet(IntOpcodes) \cup ToSet(FloatOpcodes)
        /\ "call" \notin ToSet(SignedPredicates) \cup ToSet(UnsignedPredicates)
    BY DEF ToSet, IntOpcodes, FloatOpcodes, SignedPredicates, UnsignedPredicates
  <2> QED  BY <2>1 DEF MutatorFor
<1> QED  BY <1>1 DEF Offered, OfferedTo

\* No instruction is due at first but those that are collected.
LEMMA CollectWork == IInv /\ FlowInv /\ AgreesInv /\ WorkInv /\ Collect => WorkInv'
<1> SUFFICES ASSUME IInv, FlowInv, AgreesInv, WorkInv, Collect PROVE WorkInv'
  OBVIOUS
<1>1. /\ phase = "collect" /\ phase' = "mutate"
      /\ instructions' = {i \in DOMAIN ir.code : isMutableFunction /\ isMutable(i)}
      /\ UNCHANGED << program, current, pending, mutations, maps >>
      /\ current = None /\ mutations = <<>> /\ Sites = {}
  BY DEF Collect, engineVars, IInv, VisitInv, WorkInv, ListInv
<1>2. isMutableFunction' <=> isMutableFunction
  BY <1>1, OfferedNext
<1>3. \A i : Offered(i)' = Offered(i)
  BY <1>1, OfferedNext
<1>4. ListInv'
  BY <1>1, <1>2 DEF WorkInv, ListInv
<1>5. DoneInv' /\ CurrentInv'
  BY <1>1 DEF DoneInv, CurrentInv
<1>6. ASSUME isMutableFunction, NEW i \in DOMAIN program.id, i \notin instructions'
      PROVE  Offered(i) = {}
  <2>1. i \in DOMAIN ir.code \cap Origs
    BY <1>1, ProgramIs DEF IInv, ProgramInv, FlowInv, ShapeInv, NamesInv
  <2>2. ~ InstrumentationFilter(i)
    BY <1>1, <1>6, <2>1 DEF isMutable, DebugInfoFilter, FunctionFilter, isMutableFunction
  <2>3. program.function.code[i].op = "call"
    BY <2>1, <2>2 DEF InstrumentationFilter, AgreesInv, Agrees
  <2> QED  BY <2>3, CallsOfferNothing
<1>7. VisitedInv'
  BY <1>1, <1>2, <1>3, <1>6 DEF VisitedInv
<1> QED  BY <1>4, <1>5, <1>7 DEF WorkInv

\* What a mutator may walk is finite.
LEMMA OffersFinite ==
  ASSUME IInv, FlowInv, AgreesInv, NEW i \in DOMAIN ir.code
  PROVE  IsFiniteSet(findReachingValues(ir, Environment, i))
<1>1. /\ IsFiniteSet(DOMAIN program.args) /\ IsFiniteSet(DOMAIN program.globals)
      /\ IsFiniteSet(DOMAIN ir.code) /\ IsFiniteSet(Sites)
      /\ WellFormed(ir, Names) /\ Verified(ir)
  BY SourceIsFinite, FunctionIsFinite
     DEF IInv, ProgramInv, FunctionInv, FlowInv, ShapeInv
<1>2. IsFiniteSet(DOMAIN globals)
  <2> DEFINE h == [j \in Sites |-> Global(SourceID(j))]
  <2>1. IsFiniteSet({h[j] : j \in Sites})
    BY <1>1, FiniteImage
  <2>2. DOMAIN globals \subseteq {h[j] : j \in Sites}
    BY DEF AgreesInv
  <2> HIDE DEF h
  <2> QED  BY <2>1, <2>2, FS_Subset
<1>3. Environment.args = program.args
      /\ DOMAIN Environment.globals = DOMAIN program.globals \cup DOMAIN globals
  BY DEF Environment
<1>4. IsFiniteSet(DOMAIN program.globals \cup DOMAIN globals)
  BY <1>1, <1>2, FS_Union
<1> QED  BY <1>1, <1>3, <1>4, FindsFinite

\* The list of the instruction that run() begins has all that is due for it.
LEMMA BeginWork ==
  ASSUME NEW i \in instructions, IInv, FlowInv, AgreesInv, WorkInv, Begin(i)
  PROVE  WorkInv'
<1>1. /\ phase = "mutate" /\ phase' = "mutate" /\ current = None /\ current' = i
      /\ pending' \in CandidateLists(ir, Environment, i)
      /\ instructions' = instructions \ {i}
      /\ UNCHANGED << program, mutations, maps >>
  BY DEF Begin, BeginMutate, maps
<1>2. i \in DOMAIN ir.code \cap Origs /\ i # None /\ None \notin DOMAIN program.id
  BY ProgramIs DEF IInv, ProgramInv, VisitInv
<1>3. IsList(pending') /\ Unrepeated(pending') /\ ToSet(pending') = OfferedTo(ir, Environment, i)
  BY <1>1, <1>2, OffersFinite, ListsAre
<1>4. isMutableFunction /\ (isMutableFunction' <=> isMutableFunction)
  BY <1>1, OfferedNext DEF WorkInv, ListInv
<1>5. \A j : Offered(j)' = Offered(j)
  BY <1>1, OfferedNext
<1>6. ListInv'
  BY <1>1, <1>3, <1>4 DEF ListInv
<1>7. DoneInv'
  BY <1>1, <1>4, <1>5 DEF WorkInv, DoneInv
<1>8. \A c : ~ Done(mutations, i, c)
  BY DEF WorkInv, DoneInv, Done
<1>9. /\ \A c \in ToSet(pending') :
           ~ Skipped(program.function, program.function.code[i], c) => c \in Offered(i)
      /\ \A c \in Offered(i) : c \in ToSet(pending')
  BY <1>2, <1>3, OfferedIs
<1>10. CurrentInv'
  BY <1>1, <1>5, <1>8, <1>9 DEF CurrentInv, Done
<1>11. VisitedInv'
  <2>1. \A j \in DOMAIN program.id \ (instructions' \cup {current'}) :
          j \in DOMAIN program.id \ (instructions \cup {current})
    BY <1>1, <1>2
  <2> QED  BY <1>1, <1>4, <1>5, <2>1 DEF WorkInv, VisitedInv, Done
<1> QED  BY <1>6, <1>7, <1>10, <1>11 DEF WorkInv

\* What a mutator skips was not due.
LEMMA SkipWork == IInv /\ FlowInv /\ AgreesInv /\ WorkInv /\ Skip => WorkInv'
<1> SUFFICES ASSUME IInv, FlowInv, AgreesInv, WorkInv, Skip PROVE WorkInv'
  OBVIOUS
<1>1. /\ pending # <<>> /\ pending' = Tail(pending)
      /\ Skipped(ir, ir.code[current], Head(pending))
      /\ UNCHANGED << program, current, mutations, instructions, phase, maps >>
  BY DEF Skip, SkipCandidate, maps
<1>2. /\ current # None /\ current \in DOMAIN ir.code \cap Origs
  BY <1>1, ProgramIs DEF IInv, ProgramInv, PendingInv, VisitInv
<1>3. /\ IsList(pending') /\ Unrepeated(pending')
      /\ ToSet(pending') = ToSet(pending) \ {Head(pending)}
  BY <1>1, TailIs DEF WorkInv, ListInv
<1>4. Skipped(program.function, program.function.code[current], Head(pending))
  BY <1>1, <1>2, SkippedIs
<1>5. isMutableFunction' <=> isMutableFunction
  BY <1>1, OfferedNext
<1>6. \A i : Offered(i)' = Offered(i)
  BY <1>1, OfferedNext
<1>7. Sites' = Sites
  BY <1>1 DEF Sites, maps
<1>8. ListInv'
  BY <1>1, <1>3, <1>5, <1>7 DEF WorkInv, ListInv
<1>9. DoneInv'
  BY <1>1, <1>5, <1>6 DEF WorkInv, DoneInv
<1>10. Head(pending) \notin Offered(current)
  BY <1>4 DEF Offered
<1>11. CurrentInv'
  BY <1>1, <1>2, <1>3, <1>6, <1>10 DEF WorkInv, CurrentInv, Done
<1>12. VisitedInv'
  BY <1>1, <1>5, <1>6 DEF WorkInv, VisitedInv, Done
<1> QED  BY <1>8, <1>9, <1>11, <1>12 DEF WorkInv

\* What it injects was due, and had not been done.
LEMMA InjectWork == IInv /\ FlowInv /\ AgreesInv /\ WorkInv /\ Inject => WorkInv'
<1> SUFFICES ASSUME IInv, FlowInv, AgreesInv, WorkInv, Inject PROVE WorkInv'
  OBVIOUS
<1> DEFINE i == current
           c == Head(pending)
           m == Mutation(i, c)
           n == Len(mutations) + 1
<1>1. /\ pending # <<>> /\ pending' = Tail(pending)
      /\ ~ Skipped(ir, ir.code[i], c)
      /\ UNCHANGED << program, current, instructions, phase >>
  BY DEF Inject, InjectCandidate
<1>2. /\ current # None /\ i \in DOMAIN ir.code \cap Origs /\ i \notin instructions
      /\ phase = "mutate"
  BY <1>1, ProgramIs DEF IInv, ProgramInv, PendingInv, VisitInv
<1>3. /\ IsList(pending') /\ Unrepeated(pending')
      /\ ToSet(pending') = ToSet(pending) \ {c} /\ c \in ToSet(pending)
  BY <1>1, TailIs DEF WorkInv, ListInv
<1>4. ~ Skipped(program.function, program.function.code[i], c)
  BY <1>1, <1>2, SkippedIs
<1>5. c \in Offered(i) /\ ~ Done(mutations, i, c) /\ isMutableFunction
  BY <1>2, <1>3, <1>4 DEF WorkInv, CurrentInv, ListInv
<1>6. m.original = i /\ m.variant = c
  BY DEF Mutation
<1>7. /\ DOMAIN mutations' = DOMAIN mutations \cup {n}
      /\ mutations'[n] = m /\ n \notin DOMAIN mutations
      /\ \A k \in DOMAIN mutations : mutations'[k] = mutations[k]
  <2>1. /\ mutations' = Append(mutations, m)
        /\ MayInject(PreparedFor(i), Sites \cup {i}, mutations, i, c, m)
    BY InjectIs
  <2> HIDE DEF m
  <2> QED  BY <2>1, MutationsAppended DEF MayInject
<1> HIDE DEF m, n
<1>8. \A j, d : Done(mutations', j, d) <=> Done(mutations, j, d) \/ (j = i /\ d = c)
  BY <1>6, <1>7 DEF Done
<1>9. isMutableFunction' <=> isMutableFunction
  BY <1>1, OfferedNext
<1>10. \A j : Offered(j)' = Offered(j)
  BY <1>1, OfferedNext
<1>11. ListInv'
  BY <1>1, <1>2, <1>3, <1>5, <1>9 DEF ListInv
<1>12. DoneInv'
  <2>1. ASSUME NEW k \in DOMAIN mutations', NEW l \in DOMAIN mutations',
               mutations'[k].original = mutations'[l].original,
               mutations'[k].variant = mutations'[l].variant
        PROVE  k = l
    <3>1. CASE k = n /\ l = n
      BY <3>1
    <3>2. CASE k = n /\ l # n
      BY <1>5, <1>6, <1>7, <2>1, <3>2 DEF Done
    <3>3. CASE k # n /\ l = n
      BY <1>5, <1>6, <1>7, <2>1, <3>3 DEF Done
    <3>4. CASE k # n /\ l # n
      BY <1>7, <2>1, <3>4 DEF WorkInv, DoneInv
    <3> QED  BY <3>1, <3>2, <3>3, <3>4
  <2>2. ASSUME NEW k \in DOMAIN mutations'
        PROVE  /\ mutations'[k].variant \in Offered(mutations'[k].original)
               /\ mutations'[k].original \notin instructions
    BY <1>2, <1>5, <1>6, <1>7 DEF WorkInv, DoneInv
  <2> QED  BY <1>1, <1>5, <1>9, <1>10, <2>1, <2>2 DEF DoneInv
<1>13. CurrentInv'
  <2>1. ASSUME NEW d \in ToSet(pending')
        PROVE  /\ ~ Done(mutations', i, d)
               /\ ~ Skipped(program.function, program.function.code[i], d) => d \in Offered(i)
    BY <1>2, <1>3, <1>8 DEF WorkInv, CurrentInv
  <2>2. ASSUME NEW d \in Offered(i) PROVE d \in ToSet(pending') \/ Done(mutations', i, d)
    BY <1>2, <1>3, <1>8 DEF WorkInv, CurrentInv
  <2>3. \A M, j, d : Done(M, j, d)' <=> Done(M', j, d)
    BY DEF Done
  <2> QED  BY <1>1, <1>10, <2>1, <2>2 DEF CurrentInv, Done
<1>14. VisitedInv'
  <2>1. \A j \in DOMAIN program.id \ (instructions \cup {current}) :
          \A d \in Offered(j) : isMutableFunction => Done(mutations', j, d)
    BY <1>2, <1>8 DEF WorkInv, VisitedInv
  <2> QED  BY <1>1, <1>9, <1>10, <2>1 DEF VisitedInv, Done
<1> QED  BY <1>11, <1>12, <1>13, <1>14 DEF WorkInv

\* When its list is empty, nothing is due for the instruction any more.
LEMMA EndWork == IInv /\ WorkInv /\ End => WorkInv'
<1> SUFFICES ASSUME IInv, WorkInv, End PROVE WorkInv'
  OBVIOUS
<1>1. /\ current # None /\ current' = None /\ pending = <<>> /\ pending' = pending
      /\ UNCHANGED << program, mutations, instructions, phase, maps >>
  BY DEF End, EndMutate, maps
<1>2. isMutableFunction' <=> isMutableFunction
  BY <1>1, OfferedNext
<1>3. \A i : Offered(i)' = Offered(i)
  BY <1>1, OfferedNext
<1>4. ListInv'
  BY <1>1, <1>2 DEF WorkInv, ListInv, Sites, maps
<1>5. DoneInv'
  BY <1>1, <1>2, <1>3 DEF WorkInv, DoneInv
<1>6. CurrentInv'
  BY <1>1 DEF CurrentInv
<1>7. \A c \in Offered(current) : Done(mutations, current, c)
  BY <1>1 DEF WorkInv, CurrentInv, ToSet
<1>8. VisitedInv'
  BY <1>1, <1>2, <1>3, <1>7 DEF WorkInv, VisitedInv, Done
<1> QED  BY <1>4, <1>5, <1>6, <1>8 DEF WorkInv

LEMMA StepWork == IInv /\ FlowInv /\ AgreesInv /\ WorkInv /\ [Next]_vars => WorkInv'
<1> SUFFICES ASSUME IInv, FlowInv, AgreesInv, WorkInv, [Next]_vars PROVE WorkInv'
  OBVIOUS
<1>1. CASE Construct
  BY <1>1, WorkUnmoved DEF Construct, prepare, maps
<1>2. CASE Collect
  BY <1>2, CollectWork
<1>3. CASE \E i \in instructions : Begin(i)
  BY <1>3, BeginWork
<1>4. CASE Skip
  BY <1>4, SkipWork
<1>5. CASE Inject
  BY <1>5, InjectWork
<1>6. CASE End
  BY <1>6, EndWork
<1>7. CASE Mutated \/ WriteTable \/ WriteBitcode \/ UNCHANGED vars
  BY <1>7, WorkUnmoved
     DEF Mutated, WriteTable, writeMutationTable, WriteBitcode, vars, engineVars
<1>8. CASE Returned
  BY <1>8, WorkUnmoved DEF Returned, vars, engineVars
<1> QED  BY <1>1, <1>2, <1>3, <1>4, <1>5, <1>6, <1>7, <1>8 DEF Next

\* In every state of every run the function that is left offers for each of its
\* instructions what the program offered, the mutations are among those the
\* program offers, none of them twice, and none is missing that is not still due.
THEOREM WorkInvariance == Spec => [](IInv /\ FlowInv /\ AgreesInv /\ WorkInv)
<1>1. Init => IInv /\ FlowInv /\ AgreesInv /\ WorkInv
  BY InitInv, InitFlow, InitAgrees, InitWork
<1>2. IInv /\ FlowInv /\ AgreesInv /\ WorkInv /\ [Next]_vars
        => (IInv /\ FlowInv /\ AgreesInv /\ WorkInv)'
  BY StepInv, StepFlow, StepAgrees, StepWork
<1> QED  BY <1>1, <1>2, PTL DEF Spec

\* What the program offers is what the property looks up: the first list of the
\* mutator, without what it skips.
LEMMA FirstListIs ==
  ASSUME program \in Programs, NEW i \in Origs
  PROVE  ToSet(CHOOSE l \in CandidateLists(program.function, Given, i) : TRUE)
           = OfferedTo(program.function, Given, i)
<1> DEFINE L == CandidateLists(program.function, Given, i)
<1>1. /\ WellFormed(program.function, Origs) /\ Verified(program.function)
      /\ DOMAIN program.function.code = Origs
      /\ IsFiniteSet(Origs) /\ IsFiniteSet(DOMAIN program.args)
      /\ IsFiniteSet(DOMAIN program.globals)
  BY Zenon, ProgramsAssumption, ProgramIs, SourceIsFinite DEF IsProgram, Origs
<1>2. Given.args = program.args /\ Given.globals = program.globals
  BY DEF Given
<1>3. IsFiniteSet(findReachingValues(program.function, Given, i))
  BY <1>1, <1>2, FindsFinite
<1>4. L # {} /\ \A s \in L : ToSet(s) = OfferedTo(program.function, Given, i)
  BY <1>3, ListsAre
<1> HIDE DEF L
<1>5. (CHOOSE l \in L : TRUE) \in L
  BY <1>4
<1> QED  BY <1>4, <1>5 DEF L

\* The mutations of a list with no two alike, as pairs.
LEMMA CountOfMutations ==
  ASSUME NEW M \in Seq(MutationRecords),
         \A m, n \in DOMAIN M :
           M[m].original = M[n].original /\ M[m].variant = M[n].variant => m = n
  PROVE  Len(M) = Cardinality({<<M[n].original, M[n].variant>> : n \in DOMAIN M})
<1> DEFINE P == {<<M[n].original, M[n].variant>> : n \in DOMAIN M}
           s == [n \in 1 .. Len(M) |-> <<M[n].original, M[n].variant>>]
<1>1. Len(M) \in Nat /\ DOMAIN M = 1 .. Len(M)
  OBVIOUS
<1>2. s \in [1 .. Len(M) -> P]
  BY <1>1
<1>3. /\ s \in Seq(P) /\ Len(s) = Len(M) /\ DOMAIN s = DOMAIN M
      /\ \A n \in DOMAIN M : s[n] = <<M[n].original, M[n].variant>>
  BY <1>1, <1>2
<1>4. P = {s[n] : n \in DOMAIN s}
  BY <1>3
<1> HIDE DEF s, P
<1>5. ASSUME NEW m \in DOMAIN s, NEW n \in DOMAIN s, s[m] = s[n] PROVE m = n
  BY <1>3, <1>5
<1>6. Len(s) = Cardinality(ToSet(s))
  BY <1>3, <1>5, CountOfDistinct
<1>7. ToSet(s) = P
  BY <1>4 DEF ToSet
<1> QED  BY <1>3, <1>6, <1>7 DEF P

\* When the table is written the mutations are those of the program as it was
\* given, each of them once, whatever the order in which run() took the
\* instructions from the set: no block, load or global of an earlier mutation
\* adds one to what a later visit finds, and no split or erasure takes one away.
THEOREM OrderDoesNotMatter == Spec => []OrderIndependent
<1>1. IInv /\ WorkInv => OrderIndependent
  <2> SUFFICES ASSUME IInv, WorkInv, phase = "table" PROVE OrderIndependent
    BY DEF OrderIndependent
  <2> DEFINE source == program.function
             First(i) == CHOOSE l \in CandidateLists(source, Given, i) : TRUE
             E(i) == {<<i, c>> : c \in {d \in ToSet(First(i)) :
                                          ~ Skipped(source, source.code[i], d)}}
             I == {j \in DOMAIN program.id : isMutableFunction}
             expected == UNION {E(i) : i \in I}
             made == {<<mutations[n].original, mutations[n].variant>> : n \in DOMAIN mutations}
  <2>1. /\ program \in Programs /\ instructions = {} /\ current = None
        /\ DOMAIN program.id \subseteq Origs /\ None \notin Origs
        /\ mutations \in Seq(MutationRecords)
        /\ \A n \in DOMAIN mutations : mutations[n].original \in DOMAIN program.id
    BY ProgramIs DEF IInv, ProgramInv, VisitInv, MutationsInv, MapsInv
  <2>2. ASSUME NEW i \in I PROVE E(i) = {<<i, c>> : c \in Offered(i)}
    <3>1. ToSet(First(i)) = OfferedTo(source, Given, i)
      BY <2>1, FirstListIs
    <3> QED  BY <3>1 DEF Offered
  <2> HIDE DEF E, First
  <2>3. made \subseteq expected
    <3> SUFFICES ASSUME NEW n \in DOMAIN mutations
                 PROVE  <<mutations[n].original, mutations[n].variant>> \in expected
      OBVIOUS
    <3>1. /\ mutations[n].original \in I
          /\ mutations[n].variant \in Offered(mutations[n].original)
      BY <2>1 DEF WorkInv, DoneInv
    <3> QED  BY <2>2, <3>1
  <2>4. expected \subseteq made
    <3> SUFFICES ASSUME NEW i \in I, NEW c \in Offered(i) PROVE <<i, c>> \in made
      BY <2>2
    <3>1. Done(mutations, i, c)
      BY <2>1 DEF WorkInv, VisitedInv
    <3> QED  BY <3>1 DEF Done
  <2>5. made = expected
    BY <2>3, <2>4
  <2>6. Len(mutations) = Cardinality(made)
    BY <2>1, CountOfMutations DEF WorkInv, DoneInv
  <2> QED  BY <2>5, <2>6 DEF OrderIndependent, E, First, Given
<1> QED  BY <1>1, WorkInvariance, PTL

\* Nothing a mutator or a mutation does adds an instruction to visit or a
\* candidate to look at, so each step lowers what run() has left: its phase, then
\* the instructions, then the candidates, then the instruction itself.
THEOREM RunGetsOn == Spec => RunProgresses
<1> DEFINE Less == \/ Rank' < Rank
                   \/ /\ Rank' = Rank
                      /\ \/ Cardinality(instructions') < Cardinality(instructions)
                         \/ /\ instructions' = instructions
                            /\ \/ Len(pending') < Len(pending)
                               \/ pending' = pending /\ current # None /\ current' = None
<1>1. IInv /\ FlowInv /\ WorkInv /\ [Next]_vars => [Less]_vars
  <2> SUFFICES ASSUME IInv, FlowInv, WorkInv, [Next]_vars PROVE Less \/ UNCHANGED vars
    OBVIOUS
  <2>1. CASE Construct
    BY <2>1 DEF Construct, Rank
  <2>2. CASE Collect
    BY <2>2 DEF Collect, Rank
  <2>3. CASE \E i \in instructions : Begin(i)
    <3>1. PICK i \in instructions : Begin(i)
      BY <2>3
    <3>2. phase' = phase /\ instructions' = instructions \ {i}
      BY <3>1 DEF Begin
    <3>3. IsFiniteSet(instructions)
      BY FunctionIsFinite, FS_Subset DEF IInv, VisitInv
    <3>4. /\ Cardinality(instructions') = Cardinality(instructions) - 1
          /\ Cardinality(instructions) \in Nat
      BY <3>2, <3>3, FS_RemoveElement, FS_CardinalityType
    <3> QED  BY <3>2, <3>4 DEF Rank
  <2>4. CASE Skip \/ Inject
    <3>1. /\ pending # <<>> /\ pending' = Tail(pending)
          /\ instructions' = instructions /\ phase' = phase
      BY <2>4 DEF Skip, SkipCandidate, Inject, InjectCandidate
    <3>2. Len(pending') < Len(pending)
      BY <3>1, TailIs DEF WorkInv, ListInv
    <3> QED  BY <3>1, <3>2 DEF Rank
  <2>5. CASE End
    BY <2>5 DEF End, EndMutate, Rank
  <2>6. CASE Mutated
    BY <2>6 DEF Mutated, Rank
  <2>7. CASE WriteTable
    BY <2>7 DEF WriteTable, Rank
  <2>8. CASE WriteBitcode
    BY <2>8 DEF WriteBitcode, Rank
  <2>9. CASE Returned
    BY <2>9 DEF Returned
  <2> QED  BY <2>1, <2>2, <2>3, <2>4, <2>5, <2>6, <2>7, <2>8, <2>9 DEF Next
<1>2. (IInv /\ FlowInv /\ AgreesInv /\ WorkInv) /\ [Next]_vars => [Less]_vars
  BY <1>1
<1>3. Spec => [][Less]_vars
  BY <1>2, WorkInvariance, PTL DEF Spec
<1> QED  BY <1>3 DEF RunProgresses
================================================================================
